SPECIFICATION Spec
CONSTANTS
  NumTurns = 2
  MaxHandoffs = 2
  MaxClears = 2
  MaxRestarts = 1
  MaxEvictions = 1
  StoreFails = TRUE
INVARIANTS
  HeadIsKnown
  AnsweredIsKept
  SessionOnActiveKey
  CacheMatchesStore
  ClearedStaysCleared
PROPERTY
  ConversationHolds
