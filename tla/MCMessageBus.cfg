SPECIFICATION FairSpec
CONSTANTS
  p1 = p1
  p2 = p2
  Publishers <- MCPublishers
  NumChannels = 2
  ContextChannels <- MCContextChannels
  Cap <- MCCap
  MaxCalls = 1
INVARIANTS
  TypeOK
  EarlyPublisherNeverPanics
  AnswerIsTrue
PROPERTIES
  ContractHolds
  CloseCompletes
  CancelReleases
