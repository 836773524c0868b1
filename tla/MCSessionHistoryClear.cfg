SPECIFICATION Spec
CONSTANTS
  NumTurns = 2
  MaxHandoffs = 1
  MaxClears = 1
  MaxRestarts = 0
  MaxEvictions = 0
  StoreFails = FALSE
INVARIANT ClearIsFinal
