SPECIFICATION Spec
CONSTANTS
  NumTurns = 2
  MaxSessions = 1
  MaxCommands = 0
  MaxEvictions = 0
  IsCron = FALSE
INVARIANT LaterMessageWins
