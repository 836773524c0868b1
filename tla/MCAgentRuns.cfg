SPECIFICATION AgentSpec
CONSTANTS
  NumTurns = 2
  MaxSessions = 2
  MaxCommands = 1
  MaxEvictions = 1
  IsCron = FALSE
  often = often
  Names <- MCNames
  Kind <- MCKind
  Delay <- MCDelay
  CatchupLimit = 1
  MaxTimerDelay = 1
  NumSlots = 1
  NumTicks = 2
  MaxTime = 2
  MaxAdds = 1
  MaxCrashes = 1
  MayForget = FALSE
  StoreFails = FALSE
INVARIANTS
  TypeOK
  NewestTurnIsStoppable
  SupersededIsCancelled
  RegisteredIsOpen
  NoGhostRunning
PROPERTIES
  StoppedTurnStaysSilent
  SupersededTurnEnds
  DueJobIsClaimed
