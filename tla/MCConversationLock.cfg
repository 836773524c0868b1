SPECIFICATION Spec
SYMMETRY SessionSymmetry
CONSTANTS
  Nobody = Nobody
  chat1 = chat1
  chat2 = chat2
  Sessions <- MCSessions
  StandbyTimeout = 1
  GlobalTimeout = 2
  OTAExpiry = 1
  MaxAttempts = 2
  LockoutDuration = 2
  MaxTime = 2
  MaxCodes = 2
  MaxRestarts = 1
INVARIANTS
  LockoutSurvives
PROPERTY UnlockIsEarned
