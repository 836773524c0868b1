SPECIFICATION Spec
CONSTANTS
  once = once
  often = often
  Names <- MCNames
  Kind <- MCKind
  Delay <- MCDelay
  CatchupLimit = 1
  MaxTimerDelay = 2
  NumSlots = 2
  NumTicks = 1
  MaxTime = 1
  MaxAdds = 2
  MaxCrashes = 1
  MayForget = FALSE
  StoreFails = TRUE
INVARIANTS
  TypeOK
  NoOverlap
  OneShotNotLost
