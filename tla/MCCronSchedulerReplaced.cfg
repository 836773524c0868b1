SPECIFICATION Spec
CONSTANTS
  once = once
  often = often
  Names <- MCNames
  Kind <- MCKind
  Delay <- MCLongDelay
  CatchupLimit = 1
  MaxTimerDelay = 2
  NumSlots = 1
  NumTicks = 1
  MaxTime = 2
  MaxAdds = 2
  MaxCrashes = 0
  MayForget = TRUE
  StoreFails = FALSE
INVARIANT OneShotNotLost
