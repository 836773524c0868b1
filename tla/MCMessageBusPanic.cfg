SPECIFICATION Spec
CONSTANTS
  p1 = p1
  p2 = p2
  Publishers <- MCPublishers
  NumChannels = 1
  ContextChannels <- MCContextChannels
  Cap <- MCCap
  MaxCalls = 1
INVARIANT PublishNeverPanics
