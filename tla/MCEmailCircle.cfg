SPECIFICATION Spec
CONSTANTS
  NumMails = 2
  MaxSent = 1
  MaxRestarts = 1
INVARIANT CirclesAreGuarded
CHECK_DEADLOCK FALSE
