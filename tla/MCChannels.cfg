SPECIFICATION Spec
CONSTANTS
  Nobody = Nobody
  Sessions = {chat1}
  StandbyTimeout = 1
  GlobalTimeout = 2
  OTAExpiry = 1
  MaxAttempts = 2
  LockoutDuration = 2
  MaxTime = 3
  MaxCodes = 1
  gMaxRestarts = 1
  MaxTexts = 4
  NumTurns = 2
  MaxSessions = 2
  MaxCommands = 0
  MaxEvictions = 1
  dNumMessages = 2
  MaxExtras = 1
  MaxOut = 2
  MaxAnimations = 4
  fMaxSends = 3
  c1 = c1
  c2 = c2
  c3 = c3
  w1 = w1
  w2 = w2
  Conns = {c1, c2, c3}
  WsSessions = {w1, w2}
  SessionOf <- MCSessionOf
  MaxConnections = 2
  MaxDials = 3
  MaxDrops = 2
  aNumMessages = 1
  aMaxSends = 1
  MaxRetries = 2
  NumMails = 2
  MaxSent = 1
  eMaxRestarts = 1
  MaxRefs = 3
  Paths = {p1, p2}
  Scopes = {s1}
  Length = 3
  tNumMessages = 1
INVARIANTS
  TypesOK
  CronSuccessMeansDelivered
  ArtefactsAreReachable
  NoSendAfterStop
  AnimationsAreTracked
  ConnectionsAreServed
  StopIsClean
  LossIsNoticed
  MailIsNotLost
  AnswersShareASession
  RefsHaveFiles
  AnswerShownOnce
PROPERTIES
  LockedReachesNothing
  OutboundIsHandled
  ConnectionsEnd
CHECK_DEADLOCK FALSE
