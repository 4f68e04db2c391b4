SPECIFICATION FairSpec
CONSTANTS
  s1 = s1
  w1 = w1
  w2 = w2
  None = None
  Send = {s1}
  Worker = {w1, w2}
  Immortal = {w2}
  Manual = {}
  MaxActive = 1
  LeaseLen = 1
  CaptureLen = 1
  RetryDelay = 1
  MaxAttempt = 2
  FireAndForget = TRUE
  MaxBumps = 0
  Horizon = 3
PROPERTIES
  ReceiptSettlesQuarantine
