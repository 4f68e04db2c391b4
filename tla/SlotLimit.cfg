SPECIFICATION Spec
SYMMETRY Symmetry
CONSTANTS
  s1 = s1
  s2 = s2
  w1 = w1
  w2 = w2
  None = None
  Send = {s1, s2}
  Worker = {w1, w2}
  Immortal = {w2}
  Manual = {}
  MaxActive = 1
  LeaseLen = 1
  CaptureLen = 2
  RetryDelay = 1
  MaxAttempt = 2
  FireAndForget = FALSE
  MaxBumps = 0
  Horizon = 2
INVARIANTS
  SlotLimit
