SPECIFICATION QueueSpec
SYMMETRY Symmetry
CONSTRAINT OneOutOfLine
CONSTANTS
  s1 = s1
  s2 = s2
  w1 = w1
  None = None
  Send = {s1, s2}
  Worker = {w1}
  Manual = {}
  MaxActive = 1
  LeaseLen = 1
  CaptureLen = 2
  RetryDelay = 0
  MaxAttempt = 1
  FireAndForget = FALSE
  MaxBumps = 1
  Horizon = 1
INVARIANTS
  QueueInv
  FirstInFirstOut
PROPERTIES
  TerminalIsFinal
  ReceiptSurvives
