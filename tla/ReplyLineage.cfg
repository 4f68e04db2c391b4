SPECIFICATION FairSpec
CONSTANTS
  c1 = c1
  c2 = c2
  r1 = r1
  r2 = r2
  None = None
  Chat = {c1}
  Reply = {r1}
  ChatOf <- OneReply
  MaxActive = 1
  MaxOutstanding = 20
  MaxDispatches = 2
  Overtaking = FALSE
  MaxUnits = 2
  MaxCrashes = 1
PROPERTIES
  ReadyIsServed
