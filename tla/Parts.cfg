SPECIFICATION PartsSpec
CONSTANTS
  Run = {1, 2, 3}
  Query = {"", "q"}
  Matching <- MCMatching
  PageSize = 1
  MaxStamp = 3
  Chat = {"first", "second"}
  NoChat = "none"
  Original = "original"
  Reply = {"reply"}
  Completed = 2
  LastVersion <- MCLastVersion
  MaxLoads = 2
  PinRun = {"first", "second"}
  MaxClicks = 3
  MaxOthers = 1
  ReadRun = {"first"}
  MaxRevision = 2
  ReceiptSlot = {1, 2}
  MaxBulk = 1
  New = "new"
  Open = "open"
  Elsewhere = "elsewhere"
  MaxContext = 2
  MaxLength = 2
  MaxPieces = 3
  MaxRecords = 2
  MaxIds = 2
  SendSlot = {1, 2}
  MaxReloads = 1
  MaxRefusals = 1
  MaxVersion = 2
  MaxOpenings = 2
  LastJob = 2
  MutexGroup = {1, 2}
  Schedule <- MCSchedule
  Day = 2
  Jitter = {0}
  MaxWall = 3
  MaxRequests = 1
  MaxDeaths = 1
  Tab = {"tab"}
  MaxAge = 2
  PerTick = 1
  MaxTime = 6
  Frontends = Frontends
  LastGeneration = 2
INVARIANTS
  NoHole
  ShownIsOneChat
  NoRefreshIsLost
  PinsAgree
  ClicksShow
  BadgesAgree
  LostIsReconciled
  UnsentIsKept
  JobsAgree
  ImagesBelong
  PendingIsKnown
  GroupExcludes
  OpenIsLeased
  AdmittedServes
PROPERTIES
  TurnsNeverVanish
  KeepsCadence
  SparesActive
VIEW Moved
CHECK_DEADLOCK FALSE
