SPECIFICATION FairNoticeSpec
CONSTANTS
  Topic = {"jobs"}
  Status = "status"
  Sync = "sync"
  Ping = "ping"
  Outage = "outage"
  ReadError = {"list unavailable"}
  OtherError = {"copy failed"}
  Feedback = {}
  NoToast = "none"
  MaxWaiting = 1
  Grace = 1
INVARIANTS
  LiveInv
  NoticeIsTrue
PROPERTIES
  PagesCatchUp
  SilenceIsNoticed
  NoticeGoes
