---------------------------- MODULE LiveUpdates ----------------------------
(***************************************************************************)
(* The event stream between the web server and one browser page            *)
(* (src/ui/liveUpdates.ts; the generator events() of src/web.py).          *)
(*                                                                         *)
(* The stream carries no data: a frame tells a page of a topic to read     *)
(* again.  The page must recover from a stream that ends, stalls, never    *)
(* opens or cannot be built, from hours in the background and from         *)
(* offline hours, and must say so when its data may be old.                *)
(*                                                                         *)
(* JavaScript runs each callback to its end, so each handler is an action. *)
(* A handler calls several functions in a row that change the same         *)
(* variables; they are operators from records to records here, composed    *)
(* as the code composes them.  Delays are left out: a timer that is set    *)
(* may fire at any time.                                                   *)
(***************************************************************************)
CONSTANTS
  Topic,     \* "jobs" and "chats" in the code
  Status,    \* the subscription of App to the connection status
  Sync,      \* the first frame of a stream: everything may have changed
  Ping       \* the heartbeat, every 15 s

ASSUME LiveAssumption == {Status, Sync, Ping} \cap Topic = {} /\ Sync # Ping

VARIABLES
  ui,        \* the module liveUpdates.ts and what the browser tells it
  stream     \* the server's side of the current EventSource

vars == <<ui, stream>>

UI == [
  subs     : SUBSET (Topic \cup {Status}),
  visible  : BOOLEAN,    \* document.visibilityState
  offline  : BOOLEAN,    \* observedOffline
  source   : {"none", "connecting", "open", "closed"},   \* readyState
  fresh    : BOOLEAN,    \* lastStreamFrameAt is less than 60 s ago
  connected : BOOLEAN,   \* streamConnected
  delayed  : BOOLEAN,    \* updatesDelayed
  interval : {"none", "healthy", "recovery"},            \* fallbackIntervalMs
  polling  : BOOLEAN,    \* fallbackTimer runs
  statusTimer : BOOLEAN,
  reconnectTimer : BOOLEAN,
  watchdog : {"none", "current", "old"},  \* the source the timer is for
  behind   : SUBSET Topic ]  \* pages that have not read since a change

Stream == [
  silent : BOOLEAN,         \* nothing passes from the server to the page
  unsent : SUBSET Topic,    \* changed since the snapshot `previous`
  due    : SUBSET (Topic \cup {Sync}) ]  \* sent, on the way

Page(p)     == p.subs \cap Topic
Used(p)     == p.subs # {}
Broken(p)   == p.source \in {"none", "closed"}

Init ==
  /\ ui = [subs |-> {}, visible |-> TRUE, offline |-> FALSE, source |-> "none",
           fresh |-> FALSE, connected |-> FALSE, delayed |-> FALSE,
           interval |-> "none", polling |-> FALSE, statusTimer |-> FALSE,
           reconnectTimer |-> FALSE, watchdog |-> "none", behind |-> {}]
  /\ stream = [silent |-> FALSE, unsent |-> {}, due |-> {}]

---------------------------------------------------------------------------
(* The functions of liveUpdates.ts.                                        *)

\* A listener reads its page again; a hidden page is not told.
Notify(p, topics) ==
  [p EXCEPT !.behind = IF p.visible THEN @ \ (topics \cap p.subs) ELSE @]

RefreshBoth(p) == IF p.offline THEN p ELSE Notify(p, Topic)

SetPolling(p, every) ==
  IF p.interval = every THEN p ELSE [p EXCEPT !.interval = every, !.polling = TRUE]

ScheduleReconnect(p) ==
  [p EXCEPT !.reconnectTimer = @ \/ (~p.offline /\ Used(p))]

ArmDelayedStatus(p) == [p EXCEPT !.statusTimer = @ \/ p.visible]

ConnectionLost(p) ==
  LET lost == ArmDelayedStatus(SetPolling([p EXCEPT !.connected = FALSE], "recovery"))
  IN  IF p.connected THEN RefreshBoth(lost) ELSE lost

ConnectionRestored(p) ==
  SetPolling([p EXCEPT !.connected = TRUE, !.statusTimer = FALSE, !.delayed = FALSE],
             "healthy")

\* source?.close(); source = null.  A watchdog that still runs is for it.
CloseSource(p) ==
  [p EXCEPT !.source = "none",
            !.watchdog = IF @ = "none" THEN @ ELSE "old"]

\* mutant: a constructor that throws is not tried again
Connect_Once(p, built) ==
  IF built
  THEN [p EXCEPT !.source = "connecting", !.fresh = TRUE, !.watchdog = "current"]
  ELSE ConnectionLost(p)

\* The constructor of EventSource may be missing or throw.
Connect(p, built) ==
  IF built
  THEN [p EXCEPT !.source = "connecting", !.fresh = TRUE, !.watchdog = "current"]
  ELSE ScheduleReconnect(ConnectionLost(p))

RetryLiveConnection(p, built) ==
  IF ~Used(p) \/ p.offline THEN p
  ELSE LET closed == CloseSource([p EXCEPT !.reconnectTimer = FALSE, !.watchdog = "none"])
           again  == Connect(ConnectionLost(closed), built)
       IN  IF p.connected THEN again ELSE RefreshBoth(again)

PauseForBackground(p) == [p EXCEPT !.statusTimer = FALSE, !.watchdog = "none"]

\* mutant: the watchdog is not armed again after the background
VisibleAgain_Unwatched(p, built) ==
  IF ~p.visible THEN PauseForBackground(p)
  ELSE IF Broken(p) \/ ~p.fresh THEN RetryLiveConnection(p, built)
  ELSE IF p.connected THEN RefreshBoth(p) ELSE ArmDelayedStatus(RefreshBoth(p))

VisibleAgain(p, built) ==
  IF ~p.visible THEN PauseForBackground(p)
  ELSE IF Broken(p) \/ ~p.fresh THEN RetryLiveConnection(p, built)
  ELSE LET armed == [RefreshBoth(p) EXCEPT !.watchdog = "current"]
       IN  IF p.connected THEN armed ELSE ArmDelayedStatus(armed)

Start(p, built) == Connect(ConnectionLost(p), built)

\* mutant: fallbackIntervalMs outlives its timer
Stop_KeepsInterval(p) ==
  [CloseSource(p) EXCEPT !.polling = FALSE,
     !.statusTimer = FALSE, !.reconnectTimer = FALSE, !.watchdog = "none",
     !.fresh = FALSE, !.connected = FALSE, !.offline = FALSE, !.delayed = FALSE]

Stop(p) ==
  [CloseSource(p) EXCEPT !.interval = "none", !.polling = FALSE,
     !.statusTimer = FALSE, !.reconnectTimer = FALSE, !.watchdog = "none",
     !.fresh = FALSE, !.connected = FALSE, !.offline = FALSE, !.delayed = FALSE]

\* The server's generator belongs to one connection: what it had not sent is
\* gone with it.
Forget == [stream EXCEPT !.unsent = {}, !.due = {}]
Cut(p) == IF p.source = "open" THEN stream ELSE Forget

---------------------------------------------------------------------------
(* Subscriptions.  A page reads its data when it mounts.                   *)

Subscribe(l, built) ==
  /\ l \notin ui.subs
  /\ LET p == [ui EXCEPT !.subs = @ \cup {l}, !.behind = @ \ {l}]
     IN  ui' = IF Used(ui) THEN p ELSE Start(p, built)
  /\ UNCHANGED stream

Unsubscribe(l) ==
  /\ l \in ui.subs
  /\ LET p == [ui EXCEPT !.subs = @ \ {l}, !.behind = @ \ {l}]
     IN  /\ ui' = IF Used(p) THEN p ELSE Stop(p)
         /\ stream' = Cut(ui')

(* The browser: visibilitychange with pageshow or pagehide, and online or  *)
(* offline.  The page listens while it has subscribers.                    *)

Hide ==
  /\ ui.visible
  /\ LET p == [ui EXCEPT !.visible = FALSE]
     IN  ui' = IF Used(p) THEN PauseForBackground(p) ELSE p
  /\ UNCHANGED stream

Show(built) ==
  /\ LET p == [ui EXCEPT !.visible = TRUE]
     IN  ui' = IF Used(p) THEN VisibleAgain(p, built) ELSE p
  /\ stream' = Cut(ui')

Offline ==
  /\ Used(ui)
  /\ ui' = ConnectionLost(CloseSource(
             [ui EXCEPT !.offline = TRUE, !.reconnectTimer = FALSE, !.watchdog = "none"]))
  /\ stream' = Forget

OnlineAgain(built) ==
  /\ Used(ui)
  /\ LET p == [ui EXCEPT !.offline = FALSE]
     IN  ui' = IF ui.offline THEN RetryLiveConnection(p, built) ELSE VisibleAgain(p, built)
  /\ stream' = Cut(ui')

---------------------------------------------------------------------------
(* Events of the current EventSource; the handlers of a replaced source    *)
(* return at once.                                                         *)

\* The server answers; its first frame is sync.
Opens ==
  /\ ui.source = "connecting"
  /\ ui' = [ui EXCEPT !.source = "open", !.fresh = TRUE, !.watchdog = "current"]
  /\ stream' = [Forget EXCEPT !.due = {Sync}]

\* The browser retries by itself unless the error is final.
Fails(final) ==
  /\ ui.source \in {"connecting", "open"}
  /\ LET p == ConnectionLost([ui EXCEPT !.source = IF final THEN "closed" ELSE "connecting"])
     IN  ui' = IF final THEN ScheduleReconnect(p) ELSE p
  /\ stream' = Forget

\* The sync of a stream precedes its topics; pings come from another task.
Frame(f) ==
  /\ ui.source = "open" /\ ~stream.silent
  /\ f \in {Ping} \cup (IF Sync \in stream.due THEN {Sync} ELSE stream.due)
  /\ LET p == ConnectionRestored([ui EXCEPT !.fresh = TRUE, !.watchdog = "current"])
     IN  ui' = IF f = Sync THEN RefreshBoth(p) ELSE Notify(p, {f})
  /\ stream' = [stream EXCEPT !.due = @ \ {f}]

(* Timers.                                                                 *)

ReconnectFires(built) ==
  /\ ui.reconnectTimer
  /\ ui' = Connect(CloseSource([ui EXCEPT !.reconnectTimer = FALSE]), built)
  /\ stream' = Forget

WatchdogFires ==
  /\ ui.watchdog # "none"
  /\ LET p == [ui EXCEPT !.watchdog = "none"]
     IN  ui' = IF ui.watchdog = "old" \/ ~ui.visible THEN p
               ELSE IF ui.fresh THEN ui
               ELSE ScheduleReconnect(ConnectionLost(p))
  /\ UNCHANGED stream

StatusFires ==
  /\ ui.statusTimer
  /\ ui' = [ui EXCEPT !.statusTimer = FALSE,
                      !.delayed = @ \/ (~ui.connected /\ ui.visible)]
  /\ UNCHANGED stream

PollFires ==
  /\ ui.polling
  /\ ui' = RefreshBoth(ui)
  /\ UNCHANGED stream

\* A minute passes without a frame.
Age ==
  /\ ui.fresh
  /\ ui' = [ui EXCEPT !.fresh = FALSE]
  /\ UNCHANGED stream

---------------------------------------------------------------------------
(* The server.  Data of a topic changes; the generator compares revisions  *)
(* every 0.75 s and keeps the old jobs revision when jobs cannot be read.  *)

Change(t) ==
  /\ ui' = [ui EXCEPT !.behind = @ \cup ({t} \cap ui.subs)]
  /\ stream' = [stream EXCEPT !.unsent = IF ui.source = "open" THEN @ \cup {t} ELSE @]

ServerTick(read) ==
  /\ ui.source = "open"
  /\ read # {} /\ read \subseteq stream.unsent
  /\ stream' = [stream EXCEPT !.unsent = @ \ read, !.due = @ \cup read]
  /\ UNCHANGED ui

\* The network between the two dies without an error, or comes back.
Silence ==
  /\ stream' = [stream EXCEPT !.silent = ~@]
  /\ UNCHANGED ui

---------------------------------------------------------------------------
Next ==
  \/ \E l \in Topic \cup {Status} : Unsubscribe(l) \/ \E built \in BOOLEAN : Subscribe(l, built)
  \/ Hide \/ Offline
  \/ \E built \in BOOLEAN : Show(built) \/ OnlineAgain(built) \/ ReconnectFires(built)
  \/ Opens \/ \E final \in BOOLEAN : Fails(final)
  \/ \E f \in Topic \cup {Sync, Ping} : Frame(f)
  \/ WatchdogFires \/ StatusFires \/ PollFires \/ Age
  \/ \E t \in Topic : Change(t)
  \/ \E read \in SUBSET Topic : ServerTick(read)
  \/ Silence

Spec == Init /\ [][Next]_vars

\* A set timer fires, a minute without frames passes, and EventSource can be
\* built again; neither the server nor the network owes the page anything.
Fairness ==
  /\ WF_vars(WatchdogFires) /\ WF_vars(StatusFires) /\ WF_vars(PollFires)
  /\ WF_vars(ReconnectFires(TRUE))
  /\ WF_vars(stream.silent /\ Age)

FairSpec == Spec /\ Fairness

---------------------------------------------------------------------------
\* The variables stay within the values the module gives them.
LiveTypeOK == ui \in UI /\ stream \in Stream

\* No interleaving of errors, timers, background and offline hours leaves a
\* page with subscribers and no way back: a source that is gone or CLOSED has
\* a reconnect ahead, and on a visible page a source that may have stalled is
\* watched (scheduleReconnect, armWatchdog and their early returns).
NeverStranded ==
  Used(ui) /\ ~ui.offline =>
    /\ Broken(ui) => ui.reconnectTimer
    /\ ui.visible => ui.watchdog = "current" \/ ui.reconnectTimer

\* A page polls while it has subscribers, fast exactly while it is not
\* connected, and after the last one left nothing runs and no outage is
\* reported (setPollingInterval's early return, stop).
PollsWhileUsed ==
  /\ ui.polling = Used(ui)
  /\ Used(ui) => ui.interval = IF ui.connected THEN "healthy" ELSE "recovery"
  /\ ui.delayed \/ ui.connected \/ ui.offline \/ ui.statusTimer \/ ui.reconnectTimer
       \/ ui.watchdog # "none" \/ ~Broken(ui) => Used(ui)
  /\ ui.delayed => ~ui.connected

\* While the page is visible and claims to be connected, a page whose data is
\* old will be told by the stream: the change is known to the server's
\* generator, on the way, or covered by the sync of a stream that opens
\* (refreshBoth on visibility, on a lost stream and on sync).
NothingMissed ==
  \A t \in ui.behind :
    ui.visible /\ ui.connected =>
      \/ ui.source = "connecting"
      \/ ui.source = "open" /\ {t, Sync} \cap (stream.unsent \cup stream.due) # {}

\* A visible page that is not connected, unless the browser said it is
\* offline, says so or has the timer that will (armDelayedStatus).
OutageIsAnnounced ==
  Used(ui) /\ ui.visible /\ ~ui.connected /\ ~ui.offline => ui.statusTimer \/ ui.delayed

\* The state in which any handler may leave the page: a way back, the right
\* polling, and neither a lost change nor an outage that is kept quiet.
LiveInv == LiveTypeOK /\ NeverStranded /\ PollsWhileUsed /\ NothingMissed /\ OutageIsAnnounced

\* A page that is behind reads again, whatever the stream does, unless it is
\* hidden, offline or left (fallbackTimer, and the reads on the way back).
PagesCatchUp ==
  \A t \in Topic :
    (t \in ui.behind) ~> (t \notin ui.behind \/ ~ui.visible \/ ui.offline)

\* A page does not stay on a stream that went silent: it stops claiming to be
\* connected, or frames come again (armWatchdog).
SilenceIsNoticed ==
  (ui.connected /\ stream.silent /\ ui.visible)
    ~> (~ui.connected \/ ~stream.silent \/ ~ui.visible)
=============================================================================
