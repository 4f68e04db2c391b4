------------------------- MODULE LiveUpdatesProofs -------------------------
(***************************************************************************)
(* Proofs that no interleaving of callbacks, for any set of topics, leaves *)
(* the page stranded, with the wrong polling, with a change it is not told *)
(* of, or with an outage that it keeps quiet; and that the notice of an    *)
(* outage is up as long as the outage, whatever else is said.              *)
(***************************************************************************)
EXTENDS OutageNotice, FiniteSetTheorems, SequenceTheorems, TLAPS

\* After the last subscriber left, nothing runs.
StoppedIsQuiet ==
  ~Used(ui) =>
    /\ ui.source = "none" /\ ui.interval = "none" /\ ui.watchdog = "none"
    /\ ~ui.connected /\ ~ui.offline /\ ~ui.reconnectTimer /\ ~ui.statusTimer

\* An offline page has no stream and does not look for one.
OfflineIsCut ==
  ui.offline => ui.source = "none" /\ ~ui.connected /\ ~ui.reconnectTimer

ConnectedHasSource == ui.connected => ~Broken(ui)

\* A visible page is told of what it has not read, connected or not.
ChangesAreComing ==
  /\ ui.behind \subseteq ui.subs
  /\ ui.visible /\ ui.source = "open" =>
       \A t \in ui.behind : {t, Sync} \cap (stream.unsent \cup stream.due) # {}

LiveIInv ==
  LiveInv /\ StoppedIsQuiet /\ OfflineIsCut /\ ConnectedHasSource /\ ChangesAreComing

---------------------------------------------------------------------------
(* What the functions of liveUpdates.ts return.                            *)

\* The fallback timer is set to one of its two intervals (setPollingInterval).
LEMMA PollingTypes ==
  ASSUME NEW p \in UI, NEW every \in {"none", "healthy", "recovery"}
  PROVE  SetPolling(p, every) \in UI
<1>1. [p EXCEPT !.interval = every, !.polling = TRUE] \in UI
  BY DEF UI
<1> QED BY <1>1 DEF SetPolling

\* Telling the listeners changes which pages are behind, and nothing else (notify).
LEMMA NotifyFields ==
  ASSUME NEW p \in UI, NEW topics
  PROVE  LET q == Notify(p, topics)
         IN  /\ q \in UI
             /\ q.subs = p.subs /\ q.visible = p.visible /\ q.offline = p.offline
             /\ q.source = p.source /\ q.fresh = p.fresh /\ q.connected = p.connected
             /\ q.delayed = p.delayed /\ q.interval = p.interval /\ q.polling = p.polling
             /\ q.statusTimer = p.statusTimer /\ q.reconnectTimer = p.reconnectTimer
             /\ q.watchdog = p.watchdog
             /\ q.behind = IF p.visible THEN p.behind \ (topics \cap p.subs) ELSE p.behind
BY DEF Notify, UI

\* Telling both topics leaves a visible online page with nothing to read.
LEMMA RefreshFields ==
  ASSUME NEW p \in UI
  PROVE  LET q == RefreshBoth(p)
         IN  /\ q \in UI
             /\ q.subs = p.subs /\ q.visible = p.visible /\ q.offline = p.offline
             /\ q.source = p.source /\ q.fresh = p.fresh /\ q.connected = p.connected
             /\ q.delayed = p.delayed /\ q.interval = p.interval /\ q.polling = p.polling
             /\ q.statusTimer = p.statusTimer /\ q.reconnectTimer = p.reconnectTimer
             /\ q.watchdog = p.watchdog
             /\ q.behind = IF p.visible /\ ~p.offline THEN p.behind \ (Topic \cap p.subs)
                           ELSE p.behind
<1>1. CASE p.offline
  BY <1>1 DEF RefreshBoth
<1>2. CASE ~p.offline
  <2>1. RefreshBoth(p) = Notify(p, Topic)
    BY <1>2 DEF RefreshBoth
  <2> QED BY <1>2, <2>1, NotifyFields
<1> QED BY <1>1, <1>2

\* Arming the delayed status sets its timer on a visible page only.
LEMMA ArmFields ==
  ASSUME NEW p \in UI
  PROVE  LET q == ArmDelayedStatus(p)
         IN  /\ q \in UI
             /\ q.subs = p.subs /\ q.visible = p.visible /\ q.offline = p.offline
             /\ q.source = p.source /\ q.fresh = p.fresh /\ q.connected = p.connected
             /\ q.delayed = p.delayed /\ q.interval = p.interval /\ q.polling = p.polling
             /\ q.reconnectTimer = p.reconnectTimer
             /\ q.watchdog = p.watchdog /\ q.behind = p.behind
             /\ q.statusTimer = (p.statusTimer \/ p.visible)
<1>1. (p.statusTimer \/ p.visible) \in BOOLEAN
  OBVIOUS
<1> QED BY <1>1 DEF ArmDelayedStatus, UI

\* A connection that is lost polls fast, arms the status, and tells both topics
\* when it was there before (connectionLost).
LEMMA LostFields ==
  ASSUME NEW p \in UI
  PROVE  LET q == ConnectionLost(p)
         IN  /\ q \in UI
             /\ q.subs = p.subs /\ q.visible = p.visible /\ q.offline = p.offline
             /\ q.source = p.source /\ q.fresh = p.fresh /\ q.delayed = p.delayed
             /\ q.reconnectTimer = p.reconnectTimer /\ q.watchdog = p.watchdog
             /\ ~q.connected /\ q.interval = "recovery"
             /\ q.polling = (p.polling \/ p.interval # "recovery")
             /\ q.statusTimer = (p.statusTimer \/ p.visible)
             /\ q.behind \subseteq p.behind
             /\ p.connected /\ ~p.offline /\ p.visible
                  => q.behind = p.behind \ (Topic \cap p.subs)
<1> DEFINE cut == [p EXCEPT !.connected = FALSE]
           polled == SetPolling(cut, "recovery")
           lost == ArmDelayedStatus(polled)
<1>1. cut \in UI
  BY DEF UI
<1>2. polled \in UI
  BY <1>1, PollingTypes
<1>3. /\ polled.subs = p.subs /\ polled.visible = p.visible /\ polled.offline = p.offline
      /\ polled.source = p.source /\ polled.fresh = p.fresh /\ polled.delayed = p.delayed
      /\ polled.reconnectTimer = p.reconnectTimer /\ polled.watchdog = p.watchdog
      /\ ~polled.connected /\ polled.interval = "recovery"
      /\ polled.polling = (p.polling \/ p.interval # "recovery")
      /\ polled.statusTimer = p.statusTimer /\ polled.behind = p.behind
  BY DEF SetPolling, UI
<1>4. /\ lost \in UI
      /\ lost.subs = p.subs /\ lost.visible = p.visible /\ lost.offline = p.offline
      /\ lost.source = p.source /\ lost.fresh = p.fresh /\ lost.delayed = p.delayed
      /\ lost.reconnectTimer = p.reconnectTimer /\ lost.watchdog = p.watchdog
      /\ ~lost.connected /\ lost.interval = "recovery"
      /\ lost.polling = (p.polling \/ p.interval # "recovery")
      /\ lost.statusTimer = (p.statusTimer \/ p.visible) /\ lost.behind = p.behind
  BY <1>2, <1>3, ArmFields
<1> HIDE DEF lost
<1>5. CASE p.connected
  <2>1. ConnectionLost(p) = RefreshBoth(lost)
    BY <1>5 DEF ConnectionLost, lost
  <2> DEFINE q == RefreshBoth(lost)
  <2>2. /\ q \in UI
        /\ q.subs = p.subs /\ q.visible = p.visible /\ q.offline = p.offline
        /\ q.source = p.source /\ q.fresh = p.fresh /\ q.delayed = p.delayed
        /\ q.reconnectTimer = p.reconnectTimer /\ q.watchdog = p.watchdog
        /\ ~q.connected /\ q.interval = "recovery"
    BY <1>4, RefreshFields
  <2>3. /\ q.polling = (p.polling \/ p.interval # "recovery")
        /\ q.statusTimer = (p.statusTimer \/ p.visible)
    BY <1>4, RefreshFields
  <2>4. q.behind = IF p.visible /\ ~p.offline THEN p.behind \ (Topic \cap p.subs)
                   ELSE p.behind
    BY <1>4, RefreshFields, ZenonT(90)
  <2> HIDE DEF q
  <2>5. q.behind \subseteq p.behind
    BY <2>4
  <2>6. ConnectionLost(p) = q
    BY <2>1 DEF q
  <2> QED BY <2>2, <2>3, <2>4, <2>5, <2>6
<1>6. CASE ~p.connected
  <2>1. ConnectionLost(p) = lost
    BY <1>6 DEF ConnectionLost, lost
  <2> QED BY <2>1, <1>4, <1>6
<1> QED BY <1>5, <1>6

\* A constructor that works opens a stream; one that throws loses the connection
\* and sets the reconnect timer (connect).
LEMMA ConnectFields ==
  ASSUME NEW p \in UI, NEW built \in BOOLEAN
  PROVE  LET q == Connect(p, built)
         IN  /\ q \in UI
             /\ q.subs = p.subs /\ q.visible = p.visible /\ q.offline = p.offline
             /\ q.delayed = p.delayed
             /\ built =>
                  /\ q.source = "connecting" /\ q.watchdog = "current"
                  /\ q.connected = p.connected /\ q.interval = p.interval
                  /\ q.polling = p.polling /\ q.statusTimer = p.statusTimer
                  /\ q.reconnectTimer = p.reconnectTimer /\ q.behind = p.behind
             /\ ~built =>
                  /\ q.source = p.source /\ q.watchdog = p.watchdog
                  /\ ~q.connected /\ q.interval = "recovery"
                  /\ q.polling = (p.polling \/ p.interval # "recovery")
                  /\ q.statusTimer = (p.statusTimer \/ p.visible)
                  /\ q.reconnectTimer = (p.reconnectTimer \/ (~p.offline /\ Used(p)))
                  /\ q.behind \subseteq p.behind
                  /\ p.connected /\ ~p.offline /\ p.visible
                       => q.behind = p.behind \ (Topic \cap p.subs)
<1>1. CASE built
  BY <1>1 DEF Connect, UI
<1>2. CASE ~built
  <2> DEFINE lost == ConnectionLost(p)
  <2>1. Connect(p, built) = ScheduleReconnect(lost)
    BY <1>2 DEF Connect
  <2>2. lost \in UI
    BY LostFields
  <2>3. (lost.reconnectTimer \/ (~lost.offline /\ Used(lost))) \in BOOLEAN
    OBVIOUS
  <2> HIDE DEF lost
  <2>4. /\ ScheduleReconnect(lost) \in UI
        /\ \A f \in {"subs", "visible", "offline", "source", "delayed", "watchdog",
                     "connected", "interval", "polling", "statusTimer", "behind"} :
             ScheduleReconnect(lost)[f] = lost[f]
        /\ ScheduleReconnect(lost).reconnectTimer
             = (lost.reconnectTimer \/ (~lost.offline /\ Used(lost)))
    BY <2>2, <2>3 DEF ScheduleReconnect, UI
  <2> QED BY <1>2, <2>1, <2>4, LostFields DEF lost, Used
<1> QED BY <1>1, <1>2

\* A stream is being opened, or the timer that will open one is set.
Restarts(p, q) ==
  /\ q \in UI
  /\ q.subs = p.subs /\ q.visible = p.visible /\ q.offline = p.offline
  /\ ~q.connected /\ q.interval = "recovery"
  /\ q.polling = (p.polling \/ p.interval # "recovery")
  /\ p.visible => q.statusTimer
  /\ \/ q.source = "connecting" /\ q.watchdog = "current"
     \/ q.source = "none" /\ q.reconnectTimer
  /\ q.behind \subseteq p.behind

\* Losing the connection and connecting again is a restart (start).
LEMMA ConnectRestarts ==
  ASSUME NEW p \in UI, NEW built \in BOOLEAN, Used(p), ~p.offline, p.source = "none"
  PROVE  Restarts(p, Connect(ConnectionLost(p), built))
<1> DEFINE x == ConnectionLost(p)
           q == Connect(x, built)
<1>1. /\ x \in UI
      /\ x.subs = p.subs /\ x.visible = p.visible /\ x.offline = p.offline
      /\ x.source = "none" /\ ~x.connected /\ x.interval = "recovery"
      /\ x.polling = (p.polling \/ p.interval # "recovery")
      /\ x.statusTimer = (p.statusTimer \/ p.visible)
      /\ x.behind \subseteq p.behind
  BY LostFields
<1> HIDE DEF x
<1>2. /\ q \in UI
      /\ q.subs = x.subs /\ q.visible = x.visible /\ q.offline = x.offline
  BY <1>1, ConnectFields
<1>3. CASE built
  <2>1. /\ q.source = "connecting" /\ q.watchdog = "current"
        /\ q.connected = x.connected /\ q.interval = x.interval
        /\ q.polling = x.polling /\ q.statusTimer = x.statusTimer /\ q.behind = x.behind
    BY <1>1, <1>3 DEF Connect, UI
  <2> HIDE DEF q
  <2> QED BY <1>1, <1>2, <2>1 DEF Restarts, x, q
<1>4. CASE ~built
  <2>1. /\ q.source = x.source /\ ~q.connected /\ q.interval = "recovery"
        /\ q.polling = (x.polling \/ x.interval # "recovery")
        /\ q.statusTimer = (x.statusTimer \/ x.visible)
        /\ q.reconnectTimer = (x.reconnectTimer \/ (~x.offline /\ Used(x)))
        /\ q.behind \subseteq x.behind
    BY <1>1, <1>4, ConnectFields
  <2>2. Used(x)
    BY <1>1 DEF Used
  <2> HIDE DEF q
  <2> QED BY <1>1, <1>2, <2>1, <2>2 DEF Restarts, x, q
<1> QED BY <1>3, <1>4

\* So is closing the stream, losing it and connecting again (retryLiveConnection).
LEMMA RetryRestarts ==
  ASSUME NEW p \in UI, NEW built \in BOOLEAN, Used(p), ~p.offline
  PROVE  Restarts(p, RetryLiveConnection(p, built))
<1> DEFINE closed == CloseSource([p EXCEPT !.reconnectTimer = FALSE, !.watchdog = "none"])
           again == Connect(ConnectionLost(closed), built)
<1>1. /\ closed \in UI /\ closed.source = "none"
      /\ closed.subs = p.subs /\ closed.visible = p.visible /\ closed.offline = p.offline
      /\ closed.polling = p.polling /\ closed.interval = p.interval
      /\ closed.behind = p.behind
  BY DEF CloseSource, UI
<1>2. Used(closed) /\ ~closed.offline
  BY <1>1 DEF Used
<1> HIDE DEF closed
<1>3. Restarts(closed, again)
  BY <1>1, <1>2, ConnectRestarts
<1>4. Restarts(p, again)
  BY <1>1, <1>3 DEF Restarts
<1> HIDE DEF again
<1>5. Restarts(p, RefreshBoth(again))
  <2> DEFINE q == RefreshBoth(again)
  <2>1. again \in UI
    BY <1>4 DEF Restarts
  <2>2. /\ q \in UI
        /\ q.subs = again.subs /\ q.visible = again.visible /\ q.offline = again.offline
        /\ q.source = again.source /\ q.connected = again.connected
        /\ q.interval = again.interval /\ q.polling = again.polling
        /\ q.statusTimer = again.statusTimer /\ q.reconnectTimer = again.reconnectTimer
        /\ q.watchdog = again.watchdog /\ q.behind \subseteq again.behind
    BY <2>1, RefreshFields
  <2> HIDE DEF q
  <2> QED BY <1>4, <2>2 DEF Restarts, q
<1>6. RetryLiveConnection(p, built) \in {again, RefreshBoth(again)}
  BY DEF RetryLiveConnection, again, closed
<1> QED BY <1>4, <1>5, <1>6

---------------------------------------------------------------------------
(* The invariant.                                                          *)

\* Whatever was broken, a restart is sound.
LEMMA RestartIsSound ==
  ASSUME LiveIInv, NEW p \in UI, Used(p), ~p.offline,
         p.behind \subseteq p.subs,
         p.polling \/ p.interval # "recovery",
         Restarts(p, ui'), stream' \in Stream
  PROVE  LiveIInv'
<1>1. /\ ui' \in UI /\ ui'.subs = p.subs /\ ui'.subs # {} /\ ~ui'.offline
      /\ ~ui'.connected /\ ui'.interval = "recovery" /\ ui'.polling = TRUE
      /\ ui'.visible => ui'.statusTimer
      /\ \/ ui'.source = "connecting" /\ ui'.watchdog = "current"
         \/ ui'.source = "none" /\ ui'.reconnectTimer
      /\ ui'.behind \subseteq ui'.subs
  BY DEF Restarts, Used, UI
<1>2. LiveTypeOK' /\ NeverStranded'
  BY <1>1 DEF LiveTypeOK, NeverStranded, Broken, Used
<1>3. PollsWhileUsed'
  BY <1>1 DEF PollsWhileUsed, Used
<1>4. NothingMissed' /\ OutageIsAnnounced'
  BY <1>1 DEF NothingMissed, OutageIsAnnounced
<1>5. StoppedIsQuiet' /\ OfflineIsCut' /\ ConnectedHasSource' /\ ChangesAreComing'
  BY <1>1 DEF StoppedIsQuiet, OfflineIsCut, ConnectedHasSource, ChangesAreComing, Used
<1> QED BY <1>2, <1>3, <1>4, <1>5 DEF LiveIInv, LiveInv

\* The first subscriber starts the stream and the last one stops everything
\* (subscribe, stop).
LEMMA SubscriptionSteps ==
  ASSUME LiveIInv,
         NEW l \in Topic \cup {Status},
         Unsubscribe(l) \/ \E built \in BOOLEAN : Subscribe(l, built)
  PROVE  LiveIInv'
<1> USE DEF LiveIInv, LiveInv, LiveTypeOK
<1>1. ASSUME NEW built \in BOOLEAN, Subscribe(l, built)
      PROVE  LiveIInv'
  <2> DEFINE p == [ui EXCEPT !.subs = @ \cup {l}, !.behind = @ \ {l}]
  <2>1. /\ p \in UI /\ p.subs = ui.subs \cup {l} /\ p.behind = ui.behind \ {l}
        /\ p.visible = ui.visible /\ p.offline = ui.offline /\ p.source = ui.source
        /\ p.fresh = ui.fresh /\ p.connected = ui.connected /\ p.delayed = ui.delayed
        /\ p.interval = ui.interval /\ p.polling = ui.polling
        /\ p.statusTimer = ui.statusTimer /\ p.reconnectTimer = ui.reconnectTimer
        /\ p.watchdog = ui.watchdog
    BY DEF UI
  <2>2. stream' = stream /\ stream \in Stream
    BY <1>1 DEF Subscribe
  <2>3. CASE Used(ui)
    <3>1. ui' = p
      BY <1>1, <2>3 DEF Subscribe
    <3> HIDE DEF p
    <3> QED BY <2>1, <2>2, <2>3, <3>1
         DEF NeverStranded, PollsWhileUsed, NothingMissed, OutageIsAnnounced, StoppedIsQuiet,
             OfflineIsCut, ConnectedHasSource, ChangesAreComing, Used, Broken
  <2>4. CASE ~Used(ui)
    <3>1. ui' = Connect(ConnectionLost(p), built)
      BY <1>1, <2>4 DEF Subscribe, Start
    <3> HIDE DEF p
    <3>2. /\ Used(p) /\ ~p.offline /\ p.source = "none" /\ p.interval # "recovery"
          /\ p.behind \subseteq p.subs
      BY <2>1, <2>4 DEF StoppedIsQuiet, ChangesAreComing, Used
    <3>3. Restarts(p, ui')
      BY <2>1, <3>1, <3>2, ConnectRestarts
    <3> QED BY <2>1, <2>2, <3>2, <3>3, RestartIsSound
  <2> QED BY <2>3, <2>4
<1>2. CASE Unsubscribe(l)
  <2> DEFINE p == [ui EXCEPT !.subs = @ \ {l}, !.behind = @ \ {l}]
  <2>1. /\ p \in UI /\ p.subs = ui.subs \ {l} /\ p.behind = ui.behind \ {l}
        /\ p.visible = ui.visible /\ p.offline = ui.offline /\ p.source = ui.source
        /\ p.fresh = ui.fresh /\ p.connected = ui.connected /\ p.delayed = ui.delayed
        /\ p.interval = ui.interval /\ p.polling = ui.polling
        /\ p.statusTimer = ui.statusTimer /\ p.reconnectTimer = ui.reconnectTimer
        /\ p.watchdog = ui.watchdog
    BY DEF UI
  <2>2. Used(ui) /\ stream' = Cut(ui')
    BY <1>2 DEF Unsubscribe, Used
  <2>3. CASE Used(p)
    <3>1. ui' = p
      BY <1>2, <2>3 DEF Unsubscribe
    <3> HIDE DEF p
    <3>2. stream' \in Stream /\ (ui'.source = "open" => stream' = stream)
      BY <2>2 DEF Cut, Forget, Stream
    <3> QED BY <2>1, <2>2, <2>3, <3>1, <3>2
         DEF NeverStranded, PollsWhileUsed, NothingMissed, OutageIsAnnounced, StoppedIsQuiet,
             OfflineIsCut, ConnectedHasSource, ChangesAreComing, Used, Broken
  <2>4. CASE ~Used(p)
    <3>1. ui' = Stop(p)
      BY <1>2, <2>4 DEF Unsubscribe
    <3> HIDE DEF p
    <3> DEFINE c == CloseSource(p)
    <3>2. c \in UI /\ c.subs = {} /\ c.behind = p.behind /\ c.source = "none"
      BY <2>1, <2>4 DEF CloseSource, UI, Used
    <3>3. ui' = [c EXCEPT !.interval = "none", !.polling = FALSE,
             !.statusTimer = FALSE, !.reconnectTimer = FALSE, !.watchdog = "none",
             !.fresh = FALSE, !.connected = FALSE, !.offline = FALSE, !.delayed = FALSE]
      BY <3>1 DEF Stop
    <3> HIDE DEF c
    <3>4. /\ ui' \in UI /\ ui'.subs = {} /\ ui'.behind = p.behind /\ ui'.source = "none"
          /\ ui'.interval = "none" /\ ui'.watchdog = "none" /\ ui'.polling = FALSE
          /\ ~ui'.connected /\ ~ui'.offline /\ ~ui'.delayed
          /\ ~ui'.reconnectTimer /\ ~ui'.statusTimer
      BY <3>2, <3>3, ZenonT(90) DEF UI
    <3>5. stream' \in Stream
      BY <2>2 DEF Cut, Forget, Stream
    <3>6. ui'.behind = {}
      BY <2>1, <2>4, <3>4 DEF ChangesAreComing, Used
    <3>7. NothingMissed' /\ ChangesAreComing'
      BY <3>6 DEF NothingMissed, ChangesAreComing
    <3> QED BY <3>4, <3>5, <3>7
         DEF NeverStranded, PollsWhileUsed, OutageIsAnnounced, StoppedIsQuiet,
             OfflineIsCut, ConnectedHasSource, Used, Broken
  <2> QED BY <2>3, <2>4
<1> QED BY <1>1, <1>2

\* The page comes back into view, or the browser says it is online again.
LEMMA VisibleIsSound ==
  ASSUME LiveIInv,
         NEW p \in UI, NEW built \in BOOLEAN,
         Used(p), p.visible,
         /\ p.subs = ui.subs /\ p.behind = ui.behind /\ p.offline = ui.offline
         /\ p.source = ui.source /\ p.fresh = ui.fresh /\ p.connected = ui.connected
         /\ p.delayed = ui.delayed /\ p.interval = ui.interval /\ p.polling = ui.polling
         /\ p.statusTimer = ui.statusTimer /\ p.reconnectTimer = ui.reconnectTimer
         /\ p.watchdog = ui.watchdog,
         ui' = VisibleAgain(p, built), stream' = Cut(ui')
  PROVE  LiveIInv'
<1> USE DEF LiveIInv, LiveInv, LiveTypeOK
<1>1. stream' \in Stream /\ (ui'.source = "open" => stream' = stream)
  BY DEF Cut, Forget, Stream
<1>2. CASE Broken(p) \/ ~p.fresh
  <2>1. ui' = RetryLiveConnection(p, built)
    BY <1>2 DEF VisibleAgain
  <2>2. CASE ~p.offline
    <3>1. Restarts(p, ui')
      BY <2>1, <2>2, RetryRestarts
    <3>2. p.behind \subseteq p.subs /\ (p.polling \/ p.interval # "recovery")
      BY DEF ChangesAreComing, PollsWhileUsed, Used
    <3> QED BY <1>1, <2>2, <3>1, <3>2, RestartIsSound
  <2>3. CASE p.offline
    <3>1. ui' = p
      BY <2>1, <2>3 DEF RetryLiveConnection
    <3> QED BY <1>1, <2>3, <3>1
         DEF NeverStranded, PollsWhileUsed, NothingMissed, OutageIsAnnounced, StoppedIsQuiet,
             OfflineIsCut, ConnectedHasSource, ChangesAreComing, Used, Broken
  <2> QED BY <2>2, <2>3
<1>3. CASE ~Broken(p) /\ p.fresh
  <2> DEFINE read == RefreshBoth(p)
             armed == [read EXCEPT !.watchdog = "current"]
  <2>1. ~p.offline
    BY <1>3 DEF OfflineIsCut, Broken
  <2>2. /\ read \in UI
        /\ read.subs = p.subs /\ read.visible = p.visible /\ read.offline = p.offline
        /\ read.source = p.source /\ read.connected = p.connected
        /\ read.delayed = p.delayed /\ read.interval = p.interval
        /\ read.polling = p.polling /\ read.statusTimer = p.statusTimer
        /\ read.reconnectTimer = p.reconnectTimer
        /\ read.behind = p.behind \ (Topic \cap p.subs)
    BY <2>1, RefreshFields
  <2>3. read.behind = {}
    BY <2>2 DEF ChangesAreComing, UI
  <2> HIDE DEF read
  <2>4. /\ armed \in UI /\ armed.watchdog = "current" /\ armed.behind = {}
        /\ armed.subs = p.subs /\ armed.visible = p.visible /\ armed.offline = p.offline
        /\ armed.source = p.source /\ armed.connected = p.connected
        /\ armed.delayed = p.delayed /\ armed.interval = p.interval
        /\ armed.polling = p.polling /\ armed.statusTimer = p.statusTimer
        /\ armed.reconnectTimer = p.reconnectTimer
    BY <2>2, <2>3 DEF UI
  <2>5. ui' = IF p.connected THEN armed ELSE ArmDelayedStatus(armed)
    BY <1>3 DEF VisibleAgain, read
  <2> HIDE DEF armed
  <2>6. /\ ui' \in UI /\ ui'.watchdog = "current" /\ ui'.behind = {}
        /\ ui'.subs = p.subs /\ ui'.offline = p.offline
        /\ ui'.source = p.source /\ ui'.connected = p.connected
        /\ ui'.delayed = p.delayed /\ ui'.interval = p.interval /\ ui'.polling = p.polling
        /\ ui'.reconnectTimer = p.reconnectTimer
        /\ p.connected \/ ui'.statusTimer
    <3>1. CASE p.connected
      BY <2>4, <2>5, <3>1
    <3>2. CASE ~p.connected
      <4>1. ui' = ArmDelayedStatus(armed)
        BY <2>5, <3>2
      <4>2. /\ ui' \in UI /\ ui'.watchdog = armed.watchdog /\ ui'.behind = armed.behind
            /\ ui'.subs = armed.subs /\ ui'.offline = armed.offline
            /\ ui'.source = armed.source /\ ui'.connected = armed.connected
            /\ ui'.delayed = armed.delayed /\ ui'.interval = armed.interval
            /\ ui'.polling = armed.polling /\ ui'.reconnectTimer = armed.reconnectTimer
        BY <2>4, <4>1, ArmFields
      <4>3. ArmDelayedStatus(armed).statusTimer = (armed.statusTimer \/ armed.visible)
        BY <2>4, ArmFields
      <4>4. ui'.statusTimer
        BY <2>4, <4>1, <4>3
      <4> QED BY <2>4, <4>2, <4>4
    <3> QED BY <3>1, <3>2
  <2> QED BY <1>1, <1>3, <2>1, <2>6
       DEF NeverStranded, PollsWhileUsed, NothingMissed, OutageIsAnnounced, StoppedIsQuiet,
           OfflineIsCut, ConnectedHasSource, ChangesAreComing, Used, Broken
<1> QED BY <1>2, <1>3

\* Hiding, showing, and the browser's own opinion of the network.
LEMMA BrowserSteps ==
  ASSUME LiveIInv,
         \/ Hide \/ Offline
         \/ \E built \in BOOLEAN : Show(built) \/ OnlineAgain(built)
  PROVE  LiveIInv'
<1> USE DEF LiveIInv, LiveInv, LiveTypeOK
<1>1. CASE Hide
  <2>1. /\ ui' \in UI /\ ui'.visible = FALSE /\ stream' = stream
        /\ ui'.subs = ui.subs /\ ui'.behind = ui.behind /\ ui'.offline = ui.offline
        /\ ui'.source = ui.source /\ ui'.connected = ui.connected
        /\ ui'.delayed = ui.delayed /\ ui'.interval = ui.interval
        /\ ui'.polling = ui.polling /\ ui'.reconnectTimer = ui.reconnectTimer
        /\ ui'.statusTimer => ui.statusTimer /\ ui'.watchdog \in {"none", ui.watchdog}
        /\ ~Used(ui) => ~ui'.statusTimer /\ ui'.watchdog = "none"
    BY <1>1 DEF Hide, PauseForBackground, StoppedIsQuiet, UI, Used
  <2> QED BY <2>1
       DEF NeverStranded, PollsWhileUsed, NothingMissed, OutageIsAnnounced, StoppedIsQuiet,
           OfflineIsCut, ConnectedHasSource, ChangesAreComing, Used, Broken
<1>2. CASE Offline
  <2> DEFINE p == [ui EXCEPT !.offline = TRUE, !.reconnectTimer = FALSE, !.watchdog = "none"]
             c == CloseSource(p)
  <2>1. /\ c \in UI /\ c.source = "none" /\ c.offline = TRUE /\ c.reconnectTimer = FALSE
        /\ c.subs = ui.subs /\ c.visible = ui.visible /\ c.connected = ui.connected
        /\ c.delayed = ui.delayed /\ c.interval = ui.interval /\ c.polling = ui.polling
        /\ c.behind = ui.behind
    BY DEF CloseSource, UI
  <2>2. ui' = ConnectionLost(c) /\ Used(ui) /\ stream' \in Stream
    BY <1>2 DEF Offline, Forget, Stream
  <2> HIDE DEF c
  <2>3. /\ ui' \in UI
        /\ ui'.subs = c.subs /\ ui'.offline = c.offline /\ ui'.source = c.source
        /\ ui'.reconnectTimer = c.reconnectTimer
        /\ ~ui'.connected /\ ui'.interval = "recovery"
        /\ ui'.polling = (c.polling \/ c.interval # "recovery")
        /\ ui'.behind \subseteq c.behind
    BY <2>1, <2>2, LostFields
  <2>4. ui'.polling = TRUE
    BY <2>1, <2>2, <2>3 DEF PollsWhileUsed, Used
  <2> QED BY <2>1, <2>2, <2>3, <2>4
       DEF NeverStranded, PollsWhileUsed, NothingMissed, OutageIsAnnounced, StoppedIsQuiet,
           OfflineIsCut, ConnectedHasSource, ChangesAreComing, Used, Broken
<1>3. ASSUME NEW built \in BOOLEAN, Show(built)
      PROVE  LiveIInv'
  <2> DEFINE p == [ui EXCEPT !.visible = TRUE]
  <2>1. /\ p \in UI /\ p.visible = TRUE
        /\ p.subs = ui.subs /\ p.behind = ui.behind /\ p.offline = ui.offline
        /\ p.source = ui.source /\ p.fresh = ui.fresh /\ p.connected = ui.connected
        /\ p.delayed = ui.delayed /\ p.interval = ui.interval /\ p.polling = ui.polling
        /\ p.statusTimer = ui.statusTimer /\ p.reconnectTimer = ui.reconnectTimer
        /\ p.watchdog = ui.watchdog
    BY DEF UI
  <2>2. stream' = Cut(ui') /\ ui' = IF Used(p) THEN VisibleAgain(p, built) ELSE p
    BY <1>3 DEF Show
  <2> HIDE DEF p
  <2>3. CASE Used(p)
    BY <2>1, <2>2, <2>3, VisibleIsSound
  <2>4. CASE ~Used(p)
    <3>1. stream' \in Stream
      BY <2>2 DEF Cut, Forget, Stream
    <3> QED BY <2>1, <2>2, <2>4, <3>1
         DEF NeverStranded, PollsWhileUsed, NothingMissed, OutageIsAnnounced, StoppedIsQuiet,
             OfflineIsCut, ConnectedHasSource, ChangesAreComing, Used, Broken
  <2> QED BY <2>3, <2>4
<1>4. ASSUME NEW built \in BOOLEAN, OnlineAgain(built)
      PROVE  LiveIInv'
  <2> DEFINE p == [ui EXCEPT !.offline = FALSE]
  <2>1. /\ p \in UI /\ ~p.offline
        /\ p.subs = ui.subs /\ p.behind = ui.behind /\ p.visible = ui.visible
        /\ p.source = ui.source /\ p.fresh = ui.fresh /\ p.connected = ui.connected
        /\ p.delayed = ui.delayed /\ p.interval = ui.interval /\ p.polling = ui.polling
        /\ p.statusTimer = ui.statusTimer /\ p.reconnectTimer = ui.reconnectTimer
        /\ p.watchdog = ui.watchdog
    BY DEF UI
  <2>2. /\ Used(p) /\ stream' = Cut(ui')
        /\ ui' = IF ui.offline THEN RetryLiveConnection(p, built) ELSE VisibleAgain(p, built)
    BY <1>4 DEF OnlineAgain, Used
  <2>3. stream' \in Stream /\ (ui'.source = "open" => stream' = stream)
    BY <2>2 DEF Cut, Forget, Stream
  <2> HIDE DEF p
  <2>4. CASE ui.offline
    <3>1. Restarts(p, ui')
      BY <2>1, <2>2, <2>4, RetryRestarts
    <3>2. p.behind \subseteq p.subs /\ (p.polling \/ p.interval # "recovery")
      BY <2>1, <2>2 DEF ChangesAreComing, PollsWhileUsed, Used
    <3> QED BY <2>1, <2>2, <2>3, <3>1, <3>2, RestartIsSound
  <2>5. CASE ~ui.offline /\ p.visible
    <3>1. p.offline = ui.offline
      BY <2>1, <2>5 DEF UI
    <3> QED BY <2>1, <2>2, <2>5, <3>1, VisibleIsSound
  <2>6. CASE ~ui.offline /\ ~p.visible
    <3>1. ui' = PauseForBackground(p)
      BY <2>2, <2>6 DEF VisibleAgain
    <3>2. /\ ui' \in UI /\ ~ui'.visible /\ ~ui'.offline /\ ui'.subs = p.subs
          /\ ui'.behind = p.behind /\ ui'.source = p.source /\ ui'.connected = p.connected
          /\ ui'.delayed = p.delayed /\ ui'.interval = p.interval
          /\ ui'.polling = p.polling /\ ui'.reconnectTimer = p.reconnectTimer
      BY <2>1, <2>6, <3>1 DEF PauseForBackground, UI
    <3> QED BY <2>1, <2>2, <2>3, <2>6, <3>2
         DEF NeverStranded, PollsWhileUsed, NothingMissed, OutageIsAnnounced, StoppedIsQuiet,
             OfflineIsCut, ConnectedHasSource, ChangesAreComing, Used, Broken
  <2> QED BY <2>4, <2>5, <2>6
<1> QED BY <1>1, <1>2, <1>3, <1>4

\* What the stream delivers, its errors, and the changes on the server.
LEMMA StreamSteps ==
  ASSUME LiveIInv,
         \/ Opens \/ \E final \in BOOLEAN : Fails(final)
         \/ \E f \in Topic \cup {Sync, Ping} : Frame(f)
         \/ \E t \in Topic : Change(t)
         \/ \E read \in SUBSET Topic : ServerTick(read)
         \/ Silence
  PROVE  LiveIInv'
<1> USE DEF LiveIInv, LiveInv, LiveTypeOK
<1>1. CASE Opens
  <2>1. /\ ui' \in UI /\ ui'.source = "open" /\ ui'.watchdog = "current"
        /\ ui'.subs = ui.subs /\ ui'.behind = ui.behind /\ ui'.offline = ui.offline
        /\ ui'.visible = ui.visible /\ ui'.connected = ui.connected
        /\ ui'.delayed = ui.delayed /\ ui'.interval = ui.interval
        /\ ui'.polling = ui.polling /\ ui'.reconnectTimer = ui.reconnectTimer
        /\ ui'.statusTimer = ui.statusTimer /\ ui.source = "connecting"
    BY <1>1 DEF Opens, UI
  <2>2. stream' \in Stream /\ stream'.due = {Sync}
    BY <1>1 DEF Opens, Forget, Stream
  <2> QED BY <2>1, <2>2
       DEF NeverStranded, PollsWhileUsed, NothingMissed, OutageIsAnnounced, StoppedIsQuiet,
           OfflineIsCut, ConnectedHasSource, ChangesAreComing, Used, Broken
<1>2. ASSUME NEW final \in BOOLEAN, Fails(final)
      PROVE  LiveIInv'
  <2> DEFINE p == [ui EXCEPT !.source = IF final THEN "closed" ELSE "connecting"]
             lost == ConnectionLost(p)
  <2>1. /\ p \in UI /\ p.source = (IF final THEN "closed" ELSE "connecting")
        /\ p.subs = ui.subs /\ p.behind = ui.behind /\ p.offline = ui.offline
        /\ p.visible = ui.visible /\ p.connected = ui.connected
        /\ p.delayed = ui.delayed /\ p.interval = ui.interval
        /\ p.polling = ui.polling /\ p.reconnectTimer = ui.reconnectTimer
        /\ p.statusTimer = ui.statusTimer /\ p.watchdog = ui.watchdog
    BY DEF UI
  <2>2. stream' \in Stream
    BY <1>2 DEF Fails, Forget, Stream
  <2>3. /\ ui' = IF final THEN ScheduleReconnect(lost) ELSE lost
        /\ ui.source \in {"connecting", "open"}
    BY <1>2 DEF Fails
  <2>4. Used(ui) /\ ~ui.offline
    BY <2>3 DEF StoppedIsQuiet, OfflineIsCut
  <2> HIDE DEF p
  <2>5. /\ lost \in UI /\ lost.source = p.source /\ lost.subs = ui.subs
        /\ lost.visible = ui.visible /\ ~lost.offline
        /\ lost.reconnectTimer = ui.reconnectTimer /\ lost.watchdog = ui.watchdog
        /\ ~lost.connected /\ lost.interval = "recovery"
        /\ lost.polling = (ui.polling \/ ui.interval # "recovery")
        /\ lost.statusTimer = (ui.statusTimer \/ ui.visible)
        /\ lost.behind \subseteq ui.behind
    BY <2>1, <2>4, LostFields
  <2> HIDE DEF lost
  <2>6. /\ ui' \in UI /\ ui'.source = p.source /\ ui'.subs = ui.subs
        /\ ui'.visible = ui.visible /\ ~ui'.offline
        /\ ui'.watchdog = ui.watchdog
        /\ ~ui'.connected /\ ui'.interval = "recovery"
        /\ ui'.polling = lost.polling /\ ui'.statusTimer = lost.statusTimer
        /\ ui'.behind \subseteq ui.behind
        /\ ui'.reconnectTimer <=> ui.reconnectTimer \/ final
    <3>1. CASE final
      <4>1. ui' = ScheduleReconnect(lost)
        BY <2>3, <3>1
      <4>2. (lost.reconnectTimer \/ (~lost.offline /\ Used(lost))) \in BOOLEAN
        OBVIOUS
      <4>3. /\ ui' \in UI
            /\ \A g \in {"subs", "visible", "offline", "source", "watchdog",
                         "connected", "interval", "polling", "statusTimer", "behind"} :
                 ui'[g] = lost[g]
            /\ ui'.reconnectTimer
                 = (lost.reconnectTimer \/ (~lost.offline /\ Used(lost)))
        BY <2>5, <4>1, <4>2 DEF ScheduleReconnect, UI
      <4>4. ui'.reconnectTimer
        BY <2>4, <2>5, <4>3 DEF Used
      <4> QED BY <2>5, <3>1, <4>3, <4>4
    <3>2. CASE ~final
      BY <2>3, <2>5, <3>2
    <3> QED BY <3>1, <3>2
  <2>7. ui'.polling = TRUE /\ (ui.visible => ui'.statusTimer)
    BY <2>4, <2>5, <2>6 DEF PollsWhileUsed
  <2> QED BY <2>1, <2>2, <2>3, <2>4, <2>6, <2>7
       DEF NeverStranded, PollsWhileUsed, NothingMissed, OutageIsAnnounced, StoppedIsQuiet,
           OfflineIsCut, ConnectedHasSource, ChangesAreComing, Used, Broken
<1>3. ASSUME NEW f \in Topic \cup {Sync, Ping}, Frame(f)
      PROVE  LiveIInv'
  <2> DEFINE r == [ui EXCEPT !.fresh = TRUE, !.watchdog = "current"]
             told == [r EXCEPT !.connected = TRUE, !.statusTimer = FALSE, !.delayed = FALSE]
             p == SetPolling(told, "healthy")
  <2>1. /\ told \in UI /\ told.watchdog = "current" /\ told.connected = TRUE
        /\ told.statusTimer = FALSE /\ told.delayed = FALSE
        /\ told.subs = ui.subs /\ told.behind = ui.behind /\ told.offline = ui.offline
        /\ told.source = ui.source /\ told.visible = ui.visible
        /\ told.interval = ui.interval /\ told.polling = ui.polling
        /\ told.reconnectTimer = ui.reconnectTimer
    BY DEF UI
  <2> HIDE DEF told
  <2>2. /\ p \in UI /\ p.watchdog = "current" /\ p.connected = TRUE
        /\ p.statusTimer = FALSE /\ p.delayed = FALSE
        /\ p.subs = ui.subs /\ p.behind = ui.behind /\ p.offline = ui.offline
        /\ p.source = ui.source /\ p.visible = ui.visible /\ p.interval = "healthy"
        /\ p.polling <=> ui.polling \/ ui.interval # "healthy"
        /\ p.reconnectTimer = ui.reconnectTimer
    <3>1. p \in UI
      BY <2>1, PollingTypes
    <3>2. CASE told.interval = "healthy"
      <4>1. p = told
        BY <3>2 DEF SetPolling
      <4> HIDE DEF p
      <4> QED BY <2>1, <3>2, <4>1
    <3>3. CASE told.interval # "healthy"
      <4>1. p = [told EXCEPT !.interval = "healthy", !.polling = TRUE]
        BY <3>3 DEF SetPolling
      <4> HIDE DEF p
      <4>2. /\ \A g \in {"subs", "visible", "offline", "source", "watchdog", "connected",
                         "delayed", "statusTimer", "reconnectTimer", "behind"} :
                 p[g] = told[g]
            /\ p.interval = "healthy" /\ p.polling = TRUE
        BY <2>1, <4>1 DEF UI
      <4> QED BY <2>1, <3>1, <3>3, <4>2
    <3> QED BY <3>2, <3>3
  <2>3. /\ ui.source = "open" /\ f \in {Ping, Sync} \cup Topic
        /\ f \notin {Ping, Sync} => Sync \notin stream.due
        /\ ui' = IF f = Sync THEN RefreshBoth(p) ELSE Notify(p, {f})
        /\ stream' = [stream EXCEPT !.due = @ \ {f}]
    BY <1>3 DEF Frame, ConnectionRestored, told
  <2> HIDE DEF p
  <2>4. Used(ui) /\ ~ui.offline /\ p.polling = TRUE
    BY <2>2, <2>3 DEF StoppedIsQuiet, OfflineIsCut, PollsWhileUsed, UI
  <2>5. /\ stream' \in Stream /\ stream'.unsent = stream.unsent
        /\ stream'.due = stream.due \ {f}
    BY <2>3 DEF Stream
  <2>6. /\ ui' \in UI /\ ui'.watchdog = "current" /\ ui'.connected = TRUE
        /\ ui'.delayed = FALSE
        /\ ui'.subs = ui.subs /\ ~ui'.offline /\ ui'.source = "open"
        /\ ui'.visible = ui.visible /\ ui'.interval = "healthy" /\ ui'.polling = TRUE
        /\ ui'.behind \subseteq ui.behind
        /\ ui.visible => ui'.behind = IF f = Sync THEN {} ELSE ui.behind \ {f}
    <3>1. CASE f = Sync
      <4>1. ui' = RefreshBoth(p)
        BY <2>3, <3>1
      <4>2. p.behind \ (Topic \cap p.subs) = {}
        BY <2>2 DEF ChangesAreComing, UI
      <4>3. /\ ui' \in UI
            /\ ui'.subs = p.subs /\ ui'.visible = p.visible /\ ui'.offline = p.offline
            /\ ui'.source = p.source /\ ui'.connected = p.connected
            /\ ui'.delayed = p.delayed /\ ui'.interval = p.interval
            /\ ui'.polling = p.polling /\ ui'.watchdog = p.watchdog
        BY <2>2, <4>1, RefreshFields
      <4>4. ui'.behind = IF p.visible /\ ~p.offline THEN p.behind \ (Topic \cap p.subs)
                         ELSE p.behind
        BY <2>2, <4>1, RefreshFields
      <4>5. ui'.behind \subseteq ui.behind /\ (ui.visible => ui'.behind = {})
        BY <2>2, <2>4, <4>2, <4>4
      <4> QED BY <2>2, <2>3, <2>4, <3>1, <4>3, <4>5
    <3>2. CASE f # Sync
      <4>1. ui' = Notify(p, {f})
        BY <2>3, <3>2
      <4>2. p.behind \ ({f} \cap p.subs) = ui.behind \ {f}
        BY <2>2 DEF ChangesAreComing
      <4>3. /\ ui' \in UI
            /\ ui'.subs = p.subs /\ ui'.visible = p.visible /\ ui'.offline = p.offline
            /\ ui'.source = p.source /\ ui'.connected = p.connected
            /\ ui'.delayed = p.delayed /\ ui'.interval = p.interval
            /\ ui'.polling = p.polling /\ ui'.watchdog = p.watchdog
        <5>1. PICK one : one = {f}
          OBVIOUS
        <5>2. ui' = Notify(p, one)
          BY <4>1, <5>1
        <5>3. p \in UI
          BY <2>2
        <5> QED BY <5>2, <5>3, NotifyFields
      <4>4. ui'.behind = IF p.visible THEN p.behind \ ({f} \cap p.subs) ELSE p.behind
        BY <2>2, <4>1, NotifyFields
      <4>5. ui'.behind \subseteq ui.behind /\ (ui.visible => ui'.behind = ui.behind \ {f})
        BY <2>2, <4>2, <4>4
      <4> QED BY <2>2, <2>3, <2>4, <3>2, <4>3, <4>5
    <3> QED BY <3>1, <3>2
  <2>7. ChangesAreComing'
    <3>1. CASE f = Ping
      <4>1. ASSUME NEW t \in ui'.behind, ui'.visible
            PROVE  {t, Sync} \cap (stream'.unsent \cup stream'.due) # {}
        <5>1. t \in ui.behind /\ t # Ping /\ Ping # Sync
          BY <2>6, <4>1, LiveAssumption DEF UI
        <5>2. PICK g \in {t, Sync} : g \in stream.unsent \cup stream.due
          BY <2>3, <2>6, <4>1, <5>1 DEF ChangesAreComing
        <5> QED BY <2>5, <3>1, <5>1, <5>2
      <4>2. ui'.behind \subseteq ui'.subs
        BY <2>6 DEF ChangesAreComing
      <4> QED BY <4>1, <4>2 DEF ChangesAreComing
    <3>2. CASE f # Ping
      BY <2>3, <2>5, <2>6, <3>2 DEF ChangesAreComing
    <3> QED BY <3>1, <3>2
  <2> QED BY <2>4, <2>5, <2>6, <2>7
       DEF NeverStranded, PollsWhileUsed, NothingMissed, OutageIsAnnounced, StoppedIsQuiet,
           OfflineIsCut, ConnectedHasSource, ChangesAreComing, Used, Broken
<1>4. ASSUME NEW t \in Topic, Change(t)
      PROVE  LiveIInv'
  <2>1. /\ ui' \in UI /\ ui'.behind = ui.behind \cup ({t} \cap ui.subs)
        /\ ui'.subs = ui.subs /\ ui'.offline = ui.offline /\ ui'.source = ui.source
        /\ ui'.visible = ui.visible /\ ui'.connected = ui.connected
        /\ ui'.delayed = ui.delayed /\ ui'.interval = ui.interval
        /\ ui'.polling = ui.polling /\ ui'.reconnectTimer = ui.reconnectTimer
        /\ ui'.statusTimer = ui.statusTimer /\ ui'.watchdog = ui.watchdog
    BY <1>4 DEF Change, UI
  <2>2. /\ stream' \in Stream /\ stream'.due = stream.due
        /\ stream'.unsent = IF ui.source = "open" THEN stream.unsent \cup {t} ELSE stream.unsent
    BY <1>4 DEF Change, Stream
  <2>3. ChangesAreComing'
    BY <2>1, <2>2 DEF ChangesAreComing
  <2>4. NothingMissed'
    BY <2>1, <2>3 DEF NothingMissed, ChangesAreComing, ConnectedHasSource, Broken, UI
  <2> QED BY <2>1, <2>2, <2>3, <2>4
       DEF NeverStranded, PollsWhileUsed, OutageIsAnnounced, StoppedIsQuiet,
           OfflineIsCut, ConnectedHasSource, Used, Broken
<1>5. ASSUME NEW read \in SUBSET Topic, ServerTick(read)
      PROVE  LiveIInv'
  <2>1. /\ stream' \in Stream /\ stream'.due = stream.due \cup read
        /\ stream'.unsent = stream.unsent \ read /\ ui' = ui
    BY <1>5 DEF ServerTick, Stream
  <2> QED BY <2>1
       DEF NeverStranded, PollsWhileUsed, NothingMissed, OutageIsAnnounced, StoppedIsQuiet,
           OfflineIsCut, ConnectedHasSource, ChangesAreComing, Used, Broken
<1>6. CASE Silence
  <2>1. /\ stream' \in Stream /\ stream'.due = stream.due
        /\ stream'.unsent = stream.unsent /\ ui' = ui
    BY <1>6 DEF Silence, Stream
  <2> QED BY <2>1
       DEF NeverStranded, PollsWhileUsed, NothingMissed, OutageIsAnnounced, StoppedIsQuiet,
           OfflineIsCut, ConnectedHasSource, ChangesAreComing, Used, Broken
<1> QED BY <1>1, <1>2, <1>3, <1>4, <1>5, <1>6

\* The reconnect, watchdog, status and fallback timers.
LEMMA TimerSteps ==
  ASSUME LiveIInv,
         \/ \E built \in BOOLEAN : ReconnectFires(built)
         \/ WatchdogFires \/ StatusFires \/ PollFires \/ Age
  PROVE  LiveIInv'
<1> USE DEF LiveIInv, LiveInv, LiveTypeOK
<1>1. ASSUME NEW built \in BOOLEAN, ReconnectFires(built)
      PROVE  LiveIInv'
  <2> DEFINE p == CloseSource([ui EXCEPT !.reconnectTimer = FALSE])
  <2>1. /\ p \in UI /\ p.source = "none" /\ p.reconnectTimer = FALSE
        /\ p.subs = ui.subs /\ p.behind = ui.behind /\ p.offline = ui.offline
        /\ p.visible = ui.visible /\ p.connected = ui.connected
        /\ p.delayed = ui.delayed /\ p.interval = ui.interval /\ p.polling = ui.polling
        /\ p.statusTimer = ui.statusTimer
    BY DEF CloseSource, UI
  <2>2. ui' = Connect(p, built) /\ stream' \in Stream /\ Used(ui) /\ ~ui.offline
    BY <1>1 DEF ReconnectFires, Forget, Stream, StoppedIsQuiet, OfflineIsCut
  <2> HIDE DEF p
  <2>3. CASE built
    <3>1. /\ ui' \in UI /\ ui'.source = "connecting" /\ ui'.watchdog = "current"
          /\ ui'.subs = ui.subs /\ ui'.behind = ui.behind /\ ~ui'.offline
          /\ ui'.visible = ui.visible /\ ui'.connected = ui.connected
          /\ ui'.delayed = ui.delayed /\ ui'.interval = ui.interval
          /\ ui'.polling = ui.polling /\ ui'.statusTimer = ui.statusTimer
      BY <2>1, <2>2, <2>3 DEF Connect, UI
    <3> QED BY <2>2, <3>1
         DEF NeverStranded, PollsWhileUsed, NothingMissed, OutageIsAnnounced, StoppedIsQuiet,
             OfflineIsCut, ConnectedHasSource, ChangesAreComing, Used, Broken
  <2>4. CASE ~built
    <3>1. Used(p)
      BY <2>1, <2>2 DEF Used
    <3>2. /\ ui' \in UI /\ ui'.source = p.source /\ ui'.subs = p.subs
          /\ ui'.visible = p.visible /\ ui'.offline = p.offline
          /\ ~ui'.connected /\ ui'.interval = "recovery" /\ ui'.behind \subseteq p.behind
      BY <2>1, <2>2, <2>4, ConnectFields
    <3>3. ui'.polling = (p.polling \/ p.interval # "recovery")
      BY <2>1, <2>2, <2>4, ConnectFields
    <3>4. ui'.statusTimer = (p.statusTimer \/ p.visible)
      BY <2>1, <2>2, <2>4, ConnectFields
    <3>5. ui'.reconnectTimer = (p.reconnectTimer \/ (~p.offline /\ Used(p)))
      BY <2>1, <2>2, <2>4, ConnectFields
    <3>6. ui'.polling = TRUE /\ ui'.reconnectTimer /\ (ui'.visible => ui'.statusTimer)
      BY <2>1, <2>2, <3>1, <3>2, <3>3, <3>4, <3>5 DEF PollsWhileUsed
    <3>7. /\ ui'.source = "none" /\ ui'.subs = ui.subs /\ ui'.visible = ui.visible
          /\ ~ui'.offline /\ ui'.behind \subseteq ui.behind
      BY <2>1, <2>2, <3>2
    <3> QED BY <2>2, <3>2, <3>6, <3>7
         DEF NeverStranded, PollsWhileUsed, NothingMissed, OutageIsAnnounced, StoppedIsQuiet,
             OfflineIsCut, ConnectedHasSource, ChangesAreComing, Used, Broken
  <2> QED BY <2>3, <2>4
<1>2. CASE WatchdogFires
  <2> DEFINE p == [ui EXCEPT !.watchdog = "none"]
             lost == ConnectionLost(p)
  <2>1. /\ p \in UI /\ p.watchdog = "none"
        /\ p.subs = ui.subs /\ p.behind = ui.behind /\ p.offline = ui.offline
        /\ p.source = ui.source /\ p.visible = ui.visible /\ p.connected = ui.connected
        /\ p.delayed = ui.delayed /\ p.interval = ui.interval /\ p.polling = ui.polling
        /\ p.statusTimer = ui.statusTimer /\ p.reconnectTimer = ui.reconnectTimer
    BY DEF UI
  <2>2. /\ ui.watchdog # "none" /\ stream' = stream
        /\ ui' = IF ui.watchdog = "old" \/ ~ui.visible THEN p
                 ELSE IF ui.fresh THEN ui ELSE ScheduleReconnect(lost)
    BY <1>2 DEF WatchdogFires
  <2> HIDE DEF p
  <2>3. CASE ui.watchdog = "old" \/ ~ui.visible
    <3>1. ui' = p
      BY <2>2, <2>3
    <3> QED BY <2>1, <2>2, <2>3, <3>1
         DEF NeverStranded, PollsWhileUsed, NothingMissed, OutageIsAnnounced, StoppedIsQuiet,
             OfflineIsCut, ConnectedHasSource, ChangesAreComing, Used, Broken
  <2>4. CASE ui.watchdog # "old" /\ ui.visible /\ ui.fresh
    <3>1. ui' = ui
      BY <2>2, <2>4
    <3> QED BY <2>2, <3>1
         DEF NeverStranded, PollsWhileUsed, NothingMissed, OutageIsAnnounced, StoppedIsQuiet,
             OfflineIsCut, ConnectedHasSource, ChangesAreComing, Used, Broken
  <2>5. CASE ui.watchdog # "old" /\ ui.visible /\ ~ui.fresh
    <3>1. Used(ui) /\ ui' = ScheduleReconnect(lost)
      BY <2>2, <2>5 DEF StoppedIsQuiet
    <3>2. /\ lost \in UI /\ lost.source = ui.source /\ lost.subs = ui.subs
          /\ lost.visible = ui.visible /\ lost.offline = ui.offline
          /\ lost.reconnectTimer = ui.reconnectTimer
          /\ ~lost.connected /\ lost.interval = "recovery"
          /\ lost.polling = (ui.polling \/ ui.interval # "recovery")
          /\ lost.statusTimer = (ui.statusTimer \/ ui.visible)
          /\ lost.behind \subseteq ui.behind
      BY <2>1, LostFields
    <3> HIDE DEF lost
    <3>3. /\ ui' \in UI /\ ui'.source = ui.source /\ ui'.subs = ui.subs
          /\ ui'.visible = ui.visible /\ ui'.offline = ui.offline
          /\ ~ui'.connected /\ ui'.interval = "recovery"
          /\ ui'.polling = lost.polling /\ ui'.statusTimer = lost.statusTimer
          /\ ui'.behind \subseteq ui.behind
          /\ ui'.reconnectTimer = (ui.reconnectTimer \/ ~ui.offline)
      BY <3>1, <3>2 DEF ScheduleReconnect, UI, Used
    <3>4. ui'.polling = TRUE /\ (ui.visible => ui'.statusTimer)
      BY <3>1, <3>2, <3>3 DEF PollsWhileUsed
    <3> QED BY <2>2, <2>5, <3>1, <3>3, <3>4
         DEF NeverStranded, PollsWhileUsed, NothingMissed, OutageIsAnnounced, StoppedIsQuiet,
             OfflineIsCut, ConnectedHasSource, ChangesAreComing, Used, Broken
  <2> QED BY <2>3, <2>4, <2>5
<1>3. CASE StatusFires
  <2>1. /\ ui' \in UI /\ stream' = stream /\ ui.statusTimer
        /\ ui'.subs = ui.subs /\ ui'.behind = ui.behind /\ ui'.offline = ui.offline
        /\ ui'.source = ui.source /\ ui'.visible = ui.visible
        /\ ui'.connected = ui.connected /\ ui'.interval = ui.interval
        /\ ui'.polling = ui.polling /\ ui'.reconnectTimer = ui.reconnectTimer
        /\ ui'.watchdog = ui.watchdog /\ ui'.statusTimer = FALSE
        /\ ui'.delayed = (ui.delayed \/ (~ui.connected /\ ui.visible))
    <3>1. (ui.delayed \/ (~ui.connected /\ ui.visible)) \in BOOLEAN
      OBVIOUS
    <3> QED BY <1>3, <3>1 DEF StatusFires, UI
  <2> QED BY <2>1
       DEF NeverStranded, PollsWhileUsed, NothingMissed, OutageIsAnnounced, StoppedIsQuiet,
           OfflineIsCut, ConnectedHasSource, ChangesAreComing, Used, Broken
<1>4. CASE PollFires
  <2>1. /\ ui' \in UI /\ stream' = stream
        /\ ui'.subs = ui.subs /\ ui'.behind \subseteq ui.behind
        /\ ui'.offline = ui.offline /\ ui'.source = ui.source /\ ui'.visible = ui.visible
        /\ ui'.connected = ui.connected /\ ui'.interval = ui.interval
        /\ ui'.polling = ui.polling /\ ui'.reconnectTimer = ui.reconnectTimer
        /\ ui'.watchdog = ui.watchdog /\ ui'.statusTimer = ui.statusTimer
        /\ ui'.delayed = ui.delayed
    BY <1>4, RefreshFields DEF PollFires
  <2> QED BY <2>1
       DEF NeverStranded, PollsWhileUsed, NothingMissed, OutageIsAnnounced, StoppedIsQuiet,
           OfflineIsCut, ConnectedHasSource, ChangesAreComing, Used, Broken
<1>5. CASE Age
  <2>1. /\ ui' \in UI /\ stream' = stream
        /\ ui'.subs = ui.subs /\ ui'.behind = ui.behind
        /\ ui'.offline = ui.offline /\ ui'.source = ui.source /\ ui'.visible = ui.visible
        /\ ui'.connected = ui.connected /\ ui'.interval = ui.interval
        /\ ui'.polling = ui.polling /\ ui'.reconnectTimer = ui.reconnectTimer
        /\ ui'.watchdog = ui.watchdog /\ ui'.statusTimer = ui.statusTimer
        /\ ui'.delayed = ui.delayed
    BY <1>5 DEF Age, UI
  <2> QED BY <2>1
       DEF NeverStranded, PollsWhileUsed, NothingMissed, OutageIsAnnounced, StoppedIsQuiet,
           OfflineIsCut, ConnectedHasSource, ChangesAreComing, Used, Broken
<1> QED BY <1>1, <1>2, <1>3, <1>4, <1>5

\* Whatever the order of subscriptions, visibility, network, stream and timers:
\* the page has a way back, polls at the right pace, misses no change and keeps
\* no outage quiet (src/ui/liveUpdates.ts).
THEOREM LiveInvariant == Spec => []LiveInv
<1>1. Init => LiveIInv
  <2> SUFFICES ASSUME Init PROVE LiveIInv
    OBVIOUS
  <2>1. ui \in UI /\ stream \in Stream
    BY DEF Init, UI, Stream
  <2> QED BY <2>1
       DEF Init, LiveIInv, LiveInv, LiveTypeOK, NeverStranded, PollsWhileUsed, NothingMissed,
           OutageIsAnnounced, StoppedIsQuiet, OfflineIsCut, ConnectedHasSource,
           ChangesAreComing, Used, Broken
<1>2. LiveIInv /\ [Next]_vars => LiveIInv'
  <2> SUFFICES ASSUME LiveIInv, [Next]_vars PROVE LiveIInv'
    OBVIOUS
  <2>1. CASE UNCHANGED vars
    BY <2>1 DEF vars, LiveIInv, LiveInv, LiveTypeOK, NeverStranded, PollsWhileUsed,
         NothingMissed, OutageIsAnnounced, StoppedIsQuiet, OfflineIsCut, ConnectedHasSource,
         ChangesAreComing, Used, Broken
  <2>2. CASE Next
    BY <2>2, SubscriptionSteps, BrowserSteps, StreamSteps, TimerSteps DEF Next
  <2> QED BY <2>1, <2>2
<1>3. LiveIInv => LiveInv
  BY DEF LiveIInv
<1> QED BY <1>1, <1>2, <1>3, PTL DEF Spec

(***************************************************************************)
(* The notice of an outage, on top of the stream.                          *)
(***************************************************************************)

\* What may wait, or be shown like the notice; the notice itself never waits.
Ordinary == ReadError \cup OtherError \cup Feedback
Toasts == [active : Ordinary \cup {Outage, NoToast}, waiting : Seq(Ordinary)]

Outages == [read : BOOLEAN, stream : BOOLEAN, notified : BOOLEAN, left : Nat]

NoticeTypeOK ==
  /\ toast \in Toasts
  /\ outage \in Outages
  /\ reading \in BOOLEAN

\* The notice is up or was replaced by a message that came after, and was announced.
NoticeInv ==
  /\ NoticeTypeOK
  /\ toast.active = Outage => outage.notified
  /\ outage.notified = (outage.read \/ outage.stream)

\* A set of numbers has a least one (WFMin), and a greatest if it is bounded.
LEMMA LeastNumber ==
  ASSUME NEW S \in SUBSET Nat, S # {}
  PROVE  \E m \in S : \A n \in S : m <= n
<1>1. PICK m \in S : \A n \in S : <<n, m>> \notin OpToRel(<, Nat)
  BY WFMin, NatLessThanWellFounded, Zenon
<1>2. \A n \in S : ~(n < m)
  <2>1. \A n \in Nat : n < m => <<n, m>> \in OpToRel(<, Nat)
    BY <1>1, Zenon DEF OpToRel
  <2> QED BY <1>1, <2>1
<1>3. \A n \in S : n \in Nat /\ m \in Nat
  OBVIOUS
<1> QED BY <1>2, <1>3

LEMMA GreatestNumber ==
  ASSUME NEW S \in SUBSET Nat, S # {}, NEW c \in Nat, \A n \in S : n <= c
  PROVE  \E m \in S : \A n \in S : n <= m
<1> DEFINE D == {c - n : n \in S}
<1>1. D \in SUBSET Nat /\ D # {}
  <2>1. \A n \in S : c - n \in Nat
    <3>1. \A n \in S : n \in Nat /\ n <= c
      OBVIOUS
    <3> QED BY <3>1
  <2> QED BY <2>1
<1>2. PICK d \in D : \A n \in D : d <= n
  BY <1>1, LeastNumber
<1>3. PICK m \in S : d = c - m
  BY <1>2
<1>4. \A n \in S : c - m <= c - n
  BY <1>2, <1>3
<1> QED BY <1>4

\* Numbers up to a bound can be counted: one of them is the k-th.
LEMMA RankIsTaken ==
  ASSUME NEW c \in Nat, NEW L \in SUBSET (1..c), NEW k \in 1..Cardinality(L)
  PROVE  \E i \in L : Cardinality({j \in L : j <= i}) = k
<1> DEFINE Upto(i) == {j \in L : j <= i}
           High == {i \in L : Cardinality(Upto(i)) >= k}
<1>1. IsFiniteSet(L) /\ Cardinality(L) \in Nat
  <2>1. IsFiniteSet(1..c)
    BY FS_Interval
  <2> QED BY <2>1, FS_Subset, FS_CardinalityType
<1>2. \A S \in SUBSET L : IsFiniteSet(S) /\ Cardinality(S) \in Nat
  BY <1>1, FS_Subset, FS_CardinalityType
<1>3. \A S \in SUBSET L : S # {} => \E m \in S : \A n \in S : n <= m
  <2> SUFFICES ASSUME NEW S \in SUBSET L, S # {} PROVE \E m \in S : \A n \in S : n <= m
    OBVIOUS
  <2>1. S \in SUBSET Nat /\ \A n \in S : n <= c
    OBVIOUS
  <2> QED BY <2>1, GreatestNumber
<1>4. High # {}
  <2>1. L # {}
    <3>1. Cardinality(L) # 0
      BY <1>1
    <3> QED BY <3>1, FS_EmptySet
  <2>2. PICK m \in L : \A n \in L : n <= m
    BY <1>3, <2>1
  <2>3. Upto(m) = L
    BY <2>2
  <2> QED BY <1>1, <2>3
<1>5. PICK i \in High : \A n \in High : i <= n
  <2>1. High \in SUBSET Nat
    <3>1. High \subseteq L /\ L \subseteq Nat
      OBVIOUS
    <3> HIDE DEF High
    <3> QED BY <3>1
  <2> HIDE DEF High
  <2> QED BY <1>4, <2>1, LeastNumber
<1>6. i \in L /\ i \in Upto(i) /\ Upto(i) \in SUBSET L /\ k \in Nat /\ k > 0
  BY <1>1
<1>7. PICK n \in Nat : n = Cardinality(Upto(i)) /\ n >= k
  BY <1>2, <1>5, <1>6
<1>8. n <= k
  <2> SUFFICES ASSUME n > k PROVE FALSE
    BY <1>6, <1>7
  <2> DEFINE Below == Upto(i) \ {i}
  <2>1. IsFiniteSet(Upto(i)) /\ Cardinality(Below) = n - 1
    <3>1. IsFiniteSet(Upto(i))
      BY <1>2, <1>6
    <3> HIDE DEF Upto
    <3> QED BY <1>6, <1>7, <3>1, FS_RemoveElement
  <2>2. Below # {}
    <3>1. Cardinality(Below) # 0
      BY <1>6, <1>7, <2>1
    <3> HIDE DEF Below
    <3> QED BY <3>1, FS_EmptySet
  <2>3. Below \in SUBSET L
    OBVIOUS
  <2>4. PICK p \in Below : \A x \in Below : x <= p
    <3> HIDE DEF Below
    <3> QED BY <1>3, <2>2, <2>3
  <2>5. p \in L /\ p < i /\ Upto(p) = Below
    <3>1. p \in L /\ p \in Nat /\ i \in Nat /\ p <= i /\ p # i
      BY <1>6, <2>4
    <3>2. \A x \in L : x \in Nat
      OBVIOUS
    <3>3. \A x \in L : x <= p <=> x \in Below
      BY <2>4, <3>1, <3>2
    <3>4. Below \subseteq L
      OBVIOUS
    <3>5. {x \in L : x <= p} = Below
      <4> HIDE DEF Below
      <4> QED BY <3>3, <3>4
    <3> QED BY <3>1, <3>5
  <2>6. Cardinality(Upto(p)) >= k
    <3>1. Cardinality(Upto(p)) = n - 1
      BY <2>1, <2>5
    <3> QED BY <1>6, <1>7, <3>1
  <2>7. p \in High
    BY <2>5, <2>6
  <2>8. i <= p
    BY <1>5, <2>7
  <2>9. p \in Nat /\ i \in Nat
    BY <1>6, <2>5
  <2> QED BY <2>5, <2>8, <2>9
<1>9. Cardinality(Upto(i)) = k /\ i \in L
  BY <1>6, <1>7, <1>8
<1> QED BY <1>9

\* What is left of a sequence are elements of it (SelectSeq).
LEMMA WithoutIsSeq ==
  ASSUME NEW S, NEW s \in Seq(S), NEW M
  PROVE  Without(s, M) \in Seq(S)
<1> DEFINE left == {i \in DOMAIN s : s[i] \notin M}
           At(k) == CHOOSE i \in left : Cardinality({j \in left : j <= i}) = k
<1>1. /\ DOMAIN s = 1..Len(s) /\ Len(s) \in Nat /\ left \in SUBSET (1..Len(s))
      /\ \A i \in DOMAIN s : s[i] \in S
  OBVIOUS
<1>2. Cardinality(left) \in Nat
  <2>1. IsFiniteSet(1..Len(s))
    BY <1>1, FS_Interval
  <2> HIDE DEF left
  <2> QED BY <1>1, <2>1, FS_Subset, FS_CardinalityType
<1>3. ASSUME NEW k \in 1..Cardinality(left) PROVE s[At(k)] \in S
  <2>1. \E i \in left : Cardinality({j \in left : j <= i}) = k
    <3> HIDE DEF left
    <3> QED BY <1>1, RankIsTaken
  <2>2. At(k) \in left
    <3> HIDE DEF left
    <3> QED BY <2>1
  <2> QED BY <1>1, <2>2
<1>4. Without(s, M) = [k \in 1..Cardinality(left) |-> s[At(k)]]
  BY DEF Without
<1>5. [k \in 1..Cardinality(left) |-> s[At(k)]] \in Seq(S)
  <2> HIDE DEF left, At
  <2> QED BY <1>2, <1>3, IsASeq
<1> QED BY <1>4, <1>5

---------------------------------------------------------------------------
(* What the functions of toast.ts return.                                  *)

LEMMA ToastsTell ==
  /\ Outage \notin Ordinary /\ NoToast \notin Ordinary /\ Outage # NoToast
  /\ Message = Ordinary \cup {Outage} /\ MaxWaiting \in Nat /\ MaxWaiting > 0 /\ Grace \in Nat
<1>1. MaxWaiting \in Nat \ {0} /\ Grace \in Nat \ {0}
  BY ToastAssumption
<1> QED BY <1>1, ToastAssumption DEF Ordinary, Message

\* No message takes the place of the notice without being shown, and none becomes it (showToast).
LEMMA ShowKeeps ==
  ASSUME NEW t \in Toasts, NEW m \in Ordinary, NEW replace
  PROVE  LET u == ShowToast(t, m, replace)
         IN  u \in Toasts /\ (u.active = Outage => t.active = Outage)
<1>1. /\ t.active \in Ordinary \cup {Outage, NoToast} /\ t.waiting \in Seq(Ordinary)
      /\ m # Outage /\ m # NoToast
  BY ToastsTell DEF Toasts
<1>2. /\ [t EXCEPT !.active = m] \in Toasts
      /\ [t EXCEPT !.active = m].active = m
  BY DEF Toasts
<1>3. ASSUME t.active \in Ordinary
      PROVE  [active |-> m, waiting |-> <<t.active>> \o t.waiting] \in Toasts
  BY <1>1, <1>3 DEF Toasts
<1>4. [active |-> m, waiting |-> t.waiting] \in Toasts
  BY <1>1 DEF Toasts
<1>5. Shift(Append(t.waiting, m)) \in Seq(Ordinary)
  <2>1. PICK s \in Seq(Ordinary) : s = Append(t.waiting, m)
    BY <1>1, AppendProperties
  <2>2. Len(s) > MaxWaiting => s # <<>>
    BY ToastsTell
  <2> QED BY <2>1, <2>2 DEF Shift
<1>6. /\ [t EXCEPT !.waiting = Shift(Append(@, m))] \in Toasts
      /\ [t EXCEPT !.waiting = Shift(Append(@, m))].active = t.active
  BY <1>5 DEF Toasts
<1>7. CASE m = t.active \/ \E i \in DOMAIN t.waiting : t.waiting[i] = m
  BY <1>7 DEF ShowToast
<1>8. CASE /\ ~(m = t.active \/ \E i \in DOMAIN t.waiting : t.waiting[i] = m)
           /\ t.active = NoToast \/ m \in Feedback \/ replace
  BY <1>1, <1>2, <1>8 DEF ShowToast
<1>9. CASE /\ ~(m = t.active \/ \E i \in DOMAIN t.waiting : t.waiting[i] = m)
           /\ ~(t.active = NoToast \/ m \in Feedback \/ replace)
  <2>1. CASE IsError(m) /\ ~IsError(t.active)
    <3>1. ShowToast(t, m, replace) =
            [active |-> m,
             waiting |-> IF t.active = Outage THEN t.waiting ELSE <<t.active>> \o t.waiting]
      BY <1>9, <2>1 DEF ShowToast
    <3>2. CASE t.active = Outage
      BY <1>4, <3>1, <3>2
    <3>3. CASE t.active # Outage
      <4>1. t.active \in Ordinary
        BY <1>1, <1>9, <3>3
      <4> QED BY <1>1, <1>3, <3>1, <3>3, <4>1
    <3> QED BY <3>2, <3>3
  <2>2. CASE ~(IsError(m) /\ ~IsError(t.active))
    <3>1. ShowToast(t, m, replace) = [t EXCEPT !.waiting = Shift(Append(@, m))]
      BY <1>9, <2>2 DEF ShowToast
    <3> QED BY <1>6, <3>1
  <2> QED BY <2>1, <2>2
<1> QED BY <1>7, <1>8, <1>9

\* The notice never waits: it is shown at once.
LEMMA ShowsOutage ==
  ASSUME NEW t \in Toasts
  PROVE  ShowToast([t EXCEPT !.waiting = Without(@, ReadError)], Outage, TRUE) \in Toasts
<1>1. PICK s \in Seq(Ordinary) : s = Without(t.waiting, ReadError)
  BY WithoutIsSeq DEF Toasts
<1>2. PICK u \in Toasts : u = [t EXCEPT !.waiting = Without(@, ReadError)]
  BY <1>1 DEF Toasts
<1>3. [u EXCEPT !.active = Outage] \in Toasts
  BY DEF Toasts
<1>4. ShowToast(u, Outage, TRUE) \in {u, [u EXCEPT !.active = Outage]}
  BY DEF ShowToast
<1> QED BY <1>2, <1>3, <1>4

\* A message that is dismissed is not shown any more, and what follows it is not the notice.
LEMMA DismissKeeps ==
  ASSUME NEW t \in Toasts, NEW m
  PROVE  LET u == Dismiss(t, m)
         IN  u \in Toasts /\ (u.active = Outage => t.active = Outage /\ m # Outage)
<1>1. t.waiting \in Seq(Ordinary) /\ t.active \in Ordinary \cup {Outage, NoToast}
  BY DEF Toasts
<1>2. CASE t.active # m
  <2>1. PICK s \in Seq(Ordinary) : s = Without(t.waiting, {m})
    BY <1>1, WithoutIsSeq
  <2>2. Dismiss(t, m) = [t EXCEPT !.waiting = s]
    BY <1>2, <2>1 DEF Dismiss
  <2>3. [t EXCEPT !.waiting = s] \in Toasts /\ [t EXCEPT !.waiting = s].active = t.active
    BY DEF Toasts
  <2> QED BY <1>2, <2>2, <2>3
<1>3. CASE t.active = m /\ t.waiting = <<>>
  <2>1. Dismiss(t, m) = [t EXCEPT !.active = NoToast]
    BY <1>3 DEF Dismiss
  <2>2. [t EXCEPT !.active = NoToast] \in Toasts /\ [t EXCEPT !.active = NoToast].active = NoToast
    BY DEF Toasts
  <2> QED BY <2>1, <2>2, ToastsTell
<1>4. CASE t.active = m /\ t.waiting # <<>>
  <2>1. Dismiss(t, m) = [active |-> Head(t.waiting), waiting |-> Tail(t.waiting)]
    BY <1>4 DEF Dismiss
  <2>2. Head(t.waiting) \in Ordinary /\ Tail(t.waiting) \in Seq(Ordinary)
    BY <1>1, <1>4
  <2>3. Dismiss(t, m) \in Toasts /\ Dismiss(t, m).active \in Ordinary
    BY <2>1, <2>2 DEF Toasts
  <2> QED BY <2>3, ToastsTell
<1> QED BY <1>2, <1>3, <1>4

---------------------------------------------------------------------------
\* A reason appears: the notice is up, and was announced (showOutage).
LEMMA OutageShows ==
  ASSUME NoticeInv, NEW o \in Outages, o.read \/ o.stream, ShowOutage(o), reading' \in BOOLEAN
  PROVE  NoticeInv'
<1>1. outage' \in Outages /\ outage'.notified = TRUE /\ outage'.read = o.read /\ outage'.stream = o.stream
  BY DEF ShowOutage, Outages
<1>2. toast' \in Toasts
  BY ShowsOutage DEF ShowOutage, NoticeInv, NoticeTypeOK
<1>3. NoticeTypeOK'
  BY <1>1, <1>2 DEF NoticeTypeOK, Outages
<1> QED BY <1>1, <1>3 DEF NoticeInv

\* A reason ends: the notice goes with the last (clearOutageIfHealthy).
LEMMA OutageClears ==
  ASSUME NoticeInv, NEW o \in Outages, o.notified = outage.notified,
         o.read \/ o.stream => o.notified, ClearOutageIfHealthy(o), reading' \in BOOLEAN
  PROVE  NoticeInv'
<1> DEFINE healthy == o.notified /\ ~o.read /\ ~o.stream
<1>1. outage' = [o EXCEPT !.notified = @ /\ ~healthy]
  BY DEF ClearOutageIfHealthy
<1>2. (o.notified /\ ~healthy) = (o.read \/ o.stream)
  BY DEF Outages
<1>3. PICK up \in BOOLEAN : up = (o.notified /\ ~healthy)
  OBVIOUS
<1>4. outage' = [o EXCEPT !.notified = up]
  BY <1>1, <1>3, Zenon
<1>5. /\ outage' \in Outages /\ outage'.notified = up
      /\ outage'.read = o.read /\ outage'.stream = o.stream
  BY <1>4 DEF Outages
<1>6. toast' = IF healthy THEN Dismiss(toast, Outage) ELSE toast
  BY DEF ClearOutageIfHealthy
<1>7. toast' \in Toasts /\ (toast'.active = Outage => toast.active = Outage /\ ~healthy)
  <2>1. toast \in Toasts
    BY DEF NoticeInv, NoticeTypeOK
  <2>2. PICK t \in Toasts : t = toast
    BY <2>1
  <2>3. CASE healthy
    BY <1>6, <2>2, <2>3, DismissKeeps
  <2>4. CASE ~healthy
    BY <1>6, <2>1, <2>4
  <2> QED BY <2>3, <2>4
<1>8. NoticeTypeOK'
  BY <1>5, <1>7 DEF NoticeTypeOK, Outages
<1>9. toast'.active = Outage => outage'.notified
  BY <1>3, <1>5, <1>7 DEF NoticeInv
<1> QED BY <1>2, <1>3, <1>5, <1>8, <1>9 DEF NoticeInv

\* The notice never waits, and it is announced exactly while one of its two reasons holds
\* (showOutage, clearOutageIfHealthy).
THEOREM NoticeInvariant == NoticeSpec => []NoticeInv
<1>1. NoticeInit => NoticeInv
  <2> SUFFICES ASSUME NoticeInit PROVE NoticeInv
    OBVIOUS
  <2>1. toast \in Toasts /\ toast.active = NoToast
    BY DEF NoticeInit, Toasts
  <2> QED BY <2>1, ToastsTell DEF NoticeInit, NoticeInv, NoticeTypeOK, Outages
<1>2. NoticeInv /\ [NoticeNext]_allVars => NoticeInv'
  <2> SUFFICES ASSUME NoticeInv, [NoticeNext]_allVars PROVE NoticeInv'
    OBVIOUS
  <2>1. /\ toast \in Toasts /\ outage \in Outages /\ reading \in BOOLEAN
        /\ outage.read \/ outage.stream => outage.notified
        /\ toast.active = Outage => outage.notified
    BY DEF NoticeInv, NoticeTypeOK, Outages
  <2>2. ASSUME UNCHANGED outage, toast' \in Toasts, reading' \in BOOLEAN,
               toast'.active = Outage => toast.active = Outage
        PROVE  NoticeInv'
    BY <2>2 DEF NoticeInv, NoticeTypeOK
  <2>3. CASE UNCHANGED allVars \/ LiveStep \/ Poll \/ Read \/ ReadTellsNothing
    <3>1. UNCHANGED <<outage, toast>> /\ reading' \in BOOLEAN
      BY <2>1, <2>3 DEF allVars, outageVars, LiveStep, Poll, Read, ReadTellsNothing
    <3> QED BY <2>1, <2>2, <3>1
  <2>4. ASSUME NEW m \in Message, NEW replace \in BOOLEAN, Say(m, replace) PROVE NoticeInv'
    <3>1. m \in Ordinary
      BY <2>4, ToastsTell DEF Say
    <3>2. PICK t \in Toasts : t = toast
      BY <2>1
    <3>3. toast' \in {t, ShowToast(t, m, replace)} /\ UNCHANGED <<outage, reading>>
      BY <2>4, <3>2 DEF Say
    <3>4. toast' \in Toasts /\ (toast'.active = Outage => toast.active = Outage)
      BY <3>1, <3>2, <3>3, ShowKeeps
    <3> QED BY <2>1, <2>2, <3>3, <3>4
  <2>5. ASSUME NEW byUser \in BOOLEAN, Close(byUser) PROVE NoticeInv'
    <3>1. PICK t \in Toasts : t = toast
      BY <2>1
    <3>2. toast' = Dismiss(t, t.active) /\ UNCHANGED <<outage, reading>>
      BY <2>5, <3>1 DEF Close
    <3>3. toast' \in Toasts /\ (toast'.active = Outage => toast.active = Outage)
      BY <3>1, <3>2, DismissKeeps
    <3> QED BY <2>1, <2>2, <3>2, <3>3
  <2>6. CASE ReadFails
    <3>1. PICK o \in Outages : o = [outage EXCEPT !.read = TRUE, !.left = 0] /\ o.read
      <4>1. [outage EXCEPT !.read = TRUE, !.left = 0] \in Outages
        BY <2>1 DEF Outages
      <4>2. [outage EXCEPT !.read = TRUE, !.left = 0].read = TRUE
        BY <2>1 DEF Outages
      <4> QED BY <4>1, <4>2
    <3> QED BY <2>6, <3>1, OutageShows DEF ReadFails
  <2>7. CASE ReadSucceeds
    <3>1. PICK n \in Nat : n = IF outage.read THEN Grace ELSE outage.left
      BY <2>1, ToastsTell DEF Outages
    <3>2. outage' = [outage EXCEPT !.left = n] /\ toast' = toast /\ reading' = FALSE
      BY <2>7, <3>1 DEF ReadSucceeds
    <3> QED BY <2>1, <3>2 DEF NoticeInv, NoticeTypeOK, Outages
  <2>8. CASE GracePasses
    <3>1. CASE outage.left > 1
      <4>1. PICK n \in Nat : n = outage.left - 1
        BY <2>1, <3>1 DEF Outages
      <4>2. outage' = [outage EXCEPT !.left = n] /\ UNCHANGED <<toast, reading>>
        BY <2>8, <3>1, <4>1 DEF GracePasses
      <4> QED BY <2>1, <4>2 DEF NoticeInv, NoticeTypeOK, Outages
    <3>2. CASE ~(outage.left > 1)
      <4>1. PICK o \in Outages : /\ o = [outage EXCEPT !.left = 0, !.read = FALSE]
                                 /\ o.notified = outage.notified /\ (o.read \/ o.stream => o.notified)
        <5>1. PICK new \in Outages : new = [outage EXCEPT !.left = 0, !.read = FALSE]
          BY <2>1 DEF Outages
        <5>2. new.notified = outage.notified /\ new.read = FALSE /\ new.stream = outage.stream
          BY <2>1, <5>1 DEF Outages
        <5> QED BY <2>1, <5>1, <5>2
      <4> QED BY <2>1, <2>8, <3>2, <4>1, OutageClears DEF GracePasses
    <3> QED BY <3>1, <3>2
  <2>9. CASE AppEffect
    <3>1. PICK up \in BOOLEAN : up = Delayed
      BY DEF Delayed
    <3>2. PICK o \in Outages : /\ o = [outage EXCEPT !.stream = up] /\ o.stream = up
                               /\ o.read = outage.read /\ o.notified = outage.notified
      <4>1. PICK new \in Outages : new = [outage EXCEPT !.stream = up]
        BY <2>1 DEF Outages
      <4>2. new.stream = up /\ new.read = outage.read /\ new.notified = outage.notified
        BY <2>1, <4>1 DEF Outages
      <4> QED BY <4>1, <4>2
    <3>3. IF up THEN ShowOutage(o) ELSE ClearOutageIfHealthy(o)
      BY <2>9, <3>1, <3>2 DEF AppEffect
    <3>4. reading' \in BOOLEAN
      BY <2>1, <2>9 DEF AppEffect
    <3> QED BY <2>1, <3>2, <3>3, <3>4, OutageShows, OutageClears
  <2> QED BY <2>3, <2>4, <2>5, <2>6, <2>7, <2>8, <2>9 DEF NoticeNext
<1> QED BY <1>1, <1>2, PTL DEF NoticeSpec

\* The notice of an outage is up exactly as long as reads fail or the stream is delayed
\* (clearOutageIfHealthy), however many messages are said and closed meanwhile.
THEOREM NoticeTellsTrue == NoticeSpec => []NoticeIsTrue
<1>1. NoticeInv => NoticeIsTrue
  <2> SUFFICES ASSUME NoticeInv PROVE NoticeIsTrue
    OBVIOUS
  <2>1. \A i \in DOMAIN toast.waiting : toast.waiting[i] \in Ordinary
    <3>1. toast.waiting \in Seq(Ordinary)
      BY DEF NoticeInv, NoticeTypeOK, Toasts
    <3> QED BY <3>1
  <2>2. Outage \in Shown => toast.active = Outage
    BY <2>1, ToastsTell DEF Shown
  <2> QED BY <2>2 DEF NoticeInv, NoticeIsTrue
<1> QED BY <1>1, NoticeInvariant, PTL

\* What the page says of an outage does not disturb the stream: every step is one of the
\* stream or leaves it alone.
THEOREM NoticeRefinesLive == NoticeSpec => Spec
<1>1. NoticeInit => Init
  BY DEF NoticeInit
<1>2. [NoticeNext]_allVars => [Next]_vars
  <2> SUFFICES ASSUME [NoticeNext]_allVars PROVE Next \/ UNCHANGED vars
    OBVIOUS
  <2>1. PollFires => Next
    BY DEF Next
  <2> QED BY <2>1 DEF allVars, NoticeNext, LiveStep, Poll, Read, Say, Close, ReadFails,
             ReadTellsNothing, ReadSucceeds, GracePasses, AppEffect
<1> QED BY <1>1, <1>2, PTL DEF NoticeSpec, Spec
=============================================================================
