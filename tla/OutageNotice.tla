---------------------------- MODULE OutageNotice ----------------------------
(***************************************************************************)
(* What the user is told of an outage: the single toast of the page        *)
(* (src/ui/toast.ts, ToastHost.tsx), fed by the event stream through the   *)
(* status App subscribes to, and by the outcomes of local reads            *)
(* (src/ui/localRead.ts).                                                  *)
(*                                                                         *)
(* One toast is shown, others wait.  A toast is identified by its message, *)
(* as notify() recognises duplicates.  While the outage notice is up,      *)
(* errors of single reads are not shown: they all describe the same        *)
(* outage.                                                                 *)
(***************************************************************************)
EXTENDS LiveUpdates, Sequences, Naturals, FiniteSets

CONSTANTS
  Outage,       \* "Connection to Prompta interrupted. ..."
  ReadError,    \* errors of local reads (outageSensitive)
  OtherError,   \* errors of anything else
  Feedback,     \* success and info
  NoToast,
  MaxWaiting,   \* waitingToasts, 4 in the code
  Grace         \* readRecoveryGraceMs, in the shortest time between two reads

Message == {Outage} \cup ReadError \cup OtherError \cup Feedback

ASSUME ToastAssumption ==
  /\ Outage \notin ReadError \cup OtherError \cup Feedback
  /\ ReadError \cap OtherError = {} /\ Feedback \cap (ReadError \cup OtherError) = {}
  /\ NoToast \notin Message
  /\ {MaxWaiting, Grace} \subseteq Nat \ {0}

VARIABLES
  toast,    \* activeToast and waitingToasts
  outage,   \* readUnavailable, streamDelayed, outageNotified, recoveryTimer
  reading   \* a local read is on its way

outageVars == <<toast, outage, reading>>
allVars == <<vars, outageVars>>

IsError(m) == m \in ReadError \cup OtherError

Shown == {toast.active} \cup {toast.waiting[i] : i \in DOMAIN toast.waiting}

\* What is left of s without M, in its order: SelectSeq, without its recursion.
Without(s, M) ==
  LET left == {i \in DOMAIN s : s[i] \notin M}
  IN  [k \in 1..Cardinality(left) |->
        s[CHOOSE i \in left : Cardinality({j \in left : j <= i}) = k]]

\* waitingToasts.shift() when one too many waits.
Shift(s) == IF Len(s) > MaxWaiting THEN Tail(s) ELSE s

NoticeInit ==
  /\ Init
  /\ toast = [active |-> NoToast, waiting |-> <<>>]
  /\ outage = [read |-> FALSE, stream |-> FALSE, notified |-> FALSE, left |-> 0]
  /\ reading = FALSE

---------------------------------------------------------------------------
(* The functions of toast.ts.                                              *)

ShowToast(t, m, replace) ==
  IF m = t.active \/ \E i \in DOMAIN t.waiting : t.waiting[i] = m THEN t
  ELSE IF t.active = NoToast \/ m \in Feedback THEN [t EXCEPT !.active = m]
  ELSE IF replace THEN [t EXCEPT !.active = m]
  ELSE IF IsError(m) /\ ~IsError(t.active)
  THEN [active |-> m,
        waiting |-> IF t.active = Outage THEN t.waiting ELSE <<t.active>> \o t.waiting]
  ELSE [t EXCEPT !.waiting = Shift(Append(@, m))]

Dismiss(t, m) ==
  IF t.active = m
  THEN IF t.waiting = <<>> THEN [t EXCEPT !.active = NoToast]
       ELSE [active |-> Head(t.waiting), waiting |-> Tail(t.waiting)]
  ELSE [t EXCEPT !.waiting = Without(@, {m})]

\* Waiting errors of reads describe the same outage and are dropped.
ShowOutage(o) ==
  /\ outage' = [o EXCEPT !.notified = TRUE]
  /\ toast' = IF o.notified THEN toast
              ELSE ShowToast([toast EXCEPT !.waiting = Without(@, ReadError)],
                           Outage, TRUE)

\* mutant: a read that succeeds ends the outage of the stream as well
ClearOutageIfHealthy_ByReads(o) ==
  LET healthy == o.notified /\ ~o.read
  IN  /\ outage' = [o EXCEPT !.notified = @ /\ ~healthy]
      /\ toast' = IF healthy THEN Dismiss(toast, Outage) ELSE toast

ClearOutageIfHealthy(o) ==
  LET healthy == o.notified /\ ~o.read /\ ~o.stream
  IN  /\ outage' = [o EXCEPT !.notified = @ /\ ~healthy]
      /\ toast' = IF healthy THEN Dismiss(toast, Outage) ELSE toast

---------------------------------------------------------------------------
\* A message of any other part of the page.
Say(m, replace) ==
  /\ m # Outage
  /\ toast' = IF outage.notified /\ m \in ReadError THEN toast ELSE ShowToast(toast, m, replace)
  /\ UNCHANGED <<outage, reading, vars>>

\* The user closes the toast, or its time is over; the outage notice has none.
Close(byUser) ==
  /\ toast.active # NoToast
  /\ toast.active = Outage => byUser
  /\ toast' = Dismiss(toast, toast.active)
  /\ UNCHANGED <<outage, reading, vars>>

\* localGet gives up on the network, or the last answer is a 5xx.
ReadFails ==
  /\ reading
  /\ reading' = FALSE
  /\ ShowOutage([outage EXCEPT !.read = TRUE, !.left = 0])
  /\ UNCHANGED vars

\* The answer is a 4xx, or the caller aborts: nothing is reported.
ReadTellsNothing ==
  /\ reading
  /\ reading' = FALSE
  /\ UNCHANGED <<toast, outage, vars>>

ReadSucceeds ==
  /\ reading
  /\ reading' = FALSE
  /\ outage' = [outage EXCEPT !.left = IF outage.read THEN Grace ELSE @]
  /\ UNCHANGED <<toast, vars>>

\* The grace of the last success runs down; at its end recoveryTimer fires.
GracePasses ==
  /\ outage.left > 0
  /\ IF outage.left > 1
     THEN outage' = [outage EXCEPT !.left = @ - 1] /\ UNCHANGED toast
     ELSE ClearOutageIfHealthy([outage EXCEPT !.left = 0, !.read = FALSE])
  /\ UNCHANGED <<reading, vars>>

Delayed == Status \in ui.subs /\ ui.delayed

\* mutant: a stream that recovers says nothing
AppEffect_OnlyWarns ==
  /\ outage.stream # Delayed
  /\ LET o == [outage EXCEPT !.stream = Delayed]
     IN  IF Delayed THEN ShowOutage(o) ELSE outage' = o /\ UNCHANGED toast
  /\ UNCHANGED <<reading, vars>>

\* The effect of App on updatesDelayed, which its unmounting undoes.
AppEffect ==
  /\ outage.stream # Delayed
  /\ LET o == [outage EXCEPT !.stream = Delayed]
     IN  IF Delayed THEN ShowOutage(o) ELSE ClearOutageIfHealthy(o)
  /\ UNCHANGED <<reading, vars>>

\* A poll asks every page that is mounted to read; other events may, and so
\* does the page itself.
Reads == Page(ui) # {} /\ ui.visible /\ ~ui.offline
Poll ==
  /\ PollFires
  /\ reading' = (reading \/ Reads)
  /\ UNCHANGED <<toast, outage>>

Read ==
  /\ Reads /\ ~reading
  /\ reading' = TRUE
  /\ UNCHANGED <<toast, outage, vars>>

LiveStep ==
  /\ Next
  /\ UNCHANGED outageVars

NoticeNext ==
  \/ LiveStep \/ Poll \/ Read
  \/ \E m \in Message, replace \in BOOLEAN : Say(m, replace)
  \/ \E byUser \in BOOLEAN : Close(byUser)
  \/ ReadFails \/ ReadTellsNothing \/ ReadSucceeds \/ GracePasses \/ AppEffect

NoticeSpec == NoticeInit /\ [][NoticeNext]_allVars

\* Timers fire and React runs the effect.
NoticeFairness ==
  /\ WF_allVars(WatchdogFires /\ UNCHANGED outageVars)
  /\ WF_allVars(StatusFires /\ UNCHANGED outageVars)
  /\ WF_allVars(ReconnectFires(TRUE) /\ UNCHANGED outageVars)
  /\ WF_allVars(stream.silent /\ Age /\ UNCHANGED outageVars)
  /\ WF_allVars(Poll)
  /\ WF_allVars(GracePasses) /\ WF_allVars(AppEffect)

FairNoticeSpec == NoticeSpec /\ NoticeFairness

---------------------------------------------------------------------------
\* The notice never outlives its reasons: once the stream is not delayed and
\* the grace after a successful read is over, it is neither shown nor waiting
\* and errors are shown again (clearOutageIfHealthy).
NoticeIsTrue ==
  /\ Outage \in Shown => outage.notified
  /\ outage.notified = (outage.read \/ outage.stream)

\* When the stream is back, reads succeed again and again and none fails any
\* more, the notice goes (setLiveStreamDelayed, reportBackendReadSuccess).
Answering == ui.connected /\ Status \in ui.subs
NoticeGoes ==
  /\ <>[]Answering
  /\ <>[][~ReadFails]_allVars
  /\ []<><<ReadSucceeds>>_allVars
  => <>[]~outage.notified
=============================================================================
