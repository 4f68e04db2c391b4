------------------------------ MODULE ChatPins ------------------------------
(***************************************************************************)
(* Pinned chats: clicks that show at once, their POSTs in click order, the *)
(* GETs that must not undo what is being written, and the GET that settles *)
(* a POST whose answer was lost (togglePin and loadPins of                 *)
(* src/ui/ChatsPageController.ts, pinReceiptConfirmed of                   *)
(* src/ui/localReceiptReconciliation.ts).                                  *)
(***************************************************************************)
EXTENDS Naturals, Sequences, FiniteSets

CONSTANTS
  PinRun,     \* chats that may be pinned
  MaxClicks,  \* bound: clicks of this page
  MaxOthers   \* bound: changes by another tab

ASSUME PinAssumption == IsFiniteSet(PinRun) /\ {MaxClicks, MaxOthers} \subseteq Nat

VARIABLES
  pinned,    \* the server
  pins,      \* pinnedIds, confirmedPins, pinsReady, pinWriteError, pinError
  writes,    \* pinWriteQueue: the head is being written
  post,      \* what became of the head's POST
  pinRead,   \* the GET of the latest generation
  transit,   \* POSTs that were given up and may still commit
  clicks, others,
  news       \* history: the server's pins changed and no read was asked for since

pinVars == <<pinned, pins, writes, post, pinRead, transit, clicks, others, news>>

With(set, w) == IF w.pin THEN set \cup {w.run} ELSE set \ {w.run}
NoPinRead == [phase |-> "none"]

PinInit ==
  /\ pinned \in SUBSET PinRun
  /\ pins = [shown |-> {}, confirmed |-> {}, ready |-> FALSE,
             writeError |-> FALSE, error |-> FALSE]
  /\ writes = <<>> /\ post = "none"
  /\ pinRead = [phase |-> "asked"]
  /\ transit = {}
  /\ clicks = 0 /\ others = 0
  /\ news = FALSE

\* mutant: a read in flight answers a later question
AskPins_Shares(pending) ==
  /\ pinRead' = IF pending THEN NoPinRead
                ELSE IF pinRead # NoPinRead THEN pinRead ELSE [phase |-> "asked"]
  /\ news' = FALSE

\* ++pinsGeneration: an earlier read no longer counts.
AskPins(pending) ==
  /\ pinRead' = IF pending THEN NoPinRead ELSE [phase |-> "asked"]
  /\ news' = FALSE

LoadPins(retry) ==
  /\ AskPins(writes # <<>>)
  /\ pins' = [pins EXCEPT !.writeError = @ /\ ~retry]
  /\ UNCHANGED <<pinned, writes, post, transit, clicks, others>>

ServePins ==
  /\ pinRead.phase = "asked"
  /\ pinRead' = [phase |-> "served", body |-> pinned]
  /\ UNCHANGED <<pinned, pins, writes, post, transit, clicks, others, news>>

PinsArrive ==
  /\ pinRead.phase = "served"
  /\ pins' = [pins EXCEPT !.shown = pinRead.body, !.confirmed = pinRead.body,
                          !.ready = TRUE, !.error = pins.writeError]
  /\ pinRead' = NoPinRead
  /\ UNCHANGED <<pinned, writes, post, transit, clicks, others, news>>

PinsFail ==
  /\ pinRead # NoPinRead
  /\ pins' = [pins EXCEPT !.error = TRUE]
  /\ pinRead' = NoPinRead
  /\ UNCHANGED <<pinned, writes, post, transit, clicks, others, news>>

\* mutant: a click does not cancel the read in flight
TogglePin_KeepsRead(r) ==
  /\ pins.ready /\ clicks < MaxClicks
  /\ clicks' = clicks + 1
  /\ LET w == [run |-> r, pin |-> r \notin pins.shown]
     IN  /\ pins' = [pins EXCEPT !.shown = With(@, w), !.writeError = FALSE, !.error = FALSE]
         /\ writes' = Append(writes, w)
  /\ UNCHANGED <<pinned, post, pinRead, transit, others, news>>

\* A click shows at once and waits for its turn to be written.
TogglePin(r) ==
  /\ pins.ready /\ clicks < MaxClicks
  /\ clicks' = clicks + 1
  /\ LET w == [run |-> r, pin |-> r \notin pins.shown]
     IN  /\ pins' = [pins EXCEPT !.shown = With(@, w), !.writeError = FALSE, !.error = FALSE]
         /\ writes' = Append(writes, w)
  /\ pinRead' = NoPinRead
  /\ UNCHANGED <<pinned, post, transit, others, news>>

---------------------------------------------------------------------------
\* The POST of the head: the server commits it, rejects it, or is not heard.
Commit ==
  /\ writes # <<>> /\ post = "none"
  /\ pinned' = With(pinned, Head(writes))
  /\ \E heard \in BOOLEAN : post' = IF heard THEN "done" ELSE "lost"
  /\ UNCHANGED <<pins, writes, pinRead, transit, clicks, others, news>>

GiveUp(arrived) ==
  /\ writes # <<>> /\ post = "none"
  /\ post' = "lost"
  /\ transit' = IF arrived THEN transit \cup {Head(writes)} ELSE transit
  /\ UNCHANGED <<pinned, pins, writes, pinRead, clicks, others, news>>

\* pinReceiptConfirmed: one GET settles a lost answer, or fails itself.
Confirm(read) ==
  /\ post = "lost"
  /\ post' = IF read /\ With(pinned, Head(writes)) = pinned THEN "done" ELSE "unknown"
  /\ UNCHANGED <<pinned, pins, writes, pinRead, transit, clicks, others, news>>

\* After the last write the page shows what is confirmed and reads again.
Written ==
  /\ post \in {"done", "unknown"}
  /\ LET done == post = "done"
         confirmed == IF done THEN With(pins.confirmed, Head(writes)) ELSE pins.confirmed
         last == Len(writes) = 1
     IN  /\ pins' = [pins EXCEPT !.confirmed = confirmed, !.writeError = ~done, !.error = ~done,
                                 !.shown = IF last THEN confirmed ELSE @]
         /\ IF last THEN AskPins(FALSE) ELSE UNCHANGED <<pinRead, news>>
  /\ writes' = Tail(writes)
  /\ post' = "none"
  /\ UNCHANGED <<pinned, transit, clicks, others>>

(* The server's pins change without this page, which is told by an event.  *)
LateCommit(w) ==
  /\ w \in transit
  /\ transit' = transit \ {w}
  /\ pinned' = With(pinned, w)
  /\ news' = TRUE
  /\ UNCHANGED <<pins, writes, post, pinRead, clicks, others>>

OtherTab(r, pin) ==
  /\ others < MaxOthers
  /\ others' = others + 1
  /\ pinned' = With(pinned, [run |-> r, pin |-> pin])
  /\ news' = TRUE
  /\ UNCHANGED <<pins, writes, post, pinRead, transit, clicks>>

PinNext ==
  \/ \E b \in BOOLEAN : LoadPins(b) \/ GiveUp(b) \/ Confirm(b)
  \/ ServePins \/ PinsArrive \/ PinsFail
  \/ \E r \in PinRun : TogglePin(r) \/ \E pin \in BOOLEAN : OtherTab(r, pin)
  \/ Commit \/ Written \/ \E w \in transit : LateCommit(w)

PinSpec == PinInit /\ [][PinNext]_pinVars

---------------------------------------------------------------------------
\* When nothing is being written or read and no error is shown, the page shows
\* the pins the server has, or was not yet told of a change: no GET undoes a
\* click, no rejected or lost click leaves a phantom (pinsGeneration,
\* pendingPinWrites, confirmedPins).
PinsAgree ==
  writes = <<>> /\ pinRead = NoPinRead /\ ~pins.error /\ ~news => pins.shown = pinned

\* While clicks are being written, the page shows them, the later over the
\* earlier, whatever reads answer meanwhile.
ClicksShow ==
  \A i \in DOMAIN writes :
    (\A j \in i + 1 .. Len(writes) : writes[j].run # writes[i].run)
      => (writes[i].run \in pins.shown) = writes[i].pin
=============================================================================
