--------------------------- MODULE StopJobProofs ---------------------------
(***************************************************************************)
(* Proofs about the Stop button beside the workers of StopJob, for any     *)
(* number of sends, incarnations and Stops, and in both modes of sending.  *)
(*                                                                         *)
(* For the stores, a Stop is a caller like others.  A cancellation is      *)
(* terminal, and what is cancelled was never sent (Offered).               *)
(***************************************************************************)
EXTENDS StopJob, DeliveryWorkerProofs

\* What Stop cancelled remains cancelled.
CancelledStays ==
  \A s \in Send : stop[s] \in {"browser_cancelled", "cancelled"} => status[s] = "cancelled"

StopInv == SystemInv /\ StopTypeOK /\ CancelledStays

LEMMA StopInvInit == StopInit => StopInv
<1> SUFFICES ASSUME StopInit PROVE StopTypeOK /\ CancelledStays
  BY SystemInit DEF StopInit, StopInv
<1> QED
  BY StatusSets DEF StopInit, StopTypeOK, StopPC, ResultStatus, CancelledStays

\* A step of a Stop is one that other clients of the stores may take, or none.
LEMMA StopIsAClient ==
  ASSUME NEW s \in Send, StopStep(s)
  PROVE  [Next]_vars
<1>1. CASE StopDecides(s) /\ CancelPending(s)
  BY <1>1 DEF StopDecides, Next, StoreStep, Producer
<1>2. CASE StopCloses(s) /\ StopResult(s)
  BY <1>2 DEF StopCloses, Next, StoreStep, Producer
<1> QED
  BY <1>1, <1>2 DEF StopStep, StopReadsResult, StopReadsRow, StopDecides, StopCloses, StopAgain,
                    vars

LEMMA StopStepsSystem ==
  ASSUME [StopNext]_<<vars, stopVars>>
  PROVE  [Next]_vars
BY StopIsAClient DEF StopNext

\* A cancelled row stays as it is whatever the system does.
LEMMA CancelledRemains ==
  ASSUME SystemInv, [Next]_vars, NEW s \in Send, status[s] = "cancelled"
  PROVE  status'[s] = "cancelled"
<1>1. [QueueNext]_queueVars
  BY Simulation
<1>2. CASE QueueNext
  BY <1>2, TerminalKept, StatusSets DEF SystemInv, TerminalStep
<1>3. CASE UNCHANGED queueVars
  BY <1>3 DEF queueVars, rowVars
<1> QED BY <1>1, <1>2, <1>3

\* Stop says that it cancelled only after the row was cancelled by this very Stop.
LEMMA StopInvStep ==
  ASSUME StopInv, [StopNext]_<<vars, stopVars>>
  PROVE  StopInv'
<1>1. [Next]_vars
  BY StopStepsSystem
<1>2. SystemInv'
  BY <1>1, SystemStep DEF StopInv
<1>3. \A s \in Send : status[s] = "cancelled" => status'[s] = "cancelled"
  BY <1>1, CancelledRemains DEF StopInv
<1>4. CASE UNCHANGED stopVars
  BY <1>2, <1>3, <1>4 DEF StopInv, StopTypeOK, CancelledStays, stopVars
<1>5. ASSUME NEW s \in Send, StopStep(s)
      PROVE  StopTypeOK' /\ CancelledStays'
  <2> USE <1>3 DEF StopInv, StopTypeOK, StopPC, CancelledStays
  <2>1. QueueTypeOK
    BY DEF SystemInv, QueueInv
  <2>2. CASE StopReadsResult(s)
    BY <2>1, <2>2 DEF StopReadsResult, QueueTypeOK
  <2>3. CASE StopReadsRow(s)
    BY <2>1, <2>3 DEF StopReadsRow, QueueTypeOK
  <2>4. CASE StopDecides(s)
    <3>1. CASE CancelPending(s) /\ stop' = [stop EXCEPT ![s] = "browser_cancelled"]
      <4>1. status'[s] = "cancelled"
        BY <2>1, <3>1 DEF CancelPending, Release, QueueTypeOK
      <4> QED BY <2>4, <3>1, <4>1 DEF StopDecides
    <3>2. CASE \E answer \in {"conflict", "browser"} : stop' = [stop EXCEPT ![s] = answer]
      BY <2>4, <3>2 DEF StopDecides
    <3> QED BY <2>4, <3>1, <3>2 DEF StopDecides
  <2>5. CASE StopCloses(s)
    BY <2>5 DEF StopCloses
  <2>6. CASE StopAgain(s)
    BY <2>6, StatusSets DEF StopAgain, ResultStatus
  <2> QED BY <1>5, <2>2, <2>3, <2>4, <2>5, <2>6 DEF StopStep
<1> QED
  BY <1>2, <1>4, <1>5 DEF StopNext, StopInv, stopVars

\* A Stop that cancelled a delivery prevented its dispatch, whenever it read the
\* two stores and whatever the workers did between its steps (stop_jobs.py).
THEOREM CancelledIsNeverSent == StopSpec => []CancelledStopIsQuiet
<1>1. StopInv => CancelledStopIsQuiet
  BY DEF StopInv, SystemInv, DeliveryInv, Offered, CancelledStays, CancelledStopIsQuiet
<1> QED BY <1>1, StopInvInit, StopInvStep, PTL DEF StopSpec

\* With Stops, the system still does only what DeliveryWorker allows, so that
\* what holds of it holds beside Stops: no prompt is taken twice.
THEOREM StopsAreClients == StopSpec => Spec
<1>1. StopInit => Init
  BY DEF StopInit
<1> QED BY <1>1, StopStepsSystem, PTL DEF StopSpec, Spec

\* Beside Stops, too, nothing that may be sent again is on its way.
THEOREM NothingOfARetryBesideStops == StopSpec => []NothingOnTheWire
BY StopsAreClients, NothingOfARetryIsOnTheWire, PTL
=============================================================================
