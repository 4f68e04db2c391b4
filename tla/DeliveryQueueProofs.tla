------------------------ MODULE DeliveryQueueProofs ------------------------
(***************************************************************************)
(* Proofs about the stores of DeliveryQueue, for any number of sends,      *)
(* workers, slots and instants, and any interleaving of the transactions.  *)
(*                                                                         *)
(* The inductive invariant adds to the types and to RowsConsistent what a  *)
(* reconcile call carries between its two commits: every id it found       *)
(* accepted still has its receipt.  Without it the second commit, which    *)
(* does not look at the results again, could make any row succeed.         *)
(***************************************************************************)
EXTENDS DeliveryQueue, FiniteSetTheorems, TLAPS

\* The status sets of delivery_state.py, spelled out for the provers.
LEMMA StatusSets ==
  /\ Waiting = {"queued", "retrying", "rate_limited"}
  /\ Retrying = {"retrying", "rate_limited"}
  /\ Terminal = {"cancelled", "dead_lettered", "outcome_unknown", "succeeded"}
  /\ QueueStatus = {"absent", "running", "queued", "retrying", "rate_limited",
                    "cancelled", "dead_lettered", "outcome_unknown", "succeeded"}
BY DEF Waiting, Retrying, Terminal, QueueStatus

\* Two empty databases satisfy the invariant.
LEMMA InitInv == QueueInit => QueueInv
BY QueueAssumption, StatusSets
   DEF QueueInit, QueueInv, QueueTypeOK, RowsConsistent, ConfirmedHaveReceipts,
       ReceiptShown, ResultStatus

\* So do the rows after an enqueue, a cancellation or a change of order.
LEMMA UserInv ==
  ASSUME QueueInv, NEW s \in Send, UserStep(s)
  PROVE  QueueInv'
<1> USE QueueAssumption, StatusSets
    DEF QueueInv, QueueTypeOK, RowsConsistent, ConfirmedHaveReceipts, ReceiptShown, ResultStatus,
        rowVars, orderVars, resultVars
<1>1. ASSUME NEW once \in BOOLEAN, Enqueue(s, once) PROVE QueueInv'
  <2> DEFINE queued == {t \in Send : status[t] # "absent"}
  <2>1. IsFiniteSet(queued)
    <3> queued \subseteq Send
      OBVIOUS
    <3> QED BY FS_Subset, QueueAssumption
  <2>2. 1 + Cardinality(queued) \in Nat
    <3> HIDE DEF queued
    <3> QED BY <2>1, FS_CardinalityType
  <2>3. sequence' \in [Send -> Nat]
    BY <1>1, <2>2 DEF Enqueue
  <2>4. result' \in [Send -> ResultStatus]
    BY <1>1 DEF Enqueue
  <2>5. status' \in [Send -> QueueStatus] /\ oneTime' \in [Send -> BOOLEAN]
    BY <1>1 DEF Enqueue
  <2>6. QueueTypeOK'
    BY <1>1, <2>3, <2>4, <2>5 DEF Enqueue
  <2> QED BY <1>1, <2>6 DEF Enqueue
<1>2. CASE EnqueueAgain(s)
  BY <1>2 DEF EnqueueAgain, EnsureQueued
<1>3. CASE CancelPending(s)
  BY <1>3 DEF CancelPending, Release
<1>4. CASE BumpToFront(s)
  BY <1>4 DEF BumpToFront
<1>5. CASE PromoteOneTime(s)
  BY <1>5 DEF PromoteOneTime
<1>6. CASE StopResult(s)
  BY <1>6 DEF StopResult, NoRowChange
<1> QED BY <1>1, <1>2, <1>3, <1>4, <1>5, <1>6 DEF UserStep

\* expire_leases clears owner, expiry and retry instant of every lapsed claim
\* together with its status.
LEMMA ExpireInv ==
  ASSUME QueueInv, ExpireLeases
  PROVE  QueueInv'
BY QueueAssumption, StatusSets
   DEF QueueInv, QueueTypeOK, RowsConsistent, ConfirmedHaveReceipts, ReceiptShown, ResultStatus,
       orderVars, resultVars, ExpireLeases, Release, Expired, Running

\* claim_next, renew_lease, retry_claim, complete_claim and fail_claim write the
\* lease columns and the status of a row together.
LEMMA ClaimInv ==
  ASSUME QueueInv, NEW w \in Worker, NEW s \in Send, ClaimStep(w, s)
  PROVE  QueueInv'
<1> USE QueueAssumption, StatusSets
    DEF QueueInv, QueueTypeOK, RowsConsistent, ConfirmedHaveReceipts, ReceiptShown, ResultStatus,
        rowVars, orderVars, resultVars, OwnsLive
<1>1. CASE ClaimNext(w, s)
  BY <1>1 DEF ClaimNext, NextInLine, Claimable, Expired, Running
<1>2. CASE RenewLease(w, s)
  BY <1>2 DEF RenewLease
<1>3. ASSUME NEW st \in Retrying, RetryClaim(w, s, st) PROVE QueueInv'
  <2>1. NextAttempt(s) \in 0 .. MaxAttempt
    BY DEF NextAttempt
  <2> QED BY <1>3, <2>1 DEF RetryClaim
<1>4. ASSUME NEW st \in Terminal \ {"succeeded"}, FailClaim(w, s, st) PROVE QueueInv'
  BY <1>4 DEF FailClaim, Release
<1>5. CASE CompleteClaim(w, s)
  BY <1>5 DEF CompleteClaim, Release
<1> QED BY <1>1, <1>2, <1>3, <1>4, <1>5 DEF ClaimStep

\* The results calls of a sender keep a saved receipt and what the Chats view
\* shows of it consistent.
LEMMA ResultInv ==
  ASSUME QueueInv, NEW w \in Worker, NEW s \in Send, ResultStep(w, s)
  PROVE  QueueInv'
<1> USE QueueAssumption, StatusSets
    DEF QueueInv, QueueTypeOK, RowsConsistent, ConfirmedHaveReceipts, ReceiptShown, ResultStatus,
        rowVars, orderVars, resultVars, NoRowChange, OwnsCapture
<1>1. CASE AcceptReceipt(w, s)
  BY <1>1 DEF AcceptReceipt
<1>2. ASSUME NEW complete \in BOOLEAN, AcceptObserved(w, s, complete) PROVE QueueInv'
  BY <1>2 DEF AcceptObserved
<1>3. CASE MarkSubmitted(s)
  BY <1>3 DEF MarkSubmitted
<1>4. CASE status[s] # "absent" /\ EnsureQueued(s)
  BY <1>4 DEF EnsureQueued
<1>5. CASE Unavailable(s)
  BY <1>5 DEF Unavailable, Projected
<1>6. CASE RenewCaptureDeadline(w, s)
  BY <1>6 DEF RenewCaptureDeadline
<1>7. CASE WriteComplete(w, s)
  BY <1>7 DEF WriteComplete
<1>8. ASSUME NEW st \in {"interrupted", "unavailable"}, FinishCapture(w, s, st)
      PROVE  QueueInv'
  BY <1>8 DEF FinishCapture
<1>9. CASE RecoverResponse(s)
  BY <1>9 DEF RecoverResponse
<1> QED BY <1>1, <1>2, <1>3, <1>4, <1>5, <1>6, <1>7, <1>8, <1>9 DEF ResultStep

\* Late projections, the two halves of reconcile_accepted_outcomes and orphan
\* recovery keep the invariant although they act on what they read earlier.
LEMMA SweepInv ==
  ASSUME QueueInv,
         \/ ProjectionStep
         \/ \E w \in Worker :
              ReconcileResults(w) \/ ReconcileQueue(w) \/ ReconcileDeferred(w)
         \/ \E dead \in SUBSET Worker : RecoverOrphans(dead)
         \/ \E S \in SUBSET Send : DetachCaptures(S)
         \/ Tick
  PROVE  QueueInv'
<1> USE QueueAssumption, StatusSets
    DEF QueueInv, QueueTypeOK, RowsConsistent, ConfirmedHaveReceipts, ReceiptShown, ResultStatus,
        rowVars, orderVars, resultVars, NoRowChange
<1>1. ASSUME NEW s \in Send, NEW call \in {"unavailable", "uncertain"},
             ApplyProjection(s, call)
      PROVE  QueueInv'
  BY <1>1 DEF ApplyProjection, Projected
<1>2. ASSUME NEW s \in Send, NEW call \in {"unavailable", "uncertain"},
             LoseProjection(s, call)
      PROVE  QueueInv'
  BY <1>2 DEF LoseProjection
<1>3. ASSUME NEW w \in Worker, ReconcileResults(w) PROVE QueueInv'
  BY <1>3 DEF ReconcileResults, Quarantined, ProvenAccepted
<1>4. ASSUME NEW w \in Worker, ReconcileQueue(w) PROVE QueueInv'
  BY <1>4 DEF ReconcileQueue
<1>5. ASSUME NEW w \in Worker, ReconcileDeferred(w) PROVE QueueInv'
  BY <1>5 DEF ReconcileDeferred
<1>6. ASSUME NEW dead \in SUBSET Worker, RecoverOrphans(dead) PROVE QueueInv'
  BY <1>6 DEF RecoverOrphans, Orphaned
<1>7. CASE Tick
  BY <1>7 DEF Tick
<1>8. ASSUME NEW S \in SUBSET Send, DetachCaptures(S) PROVE QueueInv'
  BY <1>8 DEF DetachCaptures
<1> QED BY <1>1, <1>2, <1>3, <1>4, <1>5, <1>6, <1>7, <1>8 DEF ProjectionStep

\* The invariant is inductive.
LEMMA StepInv ==
  ASSUME QueueInv, [QueueNext]_queueVars
  PROVE  QueueInv'
<1>1. CASE UNCHANGED queueVars
  BY <1>1 DEF queueVars, rowVars, orderVars, resultVars, QueueInv, QueueTypeOK,
              RowsConsistent, ConfirmedHaveReceipts, ReceiptShown
<1>2. CASE ClaimNothing
  BY <1>2, ExpireInv DEF ClaimNothing
<1> QED
  BY <1>1, <1>2, UserInv, ClaimInv, ResultInv, SweepInv, ExpireInv DEF QueueNext

\* The inductive invariant holds of the stores under arbitrary callers.
THEOREM QueueInvariant == QueueSpec => []QueueInv
BY InitInv, StepInv, PTL DEF QueueSpec

\* Every column keeps to its values.
THEOREM QueueTypes == QueueSpec => []QueueTypeOK
<1> QueueInv => QueueTypeOK
  BY DEF QueueInv
<1> QED BY QueueInvariant, PTL

\* One transaction changes a terminal status only from quarantine to success,
\* and then the receipt is there: reconcile_accepted_outcomes carried its id.
LEMMA TerminalKept ==
  ASSUME QueueInv, QueueNext
  PROVE  TerminalStep
<1> USE StatusSets
    DEF QueueInv, QueueTypeOK, ConfirmedHaveReceipts, TerminalStep,
        rowVars, orderVars, resultVars, NoRowChange
<1>1. ASSUME NEW s \in Send, UserStep(s) PROVE TerminalStep
  BY <1>1 DEF UserStep, Enqueue, EnqueueAgain, EnsureQueued, CancelPending, Release,
              BumpToFront, PromoteOneTime, StopResult
<1>2. ASSUME NEW w \in Worker, NEW s \in Send, ClaimStep(w, s) PROVE TerminalStep
  <2>1. CASE ClaimNext(w, s)
    BY <2>1 DEF ClaimNext, NextInLine, Claimable, Expired, Running
  <2> QED
    BY <1>2, <2>1 DEF ClaimStep, RenewLease, RetryClaim, FailClaim, CompleteClaim,
                      Release, OwnsLive
<1>3. ASSUME NEW w \in Worker, NEW s \in Send, ResultStep(w, s) PROVE TerminalStep
  BY <1>3 DEF ResultStep, AcceptReceipt, AcceptObserved, MarkSubmitted, EnsureQueued,
              Unavailable, RecoverResponse, RenewCaptureDeadline, WriteComplete, FinishCapture
<1>4. CASE ProjectionStep
  BY <1>4 DEF ProjectionStep, ApplyProjection, LoseProjection
<1>5. CASE ExpireLeases
  BY <1>5 DEF ExpireLeases, Release, Expired, Running
<1>6. ASSUME NEW w \in Worker,
             ReconcileResults(w) \/ ReconcileQueue(w) \/ ReconcileDeferred(w)
      PROVE  TerminalStep
  BY <1>6 DEF ReconcileResults, ReconcileQueue, ReconcileDeferred
<1>7. ASSUME NEW dead \in SUBSET Worker, RecoverOrphans(dead) PROVE TerminalStep
  BY <1>7 DEF RecoverOrphans
<1>8. CASE Tick \/ \E S \in SUBSET Send : DetachCaptures(S)
  BY <1>8 DEF Tick, DetachCaptures
<1> QED
  BY <1>1, <1>2, <1>3, <1>4, <1>5, <1>6, <1>7, <1>8 DEF QueueNext, ClaimNothing

\* No transaction takes a terminal decision back, for any number of sends and
\* stale callers; only a saved receipt turns a quarantine into a success.
THEOREM TerminalDecisionsStand == QueueSpec => TerminalIsFinal
<1>1. QueueInv /\ [QueueNext]_queueVars => [TerminalStep]_queueVars
  BY TerminalKept
<1> QED BY <1>1, QueueInvariant, PTL DEF QueueSpec, TerminalIsFinal

\* One transaction never removes a receipt or shows it as queued or unknown:
\* the WHERE clauses of response_store.py.
LEMMA ReceiptKept ==
  ASSUME QueueInv, QueueNext
  PROVE  ReceiptStep
<1> USE StatusSets
    DEF QueueInv, QueueTypeOK, RowsConsistent, ReceiptShown, ReceiptStep,
        rowVars, orderVars, resultVars, NoRowChange, OwnsCapture
<1>1. ASSUME NEW s \in Send, UserStep(s) PROVE ReceiptStep
  <2>1. CASE (\E once \in BOOLEAN : Enqueue(s, once)) \/ EnqueueAgain(s)
    <3>1. /\ UNCHANGED acceptedAt
          /\ \A t \in Send : result'[t] = result[t] \/ (t = s /\ result[t] = "absent")
      BY <2>1 DEF Enqueue, EnqueueAgain, EnsureQueued
    <3> QED BY <3>1
  <2>2. CASE CancelPending(s)
    BY <2>2 DEF CancelPending, Release
  <2>3. CASE BumpToFront(s) \/ PromoteOneTime(s) \/ StopResult(s)
    BY <2>3 DEF BumpToFront, PromoteOneTime, StopResult
  <2> QED BY <1>1, <2>1, <2>2, <2>3 DEF UserStep
<1>2. ASSUME NEW w \in Worker, NEW s \in Send, ClaimStep(w, s) PROVE ReceiptStep
  BY <1>2 DEF ClaimStep, ClaimNext, RenewLease, RetryClaim, FailClaim, CompleteClaim
<1>3. ASSUME NEW w \in Worker, NEW s \in Send, ResultStep(w, s) PROVE ReceiptStep
  BY <1>3 DEF ResultStep, AcceptReceipt, AcceptObserved, MarkSubmitted, EnsureQueued,
              Unavailable, Projected, RecoverResponse, RenewCaptureDeadline, WriteComplete,
              FinishCapture
<1>4. CASE ProjectionStep
  BY <1>4 DEF ProjectionStep, ApplyProjection, LoseProjection, Projected
<1>5. CASE ExpireLeases
  BY <1>5 DEF ExpireLeases
<1>6. ASSUME NEW w \in Worker,
             ReconcileResults(w) \/ ReconcileQueue(w) \/ ReconcileDeferred(w)
      PROVE  ReceiptStep
  BY <1>6 DEF ReconcileResults, ReconcileQueue, ReconcileDeferred
<1>7. ASSUME NEW dead \in SUBSET Worker, RecoverOrphans(dead) PROVE ReceiptStep
  BY <1>7 DEF RecoverOrphans, Orphaned
<1>8. CASE Tick \/ \E S \in SUBSET Send : DetachCaptures(S)
  BY <1>8 DEF Tick, DetachCaptures
<1> QED
  BY <1>1, <1>2, <1>3, <1>4, <1>5, <1>6, <1>7, <1>8 DEF QueueNext, ClaimNothing

\* What was once accepted is never shown as queued or unknown again, and a
\* complete or stopped answer stays what it is.
THEOREM ReceiptsSurvive == QueueSpec => ReceiptSurvives
<1>1. QueueInv /\ [QueueNext]_queueVars => [ReceiptStep]_queueVars
  BY ReceiptKept
<1> QED BY <1>1, QueueInvariant, PTL DEF QueueSpec, ReceiptSurvives

(***************************************************************************)
(* First in, first out.  Nothing but a bump or a promotion lets a delivery *)
(* overtake: a queued row is claimable at once, a later one has a larger   *)
(* sequence, and claim_next takes the least.                               *)
(***************************************************************************)
Present == {s \in Send : status[s] # "absent"}

OrderInv ==
  /\ QueueInv
  /\ \A s \in Send : sequence[s] <= Cardinality(Present)
  /\ \A s \in Send : status[s] = "absent" => sequence[s] = 0
  /\ \A s \in Send : queuePriority[s] <= 0
  /\ FirstInFirstOut

\* Two empty databases keep every order.
LEMMA OrderInit == QueueInit => OrderInv
<1> SUFFICES ASSUME QueueInit PROVE OrderInv
  OBVIOUS
<1>1. Present = {}
  BY DEF QueueInit, Present
<1>2. Cardinality(Present) = 0
  BY <1>1, FS_EmptySet
<1> QED BY <1>2, InitInv DEF QueueInit, OrderInv, FirstInFirstOut

\* A step that enqueues nothing and claims nothing new keeps the order: statuses
\* only move on from "queued" by a claim or a cancellation.
LEMMA OrderKept ==
  ASSUME OrderInv, QueueInv', UNCHANGED sequence,
         \A s \in Send : queuePriority'[s] <= 0,
         \A s \in Send : queuePriority'[s] = 0 => queuePriority[s] = 0,
         \A s \in Send : oneTime[s] => oneTime'[s],
         \A s \in Send : status'[s] = "absent" <=> status[s] = "absent",
         \A s \in Send : status'[s] = "queued" => status[s] = "queued",
         \A s \in Send : status[s] = "queued" => status'[s] \in {"queued", "cancelled"},
         \A s \in Send : status[s] = "cancelled" => status'[s] = "cancelled"
  PROVE  OrderInv'
<1>1. Present' = Present
  BY DEF Present
<1>2. Cardinality(Present)' = Cardinality(Present)
  BY <1>1
<1> QED BY <1>2 DEF OrderInv, FirstInFirstOut

\* Enqueueing gives the new row the largest sequence; a bump only lowers a
\* priority that was never above 0.
LEMMA OrderUser ==
  ASSUME OrderInv, NEW s \in Send, UserStep(s), QueueInv'
  PROVE  OrderInv'
<1>0. QueueTypeOK
  BY DEF OrderInv, QueueInv
<1>1. ASSUME NEW once \in BOOLEAN, Enqueue(s, once)
      PROVE  OrderInv'
  <2>1. IsFiniteSet(Present) /\ s \notin Present
    <3>1. Present \subseteq Send
      BY DEF Present
    <3> QED BY <1>1, <3>1, FS_Subset, QueueAssumption DEF Present, Enqueue
  <2>2. Present' = Present \cup {s}
    BY <1>0, <1>1 DEF Enqueue, Present, QueueTypeOK
  <2>3. Cardinality(Present) \in Nat /\ Cardinality(Present') = Cardinality(Present) + 1
    BY <2>1, <2>2, FS_AddElement, FS_CardinalityType
  <2>4. sequence' = [sequence EXCEPT ![s] = 1 + Cardinality(Present)]
    BY <1>1 DEF Enqueue, Present
  <2> DEFINE n == Cardinality(Present)
  <2> HIDE DEF n
  <2>5. /\ n \in Nat /\ Cardinality(Present)' = n + 1
        /\ sequence' = [sequence EXCEPT ![s] = 1 + n]
        /\ \A t \in Send : sequence[t] <= n
    BY <2>3, <2>4 DEF n, OrderInv
  <2>6. \A t \in Send : sequence'[t] <= n + 1
    BY <1>0, <2>5 DEF QueueTypeOK
  <2>7. \A t \in Send : queuePriority'[t] <= 0
    BY <1>1 DEF Enqueue, OrderInv
  <2>8. /\ status[s] = "absent" /\ status' = [status EXCEPT ![s] = "queued"]
        /\ \A t \in Send \ {s} : oneTime'[t] = oneTime[t]
        /\ queuePriority' = queuePriority
    BY <1>0, <1>1 DEF Enqueue, QueueTypeOK
  <2>9. \A t \in Send : status'[t] = "absent" => sequence'[t] = 0
    BY <1>0, <2>5, <2>8 DEF OrderInv, QueueTypeOK
  <2>10. FirstInFirstOut'
    <3> SUFFICES ASSUME NEW t \in Send, NEW u \in Send,
                        (t \in Manual <=> u \in Manual)',
                        ~oneTime'[t], ~oneTime'[u],
                        queuePriority'[t] = 0, queuePriority'[u] = 0,
                        sequence'[t] < sequence'[u], status'[t] = "queued"
                 PROVE  status'[u] \in {"absent", "queued", "cancelled"}
      BY DEF FirstInFirstOut
    <3>1. CASE u = s
      BY <1>0, <2>8, <3>1 DEF QueueTypeOK
    <3>2. CASE t = s
      <4>1. sequence'[t] = 1 + n /\ sequence'[u] <= n + 1
        BY <1>0, <2>5, <2>6, <3>2 DEF QueueTypeOK
      <4>2. sequence'[u] \in Nat
        BY DEF QueueInv, QueueTypeOK
      <4> QED BY <2>5, <4>1, <4>2
    <3>3. CASE t # s /\ u # s
      BY <1>0, <2>5, <2>8, <3>3 DEF QueueTypeOK, OrderInv, FirstInFirstOut
    <3> QED BY <3>1, <3>2, <3>3
  <2> QED BY <2>5, <2>6, <2>7, <2>9, <2>10 DEF OrderInv
<1>2. CASE EnqueueAgain(s)
  BY <1>2, OrderKept DEF EnqueueAgain, EnsureQueued, rowVars, orderVars, OrderInv
<1>3. CASE CancelPending(s)
  <2>1. /\ status[s] \in Waiting /\ status'[s] = "cancelled"
        /\ \A t \in Send \ {s} : status'[t] = status[t]
    BY <1>3 DEF CancelPending, Release
  <2> QED BY <1>3, <2>1, StatusSets, OrderKept DEF CancelPending, orderVars, OrderInv
<1>4. CASE BumpToFront(s)
  <2>1. PICK p \in {queuePriority[t] : t \in Send} :
          /\ \A t \in Send : p <= queuePriority[t]
          /\ queuePriority' = [queuePriority EXCEPT ![s] = p - 1]
    BY <1>4 DEF BumpToFront
  <2>2. p \in Int /\ p <= 0
    BY <1>0, <2>1 DEF QueueTypeOK, OrderInv
  <2>3. \A t \in Send : /\ queuePriority'[t] <= 0
                        /\ queuePriority'[t] = 0 => queuePriority[t] = 0
    BY <1>0, <2>1, <2>2 DEF QueueTypeOK, OrderInv
  <2> QED BY <1>4, <2>3, OrderKept DEF BumpToFront, rowVars
<1>5. CASE PromoteOneTime(s)
  <2>1. \A t \in Send : oneTime[t] => oneTime'[t]
    BY <1>0, <1>5 DEF PromoteOneTime, QueueTypeOK
  <2> QED BY <1>5, <2>1, OrderKept DEF PromoteOneTime, rowVars, OrderInv
<1>6. CASE StopResult(s)
  BY <1>6, OrderKept DEF StopResult, NoRowChange, rowVars, orderVars, OrderInv
<1> QED BY <1>1, <1>2, <1>3, <1>4, <1>5, <1>6 DEF UserStep

\* claim_next takes the least claimable row, and a queued row is claimable: its
\* retry instant is 0.
LEMMA OrderClaim ==
  ASSUME OrderInv, NEW w \in Worker, NEW s \in Send, ClaimStep(w, s), QueueInv'
  PROVE  OrderInv'
<1>0. QueueTypeOK /\ RowsConsistent
  BY DEF OrderInv, QueueInv
<1>1. CASE ClaimNext(w, s)
  <2>1. /\ status[s] \in Waiting /\ status'[s] = "running"
        /\ \A t \in Send \ {s} :
             \/ status'[t] = status[t]
             \/ status[t] = "running" /\ status'[t] = "outcome_unknown"
        /\ UNCHANGED orderVars
    BY <1>1 DEF ClaimNext, NextInLine, Claimable, Expired, Running
  <2>2. UNCHANGED <<sequence, queuePriority, oneTime>>
    BY <2>1 DEF orderVars
  <2>3. Present' = Present
    BY <2>1, StatusSets DEF Present
  <2>4. Cardinality(Present)' = Cardinality(Present)
    BY <2>3
  <2>5. FirstInFirstOut'
    <3> SUFFICES ASSUME NEW t \in Send, NEW u \in Send,
                        (t \in Manual <=> u \in Manual)',
                        ~oneTime'[t], ~oneTime'[u],
                        queuePriority'[t] = 0, queuePriority'[u] = 0,
                        sequence'[t] < sequence'[u], status'[t] = "queued"
                 PROVE  status'[u] \in {"absent", "queued", "cancelled"}
      BY DEF FirstInFirstOut
    <3>1. t # s /\ status[t] = "queued"
      BY <2>1
    <3>2. u # s
      <4> SUFFICES ASSUME u = s PROVE FALSE
        OBVIOUS
      <4>1. Claimable(t)
        BY <1>0, <3>1, StatusSets DEF Claimable, RowsConsistent, QueueTypeOK
      <4>2. Before(s, t)
        BY <1>1, <3>1, <4>1 DEF ClaimNext, NextInLine
      <4> QED
        BY <1>0, <2>2, <4>2 DEF Before, DispatchClass, QueueTypeOK
    <3> QED BY <2>1, <2>2, <3>1, <3>2, StatusSets DEF OrderInv, FirstInFirstOut
  <2> QED BY <2>1, <2>2, <2>4, <2>5, StatusSets DEF OrderInv
<1>2. CASE RenewLease(w, s)
  BY <1>2, OrderKept DEF RenewLease, orderVars, OrderInv
<1>3. ASSUME NEW st \in Retrying, RetryClaim(w, s, st)
      PROVE  OrderInv'
  <2>1. /\ status[s] = "running" /\ status'[s] \in {"retrying", "rate_limited"}
        /\ \A t \in Send \ {s} : status'[t] = status[t]
    BY <1>0, <1>3, StatusSets DEF RetryClaim, OwnsLive, QueueTypeOK
  <2> QED BY <1>3, <2>1, OrderKept DEF RetryClaim, orderVars, OrderInv
<1>4. ASSUME NEW st \in Terminal, status[s] = "running", Release({s}, st), UNCHANGED orderVars
      PROVE  OrderInv'
  <2>1. status'[s] = st /\ \A t \in Send \ {s} : status'[t] = status[t]
    BY <1>4 DEF Release
  <2> QED BY <1>4, <2>1, StatusSets, OrderKept DEF orderVars, OrderInv
<1> QED
  BY <1>1, <1>2, <1>3, <1>4, StatusSets DEF ClaimStep, FailClaim, CompleteClaim, OwnsLive

\* Neither a transaction by anyone nor the passing of time changes who is first.
LEMMA OrderStep ==
  ASSUME OrderInv, [QueueNext]_queueVars
  PROVE  OrderInv'
<1>1. QueueInv'
  BY StepInv DEF OrderInv
<1>2. CASE UNCHANGED <<status, orderVars>>
  BY <1>1, <1>2, OrderKept DEF orderVars, OrderInv
<1>3. CASE ExpireLeases
  <2>1. \A s \in Send : \/ status'[s] = status[s]
                        \/ status[s] = "running" /\ status'[s] = "outcome_unknown"
    BY <1>3 DEF ExpireLeases, Release, Expired, Running
  <2> QED BY <1>1, <1>3, <2>1, OrderKept DEF ExpireLeases, orderVars, OrderInv
<1>4. ASSUME NEW w \in Worker, ReconcileQueue(w)
      PROVE  OrderInv'
  <2>1. \A s \in Send : \/ status'[s] = status[s]
                        \/ status[s] = "outcome_unknown" /\ status'[s] = "succeeded"
    BY <1>4 DEF ReconcileQueue
  <2> QED BY <1>1, <1>4, <2>1, OrderKept DEF ReconcileQueue, orderVars, OrderInv
<1>5. ASSUME NEW w \in Worker, NEW s \in Send, ResultStep(w, s)
      PROVE  UNCHANGED <<status, orderVars>>
  BY <1>5 DEF ResultStep, AcceptReceipt, AcceptObserved, MarkSubmitted, EnsureQueued,
              Unavailable, RecoverResponse, RenewCaptureDeadline, WriteComplete, FinishCapture,
              NoRowChange, rowVars
<1>6. ASSUME \/ ProjectionStep
             \/ \E w \in Worker : ReconcileResults(w) \/ ReconcileDeferred(w)
             \/ \E dead \in SUBSET Worker : RecoverOrphans(dead)
             \/ \E S \in SUBSET Send : DetachCaptures(S)
             \/ Tick
             \/ UNCHANGED queueVars
      PROVE  UNCHANGED <<status, orderVars>>
  BY <1>6 DEF ProjectionStep, ApplyProjection, LoseProjection, ReconcileResults,
              ReconcileDeferred, RecoverOrphans, DetachCaptures, Tick, NoRowChange, rowVars,
              queueVars
<1> QED
  BY <1>1, <1>2, <1>3, <1>4, <1>5, <1>6, OrderUser, OrderClaim DEF QueueNext, ClaimNothing

\* Deliveries of one class start in the order in which they were queued.
THEOREM DispatchIsFair == QueueSpec => []FirstInFirstOut
<1>1. OrderInv => FirstInFirstOut
  BY DEF OrderInv
<1> QED BY <1>1, OrderInit, OrderStep, PTL DEF QueueSpec
=============================================================================
