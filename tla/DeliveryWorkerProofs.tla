------------------------ MODULE DeliveryWorkerProofs ------------------------
(***************************************************************************)
(* Proofs about the workers, the senders and ChatGPT of DeliveryWorker,    *)
(* for any number of sends, incarnations, slots and instants, and in both  *)
(* modes of sending.                                                       *)
(*                                                                         *)
(* DeliveryInv says who has sent what; it is inductive together with       *)
(* QueueInv, whose part on reconcile calls is what makes a quarantined row *)
(* succeed only on a saved receipt.                                        *)
(***************************************************************************)
EXTENDS DeliveryWorker, DeliveryQueueProofs

SystemInv == QueueInv /\ DeliveryInv

\* Before any worker has started, nobody has sent anything.
LEMMA SystemInit == Init => SystemInv
<1> SUFFICES ASSUME Init PROVE DeliveryInv
  BY InitInv DEF Init, SystemInv
<1>1. QueueTypeOK
  BY InitInv DEF Init, QueueInv
<1> QED
  BY <1>1, QueueAssumption, WorkerAssumption, StatusSets
     DEF Init, QueueInit, DeliveryInv, WorkerTypeOK, WorkerPC, Failure, Unresolved, Confirmed,
         Offered, Quiet, Live, Untouched, Retryable, Evidence, Hosted, Holding

\* Each step of a worker, a sender, a crash or ChatGPT is one transaction of
\* the stores, or none.
LEMMA Simulation ==
  ASSUME SystemInv, [Next]_vars
  PROVE  [QueueNext]_queueVars
<1> USE QueueAssumption, WorkerAssumption
<1>1. CASE UNCHANGED vars
  BY <1>1 DEF vars
<1>2. CASE StoreStep
  BY <1>2 DEF StoreStep, Producer, QueueNext, UserStep
<1>3. ASSUME NEW w \in Worker, WorkerStep(w)
      PROVE  [QueueNext]_queueVars
  <2>1. CASE Start(w) \/ RecoverCaptures(w)
    BY <2>1 DEF Start, RecoverCaptures, QueueNext
  <2>2. CASE Sweeping(w)
    BY <2>2 DEF Sweeping, Sweep, SweepRead, SweepApply, SweepDeferred, QueueNext
  <2>3. CASE ClaimIdle(w)
    BY <2>3 DEF ClaimIdle, QueueNext
  <2>4. ASSUME NEW s \in Send, Claim(w, s)
        PROVE  [QueueNext]_queueVars
    BY <2>4 DEF Claim, ClaimStep, QueueNext
  <2>5. CASE Delivering(w)
    <3>1. CASE StartSender(w) \/ SetupFails(w)
      <4>1. job[w] \in Send /\ status[job[w]] # "absent"
        BY <3>1 DEF SystemInv, DeliveryInv, WorkerTypeOK, Offered, StartSender, SetupFails
      <4>2. CASE EnsureQueued(job[w])
        BY <4>1, <4>2 DEF ResultStep, QueueNext
      <4> QED BY <3>1, <4>2 DEF StartSender, SetupFails
    <3>2. CASE CancelRemoved(w)
      <4>1. job[w] \in Send
        BY <3>2 DEF SystemInv, DeliveryInv, WorkerTypeOK, CancelRemoved
      <4>2. "cancelled" \in Terminal \ {"succeeded"}
        BY DEF Terminal
      <4> QED BY <3>2, <4>1, <4>2 DEF CancelRemoved, ClaimStep, QueueNext
    <3>3. CASE Settle(w)
      <4>1. job[w] \in Send
        BY <3>3 DEF SystemInv, DeliveryInv, WorkerTypeOK, Settle
      <4>2. /\ {"outcome_unknown", "dead_lettered"} \subseteq Terminal \ {"succeeded"}
            /\ {"rate_limited", "retrying"} \subseteq Retrying
        BY DEF Terminal, Retrying
      <4>3. ClaimStep(w, job[w])
        BY <3>3, <4>2 DEF Settle, Conclude, ClaimStep
      <4> QED BY <4>1, <4>3 DEF QueueNext
    <3> QED
      BY <2>5, <3>1, <3>2, <3>3
         DEF Delivering, Abandon, HandshakeConfirmed, HandshakeFailed, HandshakeTimeout,
             Return, SettleNothing
  <2>6. CASE Renew(w)
    <3>1. job[w] \in Send
      BY <2>6 DEF SystemInv, DeliveryInv, WorkerTypeOK, Renew
    <3> QED BY <2>6, <3>1 DEF Renew, ClaimStep, QueueNext
  <2>7. CASE LoseLease(w)
    BY <2>7 DEF LoseLease
  <2>8. CASE Crash(w)
    BY <2>8 DEF Crash, QueueNext
  <2>9. CASE RecoverHistory(w)
    BY <2>9 DEF RecoverHistory, ResultStep, QueueNext
  <2> QED
    BY <1>3, <2>1, <2>2, <2>3, <2>4, <2>5, <2>6, <2>7, <2>8, <2>9 DEF WorkerStep
<1>4. ASSUME NEW s \in Send, SenderStep(s)
      PROVE  [QueueNext]_queueVars
  <2> DEFINE h == host[s]
  <2>1. sender[s] \in Live => h \in Worker
    BY DEF SystemInv, DeliveryInv, Hosted
  <2>2. {"acked", "seen", "closing", "capturing", "clicked"} \subseteq Live
    BY DEF Live, Unresolved
  <2> HIDE DEF h
  <2>3. CASE SaveReceipt(s)
    <3>1. h \in Worker
      BY <2>1, <2>2, <2>3 DEF SaveReceipt, Step
    <3>2. ResultStep(h, s)
      BY <2>3 DEF SaveReceipt, ResultStep, h
    <3> QED BY <3>1, <3>2 DEF QueueNext
  <2>4. CASE Submitted(s)
    <3>1. h \in Worker /\ ResultStep(h, s)
      BY <2>1, <2>2, <2>4 DEF Submitted, Step, ResultStep
    <3> QED BY <3>1 DEF QueueNext
  <2>5. CASE Close(s)
    <3>1. h \in Worker
      BY <2>1, <2>2, <2>5 DEF Close, Step
    <3>2. ResultStep(h, s) \/ UNCHANGED queueVars
      BY <2>5 DEF Close, ResultStep
    <3> QED BY <3>1, <3>2 DEF QueueNext
  <2>6. CASE CaptureActivity(s) \/ CaptureEnds(s)
    <3>1. h \in Worker
      BY <2>1, <2>2, <2>6 DEF CaptureActivity, CaptureEnds, Step
    <3>2. ResultStep(h, s) \/ UNCHANGED queueVars
      BY <2>6 DEF CaptureActivity, CaptureEnds, ResultStep, h
    <3> QED BY <3>1, <3>2 DEF QueueNext
  <2> QED
    BY <1>4, <2>3, <2>4, <2>5, <2>6
       DEF SenderStep, Sending, Receipt, PreFails, Click, Acknowledged, Rejected, Retained,
           Ambiguous, ReceiptFails, Confirm
<1>5. ASSUME NEW s \in Send, ServerAccepts(s) \/ ServerRejects(s)
      PROVE  [QueueNext]_queueVars
  BY <1>5 DEF ServerAccepts, ServerRejects
<1> QED BY <1>1, <1>2, <1>3, <1>4, <1>5 DEF Next

\* So the invariant of the stores carries over.
LEMMA StepQueueInv ==
  ASSUME SystemInv, [Next]_vars
  PROVE  QueueInv'
BY Simulation, StepInv DEF SystemInv

\* The steps of the worker's loop: a retry is written only by the claim's live
\* owner, and only for an outcome that proves that nothing was posted.
LEMMA LoopSteps ==
  ASSUME SystemInv, NEW w \in Worker, WorkerStep(w), QueueInv'
  PROVE  DeliveryInv'
<1> USE QueueAssumption, WorkerAssumption, StatusSets
    DEF SystemInv, DeliveryInv, WorkerTypeOK, WorkerPC, Failure, Unresolved, Confirmed, Live,
        Retryable, Offered, Quiet, Untouched, Evidence, Hosted, Holding
<1>0. QueueTypeOK /\ QueueTypeOK' /\ ConfirmedHaveReceipts
  BY DEF QueueInv
<1>1. CASE Start(w)
  BY <1>0, <1>1 DEF Start, RecoverOrphans, NoRowChange, rowVars, senderVars, Goto
<1>2. CASE RecoverCaptures(w)
  BY <1>0, <1>2 DEF RecoverCaptures, RecoverOrphans, NoRowChange, rowVars, loopVars, senderVars
<1>3. CASE Sweep(w)
  BY <1>0, <1>3 DEF Sweep, ExpireLeases, Release, Expired, Running, resultVars, senderVars, Goto
<1>4. CASE SweepRead(w)
  BY <1>0, <1>4 DEF SweepRead, ReconcileResults, rowVars, senderVars, Goto
<1>5. CASE SweepApply(w)
  BY <1>0, <1>5 DEF SweepApply, ReconcileQueue, ConfirmedHaveReceipts, resultVars, senderVars, Goto
<1>6. CASE SweepDeferred(w)
  BY <1>0, <1>6 DEF SweepDeferred, ReconcileDeferred, rowVars, resultVars, senderVars, Goto
<1>7. CASE ClaimIdle(w)
  BY <1>0, <1>7 DEF ClaimIdle, ClaimNothing, ExpireLeases, Release, Expired, Running,
                    resultVars, loopVars, senderVars
<1>8. ASSUME NEW s \in Send, Claim(w, s)
      PROVE  DeliveryInv'
  BY <1>0, <1>8 DEF Claim, ClaimNext, NextInLine, Claimable, Expired, Running,
                    resultVars, senderVars, Goto
<1>9. CASE Renew(w)
  BY <1>0, <1>9 DEF Renew, RenewLease, resultVars, loopVars, senderVars
<1>10. CASE LoseLease(w)
  BY <1>0, <1>10 DEF LoseLease, queueVars, rowVars, resultVars, senderVars
<1>11. CASE Crash(w)
  BY <1>0, <1>11 DEF Crash, ReconcileDeferred, rowVars, resultVars
<1>12. CASE CancelRemoved(w)
  BY <1>0, <1>12 DEF CancelRemoved, FailClaim, Release, OwnsLive, Rejoin, Goto,
                     queueVars, rowVars, resultVars, senderVars
<1>13. CASE Abandon(w) \/ SettleNothing(w)
  <2>1. Rejoin(w) /\ UNCHANGED <<status, acceptedAt, senderVars>>
    BY <1>13 DEF Abandon, SettleNothing, queueVars, rowVars, resultVars
  <2> QED BY <1>0, <2>1 DEF Rejoin, Goto, senderVars
<1>14. CASE StartSender(w)
  BY <1>0, <1>14 DEF StartSender, EnsureQueued, rowVars, Goto
<1>15. CASE SetupFails(w)
  BY <1>0, <1>15 DEF SetupFails, EnsureQueued, Goto, queueVars, rowVars, resultVars, senderVars
<1>16. CASE HandshakeConfirmed(w) \/ HandshakeFailed(w) \/ HandshakeTimeout(w)
  BY <1>0, <1>16 DEF HandshakeConfirmed, HandshakeFailed, HandshakeTimeout, Return, Goto,
                     queueVars, rowVars, resultVars, senderVars
<1>17. CASE Settle(w)
  <2>1. CASE outcome[w] = "ok" /\ CompleteClaim(w, job[w])
    BY <1>0, <1>17, <2>1 DEF Settle, CompleteClaim, Release, OwnsLive, Rejoin, Goto,
                             resultVars, senderVars
  <2>2. ASSUME NEW st \in Retrying, outcome[w] \in Retryable, RetryClaim(w, job[w], st)
        PROVE  DeliveryInv'
    BY <1>0, <1>17, <2>2 DEF Settle, RetryClaim, OwnsLive, Rejoin, Goto, resultVars, senderVars
  <2>3. CASE outcome[w] \in Retryable /\ FailClaim(w, job[w], "dead_lettered")
    BY <1>0, <1>17, <2>3 DEF Settle, FailClaim, Release, OwnsLive, Rejoin, Goto,
                             resultVars, senderVars
  <2>4. CASE FailClaim(w, job[w], "outcome_unknown")
    BY <1>0, <1>17, <2>4 DEF Settle, FailClaim, Release, OwnsLive, Rejoin, Goto,
                             resultVars, senderVars
  <2> QED BY <1>17, <2>1, <2>2, <2>3, <2>4 DEF Settle, Conclude
<1>18. CASE RecoverHistory(w)
  BY <1>0, <1>18 DEF RecoverHistory, RecoverResponse, NoRowChange, rowVars, loopVars, senderVars
<1> QED
  BY <1>1, <1>2, <1>3, <1>4, <1>5, <1>6, <1>7, <1>8, <1>9, <1>10, <1>11, <1>12, <1>13,
     <1>14, <1>15, <1>16, <1>17, <1>18
     DEF WorkerStep, Sweeping, Delivering

\* The steps of a sender and of ChatGPT: what a sender reports as retryable it
\* never posted, or ChatGPT refused it.
LEMMA SenderSteps ==
  ASSUME SystemInv, NEW s \in Send, SenderStep(s) \/ ServerAccepts(s) \/ ServerRejects(s),
         QueueInv'
  PROVE  DeliveryInv'
<1> USE QueueAssumption, WorkerAssumption, StatusSets
    DEF SystemInv, DeliveryInv, WorkerTypeOK, WorkerPC, Failure, Unresolved, Confirmed, Live,
        Retryable, Offered, Quiet, Untouched, Evidence, Hosted, Holding
<1>0. QueueTypeOK /\ QueueTypeOK'
  BY DEF QueueInv
<1>1. CASE PreFails(s)
  BY <1>0, <1>1 DEF PreFails, Step, queueVars, rowVars, resultVars, loopVars
<1>2. CASE Click(s)
  BY <1>0, <1>2 DEF Click, Step, queueVars, rowVars, resultVars, loopVars
<1>3. CASE Acknowledged(s)
  BY <1>0, <1>3 DEF Acknowledged, Step, queueVars, rowVars, resultVars, loopVars
<1>4. CASE Rejected(s) \/ Retained(s)
  BY <1>0, <1>4 DEF Rejected, Retained, Step, queueVars, rowVars, resultVars, loopVars
<1>5. CASE Ambiguous(s)
  BY <1>0, <1>5 DEF Ambiguous, Step, queueVars, rowVars, resultVars, loopVars
<1>6. CASE SaveReceipt(s)
  <2>1. /\ sender[s] \in {"acked", "seen"}
        /\ sender' = [sender EXCEPT ![s] = "receipted"]
        /\ host' = host
        /\ acceptedAt' = [acceptedAt EXCEPT ![s] = TRUE]
        /\ UNCHANGED <<status, loopVars, post, accepts>>
    BY <1>0, <1>6 DEF SaveReceipt, Step, AcceptReceipt, AcceptObserved, NoRowChange, rowVars
  <2> QED BY <1>0, <2>1 DEF loopVars
<1>7. CASE ReceiptFails(s)
  BY <1>0, <1>7 DEF ReceiptFails, Step, queueVars, rowVars, resultVars, loopVars
<1>8. CASE Confirm(s)
  BY <1>0, <1>8 DEF Confirm, Step, queueVars, rowVars, resultVars, loopVars
<1>9. CASE Close(s)
  BY <1>0, <1>9 DEF Close, Unavailable, Step, NoRowChange, queueVars, rowVars, resultVars, loopVars
<1>10. CASE CaptureActivity(s)
  BY <1>0, <1>10 DEF CaptureActivity, RenewCaptureDeadline, NoRowChange, rowVars,
                     loopVars, senderVars
<1>11. CASE CaptureEnds(s)
  BY <1>0, <1>11 DEF CaptureEnds, WriteComplete, FinishCapture, Step, NoRowChange,
                     queueVars, rowVars, resultVars, loopVars
<1>12. CASE Submitted(s)
  BY <1>0, <1>12 DEF Submitted, MarkSubmitted, Step, NoRowChange, rowVars, loopVars
<1>13. CASE ServerAccepts(s) \/ ServerRejects(s)
  BY <1>0, <1>13 DEF ServerAccepts, ServerRejects, queueVars, rowVars, resultVars, loopVars
<1> QED
  BY <1>1, <1>2, <1>3, <1>4, <1>5, <1>6, <1>7, <1>8, <1>9, <1>10, <1>11, <1>12, <1>13
     DEF SenderStep, Sending, Receipt

\* The stores' other users never touch what a worker holds.
LEMMA StoreSteps ==
  ASSUME SystemInv, StoreStep, UNCHANGED <<loopVars, senderVars>>, QueueInv'
  PROVE  DeliveryInv'
<1> USE QueueAssumption, WorkerAssumption, StatusSets
    DEF SystemInv, DeliveryInv, WorkerTypeOK, WorkerPC, Failure, Unresolved, Confirmed, Live,
        Retryable, Offered, Quiet, Untouched, Evidence, Hosted, Holding
<1>0. QueueTypeOK /\ QueueTypeOK'
  BY DEF QueueInv
<1>1. ASSUME NEW s \in Send, Enqueue(s, FALSE)
      PROVE  DeliveryInv'
  BY <1>0, <1>1 DEF Enqueue, loopVars, senderVars
<1>2. ASSUME NEW s \in Send, EnqueueAgain(s)
      PROVE  DeliveryInv'
  BY <1>0, <1>2 DEF EnqueueAgain, EnsureQueued, rowVars, loopVars, senderVars
<1>3. ASSUME NEW s \in Send, CancelPending(s)
      PROVE  DeliveryInv'
  BY <1>0, <1>3 DEF CancelPending, Release, resultVars, loopVars, senderVars
<1>4. ASSUME NEW s \in Send, StopResult(s)
      PROVE  DeliveryInv'
  BY <1>0, <1>4 DEF StopResult, NoRowChange, rowVars, loopVars, senderVars
<1>5. CASE ProjectionStep \/ Tick
  <2>1. UNCHANGED <<status, acceptedAt>>
    BY <1>5 DEF ProjectionStep, ApplyProjection, LoseProjection, NoRowChange, Tick,
                rowVars, resultVars
  <2> QED BY <1>0, <2>1 DEF loopVars, senderVars
<1> QED BY <1>1, <1>2, <1>3, <1>4, <1>5 DEF StoreStep, Producer

\* The invariant is inductive.
LEMMA SystemStep ==
  ASSUME SystemInv, [Next]_vars
  PROVE  SystemInv'
<1>1. QueueInv'
  BY StepQueueInv
<1>2. CASE UNCHANGED vars
  <2>1. QueueTypeOK'
    BY <1>1 DEF QueueInv
  <2> QED
    BY <1>1, <1>2, <2>1 DEF vars, queueVars, rowVars, resultVars, loopVars, senderVars,
                            SystemInv, DeliveryInv, WorkerTypeOK, Offered, Quiet, Untouched,
                            Evidence, Hosted, Holding
<1> QED
  BY <1>1, <1>2, LoopSteps, SenderSteps, StoreSteps DEF Next, SystemInv

\* The stores, the workers and the senders agree after every step of the system,
\* crashes and late answers of ChatGPT included.
THEOREM SystemInvariant == Spec => []SystemInv
BY SystemInit, SystemStep, PTL DEF Spec

\* Workers, senders, crashes and ChatGPT only ever run the stores' transactions.
THEOREM WorkersImplementQueue == Spec => ImplementsQueue
<1>1. Init => QueueInit
  BY DEF Init
<1> QED
  BY <1>1, SystemInvariant, Simulation, PTL DEF Spec, ImplementsQueue, QueueSpec

\* The queue, the workers and the senders always agree on who has sent what.
THEOREM WorkersAgree == Spec => []DeliveryInv
<1>1. SystemInv => DeliveryInv
  BY DEF SystemInv
<1> QED BY <1>1, SystemInvariant, PTL

\* A claimed prompt is in nobody else's hands and was never taken.
THEOREM OnlyOneSender == Spec => []SoleSender
<1>1. DeliveryInv => SoleSender
  <2> SUFFICES ASSUME DeliveryInv, NEW w \in Worker, pc[w] = "claimed"
               PROVE  /\ Quiet(job[w])
                      /\ \A v \in Worker \ {w} : job[v] # job[w]
    BY DEF SoleSender
  <2> QED BY DEF DeliveryInv, WorkerTypeOK, Holding
<1> QED BY <1>1, WorkersAgree, PTL

\* What the queue still offers, or reports as not sent, ChatGPT never took.
THEOREM NothingOfARetryIsOnTheWire == Spec => []NothingOnTheWire
<1>1. DeliveryInv => NothingOnTheWire
  BY DEF DeliveryInv, NothingOnTheWire, Offered
<1> QED BY <1>1, WorkersAgree, PTL

\* The verdict that each status reports.
LEMMA Verdicts ==
  /\ Reported("outcome_unknown") = "unknown"
  /\ Reported("succeeded") = "delivered"
  /\ \A st \in {"cancelled", "dead_lettered"} : Reported(st) = "refused"
  /\ \A st \in Waiting \cup {"absent", "running"} : Reported(st) = "pending"
BY DEF Reported, Waiting

\* The step reports v of the sends in S and changes no other report.
Decided(S, v) ==
  /\ \A s \in Send : Reported(status'[s]) = IF s \in S THEN v ELSE Reported(status[s])
  /\ UNCHANGED accepts

\* The three ways in which AtMostOnceSend lets a verdict change.
LEMMA Decisions ==
  ASSUME NEW S \in SUBSET Send
  PROVE  /\ (\A s \in S : Reported(status[s]) = "pending") /\ Decided(S, "unknown")
              => AtMostOnce!Quarantine(S)
         /\ (\A s \in S : Reported(status[s]) \in {"pending", "unknown"} /\ accepts[s] = 1)
              /\ Decided(S, "delivered")
              => AtMostOnce!Deliver(S)
         /\ \A s \in Send : /\ S = {s}
                            /\ Reported(status[s]) = "pending" /\ accepts[s] = 0
                            /\ Decided(S, "refused")
              => AtMostOnce!Refuse(s)
BY DEF Decided, AtMostOnce!Quarantine, AtMostOnce!Deliver, AtMostOnce!Refuse, AtMostOnce!Decide

\* A transaction of the stores that only succeeds what was taken, and only
\* cancels or dead-letters what was not, is one decision of the promise.
LEMMA QueueVerdicts ==
  ASSUME SystemInv, QueueNext, UNCHANGED accepts,
         \A s \in Send : status'[s] = "succeeded" /\ status[s] # "succeeded" => accepts[s] = 1,
         \A s \in Send : status'[s] \in {"cancelled", "dead_lettered"} => accepts[s] = 0
  PROVE  \/ AtMostOnce!Next
         \/ UNCHANGED <<accepts, [s \in Send |-> Reported(status[s])]>>
<1>0. QueueTypeOK
  BY DEF SystemInv, QueueInv
<1>1. ASSUME NEW S \in SUBSET Send,
             \A s \in S : Reported(status[s]) = "pending", Decided(S, "unknown")
      PROVE  AtMostOnce!Next
  BY <1>1, Decisions DEF AtMostOnce!Next
<1>2. ASSUME NEW S \in SUBSET Send,
             \A s \in S : Reported(status[s]) \in {"pending", "unknown"} /\ accepts[s] = 1,
             Decided(S, "delivered")
      PROVE  AtMostOnce!Next
  BY <1>2, Decisions DEF AtMostOnce!Next
<1>3. ASSUME NEW s \in Send, Reported(status[s]) = "pending", accepts[s] = 0,
             Decided({s}, "refused")
      PROVE  AtMostOnce!Next
  BY <1>3, Decisions DEF AtMostOnce!Next
<1>4. CASE \A s \in Send : Reported(status'[s]) = Reported(status[s])
  BY <1>4
<1>5. ASSUME NEW s \in Send, UserStep(s)
      PROVE  AtMostOnce!Next \/ \A t \in Send : Reported(status'[t]) = Reported(status[t])
  <2>1. CASE CancelPending(s)
    <3>1. /\ status[s] \in Waiting /\ status'[s] = "cancelled"
          /\ \A t \in Send \ {s} : status'[t] = status[t]
      BY <2>1 DEF CancelPending, Release
    <3> QED BY <1>3, <3>1, Verdicts DEF Decided
  <2>2. CASE \E once \in BOOLEAN : Enqueue(s, once)
    <3>1. status[s] = "absent" /\ status' = [status EXCEPT ![s] = "queued"]
      BY <2>2 DEF Enqueue
    <3> QED BY <1>0, <3>1, Verdicts, StatusSets DEF QueueTypeOK
  <2> QED
    BY <1>5, <2>1, <2>2 DEF UserStep, EnqueueAgain, EnsureQueued, BumpToFront, PromoteOneTime,
                            StopResult, NoRowChange, rowVars
<1>6. CASE ExpireLeases
  <2>1. /\ Expired \in SUBSET Send
        /\ \A s \in Expired : status[s] = "running"
        /\ \A s \in Send : status'[s] = IF s \in Expired THEN "outcome_unknown" ELSE status[s]
    BY <1>6 DEF ExpireLeases, Release, Expired, Running
  <2> QED BY <1>1, <2>1, Verdicts DEF Decided
<1>7. ASSUME NEW w \in Worker, NEW s \in Send, ClaimStep(w, s)
      PROVE  AtMostOnce!Next \/ \A t \in Send : Reported(status'[t]) = Reported(status[t])
  <2>1. CASE ClaimNext(w, s)
    <3>1. /\ Expired \in SUBSET Send
          /\ \A t \in Expired : status[t] = "running"
          /\ status[s] \in Waiting /\ status'[s] = "running"
          /\ \A t \in Send \ {s} :
               status'[t] = IF t \in Expired THEN "outcome_unknown" ELSE status[t]
      BY <2>1 DEF ClaimNext, NextInLine, Claimable, Expired, Running
    <3>2. s \notin Expired
      BY <3>1, StatusSets
    <3> QED BY <1>1, <3>1, <3>2, Verdicts DEF Decided
  <2>2. ASSUME NEW st \in Retrying, RetryClaim(w, s, st)
        PROVE  \A t \in Send : Reported(status'[t]) = Reported(status[t])
    <3>1. status[s] = "running" /\ status' = [status EXCEPT ![s] = st] /\ st \in Waiting
      BY <2>2, StatusSets DEF RetryClaim, OwnsLive
    <3> QED BY <1>0, <3>1, Verdicts DEF QueueTypeOK
  <2>3. ASSUME NEW st \in Terminal, status[s] = "running", Release({s}, st)
        PROVE  AtMostOnce!Next
    <3>1. status'[s] = st /\ \A t \in Send \ {s} : status'[t] = status[t]
      BY <2>3 DEF Release
    <3>2. {s} \in SUBSET Send /\ Reported(status[s]) = "pending"
      BY <2>3, Verdicts
    <3>3. CASE st = "outcome_unknown"
      BY <1>1, <3>1, <3>2, <3>3, Verdicts DEF Decided
    <3>4. CASE st = "succeeded"
      BY <1>2, <2>3, <3>1, <3>2, <3>4, Verdicts DEF Decided
    <3>5. CASE st \in {"cancelled", "dead_lettered"}
      BY <1>3, <3>1, <3>2, <3>5, Verdicts DEF Decided
    <3> QED BY <3>3, <3>4, <3>5, StatusSets
  <2>4. CASE RenewLease(w, s)
    BY <2>4 DEF RenewLease
  <2> QED
    BY <1>7, <2>1, <2>2, <2>3, <2>4, StatusSets
       DEF ClaimStep, FailClaim, CompleteClaim, OwnsLive
<1>8. ASSUME NEW w \in Worker, ReconcileQueue(w)
      PROVE  AtMostOnce!Next
  <2> DEFINE S == {s \in confirmed[w] : s \in Send /\ status[s] = "outcome_unknown"}
  <2>1. \A s \in Send : status'[s] = IF s \in S THEN "succeeded" ELSE status[s]
    BY <1>8 DEF ReconcileQueue
  <2>2. \A s \in S : s \in Send /\ status[s] = "outcome_unknown"
    OBVIOUS
  <2>3. \A s \in S : Reported(status[s]) = "unknown" /\ accepts[s] = 1
    BY <2>1, <2>2, Verdicts
  <2>4. S \in SUBSET Send
    OBVIOUS
  <2> HIDE DEF S
  <2>5. Decided(S, "delivered")
    BY <2>1, Verdicts DEF Decided
  <2> QED BY <1>2, <2>3, <2>4, <2>5
<1>9. CASE UNCHANGED status
  BY <1>4, <1>9
<1> QED
  <2>1. ASSUME NEW w \in Worker, NEW s \in Send, ResultStep(w, s)
        PROVE  UNCHANGED status
    BY <2>1 DEF ResultStep, AcceptReceipt, AcceptObserved, MarkSubmitted, EnsureQueued,
                Unavailable, RecoverResponse, RenewCaptureDeadline, WriteComplete,
                FinishCapture, NoRowChange, rowVars
  <2>2. ASSUME \/ ProjectionStep
               \/ \E w \in Worker : ReconcileResults(w) \/ ReconcileDeferred(w)
               \/ \E dead \in SUBSET Worker : RecoverOrphans(dead)
               \/ \E S \in SUBSET Send : DetachCaptures(S)
               \/ Tick
        PROVE  UNCHANGED status
    BY <2>2 DEF ProjectionStep, ApplyProjection, LoseProjection, ReconcileResults,
                ReconcileDeferred, RecoverOrphans, DetachCaptures, Tick, NoRowChange, rowVars
  <2> QED
    BY <1>4, <1>5, <1>6, <1>7, <1>8, <1>9, <2>1, <2>2 DEF QueueNext, ClaimNothing

\* A step of the system keeps the promise: Evidence and Offered, which hold after
\* it, say which verdicts it may have written.
LEMMA Promise ==
  ASSUME ~FireAndForget, SystemInv, SystemInv', [Next]_vars
  PROVE  [AtMostOnce!Next]_<<accepts, [s \in Send |-> Reported(status[s])]>>
<1>1. CASE \E s \in Send : ServerAccepts(s)
  <2>1. PICK s \in Send : ServerAccepts(s)
    BY <1>1
  <2>2. UNCHANGED status
    BY <2>1 DEF ServerAccepts, queueVars, rowVars
  <2>3. accepts[s] = 0 /\ accepts' = [accepts EXCEPT ![s] = 1]
    <3>1. post[s] = "inflight" /\ accepts' = [accepts EXCEPT ![s] = @ + 1]
      BY <2>1 DEF ServerAccepts
    <3>2. accepts[s] = 0
      BY <3>1 DEF SystemInv, DeliveryInv
    <3> QED BY <3>1, <3>2
  <2>4. status[s] \notin {"succeeded", "cancelled", "dead_lettered"}
    BY <2>1 DEF ServerAccepts, SystemInv, DeliveryInv, Offered, Quiet, Evidence
  <2>5. status[s] \in {"outcome_unknown", "absent", "running"} \cup Waiting
    BY <2>4, StatusSets DEF SystemInv, QueueInv, QueueTypeOK
  <2>6. AtMostOnce!Accept(s)
    BY <2>2, <2>3, <2>5, Verdicts DEF AtMostOnce!Accept
  <2> QED BY <2>6 DEF AtMostOnce!Next
<1>2. CASE ~\E s \in Send : ServerAccepts(s)
  <2>1. UNCHANGED accepts
    BY <1>2 DEF Next, vars, senderVars, loopVars, WorkerStep, Start, Sweeping, Sweep, SweepRead,
         SweepApply, SweepDeferred, ClaimIdle, Claim, Delivering, CancelRemoved, Abandon,
         StartSender, SetupFails, HandshakeConfirmed, HandshakeFailed, HandshakeTimeout, Return,
         Settle, SettleNothing, Renew, LoseLease, RecoverCaptures, RecoverHistory, Crash, SenderStep, Sending, Receipt,
         PreFails, Click, Acknowledged, Rejected, Retained, Ambiguous, SaveReceipt, ReceiptFails,
         Confirm, Submitted, Close, CaptureActivity, CaptureEnds, ServerRejects
  <2>2. \A s \in Send : status'[s] = "succeeded" => accepts[s] = 1
    BY <2>1 DEF SystemInv, DeliveryInv, Evidence
  <2>3. \A s \in Send : status'[s] \in {"cancelled", "dead_lettered"} => accepts[s] = 0
    BY <2>1 DEF SystemInv, DeliveryInv, Offered, Quiet
  <2>4. CASE UNCHANGED queueVars
    BY <2>1, <2>4 DEF queueVars, rowVars
  <2>5. CASE QueueNext
    BY <2>1, <2>2, <2>3, <2>5, QueueVerdicts
  <2> QED BY <2>4, <2>5, Simulation
<1> QED BY <1>1, <1>2

\* With evidence of acceptance, Prompta keeps the promise of AtMostOnceSend:
\* no prompt is taken twice and no verdict is false.
THEOREM PromiseKept ==
  ASSUME ~FireAndForget
  PROVE  Spec => ImplementsAtMostOnce
<1>1. Init => AtMostOnce!Init
  BY Verdicts DEF Init, QueueInit, AtMostOnce!Init
<1>2. SystemInv /\ SystemInv' /\ [Next]_vars
        => [AtMostOnce!Next]_<<accepts, [s \in Send |-> Reported(status[s])]>>
  BY Promise
<1> QED
  BY <1>1, <1>2, SystemInvariant, PTL DEF Spec, ImplementsAtMostOnce, AtMostOnce!Spec
=============================================================================
