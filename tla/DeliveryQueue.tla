--------------------------- MODULE DeliveryQueue ---------------------------
(***************************************************************************)
(* The durable stores behind Prompta's fresh-chat deliveries, and every    *)
(* transaction the code runs on them.                                      *)
(*                                                                         *)
(* There are two SQLite databases and no transaction spans both:           *)
(*   - the queue database, one job_deliveries row for each send            *)
(*     (src/delivery_queue.py), and                                        *)
(*   - the results database, one job_responses row for each send           *)
(*     (src/response_store.py): what the Chats view shows, and the local   *)
(*     receipt that ChatGPT took the prompt.                               *)
(*                                                                         *)
(* An action of this module is one committed transaction.  A call that the *)
(* code makes on the other database after its own commit is a separate     *)
(* transaction that a crash or a failing disk can prevent: it is left in   *)
(* `projection` until somebody applies or loses it.                        *)
(*                                                                         *)
(* Here any process may call anything.  DeliveryWorker says who calls what *)
(* and when.                                                               *)
(***************************************************************************)
EXTENDS Integers, FiniteSets

CONSTANTS
  Send,         \* send_ids
  Worker,       \* lease owners: one per incarnation of a worker process
  None,         \* no owner, the empty string in the tables
  Manual,       \* the sends whose client_id starts with "manual:"
  MaxActive,    \* [concurrency] max_workers
  LeaseLen,     \* _LEASE_SECONDS, in ticks
  CaptureLen,   \* MAX_OWNED_TAB_AGE_SECONDS, in ticks
  RetryDelay,   \* the backoff before a retry, in ticks
  MaxAttempt,   \* _MAX_REJECTED_ATTEMPTS
  FireAndForget,\* PROMPTA_FIRE_AND_FORGET=1
  MaxBumps,     \* bound: how often deliveries are moved to the front
  Horizon       \* bound: the last instant of the clock

ASSUME QueueAssumption ==
  /\ IsFiniteSet(Send)
  /\ None \notin Worker
  /\ Manual \subseteq Send
  /\ MaxActive  \in Nat \ {0}
  /\ LeaseLen   \in Nat \ {0}
  /\ CaptureLen \in Nat \ {0}
  /\ RetryDelay \in Nat
  /\ MaxAttempt \in Nat \ {0}
  /\ MaxBumps   \in Nat
  /\ Horizon    \in Nat
  /\ FireAndForget \in BOOLEAN

VARIABLES
  \* job_deliveries, one function per column
  status, leaseOwner, leaseExpires, retryAt, retryAttempt,
  queuePriority, oneTime, sequence,
  \* job_responses
  result, acceptedAt, captureOwner, captureDeadline,
  \* results calls that follow a queue commit and have not run yet
  projection,
  \* the ids that a reconcile_accepted_outcomes call under way found accepted
  confirmed,
  \* the wall clock
  now

rowVars     == <<status, leaseOwner, leaseExpires, retryAt, retryAttempt>>
orderVars   == <<queuePriority, oneTime, sequence>>
resultVars  == <<result, acceptedAt, captureOwner, captureDeadline>>
queueVars   == <<rowVars, orderVars, resultVars, projection, confirmed, now>>

(***************************************************************************)
(* Statuses                                                                *)
(***************************************************************************)
Waiting  == {"queued", "retrying", "rate_limited"}
Retrying == {"retrying", "rate_limited"}
Terminal == {"cancelled", "dead_lettered", "outcome_unknown", "succeeded"}
QueueStatus == {"absent", "running"} \cup Waiting \cup Terminal

\* "accepted" stands for the pair accepted/generating, which every
\* transaction of this module treats alike.
ResultStatus ==
  {"absent", "queued", "submitted", "accepted", "completed", "interrupted",
   "unavailable", "outcome_unknown", "stopped"}

\* The result statuses in which a saved accepted_at settles a quarantined send.
ReconcilableResult == {"accepted", "completed", "interrupted", "unavailable"}

QueueTypeOK ==
  /\ status       \in [Send -> QueueStatus]
  /\ leaseOwner   \in [Send -> Worker \cup {None}]
  /\ leaseExpires \in [Send -> Nat]
  /\ retryAt      \in [Send -> Nat]
  /\ retryAttempt \in [Send -> 0 .. MaxAttempt]
  /\ queuePriority \in [Send -> Int]
  /\ oneTime      \in [Send -> BOOLEAN]
  /\ sequence     \in [Send -> Nat]
  /\ result       \in [Send -> ResultStatus]
  /\ acceptedAt   \in [Send -> BOOLEAN]
  /\ captureOwner \in [Send -> Worker \cup {None}]
  /\ captureDeadline \in [Send -> Nat]
  /\ projection   \subseteq Send \X {"unavailable", "uncertain"}
  /\ confirmed    \in [Worker -> SUBSET Send]
  /\ now          \in Nat

QueueInit ==
  /\ status       = [s \in Send |-> "absent"]
  /\ leaseOwner   = [s \in Send |-> None]
  /\ leaseExpires = [s \in Send |-> 0]
  /\ retryAt      = [s \in Send |-> 0]
  /\ retryAttempt = [s \in Send |-> 0]
  /\ queuePriority = [s \in Send |-> 0]
  /\ oneTime      = [s \in Send |-> FALSE]
  /\ sequence     = [s \in Send |-> 0]
  /\ result       = [s \in Send |-> "absent"]
  /\ acceptedAt   = [s \in Send |-> FALSE]
  /\ captureOwner = [s \in Send |-> None]
  /\ captureDeadline = [s \in Send |-> 0]
  /\ projection   = {}
  /\ confirmed    = [w \in Worker |-> {}]
  /\ now          = 0

(***************************************************************************)
(* Reads                                                                   *)
(***************************************************************************)
Running == {s \in Send : status[s] = "running"}
Expired == {s \in Running : leaseExpires[s] <= now}

\* Captures that still hold their lease; send-only mode does not count them.
ActiveCapture ==
  IF FireAndForget THEN {}
  ELSE {s \in Send : result[s] = "accepted" /\ captureDeadline[s] > now}

\* Deliveries and captures that occupy a slot, each send once.
ActiveDelivery == Running \cup ActiveCapture

OwnsLive(w, s) ==
  status[s] = "running" /\ leaseOwner[s] = w /\ leaseExpires[s] > now

\* _DISPATCH_PRIORITY
DispatchClass(s) ==
  IF s \in Manual THEN 0 ELSE IF oneTime[s] THEN 1 ELSE 2

\* mutant: the newest delivery first
Before_NewestFirst(s, t) ==
  \/ queuePriority[s] < queuePriority[t]
  \/ /\ queuePriority[s] = queuePriority[t]
     /\ \/ DispatchClass(s) < DispatchClass(t)
        \/ DispatchClass(s) = DispatchClass(t) /\ sequence[s] > sequence[t]

\* ORDER BY queue_priority, _DISPATCH_PRIORITY, sequence
Before(s, t) ==
  \/ queuePriority[s] < queuePriority[t]
  \/ /\ queuePriority[s] = queuePriority[t]
     /\ \/ DispatchClass(s) < DispatchClass(t)
        \/ DispatchClass(s) = DispatchClass(t) /\ sequence[s] < sequence[t]

Claimable(s) == status[s] \in Waiting /\ retryAt[s] <= now

NextInLine(s) ==
  Claimable(s) /\ \A t \in Send \ {s} : Claimable(t) => Before(s, t)

\* claim_next counts the rows it leaves running, after expiring the others.
SlotFree == Cardinality((Running \ Expired) \cup ActiveCapture) < MaxActive

(***************************************************************************)
(* Queue transactions                                                      *)
(***************************************************************************)

\* mutant: the lease owner stays in the row
Release_KeepsOwner(S, st) ==
  /\ status'       = [s \in Send |-> IF s \in S THEN st ELSE status[s]]
  /\ leaseExpires' = [s \in Send |-> IF s \in S THEN 0 ELSE leaseExpires[s]]
  /\ retryAt'      = [s \in Send |-> IF s \in S THEN 0 ELSE retryAt[s]]
  /\ UNCHANGED leaseOwner

\* Each row of S leaves its lease and takes status st; the error text and
\* finished_at, which go with it, are not modelled.
Release(S, st) ==
  /\ status'       = [s \in Send |-> IF s \in S THEN st ELSE status[s]]
  /\ leaseOwner'   = [s \in Send |-> IF s \in S THEN None ELSE leaseOwner[s]]
  /\ leaseExpires' = [s \in Send |-> IF s \in S THEN 0 ELSE leaseExpires[s]]
  /\ retryAt'      = [s \in Send |-> IF s \in S THEN 0 ELSE retryAt[s]]

\* results.ensure_queued: INSERT OR IGNORE
EnsureQueued(s) ==
  /\ result' = [result EXCEPT ![s] = IF @ = "absent" THEN "queued" ELSE @]
  /\ UNCHANGED <<rowVars, orderVars, acceptedAt, captureOwner, captureDeadline,
                 projection, confirmed, now>>

\* enqueue_idempotent of a new send_id.  results.ensure_queued follows in the
\* other database and may never run (the process died): calling again with a
\* send_id that is still pending repairs that and changes nothing else.
Enqueue(s, once) ==
  /\ status[s] = "absent"
  /\ status'   = [status EXCEPT ![s] = "queued"]
  /\ oneTime'  = [oneTime EXCEPT ![s] = once]
  /\ sequence' = [sequence EXCEPT ![s] =
                    1 + Cardinality({t \in Send : status[t] # "absent"})]
  /\ \/ result[s] = "absent" /\ result' = [result EXCEPT ![s] = "queued"]
     \/ UNCHANGED result
  /\ UNCHANGED <<leaseOwner, leaseExpires, retryAt, retryAttempt,
                 queuePriority, acceptedAt, captureOwner, captureDeadline,
                 projection, confirmed, now>>

EnqueueAgain(s) ==
  /\ status[s] \in Waiting \cup {"running"}
  /\ result[s] = "absent"
  /\ EnsureQueued(s)

\* The UPDATE of expire_leases: a lapsed claim is quarantined, never replayed.
ExpireLeases ==
  /\ Release(Expired, "outcome_unknown")
  /\ projection' = projection \cup (Expired \X {"unavailable"})
  /\ UNCHANGED <<retryAttempt, orderVars, resultVars, confirmed, now>>

\* claim_next: one transaction quarantines what lapsed, counts the slots in
\* use and hands the next delivery in line to worker w.
ClaimNext(w, s) ==
  /\ NextInLine(s)
  /\ SlotFree
  /\ now + LeaseLen <= Horizon
  /\ status' = [t \in Send |->
       IF t = s THEN "running"
       ELSE IF t \in Expired THEN "outcome_unknown" ELSE status[t]]
  /\ leaseOwner' = [t \in Send |->
       IF t = s THEN w ELSE IF t \in Expired THEN None ELSE leaseOwner[t]]
  /\ leaseExpires' = [t \in Send |->
       IF t = s THEN now + LeaseLen
       ELSE IF t \in Expired THEN 0 ELSE leaseExpires[t]]
  /\ retryAt' = [t \in Send |-> IF t \in Expired THEN 0 ELSE retryAt[t]]
  /\ projection' = projection \cup (Expired \X {"unavailable"})
  /\ UNCHANGED <<retryAttempt, orderVars, resultVars, confirmed, now>>

\* claim_next without a row to give: the expiry is committed all the same.
ClaimNothing ==
  /\ Expired # {}
  /\ ~SlotFree \/ ~\E s \in Send : Claimable(s)
  /\ ExpireLeases

RenewLease(w, s) ==
  /\ OwnsLive(w, s)
  /\ now + LeaseLen <= Horizon
  /\ leaseExpires' = [leaseExpires EXCEPT ![s] = now + LeaseLen]
  /\ UNCHANGED <<status, leaseOwner, retryAt, retryAttempt, orderVars,
                 resultVars, projection, confirmed, now>>

\* mutant: the stored count runs past the last attempt
NextAttempt_Uncapped(s) == retryAttempt[s] + 1

\* retry_attempt is compared with MaxAttempt only, so it stops there.
NextAttempt(s) ==
  IF retryAttempt[s] < MaxAttempt THEN retryAttempt[s] + 1 ELSE MaxAttempt

RetryClaim(w, s, st) ==
  /\ OwnsLive(w, s)
  /\ st \in Retrying
  /\ status'       = [status EXCEPT ![s] = st]
  /\ leaseOwner'   = [leaseOwner EXCEPT ![s] = None]
  /\ leaseExpires' = [leaseExpires EXCEPT ![s] = 0]
  /\ retryAt'      = [retryAt EXCEPT ![s] = now + RetryDelay]
  /\ retryAttempt' = [retryAttempt EXCEPT ![s] = NextAttempt(s)]
  /\ UNCHANGED <<orderVars, resultVars, projection, confirmed, now>>

CompleteClaim(w, s) ==
  /\ OwnsLive(w, s)
  /\ Release({s}, "succeeded")
  /\ UNCHANGED <<retryAttempt, orderVars, resultVars, projection, confirmed, now>>

\* fail_claim; the result that follows says "uncertain" or "unavailable".
FailClaim(w, s, st) ==
  /\ OwnsLive(w, s)
  /\ st \in Terminal \ {"succeeded"}
  /\ Release({s}, st)
  /\ projection' = projection \cup
       {<<s, IF st = "outcome_unknown" THEN "uncertain" ELSE "unavailable">>}
  /\ UNCHANGED <<retryAttempt, orderVars, resultVars, confirmed, now>>

\* cancel_pending, from the web UI, the CLI, Fire now or Stop
CancelPending(s) ==
  /\ status[s] \in Waiting
  /\ Release({s}, "cancelled")
  /\ projection' = projection \cup {<<s, "unavailable">>}
  /\ UNCHANGED <<retryAttempt, orderVars, resultVars, confirmed, now>>

BumpToFront(s) ==
  /\ status[s] \in Waiting
  /\ \E p \in {queuePriority[t] : t \in Send} :
       /\ \A t \in Send : p <= queuePriority[t]
       /\ p > -MaxBumps
       /\ queuePriority' = [queuePriority EXCEPT ![s] = p - 1]
  /\ UNCHANGED <<rowVars, oneTime, sequence, resultVars, projection, confirmed, now>>

\* promote_one_time, run by the scheduler for one-shot definitions
PromoteOneTime(s) ==
  /\ status[s] \in Waiting
  /\ ~oneTime[s]
  /\ oneTime' = [oneTime EXCEPT ![s] = TRUE]
  /\ UNCHANGED <<rowVars, queuePriority, sequence, resultVars, projection, confirmed, now>>

(***************************************************************************)
(* Results transactions                                                    *)
(***************************************************************************)
NoRowChange == UNCHANGED <<rowVars, orderVars, confirmed, now>>

\* mutant: the status is not looked at
Projected_Blind(s, call) ==
  IF call = "unavailable" THEN "unavailable" ELSE "outcome_unknown"

\* results.unavailable and results.uncertain.  A conversation_id, which the
\* second also asks to be empty, is only ever stored beside an accepted_at.
Projected(s, call) ==
  IF call = "unavailable" /\ result[s] = "queued" THEN "unavailable"
  ELSE IF call = "uncertain" /\ result[s] \in {"queued", "unavailable"} /\ ~acceptedAt[s]
  THEN "outcome_unknown"
  ELSE result[s]

ApplyProjection(s, call) ==
  /\ <<s, call>> \in projection
  /\ result' = [result EXCEPT ![s] = Projected(s, call)]
  /\ projection' = projection \ {<<s, call>>}
  /\ UNCHANGED <<acceptedAt, captureOwner, captureDeadline>>
  /\ NoRowChange

\* The call raised OSError or SQLAlchemyError and was only logged, or the
\* process died before it.
LoseProjection(s, call) ==
  /\ <<s, call>> \in projection
  /\ projection' = projection \ {<<s, call>>}
  /\ UNCHANGED resultVars
  /\ NoRowChange

\* results.unavailable from a sender that could not save its receipt
Unavailable(s) ==
  /\ result' = [result EXCEPT ![s] = Projected(s, "unavailable")]
  /\ UNCHANGED <<acceptedAt, captureOwner, captureDeadline, projection>>
  /\ NoRowChange

\* results.accept: the receipt that ChatGPT took the prompt, and the capture
\* lease of the thread that watches the answer.
AcceptReceipt(w, s) ==
  /\ result[s] \in {"queued", "unavailable", "outcome_unknown"}
  /\ result'     = [result EXCEPT ![s] = "accepted"]
  /\ acceptedAt' = [acceptedAt EXCEPT ![s] = TRUE]
  /\ captureOwner'    = [captureOwner EXCEPT ![s] = w]
  /\ captureDeadline' = [captureDeadline EXCEPT ![s] = now + CaptureLen]
  /\ UNCHANGED projection
  /\ NoRowChange

\* results.accept_observed: the receipt drawn from the owned tab's own DOM,
\* whose answer may already be complete.
AcceptObserved(w, s, complete) ==
  /\ result[s] \in {"queued", "unavailable", "outcome_unknown"}
  /\ ~acceptedAt[s]
  /\ result'     = [result EXCEPT ![s] = IF complete THEN "completed" ELSE "accepted"]
  /\ acceptedAt' = [acceptedAt EXCEPT ![s] = TRUE]
  /\ captureOwner'    = [captureOwner EXCEPT ![s] = IF complete THEN None ELSE w]
  /\ captureDeadline' = [captureDeadline EXCEPT ![s] = now + CaptureLen]
  /\ UNCHANGED projection
  /\ NoRowChange

\* results.mark_submitted: the receipt of send-only mode
MarkSubmitted(s) ==
  /\ result[s] = "queued"
  /\ result'     = [result EXCEPT ![s] = "submitted"]
  /\ acceptedAt' = [acceptedAt EXCEPT ![s] = TRUE]
  /\ captureOwner'    = [captureOwner EXCEPT ![s] = None]
  /\ captureDeadline' = [captureDeadline EXCEPT ![s] = 0]
  /\ UNCHANGED projection
  /\ NoRowChange

OwnsCapture(w, s) == result[s] = "accepted" /\ captureOwner[s] = w

RenewCaptureDeadline(w, s) ==
  /\ OwnsCapture(w, s)
  /\ now < captureDeadline[s]
  /\ captureDeadline[s] < now + CaptureLen
  /\ captureDeadline' = [captureDeadline EXCEPT ![s] = now + CaptureLen]
  /\ UNCHANGED <<result, acceptedAt, captureOwner, projection>>
  /\ NoRowChange

\* results.write of a complete answer
WriteComplete(w, s) ==
  /\ OwnsCapture(w, s)
  /\ now < captureDeadline[s]
  /\ result' = [result EXCEPT ![s] = "completed"]
  /\ captureOwner' = [captureOwner EXCEPT ![s] = None]
  /\ UNCHANGED <<acceptedAt, captureDeadline, projection>>
  /\ NoRowChange

FinishCapture(w, s, st) ==
  /\ OwnsCapture(w, s)
  /\ st \in {"interrupted", "unavailable"}
  /\ result' = [result EXCEPT ![s] = st]
  /\ captureOwner' = [captureOwner EXCEPT ![s] = None]
  /\ UNCHANGED <<acceptedAt, captureDeadline, projection>>
  /\ NoRowChange

\* results.recover_orphans, given the owners whose process is gone
Orphaned(dead) ==
  {s \in Send : /\ result[s] = "accepted"
                /\ captureDeadline[s] <= now \/ captureOwner[s] \in dead}

RecoverOrphans(dead) ==
  /\ result' = [s \in Send |-> IF s \in Orphaned(dead) THEN "interrupted" ELSE result[s]]
  /\ captureOwner' = [s \in Send |->
       IF s \in Orphaned(dead) THEN None ELSE captureOwner[s]]
  /\ UNCHANGED <<acceptedAt, captureDeadline, projection>>
  /\ NoRowChange

\* prepare_deployment_recovery: the workers are gone, and the captures that were
\* live are left, without an owner, to the history recovery.
DetachCaptures(S) ==
  /\ S \subseteq {s \in ActiveCapture : captureOwner[s] # None}
  /\ captureOwner' = [s \in Send |-> IF s \in S THEN None ELSE captureOwner[s]]
  /\ UNCHANGED <<result, acceptedAt, captureDeadline, projection>>
  /\ NoRowChange

\* recover_historical_response: what the saved chat, known since the receipt,
\* shows of an answer that nobody watches.  It may be complete or have progressed.
RecoverResponse(s) ==
  /\ acceptedAt[s]
  /\ captureOwner[s] = None
  /\ result[s] \in {"accepted", "interrupted", "unavailable"}
  /\ \/ /\ result' = [result EXCEPT ![s] = "completed"]
        /\ UNCHANGED captureDeadline
     \/ /\ result[s] = "accepted"
        /\ captureDeadline' = [captureDeadline EXCEPT ![s] = now + CaptureLen]
        /\ UNCHANGED result
  /\ UNCHANGED <<acceptedAt, captureOwner, projection>>
  /\ NoRowChange

\* The last transaction of StopJobService.stop
StopResult(s) ==
  /\ result[s] \in {"queued", "accepted", "interrupted", "unavailable"}
  /\ result' = [result EXCEPT ![s] = "stopped"]
  /\ captureOwner'    = [captureOwner EXCEPT ![s] = None]
  /\ captureDeadline' = [captureDeadline EXCEPT ![s] = 0]
  /\ UNCHANGED <<acceptedAt, projection>>
  /\ NoRowChange

(***************************************************************************)
(* reconcile_accepted_outcomes, one commit in each database: first the     *)
(* results (what was accepted; what is to be shown as unknown), then the   *)
(* queue rows of the sends found accepted.  Reading the quarantined ids    *)
(* and the first commit are taken as one step: an id that is quarantined   *)
(* in between waits for the next sweep.                                    *)
(***************************************************************************)
Quarantined == {s \in Send : status[s] = "outcome_unknown"}

\* mutant: the accepted_at > 0 condition is dropped
ProvenAccepted_NoReceipt ==
  {s \in Quarantined : result[s] \in ReconcilableResult}

\* mutant: only answers still being captured count
ProvenAccepted_LiveOnly ==
  {s \in Quarantined : acceptedAt[s] /\ result[s] = "accepted"}

ProvenAccepted ==
  {s \in Quarantined : acceptedAt[s] /\ result[s] \in ReconcilableResult}

\* mutant: receipts that show as unavailable are left alone
ReconcileResults_QueuedOnly(w) ==
  /\ confirmed' = [confirmed EXCEPT ![w] = ProvenAccepted]
  /\ result' = [s \in Send |->
       IF s \in Quarantined /\ result[s] = "queued" /\ ~acceptedAt[s]
       THEN "outcome_unknown" ELSE result[s]]
  /\ UNCHANGED <<rowVars, orderVars, acceptedAt, captureOwner, captureDeadline,
                 projection, now>>

ReconcileResults(w) ==
  /\ confirmed' = [confirmed EXCEPT ![w] = ProvenAccepted]
  /\ result' = [s \in Send |->
       IF s \in Quarantined /\ result[s] \in {"queued", "unavailable"} /\ ~acceptedAt[s]
       THEN "outcome_unknown" ELSE result[s]]
  /\ UNCHANGED <<rowVars, orderVars, acceptedAt, captureOwner, captureDeadline,
                 projection, now>>

ReconcileQueue(w) ==
  /\ status' = [s \in Send |->
       IF s \in confirmed[w] /\ status[s] = "outcome_unknown"
       THEN "succeeded" ELSE status[s]]
  /\ retryAt' = [s \in Send |->
       IF s \in confirmed[w] /\ status[s] = "outcome_unknown" THEN 0 ELSE retryAt[s]]
  /\ confirmed' = [confirmed EXCEPT ![w] = {}]
  /\ UNCHANGED <<leaseOwner, leaseExpires, retryAttempt, orderVars, resultVars,
                 projection, now>>

\* A database was busy or failing, or the process died: the next sweep retries.
ReconcileDeferred(w) ==
  /\ confirmed' = [confirmed EXCEPT ![w] = {}]
  /\ UNCHANGED <<rowVars, orderVars, resultVars, projection, now>>

Tick ==
  /\ now < Horizon
  /\ now' = now + 1
  /\ UNCHANGED <<rowVars, orderVars, resultVars, projection, confirmed>>

(***************************************************************************)
(* The stores under arbitrary callers                                      *)
(***************************************************************************)
UserStep(s) ==
  \/ \E once \in BOOLEAN : Enqueue(s, once)
  \/ EnqueueAgain(s)
  \/ CancelPending(s)
  \/ BumpToFront(s)
  \/ PromoteOneTime(s)
  \/ StopResult(s)

ClaimStep(w, s) ==
  \/ ClaimNext(w, s)
  \/ RenewLease(w, s)
  \/ \E st \in Retrying : RetryClaim(w, s, st)
  \/ \E st \in Terminal \ {"succeeded"} : FailClaim(w, s, st)
  \/ CompleteClaim(w, s)

ResultStep(w, s) ==
  \/ AcceptReceipt(w, s)
  \/ \E complete \in BOOLEAN : AcceptObserved(w, s, complete)
  \/ MarkSubmitted(s)
  \/ status[s] # "absent" /\ EnsureQueued(s)  \* the sender's first step
  \/ Unavailable(s)
  \/ RecoverResponse(s)
  \/ RenewCaptureDeadline(w, s)
  \/ WriteComplete(w, s)
  \/ \E st \in {"interrupted", "unavailable"} : FinishCapture(w, s, st)

ProjectionStep ==
  \E s \in Send, call \in {"unavailable", "uncertain"} :
    ApplyProjection(s, call) \/ LoseProjection(s, call)

QueueNext ==
  \/ \E s \in Send : UserStep(s)
  \/ \E w \in Worker, s \in Send : ClaimStep(w, s) \/ ResultStep(w, s)
  \/ ProjectionStep
  \/ ExpireLeases
  \/ ClaimNothing
  \/ \E w \in Worker :
       ReconcileResults(w) \/ ReconcileQueue(w) \/ ReconcileDeferred(w)
  \/ \E dead \in SUBSET Worker : RecoverOrphans(dead)
  \/ \E S \in SUBSET Send : DetachCaptures(S)
  \/ Tick

QueueSpec == QueueInit /\ [][QueueNext]_queueVars

(***************************************************************************)
(* Properties                                                              *)
(***************************************************************************)

\* The columns that the transactions set and clear together agree: a row has a
\* lease owner and an expiry exactly while it is claimed, a retry instant only
\* while it waits, and a capture owner only while its answer is awaited.
RowsConsistent ==
  \A s \in Send :
    /\ status[s] = "running" <=> leaseOwner[s] # None
    /\ status[s] = "running" <=> leaseExpires[s] > 0
    /\ status[s] \in {"absent", "queued"} \cup Terminal => retryAt[s] = 0
    /\ captureOwner[s] # None => result[s] = "accepted" /\ acceptedAt[s]
    /\ result[s] \in {"accepted", "submitted", "completed", "interrupted"} => acceptedAt[s]

\* Every id that a reconcile call carries from its first commit to its second,
\* which does not look at the results again, has its receipt.
ConfirmedHaveReceipts ==
  \A w \in Worker : \A s \in confirmed[w] : acceptedAt[s]

\* A receipt is never stored beside a result that denies it.
ReceiptShown ==
  \A s \in Send : acceptedAt[s] =>
    result[s] \in {"submitted", "accepted", "completed", "interrupted", "unavailable",
                  "stopped"}

\* Both databases stay consistent, each in itself and with what the calls under
\* way carry from one to the other, although no transaction spans the two.
QueueInv == QueueTypeOK /\ RowsConsistent /\ ConfirmedHaveReceipts /\ ReceiptShown

\* Two deliveries of one dispatch class that nobody moved to the front or
\* promoted start in the order they were queued, however claims, retries,
\* lapsed leases and cancellations interleave: the ORDER BY of claim_next.
FirstInFirstOut ==
  \A s, t \in Send :
    /\ s \in Manual <=> t \in Manual
    /\ ~oneTime[s] /\ ~oneTime[t]
    /\ queuePriority[s] = 0 /\ queuePriority[t] = 0
    /\ sequence[s] < sequence[t]
    /\ status[s] = "queued"
    => status[t] \in {"absent", "queued", "cancelled"}

TerminalStep ==
  \A s \in Send : status[s] \in Terminal /\ status'[s] # status[s] =>
    /\ status[s] = "outcome_unknown"
    /\ status'[s] = "succeeded"
    /\ acceptedAt[s]

\* A terminal queue decision stands, whatever stale owners, sweeps and retries
\* still have under way.  The one exception is a quarantined send whose durable
\* acceptance receipt reconcile_accepted_outcomes found: it has succeeded.
TerminalIsFinal == [][TerminalStep]_queueVars

ReceiptStep ==
  \A s \in Send : acceptedAt[s] =>
    /\ acceptedAt'[s]
    /\ result'[s] \notin {"queued", "outcome_unknown", "absent"}
    /\ result[s] \in {"completed", "stopped"} => result'[s] = result[s]

\* A saved acceptance, and what then became of the answer, outlives every
\* projection of a pessimistic verdict that was decided before it and applied
\* after it (results.unavailable, .uncertain and the reconcile sweep all write
\* behind the queue commit), and no capture, recovery or Stop rewrites an
\* answer that is complete or was stopped.
ReceiptSurvives == [][ReceiptStep]_queueVars

=============================================================================
