-------------------------- MODULE DeliveryWorker --------------------------
(***************************************************************************)
(* The delivery workers (src/delivery_worker.py), the threads that drive   *)
(* one browser tab for each send (src/delivery_browser.py) and ChatGPT,    *)
(* composed with the stores of DeliveryQueue.                              *)
(*                                                                         *)
(* A member of Worker is one incarnation of the worker process: it starts  *)
(* once, has its own lease owner, and a crash ends it and its threads.     *)
(* Another incarnation then takes over; two may overlap.  What a sender    *)
(* has put on the wire survives every crash: ChatGPT may take the prompt   *)
(* of a process that is gone.                                              *)
(*                                                                         *)
(* With FireAndForget, the setting of the production units, a send runs on *)
(* the worker's own thread and the click alone makes the receipt; without  *)
(* it a background thread looks for evidence that ChatGPT took the prompt, *)
(* hands over to the worker and goes on to watch the answer.               *)
(***************************************************************************)
EXTENDS DeliveryQueue

CONSTANT Immortal  \* the incarnations that no crash hits

ASSUME WorkerAssumption == Immortal \subseteq Worker /\ None \notin Send

VARIABLES
  pc,       \* where the worker's loop is
  job,      \* the send it has claimed
  outcome,  \* how the sender's call ended
  lost,     \* lease_lost: the renewer gave up
  sender,   \* the thread (or call) that sends this prompt, or how it ended
  host,     \* the incarnation it runs in
  post,     \* its last POST to ChatGPT
  accepts   \* how many of its POSTs ChatGPT took

loopVars   == <<pc, job, outcome, lost>>
senderVars == <<sender, host, post, accepts>>
vars       == <<queueVars, loopVars, senderVars>>

WorkerPC == {"down", "loop", "reconcile", "apply", "claimed", "deliver", "settle", "dead"}

\* The exceptions of the sender that _deliver_one tells apart:
\* RateLimitError, DeliveryBackendUnavailableError, SendNotAcceptedError or
\* any unexpected exception, SendOutcomeUnknownError.
Failure == {"rate_limited", "unavailable", "refused", "unknown"}
Retryable == Failure \ {"unknown"}

\* A thread that has not set its handshake event yet
Unresolved == {"pre", "clicked", "acked", "seen", "receipted"}
\* A thread that has set `confirmed`
Confirmed == {"capturing", "closing", "done"}
Live == Unresolved \cup {"capturing", "closing"}

WorkerTypeOK ==
  /\ QueueTypeOK
  /\ pc      \in [Worker -> WorkerPC]
  /\ job     \in [Worker -> Send \cup {None}]
  /\ outcome \in [Worker -> Failure \cup {"none", "ok"}]
  /\ lost    \in [Worker -> BOOLEAN]
  /\ sender  \in [Send -> {"none", "gone"} \cup Unresolved \cup Confirmed \cup Failure]
  /\ host    \in [Send -> Worker \cup {None}]
  /\ post    \in [Send -> {"none", "inflight", "accepted", "rejected"}]
  /\ accepts \in [Send -> Nat]
  /\ \A w \in Worker : pc[w] \in {"claimed", "deliver", "settle"} <=> job[w] \in Send

Init ==
  /\ QueueInit
  /\ pc      = [w \in Worker |-> "down"]
  /\ job     = [w \in Worker |-> None]
  /\ outcome = [w \in Worker |-> "none"]
  /\ lost    = [w \in Worker |-> FALSE]
  /\ sender  = [s \in Send |-> "none"]
  /\ host    = [s \in Send |-> None]
  /\ post    = [s \in Send |-> "none"]
  /\ accepts = [s \in Send |-> 0]

(***************************************************************************)
(* The worker's loop                                                       *)
(***************************************************************************)
Goto(w, label) == pc' = [pc EXCEPT ![w] = label]

\* mutant: the job stays assigned
Rejoin_KeepsJob(w) ==
  /\ Goto(w, "loop")
  /\ outcome' = [outcome EXCEPT ![w] = "none"]
  /\ lost'    = [lost EXCEPT ![w] = FALSE]
  /\ UNCHANGED job

\* Back to the top of the loop, without a job
Rejoin(w) ==
  /\ Goto(w, "loop")
  /\ job'     = [job EXCEPT ![w] = None]
  /\ outcome' = [outcome EXCEPT ![w] = "none"]
  /\ lost'    = [lost EXCEPT ![w] = FALSE]

Start(w) ==
  /\ pc[w] = "down"
  /\ RecoverOrphans({v \in Worker : pc[v] = "dead"})
  /\ Goto(w, "loop")
  /\ UNCHANGED <<job, outcome, lost, senderVars>>

\* mutant: leases are only expired on the way to a claim
Sweep_BeforeClaims(w) ==
  /\ pc[w] = "loop"
  /\ \E s \in Send : Claimable(s)
  /\ ExpireLeases
  /\ Goto(w, IF Quarantined \cup Expired = {} THEN "loop" ELSE "reconcile")
  /\ UNCHANGED <<job, outcome, lost, senderVars>>

\* queue.expire_leases(), every 15 seconds whatever admission says
Sweep(w) ==
  /\ pc[w] = "loop"
  /\ ExpireLeases
  /\ Goto(w, IF Quarantined \cup Expired = {} THEN "loop" ELSE "reconcile")
  /\ UNCHANGED <<job, outcome, lost, senderVars>>

SweepRead(w) ==
  /\ pc[w] = "reconcile"
  /\ ReconcileResults(w)
  /\ Goto(w, IF ProvenAccepted = {} THEN "loop" ELSE "apply")
  /\ UNCHANGED <<job, outcome, lost, senderVars>>

SweepApply(w) ==
  /\ pc[w] = "apply"
  /\ ReconcileQueue(w)
  /\ Goto(w, "loop")
  /\ UNCHANGED <<job, outcome, lost, senderVars>>

\* A database was busy or failing.
SweepDeferred(w) ==
  /\ pc[w] \in {"reconcile", "apply"}
  /\ ReconcileDeferred(w)
  /\ Goto(w, "loop")
  /\ UNCHANGED <<job, outcome, lost, senderVars>>

Claim(w, s) ==
  /\ pc[w] = "loop"
  /\ ClaimNext(w, s)
  /\ Goto(w, "claimed")
  /\ job' = [job EXCEPT ![w] = s]
  /\ UNCHANGED <<outcome, lost, senderVars>>

ClaimIdle(w) ==
  /\ pc[w] = "loop"
  /\ ClaimNothing
  /\ UNCHANGED <<loopVars, senderVars>>

\* The scheduled job of the send was removed while the send was queued.
CancelRemoved(w) ==
  /\ pc[w] = "claimed"
  /\ job[w] \notin Manual
  /\ \/ FailClaim(w, job[w], "cancelled")
     \/ ~OwnsLive(w, job[w]) /\ UNCHANGED queueVars
  /\ Rejoin(w)
  /\ UNCHANGED senderVars

\* mutant: the claim is undone by hand
Abandon_Requeues(w) ==
  /\ pc[w] = "claimed"
  /\ Release({job[w]}, "queued")
  /\ Rejoin(w)
  /\ UNCHANGED <<retryAttempt, orderVars, resultVars, projection, confirmed, now, senderVars>>

\* The runtime store was busy before the sender ran: nobody renews the lease.
Abandon(w) ==
  /\ pc[w] = "claimed"
  /\ Rejoin(w)
  /\ UNCHANGED <<queueVars, senderVars>>

StartSender(w) ==
  /\ pc[w] = "claimed"
  /\ EnsureQueued(job[w])
  /\ Goto(w, "deliver")
  /\ sender' = [sender EXCEPT ![job[w]] = "pre"]
  /\ host'   = [host EXCEPT ![job[w]] = w]
  /\ UNCHANGED <<job, outcome, lost, post, accepts>>

SetupFails(w) ==
  /\ pc[w] = "claimed"
  /\ \/ UNCHANGED queueVars /\ outcome' = [outcome EXCEPT ![w] = "refused"]
     \/ /\ ~FireAndForget  \* no thread for the sender
        /\ EnsureQueued(job[w])
        /\ outcome' = [outcome EXCEPT ![w] = "unavailable"]
  /\ Goto(w, "settle")
  /\ UNCHANGED <<job, lost, senderVars>>

\* The renewer's thread, beside the sender's
Renew(w) ==
  /\ pc[w] \in {"deliver", "settle"}
  /\ ~lost[w]
  /\ RenewLease(w, job[w])
  /\ UNCHANGED <<loopVars, senderVars>>

\* The row is no longer ours, or renewing failed for too long.
LoseLease(w) ==
  /\ pc[w] \in {"deliver", "settle"}
  /\ ~lost[w]
  /\ lost' = [lost EXCEPT ![w] = TRUE]
  /\ UNCHANGED <<queueVars, pc, job, outcome, senderVars>>

Return(w, result_) ==
  /\ outcome' = [outcome EXCEPT ![w] = result_]
  /\ Goto(w, "settle")
  /\ UNCHANGED <<queueVars, job, lost, senderVars>>

HandshakeConfirmed(w) ==
  /\ pc[w] = "deliver"
  /\ sender[job[w]] \in Confirmed
  /\ Return(w, "ok")

HandshakeFailed(w) ==
  /\ pc[w] = "deliver"
  /\ sender[job[w]] \in Failure
  /\ Return(w, sender[job[w]])

\* The handshake event did not come in time; the thread goes on.
HandshakeTimeout(w) ==
  /\ ~FireAndForget
  /\ pc[w] = "deliver"
  /\ sender[job[w]] \in Unresolved
  /\ Return(w, "unknown")

\* mutant: an unknown outcome is tried again
Conclude_RetriesUnknown(w, s) ==
  \/ outcome[w] = "ok" /\ ~lost[w] /\ CompleteClaim(w, s)
  \/ outcome[w] # "ok" /\ RetryClaim(w, s, "retrying")

\* What _deliver_one writes for each outcome.  A claim that lapsed meanwhile
\* is not written to: its row belongs to the sweep.
Conclude(w, s) ==
  \/ outcome[w] = "ok" /\ ~lost[w] /\ CompleteClaim(w, s)
  \/ outcome[w] = "rate_limited" /\ RetryClaim(w, s, "rate_limited")
  \/ outcome[w] = "unavailable" /\ RetryClaim(w, s, "retrying")
  \/ /\ outcome[w] = "refused"
     /\ IF retryAttempt[s] + 1 >= MaxAttempt
        THEN FailClaim(w, s, "dead_lettered")
        ELSE RetryClaim(w, s, "retrying")
  \/ outcome[w] = "unknown" /\ FailClaim(w, s, "outcome_unknown")

Settle(w) ==
  /\ pc[w] = "settle"
  /\ Conclude(w, job[w])
  /\ Rejoin(w)
  /\ UNCHANGED senderVars

\* The lease was lost, or the queue database is busy: the row stays running.
SettleNothing(w) ==
  /\ pc[w] = "settle"
  /\ Rejoin(w)
  /\ UNCHANGED <<queueVars, senderVars>>

\* The history recovery thread closes the captures nobody holds any more.
RecoverCaptures(w) ==
  /\ ~FireAndForget
  /\ pc[w] \notin {"down", "dead"}
  /\ RecoverOrphans({v \in Worker : pc[v] = "dead"})
  /\ UNCHANGED <<loopVars, senderVars>>

\* It also reads the saved chats of answers that nobody watches.
RecoverHistory(w) ==
  /\ ~FireAndForget
  /\ pc[w] \notin {"down", "dead"}
  /\ \E s \in Send : RecoverResponse(s)
  /\ UNCHANGED <<loopVars, senderVars>>

Crash(w) ==
  /\ w \notin Immortal
  /\ pc[w] \notin {"down", "dead"}
  /\ pc'      = [pc EXCEPT ![w] = "dead"]
  /\ job'     = [job EXCEPT ![w] = None]
  /\ outcome' = [outcome EXCEPT ![w] = "none"]
  /\ lost'    = [lost EXCEPT ![w] = FALSE]
  /\ ReconcileDeferred(w)
  /\ sender' = [s \in Send |-> IF host[s] = w THEN "gone" ELSE sender[s]]
  /\ host'   = [s \in Send |-> IF host[s] = w THEN None ELSE host[s]]
  /\ UNCHANGED <<post, accepts>>

(***************************************************************************)
(* The sender of one prompt                                                *)
(***************************************************************************)

\* The sender moves on to state to; a sender that has ended has no host.
Step(s, from, to) ==
  /\ sender[s] = from
  /\ sender' = [sender EXCEPT ![s] = to]
  /\ host'   = [host EXCEPT ![s] = IF to \in Live THEN @ ELSE None]
  /\ UNCHANGED loopVars

\* The browser, the composer or a rate-limit notice: nothing was clicked.
PreFails(s) ==
  /\ \E failure \in {"unavailable", "rate_limited"} : Step(s, "pre", failure)
  /\ UNCHANGED <<queueVars, post, accepts>>

\* From dispatch_started.set() on, nothing tells whether the click posted.
Click(s) ==
  /\ Step(s, "pre", "clicked")
  /\ post' \in {[post EXCEPT ![s] = "inflight"], [post EXCEPT ![s] = "none"]}
  /\ UNCHANGED <<queueVars, accepts>>

\* mutant: the page's route alone counts as evidence
Acknowledged_ByRoute(s) ==
  /\ ~FireAndForget
  /\ post[s] \in {"inflight", "accepted"}
  /\ Step(s, "clicked", "acked") \/ Step(s, "clicked", "seen")
  /\ UNCHANGED <<queueVars, post, accepts>>

\* A 2xx answer to the POST or the page generating an answer; or, after a
\* 5xx, the assistant's text on the very tab.
Acknowledged(s) ==
  /\ ~FireAndForget
  /\ post[s] = "accepted"
  /\ Step(s, "clicked", "acked") \/ Step(s, "clicked", "seen")
  /\ UNCHANGED <<queueVars, post, accepts>>

\* HTTP 429 or another 4xx
Rejected(s) ==
  /\ ~FireAndForget
  /\ post[s] = "rejected"
  /\ Step(s, "clicked", "rate_limited") \/ Step(s, "clicked", "refused")
  /\ UNCHANGED <<queueVars, post, accepts>>

\* The prompt is still in the composer when the time for evidence is over.
Retained(s) ==
  /\ ~FireAndForget
  /\ post[s] = "none"
  /\ Step(s, "clicked", "refused")
  /\ UNCHANGED <<queueVars, post, accepts>>

\* Deadlines, transport errors, a failing click, a receipt that is not saved
Ambiguous(s) ==
  /\ Step(s, "clicked", "unknown")
  /\ UNCHANGED <<queueVars, post, accepts>>

SaveReceipt(s) ==
  /\ \/ Step(s, "acked", "receipted") /\ AcceptReceipt(host[s], s)
     \/ /\ Step(s, "seen", "receipted")
        /\ \E complete \in BOOLEAN : AcceptObserved(host[s], s, complete)
  /\ UNCHANGED <<post, accepts>>

\* The results database failed.  An accepted send is final all the same, but
\* what was only observed is no receipt.
ReceiptFails(s) ==
  /\ Step(s, "acked", "closing") \/ Step(s, "seen", "unknown")
  /\ UNCHANGED <<queueVars, post, accepts>>

\* confirmed.set(), after the route check that follows the receipt
Confirm(s) ==
  /\ Step(s, "receipted", IF result[s] = "completed" THEN "done" ELSE "capturing")
  /\ UNCHANGED <<queueVars, post, accepts>>

\* results.unavailable of a send without a receipt, which may fail as well
Close(s) ==
  /\ Step(s, "closing", "done")
  /\ Unavailable(s) \/ UNCHANGED queueVars
  /\ UNCHANGED <<post, accepts>>

CaptureActivity(s) ==
  /\ sender[s] = "capturing"
  /\ RenewCaptureDeadline(host[s], s)
  /\ UNCHANGED <<loopVars, senderVars>>

CaptureEnds(s) ==
  /\ \/ WriteComplete(host[s], s)
     \/ \E st \in {"interrupted", "unavailable"} : FinishCapture(host[s], s, st)
     \/ ~OwnsCapture(host[s], s) /\ UNCHANGED queueVars
  /\ Step(s, "capturing", "done")
  /\ UNCHANGED <<post, accepts>>

\* Send-only mode: the click returned and that is the receipt.
Submitted(s) ==
  /\ FireAndForget
  /\ MarkSubmitted(s)
  /\ Step(s, "clicked", "done")
  /\ UNCHANGED <<post, accepts>>

(***************************************************************************)
(* ChatGPT                                                                 *)
(***************************************************************************)
ServerAccepts(s) ==
  /\ post[s] = "inflight"
  /\ post'    = [post EXCEPT ![s] = "accepted"]
  /\ accepts' = [accepts EXCEPT ![s] = @ + 1]
  /\ UNCHANGED <<queueVars, loopVars, sender, host>>

ServerRejects(s) ==
  /\ post[s] = "inflight"
  /\ post' = [post EXCEPT ![s] = "rejected"]
  /\ UNCHANGED <<queueVars, loopVars, sender, host, accepts>>

(***************************************************************************)
(* The system                                                              *)
(***************************************************************************)

\* The stores' other users.  What orders the queue is left to QueueSpec.
Producer(s) == Enqueue(s, FALSE) \/ EnqueueAgain(s) \/ CancelPending(s) \/ StopResult(s)

Sweeping(w) == Sweep(w) \/ SweepRead(w) \/ SweepApply(w) \/ SweepDeferred(w)

\* The steps between a claim and the top of the loop
Delivering(w) ==
  \/ CancelRemoved(w) \/ Abandon(w) \/ StartSender(w) \/ SetupFails(w)
  \/ HandshakeConfirmed(w) \/ HandshakeFailed(w) \/ HandshakeTimeout(w)
  \/ Settle(w) \/ SettleNothing(w)

WorkerStep(w) ==
  \/ Start(w)
  \/ Sweeping(w)
  \/ ClaimIdle(w)
  \/ \E s \in Send : Claim(w, s)
  \/ Delivering(w)
  \/ Renew(w)
  \/ LoseLease(w)
  \/ RecoverCaptures(w)
  \/ RecoverHistory(w)
  \/ Crash(w)

Receipt(s) == IF FireAndForget THEN Submitted(s) ELSE SaveReceipt(s)

\* The steps a sender takes up to its answer to the worker, each under a timeout
Sending(s) ==
  \/ PreFails(s) \/ Click(s)
  \/ Acknowledged(s) \/ Rejected(s) \/ Retained(s) \/ Ambiguous(s)
  \/ Receipt(s) \/ ReceiptFails(s) \/ Confirm(s)

SenderStep(s) == Sending(s) \/ Close(s) \/ CaptureActivity(s) \/ CaptureEnds(s)

StoreStep == (\E s \in Send : Producer(s)) \/ ProjectionStep \/ Tick

Next ==
  \/ \E w \in Worker : WorkerStep(w)
  \/ \E s \in Send : SenderStep(s) \/ ServerAccepts(s) \/ ServerRejects(s)
  \/ StoreStep /\ UNCHANGED <<loopVars, senderVars>>

Spec == Init /\ [][Next]_vars

\* Time passes.  An incarnation that no crash hits is started (systemd restarts
\* the unit), leaves a delivery behind within its timeouts, and sweeps every 15
\* seconds; the databases are not busy for ever.  Nothing makes ChatGPT answer,
\* a claim be granted or a best-effort projection be applied.
Fairness ==
  /\ WF_vars(Tick /\ UNCHANGED <<loopVars, senderVars>>)
  /\ \A s \in Send : WF_vars(Sending(s))
  /\ \A w \in Immortal :
       /\ WF_vars(Start(w))
       /\ WF_vars(Delivering(w))
       /\ SF_vars(Sweep(w))
       /\ SF_vars(SweepRead(w))
       /\ SF_vars(SweepApply(w))

FairSpec == Spec /\ Fairness

(***************************************************************************)
(* Safety                                                                  *)
(***************************************************************************)

\* Nothing of the send is on its way to ChatGPT, and ChatGPT never took it.
Quiet(s) ==
  /\ sender[s] \notin Live
  /\ post[s] \in {"none", "rejected"}
  /\ accepts[s] = 0
  /\ ~acceptedAt[s]

\* A worker that is about to send a prompt is the only one: nobody's thread is
\* still sending it and no earlier POST of it was taken or may yet be, however
\* many claims, retries, timeouts and crashes of other incarnations came before.
SoleSender ==
  \A w \in Worker : pc[w] = "claimed" =>
    /\ Quiet(job[w])
    /\ \A v \in Worker \ {w} : job[v] # job[w]

\* What the queue offers for a claim, or has closed as cancelled or
\* dead-lettered, was never taken by ChatGPT and nothing of it is on its way:
\* the reason why a retry cannot duplicate a prompt, in both modes.
NothingOnTheWire ==
  \A s \in Send :
    status[s] \in Waiting \cup {"cancelled", "dead_lettered"} => Quiet(s)

\* "the single global limit on simultaneous fresh-chat deliveries and owned
\* captures" (docs/configuration.md)
SlotLimit == Cardinality(ActiveDelivery) <= MaxActive

\* What a status tells the user of the fate of the prompt
Reported(st) ==
  CASE st = "outcome_unknown" -> "unknown"
    [] st = "succeeded" -> "delivered"
    [] st \in {"cancelled", "dead_lettered"} -> "refused"
    [] OTHER -> "pending"

AtMostOnce == INSTANCE AtMostOnceSend WITH
  verdict <- [s \in Send |-> Reported(status[s])]

\* With evidence of acceptance (not in send-only mode) the queue implements the
\* promise: no prompt is taken twice, "succeeded" and the reconciled quarantine
\* are true of ChatGPT, and nothing is taken after it was reported as refused.
ImplementsAtMostOnce == AtMostOnce!Spec

\* Every step of workers, senders, crashes and ChatGPT is, for the stores, a
\* step that QueueSpec allows: what holds of QueueSpec holds of the system.
ImplementsQueue == QueueSpec

(***************************************************************************)
(* The inductive invariant behind the safety properties                    *)
(***************************************************************************)

\* What no worker holds and nobody has sent
Offered(s) ==
  status[s] \in {"absent", "cancelled", "dead_lettered"} \cup Waiting =>
    Quiet(s) /\ \A w \in Worker : job[w] # s

\* A sender that has not clicked, or ended with nothing posted, left no trace.
Untouched(s) ==
  sender[s] \in {"none", "pre"} \cup Retryable =>
    post[s] \in {"none", "rejected"} /\ ~acceptedAt[s]

\* With evidence of acceptance, every success rests on a prompt that was taken.
Evidence(s) ==
  \/ sender[s] \in {"acked", "seen", "receipted"} \cup Confirmed
  \/ acceptedAt[s]
  \/ status[s] = "succeeded"
  => FireAndForget \/ post[s] = "accepted"

\* A sender lives in the process of one incarnation, and in none once it ended.
Hosted(s) == sender[s] \in Live <=> host[s] \in Worker

\* What a worker that holds a job may still do about it
Holding(w) ==
  job[w] \in Send =>
    /\ \A v \in Worker \ {w} : job[v] # job[w]
    /\ pc[w] = "claimed" => Quiet(job[w])
    /\ pc[w] = "settle" /\ outcome[w] \in Retryable => Quiet(job[w])
    /\ pc[w] = "settle" /\ outcome[w] = "ok" => FireAndForget \/ post[job[w]] = "accepted"

\* Who has sent what, and what may be concluded from it: the queue, the workers
\* and the senders agree in every state.  SoleSender, NothingOnTheWire and
\* ImplementsAtMostOnce follow.
DeliveryInv ==
  /\ WorkerTypeOK
  /\ \A s \in Send :
       /\ accepts[s] = IF post[s] = "accepted" THEN 1 ELSE 0
       /\ Offered(s) /\ Untouched(s) /\ Evidence(s) /\ Hosted(s)
  /\ \A w \in Worker : Holding(w)

(***************************************************************************)
(* Liveness                                                                *)
(***************************************************************************)

\* No claim holds its slot for ever: not if its worker crashed, lost the lease
\* or could not write the outcome down.
EveryClaimEnds == \A s \in Send : status[s] = "running" ~> status[s] # "running"

\* "A local accepted_at receipt is evidence to mark delivery successful"
\* (reconcile_accepted_outcomes): a quarantined send whose receipt was saved
\* ends up as succeeded, unless the user stops the run.
ReceiptSettlesQuarantine ==
  \A s \in Send :
    status[s] = "outcome_unknown" /\ acceptedAt[s] ~>
      status[s] = "succeeded" \/ result[s] = "stopped"

\* The Chats view does not go on showing a quarantined prompt as queued, or as
\* merely unavailable, when the best-effort projection of the verdict was lost.
QuarantineIsShown ==
  \A s \in Send :
    status[s] = "outcome_unknown" ~> result[s] \notin {"queued", "unavailable"} \/ acceptedAt[s]

=============================================================================
