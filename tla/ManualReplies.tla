---------------------------- MODULE ManualReplies ----------------------------
(***************************************************************************)
(* Follow-ups in a chat that Prompta started: the durable reply rows       *)
(* (src/reply_contracts.py), the process that sends them                   *)
(* (src/manual_reply_dispatch.py, src/manual_reply_worker.py), Stop, the   *)
(* read-only recoveries of answers, and ChatGPT.                           *)
(*                                                                         *)
(* A reply may be sent only onto the exact turn of ChatGPT it answers.     *)
(* The turns of a chat are the original prompt (a member of Chat) and its  *)
(* replies (members of Reply).  One assistant turn may consist of several  *)
(* messages, each with an id; the id <<t, n>> is that of the n-th message  *)
(* that answers turn t.                                                    *)
(*                                                                         *)
(* Of the first delivery of a chat only what replies look at is kept;      *)
(* DeliveryQueue has the rest.  Clocks are left out: a lease or a timeout  *)
(* may lapse at any step.                                                  *)
(***************************************************************************)
EXTENDS Integers, Sequences, FiniteSets

CONSTANTS
  Chat,           \* send_ids of the chats
  Reply,          \* reply_ids
  ChatOf,         \* the chat of each reply
  None,           \* no reply
  MaxActive,      \* [concurrency] max_workers
  MaxOutstanding, \* unresolved follow-ups allowed in a chat, 20 in the code
  MaxDispatches,  \* _MAX_QUEUED_REPLY_DISPATCHES
  Overtaking,     \* a request may commit after one with a later created_at
  MaxUnits,       \* bound: messages of one assistant turn
  MaxCrashes      \* bound: how often the reply worker dies

Turn == Chat \cup Reply

ASSUME ReplyAssumption ==
  /\ IsFiniteSet(Chat) /\ IsFiniteSet(Reply)
  /\ Chat \cap Reply = {}
  /\ ChatOf \in [Reply -> Chat]
  /\ None \notin Reply
  /\ {MaxActive, MaxOutstanding, MaxDispatches, MaxUnits} \subseteq Nat \ {0}
  /\ MaxCrashes \in Nat
  /\ Overtaking \in BOOLEAN

VARIABLES
  \* manual_reply_turns; "accepted" stands for accepted and generating
  rstatus, byUser, parent, lease,
  stamp,      \* the place of a reply in the order of created_at, 0 without a row
  \* job_responses and the first delivery, as far as replies look at them
  original, delivery,
  prompt,     \* the follow-ups that the queued message contains
  carried,    \* those that the claimed message contained
  messageId,  \* the stored id that answers each turn: its number, 0 for none
  \* the reply worker
  pump,       \* the reply next_queued_intent returned and submit has not seen
  stage,      \* where the thread of a reply is; "none" is not in _active
  crashes,
  \* ChatGPT
  thread,     \* the turns of each conversation
  post,       \* the request of a clicked reply
  units,      \* how many messages answer a turn so far
  ended       \* the generation of an answer is over

rowVars   == <<rstatus, byUser, parent, lease, stamp>>
chatVars  == <<original, delivery, prompt, carried>>
workVars  == <<pump, stage, crashes>>
gptVars   == <<thread, post, units, ended>>
vars == <<rowVars, chatVars, messageId, workVars, gptVars>>

(***************************************************************************)
(* Statuses                                                                *)
(***************************************************************************)
Unclaimed   == {"queued", "prepared", "preflight_failed"}
InDispatch  == {"dispatching", "accepted"}
Settled     == {"completed", "interrupted", "stopped"}
ReplyStatus == Unclaimed \cup InDispatch \cup Settled
                 \cup {"absent", "outcome_unknown", "cancelled", "merged"}
Unresolved  == Unclaimed \cup InDispatch \cup {"outcome_unknown"}

\* "held" and "lapsed" have an owner, "dead" one whose process is gone;
\* "detached" and "spent" have none, before and after the deadline.
Lease == {"none", "held", "lapsed", "dead", "detached", "spent"}
Owned == {"held", "lapsed"}
Ownerless == {"none", "detached", "spent"}

Stage == {"none", "run", "ready", "claimed", "clicked", "watching", "answered", "closing"}

NoId == <<>>

ReplyTypeOK ==
  /\ rstatus \in [Reply -> ReplyStatus]
  /\ byUser  \in [Reply -> BOOLEAN]
  /\ parent  \in [Reply -> {NoId} \cup (Turn \X (1 .. MaxUnits))]
  /\ lease   \in [Reply -> Lease]
  /\ stamp   \in [Reply -> 0 .. Cardinality(Reply)]
  /\ original \in [Chat -> {"queued", "active", "outcome_unknown"} \cup Settled]
  /\ delivery \in [Chat -> {"waiting", "running", "over"}]
  /\ prompt  \in [Chat -> SUBSET Reply]
  /\ carried \in [Chat -> SUBSET Reply]
  /\ messageId \in [Turn -> 0 .. MaxUnits]
  /\ pump    \in Reply \cup {None}
  /\ stage   \in [Reply -> Stage]
  /\ crashes \in 0 .. MaxCrashes
  /\ thread  \in [Chat -> Seq(Turn)]
  /\ post    \in [Reply -> {"none", "inflight", "done"}]
  /\ units   \in [Turn -> 0 .. MaxUnits]
  /\ ended   \in [Turn -> BOOLEAN]

Init ==
  /\ rstatus = [r \in Reply |-> "absent"]
  /\ byUser  = [r \in Reply |-> FALSE]
  /\ parent  = [r \in Reply |-> NoId]
  /\ lease   = [r \in Reply |-> "none"]
  /\ stamp   = [r \in Reply |-> 0]
  /\ original = [c \in Chat |-> "queued"]
  /\ delivery = [c \in Chat |-> "waiting"]
  /\ prompt  = [c \in Chat |-> {}]
  /\ carried = [c \in Chat |-> {}]
  /\ messageId = [t \in Turn |-> 0]
  /\ pump    = None
  /\ stage   = [r \in Reply |-> "none"]
  /\ crashes = 0
  /\ thread  = [c \in Chat |-> <<>>]
  /\ post    = [r \in Reply |-> "none"]
  /\ units   = [t \in Turn |-> 0]
  /\ ended   = [t \in Turn |-> FALSE]

(***************************************************************************)
(* The saved branch of a chat                                              *)
(***************************************************************************)
Rows(c) == {r \in Reply : ChatOf[r] = c /\ rstatus[r] # "absent"}

\* mutant: a send that is not known to have failed is not waited for
Branch_SkipsUnknown(c) ==
  {r \in Rows(c) : rstatus[r] \notin {"cancelled", "merged", "outcome_unknown"}}

\* The rows that are turns of the branch.
Branch(c) == {r \in Rows(c) : rstatus[r] \notin {"cancelled", "merged"}}

Earlier(R, r) == {q \in R : stamp[q] < stamp[r]}

\* The last turn of a set of rows; the original prompt comes before them all.
LastOf(R, c) ==
  IF R = {} THEN c ELSE CHOOSE q \in R : \A p \in R : stamp[p] <= stamp[q]

Identity(t) == IF messageId[t] = 0 THEN NoId ELSE <<t, messageId[t]>>

\* A turn that is over, whose answer is known, and that answered the turn
\* before it.
Linked(q) ==
  /\ rstatus[q] \in Settled
  /\ messageId[q] # 0
  /\ parent[q] = Identity(LastOf(Earlier(Branch(ChatOf[q]), q), ChatOf[q]))

\* The original and the rows R, an initial part of the branch, are verified.
Verified(R, c) ==
  /\ original[c] \in Settled
  /\ messageId[c] # 0
  /\ \A q \in R : Linked(q)

\* _ready_queued_intent: the user asked for it and its predecessors are verified
Ready(r) ==
  LET c == ChatOf[r]
      before == Earlier(Branch(c), r)
  IN  /\ byUser[r]
      /\ Verified(before, c)
      /\ \/ rstatus[r] = "queued"
         \/ rstatus[r] = "prepared" /\ parent[r] = Identity(LastOf(before, c))

(***************************************************************************)
(* Slots, shared with the first deliveries                                 *)
(***************************************************************************)
LiveReply(r) == rstatus[r] \in InDispatch /\ lease[r] \in {"held", "dead", "detached"}

Occupied ==
  {c \in Chat : \/ delivery[c] = "running"
                \/ original[c] = "active"
                \/ \E r \in Reply : ChatOf[r] = c /\ LiveReply(r)}

SlotFree == Cardinality(Occupied) < MaxActive

Tip(c) == thread[c][Len(thread[c])]
Taken(r) == \E i \in DOMAIN thread[ChatOf[r]] : thread[ChatOf[r]][i] = r
TakenAfterParent(r) ==
  LET turns == thread[ChatOf[r]]
  IN  \E i \in 2 .. Len(turns) : turns[i] = r /\ turns[i - 1] = parent[r][1]

(***************************************************************************)
(* The user                                                                *)
(***************************************************************************)

\* The place that created_at gives a new row.  It is read before BEGIN IMMEDIATE.
Place(n) ==
  /\ n \in 1 .. Cardinality(Reply)
  /\ \A q \in Reply : stamp[q] # n
  /\ Overtaking \/ \A q \in Reply : stamp[q] < n
  /\ \A m \in 1 .. n - 1 : Overtaking \/ \E q \in Reply : stamp[q] = m

Insert(r, n, st, explicit, id) ==
  /\ rstatus[r] = "absent"
  /\ Place(n)
  /\ stamp'   = [stamp EXCEPT ![r] = n]
  /\ rstatus' = [rstatus EXCEPT ![r] = st]
  /\ byUser'  = [byUser EXCEPT ![r] = explicit]
  /\ parent'  = [parent EXCEPT ![r] = id]
  /\ UNCHANGED <<lease, messageId, workVars, gptVars>>

\* prepare: a reply to the verified tip of the branch, not to be sent yet
Prepare(r, n) ==
  LET c == ChatOf[r] IN
  /\ Verified(Branch(c), c)
  /\ Insert(r, n, "prepared", FALSE, Identity(LastOf(Branch(c), c)))
  /\ UNCHANGED chatVars

\* The second transaction of queue_explicit_send
OptIn(r) ==
  /\ rstatus[r] = "prepared"
  /\ ~byUser[r]
  /\ byUser' = [byUser EXCEPT ![r] = TRUE]
  /\ UNCHANGED <<rstatus, parent, lease, stamp, chatVars, messageId, workVars, gptVars>>

\* retry_preflight, after another click
RetryPreflight(r) ==
  /\ rstatus[r] = "preflight_failed"
  /\ rstatus' = [rstatus EXCEPT ![r] = "prepared"]
  /\ UNCHANGED <<byUser, parent, lease, stamp, chatVars, messageId, workVars, gptVars>>

BelowLimit(c) ==
  Cardinality({r \in Rows(c) : rstatus[r] \in Unresolved}) < MaxOutstanding

\* mutant: the delivery need not be unclaimed
MergeFollowup_Claimed(r, n) ==
  LET c == ChatOf[r] IN
  /\ original[c] = "queued"
  /\ \A q \in Rows(c) : rstatus[q] = "merged"
  /\ BelowLimit(c)
  /\ Insert(r, n, "merged", TRUE, NoId)
  /\ prompt' = [prompt EXCEPT ![c] = @ \cup {r}]
  /\ UNCHANGED <<original, delivery, carried>>

\* queue_followup while the first delivery is unclaimed and nothing else waits:
\* the text becomes part of the queued message.
MergeFollowup(r, n) ==
  LET c == ChatOf[r] IN
  /\ original[c] = "queued"
  /\ delivery[c] = "waiting"
  /\ \A q \in Rows(c) : rstatus[q] = "merged"
  /\ BelowLimit(c)
  /\ Insert(r, n, "merged", TRUE, NoId)
  /\ prompt' = [prompt EXCEPT ![c] = @ \cup {r}]
  /\ UNCHANGED <<original, delivery, carried>>

\* queue_followup otherwise, or when the joint text would be too long
QueueFollowup(r, n) ==
  /\ BelowLimit(ChatOf[r])
  /\ Insert(r, n, "queued", TRUE, NoId)
  /\ UNCHANGED chatVars

\* Stop, in the transaction that closes the turns.  A first delivery that is
\* starting refuses it; one that waits was cancelled before (StopJob has the
\* steps in between).
Stop(c) ==
  /\ ~(delivery[c] = "running" /\ original[c] = "queued")
  /\ delivery' = [delivery EXCEPT ![c] = "over"]
  /\ original' = [original EXCEPT ![c] =
       IF @ \in {"queued", "active", "interrupted"} THEN "stopped" ELSE @]
  /\ rstatus' = [r \in Reply |->
       CASE ChatOf[r] = c /\ rstatus[r] \in {"queued", "prepared"} -> "cancelled"
         [] ChatOf[r] = c /\ rstatus[r] \in InDispatch \cup {"interrupted", "outcome_unknown"} -> "stopped"
         [] OTHER -> rstatus[r]]
  /\ lease' = [r \in Reply |-> IF rstatus'[r] # rstatus[r] THEN "none" ELSE lease[r]]
  /\ UNCHANGED <<byUser, parent, stamp, prompt, carried, messageId, workVars, gptVars>>

(***************************************************************************)
(* The pump of the reply worker                                            *)
(***************************************************************************)
Active == {r \in Reply : stage[r] # "none"}

\* mutant: a prepared intent is not looked at again
Pick_QueuedOnly(r) ==
  /\ pump = None
  /\ Cardinality(Active) < MaxDispatches
  /\ Ready(r) /\ rstatus[r] = "queued"
  /\ Cardinality({q \in Reply : Ready(q) /\ stamp[q] < stamp[r]}) < MaxDispatches
  /\ pump' = r
  /\ rstatus' = [rstatus EXCEPT ![r] = "prepared"]
  /\ parent'  = [parent EXCEPT ![r] =
       Identity(LastOf(Earlier(Branch(ChatOf[r]), r), ChatOf[r]))]
  /\ UNCHANGED <<byUser, lease, stamp, chatVars, messageId, stage, crashes, gptVars>>

\* next_queued_intent: the oldest reply that is ready, or the next one in the
\* same scan, is bound to its parent.
Pick(r) ==
  /\ pump = None
  /\ Cardinality(Active) < MaxDispatches
  /\ Ready(r)
  /\ Cardinality({q \in Reply : Ready(q) /\ stamp[q] < stamp[r]}) < MaxDispatches
  /\ pump' = r
  /\ rstatus' = [rstatus EXCEPT ![r] = "prepared"]
  /\ parent'  = [parent EXCEPT ![r] =
       Identity(LastOf(Earlier(Branch(ChatOf[r]), r), ChatOf[r]))]
  /\ UNCHANGED <<byUser, lease, stamp, chatVars, messageId, stage, crashes, gptVars>>

\* submit: a thread for a reply that is prepared and has none.  One whose
\* preflight has failed since the scan is rearmed here.
Submit ==
  /\ pump # None
  /\ pump' = None
  /\ IF stage[pump] = "none" /\ rstatus[pump] \in {"prepared", "preflight_failed"}
     THEN /\ stage'   = [stage EXCEPT ![pump] = "run"]
          /\ rstatus' = [rstatus EXCEPT ![pump] = "prepared"]
     ELSE UNCHANGED <<stage, rstatus>>
  /\ UNCHANGED <<byUser, parent, lease, stamp, chatVars, messageId, crashes, gptVars>>

(***************************************************************************)
(* The thread that sends a reply                                           *)
(***************************************************************************)
ToStage(r, from, to) == stage[r] \in from /\ stage' = [stage EXCEPT ![r] = to]

\* finish(uncertain=True): a claimed reply that the thread still owns
Finish(r) ==
  IF lease[r] \in Owned /\ rstatus[r] \in InDispatch
  THEN /\ rstatus' = [rstatus EXCEPT ![r] =
            IF @ = "dispatching" THEN "outcome_unknown" ELSE "interrupted"]
       /\ lease' = [lease EXCEPT ![r] = "none"]
  ELSE UNCHANGED <<rstatus, lease>>

\* Paused for a deployment, cooling down, another chat was read just now, or the
\* page answered that reads are limited: the row stays prepared.
Defer(r) ==
  /\ ToStage(r, {"run", "ready"}, "closing")
  /\ UNCHANGED <<rowVars, chatVars, messageId, pump, crashes, gptVars>>

\* The preflight fails, at whatever stage of it.
PreflightFails(r) ==
  /\ ToStage(r, {"run", "ready"}, "closing")
  /\ rstatus' = [rstatus EXCEPT ![r] = IF @ = "prepared" THEN "preflight_failed" ELSE @]
  /\ UNCHANGED <<byUser, parent, lease, stamp, chatVars, messageId, pump, crashes, gptVars>>

\* The exact tab is open, its last turn is the saved parent, nothing is being
\* generated and the text is in the composer.
PreflightPasses(r) ==
  LET c == ChatOf[r] IN
  /\ ToStage(r, {"run"}, "ready")
  /\ thread[c] # <<>>
  /\ parent[r][1] = Tip(c)
  /\ parent[r][2] <= units[Tip(c)]
  /\ ended[Tip(c)]
  /\ UNCHANGED <<rowVars, chatVars, messageId, pump, crashes, gptVars>>

\* mutant: only running deliveries are counted
ClaimReply_RunningOnly(r) ==
  /\ Cardinality({c \in Chat : delivery[c] = "running"}) < MaxActive
  /\ rstatus[r] = "prepared"
  /\ ToStage(r, {"ready"}, "claimed")
  /\ rstatus' = [rstatus EXCEPT ![r] = "dispatching"]
  /\ lease'   = [lease EXCEPT ![r] = "held"]
  /\ UNCHANGED <<byUser, parent, stamp, chatVars, messageId, pump, crashes, gptVars>>

\* claim_reply: slots are counted and the row is claimed under the writer lock
\* of the queue.
ClaimReply(r) ==
  /\ SlotFree
  /\ rstatus[r] = "prepared"
  /\ ToStage(r, {"ready"}, "claimed")
  /\ rstatus' = [rstatus EXCEPT ![r] = "dispatching"]
  /\ lease'   = [lease EXCEPT ![r] = "held"]
  /\ UNCHANGED <<byUser, parent, stamp, chatVars, messageId, pump, crashes, gptVars>>

ClaimRefused(r) ==
  /\ ~SlotFree \/ rstatus[r] # "prepared"
  /\ ToStage(r, {"ready"}, "closing")
  /\ UNCHANGED <<rowVars, chatVars, messageId, pump, crashes, gptVars>>

\* click_send returns; its request is under way, or nothing was posted.
Click(r) ==
  /\ ToStage(r, {"claimed"}, "clicked")
  /\ post' = [post EXCEPT ![r] = "inflight"]
  /\ UNCHANGED <<rowVars, chatVars, messageId, pump, crashes, thread, units, ended>>

\* click_send raises, before or after the click.
ClickFails(r) ==
  /\ ToStage(r, {"claimed"}, "closing")
  /\ post' \in {post, [post EXCEPT ![r] = "inflight"]}
  /\ Finish(r)
  /\ UNCHANGED <<byUser, parent, stamp, chatVars, messageId, pump, crashes, thread, units, ended>>

\* mutant: a reply whose send was not confirmed may be prepared again
Unconfirmed_Rearmed(r) ==
  /\ ToStage(r, {"clicked"}, "closing")
  /\ rstatus' = [rstatus EXCEPT ![r] = IF @ = "dispatching" THEN "prepared" ELSE @]
  /\ lease' = [lease EXCEPT ![r] = "none"]
  /\ UNCHANGED <<byUser, parent, stamp, chatVars, messageId, pump, crashes, gptVars>>

\* No answer to the request and no new user turn on the page in time
Unconfirmed(r) ==
  /\ ToStage(r, {"clicked"}, "closing")
  /\ Finish(r)
  /\ UNCHANGED <<byUser, parent, stamp, chatVars, messageId, pump, crashes, gptVars>>

\* The POST response or the exact new turn on the page: acknowledge_submission
Confirmed(r) ==
  /\ Taken(r)
  /\ IF rstatus[r] = "dispatching" /\ lease[r] = "held"
     THEN /\ ToStage(r, {"clicked"}, "watching")
          /\ rstatus' = [rstatus EXCEPT ![r] = "accepted"]
          /\ UNCHANGED lease
     ELSE ToStage(r, {"clicked"}, "closing") /\ Finish(r)
  /\ UNCHANGED <<byUser, parent, stamp, chatVars, messageId, pump, crashes, gptVars>>

\* accepted: the answer is complete, its id is saved first
SaveAnswerId(r) ==
  /\ ended[r] /\ units[r] > 0
  /\ IF rstatus[r] = "accepted" /\ messageId[r] = 0 /\ lease[r] = "held"
     THEN /\ ToStage(r, {"watching"}, "answered")
          /\ messageId' = [messageId EXCEPT ![r] = units[r]]
          /\ UNCHANGED <<rstatus, lease>>
     ELSE ToStage(r, {"watching"}, "closing") /\ Finish(r) /\ UNCHANGED messageId
  /\ UNCHANGED <<byUser, parent, stamp, chatVars, pump, crashes, gptVars>>

\* observe: the text is saved and the reply is completed
SaveAnswer(r) ==
  /\ ToStage(r, {"answered"}, "closing")
  /\ IF rstatus[r] = "accepted" /\ lease[r] = "held"
     THEN /\ rstatus' = [rstatus EXCEPT ![r] = "completed"]
          /\ lease'   = [lease EXCEPT ![r] = "none"]
     ELSE Finish(r)
  /\ UNCHANGED <<byUser, parent, stamp, chatVars, messageId, pump, crashes, gptVars>>

\* The route was lost, the stream broke, Stop was noticed, or no answer came.
GiveUpAnswer(r) ==
  /\ ToStage(r, {"watching", "answered"}, "closing")
  /\ Finish(r)
  /\ UNCHANGED <<byUser, parent, stamp, chatVars, messageId, pump, crashes, gptVars>>

\* The tab is closed and the thread leaves _active.
Leave(r) ==
  /\ ToStage(r, {"closing"}, "none")
  /\ UNCHANGED <<rowVars, chatVars, messageId, pump, crashes, gptVars>>

\* An exception after the claim that finish does not follow, or not with success:
\* the row stays claimed until its lease lapses.
Abandon(r) ==
  /\ ToStage(r, {"claimed", "clicked", "watching", "answered"}, "closing")
  /\ UNCHANGED <<rowVars, chatVars, messageId, pump, crashes, gptVars>>

\* The process dies and systemd starts it again.
Crash ==
  /\ crashes < MaxCrashes
  /\ crashes' = crashes + 1
  /\ pump'  = None
  /\ stage' = [r \in Reply |-> "none"]
  /\ lease' = [r \in Reply |-> IF lease[r] = "held" THEN "dead" ELSE lease[r]]
  /\ UNCHANGED <<rstatus, byUser, parent, stamp, chatVars, messageId, gptVars>>

(***************************************************************************)
(* Leases and recoveries                                                   *)
(***************************************************************************)
LeaseLapses(r) ==
  /\ lease[r] \in {"held", "dead", "detached"}
  /\ lease' = [lease EXCEPT ![r] = IF @ = "detached" THEN "spent" ELSE "lapsed"]
  /\ UNCHANGED <<rstatus, byUser, parent, stamp, chatVars, messageId, workVars, gptVars>>

\* mutant: a lease that lapsed under a live process is left alone
Orphaned_DeadOnly(r) == rstatus[r] \in InDispatch /\ lease[r] = "dead"

Orphaned(r) == rstatus[r] \in InDispatch /\ lease[r] \in {"lapsed", "dead", "spent"}

\* recover_orphans
RecoverOrphans ==
  /\ \E r \in Reply : Orphaned(r)
  /\ rstatus' = [r \in Reply |->
       IF ~Orphaned(r) THEN rstatus[r]
       ELSE IF rstatus[r] = "dispatching" THEN "outcome_unknown" ELSE "interrupted"]
  /\ lease' = [r \in Reply |-> IF Orphaned(r) THEN "none" ELSE lease[r]]
  /\ UNCHANGED <<byUser, parent, stamp, chatVars, messageId, workVars, gptVars>>

\* prepare_deployment_recovery, after the deployment stopped the worker
HandOver(r) ==
  /\ rstatus[r] = "accepted" /\ lease[r] = "dead"
  /\ lease' = [lease EXCEPT ![r] = "detached"]
  /\ UNCHANGED <<rstatus, byUser, parent, stamp, chatVars, messageId, workVars, gptVars>>

\* What of an answer a page shows: the final message, or no single id for it.
ShownId(t) == {messageId[t], units[t]}

\* recover_historical_reply: a read of the saved chat shows the reply right after
\* its parent, which is the original's answer or that of another verified reply.
RecoverReply(r) ==
  LET c == ChatOf[r] IN
  /\ rstatus[r] \in {"outcome_unknown", "interrupted", "accepted"}
  /\ lease[r] \in Ownerless
  /\ original[c] \in Settled
  /\ \/ parent[r] = Identity(c)
     \/ \E q \in Rows(c) \ {r} : rstatus[q] \in Settled /\ parent[r] = Identity(q)
  /\ TakenAfterParent(r)
  /\ \E id \in ShownId(r) :
       /\ id = messageId[r] \/ ended[r]
       /\ messageId' = [messageId EXCEPT ![r] = id]
  /\ \/ /\ ended[r] /\ units[r] > 0
        /\ rstatus' = [rstatus EXCEPT ![r] = "completed"]
        /\ lease' = [lease EXCEPT ![r] = "none"]
     \/ /\ rstatus[r] = "accepted"   \* the answer has grown
        /\ lease' = [lease EXCEPT ![r] = "detached"]
        /\ UNCHANGED rstatus
     \/ UNCHANGED <<rstatus, lease>>
  /\ UNCHANGED <<byUser, parent, stamp, chatVars, workVars, gptVars>>

\* The rows that _recover_exact_parent takes for turns: all that are not queued.
Listed(c) == {q \in Rows(c) : rstatus[q] # "queued"}

\* recover_original_parent: nothing but queued follow-ups, and one turn with one
\* answer on the page.  An original whose outcome is unknown has no conversation
\* to read.
RecoverOriginalParent(c) ==
  /\ Listed(c) = {}
  /\ original[c] \in Settled
  /\ messageId[c] = 0
  /\ thread[c] = <<c>> /\ units[c] = 1
  /\ messageId' = [messageId EXCEPT ![c] = 1]
  /\ UNCHANGED <<rowVars, chatVars, workVars, gptVars>>

\* recover_reply_parent: the last listed reply has no answer id, but is on the
\* page right after its saved parent, and the page has as many turns.
RecoverReplyParent(r) ==
  LET c == ChatOf[r] IN
  /\ r = LastOf(Listed(c), c)
  /\ original[c] \in Settled
  /\ rstatus[r] \in Settled \cup {"outcome_unknown"}
  /\ messageId[r] = 0
  /\ lease[r] \in Ownerless
  /\ parent[r] # NoId
  /\ parent[r] = Identity(LastOf(Listed(c) \ {r}, c))
  /\ thread[c] # <<>> /\ Tip(c) = r /\ units[r] > 0
  /\ TakenAfterParent(r)
  /\ Len(thread[c]) = 1 + Cardinality(Listed(c))
  /\ messageId' = [messageId EXCEPT ![r] = units[r]]
  /\ rstatus' = [rstatus EXCEPT ![r] = IF @ = "outcome_unknown" THEN "interrupted" ELSE @]
  /\ UNCHANGED <<byUser, parent, lease, stamp, chatVars, workVars, gptVars>>

(***************************************************************************)
(* The original turn, as DeliveryQueue and DeliveryWorker have it          *)
(***************************************************************************)
ClaimDelivery(c) ==
  /\ delivery[c] = "waiting"
  /\ SlotFree
  /\ delivery' = [delivery EXCEPT ![c] = "running"]
  /\ carried'  = [carried EXCEPT ![c] = prompt[c]]
  /\ UNCHANGED <<rowVars, original, prompt, messageId, workVars, gptVars>>

\* ChatGPT took the prompt and the sender saved its receipt.
DeliverySucceeds(c) ==
  /\ delivery[c] = "running"
  /\ delivery' = [delivery EXCEPT ![c] = "over"]
  /\ original' = [original EXCEPT ![c] = "active"]
  /\ thread'   = [thread EXCEPT ![c] = <<c>>]
  /\ UNCHANGED <<rowVars, prompt, carried, messageId, workVars, post, units, ended>>

\* The send is quarantined; the prompt may have been taken or not.
DeliveryUnknown(c) ==
  /\ delivery[c] = "running"
  /\ delivery' = [delivery EXCEPT ![c] = "over"]
  /\ original' = [original EXCEPT ![c] = "outcome_unknown"]
  /\ thread'   \in {thread, [thread EXCEPT ![c] = <<c>>]}
  /\ UNCHANGED <<rowVars, prompt, carried, messageId, workVars, post, units, ended>>

\* write: the capture saves what the page shows, ids included.
CaptureWrites(c) ==
  /\ original[c] = "active"
  /\ units[c] > 0
  /\ \E id \in ShownId(c) : messageId' = [messageId EXCEPT ![c] = id]
  /\ \/ ended[c] /\ original' = [original EXCEPT ![c] = "completed"]
     \/ UNCHANGED original
  /\ UNCHANGED <<rowVars, delivery, prompt, carried, workVars, gptVars>>

CaptureStops(c) ==
  /\ original[c] = "active"
  /\ original' = [original EXCEPT ![c] = "interrupted"]
  /\ UNCHANGED <<rowVars, delivery, prompt, carried, messageId, workVars, gptVars>>

\* recover_historical_response
RecoverOriginal(c) ==
  /\ original[c] = "interrupted"
  /\ units[c] > 0
  /\ \E id \in ShownId(c) : messageId' = [messageId EXCEPT ![c] = id]
  /\ \/ ended[c] /\ original' = [original EXCEPT ![c] = "completed"]
     \/ UNCHANGED original
  /\ UNCHANGED <<rowVars, delivery, prompt, carried, workVars, gptVars>>

(***************************************************************************)
(* ChatGPT                                                                 *)
(***************************************************************************)

\* A request arrives and becomes the next turn of its conversation.
Lands(r) ==
  /\ post[r] = "inflight"
  /\ post' = [post EXCEPT ![r] = "done"]
  /\ thread' = [thread EXCEPT ![ChatOf[r]] = Append(@, r)]
  /\ UNCHANGED <<rowVars, chatVars, messageId, workVars, units, ended>>

\* It is lost or refused.
Lost(r) ==
  /\ post[r] = "inflight"
  /\ post' = [post EXCEPT ![r] = "done"]
  /\ UNCHANGED <<rowVars, chatVars, messageId, workVars, thread, units, ended>>

NextMessage(c) ==
  /\ thread[c] # <<>>
  /\ ~ended[Tip(c)]
  /\ units[Tip(c)] < MaxUnits
  /\ units' = [units EXCEPT ![Tip(c)] = @ + 1]
  /\ UNCHANGED <<rowVars, chatVars, messageId, workVars, thread, post, ended>>

\* The answer is complete, was stopped, or broke off.
AnswerEnds(c) ==
  /\ thread[c] # <<>>
  /\ ~ended[Tip(c)]
  /\ ended' = [ended EXCEPT ![Tip(c)] = TRUE]
  /\ UNCHANGED <<rowVars, chatVars, messageId, workVars, thread, post, units>>

-----------------------------------------------------------------------------
User(r, n) == Prepare(r, n) \/ MergeFollowup(r, n) \/ QueueFollowup(r, n)

Preflight(r) == Defer(r) \/ PreflightPasses(r) \/ PreflightFails(r)

Dispatch(r) ==
  \/ ClaimReply(r) \/ ClaimRefused(r) \/ Click(r) \/ ClickFails(r)
  \/ Confirmed(r) \/ Unconfirmed(r) \/ Abandon(r)

Watch(r) == SaveAnswerId(r) \/ SaveAnswer(r) \/ GiveUpAnswer(r) \/ Leave(r)

OriginalTurn(c) ==
  \/ ClaimDelivery(c) \/ DeliverySucceeds(c) \/ DeliveryUnknown(c)
  \/ CaptureWrites(c) \/ CaptureStops(c) \/ RecoverOriginal(c)

Next ==
  \/ \E r \in Reply, n \in 1 .. Cardinality(Reply) : User(r, n)
  \/ \E r \in Reply :
       \/ OptIn(r) \/ RetryPreflight(r) \/ Pick(r)
       \/ Preflight(r) \/ Dispatch(r) \/ Watch(r)
       \/ LeaseLapses(r) \/ HandOver(r) \/ RecoverReply(r) \/ RecoverReplyParent(r)
       \/ Lands(r) \/ Lost(r)
  \/ Submit \/ Crash \/ RecoverOrphans
  \/ \E c \in Chat :
       \/ Stop(c) \/ OriginalTurn(c) \/ RecoverOriginalParent(c)
       \/ NextMessage(c) \/ AnswerEnds(c)

Spec == Init /\ [][Next]_vars

(***************************************************************************)
(* Fairness.  The worker scans every second and every wait of its threads  *)
(* has a deadline; a read of a chat is not put off for ever; captures end; *)
(* the UI sweeps orphans every five seconds.  Nothing is assumed of the    *)
(* user, of ChatGPT's answers, of confirmations and of the recoveries.     *)
(***************************************************************************)
ThreadFairness(r) ==
  /\ SF_vars(Pick(r))
  /\ SF_vars(PreflightPasses(r) \/ PreflightFails(r))
  /\ SF_vars(ClaimReply(r))
  /\ WF_vars(ClaimReply(r) \/ ClaimRefused(r))
  /\ WF_vars(Click(r) \/ ClickFails(r))
  /\ WF_vars(Unconfirmed(r))
  /\ WF_vars(GiveUpAnswer(r))
  /\ WF_vars(Leave(r))
  /\ WF_vars(LeaseLapses(r))

OriginalFairness(c) ==
  /\ WF_vars(DeliverySucceeds(c) \/ DeliveryUnknown(c))
  /\ WF_vars(CaptureStops(c))

Fairness ==
  /\ \A r \in Reply : ThreadFairness(r)
  /\ \A c \in Chat : OriginalFairness(c)
  /\ WF_vars(Submit)
  /\ SF_vars(RecoverOrphans)

FairSpec == Spec /\ Fairness

(***************************************************************************)
(* Properties                                                              *)
(***************************************************************************)

\* The conversation is the saved branch: every reply follows exactly the turn it
\* was bound to, and replies are taken in the order the user wrote them, whatever
\* is unclear, late or repeated (the module comment of reply_contracts.py, and
\* test_early_followups_wait_for_verified_parent_and_dispatch_in_order).
TurnsInOrder ==
  \A c \in Chat : \A i \in 2 .. Len(thread[c]) :
    LET r == thread[c][i] IN
    /\ r \in Reply
    /\ parent[r] # NoId /\ parent[r][1] = thread[c][i - 1]
    /\ \A j \in 2 .. i - 1 : stamp[thread[c][j]] < stamp[r]

\* A follow-up reported as merged is in the prompt that was sent: no merge into a
\* message that a worker has taken, and none is left out (queue_followup).
MergedIsSent ==
  \A c \in Chat : thread[c] # <<>> =>
    carried[c] = {r \in Rows(c) : rstatus[r] = "merged"}

\* A claim of a reply never takes a slot that first deliveries, captures and other
\* replies do not leave free (claim_reply).
ClaimsWithinLimit ==
  [][\A r \in Reply : rstatus[r] # "dispatching" /\ rstatus'[r] = "dispatching" =>
        Cardinality(Occupied') <= MaxActive]_vars

\* The promise for each reply, over crashes, lapsed leases, Stop and recoveries.
Reported(r) ==
  CASE rstatus[r] \in {"absent"} \cup Unclaimed -> "waiting"
    [] rstatus[r] \in {"dispatching", "outcome_unknown"} -> "claimed"
    [] rstatus[r] \in {"accepted", "completed", "interrupted"} -> "sent"
    [] rstatus[r] = "stopped" -> "stopped"
    [] rstatus[r] \in {"cancelled", "merged"} -> "withdrawn"

Takes(r) == Cardinality({i \in DOMAIN thread[ChatOf[r]] : thread[ChatOf[r]][i] = r})

Promise == INSTANCE ReplyPromise WITH
  takes   <- [r \in Reply |-> Takes(r)],
  verdict <- [r \in Reply |-> Reported(r)]
KeepsPromise == Promise!Spec

\* A claim ends: the row does not stay in dispatch when its thread or process is
\* gone (recover_orphans).
ClaimsEnd == \A r \in Reply : rstatus[r] = "dispatching" ~> rstatus[r] # "dispatching"

\* A follow-up whose parent is verified is tried, also if it was put off after it
\* was bound: "A prepared intent that was never claimed can be resumed"
\* (pump_queued).
ReadyIsServed == \A r \in Reply : Ready(r) ~> rstatus[r] \notin {"queued", "prepared"}
=============================================================================
