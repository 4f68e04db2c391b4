------------------------ MODULE ManualRepliesProofs ------------------------
(***************************************************************************)
(* Proofs about ManualReplies, for any number of chats and replies, any    *)
(* limits, any number of crashes of the worker, and whether or not         *)
(* requests overtake one another.                                          *)
(*                                                                         *)
(* The inductive invariant follows a reply on its way: while its row is    *)
(* not claimed no thread is about to click it and nothing of it is on the  *)
(* wire; a thread that has the claim has not clicked yet; a turn whose     *)
(* request did not land is not in the conversation.  And it follows the    *)
(* first delivery: as long as it is open the conversation is empty and no  *)
(* row of the chat is past "queued".  From it follow the promise for every *)
(* follow-up (ReplyPromise) and that merged ones are sent.  The order of   *)
(* the turns needs more: what a bound row says of those before it.         *)
(***************************************************************************)
EXTENDS ManualReplies, FiniteSetTheorems, WellFoundedInduction, TLAPS

\* The status sets, spelled out for the provers.
LEMMA Statuses ==
  /\ Unclaimed = {"queued", "prepared", "preflight_failed"}
  /\ InDispatch = {"dispatching", "accepted"}
  /\ Settled = {"completed", "interrupted", "stopped"}
  /\ ReplyStatus = {"absent", "queued", "prepared", "preflight_failed", "dispatching", "accepted",
                    "completed", "interrupted", "stopped", "outcome_unknown", "cancelled", "merged"}
BY DEF Unclaimed, InDispatch, Settled, ReplyStatus

\* The last of some rows is one of them, and none of them is later.
LEMMA LastIsLast ==
  ASSUME ReplyTypeOK, NEW c, NEW R \in SUBSET Reply, R # {}
  PROVE  LastOf(R, c) \in R /\ \A p \in R : stamp[p] <= stamp[LastOf(R, c)]
<1> DEFINE N == Cardinality(Reply)
           Distance == {N - stamp[q] : q \in R}
<1>1. N \in Nat
  BY FS_CardinalityType, ReplyAssumption
<1>2. \A q \in R : stamp[q] \in 0 .. N
  BY DEF ReplyTypeOK
<1> HIDE DEF N
<1>3. Distance \subseteq Nat /\ Distance # {}
  BY <1>1, <1>2
<1>4. PICK m \in Distance : \A n \in Distance : <<n, m>> \notin OpToRel(<, Nat)
  <2> HIDE DEF Distance
  <2> QED BY <1>3, WFMin, NatLessThanWellFounded, Zenon
<1>5. \A n \in Distance : ~(n < m)
  <2>1. \A n \in Nat : n < m => <<n, m>> \in OpToRel(<, Nat)
    BY <1>3, Zenon DEF OpToRel
  <2> QED BY <1>3, <1>4, <2>1
<1>6. PICK q \in R : m = N - stamp[q]
  BY <1>4
<1>7. \A p \in R : stamp[p] <= stamp[q]
  <2> SUFFICES ASSUME NEW p \in R PROVE stamp[p] <= stamp[q]
    OBVIOUS
  <2>1. ~(N - stamp[p] < m)
    BY <1>5
  <2>2. m = N - stamp[q] /\ stamp[p] \in 0 .. N /\ stamp[q] \in 0 .. N
    BY <1>2, <1>6
  <2> HIDE DEF Distance
  <2> QED BY <1>1, <2>1, <2>2
<1>8. \E t \in R : \A p \in R : stamp[p] <= stamp[t]
  BY <1>7
<1> QED BY <1>8, Zenon DEF LastOf

\* The last turn of a set of rows is a turn.
LEMMA LastIsTurn ==
  ASSUME ReplyTypeOK, NEW c \in Chat, NEW R \in SUBSET Reply
  PROVE  LastOf(R, c) \in Turn
<1>1. CASE R = {}
  BY <1>1 DEF LastOf, Turn
<1>2. CASE R # {}
  BY <1>2, LastIsLast DEF Turn
<1> QED BY <1>1, <1>2

\* The id of a turn is one, or none.
LEMMA IdentityType ==
  ASSUME ReplyTypeOK, NEW t \in Turn
  PROVE  Identity(t) \in {NoId} \cup (Turn \X (1 .. MaxUnits))
BY ReplyAssumption DEF Identity, ReplyTypeOK

(***************************************************************************)
(* Types                                                                   *)
(***************************************************************************)
LEMMA InitTypes == Init => ReplyTypeOK
BY FS_CardinalityType, ReplyAssumption, Statuses DEF Init, ReplyTypeOK, Lease, Stage, Turn

\* The user, and Stop
LEMMA UserTypes ==
  ASSUME ReplyTypeOK,
         \/ \E r \in Reply, n \in 1 .. Cardinality(Reply) : User(r, n)
         \/ \E r \in Reply : OptIn(r) \/ RetryPreflight(r)
         \/ \E c \in Chat : Stop(c)
  PROVE  ReplyTypeOK'
<1> USE ReplyAssumption, Statuses DEF ReplyTypeOK, Lease, chatVars, workVars, gptVars
<1>1. ASSUME NEW r \in Reply, NEW n \in 1 .. Cardinality(Reply), User(r, n)
      PROVE  ReplyTypeOK'
  <2>1. Cardinality(Reply) \in Nat
    BY FS_CardinalityType
  <2>2. ASSUME NEW st \in ReplyStatus, NEW e \in BOOLEAN,
               NEW id \in {NoId} \cup (Turn \X (1 .. MaxUnits)), Insert(r, n, st, e, id),
               UNCHANGED <<original, delivery, carried>>, prompt' \in [Chat -> SUBSET Reply]
        PROVE  ReplyTypeOK'
    <3>1. n \in 0 .. Cardinality(Reply)
      BY <2>1
    <3> QED BY <2>2, <3>1 DEF Insert
  <2>3. CASE Prepare(r, n)
    <3>1. LastOf(Branch(ChatOf[r]), ChatOf[r]) \in Turn
      BY LastIsTurn DEF Branch, Rows
    <3> QED BY <2>2, <2>3, <3>1, IdentityType DEF Prepare
  <2>4. CASE MergeFollowup(r, n)
    <3>1. /\ Insert(r, n, "merged", TRUE, NoId) /\ UNCHANGED <<original, delivery, carried>>
          /\ prompt' = [prompt EXCEPT ![ChatOf[r]] = prompt[ChatOf[r]] \cup {r}]
      BY <2>4 DEF MergeFollowup
    <3>2. prompt' \in [Chat -> SUBSET Reply]
      BY <3>1
    <3>3. "merged" \in ReplyStatus /\ TRUE \in BOOLEAN
      OBVIOUS
    <3> QED BY <2>2, <3>1, <3>2, <3>3
  <2>5. CASE QueueFollowup(r, n)
    BY <2>2, <2>5 DEF QueueFollowup
  <2> QED BY <1>1, <2>3, <2>4, <2>5 DEF User
<1>2. ASSUME NEW r \in Reply, OptIn(r) PROVE ReplyTypeOK'
  BY <1>2 DEF OptIn
<1>3. ASSUME NEW r \in Reply, RetryPreflight(r) PROVE ReplyTypeOK'
  BY <1>3 DEF RetryPreflight
<1>4. ASSUME NEW c \in Chat, Stop(c) PROVE ReplyTypeOK'
  BY <1>4 DEF Stop
<1> QED BY <1>1, <1>2, <1>3, <1>4

\* finish closes a claimed row, and no other.
LEMMA FinishTypes ==
  ASSUME ReplyTypeOK, NEW r \in Reply, Finish(r)
  PROVE  rstatus' \in [Reply -> ReplyStatus] /\ lease' \in [Reply -> Lease]
<1> USE Statuses DEF Lease, Owned, ReplyTypeOK
<1>1. CASE UNCHANGED <<rstatus, lease>>
  BY <1>1
<1>2. CASE ~UNCHANGED <<rstatus, lease>>
  <2> DEFINE st == IF rstatus[r] = "dispatching" THEN "outcome_unknown" ELSE "interrupted"
  <2>1. rstatus' = [rstatus EXCEPT ![r] = st] /\ lease' = [lease EXCEPT ![r] = "none"]
    BY <1>2 DEF Finish
  <2>2. st \in ReplyStatus
    OBVIOUS
  <2> HIDE DEF st
  <2> QED BY <2>1, <2>2
<1> QED BY <1>1, <1>2

\* The pump and the threads of the worker, and its end
LEMMA WorkerTypes ==
  ASSUME ReplyTypeOK,
         \/ \E r \in Reply : Pick(r) \/ Preflight(r) \/ Dispatch(r) \/ Watch(r)
         \/ Submit \/ Crash
  PROVE  ReplyTypeOK'
<1> USE ReplyAssumption, Statuses DEF ReplyTypeOK, Lease, Stage, Owned, rowVars, chatVars, workVars, gptVars,
        ToStage
<1>1. ASSUME NEW r \in Reply, Pick(r) PROVE ReplyTypeOK'
  <2> DEFINE last == LastOf(Earlier(Branch(ChatOf[r]), r), ChatOf[r])
  <2>1. last \in Turn
    BY LastIsTurn DEF Branch, Rows, Earlier
  <2>2. Identity(last) \in {NoId} \cup (Turn \X (1 .. MaxUnits))
    BY <2>1, IdentityType
  <2> QED BY <1>1, <2>2 DEF Pick
<1>2. ASSUME NEW r \in Reply, Preflight(r) PROVE ReplyTypeOK'
  <2>1. CASE Defer(r)
    BY <2>1 DEF Defer
  <2>2. CASE PreflightPasses(r)
    BY <2>2 DEF PreflightPasses
  <2>3. CASE PreflightFails(r)
    BY <2>3 DEF PreflightFails
  <2> QED BY <1>2, <2>1, <2>2, <2>3 DEF Preflight
<1>3. ASSUME NEW r \in Reply, Dispatch(r) PROVE ReplyTypeOK'
  <2>1. CASE ClaimReply(r)
    BY <2>1 DEF ClaimReply
  <2>6. CASE ClaimRefused(r)
    BY <2>6 DEF ClaimRefused
  <2>7. CASE Abandon(r)
    BY <2>7 DEF Abandon
  <2>2. CASE Click(r)
    BY <2>2 DEF Click
  <2>3. CASE ClickFails(r)
    <3>1. rstatus' \in [Reply -> ReplyStatus] /\ lease' \in [Reply -> Lease]
      BY <2>3, FinishTypes DEF ClickFails
    <3>2. stage' = [stage EXCEPT ![r] = "closing"]
      BY <2>3 DEF ClickFails
    <3>3. post' = post \/ post' = [post EXCEPT ![r] = "inflight"]
      BY <2>3 DEF ClickFails
    <3>4. UNCHANGED <<byUser, parent, stamp, chatVars, messageId, pump, crashes, thread, units, ended>>
      BY <2>3 DEF ClickFails
    <3> QED BY <3>1, <3>2, <3>3, <3>4
  <2>4. CASE Confirmed(r)
    <3>1. rstatus' \in [Reply -> ReplyStatus] /\ lease' \in [Reply -> Lease]
      <4>1. CASE rstatus' = [rstatus EXCEPT ![r] = "accepted"] /\ UNCHANGED lease
        BY <4>1
      <4>2. CASE Finish(r)
        BY <4>2, FinishTypes
      <4> QED BY <2>4, <4>1, <4>2 DEF Confirmed
    <3>2. PICK to \in {"watching", "closing"} : stage' = [stage EXCEPT ![r] = to]
      BY <2>4 DEF Confirmed
    <3> QED BY <2>4, <3>1, <3>2 DEF Confirmed
  <2>5. CASE Unconfirmed(r)
    BY <2>5, FinishTypes DEF Unconfirmed
  <2> QED BY <1>3, <2>1, <2>2, <2>3, <2>4, <2>5, <2>6, <2>7 DEF Dispatch
<1>4. ASSUME NEW r \in Reply, Watch(r) PROVE ReplyTypeOK'
  <2>1. CASE SaveAnswerId(r)
    <3>1. r \in Turn /\ units[r] \in 0 .. MaxUnits
      BY DEF Turn
    <3>2. rstatus' \in [Reply -> ReplyStatus] /\ lease' \in [Reply -> Lease]
      BY <2>1, FinishTypes DEF SaveAnswerId
    <3>3. stage' \in [Reply -> Stage] /\ messageId' \in [Turn -> 0 .. MaxUnits]
      <4>1. /\ \/ stage' = [stage EXCEPT ![r] = "answered"]
               \/ stage' = [stage EXCEPT ![r] = "closing"]
            /\ UNCHANGED messageId \/ messageId' = [messageId EXCEPT ![r] = units[r]]
        BY <2>1 DEF SaveAnswerId
      <4>2. stage' \in [Reply -> Stage]
        BY <4>1
      <4>3. messageId' \in [Turn -> 0 .. MaxUnits]
        <5>1. CASE UNCHANGED messageId
          BY <5>1
        <5>2. CASE messageId' = [messageId EXCEPT ![r] = units[r]]
          BY <3>1, <5>2
        <5> QED BY <4>1, <5>1, <5>2
      <4> QED BY <4>2, <4>3
    <3> QED BY <2>1, <3>2, <3>3 DEF SaveAnswerId
  <2>2. CASE SaveAnswer(r)
    <3>1. rstatus' \in [Reply -> ReplyStatus] /\ lease' \in [Reply -> Lease]
      <4>1. CASE rstatus[r] = "accepted" /\ lease[r] = "held"
        <5>1. rstatus' = [rstatus EXCEPT ![r] = "completed"] /\ lease' = [lease EXCEPT ![r] = "none"]
          BY <2>2, <4>1 DEF SaveAnswer
        <5> QED BY <5>1
      <4>2. CASE ~(rstatus[r] = "accepted" /\ lease[r] = "held")
        BY <2>2, <4>2, FinishTypes DEF SaveAnswer
      <4> QED BY <4>1, <4>2
    <3>2. stage' \in [Reply -> Stage]
      BY <2>2 DEF SaveAnswer
    <3> QED BY <2>2, <3>1, <3>2 DEF SaveAnswer
  <2>3. CASE GiveUpAnswer(r) \/ Leave(r)
    <3>1. rstatus' \in [Reply -> ReplyStatus] /\ lease' \in [Reply -> Lease]
      BY <2>3, FinishTypes DEF GiveUpAnswer, Leave
    <3>2. PICK to \in {"none", "closing"} : stage' = [stage EXCEPT ![r] = to]
      BY <2>3 DEF GiveUpAnswer, Leave
    <3>3. stage' \in [Reply -> Stage]
      BY <3>2 DEF Stage
    <3>4. UNCHANGED <<byUser, parent, stamp, chatVars, messageId, pump, crashes, gptVars>>
      BY <2>3 DEF GiveUpAnswer, Leave
    <3> QED BY <3>1, <3>3, <3>4
  <2> QED BY <1>4, <2>1, <2>2, <2>3 DEF Watch
<1>5. CASE Submit
  <2>1. pump \in Reply
    BY <1>5 DEF Submit
  <2>2. \/ stage' = [stage EXCEPT ![pump] = "run"] /\ rstatus' = [rstatus EXCEPT ![pump] = "prepared"]
        \/ UNCHANGED <<stage, rstatus>>
    BY <1>5 DEF Submit
  <2>3. stage' \in [Reply -> Stage] /\ rstatus' \in [Reply -> ReplyStatus]
    BY <2>1, <2>2
  <2>4. pump' = None /\ UNCHANGED <<byUser, parent, lease, stamp, chatVars, messageId, crashes, gptVars>>
    BY <1>5 DEF Submit
  <2> QED BY <2>3, <2>4
<1>6. CASE Crash
  BY <1>6 DEF Crash
<1> QED BY <1>1, <1>2, <1>3, <1>4, <1>5, <1>6

\* One more message stays within the bound.
LEMMA OneMore ==
  ASSUME NEW n \in 0 .. MaxUnits, n < MaxUnits
  PROVE  n + 1 \in 0 .. MaxUnits
<1> MaxUnits \in Nat
  BY ReplyAssumption
<1> QED OBVIOUS

\* Leases, recoveries, the first delivery and ChatGPT
LEMMA WorldTypes ==
  ASSUME ReplyTypeOK,
         \/ \E r \in Reply : \/ LeaseLapses(r) \/ HandOver(r)
                             \/ RecoverReply(r) \/ RecoverReplyParent(r)
                             \/ Lands(r) \/ Lost(r)
         \/ RecoverOrphans
         \/ \E c \in Chat : \/ OriginalTurn(c) \/ RecoverOriginalParent(c)
                            \/ NextMessage(c) \/ AnswerEnds(c)
  PROVE  ReplyTypeOK'
<1> USE ReplyAssumption, Statuses DEF ReplyTypeOK, Lease, rowVars, chatVars, workVars, gptVars
<1> MaxUnits \in Nat \ {0} /\ Reply \subseteq Turn /\ Chat \subseteq Turn
  BY DEF Turn
<1>1. ASSUME NEW r \in Reply, LeaseLapses(r) \/ HandOver(r) PROVE ReplyTypeOK'
  <2>1. PICK to \in {"spent", "lapsed", "detached"} : lease' = [lease EXCEPT ![r] = to]
    BY <1>1 DEF LeaseLapses, HandOver
  <2>2. lease' \in [Reply -> Lease]
    BY <2>1
  <2>3. UNCHANGED <<rstatus, byUser, parent, stamp, chatVars, messageId, workVars, gptVars>>
    BY <1>1 DEF LeaseLapses, HandOver
  <2> QED BY <2>2, <2>3
<1>2. ASSUME NEW r \in Reply, RecoverReply(r) PROVE ReplyTypeOK'
  <2>1. messageId' \in [Turn -> 0 .. MaxUnits]
    <3>1. PICK id \in ShownId(r) : messageId' = [messageId EXCEPT ![r] = id]
      BY <1>2 DEF RecoverReply
    <3>2. id \in 0 .. MaxUnits
      BY <3>1 DEF ShownId
    <3> QED BY <3>1, <3>2
  <2>2. rstatus' \in [Reply -> ReplyStatus] /\ lease' \in [Reply -> Lease]
    <3>1. CASE rstatus' = [rstatus EXCEPT ![r] = "completed"] /\ lease' = [lease EXCEPT ![r] = "none"]
      BY <3>1
    <3>2. CASE lease' = [lease EXCEPT ![r] = "detached"] /\ UNCHANGED rstatus
      BY <3>2
    <3>3. CASE UNCHANGED <<rstatus, lease>>
      BY <3>3
    <3> QED BY <1>2, <3>1, <3>2, <3>3 DEF RecoverReply
  <2> QED BY <1>2, <2>1, <2>2 DEF RecoverReply
<1>3. ASSUME NEW r \in Reply, RecoverReplyParent(r) PROVE ReplyTypeOK'
  <2>1. messageId' \in [Turn -> 0 .. MaxUnits]
    <3>1. units[r] \in 0 .. MaxUnits
      OBVIOUS
    <3> QED BY <1>3, <3>1 DEF RecoverReplyParent
  <2>2. rstatus' \in [Reply -> ReplyStatus]
    <3> DEFINE st == IF rstatus[r] = "outcome_unknown" THEN "interrupted" ELSE rstatus[r]
    <3>1. rstatus' = [rstatus EXCEPT ![r] = st]
      BY <1>3 DEF RecoverReplyParent
    <3>2. st \in ReplyStatus
      OBVIOUS
    <3> HIDE DEF st
    <3> QED BY <3>1, <3>2
  <2> QED BY <1>3, <2>1, <2>2 DEF RecoverReplyParent
<1>4. ASSUME NEW r \in Reply, Lands(r) \/ Lost(r) PROVE ReplyTypeOK'
  <2>1. CASE Lands(r)
    <3>1. Append(thread[ChatOf[r]], r) \in Seq(Turn)
      OBVIOUS
    <3>2. thread' \in [Chat -> Seq(Turn)]
      BY <2>1, <3>1 DEF Lands
    <3> QED BY <2>1, <3>2 DEF Lands
  <2>2. CASE Lost(r)
    BY <2>2 DEF Lost
  <2> QED BY <1>4, <2>1, <2>2
<1>5. CASE RecoverOrphans
  <2>1. rstatus' \in [Reply -> ReplyStatus]
    BY <1>5 DEF RecoverOrphans
  <2>2. lease' \in [Reply -> Lease]
    BY <1>5 DEF RecoverOrphans
  <2> QED BY <1>5, <2>1, <2>2 DEF RecoverOrphans
<1>6. ASSUME NEW c \in Chat, OriginalTurn(c) PROVE ReplyTypeOK'
  <2>1. CASE ClaimDelivery(c)
    BY <2>1 DEF ClaimDelivery
  <2>2. CASE DeliverySucceeds(c) \/ DeliveryUnknown(c)
    <3>1. <<c>> \in Seq(Turn)
      OBVIOUS
    <3>2. [thread EXCEPT ![c] = <<c>>] \in [Chat -> Seq(Turn)]
      BY <3>1
    <3>3. thread' \in [Chat -> Seq(Turn)]
      BY <2>2, <3>2 DEF DeliverySucceeds, DeliveryUnknown
    <3>4. PICK st \in {"active", "outcome_unknown"} : original' = [original EXCEPT ![c] = st]
      BY <2>2 DEF DeliverySucceeds, DeliveryUnknown
    <3>5. delivery' = [delivery EXCEPT ![c] = "over"]
      BY <2>2 DEF DeliverySucceeds, DeliveryUnknown
    <3>6. /\ original' \in [Chat -> {"queued", "active", "outcome_unknown"} \cup Settled]
          /\ delivery' \in [Chat -> {"waiting", "running", "over"}]
      BY <3>4, <3>5
    <3>7. UNCHANGED <<rowVars, prompt, carried, messageId, workVars, post, units, ended>>
      BY <2>2 DEF DeliverySucceeds, DeliveryUnknown
    <3> QED BY <3>3, <3>6, <3>7
  <2>3. CASE CaptureWrites(c) \/ RecoverOriginal(c)
    <3>1. PICK id \in ShownId(c) : messageId' = [messageId EXCEPT ![c] = id]
      BY <2>3 DEF CaptureWrites, RecoverOriginal
    <3>2. id \in 0 .. MaxUnits
      BY <3>1 DEF ShownId
    <3>3. messageId' \in [Turn -> 0 .. MaxUnits]
      BY <3>1, <3>2
    <3>4. original' = [original EXCEPT ![c] = "completed"] \/ UNCHANGED original
      BY <2>3 DEF CaptureWrites, RecoverOriginal
    <3>5. original' \in [Chat -> {"queued", "active", "outcome_unknown"} \cup Settled]
      BY <3>4
    <3>6. UNCHANGED <<rowVars, delivery, prompt, carried, workVars, gptVars>>
      BY <2>3 DEF CaptureWrites, RecoverOriginal
    <3> QED BY <3>3, <3>5, <3>6
  <2>4. CASE CaptureStops(c)
    BY <2>4 DEF CaptureStops
  <2> QED BY <1>6, <2>1, <2>2, <2>3, <2>4 DEF OriginalTurn
<1>7. ASSUME NEW c \in Chat, RecoverOriginalParent(c) PROVE ReplyTypeOK'
  <2>1. 1 \in 0 .. MaxUnits
    OBVIOUS
  <2> QED BY <1>7, <2>1 DEF RecoverOriginalParent
<1>8. ASSUME NEW c \in Chat, NextMessage(c) \/ AnswerEnds(c) PROVE ReplyTypeOK'
  <2>1. Tip(c) \in Turn
    BY <1>8 DEF NextMessage, AnswerEnds, Tip
  <2>2. CASE NextMessage(c)
    <3>1. PICK n \in 0 .. MaxUnits : n = units[Tip(c)]
      BY <2>1
    <3>2. n < MaxUnits /\ units' = [units EXCEPT ![Tip(c)] = n + 1]
      BY <2>2, <3>1 DEF NextMessage
    <3>3. n + 1 \in 0 .. MaxUnits
      BY <3>2, OneMore
    <3>4. units' \in [Turn -> 0 .. MaxUnits]
      BY <3>2, <3>3
    <3> QED BY <2>2, <3>4 DEF NextMessage
  <2>3. CASE AnswerEnds(c)
    BY <2>1, <2>3 DEF AnswerEnds
  <2> QED BY <1>8, <2>2, <2>3
<1> QED BY <1>1, <1>2, <1>3, <1>4, <1>5, <1>6, <1>7, <1>8

\* A step of the system belongs to one of the three groups.
LEMMA NextTypes == ReplyTypeOK /\ [Next]_vars => ReplyTypeOK'
<1> SUFFICES ASSUME ReplyTypeOK, [Next]_vars PROVE ReplyTypeOK'
  OBVIOUS
<1>1. CASE UNCHANGED vars
  BY <1>1 DEF vars, rowVars, chatVars, workVars, gptVars, ReplyTypeOK
<1>2. CASE Next
  BY <1>2, UserTypes, WorkerTypes, WorldTypes DEF Next
<1> QED BY <1>1, <1>2

\* Every column and every place of a thread keeps to its values (the tables of
\* reply_tables.py, and the stages of _dispatch).
THEOREM ReplyTypes == Spec => []ReplyTypeOK
BY InitTypes, NextTypes, PTL DEF Spec

(***************************************************************************)
(* The invariant                                                           *)
(***************************************************************************)
NeverClaimed(r) == rstatus[r] \in {"absent", "merged", "cancelled"} \cup Unclaimed

\* The way of a reply: its row, its thread, its request and its turn agree.
OnItsWay(r) ==
  LET turns == thread[ChatOf[r]] IN
  /\ NeverClaimed(r) =>
       post[r] = "none" /\ stage[r] \notin {"claimed", "clicked", "watching", "answered"}
  /\ stage[r] = "claimed" => post[r] = "none"
  /\ stage[r] \in {"ready", "claimed"} \/ post[r] # "none" => turns # <<>>
  /\ Taken(r) => post[r] = "done"
  /\ \A i, j \in DOMAIN turns : turns[i] = r /\ turns[j] = r => i = j
  /\ rstatus[r] \in {"accepted", "completed", "interrupted"} => Taken(r)

Merged(c) == {r \in Rows(c) : rstatus[r] = "merged"}

\* The first delivery of a chat: while it is open nothing follows it, and its
\* message contains what was merged into it.
Opening(c) ==
  /\ delivery[c] \in {"waiting", "running"} => original[c] = "queued" /\ thread[c] = <<>>
  /\ original[c] = "queued" =>
       \A r \in Reply : ChatOf[r] = c => rstatus[r] \in {"absent", "merged", "queued"}
  /\ delivery[c] = "waiting" => prompt[c] = Merged(c)
  /\ delivery[c] = "running" \/ thread[c] # <<>> => carried[c] = Merged(c)

ReplyInv ==
  /\ ReplyTypeOK
  /\ \A r \in Reply : OnItsWay(r)
  /\ \A c \in Chat : Opening(c)

(***************************************************************************)
(* How a step may move a row                                               *)
(***************************************************************************)

\* A row that may have been claimed never returns to those that were not, and
\* what is reported as sent is a turn of the conversation.
WayMove(r) ==
  \/ rstatus'[r] = rstatus[r]
  \/ NeverClaimed(r) /\ NeverClaimed(r)'
  \/ ~NeverClaimed(r)' /\ (rstatus'[r] \in {"accepted", "completed", "interrupted"} => Taken(r))

\* What is merged stays so, and while the prompt waits rows are only queued.
OpenMove(r) ==
  /\ rstatus'[r] = "merged" <=> rstatus[r] = "merged"
  /\ original[ChatOf[r]] = "queued" => rstatus'[r] \in {rstatus[r], "queued"}

\* A turn that is shown right after its parent is a turn.
LEMMA ShownIsTaken ==
  ASSUME ReplyTypeOK, NEW r \in Reply, TakenAfterParent(r)
  PROVE  Taken(r)
<1>1. PICK i \in 2 .. Len(thread[ChatOf[r]]) : thread[ChatOf[r]][i] = r
  BY DEF TakenAfterParent
<1>2. thread[ChatOf[r]] \in Seq(Turn)
  BY ReplyAssumption DEF ReplyTypeOK
<1>3. i \in DOMAIN thread[ChatOf[r]]
  BY <1>1, <1>2
<1> QED BY <1>1, <1>3 DEF Taken

\* finish moves the reply only, and only when it was claimed.
LEMMA FinishMoves ==
  ASSUME ReplyTypeOK, NEW r \in Reply, Finish(r), NEW q \in Reply
  PROVE  \/ rstatus'[q] = rstatus[q]
         \/ rstatus[q] = "dispatching" /\ rstatus'[q] = "outcome_unknown"
         \/ rstatus[q] = "accepted" /\ rstatus'[q] = "interrupted"
<1>1. CASE UNCHANGED <<rstatus, lease>>
  BY <1>1
<1>2. CASE ~UNCHANGED <<rstatus, lease>>
  <2> DEFINE st == IF rstatus[r] = "dispatching" THEN "outcome_unknown" ELSE "interrupted"
  <2>1. rstatus' = [rstatus EXCEPT ![r] = st] /\ rstatus[r] \in {"dispatching", "accepted"}
    BY <1>2, Statuses DEF Finish
  <2>2. \/ rstatus[r] = "dispatching" /\ st = "outcome_unknown"
        \/ rstatus[r] = "accepted" /\ st = "interrupted"
    BY <2>1
  <2> HIDE DEF st
  <2> QED BY <2>1, <2>2 DEF ReplyTypeOK
<1> QED BY <1>1, <1>2

LEMMA FinishKeeps ==
  ASSUME ReplyInv, NEW r \in Reply, Finish(r), NEW q \in Reply
  PROVE  WayMove(q) /\ OpenMove(q)
<1>1. OnItsWay(q) /\ Opening(ChatOf[q])
  BY ReplyAssumption DEF ReplyInv
<1>2. ChatOf[q] \in Chat /\ ReplyTypeOK
  BY ReplyAssumption DEF ReplyInv
<1> QED BY <1>1, <1>2, FinishMoves, Statuses DEF WayMove, OpenMove, OnItsWay, Opening, NeverClaimed

\* The user, and Stop
LEMMA UserMoves ==
  ASSUME ReplyInv, NEW q \in Reply
  PROVE  /\ \A r \in Reply, n \in 1 .. Cardinality(Reply) :
                /\ User(r, n) => WayMove(q)
                /\ Prepare(r, n) \/ QueueFollowup(r, n) => OpenMove(q)
         /\ \A r \in Reply : OptIn(r) \/ RetryPreflight(r) => WayMove(q) /\ OpenMove(q)
         /\ \A c \in Chat : Stop(c) => WayMove(q)
<1> USE Statuses DEF WayMove, OpenMove, NeverClaimed
<1>1. /\ OnItsWay(q) /\ Opening(ChatOf[q]) /\ ChatOf[q] \in Chat
      /\ rstatus \in [Reply -> ReplyStatus] /\ rstatus[q] \in ReplyStatus
  BY ReplyAssumption DEF ReplyInv, ReplyTypeOK
<1>2. ASSUME NEW r \in Reply, NEW n \in 1 .. Cardinality(Reply)
      PROVE  /\ User(r, n) => WayMove(q)
             /\ Prepare(r, n) \/ QueueFollowup(r, n) => OpenMove(q)
  <2>1. Prepare(r, n) => WayMove(q) /\ OpenMove(q)
    <3>1. Prepare(r, n) => original[ChatOf[r]] # "queued"
      BY DEF Prepare, Verified
    <3> QED BY <1>1, <3>1 DEF Prepare, Insert
  <2>2. MergeFollowup(r, n) => WayMove(q)
    BY <1>1 DEF MergeFollowup, Insert
  <2>3. QueueFollowup(r, n) => WayMove(q) /\ OpenMove(q)
    BY <1>1 DEF QueueFollowup, Insert
  <2> QED BY <2>1, <2>2, <2>3, Zenon DEF User
<1>3. ASSUME NEW r \in Reply, OptIn(r) \/ RetryPreflight(r) PROVE WayMove(q) /\ OpenMove(q)
  BY <1>1, <1>3, ReplyAssumption DEF OptIn, RetryPreflight, ReplyInv, Opening
<1>4. ASSUME NEW c \in Chat, Stop(c) PROVE WayMove(q)
  BY <1>1, <1>4 DEF Stop
<1> QED BY <1>2, <1>3, <1>4

\* The worker
LEMMA WorkerMoves ==
  ASSUME ReplyInv, NEW q \in Reply,
         \/ \E r \in Reply : Pick(r) \/ Preflight(r) \/ Dispatch(r) \/ Watch(r)
         \/ Submit \/ Crash
  PROVE  WayMove(q) /\ OpenMove(q)
<1> DEFINE Goal == WayMove(q) /\ OpenMove(q)
<1>1. /\ \A r \in Reply : OnItsWay(r) /\ Opening(ChatOf[r]) /\ ChatOf[r] \in Chat
      /\ rstatus \in [Reply -> ReplyStatus] /\ rstatus[q] \in ReplyStatus
      /\ pump \in Reply \cup {None}
  BY ReplyAssumption DEF ReplyInv, ReplyTypeOK
<1>2. UNCHANGED rstatus => Goal
  BY DEF WayMove, OpenMove
<1>3. \A r \in Reply : Finish(r) => Goal
  BY FinishKeeps
<1>4. ASSUME NEW r \in Reply, Pick(r) PROVE Goal
  <2>1. original[ChatOf[r]] # "queued" /\ rstatus[r] \in {"queued", "prepared"}
    BY <1>4, Statuses DEF Pick, Ready, Verified
  <2> QED BY <1>1, <1>4, <2>1, Statuses DEF Pick, WayMove, OpenMove, NeverClaimed
<1>5. ASSUME NEW r \in Reply, Preflight(r) PROVE Goal
  <2>1. CASE PreflightFails(r)
    BY <1>1, <2>1, Statuses DEF PreflightFails, WayMove, OpenMove, NeverClaimed, Opening
  <2>2. CASE Defer(r) \/ PreflightPasses(r)
    BY <1>2, <2>2 DEF Defer, PreflightPasses, rowVars
  <2> QED BY <1>5, <2>1, <2>2 DEF Preflight
<1>6. ASSUME NEW r \in Reply, Dispatch(r) PROVE Goal
  <2>1. CASE ClaimReply(r)
    BY <1>1, <2>1, Statuses DEF ClaimReply, WayMove, OpenMove, NeverClaimed, Opening
  <2>2. CASE ClaimRefused(r) \/ Click(r) \/ Abandon(r)
    BY <1>2, <2>2 DEF ClaimRefused, Click, Abandon, rowVars
  <2>3. CASE ClickFails(r) \/ Unconfirmed(r)
    BY <1>3, <2>3 DEF ClickFails, Unconfirmed
  <2>4. CASE Confirmed(r)
    <3>1. CASE rstatus[r] = "dispatching" /\ rstatus' = [rstatus EXCEPT ![r] = "accepted"]
      BY <1>1, <2>4, <3>1, Statuses DEF Confirmed, WayMove, OpenMove, NeverClaimed, Opening
    <3>2. CASE Finish(r)
      BY <1>3, <3>2
    <3> QED BY <2>4, <3>1, <3>2 DEF Confirmed
  <2> QED BY <1>6, <2>1, <2>2, <2>3, <2>4 DEF Dispatch
<1>7. ASSUME NEW r \in Reply, Watch(r) PROVE Goal
  <2>1. CASE UNCHANGED rstatus \/ Finish(r)
    BY <1>2, <1>3, <2>1
  <2>2. CASE SaveAnswer(r) /\ rstatus[r] = "accepted" /\ rstatus' = [rstatus EXCEPT ![r] = "completed"]
    BY <1>1, <2>2, Statuses DEF WayMove, OpenMove, NeverClaimed, Opening, OnItsWay
  <2> QED BY <1>7, <2>1, <2>2 DEF Watch, SaveAnswerId, SaveAnswer, GiveUpAnswer, Leave, rowVars
<1>8. CASE Submit
  <2>1. CASE UNCHANGED rstatus
    BY <1>2, <2>1
  <2>2. CASE /\ rstatus[pump] \in {"prepared", "preflight_failed"} /\ pump \in Reply
             /\ rstatus' = [rstatus EXCEPT ![pump] = "prepared"]
    BY <1>1, <2>2, Statuses DEF WayMove, OpenMove, NeverClaimed, Opening
  <2> QED BY <1>1, <1>8, <2>1, <2>2 DEF Submit
<1>9. CASE Crash
  BY <1>2, <1>9 DEF Crash
<1> QED BY <1>4, <1>5, <1>6, <1>7, <1>8, <1>9

\* Leases, recoveries, the first delivery and ChatGPT
LEMMA WorldMoves ==
  ASSUME ReplyInv, NEW q \in Reply,
         \/ \E r \in Reply : \/ LeaseLapses(r) \/ HandOver(r)
                             \/ RecoverReply(r) \/ RecoverReplyParent(r)
                             \/ Lands(r) \/ Lost(r)
         \/ RecoverOrphans
         \/ \E c \in Chat : \/ OriginalTurn(c) \/ RecoverOriginalParent(c)
                            \/ NextMessage(c) \/ AnswerEnds(c)
  PROVE  WayMove(q) /\ OpenMove(q)
<1> DEFINE Goal == WayMove(q) /\ OpenMove(q)
<1>1. /\ \A r \in Reply : OnItsWay(r) /\ Opening(ChatOf[r]) /\ ChatOf[r] \in Chat
      /\ rstatus \in [Reply -> ReplyStatus] /\ rstatus[q] \in ReplyStatus
      /\ ReplyTypeOK
  BY ReplyAssumption DEF ReplyInv, ReplyTypeOK
<1>2. UNCHANGED rstatus => Goal
  BY DEF WayMove, OpenMove
<1>3. ASSUME NEW r \in Reply, RecoverReply(r) PROVE Goal
  <2>1. Taken(r) /\ rstatus[r] \in {"outcome_unknown", "interrupted", "accepted"}
    BY <1>1, <1>3, ShownIsTaken DEF RecoverReply
  <2>2. UNCHANGED rstatus \/ rstatus' = [rstatus EXCEPT ![r] = "completed"]
    BY <1>3 DEF RecoverReply
  <2> QED BY <1>1, <1>2, <2>1, <2>2, Statuses DEF WayMove, OpenMove, NeverClaimed, Opening
<1>4. ASSUME NEW r \in Reply, RecoverReplyParent(r) PROVE Goal
  <2> DEFINE st == IF rstatus[r] = "outcome_unknown" THEN "interrupted" ELSE rstatus[r]
  <2>1. Taken(r) /\ rstatus' = [rstatus EXCEPT ![r] = st]
    BY <1>1, <1>4, ShownIsTaken DEF RecoverReplyParent
  <2>2. \/ st = rstatus[r]
        \/ st = "interrupted" /\ rstatus[r] = "outcome_unknown"
    OBVIOUS
  <2> HIDE DEF st
  <2> QED BY <1>1, <1>2, <2>1, <2>2, Statuses DEF WayMove, OpenMove, NeverClaimed, Opening
<1>5. CASE RecoverOrphans
  <2>1. \/ rstatus'[q] = rstatus[q]
        \/ rstatus[q] = "dispatching" /\ rstatus'[q] = "outcome_unknown"
        \/ rstatus[q] = "accepted" /\ rstatus'[q] = "interrupted"
    BY <1>5, Statuses DEF RecoverOrphans, Orphaned
  <2> QED BY <1>1, <2>1, Statuses DEF WayMove, OpenMove, NeverClaimed, Opening, OnItsWay
<1>6. ASSUME NEW r \in Reply, LeaseLapses(r) \/ HandOver(r) \/ Lands(r) \/ Lost(r) PROVE Goal
  BY <1>2, <1>6 DEF LeaseLapses, HandOver, Lands, Lost, rowVars
<1>7. ASSUME NEW c \in Chat,
             OriginalTurn(c) \/ RecoverOriginalParent(c) \/ NextMessage(c) \/ AnswerEnds(c)
      PROVE  Goal
  BY <1>2, <1>7 DEF OriginalTurn, ClaimDelivery, DeliverySucceeds, DeliveryUnknown, CaptureWrites,
    CaptureStops, RecoverOriginal, RecoverOriginalParent, NextMessage, AnswerEnds, rowVars
<1> QED BY <1>3, <1>4, <1>5, <1>6, <1>7

(***************************************************************************)
(* The invariant is kept                                                   *)
(***************************************************************************)

\* A reply whose request and chat are left alone stays on its way, also when its
\* thread starts, ends or turns to closing.
LEMMA WayKept ==
  ASSUME NEW q \in Reply, OnItsWay(q), WayMove(q),
         stage'[q] \in {stage[q], "none", "run", "closing"},
         post'[q] = post[q], thread'[ChatOf[q]] = thread[ChatOf[q]]
  PROVE  OnItsWay(q)'
<1>1. Taken(q)' <=> Taken(q)
  BY DEF Taken
<1>2. NeverClaimed(q)' => rstatus'[q] \notin {"accepted", "completed", "interrupted"}
  BY Statuses DEF NeverClaimed
<1>3. NeverClaimed(q)' => NeverClaimed(q)
  BY DEF WayMove, NeverClaimed
<1>4. rstatus'[q] \in {"accepted", "completed", "interrupted"} => Taken(q)
  BY <1>2 DEF WayMove, OnItsWay
<1> HIDE DEF NeverClaimed, Taken
<1> QED BY <1>1, <1>3, <1>4 DEF OnItsWay

\* The thread of a reply
LEMMA DispatchKeepsWay ==
  ASSUME ReplyInv, NEW q \in Reply,
         \E r \in Reply : Pick(r) \/ Preflight(r) \/ Dispatch(r) \/ Watch(r)
  PROVE  OnItsWay(q)'
<1> USE DEF ToStage, gptVars, workVars
<1>1. /\ OnItsWay(q) /\ WayMove(q)
      /\ stage \in [Reply -> Stage] /\ rstatus \in [Reply -> ReplyStatus]
      /\ post \in [Reply -> {"none", "inflight", "done"}]
      /\ thread[ChatOf[q]] \in Seq(Turn)
  BY WorkerMoves, ReplyAssumption DEF ReplyInv, ReplyTypeOK
<1>2. ASSUME NEW r \in Reply, Pick(r) PROVE OnItsWay(q)'
  BY <1>1, <1>2, WayKept DEF Pick
<1>3. ASSUME NEW r \in Reply, Preflight(r) PROVE OnItsWay(q)'
  <2>1. CASE Defer(r) \/ PreflightFails(r)
    BY <1>1, <2>1, WayKept DEF Defer, PreflightFails
  <2>2. CASE PreflightPasses(r)
    BY <1>1, <2>2, WayKept DEF PreflightPasses, rowVars, OnItsWay, NeverClaimed, Taken
  <2> QED BY <1>3, <2>1, <2>2 DEF Preflight
<1>4. ASSUME NEW r \in Reply, Dispatch(r) PROVE OnItsWay(q)'
  <2>1. CASE ClaimReply(r)
    <3>1. q # r => OnItsWay(q)'
      BY <1>1, <2>1, WayKept DEF ClaimReply
    <3>2. q = r => OnItsWay(q)'
      BY <1>1, <2>1 DEF ClaimReply, OnItsWay, NeverClaimed, Taken, Unclaimed
    <3> QED BY <3>1, <3>2
  <2>2. CASE Click(r)
    <3>1. q # r => OnItsWay(q)'
      BY <1>1, <2>2, WayKept DEF Click
    <3>2. q = r => OnItsWay(q)'
      BY <1>1, <2>2 DEF Click, OnItsWay, NeverClaimed, Taken, rowVars
    <3> QED BY <3>1, <3>2
  <2>3. CASE ClickFails(r)
    <3>1. CASE post' = post
      BY <1>1, <2>3, <3>1, WayKept DEF ClickFails
    <3>2. CASE post' = [post EXCEPT ![r] = "inflight"]
      <4>1. q # r => OnItsWay(q)'
        BY <1>1, <2>3, <3>2, WayKept DEF ClickFails
      <4>2. q = r => OnItsWay(q)'
        BY <1>1, <2>3, <3>2 DEF ClickFails, OnItsWay, NeverClaimed, Taken, WayMove
      <4> QED BY <4>1, <4>2
    <3> QED BY <2>3, <3>1, <3>2 DEF ClickFails
  <2>4. CASE Confirmed(r)
    <3>1. CASE stage' = [stage EXCEPT ![r] = "closing"]
      BY <1>1, <2>4, <3>1, WayKept DEF Confirmed
    <3>2. CASE /\ stage' = [stage EXCEPT ![r] = "watching"]
               /\ rstatus' = [rstatus EXCEPT ![r] = "accepted"]
      <4>1. q # r => OnItsWay(q)'
        BY <1>1, <2>4, <3>2, WayKept DEF Confirmed
      <4>2. q = r => OnItsWay(q)'
        BY <1>1, <2>4, <3>2 DEF Confirmed, OnItsWay, NeverClaimed, Taken, Unclaimed
      <4> QED BY <4>1, <4>2
    <3> QED BY <2>4, <3>1, <3>2 DEF Confirmed
  <2>5. CASE ClaimRefused(r) \/ Unconfirmed(r) \/ Abandon(r)
    <3>1. stage' = [stage EXCEPT ![r] = "closing"] /\ UNCHANGED <<post, thread>>
      BY <2>5 DEF ClaimRefused, Unconfirmed, Abandon
    <3> QED BY <1>1, <3>1, WayKept
  <2> QED BY <1>4, <2>1, <2>2, <2>3, <2>4, <2>5 DEF Dispatch
<1>5. ASSUME NEW r \in Reply, Watch(r) PROVE OnItsWay(q)'
  <2>1. UNCHANGED <<post, thread>>
    BY <1>5 DEF Watch, SaveAnswerId, SaveAnswer, GiveUpAnswer, Leave
  <2>2. CASE \E to \in {"closing", "none"} : stage' = [stage EXCEPT ![r] = to]
    BY <1>1, <2>1, <2>2, WayKept
  <2>3. CASE /\ stage[r] = "watching" /\ stage' = [stage EXCEPT ![r] = "answered"]
             /\ UNCHANGED rstatus
    BY <1>1, <2>1, <2>3 DEF OnItsWay, NeverClaimed, Taken
  <2> QED BY <1>5, <2>2, <2>3 DEF Watch, SaveAnswerId, SaveAnswer, GiveUpAnswer, Leave
<1> QED BY <1>2, <1>3, <1>4, <1>5

\* A reply becomes a turn when its request arrives.
LEMMA LandsTakes ==
  ASSUME ReplyTypeOK, NEW r \in Reply, Lands(r), NEW q \in Reply
  PROVE  Taken(q)' <=> Taken(q) \/ q = r
<1> DEFINE d == ChatOf[q]
           turns == thread[d]
           len == Len(turns)
<1>1. /\ thread \in [Chat -> Seq(Turn)] /\ d \in Chat /\ ChatOf[r] \in Chat /\ r \in Turn
      /\ thread' = [thread EXCEPT ![ChatOf[r]] = Append(thread[ChatOf[r]], r)]
  BY ReplyAssumption DEF ReplyTypeOK, Lands, Turn
<1>2. CASE ChatOf[r] # d
  BY <1>1, <1>2 DEF Taken
<1>3. CASE ChatOf[r] = d
  <2>1. turns \in Seq(Turn) /\ len \in Nat /\ DOMAIN turns = 1 .. len
    BY <1>1
  <2>2. thread'[d] = Append(turns, r)
    BY <1>1, <1>3
  <2>3. /\ DOMAIN thread'[d] = 1 .. len + 1
        /\ \A i \in 1 .. len : thread'[d][i] = turns[i]
        /\ thread'[d][len + 1] = r
    BY <1>1, <2>1, <2>2
  <2>4. \A i \in 1 .. len + 1 : i \in 1 .. len \/ i = len + 1
    BY <2>1
  <2>5. Taken(q) <=> \E i \in 1 .. len : turns[i] = q
    BY <2>1 DEF Taken
  <2>6. Taken(q)' <=> \E i \in 1 .. len + 1 : thread'[d][i] = q
    BY <2>3 DEF Taken
  <2>7. \A i \in 1 .. len : i \in 1 .. len + 1
    BY <2>1
  <2>8. len + 1 \in 1 .. len + 1
    BY <2>1
  <2> HIDE DEF turns, len
  <2> QED BY <2>3, <2>4, <2>5, <2>6, <2>7, <2>8
<1> QED BY <1>2, <1>3

\* A request that arrives is a new turn, and one that is lost leaves no trace.
LEMMA ArrivalKeepsWay ==
  ASSUME ReplyInv, NEW q \in Reply, NEW r \in Reply, Lands(r) \/ Lost(r)
  PROVE  OnItsWay(q)'
<1> DEFINE d == ChatOf[q]
<1>1. /\ OnItsWay(q) /\ OnItsWay(r) /\ WayMove(q)
      /\ post \in [Reply -> {"none", "inflight", "done"}]
      /\ thread \in [Chat -> Seq(Turn)] /\ d \in Chat /\ ChatOf[r] \in Chat
  BY WorldMoves, ReplyAssumption DEF ReplyInv, ReplyTypeOK
<1>2. /\ post[r] = "inflight" /\ post' = [post EXCEPT ![r] = "done"]
      /\ UNCHANGED <<rstatus, stage>>
  BY DEF Lands, Lost, rowVars, workVars
<1>3. CASE UNCHANGED thread
  BY <1>1, <1>2, <1>3 DEF OnItsWay, NeverClaimed, Taken
<1>4. CASE Lands(r)
  <2>1. ~Taken(r) /\ post[r] # "none"
    BY <1>1, <1>2 DEF OnItsWay
  <2>2. thread' = [thread EXCEPT ![ChatOf[r]] = Append(thread[ChatOf[r]], r)] /\ r \in Turn
    BY <1>4 DEF Lands, Turn
  <2>3. CASE ChatOf[r] # d
    BY <1>1, <1>2, <2>2, <2>3 DEF OnItsWay, NeverClaimed, Taken
  <2>4. CASE ChatOf[r] = d
    <3> DEFINE turns == thread[d]
               len == Len(turns)
    <3>1. turns \in Seq(Turn) /\ len \in Nat /\ DOMAIN turns = 1 .. len
      BY <1>1
    <3>2. thread'[d] = Append(turns, r)
      BY <1>1, <2>2, <2>4
    <3>3. /\ DOMAIN thread'[d] = 1 .. len + 1
          /\ \A i \in 1 .. len : thread'[d][i] = turns[i]
          /\ thread'[d][len + 1] = r
      BY <2>2, <3>1, <3>2
    <3>4. \A i \in 1 .. len + 1 : i \in 1 .. len \/ i = len + 1
      BY <3>1
    <3>5. Taken(q)' <=> Taken(q) \/ q = r
      BY <1>4, LandsTakes DEF ReplyInv
    <3>6. \A i, j \in DOMAIN thread'[d] : thread'[d][i] = q /\ thread'[d][j] = q => i = j
      <4>1. \A i \in 1 .. len : turns[i] # r
        BY <2>1, <2>4, <3>1 DEF Taken
      <4>2. \A i, j \in 1 .. len : turns[i] = q /\ turns[j] = q => i = j
        BY <1>1, <3>1 DEF OnItsWay
      <4> QED BY <3>3, <3>4, <4>1, <4>2
    <3>7. thread'[d] # <<>>
      BY <3>1, <3>3
    <3> QED BY <1>1, <1>2, <2>1, <3>5, <3>6, <3>7 DEF OnItsWay, NeverClaimed
  <2> QED BY <2>3, <2>4
<1> QED BY <1>3, <1>4 DEF Lost

\* The first delivery puts the first turn into an empty conversation.
LEMMA OriginalKeepsWay ==
  ASSUME ReplyInv, NEW q \in Reply, NEW c \in Chat, OriginalTurn(c)
  PROVE  OnItsWay(q)'
<1>1. /\ OnItsWay(q) /\ Opening(c)
      /\ thread \in [Chat -> Seq(Turn)] /\ ChatOf[q] \in Chat /\ q # c
  BY ReplyAssumption DEF ReplyInv, ReplyTypeOK
<1>2. UNCHANGED <<rstatus, stage, post>>
  BY DEF OriginalTurn, ClaimDelivery, DeliverySucceeds, DeliveryUnknown, CaptureWrites, CaptureStops,
    RecoverOriginal, rowVars, workVars, gptVars
<1>3. CASE UNCHANGED thread
  BY <1>1, <1>2, <1>3 DEF OnItsWay, NeverClaimed, Taken
<1>4. CASE thread' = [thread EXCEPT ![c] = <<c>>] /\ delivery[c] = "running"
  <2>1. CASE ChatOf[q] # c
    BY <1>1, <1>2, <1>4, <2>1 DEF OnItsWay, NeverClaimed, Taken
  <2>2. CASE ChatOf[q] = c
    <3>1. thread[c] = <<>> /\ thread'[c] = <<c>>
      BY <1>1, <1>4 DEF Opening
    <3>2. ~Taken(q) /\ ~Taken(q)'
      BY <1>1, <2>2, <3>1 DEF Taken
    <3>3. \A i, j \in DOMAIN thread'[c] : thread'[c][i] = q /\ thread'[c][j] = q => i = j
      BY <3>1
    <3>4. <<c>> # <<>>
      OBVIOUS
    <3> QED BY <1>1, <1>2, <2>2, <3>1, <3>2, <3>3, <3>4 DEF OnItsWay, NeverClaimed
  <2> QED BY <2>1, <2>2
<1> QED BY <1>3, <1>4 DEF OriginalTurn, ClaimDelivery, DeliverySucceeds, DeliveryUnknown, CaptureWrites,
  CaptureStops, RecoverOriginal, gptVars

LEMMA NextKeepsWay ==
  ASSUME ReplyInv, [Next]_vars, NEW q \in Reply
  PROVE  OnItsWay(q)'
<1>1. OnItsWay(q) /\ stage \in [Reply -> Stage] /\ pump \in Reply \cup {None}
  BY DEF ReplyInv, ReplyTypeOK
<1>2. ASSUME NEW r \in Reply, NEW n \in 1 .. Cardinality(Reply), User(r, n) PROVE OnItsWay(q)'
  <2>1. WayMove(q)
    BY <1>2, UserMoves
  <2> QED BY <1>1, <1>2, <2>1, WayKept
    DEF User, Prepare, MergeFollowup, QueueFollowup, Insert, workVars, gptVars
<1>3. ASSUME NEW r \in Reply, OptIn(r) \/ RetryPreflight(r) PROVE OnItsWay(q)'
  <2>1. WayMove(q)
    BY <1>3, UserMoves
  <2> QED BY <1>1, <1>3, <2>1, WayKept DEF OptIn, RetryPreflight, workVars, gptVars
<1>4. ASSUME NEW c \in Chat, Stop(c) PROVE OnItsWay(q)'
  <2>1. WayMove(q)
    BY <1>4, UserMoves
  <2> QED BY <1>1, <1>4, <2>1, WayKept DEF Stop, workVars, gptVars
<1>5. ASSUME NEW r \in Reply, Pick(r) \/ Preflight(r) \/ Dispatch(r) \/ Watch(r) PROVE OnItsWay(q)'
  BY <1>5, DispatchKeepsWay
<1>6. CASE Submit
  <2>1. WayMove(q)
    BY <1>6, WorkerMoves
  <2>2. \/ UNCHANGED stage
        \/ pump \in Reply /\ stage' = [stage EXCEPT ![pump] = "run"]
    BY <1>1, <1>6 DEF Submit
  <2>3. stage'[q] \in {stage[q], "run"}
    BY <1>1, <2>2
  <2> QED BY <1>1, <1>6, <2>1, <2>3, WayKept DEF Submit, gptVars
<1>7. CASE Crash
  <2>1. WayMove(q)
    BY <1>7, WorkerMoves
  <2> QED BY <1>1, <1>7, <2>1, WayKept DEF Crash, gptVars
<1>8. ASSUME NEW r \in Reply, LeaseLapses(r) \/ HandOver(r) \/ RecoverReply(r) \/ RecoverReplyParent(r)
      PROVE  OnItsWay(q)'
  <2>1. WayMove(q)
    BY <1>8, WorldMoves
  <2> QED BY <1>1, <1>8, <2>1, WayKept
    DEF LeaseLapses, HandOver, RecoverReply, RecoverReplyParent, workVars, gptVars
<1>9. ASSUME NEW r \in Reply, Lands(r) \/ Lost(r) PROVE OnItsWay(q)'
  BY <1>9, ArrivalKeepsWay
<1>10. CASE RecoverOrphans
  <2>1. WayMove(q)
    BY <1>10, WorldMoves
  <2> QED BY <1>1, <1>10, <2>1, WayKept DEF RecoverOrphans, workVars, gptVars
<1>11. ASSUME NEW c \in Chat, OriginalTurn(c) PROVE OnItsWay(q)'
  BY <1>11, OriginalKeepsWay
<1>12. ASSUME NEW c \in Chat, RecoverOriginalParent(c) \/ NextMessage(c) \/ AnswerEnds(c)
       PROVE  OnItsWay(q)'
  BY <1>1, <1>12 DEF RecoverOriginalParent, NextMessage, AnswerEnds, rowVars, workVars, gptVars,
    OnItsWay, NeverClaimed, Taken
<1>13. CASE UNCHANGED vars
  BY <1>1, <1>13 DEF vars, rowVars, workVars, gptVars, OnItsWay, NeverClaimed, Taken
<1> QED BY <1>2, <1>3, <1>4, <1>5, <1>6, <1>7, <1>8, <1>9, <1>10, <1>11, <1>12, <1>13 DEF Next

\* A chat whose delivery, prompt and conversation are left alone.
LEMMA OpeningKept ==
  ASSUME NEW c \in Chat, Opening(c), \A q \in Reply : OpenMove(q),
         delivery'[c] = delivery[c], prompt'[c] = prompt[c], carried'[c] = carried[c],
         (thread'[c] = <<>>) <=> (thread[c] = <<>>),
         \/ original'[c] = original[c]
         \/ original[c] # "queued" /\ original'[c] # "queued"
  PROVE  Opening(c)'
<1>1. Merged(c)' = Merged(c)
  BY DEF Merged, Rows, OpenMove
<1>2. original'[c] = "queued" =>
        \A r \in Reply : ChatOf[r] = c => rstatus'[r] \in {"absent", "merged", "queued"}
  BY DEF Opening, OpenMove
<1> QED BY <1>1, <1>2 DEF Opening

LEMMA NextKeepsOpening ==
  ASSUME ReplyInv, [Next]_vars, NEW d \in Chat
  PROVE  Opening(d)'
<1> USE DEF rowVars, chatVars, workVars, gptVars
<1>1. /\ Opening(d)
      /\ \A r \in Reply : ChatOf[r] \in Chat
      /\ rstatus \in [Reply -> ReplyStatus]
      /\ original \in [Chat -> {"queued", "active", "outcome_unknown"} \cup Settled]
      /\ delivery \in [Chat -> {"waiting", "running", "over"}]
      /\ prompt \in [Chat -> SUBSET Reply] /\ carried \in [Chat -> SUBSET Reply]
      /\ thread \in [Chat -> Seq(Turn)]
  BY ReplyAssumption DEF ReplyInv, ReplyTypeOK
<1>2. ASSUME UNCHANGED <<original, delivery, prompt, carried, thread>>, \A q \in Reply : OpenMove(q)
      PROVE  Opening(d)'
  BY <1>1, <1>2, OpeningKept
<1>3. ASSUME NEW r \in Reply, NEW n \in 1 .. Cardinality(Reply), User(r, n) PROVE Opening(d)'
  <2>1. CASE Prepare(r, n) \/ QueueFollowup(r, n)
    BY <1>2, <2>1, UserMoves DEF Prepare, QueueFollowup, Insert
  <2>2. CASE MergeFollowup(r, n)
    <3>1. /\ rstatus[r] = "absent" /\ rstatus' = [rstatus EXCEPT ![r] = "merged"]
          /\ prompt' = [prompt EXCEPT ![ChatOf[r]] = prompt[ChatOf[r]] \cup {r}]
          /\ original[ChatOf[r]] = "queued" /\ delivery[ChatOf[r]] = "waiting"
          /\ UNCHANGED <<original, delivery, carried, thread>>
      BY <2>2 DEF MergeFollowup, Insert
    <3>2. \A q \in Reply : q # r => rstatus'[q] = rstatus[q]
      BY <1>1, <3>1
    <3>3. CASE d # ChatOf[r]
      <4>1. Merged(d)' = Merged(d)
        BY <3>2, <3>3 DEF Merged, Rows
      <4> QED BY <1>1, <3>1, <3>2, <3>3, <4>1 DEF Opening
    <3>4. CASE d = ChatOf[r]
      <4>1. Merged(d)' = Merged(d) \cup {r}
        BY <1>1, <3>1, <3>2, <3>4 DEF Merged, Rows
      <4>2. delivery'[d] = "waiting" /\ thread'[d] = <<>> /\ original'[d] = "queued"
        BY <1>1, <3>1, <3>4 DEF Opening
      <4>3. prompt'[d] = prompt[d] \cup {r}
        BY <1>1, <3>1, <3>4
      <4>4. \A q \in Reply : ChatOf[q] = d => rstatus'[q] \in {"absent", "merged", "queued"}
        BY <1>1, <3>1, <3>2, <3>4 DEF Opening
      <4> QED BY <1>1, <3>1, <3>4, <4>1, <4>2, <4>3, <4>4 DEF Opening
    <3> QED BY <3>3, <3>4
  <2> QED BY <1>3, <2>1, <2>2 DEF User
<1>4. ASSUME NEW r \in Reply, OptIn(r) \/ RetryPreflight(r) PROVE Opening(d)'
  BY <1>2, <1>4, UserMoves DEF OptIn, RetryPreflight
<1>5. ASSUME NEW c \in Chat, Stop(c) PROVE Opening(d)'
  <2>1. \A q \in Reply : \/ rstatus'[q] = rstatus[q]
                         \/ /\ ChatOf[q] = c /\ rstatus'[q] \in {"cancelled", "stopped"}
                            /\ rstatus[q] \in {"queued", "prepared", "interrupted", "outcome_unknown"}
                                                \cup InDispatch
    BY <1>5 DEF Stop
  <2>2. Merged(d)' = Merged(d)
    BY <2>1, Statuses DEF Merged, Rows
  <2>3. CASE c # d
    BY <1>1, <1>5, <2>1, <2>2, <2>3 DEF Stop, Opening
  <2>4. CASE c = d
    <3>1. delivery'[d] = "over" /\ UNCHANGED <<thread, carried>>
      BY <1>1, <1>5, <2>4 DEF Stop
    <3>2. original'[d] # "queued"
      BY <1>1, <1>5, <2>4 DEF Stop
    <3> QED BY <1>1, <2>2, <2>4, <3>1, <3>2, <1>5 DEF Opening, Stop
  <2> QED BY <2>3, <2>4
<1>6. ASSUME \/ \E r \in Reply : Pick(r) \/ Preflight(r) \/ Dispatch(r) \/ Watch(r)
             \/ Submit \/ Crash
      PROVE  Opening(d)'
  <2>1. UNCHANGED <<original, delivery, prompt, carried, thread>>
    <3>1. CASE \E r \in Reply : Pick(r) \/ Preflight(r)
      BY <3>1 DEF Pick, Preflight, Defer, PreflightPasses, PreflightFails
    <3>2. CASE \E r \in Reply : Dispatch(r)
      BY <3>2 DEF Dispatch, ClaimReply, ClaimRefused, Click, ClickFails, Confirmed, Unconfirmed, Abandon
    <3>3. CASE \E r \in Reply : Watch(r)
      BY <3>3 DEF Watch, SaveAnswerId, SaveAnswer, GiveUpAnswer, Leave
    <3>4. CASE Submit \/ Crash
      BY <3>4 DEF Submit, Crash
    <3> QED BY <1>6, <3>1, <3>2, <3>3, <3>4
  <2>2. \A q \in Reply : OpenMove(q)
    BY <1>6, WorkerMoves
  <2> QED BY <1>2, <2>1, <2>2
<1>7. ASSUME \/ \E r \in Reply : LeaseLapses(r) \/ HandOver(r) \/ RecoverReply(r) \/ RecoverReplyParent(r)
                                \/ Lost(r)
             \/ RecoverOrphans
             \/ \E c \in Chat : RecoverOriginalParent(c) \/ NextMessage(c) \/ AnswerEnds(c)
      PROVE  Opening(d)'
  <2>1. UNCHANGED <<original, delivery, prompt, carried, thread>>
    <3>1. CASE \E r \in Reply : LeaseLapses(r) \/ HandOver(r) \/ Lost(r)
      BY <3>1 DEF LeaseLapses, HandOver, Lost
    <3>2. CASE \E r \in Reply : RecoverReply(r) \/ RecoverReplyParent(r)
      BY <3>2 DEF RecoverReply, RecoverReplyParent
    <3>3. CASE RecoverOrphans
      BY <3>3 DEF RecoverOrphans
    <3>4. CASE \E c \in Chat : RecoverOriginalParent(c) \/ NextMessage(c) \/ AnswerEnds(c)
      BY <3>4 DEF RecoverOriginalParent, NextMessage, AnswerEnds
    <3> QED BY <1>7, <3>1, <3>2, <3>3, <3>4
  <2>2. \A q \in Reply : OpenMove(q)
    BY <1>7, WorldMoves
  <2> QED BY <1>2, <2>1, <2>2
<1>8. ASSUME NEW r \in Reply, Lands(r) PROVE Opening(d)'
  <2>1. post[r] # "none" /\ thread[ChatOf[r]] # <<>>
    BY <1>8 DEF Lands, ReplyInv, OnItsWay
  <2>2. Append(thread[ChatOf[r]], r) # <<>>
    <3>1. thread[ChatOf[r]] \in Seq(Turn) /\ r \in Turn
      BY <1>1 DEF Turn
    <3> QED BY <3>1
  <2>3. thread'[d] = <<>> <=> thread[d] = <<>>
    BY <1>1, <1>8, <2>1, <2>2 DEF Lands
  <2> QED BY <1>1, <1>8, <2>3, OpeningKept, WorldMoves DEF Lands
<1>9. ASSUME NEW c \in Chat, OriginalTurn(c) PROVE Opening(d)'
  <2>1. /\ \A q \in Reply : OpenMove(q)
        /\ UNCHANGED rstatus
    BY <1>9, WorldMoves DEF OriginalTurn, ClaimDelivery, DeliverySucceeds, DeliveryUnknown,
      CaptureWrites, CaptureStops, RecoverOriginal
  <2>2. Merged(d)' = Merged(d)
    BY <2>1 DEF Merged, Rows
  <2>3. CASE ClaimDelivery(c)
    BY <1>1, <2>1, <2>2, <2>3 DEF ClaimDelivery, Opening
  <2>4. CASE DeliverySucceeds(c) \/ DeliveryUnknown(c)
    <3>1. /\ delivery[c] = "running" /\ delivery' = [delivery EXCEPT ![c] = "over"]
          /\ thread' \in {thread, [thread EXCEPT ![c] = <<c>>]} /\ UNCHANGED <<prompt, carried>>
          /\ \A e \in Chat : e # c => original'[e] = original[e]
          /\ original'[c] # "queued"
      BY <1>1, <2>4 DEF DeliverySucceeds, DeliveryUnknown
    <3>2. CASE d = c
      BY <1>1, <2>2, <3>1, <3>2 DEF Opening
    <3>3. CASE d # c
      BY <1>1, <2>1, <2>2, <3>1, <3>3 DEF Opening
    <3> QED BY <3>2, <3>3
  <2>5. CASE CaptureWrites(c) \/ CaptureStops(c) \/ RecoverOriginal(c)
    <3>1. original[c] \in {"active", "interrupted"}
      BY <2>5 DEF CaptureWrites, CaptureStops, RecoverOriginal
    <3>2. \/ UNCHANGED original
          \/ \E st \in {"completed", "interrupted"} : original' = [original EXCEPT ![c] = st]
      BY <2>5 DEF CaptureWrites, CaptureStops, RecoverOriginal
    <3>3. UNCHANGED <<delivery, prompt, carried, thread>>
      BY <2>5 DEF CaptureWrites, CaptureStops, RecoverOriginal
    <3> QED BY <1>1, <2>1, <3>1, <3>2, <3>3, OpeningKept
  <2> QED BY <1>9, <2>3, <2>4, <2>5 DEF OriginalTurn
<1>10. CASE UNCHANGED vars
  BY <1>1, <1>10 DEF vars, Opening, Merged, Rows
<1> QED BY <1>3, <1>4, <1>5, <1>6, <1>7, <1>8, <1>9, <1>10 DEF Next

LEMMA InitInvariant == Init => ReplyInv
<1> SUFFICES ASSUME Init PROVE ReplyInv
  OBVIOUS
<1>1. \A r \in Reply : OnItsWay(r)
  BY ReplyAssumption DEF Init, OnItsWay, Taken, NeverClaimed
<1>2. \A c \in Chat : Opening(c)
  BY DEF Init, Opening, Merged, Rows
<1> QED BY <1>1, <1>2, InitTypes DEF ReplyInv

\* The way of every reply and the opening of every chat, in every reachable state
\* (claim_reply, finish, recover_orphans, acknowledge_submission, queue_followup).
THEOREM ReplyInvariant == Spec => []ReplyInv
<1>1. ReplyInv /\ [Next]_vars => ReplyInv'
  BY NextTypes, NextKeepsWay, NextKeepsOpening DEF ReplyInv
<1> QED BY <1>1, InitInvariant, PTL DEF Spec

\* What is reported as merged is in the prompt that ChatGPT got.
THEOREM MergesAreSent == Spec => []MergedIsSent
<1>1. ReplyInv => MergedIsSent
  BY DEF ReplyInv, Opening, Merged, MergedIsSent
<1> QED BY <1>1, ReplyInvariant, PTL

(***************************************************************************)
(* The promise                                                             *)
(***************************************************************************)

TakesAgree == \A r \in Reply : Takes(r) = IF Taken(r) THEN 1 ELSE 0

\* A reply is a turn once, or not at all.
LEMMA TakesCount == ReplyInv => TakesAgree
<1> SUFFICES ASSUME ReplyInv, NEW r \in Reply PROVE Takes(r) = IF Taken(r) THEN 1 ELSE 0
  BY DEF TakesAgree
<1> DEFINE turns == thread[ChatOf[r]]
           places == {i \in DOMAIN turns : turns[i] = r}
<1>1. CASE ~Taken(r)
  <2>1. places = {}
    BY <1>1 DEF Taken
  <2> QED BY <1>1, <2>1, FS_EmptySet DEF Takes
<1>2. CASE Taken(r)
  <2>1. PICK i \in DOMAIN turns : turns[i] = r
    BY <1>2 DEF Taken
  <2>2. places = {i}
    BY <2>1 DEF ReplyInv, OnItsWay
  <2>3. Cardinality({i}) = 1
    BY FS_Singleton
  <2> QED BY <1>2, <2>2, <2>3 DEF Takes
<1> QED BY <1>1, <1>2

Waiting == {"absent", "queued", "prepared", "preflight_failed"}
Claimed == {"dispatching", "outcome_unknown"}
Sent    == {"accepted", "completed", "interrupted"}

ReportsAgree ==
  \A r \in Reply :
    /\ rstatus[r] \in Waiting <=> Reported(r) = "waiting"
    /\ rstatus[r] \in Claimed <=> Reported(r) = "claimed"
    /\ rstatus[r] \in Sent <=> Reported(r) = "sent"
    /\ rstatus[r] = "stopped" <=> Reported(r) = "stopped"
    /\ rstatus[r] \in {"cancelled", "merged"} <=> Reported(r) = "withdrawn"

\* What is reported, status by status.
LEMMA Reports == ReplyTypeOK => ReportsAgree
<1> USE DEF Waiting, Claimed, Sent
<1> SUFFICES ASSUME ReplyTypeOK, NEW r \in Reply
             PROVE  \/ Reported(r) = "waiting" /\ rstatus[r] \in Waiting
                    \/ Reported(r) = "claimed" /\ rstatus[r] \in Claimed
                    \/ Reported(r) = "sent" /\ rstatus[r] \in Sent
                    \/ Reported(r) = "stopped" /\ rstatus[r] = "stopped"
                    \/ Reported(r) = "withdrawn" /\ rstatus[r] \in {"cancelled", "merged"}
  BY DEF ReportsAgree
<1>1. rstatus[r] \in ReplyStatus
  BY DEF ReplyTypeOK
<1> QED BY <1>1, Statuses DEF Reported

\* No other step than an arrival makes a reply a turn.
LEMMA OthersTakeNothing ==
  ASSUME ReplyInv, [Next]_vars, \A r \in Reply : ~Lands(r), NEW q \in Reply
  PROVE  Taken(q)' <=> Taken(q)
<1> USE DEF rowVars, chatVars, workVars, gptVars
<1>1. UNCHANGED thread => (Taken(q)' <=> Taken(q))
  BY DEF Taken
<1>2. ASSUME NEW r \in Reply, NEW n \in 1 .. Cardinality(Reply), User(r, n) PROVE UNCHANGED thread
  BY <1>2 DEF User, Prepare, MergeFollowup, QueueFollowup, Insert
<1>3. ASSUME NEW r \in Reply,
             OptIn(r) \/ RetryPreflight(r) \/ Pick(r) \/ Preflight(r) \/ Dispatch(r) \/ Watch(r)
      PROVE  UNCHANGED thread
  BY <1>3 DEF OptIn, RetryPreflight, Pick, Preflight, Defer, PreflightPasses, PreflightFails,
    Dispatch, ClaimReply, ClaimRefused, Click, ClickFails, Confirmed, Unconfirmed, Abandon,
    Watch, SaveAnswerId, SaveAnswer, GiveUpAnswer, Leave
<1>4. ASSUME NEW r \in Reply,
             LeaseLapses(r) \/ HandOver(r) \/ RecoverReply(r) \/ RecoverReplyParent(r) \/ Lost(r)
      PROVE  UNCHANGED thread
  BY <1>4 DEF LeaseLapses, HandOver, RecoverReply, RecoverReplyParent, Lost
<1>5. ASSUME Submit \/ Crash \/ RecoverOrphans PROVE UNCHANGED thread
  BY <1>5 DEF Submit, Crash, RecoverOrphans
<1>6. ASSUME NEW c \in Chat, Stop(c) \/ RecoverOriginalParent(c) \/ NextMessage(c) \/ AnswerEnds(c)
      PROVE  UNCHANGED thread
  BY <1>6 DEF Stop, RecoverOriginalParent, NextMessage, AnswerEnds
<1>7. ASSUME NEW c \in Chat, OriginalTurn(c) PROVE Taken(q)' <=> Taken(q)
  <2>1. CASE thread' = [thread EXCEPT ![c] = <<c>>] /\ delivery[c] = "running"
    <3>1. /\ thread \in [Chat -> Seq(Turn)] /\ ChatOf[q] \in Chat /\ q # c
      BY ReplyAssumption DEF ReplyInv, ReplyTypeOK
    <3>2. thread[c] = <<>>
      BY <2>1 DEF ReplyInv, Opening
    <3> QED BY <2>1, <3>1, <3>2 DEF Taken
  <2> QED BY <1>1, <1>7, <2>1 DEF OriginalTurn, ClaimDelivery, DeliverySucceeds, DeliveryUnknown,
    CaptureWrites, CaptureStops, RecoverOriginal
<1> QED BY <1>1, <1>2, <1>3, <1>4, <1>5, <1>6, <1>7 DEF Next, vars

\* A row that keeps its report
SameReport(q) ==
  \/ rstatus'[q] = rstatus[q]
  \/ rstatus[q] \in Waiting /\ rstatus'[q] \in Waiting
  \/ rstatus[q] \in Claimed /\ rstatus'[q] \in Claimed
  \/ rstatus[q] \in Sent /\ rstatus'[q] \in Sent

LEMMA ReportKept ==
  ASSUME ReportsAgree, ReportsAgree', NEW q \in Reply, SameReport(q)
  PROVE  Reported(q)' = Reported(q)
<1>1. CASE rstatus'[q] = rstatus[q]
  BY <1>1 DEF Reported
<1>2. CASE rstatus'[q] # rstatus[q]
  BY <1>2 DEF SameReport, ReportsAgree
<1> QED BY <1>1, <1>2

\* What a step may do to the report of one reply, without ChatGPT
Withdrawn(r) == rstatus[r] \in Waiting /\ rstatus'[r] = "merged"
ClaimedNow(r) == rstatus[r] \in Waiting /\ rstatus'[r] \in Claimed
SentNow(r)    == rstatus[r] \in Claimed /\ rstatus'[r] \in Sent

PromiseVars == <<[r \in Reply |-> Takes(r)], [r \in Reply |-> Reported(r)]>>

\* A step that moves at most one row, and no conversation, is one of the promise.
LEMMA OneReport ==
  ASSUME ReplyInv, ReplyInv', TakesAgree, TakesAgree', ReportsAgree, ReportsAgree',
         NEW r \in Reply, \A q \in Reply : Taken(q)' <=> Taken(q),
         \A q \in Reply : q # r => SameReport(q),
         SameReport(r) \/ Withdrawn(r) \/ ClaimedNow(r) \/ SentNow(r)
  PROVE  [Promise!Next]_PromiseVars
<1> DEFINE takes   == [q \in Reply |-> Takes(q)]
           verdict == [q \in Reply |-> Reported(q)]
<1>1. \A q \in Reply : Takes(q)' = Takes(q)
  BY DEF TakesAgree
<1>2. takes' = takes
  BY <1>1
<1>3. \A q \in Reply : q # r => Reported(q)' = Reported(q)
  BY ReportKept
<1>4. \A v : Reported(r)' = v => verdict' = [q \in Reply |-> IF q \in {r} THEN v ELSE verdict[q]]
  BY <1>3
<1>5. CASE SameReport(r)
  <2>1. verdict' = verdict
    BY <1>3, <1>5, ReportKept
  <2> QED BY <1>2, <2>1 DEF PromiseVars
<1>6. CASE Withdrawn(r)
  <2>1. Reported(r) = "waiting" /\ Reported(r)' = "withdrawn"
    BY <1>6 DEF Withdrawn, ReportsAgree
  <2>2. Promise!Merge(r)
    BY <1>2, <1>4, <2>1 DEF Promise!Merge, Promise!Decide
  <2> QED BY <2>2 DEF Promise!Next
<1>7. CASE ClaimedNow(r)
  <2>1. Reported(r) = "waiting" /\ Reported(r)' = "claimed"
    BY <1>7 DEF ClaimedNow, ReportsAgree
  <2>2. Promise!Claim(r)
    BY <1>2, <1>4, <2>1 DEF Promise!Claim, Promise!Decide
  <2> QED BY <2>2 DEF Promise!Next
<1>8. CASE SentNow(r)
  <2>1. Reported(r) = "claimed" /\ Reported(r)' = "sent"
    BY <1>8 DEF SentNow, ReportsAgree
  <2>2. Taken(r)'
    BY <1>8 DEF SentNow, Sent, ReplyInv, OnItsWay
  <2>3. takes[r] = 1
    BY <2>2 DEF TakesAgree
  <2>4. Promise!Confirm(r)
    BY <1>2, <1>4, <2>1, <2>3 DEF Promise!Confirm, Promise!Decide
  <2> QED BY <2>4 DEF Promise!Next
<1> QED BY <1>5, <1>6, <1>7, <1>8

\* finish keeps every report.
LEMMA FinishReports ==
  ASSUME ReplyTypeOK, NEW r \in Reply, Finish(r), NEW q \in Reply
  PROVE  SameReport(q)
BY FinishMoves DEF SameReport, Claimed, Sent

\* The worker claims a reply, or learns that it was sent.
LEMMA WorkerReports ==
  ASSUME ReplyTypeOK, NEW r \in Reply, Pick(r) \/ Preflight(r) \/ Dispatch(r) \/ Watch(r)
  PROVE  /\ \A q \in Reply : q # r => SameReport(q)
         /\ SameReport(r) \/ ClaimedNow(r) \/ SentNow(r)
<1> USE DEF SameReport, ClaimedNow, SentNow, Waiting, Claimed, Sent
<1> rstatus \in [Reply -> ReplyStatus]
  BY DEF ReplyTypeOK
<1>1. CASE Pick(r)
  <2>1. rstatus[r] \in {"queued", "prepared"}
    BY <1>1 DEF Pick, Ready
  <2> QED BY <1>1, <2>1 DEF Pick
<1>2. CASE Preflight(r)
  <2>1. CASE PreflightFails(r)
    <3> DEFINE st == IF rstatus[r] = "prepared" THEN "preflight_failed" ELSE rstatus[r]
    <3>1. rstatus' = [rstatus EXCEPT ![r] = st]
      BY <2>1 DEF PreflightFails
    <3>2. \/ st = rstatus[r]
          \/ st = "preflight_failed" /\ rstatus[r] = "prepared"
      OBVIOUS
    <3> HIDE DEF st
    <3> QED BY <3>1, <3>2
  <2>2. CASE UNCHANGED rstatus
    BY <2>2
  <2> QED BY <1>2, <2>1, <2>2 DEF Preflight, Defer, PreflightPasses, rowVars
<1>3. CASE Dispatch(r)
  <2>1. CASE ClaimReply(r)
    BY <2>1 DEF ClaimReply
  <2>2. CASE UNCHANGED rstatus
    BY <2>2
  <2>3. CASE Finish(r)
    BY <2>3, FinishReports
  <2>4. CASE rstatus[r] = "dispatching" /\ rstatus' = [rstatus EXCEPT ![r] = "accepted"]
    BY <2>4
  <2> QED BY <1>3, <2>1, <2>2, <2>3, <2>4 DEF Dispatch, ClaimRefused, Click, ClickFails, Confirmed,
    Unconfirmed, Abandon, rowVars
<1>4. CASE Watch(r)
  <2>1. CASE UNCHANGED rstatus
    BY <2>1
  <2>2. CASE Finish(r)
    BY <2>2, FinishReports
  <2>3. CASE rstatus[r] = "accepted" /\ rstatus' = [rstatus EXCEPT ![r] = "completed"]
    BY <2>3
  <2> QED BY <1>4, <2>1, <2>2, <2>3 DEF Watch, SaveAnswerId, SaveAnswer, GiveUpAnswer, Leave, rowVars
<1> QED BY <1>1, <1>2, <1>3, <1>4

\* Two ways a step of the system is one of the promise: the request of a reply
\* arrives, and the user stops a chat.
LEMMA ArrivalIsTake ==
  ASSUME ReplyInv, TakesAgree, TakesAgree', ReportsAgree, NEW r \in Reply, Lands(r)
  PROVE  Promise!Take(r)
<1> DEFINE takes   == [q \in Reply |-> Takes(q)]
           verdict == [q \in Reply |-> Reported(q)]
<1>1. ReplyTypeOK /\ rstatus[r] \in ReplyStatus /\ OnItsWay(r)
  BY DEF ReplyInv, ReplyTypeOK
<1>2. \A q \in Reply : Taken(q)' <=> Taken(q) \/ q = r
  BY <1>1, LandsTakes
<1>3. ~Taken(r) /\ ~NeverClaimed(r) /\ rstatus[r] \notin Sent
  BY <1>1 DEF Lands, OnItsWay, Sent
<1>4. Reported(r) \in {"claimed", "stopped"}
  BY <1>1, <1>3, Statuses DEF NeverClaimed, ReportsAgree, Claimed, Sent
<1>5. takes[r] = 0
  BY <1>3 DEF TakesAgree
<1>6. takes' = [takes EXCEPT ![r] = 1]
  <2>1. \A q \in Reply : Takes(q)' = IF q = r THEN 1 ELSE Takes(q)
    BY <1>2 DEF TakesAgree
  <2> QED BY <2>1
<1>7. verdict' = verdict
  BY DEF Lands, rowVars, Reported
<1> QED BY <1>4, <1>5, <1>6, <1>7 DEF Promise!Take

LEMMA StopIsStop ==
  ASSUME ReplyInv, TakesAgree, TakesAgree', ReportsAgree, ReportsAgree', NEW c \in Chat, Stop(c)
  PROVE  \E R \in SUBSET Reply : Promise!Stop(R)
<1> DEFINE takes   == [q \in Reply |-> Takes(q)]
           verdict == [q \in Reply |-> Reported(q)]
           R == {q \in Reply : rstatus'[q] # rstatus[q]}
<1>1. \A q \in Reply : Takes(q)' = Takes(q)
  BY DEF Takes, Stop, gptVars
<1>2. \A q \in Reply :
        \/ rstatus'[q] = rstatus[q]
        \/ rstatus[q] \in Waiting /\ rstatus'[q] = "cancelled"
        \/ rstatus[q] \in Claimed \cup Sent /\ rstatus'[q] = "stopped"
  BY Statuses DEF Stop, Waiting, Claimed, Sent
<1>3. ASSUME NEW q \in Reply
      PROVE  Reported(q)' = CASE q \in R /\ verdict[q] = "waiting" -> "withdrawn"
                             [] q \in R /\ verdict[q] \in {"claimed", "sent"} -> "stopped"
                             [] OTHER -> verdict[q]
  <2>1. CASE q \notin R
    <3>1. rstatus'[q] = rstatus[q]
      BY <2>1
    <3>2. Reported(q)' = Reported(q)
      BY <3>1, ReportKept DEF SameReport
    <3> HIDE DEF R
    <3> QED BY <2>1, <3>2
  <2>2. CASE q \in R /\ rstatus[q] \in Waiting /\ rstatus'[q] = "cancelled"
    BY <2>2 DEF ReportsAgree
  <2>3. CASE q \in R /\ rstatus[q] \in Claimed \cup Sent /\ rstatus'[q] = "stopped"
    BY <2>3 DEF ReportsAgree
  <2> QED BY <1>2, <2>1, <2>2, <2>3
<1>4. Promise!Stop(R)
  BY <1>1, <1>3 DEF Promise!Stop
<1> QED BY <1>4

LEMMA PromiseStep ==
  ASSUME ReplyInv, ReplyInv', TakesAgree, TakesAgree', ReportsAgree, ReportsAgree', [Next]_vars
  PROVE  [Promise!Next]_PromiseVars
<1> USE DEF SameReport, ClaimedNow, SentNow, Withdrawn, Waiting, Claimed, Sent
<1>1. /\ ReplyTypeOK /\ rstatus \in [Reply -> ReplyStatus] /\ pump \in Reply \cup {None}
  BY DEF ReplyInv, ReplyTypeOK
<1>2. CASE \E r \in Reply : Lands(r)
  BY <1>2, ArrivalIsTake DEF Promise!Next
<1>3. CASE \A r \in Reply : ~Lands(r)
  <2>1. \A q \in Reply : Taken(q)' <=> Taken(q)
    BY <1>3, OthersTakeNothing
  <2>2. ASSUME NEW r \in Reply, \A q \in Reply : q # r => SameReport(q),
               SameReport(r) \/ Withdrawn(r) \/ ClaimedNow(r) \/ SentNow(r)
        PROVE  [Promise!Next]_PromiseVars
    BY <2>1, <2>2, OneReport
  <2>3. ASSUME \A q \in Reply : SameReport(q) PROVE [Promise!Next]_PromiseVars
    <3>1. \A q \in Reply : Takes(q)' = Takes(q) /\ Reported(q)' = Reported(q)
      BY <2>1, <2>3, ReportKept DEF TakesAgree
    <3> QED BY <3>1 DEF PromiseVars
  <2>4. ASSUME NEW r \in Reply, NEW n \in 1 .. Cardinality(Reply), User(r, n)
        PROVE  [Promise!Next]_PromiseVars
    <3>1. /\ rstatus[r] = "absent"
          /\ \E st \in {"prepared", "merged", "queued"} : rstatus' = [rstatus EXCEPT ![r] = st]
      BY <2>4 DEF User, Prepare, MergeFollowup, QueueFollowup, Insert
    <3> QED BY <1>1, <2>2, <3>1
  <2>5. ASSUME NEW r \in Reply, OptIn(r) \/ RetryPreflight(r) PROVE [Promise!Next]_PromiseVars
    BY <1>1, <2>3, <2>5 DEF OptIn, RetryPreflight
  <2>6. ASSUME NEW r \in Reply, Pick(r) \/ Preflight(r) \/ Dispatch(r) \/ Watch(r)
        PROVE  [Promise!Next]_PromiseVars
    BY <1>1, <2>2, <2>6, WorkerReports
  <2>7. ASSUME NEW r \in Reply, LeaseLapses(r) \/ HandOver(r) \/ Lost(r) PROVE [Promise!Next]_PromiseVars
    BY <2>3, <2>7 DEF LeaseLapses, HandOver, Lost, rowVars
  <2>8. ASSUME NEW r \in Reply, RecoverReply(r) PROVE [Promise!Next]_PromiseVars
    <3>1. /\ rstatus[r] \in {"outcome_unknown", "interrupted", "accepted"}
          /\ UNCHANGED rstatus \/ rstatus' = [rstatus EXCEPT ![r] = "completed"]
      BY <2>8 DEF RecoverReply
    <3> QED BY <1>1, <2>2, <3>1
  <2>9. ASSUME NEW r \in Reply, RecoverReplyParent(r) PROVE [Promise!Next]_PromiseVars
    <3> DEFINE st == IF rstatus[r] = "outcome_unknown" THEN "interrupted" ELSE rstatus[r]
    <3>1. rstatus' = [rstatus EXCEPT ![r] = st]
      BY <2>9 DEF RecoverReplyParent
    <3>2. \/ st = rstatus[r]
          \/ st = "interrupted" /\ rstatus[r] = "outcome_unknown"
      OBVIOUS
    <3> HIDE DEF st
    <3> QED BY <1>1, <2>2, <3>1, <3>2
  <2>10. CASE Submit
    BY <1>1, <2>3, <2>10 DEF Submit
  <2>11. CASE Crash
    BY <2>3, <2>11 DEF Crash
  <2>12. CASE RecoverOrphans
    <3>1. \A q \in Reply : SameReport(q)
      BY <2>12, Statuses DEF RecoverOrphans, Orphaned
    <3> QED BY <2>3, <3>1
  <2>13. ASSUME NEW c \in Chat, Stop(c) PROVE [Promise!Next]_PromiseVars
    BY <2>13, StopIsStop DEF Promise!Next
  <2>14. ASSUME NEW c \in Chat,
                OriginalTurn(c) \/ RecoverOriginalParent(c) \/ NextMessage(c) \/ AnswerEnds(c)
         PROVE  [Promise!Next]_PromiseVars
    BY <2>3, <2>14 DEF OriginalTurn, ClaimDelivery, DeliverySucceeds, DeliveryUnknown, CaptureWrites,
      CaptureStops, RecoverOriginal, RecoverOriginalParent, NextMessage, AnswerEnds, rowVars
  <2>15. CASE UNCHANGED vars
    BY <2>3, <2>15 DEF vars, rowVars
  <2> QED BY <1>3, <2>4, <2>5, <2>6, <2>7, <2>8, <2>9, <2>10, <2>11, <2>12, <2>13, <2>14, <2>15 DEF Next
<1> QED BY <1>2, <1>3

\* ChatGPT takes every follow-up at most once, only after its one claim, and never
\* after it was withdrawn; one reported as sent was (claim_reply, click_send,
\* recover_orphans, recover_historical_reply, Stop).
THEOREM PromiseKept == Spec => KeepsPromise
<1>1. Init => Promise!Init
  <2>1. Init => \A r \in Reply : Takes(r) = 0
    <3>1. Init => \A r \in Reply : ~Taken(r)
      BY ReplyAssumption DEF Init, Taken
    <3>2. Init => TakesAgree
      BY InitInvariant, TakesCount
    <3> QED BY <3>1, <3>2 DEF TakesAgree
  <2>2. Init => \A r \in Reply : Reported(r) = "waiting"
    <3>1. Init => ReportsAgree
      BY InitTypes, Reports
    <3> QED BY <3>1 DEF Init, ReportsAgree, Waiting
  <2> QED BY <2>1, <2>2 DEF Promise!Init
<1>2. ReplyInv => TakesAgree /\ ReportsAgree
  BY TakesCount, Reports DEF ReplyInv
<1>3. ReplyInv' => TakesAgree' /\ ReportsAgree'
  BY <1>2, PTL
<1>4. ReplyInv /\ ReplyInv' /\ [Next]_vars => [Promise!Next]_PromiseVars
  BY <1>2, <1>3, PromiseStep
<1>5. [Promise!Next]_PromiseVars <=>
        [Promise!Next]_<<[r \in Reply |-> Takes(r)], [r \in Reply |-> Reported(r)]>>
  BY DEF PromiseVars
<1> QED BY <1>1, <1>4, <1>5, ReplyInvariant, PTL DEF Spec, KeepsPromise, Promise!Spec

(***************************************************************************)
(* Slots                                                                   *)
(***************************************************************************)

\* Only the claim makes a row "dispatching".
LEMMA OnlyClaims ==
  ASSUME ReplyTypeOK, [Next]_vars, NEW q \in Reply,
         rstatus[q] # "dispatching", rstatus'[q] = "dispatching"
  PROVE  ClaimReply(q)
<1> rstatus \in [Reply -> ReplyStatus] /\ pump \in Reply \cup {None}
  BY DEF ReplyTypeOK
<1> USE DEF rowVars
<1>1. ASSUME NEW r \in Reply PROVE ~Finish(r)
  BY FinishMoves
<1>2. ASSUME NEW r \in Reply, NEW n \in 1 .. Cardinality(Reply), User(r, n) PROVE FALSE
  <2>1. \E st \in {"prepared", "merged", "queued"} : rstatus' = [rstatus EXCEPT ![r] = st]
    BY <1>2 DEF User, Prepare, MergeFollowup, QueueFollowup, Insert
  <2> QED BY <2>1
<1>3. ASSUME NEW r \in Reply, OptIn(r) \/ RetryPreflight(r) \/ Pick(r) PROVE FALSE
  BY <1>3 DEF OptIn, RetryPreflight, Pick
<1>4. ASSUME NEW r \in Reply, Preflight(r) PROVE FALSE
  BY <1>4 DEF Preflight, Defer, PreflightPasses, PreflightFails
<1>5. ASSUME NEW r \in Reply, Dispatch(r) PROVE ClaimReply(q)
  <2>1. CASE ClaimReply(r)
    BY <2>1 DEF ClaimReply
  <2>2. CASE rstatus' = [rstatus EXCEPT ![r] = "accepted"]
    BY <2>2
  <2> QED BY <1>1, <1>5, <2>1, <2>2 DEF Dispatch, ClaimRefused, Click, ClickFails, Confirmed,
    Unconfirmed, Abandon
<1>6. ASSUME NEW r \in Reply, Watch(r) PROVE FALSE
  BY <1>1, <1>6 DEF Watch, SaveAnswerId, SaveAnswer, GiveUpAnswer, Leave
<1>7. ASSUME NEW r \in Reply, LeaseLapses(r) \/ HandOver(r) \/ Lands(r) \/ Lost(r) PROVE FALSE
  BY <1>7 DEF LeaseLapses, HandOver, Lands, Lost
<1>8. ASSUME NEW r \in Reply, RecoverReply(r) PROVE FALSE
  <2>1. UNCHANGED rstatus \/ rstatus' = [rstatus EXCEPT ![r] = "completed"]
    BY <1>8 DEF RecoverReply
  <2> QED BY <2>1
<1>9. ASSUME NEW r \in Reply, RecoverReplyParent(r) PROVE FALSE
  BY <1>9 DEF RecoverReplyParent
<1>10. ~Submit
  BY DEF Submit
<1>11. ~Crash /\ ~RecoverOrphans
  BY DEF Crash, RecoverOrphans
<1>12. ASSUME NEW c \in Chat, Stop(c) PROVE FALSE
  BY <1>12 DEF Stop
<1>13. ASSUME NEW c \in Chat,
              OriginalTurn(c) \/ RecoverOriginalParent(c) \/ NextMessage(c) \/ AnswerEnds(c)
       PROVE  FALSE
  BY <1>13 DEF OriginalTurn, ClaimDelivery, DeliverySucceeds, DeliveryUnknown, CaptureWrites,
    CaptureStops, RecoverOriginal, RecoverOriginalParent, NextMessage, AnswerEnds
<1>14. ~UNCHANGED vars
  BY DEF vars
<1> QED BY <1>2, <1>3, <1>4, <1>5, <1>6, <1>7, <1>8, <1>9, <1>10, <1>11, <1>12, <1>13, <1>14 DEF Next

\* A claim adds at most the chat of the reply to the occupied ones.
LEMMA ClaimFits ==
  ASSUME ReplyTypeOK, NEW r \in Reply, ClaimReply(r)
  PROVE  Cardinality(Occupied') <= MaxActive
<1> DEFINE O == Occupied
           N == Occupied'
           c == ChatOf[r]
<1>1. N \subseteq O \cup {c}
  <2>1. \A q \in Reply : q # r => (LiveReply(q)' <=> LiveReply(q))
    BY DEF ClaimReply, LiveReply, ReplyTypeOK
  <2>2. UNCHANGED <<delivery, original>>
    BY DEF ClaimReply, chatVars
  <2> QED BY <2>1, <2>2 DEF Occupied
<1>2. IsFiniteSet(O)
  BY FS_Subset, ReplyAssumption DEF Occupied
<1>3. Cardinality(O) < MaxActive
  BY DEF ClaimReply, SlotFree
<1> HIDE DEF O, N
<1>4. IsFiniteSet(O \cup {c}) /\ Cardinality(O \cup {c}) <= Cardinality(O) + 1
  <2>1. Cardinality(O) \in Nat
    BY <1>2, FS_CardinalityType
  <2>2. Cardinality(O \cup {c}) = IF c \in O THEN Cardinality(O) ELSE Cardinality(O) + 1
    BY <1>2, FS_AddElement
  <2>3. IsFiniteSet(O \cup {c})
    BY <1>2, FS_AddElement
  <2> HIDE DEF c
  <2> DEFINE n == Cardinality(O)
             m == Cardinality(O \cup {c})
  <2> HIDE DEF n, m
  <2>4. m <= n + 1
    BY <2>1, <2>2 DEF n, m
  <2> QED BY <2>3, <2>4 DEF n, m
<1>5. IsFiniteSet(N) /\ Cardinality(N) <= Cardinality(O \cup {c})
  BY <1>1, <1>4, FS_Subset
<1>6. Cardinality(N) <= MaxActive
  <2>1. Cardinality(N) \in Nat /\ Cardinality(O) \in Nat /\ Cardinality(O \cup {c}) \in Nat
    BY <1>2, <1>4, <1>5, FS_CardinalityType
  <2>2. MaxActive \in Nat
    BY ReplyAssumption
  <2> QED BY <1>3, <1>4, <1>5, <2>1, <2>2
<1> QED BY <1>6 DEF N

\* A reply is claimed only when first deliveries, captures and other replies leave
\* a slot free (claim_reply).
THEOREM ClaimsFindASlot == Spec => ClaimsWithinLimit
<1>1. ReplyTypeOK /\ [Next]_vars =>
        [\A r \in Reply : rstatus[r] # "dispatching" /\ rstatus'[r] = "dispatching" =>
            Cardinality(Occupied') <= MaxActive]_vars
  BY OnlyClaims, ClaimFits
<1> QED BY <1>1, ReplyTypes, PTL DEF Spec, ClaimsWithinLimit

(***************************************************************************)
(* The order of the turns                                                  *)
(***************************************************************************)

\* The rows that are bound to no parent: not read yet, or withdrawn.
Loose == {"absent", "queued", "merged", "cancelled"}

\* A bound row answers the last turn before it, and all turns before it are over
\* and in the conversation.
Bound(r) ==
  LET c == ChatOf[r]
      before == Earlier(Branch(c), r)
  IN  /\ parent[r] # NoId /\ parent[r][1] = LastOf(before, c)
      /\ \A q \in before : rstatus[q] \in Settled /\ Taken(q)

StampsTell ==
  \A r \in Reply :
    /\ rstatus[r] = "absent" <=> stamp[r] = 0
    /\ \A q \in Reply : stamp[r] = stamp[q] /\ stamp[r] # 0 => r = q

Present(t) == (t \in Chat /\ thread[t] # <<>>) \/ (t \in Reply /\ Taken(t))

\* Only a turn of the conversation has an answer, or the id of one.
AnswersTaken == \A t \in Turn : units[t] > 0 \/ messageId[t] # 0 => Present(t)

\* TurnsInOrder for one chat, and that its conversation begins with the original.
Chain(c) ==
  /\ thread[c] # <<>> => thread[c][1] = c
  /\ \A i \in 2 .. Len(thread[c]) :
       LET r == thread[c][i] IN
       /\ r \in Reply /\ ChatOf[r] = c
       /\ parent[r] # NoId /\ parent[r][1] = thread[c][i - 1]
       /\ \A j \in 2 .. i - 1 : stamp[thread[c][j]] < stamp[r]

OrderInv ==
  /\ StampsTell
  /\ AnswersTaken
  /\ \A r \in Reply : rstatus[r] \notin Loose => Bound(r)
  /\ \A c \in Chat : Chain(c)

(***************************************************************************)
(* How a step may move rows and answers                                    *)
(***************************************************************************)
RowMove(q) ==
  /\ rstatus[q] \in Settled => rstatus'[q] \in Settled
  /\ rstatus'[q] = "absent" <=> rstatus[q] = "absent"
  /\ rstatus'[q] \notin Loose => rstatus[q] \notin Loose
  /\ rstatus'[q] \notin {"cancelled", "merged"} => rstatus[q] \notin {"cancelled", "merged"}

RowsStay(q) == UNCHANGED <<stamp, parent>> /\ RowMove(q)

LEMMA FinishMovesRow ==
  ASSUME ReplyTypeOK, NEW r \in Reply, Finish(r), NEW q \in Reply
  PROVE  RowMove(q)
BY FinishMoves, Statuses DEF RowMove, Loose

\* Nothing but a new row and Pick binds a row, and nothing opens a turn again.
LEMMA UserMovesRows ==
  ASSUME ReplyTypeOK, NEW q \in Reply,
         \/ \E r \in Reply : OptIn(r) \/ RetryPreflight(r)
         \/ \E c \in Chat : Stop(c)
  PROVE  RowsStay(q)
<1> USE Statuses DEF RowMove, RowsStay, Loose, ReplyTypeOK
<1>1. ASSUME NEW r \in Reply, OptIn(r) \/ RetryPreflight(r) PROVE RowsStay(q)
  BY <1>1 DEF OptIn, RetryPreflight
<1>2. ASSUME NEW c \in Chat, Stop(c) PROVE RowsStay(q)
  BY <1>2 DEF Stop
<1> QED BY <1>1, <1>2

LEMMA WorkerMovesRows ==
  ASSUME ReplyTypeOK, NEW q \in Reply,
         \/ \E r \in Reply : Preflight(r) \/ Dispatch(r) \/ Watch(r)
         \/ Submit \/ Crash
  PROVE  RowsStay(q)
<1> USE DEF RowsStay
<1>1. rstatus \in [Reply -> ReplyStatus] /\ pump \in Reply \cup {None}
  BY DEF ReplyTypeOK
<1>2. UNCHANGED rstatus => RowMove(q)
  BY DEF RowMove
<1>3. \A r \in Reply : Finish(r) => RowMove(q)
  BY FinishMovesRow
<1>4. ASSUME NEW r \in Reply, Preflight(r) PROVE RowsStay(q)
  <2>1. CASE PreflightFails(r)
    BY <1>1, <2>1, Statuses DEF PreflightFails, RowMove, Loose
  <2>2. CASE Defer(r) \/ PreflightPasses(r)
    BY <1>2, <2>2 DEF Defer, PreflightPasses, rowVars
  <2> QED BY <1>4, <2>1, <2>2 DEF Preflight
<1>5. ASSUME NEW r \in Reply, Dispatch(r) PROVE RowsStay(q)
  <2>1. CASE ClaimReply(r)
    BY <1>1, <2>1, Statuses DEF ClaimReply, RowMove, Loose
  <2>2. CASE ClaimRefused(r) \/ Click(r) \/ Abandon(r)
    BY <1>2, <2>2 DEF ClaimRefused, Click, Abandon, rowVars
  <2>3. CASE ClickFails(r) \/ Unconfirmed(r)
    BY <1>3, <2>3 DEF ClickFails, Unconfirmed
  <2>4. CASE Confirmed(r)
    <3>1. CASE rstatus[r] = "dispatching" /\ rstatus' = [rstatus EXCEPT ![r] = "accepted"]
      BY <1>1, <2>4, <3>1, Statuses DEF Confirmed, RowMove, Loose
    <3>2. CASE Finish(r)
      BY <1>3, <2>4, <3>2 DEF Confirmed
    <3> QED BY <2>4, <3>1, <3>2 DEF Confirmed
  <2> QED BY <1>5, <2>1, <2>2, <2>3, <2>4 DEF Dispatch
<1>6. ASSUME NEW r \in Reply, Watch(r) PROVE RowsStay(q)
  <2>1. UNCHANGED <<stamp, parent>>
    BY <1>6 DEF Watch, SaveAnswerId, SaveAnswer, GiveUpAnswer, Leave, rowVars
  <2>2. CASE UNCHANGED rstatus \/ Finish(r)
    BY <1>2, <1>3, <2>1, <2>2
  <2>3. CASE rstatus[r] = "accepted" /\ rstatus' = [rstatus EXCEPT ![r] = "completed"]
    BY <1>1, <2>1, <2>3, Statuses DEF RowMove, Loose
  <2> QED BY <1>6, <2>2, <2>3 DEF Watch, SaveAnswerId, SaveAnswer, GiveUpAnswer, Leave, rowVars
<1>7. CASE Submit
  <2>1. CASE UNCHANGED rstatus
    BY <1>2, <1>7, <2>1 DEF Submit
  <2>2. CASE /\ rstatus[pump] \in {"prepared", "preflight_failed"} /\ pump \in Reply
             /\ rstatus' = [rstatus EXCEPT ![pump] = "prepared"]
    BY <1>1, <1>7, <2>2, Statuses DEF Submit, RowMove, Loose
  <2> QED BY <1>1, <1>7, <2>1, <2>2 DEF Submit
<1>8. CASE Crash
  BY <1>2, <1>8 DEF Crash
<1> QED BY <1>4, <1>5, <1>6, <1>7, <1>8

LEMMA WorldMovesRows ==
  ASSUME ReplyTypeOK, NEW q \in Reply,
         \/ \E r \in Reply : \/ LeaseLapses(r) \/ HandOver(r)
                             \/ RecoverReply(r) \/ RecoverReplyParent(r)
                             \/ Lands(r) \/ Lost(r)
         \/ RecoverOrphans
         \/ \E c \in Chat : \/ OriginalTurn(c) \/ RecoverOriginalParent(c)
                            \/ NextMessage(c) \/ AnswerEnds(c)
         \/ UNCHANGED vars
  PROVE  RowsStay(q)
<1> USE DEF RowsStay
<1>1. rstatus \in [Reply -> ReplyStatus]
  BY DEF ReplyTypeOK
<1>2. UNCHANGED rstatus => RowMove(q)
  BY DEF RowMove
<1>3. ASSUME NEW r \in Reply, RecoverReply(r) PROVE RowsStay(q)
  <2>1. rstatus[r] \in {"outcome_unknown", "interrupted", "accepted"} /\ UNCHANGED <<stamp, parent>>
    BY <1>3 DEF RecoverReply
  <2>2. UNCHANGED rstatus \/ rstatus' = [rstatus EXCEPT ![r] = "completed"]
    BY <1>3 DEF RecoverReply
  <2> QED BY <1>1, <1>2, <2>1, <2>2, Statuses DEF RowMove, Loose
<1>4. ASSUME NEW r \in Reply, RecoverReplyParent(r) PROVE RowsStay(q)
  <2> DEFINE st == IF rstatus[r] = "outcome_unknown" THEN "interrupted" ELSE rstatus[r]
  <2>1. rstatus' = [rstatus EXCEPT ![r] = st] /\ UNCHANGED <<stamp, parent>>
    BY <1>4 DEF RecoverReplyParent
  <2>2. \/ st = rstatus[r]
        \/ st = "interrupted" /\ rstatus[r] = "outcome_unknown"
    OBVIOUS
  <2> HIDE DEF st
  <2> QED BY <1>1, <1>2, <2>1, <2>2, Statuses DEF RowMove, Loose
<1>5. CASE RecoverOrphans
  <2>1. \/ rstatus'[q] = rstatus[q]
        \/ rstatus[q] = "dispatching" /\ rstatus'[q] = "outcome_unknown"
        \/ rstatus[q] = "accepted" /\ rstatus'[q] = "interrupted"
    BY <1>5, Statuses DEF RecoverOrphans, Orphaned
  <2> QED BY <1>1, <1>5, <2>1, Statuses DEF RecoverOrphans, RowMove, Loose
<1>6. ASSUME NEW r \in Reply, LeaseLapses(r) \/ HandOver(r) \/ Lands(r) \/ Lost(r) PROVE RowsStay(q)
  BY <1>2, <1>6 DEF LeaseLapses, HandOver, Lands, Lost, rowVars
<1>7. ASSUME NEW c \in Chat,
             OriginalTurn(c) \/ RecoverOriginalParent(c) \/ NextMessage(c) \/ AnswerEnds(c)
      PROVE  RowsStay(q)
  BY <1>2, <1>7 DEF OriginalTurn, ClaimDelivery, DeliverySucceeds, DeliveryUnknown, CaptureWrites,
    CaptureStops, RecoverOriginal, RecoverOriginalParent, NextMessage, AnswerEnds, rowVars
<1>8. CASE UNCHANGED vars
  BY <1>2, <1>8 DEF vars, rowVars
<1> QED BY <1>3, <1>4, <1>5, <1>6, <1>7, <1>8

LEMMA RowsMove ==
  ASSUME ReplyTypeOK, [Next]_vars
  PROVE  \/ \E r \in Reply, n \in 1 .. Cardinality(Reply) : User(r, n)
         \/ \E r \in Reply : Pick(r)
         \/ \A q \in Reply : RowsStay(q)
BY UserMovesRows, WorkerMovesRows, WorldMovesRows, Zenon DEF Next


\* What adds to a conversation
LEMMA ThreadMoves ==
  ASSUME [Next]_vars
  PROVE  \/ UNCHANGED thread
         \/ \E r \in Reply : Lands(r)
         \/ \E c \in Chat : DeliverySucceeds(c) \/ DeliveryUnknown(c)
<1> USE DEF gptVars
<1>1. \A r \in Reply, n \in 1 .. Cardinality(Reply) : User(r, n) => UNCHANGED thread
  BY DEF User, Prepare, MergeFollowup, QueueFollowup, Insert
<1>2. \A r \in Reply : OptIn(r) \/ RetryPreflight(r) \/ Pick(r) \/ Preflight(r) => UNCHANGED thread
  BY DEF OptIn, RetryPreflight, Pick, Preflight, Defer, PreflightPasses, PreflightFails
<1>3. \A r \in Reply : Dispatch(r) \/ Watch(r) => UNCHANGED thread
  BY DEF Dispatch, ClaimReply, ClaimRefused, Click, ClickFails, Confirmed, Unconfirmed, Abandon, Watch,
    SaveAnswerId, SaveAnswer, GiveUpAnswer, Leave
<1>4. \A r \in Reply : LeaseLapses(r) \/ HandOver(r) \/ RecoverReply(r) \/ RecoverReplyParent(r) \/ Lost(r)
        => UNCHANGED thread
  BY DEF LeaseLapses, HandOver, RecoverReply, RecoverReplyParent, Lost
<1>5. Submit \/ Crash \/ RecoverOrphans \/ UNCHANGED vars => UNCHANGED thread
  BY DEF Submit, Crash, RecoverOrphans, vars
<1>6. \A c \in Chat : Stop(c) \/ RecoverOriginalParent(c) \/ NextMessage(c) \/ AnswerEnds(c)
        => UNCHANGED thread
  BY DEF Stop, RecoverOriginalParent, NextMessage, AnswerEnds
<1>7. \A c \in Chat : OriginalTurn(c)
        => UNCHANGED thread \/ DeliverySucceeds(c) \/ DeliveryUnknown(c)
  BY DEF OriginalTurn, ClaimDelivery, CaptureWrites, CaptureStops, RecoverOriginal
<1> QED BY <1>1, <1>2, <1>3, <1>4, <1>5, <1>6, <1>7 DEF Next

\* No turn leaves a conversation.
LEMMA PresentStays ==
  ASSUME ReplyInv, [Next]_vars, NEW t \in Turn, Present(t)
  PROVE  Present(t)'
<1>1. /\ thread \in [Chat -> Seq(Turn)] /\ ReplyTypeOK
      /\ \A c \in Chat : Opening(c)
  BY DEF ReplyInv, ReplyTypeOK
<1>2. CASE UNCHANGED thread
  BY <1>2 DEF Present, Taken
<1>3. ASSUME NEW r \in Reply, Lands(r) PROVE Present(t)'
  <2>1. CASE t \in Reply
    BY <1>1, <1>3, <2>1, LandsTakes, ReplyAssumption DEF Present
  <2>2. CASE t \in Chat
    <3>1. thread' = [thread EXCEPT ![ChatOf[r]] = Append(thread[ChatOf[r]], r)] /\ r \in Turn
          /\ ChatOf[r] \in Chat
      BY <1>3, ReplyAssumption DEF Lands, Turn
    <3>2. thread'[t] = thread[t] \/ thread'[t] = Append(thread[t], r)
      BY <1>1, <2>2, <3>1
    <3>3. thread[t] \in Seq(Turn) /\ thread[t] # <<>>
      BY <1>1, <2>2, ReplyAssumption DEF Present
    <3>4. Append(thread[t], r) # <<>>
      BY <3>1, <3>3
    <3> QED BY <2>2, <3>2, <3>3, <3>4 DEF Present
  <2> QED BY <2>1, <2>2 DEF Turn
<1>4. ASSUME NEW c \in Chat, DeliverySucceeds(c) \/ DeliveryUnknown(c) PROVE Present(t)'
  <2>1. CASE UNCHANGED thread
    BY <1>2, <2>1
  <2>2. CASE thread' = [thread EXCEPT ![c] = <<c>>]
    <3>1. thread[c] = <<>>
      BY <1>1, <1>4 DEF Opening, DeliverySucceeds, DeliveryUnknown
    <3>2. CASE t \in Chat
      <4>1. thread'[t] = thread[t]
        BY <1>1, <2>2, <3>1, <3>2, ReplyAssumption DEF Present
      <4> QED BY <3>2, <4>1, ReplyAssumption DEF Present
    <3>3. CASE t \in Reply
      <4>1. Taken(t) /\ ChatOf[t] \in Chat /\ ChatOf[t] # c
        BY <3>1, <3>3, ReplyAssumption DEF Present, Taken
      <4>2. thread'[ChatOf[t]] = thread[ChatOf[t]]
        BY <1>1, <2>2, <4>1
      <4> QED BY <3>3, <4>1, <4>2 DEF Present, Taken
    <3> QED BY <3>2, <3>3 DEF Turn
  <2> QED BY <1>4, <2>1, <2>2 DEF DeliverySucceeds, DeliveryUnknown
<1>5. \/ UNCHANGED thread
      \/ \E r \in Reply : Lands(r)
      \/ \E c \in Chat : DeliverySucceeds(c) \/ DeliveryUnknown(c)
  BY ThreadMoves
<1> QED BY <1>2, <1>3, <1>4, <1>5

\* Answers and their ids
LEMMA AnswersMove ==
  ASSUME ReplyInv, OrderInv, [Next]_vars
  PROVE  AnswersTaken'
<1> DEFINE Has(t) == units[t] > 0 \/ messageId[t] # 0
<1>1. /\ units \in [Turn -> 0 .. MaxUnits] /\ messageId \in [Turn -> 0 .. MaxUnits]
      /\ thread \in [Chat -> Seq(Turn)] /\ ReplyTypeOK
      /\ MaxUnits \in Nat
      /\ \A t \in Turn : Has(t) => Present(t)
      /\ \A c \in Chat : Chain(c)
  BY ReplyAssumption DEF ReplyInv, ReplyTypeOK, OrderInv, AnswersTaken
<1>2. \A t \in Turn : Present(t) => Present(t)'
  BY PresentStays
<1>3. ASSUME NEW u \in Turn, Present(u), \A t \in Turn : t # u => (Has(t)' => Has(t))
      PROVE  AnswersTaken'
  <2> SUFFICES ASSUME NEW t \in Turn, Has(t)' PROVE Present(t)'
    BY DEF AnswersTaken
  <2>1. Present(t)
    BY <1>1, <1>3
  <2> QED BY <1>2, <2>1
<1>4. ASSUME UNCHANGED <<units, messageId>> PROVE AnswersTaken'
  <2> SUFFICES ASSUME NEW t \in Turn, Has(t)' PROVE Present(t)'
    BY DEF AnswersTaken
  <2>1. Present(t)
    BY <1>1, <1>4
  <2> QED BY <1>2, <2>1
<1>5. ASSUME NEW r \in Reply,
             SaveAnswerId(r) \/ RecoverReply(r) \/ RecoverReplyParent(r)
      PROVE  AnswersTaken'
  <2>1. r \in Turn
    BY DEF Turn
  <2>2. CASE UNCHANGED messageId
    BY <1>4, <1>5, <2>2 DEF SaveAnswerId, RecoverReply, RecoverReplyParent, gptVars
  <2>3. CASE ~UNCHANGED messageId
    <3>1. Present(r)
      <4>1. CASE SaveAnswerId(r)
        BY <1>1, <2>1, <4>1 DEF SaveAnswerId
      <4>2. CASE RecoverReply(r) \/ RecoverReplyParent(r)
        BY <1>1, <4>2, ShownIsTaken DEF RecoverReply, RecoverReplyParent, Present
      <4> QED BY <1>5, <4>1, <4>2
    <3>2. /\ UNCHANGED units
          /\ \E id : messageId' = [messageId EXCEPT ![r] = id]
      BY <1>5, <2>3 DEF SaveAnswerId, RecoverReply, RecoverReplyParent, gptVars
    <3>3. \A t \in Turn : t # r => (Has(t)' => Has(t))
      BY <1>1, <3>2
    <3> QED BY <1>3, <2>1, <3>1, <3>3
  <2> QED BY <2>2, <2>3
<1>6. ASSUME NEW c \in Chat,
             CaptureWrites(c) \/ RecoverOriginal(c) \/ RecoverOriginalParent(c)
      PROVE  AnswersTaken'
  <2>1. c \in Turn
    BY DEF Turn
  <2>2. Present(c)
    <3>1. CASE RecoverOriginalParent(c)
      BY <3>1 DEF RecoverOriginalParent, Present
    <3>2. CASE CaptureWrites(c) \/ RecoverOriginal(c)
      BY <1>1, <2>1, <3>2 DEF CaptureWrites, RecoverOriginal
    <3> QED BY <1>6, <3>1, <3>2
  <2>3. /\ UNCHANGED units
        /\ \E id : messageId' = [messageId EXCEPT ![c] = id]
    BY <1>6 DEF CaptureWrites, RecoverOriginal, RecoverOriginalParent, gptVars
  <2>4. \A t \in Turn : t # c => (Has(t)' => Has(t))
    BY <1>1, <2>3
  <2> QED BY <1>3, <2>1, <2>2, <2>4
<1>7. ASSUME NEW c \in Chat, NextMessage(c) PROVE AnswersTaken'
  <2> DEFINE len == Len(thread[c])
  <2>1. thread[c] \in Seq(Turn) /\ thread[c] # <<>> /\ len \in Nat /\ len > 0 /\ Tip(c) = thread[c][len]
        /\ DOMAIN thread[c] = 1 .. len
    BY <1>1, <1>7 DEF NextMessage, Tip
  <2>2. Tip(c) \in Turn /\ Present(Tip(c))
    <3>1. CASE len = 1
      BY <1>1, <2>1, <3>1 DEF Chain, Present, Turn
    <3>2. CASE len > 1
      <4>1. len \in 2 .. len /\ len \in DOMAIN thread[c]
        <5>1. len \in Nat /\ DOMAIN thread[c] = 1 .. len
          BY <2>1
        <5> HIDE DEF len
        <5> QED BY <3>2, <5>1
      <4>2. Tip(c) \in Reply /\ ChatOf[Tip(c)] = c
        <5>1. \A i \in 2 .. len : thread[c][i] \in Reply /\ ChatOf[thread[c][i]] = c
          BY <1>1, Zenon DEF Chain
        <5>2. Tip(c) = thread[c][len]
          BY <2>1
        <5> HIDE DEF len
        <5> QED BY <4>1, <5>1, <5>2, Zenon
      <4>3. Taken(Tip(c))
        BY <2>1, <4>1, <4>2 DEF Taken
      <4> QED BY <4>2, <4>3 DEF Present, Turn
    <3>3. len = 1 \/ len > 1
      <4> HIDE DEF len
      <4> QED BY <2>1
    <3> HIDE DEF len
    <3> QED BY <3>1, <3>2, <3>3
  <2>3. UNCHANGED messageId /\ \E n : units' = [units EXCEPT ![Tip(c)] = n]
    BY <1>7 DEF NextMessage
  <2>4. \A t \in Turn : t # Tip(c) => (Has(t)' => Has(t))
    BY <1>1, <2>3
  <2> QED BY <1>3, <2>2, <2>4
<1>8. \/ UNCHANGED <<units, messageId>>
      \/ \E r \in Reply : SaveAnswerId(r) \/ RecoverReply(r) \/ RecoverReplyParent(r)
      \/ \E c \in Chat : CaptureWrites(c) \/ RecoverOriginal(c) \/ RecoverOriginalParent(c) \/ NextMessage(c)
  <2> USE DEF gptVars
  <2>1. \A r \in Reply, n \in 1 .. Cardinality(Reply) : User(r, n) => UNCHANGED <<units, messageId>>
    BY DEF User, Prepare, MergeFollowup, QueueFollowup, Insert
  <2>2. \A r \in Reply : OptIn(r) \/ RetryPreflight(r) \/ Pick(r) \/ Preflight(r) => UNCHANGED <<units, messageId>>
    BY DEF OptIn, RetryPreflight, Pick, Preflight, Defer, PreflightPasses, PreflightFails
  <2>3. \A r \in Reply : Dispatch(r) \/ Watch(r) => UNCHANGED <<units, messageId>> \/ SaveAnswerId(r)
    BY DEF Dispatch, ClaimReply, ClaimRefused, Click, ClickFails, Confirmed, Unconfirmed, Abandon, Watch,
      SaveAnswer, GiveUpAnswer, Leave
  <2>4. \A r \in Reply : LeaseLapses(r) \/ HandOver(r) \/ Lands(r) \/ Lost(r) => UNCHANGED <<units, messageId>>
    BY DEF LeaseLapses, HandOver, Lands, Lost
  <2>5. Submit \/ Crash \/ RecoverOrphans \/ UNCHANGED vars => UNCHANGED <<units, messageId>>
    BY DEF Submit, Crash, RecoverOrphans, vars
  <2>6. \A c \in Chat : Stop(c) \/ AnswerEnds(c) => UNCHANGED <<units, messageId>>
    BY DEF Stop, AnswerEnds
  <2>7. \A c \in Chat : OriginalTurn(c)
          => UNCHANGED <<units, messageId>> \/ CaptureWrites(c) \/ RecoverOriginal(c)
    BY DEF OriginalTurn, ClaimDelivery, DeliverySucceeds, DeliveryUnknown, CaptureStops
  <2> QED BY <2>1, <2>2, <2>3, <2>4, <2>5, <2>6, <2>7 DEF Next
<1> QED BY <1>4, <1>5, <1>6, <1>7, <1>8

(***************************************************************************)
(* The rows that are bound                                                 *)
(***************************************************************************)
LastFact ==
  \A c \in Chat, R \in SUBSET Reply : \A t \in R :
    /\ ReplyTypeOK /\ StampsTell
    /\ \A q \in R : rstatus[q] # "absent" /\ stamp[q] <= stamp[t]
    => LastOf(R, c) = t

\* No two rows have the same place, so the last of them is the one none is after.
LEMMA LastIsUnique == LastFact
<1> SUFFICES ASSUME NEW c \in Chat, NEW R \in SUBSET Reply, NEW t \in R, ReplyTypeOK, StampsTell,
                    \A q \in R : rstatus[q] # "absent" /\ stamp[q] <= stamp[t]
             PROVE  LastOf(R, c) = t
  BY DEF LastFact
<1> DEFINE l == LastOf(R, c)
<1>1. l \in R /\ stamp[t] <= stamp[l]
  BY LastIsLast
<1>2. stamp[l] <= stamp[t] /\ rstatus[l] # "absent"
  BY <1>1
<1> HIDE DEF l
<1>3. stamp[l] \in Nat /\ stamp[t] \in Nat
  BY <1>1 DEF ReplyTypeOK
<1>4. stamp[l] = stamp[t]
  BY <1>1, <1>2, <1>3
<1>5. l = t
  BY <1>1, <1>2, <1>4 DEF StampsTell
<1> QED BY <1>5 DEF l

LEMMA LastIsUniqueNext == LastFact'
BY LastIsUnique, PTL

\* A bound row stays so when the turns before it do.
LEMMA BoundStays ==
  ASSUME ReplyTypeOK, ReplyTypeOK', StampsTell, StampsTell', NEW r \in Reply, Bound(r),
         parent'[r] = parent[r],
         \A q \in Reply : q \in Earlier(Branch(ChatOf[r]), r)' <=> q \in Earlier(Branch(ChatOf[r]), r),
         \A q \in Earlier(Branch(ChatOf[r]), r) :
           stamp'[q] = stamp[q] /\ rstatus'[q] \in Settled /\ Taken(q)'
  PROVE  Bound(r)'
<1> DEFINE c == ChatOf[r]
           before == Earlier(Branch(c), r)
           l == LastOf(before, c)
<1>1. before \in SUBSET Reply /\ before' = before /\ c \in Chat
  BY ReplyAssumption DEF Earlier, Branch, Rows
<1>2. LastOf(before, c)' = l
  <2>1. CASE before = {}
    BY <1>1, <2>1 DEF LastOf
  <2>2. CASE before # {}
    <3>1. l \in before /\ \A p \in before : stamp[p] <= stamp[l]
      BY <1>1, <2>2, LastIsLast
    <3>2. \A p \in before : rstatus'[p] # "absent" /\ stamp'[p] <= stamp'[l]
      BY <3>1, Statuses
    <3> HIDE DEF l
    <3>3. \A R \in SUBSET Reply : \A t \in R :
            (\A q \in R : rstatus'[q] # "absent" /\ stamp'[q] <= stamp'[t]) => LastOf(R, c)' = t
      BY <1>1, LastIsUniqueNext DEF LastFact
    <3>4. before \in SUBSET Reply /\ l \in before
      BY <1>1, <3>1
    <3> HIDE DEF before
    <3> QED BY <1>1, <3>2, <3>3, <3>4
  <2> QED BY <2>1, <2>2
<1>3. parent[r] # NoId /\ parent[r][1] = l
  BY DEF Bound
<1>4. \A q \in before' : rstatus'[q] \in Settled /\ Taken(q)'
  BY <1>1
<1> QED BY <1>2, <1>3, <1>4 DEF Bound

\* What Ready and prepare ask of a parent: there is one, and all turns up to it
\* are over and in the conversation.
LEMMA VerifiedBinds ==
  ASSUME ReplyInv, OrderInv, NEW c \in Chat, NEW R \in SUBSET Reply, Verified(R, c)
  PROVE  /\ Identity(LastOf(R, c)) # NoId
         /\ Identity(LastOf(R, c))[1] = LastOf(R, c)
         /\ \A q \in R : rstatus[q] \in Settled /\ Taken(q)
<1>1. /\ ReplyTypeOK /\ \A t \in Turn : messageId[t] # 0 => Present(t)
  BY DEF ReplyInv, OrderInv, AnswersTaken
<1>2. \A q \in R : rstatus[q] \in Settled /\ messageId[q] # 0
  BY DEF Verified, Linked
<1>3. messageId[c] # 0
  BY DEF Verified
<1>4. \A q \in R : Taken(q)
  BY <1>1, <1>2, ReplyAssumption DEF Present, Turn
<1>5. messageId[LastOf(R, c)] # 0
  <2>1. CASE R = {}
    BY <1>3, <2>1 DEF LastOf
  <2>2. CASE R # {}
    BY <1>1, <1>2, <2>2, LastIsLast
  <2> QED BY <2>1, <2>2
<1> QED BY <1>2, <1>4, <1>5 DEF Identity, NoId

\* A turn of a conversation keeps its place and its parent.
LEMMA TakenStays ==
  ASSUME ReplyInv, [Next]_vars, NEW q \in Reply, Taken(q)
  PROVE  stamp'[q] = stamp[q] /\ parent'[q] = parent[q]
<1>1. ReplyTypeOK /\ ~NeverClaimed(q)
  BY DEF ReplyInv, OnItsWay
<1>2. ASSUME NEW r \in Reply, NEW n \in 1 .. Cardinality(Reply), User(r, n)
      PROVE  stamp'[q] = stamp[q] /\ parent'[q] = parent[q]
  <2>1. rstatus[r] = "absent" /\ \E id : parent' = [parent EXCEPT ![r] = id]
    BY <1>2 DEF User, Prepare, MergeFollowup, QueueFollowup, Insert
  <2>2. stamp' = [stamp EXCEPT ![r] = n]
    BY <1>2 DEF User, Prepare, MergeFollowup, QueueFollowup, Insert
  <2> QED BY <1>1, <2>1, <2>2 DEF NeverClaimed, ReplyTypeOK
<1>3. ASSUME NEW r \in Reply, Pick(r)
      PROVE  stamp'[q] = stamp[q] /\ parent'[q] = parent[q]
  <2>1. rstatus[r] \in {"queued", "prepared"}
    BY <1>3 DEF Pick, Ready
  <2>2. stamp' = stamp /\ \E id : parent' = [parent EXCEPT ![r] = id]
    BY <1>3 DEF Pick
  <2> QED BY <1>1, <2>1, <2>2, Statuses DEF NeverClaimed, ReplyTypeOK
<1> QED BY <1>1, <1>2, <1>3, RowsMove DEF RowsStay

\* A new row comes after all others, unless requests overtake one another.
LEMMA InsertOrders ==
  ASSUME ReplyInv, ReplyTypeOK', OrderInv, ~Overtaking, [Next]_vars,
         NEW r \in Reply, NEW n \in 1 .. Cardinality(Reply), User(r, n)
  PROVE  StampsTell' /\ \A q \in Reply : rstatus'[q] \notin Loose => Bound(q)'
<1>1. /\ ReplyTypeOK /\ StampsTell /\ Cardinality(Reply) \in Nat
      /\ rstatus \in [Reply -> ReplyStatus] /\ stamp \in [Reply -> 0 .. Cardinality(Reply)]
      /\ parent \in [Reply -> {NoId} \cup (Turn \X (1 .. MaxUnits))]
  BY ReplyAssumption, FS_CardinalityType DEF ReplyInv, OrderInv, ReplyTypeOK
<1>2. PICK st, id :
        /\ st \in {"prepared", "merged", "queued"} /\ rstatus[r] = "absent" /\ \A q \in Reply : stamp[q] < n
        /\ stamp' = [stamp EXCEPT ![r] = n]
        /\ rstatus' = [rstatus EXCEPT ![r] = st]
        /\ parent' = [parent EXCEPT ![r] = id]
        /\ UNCHANGED thread
        /\ st = "prepared" =>
             /\ Verified(Branch(ChatOf[r]), ChatOf[r])
             /\ id = Identity(LastOf(Branch(ChatOf[r]), ChatOf[r]))
  BY DEF User, Prepare, MergeFollowup, QueueFollowup, Insert, Place, gptVars
<1>3. StampsTell'
  BY <1>1, <1>2 DEF StampsTell
<1>4. \A q \in Reply : Taken(q)' <=> Taken(q)
  BY <1>2 DEF Taken
<1>5. \A q \in Reply : q # r =>
        stamp'[q] = stamp[q] /\ rstatus'[q] = rstatus[q] /\ parent'[q] = parent[q]
  BY <1>1, <1>2
<1>6. stamp'[r] = n /\ rstatus'[r] = st /\ parent'[r] = id
  BY <1>1, <1>2
<1>7. ASSUME NEW q \in Reply, q # r, rstatus'[q] \notin Loose PROVE Bound(q)'
  <2>1. Bound(q)
    BY <1>5, <1>7 DEF OrderInv
  <2> DEFINE before == Earlier(Branch(ChatOf[q]), q)
  <2>2. r \notin before /\ r \notin before'
    <3>1. stamp[q] < n /\ stamp[q] \in Nat /\ n \in Nat
      BY <1>1, <1>2
    <3> QED BY <1>2, <1>5, <1>6, <1>7, <3>1 DEF Earlier, Branch, Rows
  <2>3. \A p \in Reply : p \in before' <=> p \in before
    BY <1>5, <1>7, <2>2 DEF Earlier, Branch, Rows
  <2>4. \A p \in before : rstatus[p] \in Settled /\ Taken(p) /\ p \in Reply /\ p # r
    BY <2>1, <2>2 DEF Bound, Earlier, Branch, Rows
  <2>5. \A p \in before : stamp'[p] = stamp[p] /\ rstatus'[p] \in Settled /\ Taken(p)'
    BY <1>4, <1>5, <2>4
  <2> HIDE DEF before
  <2>6. parent'[q] = parent[q]
    BY <1>5, <1>7
  <2> QED BY <1>1, <1>3, <2>1, <2>3, <2>5, <2>6, BoundStays DEF before
<1>8. ASSUME rstatus'[r] \notin Loose PROVE Bound(r)'
  <2> DEFINE c == ChatOf[r]
             R == Branch(c)
             before == Earlier(Branch(c), r)
             l == LastOf(R, c)
  <2>1. /\ c \in Chat /\ R \in SUBSET Reply /\ Verified(R, c) /\ id = Identity(l)
    BY <1>2, <1>6, <1>8, ReplyAssumption DEF Loose, Branch, Rows
  <2>2. id # NoId /\ id[1] = l /\ \A q \in R : rstatus[q] \in Settled /\ Taken(q)
    BY <2>1, VerifiedBinds
  <2>3. r \notin R
    BY <1>2 DEF Branch, Rows
  <2>4. before' = R
    <3>1. \A q \in Reply : stamp[q] < n /\ stamp[q] \in Nat /\ n \in Nat
      BY <1>1, <1>2
    <3>2. r \notin before'
      BY <1>6, <3>1 DEF Earlier
    <3>3. \A q \in Reply : q # r => (q \in before' <=> q \in R)
      BY <1>5, <1>6, <3>1 DEF Earlier, Branch, Rows
    <3>4. before' \subseteq Reply
      BY DEF Earlier, Branch, Rows
    <3> QED BY <2>1, <2>3, <3>2, <3>3, <3>4
  <2>5. LastOf(R, c) = LastOf(before, c)'
    <3>1. CASE R = {}
      BY <2>4, <3>1 DEF LastOf
    <3>2. CASE R # {}
      <4>1. l \in R /\ \A p \in R : stamp[p] <= stamp[l]
        BY <1>1, <2>1, <3>2, LastIsLast
      <4>2. \A p \in R : p \in Reply /\ p # r /\ rstatus[p] # "absent"
        BY <2>1, <2>3 DEF Branch, Rows
      <4>3. \A p \in R : rstatus'[p] # "absent" /\ stamp'[p] <= stamp'[l]
        BY <1>5, <4>1, <4>2
      <4> HIDE DEF l, R, before
      <4>4. \A S \in SUBSET Reply : \A t \in S :
              (\A q \in S : rstatus'[q] # "absent" /\ stamp'[q] <= stamp'[t]) => LastOf(S, c)' = t
        BY <1>3, <2>1, LastIsUniqueNext DEF LastFact
      <4>5. LastOf(before, c)' = l
        BY <2>1, <2>4, <4>1, <4>3, <4>4
      <4> QED BY <4>5 DEF l
    <3> QED BY <3>1, <3>2
  <2>6. \A q \in before' : rstatus'[q] \in Settled /\ Taken(q)'
    BY <1>4, <1>5, <2>1, <2>2, <2>3, <2>4
  <2> QED BY <1>6, <2>2, <2>5, <2>6 DEF Bound
<1> QED BY <1>3, <1>7, <1>8

\* next_queued_intent binds a reply to the end of the turns before it.
LEMMA PickBinds ==
  ASSUME ReplyInv, ReplyTypeOK', OrderInv, NEW r \in Reply, Pick(r)
  PROVE  StampsTell' /\ \A q \in Reply : rstatus'[q] \notin Loose => Bound(q)'
<1> DEFINE c == ChatOf[r]
           first == Earlier(Branch(c), r)
           id == Identity(LastOf(first, c))
<1>1. /\ ReplyTypeOK /\ StampsTell /\ rstatus \in [Reply -> ReplyStatus]
      /\ parent \in [Reply -> {NoId} \cup (Turn \X (1 .. MaxUnits))]
      /\ c \in Chat /\ first \in SUBSET Reply
  BY ReplyAssumption DEF ReplyInv, OrderInv, ReplyTypeOK, Earlier, Branch, Rows
<1>2. /\ rstatus[r] \in {"queued", "prepared"} /\ Verified(first, c)
      /\ rstatus' = [rstatus EXCEPT ![r] = "prepared"]
      /\ parent' = [parent EXCEPT ![r] = id]
      /\ stamp' = stamp /\ UNCHANGED thread
  BY DEF Pick, Ready, gptVars
<1>3. \A q \in Reply : Taken(q)' <=> Taken(q)
  BY <1>2 DEF Taken
<1>4. \A q \in Reply : q # r => rstatus'[q] = rstatus[q] /\ parent'[q] = parent[q]
  BY <1>1, <1>2
<1>5. rstatus'[r] = "prepared" /\ parent'[r] = id
  BY <1>1, <1>2
<1>6. StampsTell'
  <2>1. \A q \in Reply : rstatus'[q] = "absent" <=> rstatus[q] = "absent"
    BY <1>2, <1>4, <1>5
  <2> QED BY <1>1, <1>2, <2>1 DEF StampsTell
<1>7. \A q, p \in Reply : p \in Earlier(Branch(ChatOf[q]), q)' <=> p \in Earlier(Branch(ChatOf[q]), q)
  <2> SUFFICES ASSUME NEW q \in Reply, NEW p \in Reply
               PROVE  p \in Earlier(Branch(ChatOf[q]), q)' <=> p \in Earlier(Branch(ChatOf[q]), q)
    OBVIOUS
  <2>1. rstatus'[p] \in {"absent", "cancelled", "merged"} <=> rstatus[p] \in {"absent", "cancelled", "merged"}
    BY <1>2, <1>4, <1>5
  <2> QED BY <1>2, <2>1 DEF Earlier, Branch, Rows
<1>8. ASSUME NEW q \in Reply, q # r, rstatus'[q] \notin Loose PROVE Bound(q)'
  <2>1. Bound(q)
    BY <1>4, <1>8 DEF OrderInv
  <2> DEFINE before == Earlier(Branch(ChatOf[q]), q)
  <2>2. \A p \in before : rstatus[p] \in Settled /\ Taken(p) /\ p \in Reply
    BY <2>1 DEF Bound, Earlier, Branch, Rows
  <2>3. r \notin before
    BY <1>2, <2>2, Statuses
  <2>4. \A p \in before : stamp'[p] = stamp[p] /\ rstatus'[p] \in Settled /\ Taken(p)'
    BY <1>2, <1>3, <1>4, <2>2, <2>3
  <2>5. \A p \in Reply : p \in before' <=> p \in before
    BY <1>7
  <2> HIDE DEF before
  <2>6. parent'[q] = parent[q]
    BY <1>4, <1>8
  <2> QED BY <1>1, <1>6, <2>1, <2>4, <2>5, <2>6, BoundStays DEF before
<1>9. Bound(r)'
  <2> DEFINE l == LastOf(first, c)
  <2>1. id # NoId /\ id[1] = l /\ \A q \in first : rstatus[q] \in Settled /\ Taken(q)
    BY <1>1, <1>2, VerifiedBinds
  <2>2. first' = first
    BY <1>7 DEF Earlier, Branch, Rows
  <2>3. LastOf(first, c)' = l
    <3>1. CASE first = {}
      BY <2>2, <3>1 DEF LastOf
    <3>2. CASE first # {}
      <4>1. l \in first /\ \A p \in first : stamp[p] <= stamp[l]
        BY <1>1, <3>2, LastIsLast
      <4>2. \A p \in first : rstatus'[p] # "absent"
        BY <2>2 DEF Earlier, Branch, Rows
      <4> HIDE DEF l, first
      <4>3. \A S \in SUBSET Reply : \A t \in S :
              (\A q \in S : rstatus'[q] # "absent" /\ stamp'[q] <= stamp'[t]) => LastOf(S, c)' = t
        BY <1>1, <1>6, LastIsUniqueNext DEF LastFact
      <4> QED BY <1>1, <1>2, <2>2, <4>1, <4>2, <4>3
    <3> QED BY <3>1, <3>2
  <2>4. r \notin first
    <3>1. stamp[r] \in Nat
      BY <1>1 DEF ReplyTypeOK
    <3> QED BY <3>1 DEF Earlier
  <2>5. \A q \in first : rstatus'[q] \in Settled /\ Taken(q)'
    BY <1>1, <1>3, <1>4, <2>1, <2>4
  <2> QED BY <1>5, <2>1, <2>2, <2>3, <2>5 DEF Bound
<1> QED BY <1>6, <1>8, <1>9

LEMMA RowsKeepOrder ==
  ASSUME ReplyInv, ReplyTypeOK', OrderInv, ~Overtaking, [Next]_vars
  PROVE  StampsTell' /\ \A q \in Reply : rstatus'[q] \notin Loose => Bound(q)'
<1>1. ASSUME \A q \in Reply : RowsStay(q)
      PROVE  StampsTell' /\ \A q \in Reply : rstatus'[q] \notin Loose => Bound(q)'
  <2>1. ReplyTypeOK /\ StampsTell
    BY DEF ReplyInv, OrderInv
  <2>2. Reply # {} => stamp' = stamp /\ parent' = parent
    BY <1>1 DEF RowsStay
  <2>3. StampsTell'
    BY <1>1, <2>1 DEF StampsTell, RowsStay, RowMove
  <2>4. ASSUME NEW q \in Reply, rstatus'[q] \notin Loose PROVE Bound(q)'
    <3>1. Bound(q)
      BY <1>1, <2>4 DEF OrderInv, RowsStay, RowMove
    <3> DEFINE before == Earlier(Branch(ChatOf[q]), q)
    <3>2. \A p \in before : rstatus[p] \in Settled /\ Taken(p) /\ p \in Reply
      BY <3>1 DEF Bound, Earlier, Branch, Rows
    <3>3. \A p \in Reply : Taken(p) => Taken(p)'
      BY PresentStays, ReplyAssumption DEF Present, Turn
    <3>4. \A p \in before : stamp'[p] = stamp[p] /\ rstatus'[p] \in Settled /\ Taken(p)'
      BY <1>1, <2>2, <3>2, <3>3 DEF RowsStay, RowMove
    <3>5. ASSUME NEW p \in Reply PROVE p \in before' <=> p \in before
      <4>1. p \in before => rstatus'[p] \notin {"absent", "cancelled", "merged"}
        BY <3>4, Statuses
      <4>2. rstatus'[p] \notin {"absent", "cancelled", "merged"}
              => rstatus[p] \notin {"absent", "cancelled", "merged"}
        BY <1>1 DEF RowsStay, RowMove
      <4> QED BY <2>2, <4>1, <4>2 DEF Earlier, Branch, Rows
    <3> HIDE DEF before
    <3>6. parent'[q] = parent[q]
      BY <2>2
    <3> QED BY <2>1, <2>3, <3>1, <3>4, <3>5, <3>6, BoundStays DEF before
  <2> QED BY <2>3, <2>4
<1>2. ReplyTypeOK
  BY DEF ReplyInv
<1> QED BY <1>1, <1>2, InsertOrders, PickBinds, RowsMove, Zenon

(***************************************************************************)
(* The conversations                                                       *)
(***************************************************************************)

\* A reply that lands is later than all turns of the conversation, and the last of
\* them is the one it was bound to.
LEMMA LandsInOrder ==
  ASSUME ReplyInv, OrderInv, NEW r \in Reply, Lands(r)
  PROVE  LET turns == thread[ChatOf[r]] IN
         /\ turns # <<>>
         /\ parent[r] # NoId /\ parent[r][1] = turns[Len(turns)]
         /\ \A j \in 2 .. Len(turns) : stamp[turns[j]] < stamp[r]
<1> DEFINE c == ChatOf[r]
           turns == thread[c]
           before == Earlier(Branch(c), r)
           len == Len(turns)
<1>1. /\ ReplyTypeOK /\ StampsTell /\ Chain(c) /\ c \in Chat /\ turns \in Seq(Turn)
      /\ OnItsWay(r) /\ post[r] = "inflight"
  BY ReplyAssumption DEF ReplyInv, OrderInv, ReplyTypeOK, Lands
<1>2. ~NeverClaimed(r) /\ ~Taken(r) /\ turns # <<>>
  BY <1>1 DEF OnItsWay
<1>3. Bound(r)
  BY <1>2 DEF NeverClaimed, Loose, OrderInv, Unclaimed
<1>4. ASSUME NEW q \in Reply, Taken(q), ChatOf[q] = c PROVE q \in before
  <2>1. ~NeverClaimed(q) /\ q # r
    BY <1>2, <1>4 DEF ReplyInv, OnItsWay
  <2>2. q \in Branch(c) /\ r \in Branch(c) /\ rstatus[q] \notin Loose
    BY <1>2, <1>4, <2>1 DEF Branch, Rows, NeverClaimed, Loose, Unclaimed
  <2>3. Bound(q)
    BY <2>2 DEF OrderInv
  <2>4. r \notin Earlier(Branch(c), q)
    BY <1>2, <1>4, <2>3 DEF Bound
  <2>5. stamp[q] # stamp[r] /\ stamp[q] \in Nat /\ stamp[r] \in Nat
    BY <1>1, <2>1, <2>2 DEF StampsTell, Branch, Rows, ReplyTypeOK
  <2> QED BY <2>2, <2>4, <2>5 DEF Earlier
<1>5. \A i \in 2 .. len : turns[i] \in Reply /\ turns[i] \in before
  <2> SUFFICES ASSUME NEW i \in 2 .. len PROVE turns[i] \in Reply /\ turns[i] \in before
    OBVIOUS
  <2>1. i \in DOMAIN turns /\ turns[i] \in Reply /\ ChatOf[turns[i]] = c
    BY <1>1 DEF Chain
  <2> QED BY <1>4, <2>1 DEF Taken
<1>6. \A j \in 2 .. len : stamp[turns[j]] < stamp[r]
  BY <1>5 DEF Earlier
<1>7. LastOf(before, c) = turns[len]
  <2>1. before \in SUBSET Reply /\ len \in Nat /\ len > 0 /\ DOMAIN turns = 1 .. len
    BY <1>1, <1>2 DEF Earlier, Branch, Rows
  <2>2. \A q \in before : \E i \in 2 .. len : turns[i] = q
    <3> SUFFICES ASSUME NEW q \in before PROVE \E i \in 2 .. len : turns[i] = q
      OBVIOUS
    <3>1. q \in Reply /\ Taken(q) /\ ChatOf[q] = c
      BY <1>3 DEF Bound, Earlier, Branch, Rows
    <3>2. PICK i \in DOMAIN turns : turns[i] = q
      BY <3>1 DEF Taken
    <3>3. turns[1] = c /\ c \notin Reply
      BY <1>1, <1>2, ReplyAssumption DEF Chain
    <3> HIDE DEF turns, len
    <3>4. i # 1 /\ i \in 1 .. len
      BY <2>1, <3>1, <3>2, <3>3
    <3> QED BY <2>1, <3>2, <3>4
  <2>3. CASE len = 1
    <3>1. before = {}
      BY <2>2, <2>3
    <3> QED BY <1>1, <1>2, <2>3, <3>1 DEF LastOf, Chain
  <2>4. CASE len > 1
    <3>1. len \in 2 .. len
      BY <2>1, <2>4
    <3>2. turns[len] \in before
      BY <1>5, <3>1
    <3>3. \A j \in 2 .. len - 1 : stamp[turns[j]] < stamp[turns[len]]
      BY <1>1, <3>1 DEF Chain
    <3>4. \A j \in 2 .. len : stamp[turns[j]] \in Nat
      BY <1>1, <1>5 DEF ReplyTypeOK
    <3>5. \A j \in 2 .. len : stamp[turns[j]] <= stamp[turns[len]]
      <4> SUFFICES ASSUME NEW j \in 2 .. len PROVE stamp[turns[j]] <= stamp[turns[len]]
        OBVIOUS
      <4>1. j = len \/ j \in 2 .. len - 1
        BY <2>1
      <4>2. stamp[turns[j]] \in Nat /\ stamp[turns[len]] \in Nat
        BY <3>1, <3>4
      <4> HIDE DEF turns, len
      <4> QED BY <3>3, <4>1, <4>2
    <3>6. \A q \in before : rstatus[q] # "absent" /\ stamp[q] <= stamp[turns[len]]
      BY <2>2, <3>5 DEF Earlier, Branch, Rows
    <3> QED BY <1>1, <2>1, <3>2, <3>6, LastIsUnique DEF LastFact
  <2>5. len = 1 \/ len > 1
    <3> HIDE DEF len
    <3> QED BY <2>1
  <2> QED BY <2>3, <2>4, <2>5
<1> QED BY <1>2, <1>3, <1>6, <1>7 DEF Bound

LEMMA NextKeepsChains ==
  ASSUME ReplyInv, OrderInv, [Next]_vars, NEW c \in Chat
  PROVE  Chain(c)'
<1> DEFINE turns == thread[c]
<1>1. /\ ReplyTypeOK /\ Chain(c) /\ turns \in Seq(Turn) /\ Opening(c)
      /\ thread \in [Chat -> Seq(Turn)]
  BY DEF ReplyInv, OrderInv, ReplyTypeOK
<1>2. \A i \in 2 .. Len(turns) :
        /\ i \in DOMAIN turns /\ turns[i] \in Reply /\ ChatOf[turns[i]] = c
        /\ stamp'[turns[i]] = stamp[turns[i]] /\ parent'[turns[i]] = parent[turns[i]]
  <2> SUFFICES ASSUME NEW i \in 2 .. Len(turns)
               PROVE  /\ i \in DOMAIN turns /\ turns[i] \in Reply /\ ChatOf[turns[i]] = c
                      /\ stamp'[turns[i]] = stamp[turns[i]] /\ parent'[turns[i]] = parent[turns[i]]
    OBVIOUS
  <2>1. i \in DOMAIN turns /\ turns[i] \in Reply /\ ChatOf[turns[i]] = c
    BY <1>1 DEF Chain
  <2>2. Taken(turns[i])
    BY <2>1 DEF Taken
  <2> QED BY <2>1, <2>2, TakenStays
<1>3. ASSUME thread'[c] = turns PROVE Chain(c)'
  <2>1. ASSUME NEW i \in 2 .. Len(turns)
        PROVE  /\ parent'[turns[i]] # NoId /\ parent'[turns[i]][1] = turns[i - 1]
               /\ \A j \in 2 .. i - 1 : stamp'[turns[j]] < stamp'[turns[i]]
    <3>1. Len(turns) \in Nat
      BY <1>1
    <3>2. \A j \in 2 .. i - 1 : j \in 2 .. Len(turns)
      BY <3>1
    <3> QED BY <1>1, <1>2, <2>1, <3>2 DEF Chain
  <2>2. turns # <<>> => turns[1] = c
    BY <1>1 DEF Chain
  <2> HIDE DEF turns
  <2> QED BY <1>2, <1>3, <2>1, <2>2 DEF Chain
<1>4. ASSUME thread'[c] = <<c>> PROVE Chain(c)'
  BY <1>4 DEF Chain
<1>5. ASSUME NEW r \in Reply, Lands(r), ChatOf[r] = c PROVE Chain(c)'
  <2> DEFINE len == Len(turns)
  <2>1. /\ thread'[c] = Append(turns, r) /\ r \in Turn /\ UNCHANGED <<stamp, parent>>
    BY <1>1, <1>5 DEF Lands, rowVars, Turn
  <2>2. /\ turns # <<>> /\ parent[r] # NoId /\ parent[r][1] = turns[len]
        /\ \A j \in 2 .. len : stamp[turns[j]] < stamp[r]
    BY <1>5, LandsInOrder
  <2>3. /\ len \in Nat /\ len > 0 /\ Len(thread'[c]) = len + 1 /\ thread'[c][len + 1] = r
        /\ \A i \in 1 .. len : thread'[c][i] = turns[i]
    BY <1>1, <2>1, <2>2
  <2>4. thread'[c][1] = c
    BY <1>1, <2>2, <2>3 DEF Chain
  <2>5. ASSUME NEW i \in 2 .. Len(thread'[c])
        PROVE  /\ thread'[c][i] \in Reply /\ ChatOf[thread'[c][i]] = c
               /\ parent'[thread'[c][i]] # NoId /\ parent'[thread'[c][i]][1] = thread'[c][i - 1]
               /\ \A j \in 2 .. i - 1 : stamp'[thread'[c][j]] < stamp'[thread'[c][i]]
    <3>1. CASE i = len + 1
      <4>1. i - 1 = len /\ len \in 1 .. len
        BY <2>3, <3>1
      <4>2. thread'[c][i] = r /\ thread'[c][i - 1] = turns[len]
        BY <2>3, <3>1, <4>1
      <4>3. \A j \in 2 .. i - 1 : thread'[c][j] = turns[j] /\ stamp[turns[j]] < stamp[r]
        BY <2>2, <2>3, <4>1
      <4> QED BY <1>5, <2>1, <2>2, <4>2, <4>3
    <3>2. CASE i \in 2 .. len
      <4>1. thread'[c][i] = turns[i] /\ thread'[c][i - 1] = turns[i - 1]
        BY <2>3, <3>2
      <4>2. \A j \in 2 .. i - 1 : thread'[c][j] = turns[j]
        BY <2>3, <3>2
      <4>3. /\ turns[i] \in Reply /\ ChatOf[turns[i]] = c
            /\ parent[turns[i]] # NoId /\ parent[turns[i]][1] = turns[i - 1]
            /\ \A j \in 2 .. i - 1 : stamp[turns[j]] < stamp[turns[i]]
        BY <1>1, <3>2 DEF Chain
      <4> QED BY <2>1, <4>1, <4>2, <4>3
    <3>3. i = len + 1 \/ i \in 2 .. len
      <4> HIDE DEF len
      <4> QED BY <2>3
    <3> QED BY <3>1, <3>2, <3>3
  <2> QED BY <2>4, <2>5 DEF Chain
<1>6. \/ thread'[c] = turns \/ thread'[c] = <<c>>
      \/ \E r \in Reply : Lands(r) /\ ChatOf[r] = c
  <2>1. ASSUME NEW r \in Reply, Lands(r) PROVE thread'[c] = turns \/ ChatOf[r] = c
    BY <1>1, <2>1 DEF Lands
  <2>2. ASSUME NEW d \in Chat, DeliverySucceeds(d) \/ DeliveryUnknown(d)
        PROVE  thread'[c] = turns \/ thread'[c] = <<c>>
    BY <1>1, <2>2 DEF DeliverySucceeds, DeliveryUnknown
  <2> QED BY <2>1, <2>2, ThreadMoves
<1> QED BY <1>3, <1>4, <1>5, <1>6

LEMMA InitOrder == Init => OrderInv
<1> SUFFICES ASSUME Init PROVE OrderInv
  OBVIOUS
<1>1. StampsTell /\ AnswersTaken
  BY DEF Init, StampsTell, AnswersTaken
<1>2. \A r \in Reply : rstatus[r] \in Loose
  BY DEF Init, Loose
<1>3. \A c \in Chat : Chain(c)
  <2>1. \A c \in Chat : thread[c] = <<>>
    BY DEF Init
  <2> QED BY <2>1 DEF Chain
<1> QED BY <1>1, <1>2, <1>3 DEF OrderInv

\* The conversation is the saved branch: every reply follows exactly the turn it was
\* bound to, and replies are taken in the order the user wrote them, over crashes,
\* lapsed leases, Stop and recoveries -- as long as no request overtakes another
\* between its timestamp and the writer lock (reply_contracts.py:210), which the
\* code does not exclude: the assumption is needed.
THEOREM TurnsAreInOrder == ASSUME ~Overtaking PROVE Spec => []TurnsInOrder
<1>1. ReplyInv /\ ReplyInv' /\ OrderInv /\ [Next]_vars => OrderInv'
  BY AnswersMove, RowsKeepOrder, NextKeepsChains DEF OrderInv, ReplyInv
<1>2. OrderInv => TurnsInOrder
  BY DEF OrderInv, Chain, TurnsInOrder
<1> QED BY <1>1, <1>2, InitOrder, ReplyInvariant, PTL DEF Spec
=============================================================================
