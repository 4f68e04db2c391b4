----------------------------- MODULE ChatReads -----------------------------
(***************************************************************************)
(* Unread badges: a chat that is opened is read at once and its receipt is *)
(* posted; the server accepts it only for the reply that is current; a     *)
(* lost answer is settled by one GET; "mark all read" posts once and reads *)
(* the list again (isUnread, markRead and markAllRead of                   *)
(* src/ui/ChatsPageController.ts, readReceiptConfirmed of                  *)
(* src/ui/localReceiptReconciliation.ts, the reads of src/web_chats.py).   *)
(*                                                                         *)
(* A reply revision is a number that grows, 0 before the first reply.      *)
(* The read marks an old version left in the browser are not modelled.     *)
(***************************************************************************)
EXTENDS Naturals

CONSTANTS
  ReadRun,       \* chats
  MaxRevision,   \* bound: replies of a chat
  ReceiptSlot,   \* bound: receipts in flight
  MaxBulk        \* bound: uses of "mark all read"

ASSUME ReadAssumption == {MaxRevision, MaxBulk} \subseteq Nat

VARIABLES
  reply,     \* the server: last_reply_revision of each chat
  receipt,   \* the server: last_read_revision
  badges,    \* items, optimisticReads and readError
  posting,   \* receipts in flight
  late,      \* receipts that were given up and may still commit
  bulk,      \* the POST of "mark all read" and what follows it
  bulks,
  listing,   \* the GET of the list, and whether another one is due
  unheard    \* history: the server changed and no list was asked for since

readVars == <<reply, receipt, badges, posting, late, bulk, bulks, listing, unheard>>

Snapshot == [r \in ReadRun |-> [last |-> reply[r], read |-> receipt[r]]]
NoReceipt == [phase |-> "none"]

\* isUnread of a list item.
Unread(item, optimistic) ==
  /\ item.last # 0
  /\ item.read # item.last
  /\ optimistic # item.last

ReadInit ==
  /\ reply = [r \in ReadRun |-> 0]
  /\ receipt = [r \in ReadRun |-> 0]
  /\ badges = [items |-> Snapshot, optimistic |-> [r \in ReadRun |-> 0], error |-> FALSE]
  /\ posting = [s \in ReceiptSlot |-> NoReceipt]
  /\ late = {}
  /\ bulk = "none" /\ bulks = 0
  /\ listing = [phase |-> "none", again |-> FALSE]
  /\ unheard = FALSE

\* loadList: refreshes coalesce.
AskList ==
  /\ listing' = IF listing.phase = "none" THEN [phase |-> "asked", again |-> FALSE]
                ELSE [listing EXCEPT !.again = TRUE]
  /\ unheard' = FALSE

RefreshReads ==
  /\ AskList
  /\ UNCHANGED <<reply, receipt, badges, posting, late, bulk, bulks>>

ServeReads ==
  /\ listing.phase = "asked"
  /\ listing' = [phase |-> "served", again |-> listing.again, body |-> Snapshot]
  /\ UNCHANGED <<reply, receipt, badges, posting, late, bulk, bulks, unheard>>

AfterList == IF listing.again THEN [phase |-> "asked", again |-> FALSE]
             ELSE [phase |-> "none", again |-> FALSE]

ReadsArrive ==
  /\ listing.phase = "served"
  /\ badges' = [badges EXCEPT !.items = listing.body]
  /\ listing' = AfterList
  /\ UNCHANGED <<reply, receipt, posting, late, bulk, bulks, unheard>>

\* The list shows its own error; the badges are as old as before.
ReadsFail ==
  /\ listing.phase # "none"
  /\ listing' = AfterList
  /\ unheard' = (unheard \/ ~listing.again)
  /\ UNCHANGED <<reply, receipt, badges, posting, late, bulk, bulks>>

---------------------------------------------------------------------------
\* A chat is opened from its list item, or its detail was read just now.
MarkRead(r, s, fresh) ==
  /\ posting[s] = NoReceipt
  /\ LET item == IF fresh THEN Snapshot[r] ELSE badges.items[r]
     IN  /\ item.last # 0 /\ item.read # item.last
         /\ badges.optimistic[r] # item.last
         /\ badges' = [badges EXCEPT !.optimistic[r] = item.last]
         /\ posting' = [posting EXCEPT ![s] = [phase |-> "asked", run |-> r, last |-> item.last]]
  /\ UNCHANGED <<reply, receipt, late, bulk, bulks, listing, unheard>>

Receipt(p) == [run |-> p.run, last |-> p.last]

\* The server accepts the receipt of the current reply and rejects any other.
Accepts(p) ==
  receipt' = IF reply[p.run] = p.last THEN [receipt EXCEPT ![p.run] = p.last] ELSE receipt

PostReceipt(s, heard) ==
  /\ posting[s].phase = "asked"
  /\ LET p == posting[s]
     IN  /\ Accepts(p)
         /\ posting' = [posting EXCEPT ![s].phase =
              IF heard /\ reply[p.run] = p.last THEN "done" ELSE "lost"]
  /\ unheard' = TRUE
  /\ UNCHANGED <<reply, badges, late, bulk, bulks, listing>>

GiveUpReceipt(s, arrives) ==
  /\ posting[s].phase = "asked"
  /\ posting' = [posting EXCEPT ![s].phase = "lost"]
  /\ late' = IF arrives THEN late \cup {Receipt(posting[s])} ELSE late
  /\ UNCHANGED <<reply, receipt, badges, bulk, bulks, listing, unheard>>

\* mutant: any answer of the GET confirms the receipt
ConfirmReceipt_Trusts(s, answered) ==
  /\ posting[s].phase = "lost"
  /\ posting' = [posting EXCEPT ![s].phase = IF answered THEN "done" ELSE "failed"]
  /\ UNCHANGED <<reply, receipt, badges, late, bulk, bulks, listing, unheard>>

\* One GET settles a lost answer; if it cannot, the badge comes back.
ConfirmReceipt(s, answered) ==
  /\ posting[s].phase = "lost"
  /\ posting' = [posting EXCEPT ![s].phase =
       IF answered /\ receipt[posting[s].run] = posting[s].last THEN "done" ELSE "failed"]
  /\ UNCHANGED <<reply, receipt, badges, late, bulk, bulks, listing, unheard>>

ReceiptDone(s) ==
  /\ posting[s].phase = "done"
  /\ badges' = [badges EXCEPT !.error = FALSE]
  /\ posting' = [posting EXCEPT ![s] = NoReceipt]
  /\ UNCHANGED <<reply, receipt, late, bulk, bulks, listing, unheard>>

ReceiptFailed(s) ==
  /\ posting[s].phase = "failed"
  /\ LET p == posting[s]
     IN  badges' = [badges EXCEPT !.error = TRUE,
                      !.optimistic[p.run] = IF @ = p.last THEN 0 ELSE @]
  /\ posting' = [posting EXCEPT ![s] = NoReceipt]
  /\ AskList
  /\ UNCHANGED <<reply, receipt, late, bulk, bulks>>

---------------------------------------------------------------------------
MarkAllRead ==
  /\ bulk = "none" /\ bulks < MaxBulk
  /\ bulk' = "asked" /\ bulks' = bulks + 1
  /\ badges' = [badges EXCEPT !.error = FALSE]
  /\ UNCHANGED <<reply, receipt, posting, late, listing, unheard>>

PostBulk(arrives, heard) ==
  /\ bulk = "asked"
  /\ receipt' = IF arrives THEN reply ELSE receipt
  /\ bulk' = IF arrives /\ heard THEN "done" ELSE "lost"
  /\ unheard' = (unheard \/ arrives)
  /\ UNCHANGED <<reply, badges, posting, late, bulks, listing>>

\* The items are read, optimistic receipts are forgotten and the list is asked.
BulkDone ==
  /\ bulk = "done"
  /\ badges' = [badges EXCEPT
       !.items = [r \in ReadRun |-> [@[r] EXCEPT !.read = badges.items[r].last]],
       !.optimistic = [r \in ReadRun |-> 0]]
  /\ bulk' = "reading"
  /\ AskList
  /\ UNCHANGED <<reply, receipt, posting, late, bulks>>

BulkLost ==
  /\ bulk = "lost"
  /\ bulk' = "doubtful"
  /\ AskList
  /\ UNCHANGED <<reply, receipt, badges, posting, late, bulks>>

BulkEnds ==
  /\ bulk \in {"reading", "doubtful"}
  /\ badges' = [badges EXCEPT !.error = @ \/ bulk = "doubtful"]
  /\ bulk' = "none"
  /\ UNCHANGED <<reply, receipt, posting, late, bulks, listing, unheard>>

---------------------------------------------------------------------------
(* The server changes without this page; every change sends an event.      *)
Replied(r) ==
  /\ reply[r] < MaxRevision
  /\ reply' = [reply EXCEPT ![r] = @ + 1]
  /\ unheard' = TRUE
  /\ UNCHANGED <<receipt, badges, posting, late, bulk, bulks, listing>>

LateReceipt(p) ==
  /\ p \in late
  /\ Accepts(p)
  /\ late' = late \ {p}
  /\ unheard' = TRUE
  /\ UNCHANGED <<reply, badges, posting, bulk, bulks, listing>>

ReadNext ==
  \/ RefreshReads \/ ServeReads \/ ReadsArrive \/ ReadsFail
  \/ \E s \in ReceiptSlot :
       \/ \E b \in BOOLEAN :
            \/ PostReceipt(s, b) \/ GiveUpReceipt(s, b) \/ ConfirmReceipt(s, b)
            \/ \E r \in ReadRun : MarkRead(r, s, b)
       \/ ReceiptDone(s) \/ ReceiptFailed(s)
  \/ MarkAllRead \/ (\E a, b \in BOOLEAN : PostBulk(a, b)) \/ BulkDone \/ BulkLost \/ BulkEnds
  \/ (\E r \in ReadRun : Replied(r)) \/ (\E p \in late : LateReceipt(p))

ReadSpec == ReadInit /\ [][ReadNext]_readVars

---------------------------------------------------------------------------
\* When nothing is in flight and the page was told of every change, a badge is
\* there exactly when the server has an unread reply: no receipt that failed, was
\* rejected or was lost keeps a badge away, and no stale list item brings one back
\* (optimisticReads, readReceiptConfirmed).
BadgesAgree ==
  /\ \A s \in ReceiptSlot : posting[s] = NoReceipt
  /\ bulk = "none" /\ listing.phase = "none"
  /\ ~unheard
  => \A r \in ReadRun :
       Unread(badges.items[r], badges.optimistic[r]) = (receipt[r] # reply[r])
=============================================================================
