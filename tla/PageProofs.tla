------------------------------ MODULE PageProofs ------------------------------
(***************************************************************************)
(* Proofs about the pages: pinned chats, unread badges, what the composers *)
(* send, the jobs page, the transcript and the list of chats, for any      *)
(* number of chats, clicks, requests, reads in flight and closed pages.    *)
(*                                                                         *)
(* Each invariant says what a read or a write in flight still owes: an     *)
(* answer that is as new as the last question, a click that is shown until *)
(* it is written, a request that the ledger knows.                         *)
(***************************************************************************)
EXTENDS ChatPins, ChatReads, ChatSends, JobsPage, ChatDetail, ChatList, FiniteSetTheorems,
        SequenceTheorems, TLAPS

(****************************************************************************)
(* Pinned chats.                                                            *)
(****************************************************************************)

PinWrite == [run : PinRun, pin : BOOLEAN]

PinTypeOK ==
  /\ pinned \in SUBSET PinRun
  /\ pins \in [shown : SUBSET PinRun, confirmed : SUBSET PinRun, ready : BOOLEAN,
               writeError : BOOLEAN, error : BOOLEAN]
  /\ writes \in Seq(PinWrite)
  /\ post \in {"none", "done", "lost", "unknown"}
  /\ \/ pinRead = NoPinRead \/ pinRead = [phase |-> "asked"]
     \/ \E set \in SUBSET PinRun : pinRead = [phase |-> "served", body |-> set]
  /\ transit \in SUBSET PinWrite
  /\ clicks \in Nat /\ others \in Nat
  /\ news \in BOOLEAN

\* Nothing is read while something is written, and an answer that was served is as
\* the server was told of last.
PinInv ==
  /\ PinTypeOK
  /\ writes # <<>> => pinRead = NoPinRead
  /\ post # "none" => writes # <<>>
  /\ pinRead.phase = "served" /\ ~news => pinRead.body = pinned
  /\ PinsAgree
  /\ ClicksShow

LEMMA InitPins == PinInit => PinInv
<1> SUFFICES ASSUME PinInit PROVE PinInv
  OBVIOUS
<1>1. PinTypeOK
  <2>1. pins \in [shown : SUBSET PinRun, confirmed : SUBSET PinRun, ready : BOOLEAN,
                  writeError : BOOLEAN, error : BOOLEAN]
    BY DEF PinInit
  <2>2. /\ pinned \in SUBSET PinRun /\ writes = <<>> /\ post = "none" /\ transit = {} /\ news = FALSE
        /\ pinRead = [phase |-> "asked"] /\ clicks = 0 /\ others = 0
    BY DEF PinInit
  <2>3. writes \in Seq(PinWrite) /\ transit \in SUBSET PinWrite
    BY <2>2
  <2> QED BY <2>1, <2>2, <2>3 DEF PinTypeOK
<1>2. pinRead # NoPinRead /\ pinRead.phase = "asked" /\ writes = <<>> /\ post = "none"
  BY DEF PinInit, NoPinRead
<1> QED BY <1>1, <1>2 DEF PinInv, PinsAgree, ClicksShow

LEMMA WithType ==
  ASSUME NEW S \in SUBSET PinRun, NEW w \in PinWrite
  PROVE  With(S, w) \in SUBSET PinRun
BY DEF With, PinWrite

\* The pins on the page, their queue and the read in flight are all that counts for
\* what is shown.
LEMMA PinReads ==
  ASSUME PinInv,
         \/ \E b \in BOOLEAN : LoadPins(b)
         \/ ServePins \/ PinsArrive \/ PinsFail
  PROVE  PinInv'
<1>1. /\ PinTypeOK /\ pinned \in SUBSET PinRun
      /\ pins \in [shown : SUBSET PinRun, confirmed : SUBSET PinRun, ready : BOOLEAN,
                   writeError : BOOLEAN, error : BOOLEAN]
  BY DEF PinInv, PinTypeOK
<1>2. ASSUME NEW b \in BOOLEAN, LoadPins(b) PROVE PinInv'
  <2> DEFINE e == pins.writeError /\ ~b
  <2>1. /\ pins' = [pins EXCEPT !.writeError = e] /\ news' = FALSE
        /\ pinRead' = IF writes # <<>> THEN NoPinRead ELSE [phase |-> "asked"]
        /\ UNCHANGED <<pinned, writes, post, transit, clicks, others>>
    BY <1>2 DEF LoadPins, AskPins
  <2>2. e \in BOOLEAN
    OBVIOUS
  <2> HIDE DEF e
  <2>3. /\ pins' \in [shown : SUBSET PinRun, confirmed : SUBSET PinRun, ready : BOOLEAN,
                      writeError : BOOLEAN, error : BOOLEAN]
        /\ pins'.shown = pins.shown
    BY <1>1, <2>1, <2>2
  <2>4. PinTypeOK'
    BY <1>1, <2>1, <2>3 DEF PinTypeOK
  <2>5. /\ pinRead'.phase # "served" /\ (writes = <<>> => pinRead' # NoPinRead)
        /\ (writes # <<>> => pinRead' = NoPinRead)
    BY <2>1 DEF NoPinRead
  <2>6. ClicksShow'
    BY <2>1, <2>3 DEF PinInv, ClicksShow
  <2> QED BY <2>1, <2>4, <2>5, <2>6 DEF PinInv, PinsAgree
<1>3. CASE ServePins
  <2>1. /\ pinRead' = [phase |-> "served", body |-> pinned]
        /\ UNCHANGED <<pinned, pins, writes, post, transit, clicks, others, news>>
        /\ pinRead.phase = "asked"
    BY <1>3 DEF ServePins
  <2>2. PinTypeOK'
    BY <1>1, <2>1 DEF PinTypeOK
  <2>3. writes = <<>> /\ pinRead' # NoPinRead /\ pinRead'.body = pinned
    BY <2>1 DEF PinInv, NoPinRead
  <2>4. ClicksShow'
    BY <2>1 DEF PinInv, ClicksShow
  <2> QED BY <2>1, <2>2, <2>3, <2>4 DEF PinInv, PinsAgree
<1>4. CASE PinsArrive
  <2>1. /\ pins' = [[[[pins EXCEPT !.shown = pinRead.body] EXCEPT !.confirmed = pinRead.body]
                       EXCEPT !.ready = TRUE] EXCEPT !.error = pins.writeError]
        /\ pinRead' = NoPinRead /\ pinRead.phase = "served"
        /\ UNCHANGED <<pinned, writes, post, transit, clicks, others, news>>
    BY <1>4 DEF PinsArrive
  <2>2. pinRead.body \in SUBSET PinRun /\ (~news => pinRead.body = pinned) /\ writes = <<>>
    BY <2>1 DEF PinInv, PinTypeOK, NoPinRead
  <2>3. /\ pins' \in [shown : SUBSET PinRun, confirmed : SUBSET PinRun, ready : BOOLEAN,
                      writeError : BOOLEAN, error : BOOLEAN]
        /\ pins'.shown = pinRead.body
    BY <1>1, <2>1, <2>2
  <2>4. PinTypeOK'
    BY <1>1, <2>1, <2>3 DEF PinTypeOK
  <2>5. ClicksShow'
    BY <2>1, <2>2 DEF ClicksShow
  <2> QED BY <2>1, <2>2, <2>3, <2>4, <2>5 DEF PinInv, PinsAgree, NoPinRead
<1>5. CASE PinsFail
  <2>1. /\ pins' = [pins EXCEPT !.error = TRUE] /\ pinRead' = NoPinRead /\ pinRead # NoPinRead
        /\ UNCHANGED <<pinned, writes, post, transit, clicks, others, news>>
    BY <1>5 DEF PinsFail
  <2>2. /\ pins' \in [shown : SUBSET PinRun, confirmed : SUBSET PinRun, ready : BOOLEAN,
                      writeError : BOOLEAN, error : BOOLEAN]
        /\ pins'.shown = pins.shown /\ pins'.error
    BY <1>1, <2>1
  <2>3. PinTypeOK'
    BY <1>1, <2>1, <2>2 DEF PinTypeOK
  <2>4. ClicksShow'
    BY <2>1, <2>2 DEF PinInv, ClicksShow
  <2> QED BY <2>1, <2>2, <2>3, <2>4 DEF PinInv, PinsAgree, NoPinRead
<1> QED BY <1>2, <1>3, <1>4, <1>5

\* What is neither shown, read nor being written.
LEMMA PinsUnshown ==
  ASSUME PinInv, PinTypeOK', UNCHANGED <<pins, writes, pinRead>>,
         post' # "none" => writes # <<>>,
         pinned' # pinned => news' \/ writes # <<>>, news => news'
  PROVE  PinInv'
<1>1. ClicksShow'
  BY DEF PinInv, ClicksShow
<1> QED BY <1>1 DEF PinInv, PinsAgree, NoPinRead

LEMMA PinToggles ==
  ASSUME PinInv, NEW r \in PinRun, TogglePin(r)
  PROVE  PinInv'
<1> DEFINE w == [run |-> r, pin |-> r \notin pins.shown]
           chosen == With(pins.shown, w)
<1>1. /\ PinTypeOK /\ pinned \in SUBSET PinRun /\ writes \in Seq(PinWrite)
      /\ pins \in [shown : SUBSET PinRun, confirmed : SUBSET PinRun, ready : BOOLEAN,
                   writeError : BOOLEAN, error : BOOLEAN]
  BY DEF PinInv, PinTypeOK
<1>2. w \in PinWrite /\ w.run = r /\ (w.pin <=> r \notin pins.shown) /\ chosen \in SUBSET PinRun
  <2>1. w \in PinWrite /\ w.run = r /\ (w.pin <=> r \notin pins.shown)
    BY DEF PinWrite
  <2> QED BY <1>1, <2>1, WithType
<1>3. (r \in chosen) = w.pin /\ \A q \in PinRun : q # r => (q \in chosen) = (q \in pins.shown)
  BY <1>2 DEF With
<1>4. /\ pins' = [[[pins EXCEPT !.shown = chosen] EXCEPT !.writeError = FALSE] EXCEPT !.error = FALSE]
      /\ writes' = Append(writes, w) /\ pinRead' = NoPinRead /\ clicks' = clicks + 1
      /\ UNCHANGED <<pinned, post, transit, others, news>>
  BY DEF TogglePin
<1> HIDE DEF w, chosen
<1>5. /\ pins' \in [shown : SUBSET PinRun, confirmed : SUBSET PinRun, ready : BOOLEAN,
                    writeError : BOOLEAN, error : BOOLEAN]
      /\ pins'.shown = chosen
  BY <1>1, <1>2, <1>4
<1>6. /\ writes' \in Seq(PinWrite) /\ Len(writes') = Len(writes) + 1 /\ writes' # <<>>
      /\ writes'[Len(writes) + 1] = w /\ \A i \in 1 .. Len(writes) : writes'[i] = writes[i]
      /\ Len(writes) \in Nat
  BY <1>1, <1>2, <1>4
<1>7. PinTypeOK'
  BY <1>1, <1>4, <1>5, <1>6 DEF PinTypeOK
<1>8. ClicksShow'
  <2> SUFFICES ASSUME NEW i \in DOMAIN writes',
                      \A j \in i + 1 .. Len(writes') : writes'[j].run # writes'[i].run
               PROVE  (writes'[i].run \in pins'.shown) = writes'[i].pin
    BY DEF ClicksShow
  <2>1. CASE i = Len(writes) + 1
    BY <1>2, <1>3, <1>5, <1>6, <2>1
  <2>2. CASE i \in 1 .. Len(writes)
    <3>1. writes'[i] = writes[i] /\ i \in DOMAIN writes /\ writes[i] \in PinWrite
      BY <1>1, <1>6, <2>2
    <3>2. writes[i].run # r /\ writes[i].run \in PinRun
      <4>1. Len(writes) + 1 \in i + 1 .. Len(writes')
        BY <1>6, <2>2
      <4> QED BY <1>2, <1>6, <3>1, <4>1 DEF PinWrite
    <3>3. \A j \in i + 1 .. Len(writes) : writes[j].run # writes[i].run
      BY <1>6, <2>2, <3>1
    <3>4. (writes[i].run \in pins.shown) = writes[i].pin
      BY <3>1, <3>3 DEF PinInv, ClicksShow
    <3> QED BY <1>3, <1>5, <3>1, <3>2, <3>4
  <2>3. i \in 1 .. Len(writes) + 1
    BY <1>6
  <2> QED BY <1>6, <2>1, <2>2, <2>3
<1> QED BY <1>4, <1>6, <1>7, <1>8 DEF PinInv, PinsAgree, NoPinRead

\* The POST of a click, what becomes of it, and changes from elsewhere
LEMMA PinPosts ==
  ASSUME PinInv,
         \/ Commit \/ \E b \in BOOLEAN : GiveUp(b) \/ Confirm(b)
         \/ \E r \in PinRun, pin \in BOOLEAN : OtherTab(r, pin)
         \/ \E w \in transit : LateCommit(w)
  PROVE  PinInv'
<1>1. /\ PinTypeOK /\ pinned \in SUBSET PinRun /\ writes \in Seq(PinWrite)
      /\ transit \in SUBSET PinWrite /\ others \in Nat
      /\ (post # "none" => writes # <<>>)
      /\ (writes # <<>> => Head(writes) \in PinWrite)
  BY DEF PinInv, PinTypeOK
<1>2. CASE Commit
  <2>1. /\ pinned' \in SUBSET PinRun /\ post' \in {"done", "lost"} /\ writes # <<>>
        /\ UNCHANGED <<pins, writes, pinRead, transit, clicks, others, news>>
    BY <1>1, <1>2, WithType DEF Commit
  <2> QED BY <1>1, <2>1, PinsUnshown DEF PinTypeOK
<1>3. ASSUME NEW b \in BOOLEAN, GiveUp(b) PROVE PinInv'
  <2>1. /\ transit' \in SUBSET PinWrite /\ post' = "lost" /\ writes # <<>>
        /\ UNCHANGED <<pinned, pins, writes, pinRead, clicks, others, news>>
    BY <1>1, <1>3 DEF GiveUp
  <2> QED BY <1>1, <2>1, PinsUnshown DEF PinTypeOK
<1>4. ASSUME NEW b \in BOOLEAN, Confirm(b) PROVE PinInv'
  <2>1. /\ post' \in {"done", "unknown"} /\ writes # <<>>
        /\ UNCHANGED <<pinned, pins, writes, pinRead, transit, clicks, others, news>>
    BY <1>1, <1>4 DEF Confirm
  <2> QED BY <1>1, <2>1, PinsUnshown DEF PinTypeOK
<1>5. ASSUME NEW r \in PinRun, NEW pin \in BOOLEAN, OtherTab(r, pin) PROVE PinInv'
  <2>1. /\ pinned' \in SUBSET PinRun /\ news' = TRUE /\ others' \in Nat
        /\ UNCHANGED <<pins, writes, post, pinRead, transit, clicks>>
    <3>1. [run |-> r, pin |-> pin] \in PinWrite
      BY DEF PinWrite
    <3> QED BY <1>1, <1>5, <3>1, WithType DEF OtherTab
  <2> QED BY <1>1, <2>1, PinsUnshown DEF PinTypeOK
<1>6. ASSUME NEW w \in transit, LateCommit(w) PROVE PinInv'
  <2>1. /\ pinned' \in SUBSET PinRun /\ news' = TRUE /\ transit' \in SUBSET PinWrite
        /\ UNCHANGED <<pins, writes, post, pinRead, clicks, others>>
    BY <1>1, <1>6, WithType DEF LateCommit
  <2> QED BY <1>1, <2>1, PinsUnshown DEF PinTypeOK
<1> QED BY <1>2, <1>3, <1>4, <1>5, <1>6

LEMMA PinWritten ==
  ASSUME PinInv, Written
  PROVE  PinInv'
<1> DEFINE done == post = "done"
           confirmed == IF done THEN With(pins.confirmed, Head(writes)) ELSE pins.confirmed
           last == Len(writes) = 1
           chosen == IF last THEN confirmed ELSE pins.shown
<1>1. /\ PinTypeOK /\ pinned \in SUBSET PinRun /\ writes \in Seq(PinWrite)
      /\ pins \in [shown : SUBSET PinRun, confirmed : SUBSET PinRun, ready : BOOLEAN,
                   writeError : BOOLEAN, error : BOOLEAN]
      /\ writes # <<>> /\ pinRead = NoPinRead
  BY DEF PinInv, PinTypeOK, Written
<1>2. confirmed \in SUBSET PinRun /\ chosen \in SUBSET PinRun /\ done \in BOOLEAN /\ last \in BOOLEAN
  BY <1>1, WithType
<1>3. /\ pins' = [[[[pins EXCEPT !.confirmed = confirmed] EXCEPT !.writeError = ~done]
                     EXCEPT !.error = ~done] EXCEPT !.shown = chosen]
      /\ writes' = Tail(writes) /\ post' = "none"
      /\ IF last THEN AskPins(FALSE) ELSE UNCHANGED <<pinRead, news>>
      /\ UNCHANGED <<pinned, transit, clicks, others>>
  BY <1>1 DEF Written
<1> HIDE DEF done, confirmed
<1>4. /\ pins' \in [shown : SUBSET PinRun, confirmed : SUBSET PinRun, ready : BOOLEAN,
                    writeError : BOOLEAN, error : BOOLEAN]
      /\ pins'.shown = chosen
  <2> HIDE DEF last, chosen
  <2> QED BY <1>1, <1>2, <1>3
<1>5. writes' \in Seq(PinWrite) /\ Len(writes') = Len(writes) - 1 /\ Len(writes) \in Nat \ {0}
      /\ \A i \in 1 .. Len(writes) - 1 : writes'[i] = writes[i + 1]
  BY <1>1, <1>3
<1>6. CASE last
  <2>1. writes' = <<>> /\ pinRead' = [phase |-> "asked"] /\ news' = FALSE
    BY <1>3, <1>5, <1>6 DEF AskPins
  <2>2. PinTypeOK'
    BY <1>1, <1>3, <1>4, <1>5, <2>1 DEF PinTypeOK
  <2>3. ClicksShow'
    BY <2>1 DEF ClicksShow
  <2> QED BY <1>3, <2>1, <2>2, <2>3 DEF PinInv, PinsAgree, NoPinRead
<1>7. CASE ~last
  <2>1. writes' # <<>> /\ UNCHANGED <<pinRead, news>> /\ pins'.shown = pins.shown
    <3>1. writes' # <<>>
      BY <1>5, <1>7
    <3>2. chosen = pins.shown
      BY <1>7
    <3> HIDE DEF last, chosen
    <3> QED BY <1>3, <1>4, <1>7, <3>1, <3>2
  <2>2. PinTypeOK'
    BY <1>1, <1>3, <1>4, <1>5, <2>1 DEF PinTypeOK
  <2>3. ClicksShow'
    <3> SUFFICES ASSUME NEW i \in DOMAIN writes',
                        \A j \in i + 1 .. Len(writes') : writes'[j].run # writes'[i].run
                 PROVE  (writes'[i].run \in pins'.shown) = writes'[i].pin
      BY DEF ClicksShow
    <3>1. i \in 1 .. Len(writes) - 1 /\ i + 1 \in DOMAIN writes /\ writes'[i] = writes[i + 1]
      BY <1>1, <1>5
    <3>2. \A j \in i + 2 .. Len(writes) : writes[j].run # writes[i + 1].run
      <4> SUFFICES ASSUME NEW j \in i + 2 .. Len(writes) PROVE writes[j].run # writes[i + 1].run
        OBVIOUS
      <4>1. j - 1 \in i + 1 .. Len(writes') /\ writes'[j - 1] = writes[j]
        BY <1>5, <3>1
      <4> QED BY <3>1, <4>1
    <3>3. \A j \in (i + 1) + 1 .. Len(writes) : writes[j].run # writes[i + 1].run
      BY <1>5, <3>1, <3>2
    <3>4. (writes[i + 1].run \in pins.shown) = writes[i + 1].pin
      BY <3>1, <3>3 DEF PinInv, ClicksShow
    <3> QED BY <2>1, <3>1, <3>4
  <2> QED BY <1>1, <1>3, <2>1, <2>2, <2>3 DEF PinInv, PinsAgree, NoPinRead
<1> QED BY <1>6, <1>7

LEMMA NextPins == PinInv /\ [PinNext]_pinVars => PinInv'
<1> SUFFICES ASSUME PinInv, [PinNext]_pinVars PROVE PinInv'
  OBVIOUS
<1>1. CASE UNCHANGED pinVars
  <2>1. PinTypeOK'
    BY <1>1 DEF pinVars, PinInv, PinTypeOK
  <2> QED BY <1>1, <2>1, PinsUnshown DEF pinVars, PinInv
<1>2. CASE PinNext
  BY <1>2, PinReads, PinToggles, PinPosts, PinWritten DEF PinNext
<1> QED BY <1>1, <1>2

THEOREM PinInvariant == PinSpec => []PinInv
BY InitPins, NextPins, PTL DEF PinSpec

\* At rest the page shows the pins the server has, or was not yet told of a change:
\* no GET undoes a click, and no rejected or lost click leaves a phantom
\* (pinsGeneration, pendingPinWrites, confirmedPins).
THEOREM PinsAreTrue == PinSpec => []PinsAgree
BY PinInvariant, PTL DEF PinInv

\* While clicks are being written the page shows them, the later over the earlier.
THEOREM ClicksAreShown == PinSpec => []ClicksShow
BY PinInvariant, PTL DEF PinInv

(****************************************************************************)
(* Unread badges.                                                           *)
(****************************************************************************)

ReadRow == [last : Nat, read : Nat]
ReadRows == [ReadRun -> ReadRow]
ReceiptType == [phase : {"asked", "lost", "done", "failed"}, run : ReadRun, last : Nat]

ReadTypeOK ==
  /\ reply \in [ReadRun -> Nat] /\ receipt \in [ReadRun -> Nat]
  /\ badges \in [items : ReadRows, optimistic : [ReadRun -> Nat], error : BOOLEAN]
  /\ posting \in [ReceiptSlot -> {NoReceipt} \cup ReceiptType]
  /\ late \in SUBSET [run : ReadRun, last : Nat]
  /\ bulk \in {"none", "asked", "done", "lost", "reading", "doubtful"}
  /\ bulks \in Nat
  /\ \/ \E p \in {"none", "asked"}, a \in BOOLEAN : listing = [phase |-> p, again |-> a]
     \/ \E a \in BOOLEAN, rows \in ReadRows : listing = [phase |-> "served", again |-> a, body |-> rows]
  /\ unheard \in BOOLEAN

\* Rows as the server has them, and rows that are no newer.
UpToDate(rows) == \A r \in ReadRun : rows[r].last = reply[r] /\ rows[r].read = receipt[r]
NotAhead(rows) == \A r \in ReadRun : rows[r].last <= reply[r]

\* What is said to be read is, or was overtaken, or its receipt is on its way: if it
\* fails the badge comes back.
Pledged(r) ==
  LET v == badges.optimistic[r] IN
  /\ v <= reply[r]
  /\ \/ v = 0 \/ receipt[r] = v \/ reply[r] # v
     \/ \E s \in ReceiptSlot :
          posting[s].phase \in {"asked", "lost", "failed"} /\ posting[s].run = r /\ posting[s].last = v

ListKnows ==
  /\ NotAhead(badges.items)
  /\ listing.phase = "none" /\ ~unheard => UpToDate(badges.items)
  /\ listing.phase = "served" =>
       NotAhead(listing.body) /\ (~listing.again /\ ~unheard => UpToDate(listing.body))

ReadInv ==
  /\ ReadTypeOK
  /\ \A r \in ReadRun : receipt[r] <= reply[r]
  /\ ListKnows
  /\ \A r \in ReadRun : Pledged(r)

LEMMA SnapshotRows ==
  ASSUME ReadTypeOK, \A r \in ReadRun : receipt[r] <= reply[r]
  PROVE  Snapshot \in ReadRows /\ UpToDate(Snapshot) /\ NotAhead(Snapshot)
BY DEF Snapshot, ReadRows, ReadRow, ReadTypeOK, UpToDate, NotAhead

LEMMA InitReads == ReadInit => ReadInv
<1> SUFFICES ASSUME ReadInit PROVE ReadInv
  OBVIOUS
<1>1. /\ reply = [r \in ReadRun |-> 0] /\ receipt = [r \in ReadRun |-> 0]
      /\ badges.items = Snapshot /\ badges.optimistic = [r \in ReadRun |-> 0]
      /\ listing.phase = "none"
  BY DEF ReadInit
<1>2. Snapshot \in ReadRows /\ UpToDate(Snapshot) /\ NotAhead(Snapshot)
  BY <1>1 DEF Snapshot, ReadRows, ReadRow, UpToDate, NotAhead
<1>3. ReadTypeOK
  <2>1. badges \in [items : ReadRows, optimistic : [ReadRun -> Nat], error : BOOLEAN]
    BY <1>2 DEF ReadInit
  <2>2. listing = [phase |-> "none", again |-> FALSE]
    BY DEF ReadInit
  <2>3. /\ posting = [s \in ReceiptSlot |-> NoReceipt] /\ late = {} /\ bulk = "none"
        /\ bulks = 0 /\ unheard = FALSE
    BY DEF ReadInit
  <2> QED BY <1>1, <2>1, <2>2, <2>3 DEF ReadTypeOK
<1>4. ListKnows
  BY <1>1, <1>2 DEF ListKnows
<1>5. \A r \in ReadRun : Pledged(r) /\ receipt[r] <= reply[r]
  <2> SUFFICES ASSUME NEW r \in ReadRun PROVE Pledged(r) /\ receipt[r] <= reply[r]
    OBVIOUS
  <2>1. badges.optimistic[r] = 0 /\ reply[r] = 0 /\ receipt[r] = 0
    BY <1>1
  <2> QED BY <2>1 DEF Pledged
<1> QED BY <1>3, <1>4, <1>5 DEF ReadInv

\* A question is asked: the answer in flight no longer counts.
LEMMA AskedList ==
  ASSUME ReadTypeOK, AskList
  PROVE  /\ unheard' = FALSE /\ listing'.phase # "none"
         /\ \/ listing' = [phase |-> "asked", again |-> FALSE] /\ listing.phase = "none"
            \/ listing' = [phase |-> "asked", again |-> TRUE] /\ listing.phase = "asked"
            \/ /\ listing.phase = "served" /\ listing.body \in ReadRows
               /\ listing' = [phase |-> "served", again |-> TRUE, body |-> listing.body]
<1>1. CASE listing.phase = "none"
  BY <1>1 DEF AskList
<1>2. ASSUME NEW a \in BOOLEAN, listing = [phase |-> "asked", again |-> a]
      PROVE  listing.phase = "asked" /\ listing' = [phase |-> "asked", again |-> TRUE]
  BY <1>2 DEF AskList
<1>3. ASSUME NEW a \in BOOLEAN, NEW rows \in ReadRows,
             listing = [phase |-> "served", again |-> a, body |-> rows]
      PROVE  /\ listing.phase = "served" /\ listing.body \in ReadRows
             /\ listing' = [phase |-> "served", again |-> TRUE, body |-> listing.body]
  BY <1>3 DEF AskList
<1>4. unheard' = FALSE
  BY DEF AskList
<1>5. \/ listing.phase = "none"
      \/ \E a \in BOOLEAN : listing = [phase |-> "asked", again |-> a]
      \/ \E a \in BOOLEAN, rows \in ReadRows : listing = [phase |-> "served", again |-> a, body |-> rows]
  BY DEF ReadTypeOK
<1>6. CASE listing.phase = "none"
  BY <1>1, <1>4, <1>6
<1>7. CASE \E a \in BOOLEAN : listing = [phase |-> "asked", again |-> a]
  BY <1>2, <1>4, <1>7
<1>8. CASE \E a \in BOOLEAN, rows \in ReadRows : listing = [phase |-> "served", again |-> a, body |-> rows]
  BY <1>3, <1>4, <1>8
<1> QED BY <1>5, <1>6, <1>7, <1>8

\* Nothing but the list changes, or its items.
LEMMA ListMoves ==
  ASSUME ReadInv, ReadTypeOK', ListKnows', UNCHANGED <<reply, receipt, posting>>,
         badges'.optimistic = badges.optimistic
  PROVE  ReadInv'
BY DEF ReadInv, Pledged

\* A question about the list that this action asks
LEMMA AskedKnows ==
  ASSUME ReadTypeOK, ListKnows, AskList, UNCHANGED reply, NotAhead(badges'.items)
  PROVE  /\ ListKnows'
         /\ \/ \E a \in BOOLEAN : listing' = [phase |-> "asked", again |-> a]
            \/ \E rows \in ReadRows : listing' = [phase |-> "served", again |-> TRUE, body |-> rows]
<1>1. CASE \E a \in BOOLEAN : listing' = [phase |-> "asked", again |-> a]
  BY <1>1 DEF ListKnows, NotAhead
<1>2. CASE listing.phase = "served" /\ listing.body \in ReadRows
           /\ listing' = [phase |-> "served", again |-> TRUE, body |-> listing.body]
  BY <1>2 DEF ListKnows, NotAhead
<1> QED BY <1>1, <1>2, AskedList

LEMMA ReadsOfList ==
  ASSUME ReadInv, RefreshReads \/ ServeReads \/ ReadsArrive \/ ReadsFail
  PROVE  ReadInv'
<1>1. /\ ReadTypeOK /\ ListKnows /\ \A r \in ReadRun : receipt[r] <= reply[r]
      /\ badges \in [items : ReadRows, optimistic : [ReadRun -> Nat], error : BOOLEAN]
  BY DEF ReadInv, ReadTypeOK
<1>2. CASE RefreshReads
  <2>1. AskList /\ UNCHANGED <<reply, receipt, badges, posting, late, bulk, bulks>>
    BY <1>2 DEF RefreshReads
  <2>2. /\ ListKnows' /\ unheard' \in BOOLEAN
        /\ \/ \E a \in BOOLEAN : listing' = [phase |-> "asked", again |-> a]
           \/ \E rows \in ReadRows : listing' = [phase |-> "served", again |-> TRUE, body |-> rows]
    BY <1>1, <2>1, AskedKnows, AskedList DEF ListKnows
  <2>3. ReadTypeOK'
    BY <1>1, <2>1, <2>2 DEF ReadTypeOK
  <2> QED BY <2>1, <2>2, <2>3, ListMoves
<1>3. CASE ServeReads
  <2>1. /\ listing' = [phase |-> "served", again |-> listing.again, body |-> Snapshot]
        /\ UNCHANGED <<reply, receipt, badges, posting, late, bulk, bulks, unheard>>
        /\ listing.phase = "asked"
    BY <1>3 DEF ServeReads
  <2>2. Snapshot \in ReadRows /\ UpToDate(Snapshot) /\ NotAhead(Snapshot) /\ listing.again \in BOOLEAN
    BY <1>1, <2>1, SnapshotRows DEF ReadTypeOK
  <2>3. ReadTypeOK'
    BY <1>1, <2>1, <2>2 DEF ReadTypeOK
  <2>4. ListKnows'
    <3>1. /\ listing'.phase = "served" /\ reply' = reply /\ receipt' = receipt /\ badges' = badges
          /\ \A r \in ReadRun : listing'.body[r].last = reply[r] /\ listing'.body[r].read = receipt[r]
      BY <2>1, <2>2 DEF UpToDate
    <3>2. \A r \in ReadRun : reply[r] \in Nat
      BY <1>1 DEF ReadTypeOK
    <3> QED BY <1>1, <3>1, <3>2 DEF ListKnows, UpToDate, NotAhead
  <2> QED BY <2>1, <2>3, <2>4, ListMoves
<1>4. \/ AfterList = [phase |-> "asked", again |-> FALSE] /\ listing.again
      \/ AfterList = [phase |-> "none", again |-> FALSE] /\ ~listing.again
  BY DEF AfterList
<1>5. CASE ReadsArrive
  <2>1. /\ listing.phase = "served" /\ badges' = [badges EXCEPT !.items = listing.body]
        /\ listing' = AfterList
        /\ UNCHANGED <<reply, receipt, posting, late, bulk, bulks, unheard>>
    BY <1>5 DEF ReadsArrive
  <2>2. listing.body \in ReadRows /\ NotAhead(listing.body)
        /\ (~listing.again /\ ~unheard => UpToDate(listing.body))
    BY <1>1, <2>1 DEF ReadTypeOK, ListKnows
  <2>3. /\ badges' \in [items : ReadRows, optimistic : [ReadRun -> Nat], error : BOOLEAN]
        /\ badges'.items = listing.body /\ badges'.optimistic = badges.optimistic
    BY <1>1, <2>1, <2>2
  <2>4. ReadTypeOK'
    BY <1>1, <1>4, <2>1, <2>3 DEF ReadTypeOK
  <2>5. ListKnows'
    BY <1>4, <2>1, <2>2, <2>3 DEF ListKnows, UpToDate, NotAhead
  <2> QED BY <2>1, <2>3, <2>4, <2>5, ListMoves
<1>6. CASE ReadsFail
  <2>1. /\ listing' = AfterList /\ unheard' = (unheard \/ ~listing.again)
        /\ UNCHANGED <<reply, receipt, badges, posting, late, bulk, bulks>>
    BY <1>6 DEF ReadsFail
  <2>2. unheard' \in BOOLEAN /\ (~listing.again => unheard')
    BY <1>1, <2>1 DEF ReadTypeOK
  <2>3. ReadTypeOK'
    BY <1>1, <1>4, <2>1, <2>2 DEF ReadTypeOK
  <2>4. ListKnows'
    BY <1>1, <1>4, <2>1, <2>2 DEF ListKnows, NotAhead
  <2> QED BY <2>1, <2>3, <2>4, ListMoves
<1> QED BY <1>2, <1>3, <1>5, <1>6

\* A receipt keeps its promise until the server has it; the server may say that a
\* chat is read up to its current reply, and says so in an event.
LEMMA ServerMoves ==
  ASSUME ReadInv, ReadTypeOK', UNCHANGED <<reply, listing>>, unheard => unheard',
         badges'.items = badges.items, badges'.optimistic = badges.optimistic,
         \A r \in ReadRun : receipt'[r] = receipt[r] \/ (receipt'[r] = reply[r] /\ unheard'),
         \A s \in ReceiptSlot : posting[s].phase \in {"asked", "lost", "failed"} =>
           /\ posting'[s].run = posting[s].run /\ posting'[s].last = posting[s].last
           /\ \/ posting'[s].phase \in {"asked", "lost", "failed"}
              \/ receipt'[posting[s].run] = posting[s].last
  PROVE  ReadInv'
<1>1. ASSUME NEW r \in ReadRun PROVE Pledged(r)' /\ receipt'[r] <= reply'[r]
  <2> DEFINE v == badges.optimistic[r]
  <2>1. badges'.optimistic[r] = v /\ v <= reply'[r] /\ Pledged(r) /\ reply'[r] \in Nat
        /\ receipt[r] <= reply[r]
    BY <1>1 DEF ReadInv, Pledged, ReadTypeOK
  <2>2. CASE \E s \in ReceiptSlot : /\ posting[s].phase \in {"asked", "lost", "failed"}
                                    /\ posting[s].run = r /\ posting[s].last = v
    BY <2>1, <2>2 DEF Pledged
  <2>3. CASE v = 0 \/ receipt[r] = v \/ reply[r] # v
    BY <2>1, <2>3 DEF Pledged
  <2>4. Pledged(r)'
    BY <2>1, <2>2, <2>3 DEF Pledged
  <2> QED BY <2>1, <2>4
<1>2. ListKnows'
  BY DEF ReadInv, ListKnows, UpToDate, NotAhead
<1> QED BY <1>1, <1>2 DEF ReadInv

LEMMA ReceiptsMove ==
  ASSUME ReadInv,
         \/ \E s \in ReceiptSlot :
              \/ \E b \in BOOLEAN : PostReceipt(s, b) \/ GiveUpReceipt(s, b) \/ ConfirmReceipt(s, b)
              \/ ReceiptDone(s)
         \/ MarkAllRead \/ (\E a, b \in BOOLEAN : PostBulk(a, b)) \/ BulkEnds
         \/ \E p \in late : LateReceipt(p)
  PROVE  ReadInv'
<1>1. /\ ReadTypeOK /\ unheard \in BOOLEAN
      /\ badges \in [items : ReadRows, optimistic : [ReadRun -> Nat], error : BOOLEAN]
      /\ posting \in [ReceiptSlot -> {NoReceipt} \cup ReceiptType]
      /\ reply \in [ReadRun -> Nat] /\ receipt \in [ReadRun -> Nat]
      /\ NoReceipt.phase = "none"
      /\ late \in SUBSET [run : ReadRun, last : Nat]
  BY DEF ReadInv, ReadTypeOK, NoReceipt
<1>2. ASSUME NEW s \in ReceiptSlot, NEW to \in {"done", "lost", "failed"},
             posting[s].phase \in {"asked", "lost"},
             posting' = [posting EXCEPT ![s].phase = to]
      PROVE  /\ posting' \in [ReceiptSlot -> {NoReceipt} \cup ReceiptType]
             /\ posting[s] \in ReceiptType
             /\ posting'[s].phase = to
             /\ \A x \in ReceiptSlot : posting[x].phase \in {"asked", "lost", "failed"} =>
                  posting'[x].run = posting[x].run /\ posting'[x].last = posting[x].last
             /\ \A x \in ReceiptSlot : x # s => posting'[x] = posting[x]
  <2>1. posting[s] \in ReceiptType
    BY <1>1, <1>2
  <2>2. PICK p \in ReceiptType : p = posting[s]
    BY <2>1
  <2> DEFINE moved == [p EXCEPT !.phase = to]
  <2>3. moved \in ReceiptType /\ moved.phase = to /\ moved.run = p.run /\ moved.last = p.last
    BY DEF ReceiptType
  <2>4. posting' = [posting EXCEPT ![s] = moved]
    BY <1>2, <2>2
  <2> HIDE DEF moved
  <2> QED BY <1>1, <2>2, <2>3, <2>4
<1>3. ASSUME NEW run \in ReadRun, NEW last \in Nat,
             receipt' = IF reply[run] = last THEN [receipt EXCEPT ![run] = last] ELSE receipt
      PROVE  /\ receipt' \in [ReadRun -> Nat]
             /\ \A r \in ReadRun : receipt'[r] = receipt[r] \/ receipt'[r] = reply[r]
             /\ reply[run] = last => receipt'[run] = last
  BY <1>1, <1>3
<1>4. ASSUME NEW s \in ReceiptSlot, NEW b \in BOOLEAN, PostReceipt(s, b) PROVE ReadInv'
  <2> DEFINE to == IF b /\ reply[posting[s].run] = posting[s].last THEN "done" ELSE "lost"
  <2>1. /\ posting[s].phase = "asked" /\ Accepts(posting[s])
        /\ posting' = [posting EXCEPT ![s].phase = to] /\ unheard' = TRUE
        /\ UNCHANGED <<reply, badges, late, bulk, bulks, listing>>
    BY <1>4 DEF PostReceipt
  <2>2. to \in {"done", "lost"} /\ (to = "done" => reply[posting[s].run] = posting[s].last)
    OBVIOUS
  <2> HIDE DEF to
  <2>3. /\ posting' \in [ReceiptSlot -> {NoReceipt} \cup ReceiptType]
        /\ posting[s] \in ReceiptType /\ posting'[s].phase = to
        /\ \A x \in ReceiptSlot : posting[x].phase \in {"asked", "lost", "failed"} =>
             posting'[x].run = posting[x].run /\ posting'[x].last = posting[x].last
        /\ \A x \in ReceiptSlot : x # s => posting'[x] = posting[x]
    BY <1>2, <2>1, <2>2
  <2>4. posting[s].run \in ReadRun /\ posting[s].last \in Nat
    BY <2>3 DEF ReceiptType
  <2>5. /\ receipt' \in [ReadRun -> Nat]
        /\ \A r \in ReadRun : receipt'[r] = receipt[r] \/ receipt'[r] = reply[r]
        /\ (to = "done" => receipt'[posting[s].run] = posting[s].last)
    BY <1>3, <2>1, <2>2, <2>4 DEF Accepts
  <2>6. ReadTypeOK'
    BY <1>1, <2>1, <2>3, <2>5 DEF ReadTypeOK
  <2> QED BY <2>1, <2>2, <2>3, <2>5, <2>6, ServerMoves
<1>5. ASSUME NEW s \in ReceiptSlot, NEW b \in BOOLEAN, GiveUpReceipt(s, b) PROVE ReadInv'
  <2>1. /\ posting[s].phase = "asked" /\ posting' = [posting EXCEPT ![s].phase = "lost"]
        /\ UNCHANGED <<reply, receipt, badges, bulk, bulks, listing, unheard>>
        /\ late' = IF b THEN late \cup {Receipt(posting[s])} ELSE late
    BY <1>5 DEF GiveUpReceipt
  <2>2. /\ posting' \in [ReceiptSlot -> {NoReceipt} \cup ReceiptType]
        /\ posting[s] \in ReceiptType /\ posting'[s].phase = "lost"
        /\ \A x \in ReceiptSlot : posting[x].phase \in {"asked", "lost", "failed"} =>
             posting'[x].run = posting[x].run /\ posting'[x].last = posting[x].last
        /\ \A x \in ReceiptSlot : x # s => posting'[x] = posting[x]
    BY <1>2, <2>1
  <2>3. late' \in SUBSET [run : ReadRun, last : Nat]
    BY <1>1, <2>1, <2>2 DEF Receipt, ReceiptType
  <2>4. ReadTypeOK'
    BY <1>1, <2>1, <2>2, <2>3 DEF ReadTypeOK
  <2> QED BY <2>1, <2>2, <2>4, ServerMoves
<1>6. ASSUME NEW s \in ReceiptSlot, NEW b \in BOOLEAN, ConfirmReceipt(s, b) PROVE ReadInv'
  <2> DEFINE to == IF b /\ receipt[posting[s].run] = posting[s].last THEN "done" ELSE "failed"
  <2>1. /\ posting[s].phase = "lost" /\ posting' = [posting EXCEPT ![s].phase = to]
        /\ UNCHANGED <<reply, receipt, badges, late, bulk, bulks, listing, unheard>>
    BY <1>6 DEF ConfirmReceipt
  <2>2. to \in {"done", "failed"} /\ (to = "done" => receipt[posting[s].run] = posting[s].last)
    OBVIOUS
  <2> HIDE DEF to
  <2>3. /\ posting' \in [ReceiptSlot -> {NoReceipt} \cup ReceiptType]
        /\ posting[s] \in ReceiptType /\ posting'[s].phase = to
        /\ \A x \in ReceiptSlot : posting[x].phase \in {"asked", "lost", "failed"} =>
             posting'[x].run = posting[x].run /\ posting'[x].last = posting[x].last
        /\ \A x \in ReceiptSlot : x # s => posting'[x] = posting[x]
    BY <1>2, <2>1, <2>2
  <2>4. ReadTypeOK'
    BY <1>1, <2>1, <2>3 DEF ReadTypeOK
  <2> QED BY <2>1, <2>2, <2>3, <2>4, ServerMoves
<1>7. ASSUME NEW e \in BOOLEAN, badges' = [badges EXCEPT !.error = e]
      PROVE  /\ badges' \in [items : ReadRows, optimistic : [ReadRun -> Nat], error : BOOLEAN]
             /\ badges'.items = badges.items /\ badges'.optimistic = badges.optimistic
  BY <1>1, <1>7
<1>8. ASSUME NEW s \in ReceiptSlot, ReceiptDone(s) PROVE ReadInv'
  <2>1. /\ posting[s].phase = "done" /\ posting' = [posting EXCEPT ![s] = NoReceipt]
        /\ badges' = [badges EXCEPT !.error = FALSE]
        /\ UNCHANGED <<reply, receipt, late, bulk, bulks, listing, unheard>>
    BY <1>8 DEF ReceiptDone
  <2>2. /\ posting' \in [ReceiptSlot -> {NoReceipt} \cup ReceiptType]
        /\ \A x \in ReceiptSlot : x # s => posting'[x] = posting[x]
    BY <1>1, <2>1
  <2>3. ReadTypeOK'
    BY <1>1, <1>7, <2>1, <2>2 DEF ReadTypeOK
  <2> QED BY <1>7, <2>1, <2>2, <2>3, ServerMoves
<1>9. CASE MarkAllRead \/ BulkEnds
  <2>1. /\ UNCHANGED <<reply, receipt, posting, late, listing, unheard>>
        /\ bulk' \in {"none", "asked"} /\ bulks' \in {bulks, bulks + 1}
        /\ \E e \in BOOLEAN : badges' = [badges EXCEPT !.error = e]
    <3>1. CASE MarkAllRead
      BY <3>1 DEF MarkAllRead
    <3>2. CASE BulkEnds
      BY <1>1, <3>2 DEF BulkEnds
    <3> QED BY <1>9, <3>1, <3>2
  <2>2. ReadTypeOK'
    BY <1>1, <1>7, <2>1 DEF ReadTypeOK
  <2> QED BY <1>7, <2>1, <2>2, ServerMoves
<1>10. ASSUME NEW a \in BOOLEAN, NEW b \in BOOLEAN, PostBulk(a, b) PROVE ReadInv'
  <2>1. /\ receipt' = (IF a THEN reply ELSE receipt) /\ bulk' \in {"done", "lost"}
        /\ unheard' = (unheard \/ a)
        /\ UNCHANGED <<reply, badges, posting, late, bulks, listing>>
    BY <1>10 DEF PostBulk
  <2>2. ReadTypeOK'
    BY <1>1, <2>1 DEF ReadTypeOK
  <2> QED BY <1>1, <2>1, <2>2, ServerMoves
<1>11. ASSUME NEW p \in late, LateReceipt(p) PROVE ReadInv'
  <2>1. /\ Accepts(p) /\ late' = late \ {p} /\ unheard' = TRUE
        /\ UNCHANGED <<reply, badges, posting, bulk, bulks, listing>>
    BY <1>11 DEF LateReceipt
  <2>2. p.run \in ReadRun /\ p.last \in Nat
    BY <1>1
  <2>3. /\ receipt' \in [ReadRun -> Nat]
        /\ \A r \in ReadRun : receipt'[r] = receipt[r] \/ receipt'[r] = reply[r]
    BY <1>3, <2>1, <2>2 DEF Accepts
  <2>4. ReadTypeOK'
    BY <1>1, <2>1, <2>3 DEF ReadTypeOK
  <2> QED BY <2>1, <2>3, <2>4, ServerMoves
<1> QED BY <1>4, <1>5, <1>6, <1>8, <1>9, <1>10, <1>11

\* The badge of a chat is taken away before its receipt is posted.
LEMMA ReceiptsBegin ==
  ASSUME ReadInv, NEW r \in ReadRun, NEW s \in ReceiptSlot, NEW fresh \in BOOLEAN, MarkRead(r, s, fresh)
  PROVE  ReadInv'
<1> DEFINE item == IF fresh THEN Snapshot[r] ELSE badges.items[r]
           p == [phase |-> "asked", run |-> r, last |-> item.last]
<1>1. /\ ReadTypeOK /\ ListKnows /\ \A q \in ReadRun : receipt[q] <= reply[q]
      /\ badges \in [items : ReadRows, optimistic : [ReadRun -> Nat], error : BOOLEAN]
      /\ posting \in [ReceiptSlot -> {NoReceipt} \cup ReceiptType]
  BY DEF ReadInv, ReadTypeOK
<1>2. item.last \in Nat /\ item.last <= reply[r]
  <2>1. CASE fresh
    BY <1>1, <2>1, SnapshotRows DEF ReadRows, ReadRow, NotAhead
  <2>2. CASE ~fresh
    BY <1>1, <2>2 DEF ReadRows, ReadRow, ListKnows, NotAhead
  <2> QED BY <2>1, <2>2
<1>3. /\ badges' = [badges EXCEPT !.optimistic[r] = item.last]
      /\ posting' = [posting EXCEPT ![s] = p] /\ posting[s] = NoReceipt
      /\ UNCHANGED <<reply, receipt, late, bulk, bulks, listing, unheard>>
  BY DEF MarkRead
<1>4. p \in ReceiptType /\ p.phase = "asked" /\ p.run = r /\ p.last = item.last
  BY <1>2 DEF ReceiptType
<1> HIDE DEF item, p
<1>5. /\ badges' \in [items : ReadRows, optimistic : [ReadRun -> Nat], error : BOOLEAN]
      /\ badges'.items = badges.items
      /\ badges'.optimistic = [badges.optimistic EXCEPT ![r] = item.last]
  BY <1>1, <1>2, <1>3
<1>6. posting' \in [ReceiptSlot -> {NoReceipt} \cup ReceiptType]
      /\ posting'[s] = p /\ \A x \in ReceiptSlot : x # s => posting'[x] = posting[x]
  BY <1>1, <1>3, <1>4
<1>7. ReadTypeOK'
  BY <1>1, <1>3, <1>5, <1>6 DEF ReadTypeOK
<1>8. ListKnows'
  BY <1>1, <1>3, <1>5 DEF ListKnows, UpToDate, NotAhead
<1>9. ASSUME NEW q \in ReadRun PROVE Pledged(q)'
  <2>1. CASE q = r
    BY <1>1, <1>2, <1>3, <1>4, <1>5, <1>6, <2>1 DEF Pledged
  <2>2. CASE q # r
    <3>1. badges'.optimistic[q] = badges.optimistic[q] /\ Pledged(q)
      BY <1>1, <1>5, <2>2 DEF ReadInv
    <3>2. \A x \in ReceiptSlot : posting[x].phase \in {"asked", "lost", "failed"} => x # s
      BY <1>3 DEF NoReceipt
    <3> QED BY <1>3, <1>6, <3>1, <3>2 DEF Pledged
  <2> QED BY <2>1, <2>2
<1> QED BY <1>1, <1>3, <1>7, <1>8, <1>9 DEF ReadInv

\* A receipt that failed gives the badge back and asks for the list.
LEMMA ReceiptsFail ==
  ASSUME ReadInv, NEW s \in ReceiptSlot, ReceiptFailed(s)
  PROVE  ReadInv'
<1> DEFINE p == posting[s]
           v == IF badges.optimistic[p.run] = p.last THEN 0 ELSE badges.optimistic[p.run]
<1>1. /\ ReadTypeOK /\ ListKnows /\ \A q \in ReadRun : receipt[q] <= reply[q]
      /\ badges \in [items : ReadRows, optimistic : [ReadRun -> Nat], error : BOOLEAN]
      /\ posting \in [ReceiptSlot -> {NoReceipt} \cup ReceiptType]
  BY DEF ReadInv, ReadTypeOK
<1>2. /\ badges' = [badges EXCEPT !.error = TRUE, !.optimistic[p.run] = v]
      /\ posting' = [posting EXCEPT ![s] = NoReceipt] /\ posting[s].phase = "failed" /\ AskList
      /\ UNCHANGED <<reply, receipt, late, bulk, bulks>>
  BY DEF ReceiptFailed
<1>3. p.run \in ReadRun /\ p.last \in Nat
  BY <1>1, <1>2 DEF ReceiptType, NoReceipt
<1>4. v \in Nat /\ (v = 0 \/ (v = badges.optimistic[p.run] /\ v # p.last))
      /\ badges.optimistic[p.run] \in Nat
  <2>1. PICK o \in Nat : o = badges.optimistic[p.run]
    BY <1>1, <1>3
  <2>2. v = IF o = p.last THEN 0 ELSE o
    BY <2>1
  <2> HIDE DEF v
  <2> QED BY <1>3, <2>1, <2>2
<1> HIDE DEF v
<1>5. /\ badges' \in [items : ReadRows, optimistic : [ReadRun -> Nat], error : BOOLEAN]
      /\ badges'.items = badges.items
      /\ badges'.optimistic = [badges.optimistic EXCEPT ![p.run] = v]
  <2> HIDE DEF p
  <2> QED BY <1>1, <1>2, <1>3, <1>4
<1>6. posting' \in [ReceiptSlot -> {NoReceipt} \cup ReceiptType]
      /\ \A x \in ReceiptSlot : x # s => posting'[x] = posting[x]
  BY <1>1, <1>2
<1>7. NotAhead(badges'.items)
  BY <1>1, <1>5 DEF ListKnows
<1>8. /\ ListKnows' /\ unheard' = FALSE
      /\ \/ \E a \in BOOLEAN : listing' = [phase |-> "asked", again |-> a]
         \/ \E rows \in ReadRows : listing' = [phase |-> "served", again |-> TRUE, body |-> rows]
  BY <1>1, <1>2, <1>7, AskedKnows, AskedList
<1>9. ReadTypeOK'
  BY <1>1, <1>2, <1>5, <1>6, <1>8 DEF ReadTypeOK
<1>10. ASSUME NEW q \in ReadRun PROVE Pledged(q)'
  <2>1. Pledged(q) /\ reply[q] \in Nat
    BY <1>1 DEF ReadInv, ReadTypeOK
  <2>2. CASE badges'.optimistic[q] = 0
    BY <1>2, <2>1, <2>2 DEF Pledged
  <2>3. CASE badges'.optimistic[q] = badges.optimistic[q] /\ (q # p.run \/ badges.optimistic[q] # p.last)
    BY <1>2, <1>6, <2>1, <2>3 DEF Pledged
  <2> QED BY <1>1, <1>4, <1>5, <2>2, <2>3
<1> QED BY <1>1, <1>2, <1>8, <1>9, <1>10 DEF ReadInv

\* "Mark all read" shows its effect and asks for the list.
LEMMA BulkEffects ==
  ASSUME ReadInv, BulkDone \/ BulkLost
  PROVE  ReadInv'
<1>1. /\ ReadTypeOK /\ ListKnows /\ \A q \in ReadRun : receipt[q] <= reply[q] /\ Pledged(q)
      /\ badges \in [items : ReadRows, optimistic : [ReadRun -> Nat], error : BOOLEAN]
      /\ reply \in [ReadRun -> Nat]
  BY DEF ReadInv, ReadTypeOK
<1>2. /\ AskList /\ bulk' \in {"reading", "doubtful"} /\ UNCHANGED <<reply, receipt, posting, late, bulks>>
  BY DEF BulkDone, BulkLost
<1>3. /\ badges' \in [items : ReadRows, optimistic : [ReadRun -> Nat], error : BOOLEAN]
      /\ NotAhead(badges'.items)
      /\ \A q \in ReadRun : Pledged(q)'
  <2>1. CASE BulkLost
    BY <1>1, <1>2, <2>1 DEF BulkLost, Pledged, ListKnows
  <2>2. CASE BulkDone
    <3> DEFINE rows == [r \in ReadRun |-> [badges.items[r] EXCEPT !.read = badges.items[r].last]]
               none == [r \in ReadRun |-> 0]
    <3>1. rows \in ReadRows /\ \A r \in ReadRun : rows[r].last = badges.items[r].last
      <4>1. ASSUME NEW x \in ReadRow
            PROVE  [x EXCEPT !.read = x.last] \in ReadRow /\ [x EXCEPT !.read = x.last].last = x.last
        BY DEF ReadRow
      <4>2. \A r \in ReadRun : badges.items[r] \in ReadRow
        BY <1>1 DEF ReadRows
      <4>3. \A r \in ReadRun : rows[r] \in ReadRow /\ rows[r].last = badges.items[r].last
        BY <4>1, <4>2
      <4> HIDE DEF rows
      <4>4. rows = [r \in ReadRun |-> rows[r]]
        BY DEF rows
      <4> QED BY <4>3, <4>4 DEF ReadRows
    <3>2. badges' = [[badges EXCEPT !.items = rows] EXCEPT !.optimistic = none] /\ none \in [ReadRun -> Nat]
      BY <2>2 DEF BulkDone
    <3>3. \A q \in ReadRun : none[q] = 0
      OBVIOUS
    <3> HIDE DEF rows, none
    <3>4. /\ badges' \in [items : ReadRows, optimistic : [ReadRun -> Nat], error : BOOLEAN]
          /\ badges'.items = rows /\ badges'.optimistic = none
      BY <1>1, <3>1, <3>2
    <3>5. NotAhead(badges'.items)
      BY <1>1, <3>1, <3>4 DEF ListKnows, NotAhead
    <3>6. \A q \in ReadRun : Pledged(q)'
      BY <1>1, <1>2, <3>3, <3>4 DEF Pledged
    <3> QED BY <3>4, <3>5, <3>6
  <2> QED BY <2>1, <2>2
<1>4. /\ ListKnows' /\ unheard' = FALSE
      /\ \/ \E a \in BOOLEAN : listing' = [phase |-> "asked", again |-> a]
         \/ \E rows \in ReadRows : listing' = [phase |-> "served", again |-> TRUE, body |-> rows]
  BY <1>1, <1>2, <1>3, AskedKnows, AskedList
<1>5. ReadTypeOK'
  BY <1>1, <1>2, <1>3, <1>4 DEF ReadTypeOK
<1> QED BY <1>1, <1>2, <1>3, <1>4, <1>5 DEF ReadInv

LEMMA RepliesArrive ==
  ASSUME ReadInv, NEW r \in ReadRun, Replied(r)
  PROVE  ReadInv'
<1>1. /\ ReadTypeOK /\ ListKnows /\ reply \in [ReadRun -> Nat] /\ receipt \in [ReadRun -> Nat]
      /\ badges \in [items : ReadRows, optimistic : [ReadRun -> Nat], error : BOOLEAN]
      /\ \A q \in ReadRun : receipt[q] <= reply[q] /\ Pledged(q)
  BY DEF ReadInv, ReadTypeOK
<1>2. /\ reply' = [reply EXCEPT ![r] = reply[r] + 1] /\ unheard' = TRUE
      /\ UNCHANGED <<receipt, badges, posting, late, bulk, bulks, listing>>
  BY DEF Replied
<1>3. \A q \in ReadRun : reply'[q] \in Nat /\ (reply'[q] = reply[q] \/ reply'[q] = reply[q] + 1)
  BY <1>1, <1>2
<1>4. ReadTypeOK'
  BY <1>1, <1>2 DEF ReadTypeOK
<1>5. ListKnows'
  <2>1. \A q \in ReadRun : badges.items[q].last \in Nat
    BY <1>1 DEF ReadRows, ReadRow
  <2>2. listing.phase = "served" => \A q \in ReadRun : listing.body[q].last \in Nat
    <3>1. listing.phase = "served" => listing.body \in ReadRows
      BY <1>1 DEF ReadTypeOK
    <3> QED BY <3>1 DEF ReadRows, ReadRow
  <2> QED BY <1>1, <1>2, <1>3, <2>1, <2>2 DEF ListKnows, NotAhead
<1>6. ASSUME NEW q \in ReadRun PROVE receipt'[q] <= reply'[q] /\ Pledged(q)'
  BY <1>1, <1>2, <1>3 DEF Pledged
<1> QED BY <1>4, <1>5, <1>6 DEF ReadInv

LEMMA NextReads == ReadInv /\ [ReadNext]_readVars => ReadInv'
<1> SUFFICES ASSUME ReadInv, [ReadNext]_readVars PROVE ReadInv'
  OBVIOUS
<1>1. CASE UNCHANGED readVars
  <2>1. ReadTypeOK'
    BY <1>1 DEF readVars, ReadInv, ReadTypeOK
  <2> QED BY <1>1, <2>1, ServerMoves DEF readVars
<1>2. CASE ReadNext
  BY <1>2, ReadsOfList, ReceiptsMove, ReceiptsBegin, ReceiptsFail, BulkEffects, RepliesArrive DEF ReadNext
<1> QED BY <1>1, <1>2

THEOREM ReadInvariant == ReadSpec => []ReadInv
BY InitReads, NextReads, PTL DEF ReadSpec

\* When nothing is in flight and the page was told of every change, a badge is there
\* exactly when the server has an unread reply: no receipt that failed, was rejected
\* or was lost keeps a badge away, and no stale list item brings one back
\* (optimisticReads, readReceiptConfirmed).
THEOREM BadgesAreTrue == ReadSpec => []BadgesAgree
<1>1. ReadInv => BadgesAgree
  <2> SUFFICES ASSUME ReadInv, \A s \in ReceiptSlot : posting[s] = NoReceipt, listing.phase = "none",
                      ~unheard, NEW r \in ReadRun
               PROVE  Unread(badges.items[r], badges.optimistic[r]) = (receipt[r] # reply[r])
    BY DEF BadgesAgree
  <2>1. /\ badges.items[r].last = reply[r] /\ badges.items[r].read = receipt[r]
        /\ receipt[r] <= reply[r] /\ Pledged(r)
        /\ reply[r] \in Nat /\ receipt[r] \in Nat
    BY DEF ReadInv, ListKnows, UpToDate, ReadTypeOK
  <2>2. badges.optimistic[r] = 0 \/ receipt[r] = badges.optimistic[r] \/ reply[r] # badges.optimistic[r]
    BY <2>1 DEF Pledged, NoReceipt
  <2>3. Unread(badges.items[r], badges.optimistic[r]) <=> receipt[r] # reply[r]
    BY <2>1, <2>2 DEF Unread
  <2>4. Unread(badges.items[r], badges.optimistic[r]) \in BOOLEAN
    BY DEF Unread
  <2> QED BY <2>3, <2>4, Zenon
<1> QED BY <1>1, ReadInvariant, PTL

(****************************************************************************)
(* What the composers send.                                                 *)
(****************************************************************************)

Text       == Seq(Nat)
Route      == {"chat", "fallback", "queue", "continue"}
SendSet    == [phase : {"hash", "look", "post", "posted", "lost"}, text : Text, route : Route,
               context : Nat, exact : BOOLEAN, current : BOOLEAN, edited : BOOLEAN, id : Nat]
RequestSet == [route : Route, text : Text, context : Nat, id : Nat]
ServerSet  == [route : Route, text : Text, context : Nat, id : Nat, live : BOOLEAN]
ScreenSet  == [at : Anywhere, sending : BOOLEAN, text : Text]

SendTypeOK ==
  /\ composer \in ScreenSet
  /\ memory \in [Composer -> Text] /\ storage \in [Composer -> Text]
  /\ sends \in [SendSlot -> {NoSend} \cup SendSet]
  /\ ledger \subseteq RequestSet /\ astray \subseteq RequestSet /\ server \subseteq ServerSet
  /\ ids \in Nat /\ typed \in Nat

HasId(s) == sends[s].phase \notin {"none", "hash"}

\* A request that the page, the server or the network knows.
IsKnown(x) ==
  \/ x \in ledger \cup astray
  \/ \E r \in server : x = Request(r)
  \/ \E s \in SendSlot : HasId(s) /\ x = Request(sends[s])

\* An id stands for one request, which is in the ledger until the user is told
\* that it was accepted; a fingerprint has one id in the ledger.
IdsAgree ==
  /\ \A x : IsKnown(x) => x \in RequestSet /\ x.id <= ids /\ (x.id \in told \/ x \in ledger)
  /\ \A x, y : IsKnown(x) /\ IsKnown(y) /\ x.id = y.id => x = y
  /\ \A e, f \in ledger : Fingerprint(e) = Fingerprint(f) => e = f

\* Memory holds what is on screen, cut, and storage what is in memory, unless
\* it refused the last write.
ScreenAgrees ==
  /\ composer.at \in Composer => memory[composer.at] = Cut(composer.text)
  /\ composer.at \notin Composer => composer.text = <<>>

MemoryAgrees ==
  \A c \in Composer :
    /\ Cut(memory[c]) = memory[c]
    /\ c \notin unsaved /\ memory[c] # <<>> => memory[c] = Cut(storage[c])

\* Where a piece is that was typed.  What is in storage only counts for a composer
\* that is closed and from which nothing is on its way: no write of its own can
\* replace it.  A send that waits has its text in the composer.
Sent(p)    == \E r \in server \cup astray : p \in ToSet(r.text)
OnScreen(p) == p \in ToSet(composer.text)
InMemory(p) == \E c \in Composer : p \in ToSet(memory[c])
Leaving(p) == \E s \in SendSlot : Sending(s) /\ ~Waiting(sends[s]) /\ p \in ToSet(sends[s].text)
Resting(p) == \E c \in Composer :
  /\ composer.at # c /\ memory[c] = <<>> /\ p \in ToSet(Cut(storage[c]))
  /\ \A s \in SendSlot : Sending(s) => From(sends[s]) # c
Safe(p) == p \in lost \/ OnScreen(p) \/ InMemory(p) \/ Leaving(p) \/ Sent(p) \/ Resting(p)

SendInv ==
  SendTypeOK /\ IdsAgree /\ ScreenAgrees /\ MemoryAgrees /\ \A p \in 1 .. typed : Safe(p)

\* The pieces of a text that grows.
LEMMA Pieces ==
  ASSUME NEW t \in Text
  PROVE  \A x : x \in ToSet(t) <=> \E i \in 1 .. Len(t) : x = t[i]
<1>1. t \in Seq(Nat)
  BY DEF Text
<1>2. DOMAIN t = 1 .. Len(t)
  BY <1>1
<1> QED BY <1>2 DEF ToSet

LEMMA TextGrows ==
  ASSUME NEW a \in Text, NEW q \in Nat
  PROVE  /\ Append(a, q) \in Text
         /\ q \in ToSet(Append(a, q)) /\ ToSet(a) \subseteq ToSet(Append(a, q))
<1>1. a \in Seq(Nat)
  BY DEF Text
<1>2. Append(a, q) \in Text
  BY <1>1 DEF Text
<1>3. /\ Len(a) + 1 \in 1 .. Len(Append(a, q)) /\ Append(a, q)[Len(a) + 1] = q
      /\ \A i \in 1 .. Len(a) : i \in 1 .. Len(Append(a, q)) /\ Append(a, q)[i] = a[i]
  BY <1>1
<1>4. ASSUME NEW x \in ToSet(a) PROVE x \in ToSet(Append(a, q))
  <2>1. PICK i \in 1 .. Len(a) : x = a[i]
    BY Pieces
  <2>2. i \in 1 .. Len(Append(a, q)) /\ x = Append(a, q)[i]
    BY <1>3, <2>1
  <2> QED BY <1>2, <2>2, Pieces
<1> QED BY <1>2, <1>3, <1>4, Pieces

LEMMA TextsJoin ==
  ASSUME NEW a \in Text, NEW b \in Text
  PROVE  /\ a \o b \in Text
         /\ ToSet(a) \subseteq ToSet(a \o b) /\ ToSet(b) \subseteq ToSet(a \o b)
<1>1. a \in Seq(Nat) /\ b \in Seq(Nat)
  BY DEF Text
<1>2. a \o b \in Text
  BY <1>1 DEF Text
<1>3. /\ \A i \in 1 .. Len(a) : i \in 1 .. Len(a \o b) /\ (a \o b)[i] = a[i]
      /\ \A i \in 1 .. Len(b) : Len(a) + i \in 1 .. Len(a \o b) /\ (a \o b)[Len(a) + i] = b[i]
  BY <1>1
<1>4. ASSUME NEW x \in ToSet(a) PROVE x \in ToSet(a \o b)
  <2>1. PICK i \in 1 .. Len(a) : x = a[i]
    BY Pieces
  <2>2. i \in 1 .. Len(a \o b) /\ x = (a \o b)[i]
    BY <1>3, <2>1
  <2> QED BY <1>2, <2>2, Pieces
<1>5. ASSUME NEW x \in ToSet(b) PROVE x \in ToSet(a \o b)
  <2>1. PICK i \in 1 .. Len(b) : x = b[i]
    BY Pieces
  <2>2. Len(a) + i \in 1 .. Len(a \o b) /\ x = (a \o b)[Len(a) + i]
    BY <1>3, <2>1
  <2> QED BY <1>2, <2>2, Pieces
<1> QED BY <1>2, <1>4, <1>5

\* The beginning of a text that memory keeps.
LEMMA CutFacts ==
  ASSUME NEW t \in Text
  PROVE  /\ Cut(t) \in Text /\ Cut(Cut(t)) = Cut(t) /\ ToSet(Cut(t)) \subseteq ToSet(t)
<1>1. t \in Seq(Nat) /\ MaxLength \in Nat
  BY SendAssumption DEF Text
<1>2. CASE Len(t) <= MaxLength
  BY <1>2 DEF Cut
<1>3. CASE ~(Len(t) <= MaxLength)
  <2> DEFINE u == SubSeq(t, 1, MaxLength)
  <2>1. /\ u \in Seq(Nat) /\ Len(u) = MaxLength
        /\ \A i \in 1 .. MaxLength : i \in 1 .. Len(t) /\ u[i] = t[i]
    <3>1. Len(t) \in Nat /\ MaxLength <= Len(t)
      BY <1>1, <1>3
    <3>2. u \in Seq(Nat) /\ Len(u) = MaxLength /\ \A i \in 1 .. MaxLength : u[i] = t[i]
      BY <1>1, <3>1
    <3> QED BY <1>1, <3>1, <3>2
  <2>2. Cut(t) = u
    BY <1>3 DEF Cut
  <2> HIDE DEF u
  <2>3. u \in Text /\ Cut(u) = u
    BY <1>1, <2>1 DEF Text, Cut
  <2>4. ASSUME NEW x \in ToSet(u) PROVE x \in ToSet(t)
    <3>1. PICK i \in 1 .. Len(u) : x = u[i]
      BY <2>3, Pieces
    <3> QED BY <2>1, <3>1, Pieces
  <2> QED BY <2>2, <2>3, <2>4
<1> QED BY <1>2, <1>3

LEMMA Empty ==
  /\ <<>> \in Text /\ ToSet(<<>>) = {} /\ Cut(<<>>) = <<>>
<1>1. <<>> \in Text /\ Len(<<>>) = 0
  BY DEF Text
<1>2. \A x : x \notin ToSet(<<>>)
  BY <1>1, Pieces
<1> QED BY <1>1, <1>2, SendAssumption DEF Cut

LEMMA InitSends == SendInit => SendInv
<1> SUFFICES ASSUME SendInit PROVE SendInv
  OBVIOUS
<1>1. \A s \in SendSlot : sends[s] = NoSend /\ sends[s].phase = "none" /\ ~HasId(s)
  BY DEF SendInit, NoSend, HasId
<1>2. SendTypeOK
  BY SendAssumption, Empty DEF SendInit, SendTypeOK, Composer, Anywhere, ScreenSet
<1>3. \A x : ~IsKnown(x)
  BY <1>1 DEF SendInit, IsKnown
<1>4. IdsAgree
  BY <1>3 DEF SendInit, IdsAgree
<1>5. ScreenAgrees /\ MemoryAgrees
  BY Empty DEF SendInit, ScreenAgrees, MemoryAgrees, Composer
<1>6. 1 .. typed = {}
  BY DEF SendInit
<1> QED BY <1>2, <1>4, <1>5, <1>6 DEF SendInv

\* The records of a send.
LEMMA SendFacts ==
  ASSUME NEW x \in {NoSend} \cup SendSet
  PROVE  /\ x.phase = "none" <=> x = NoSend
         /\ x.phase # "none" => x \in SendSet
         /\ x \in SendSet =>
              /\ x.text \in Text /\ x.route \in Route /\ From(x) \in Composer
              /\ Request(x) \in RequestSet /\ Request(x).id = x.id /\ Request(x).text = x.text
              /\ ~Waiting(x) => From(x) = Open
BY SendAssumption DEF NoSend, SendSet, Request, RequestSet, Route, From, Composer, Waiting

\* Two lists of sends that differ at most in `current` and `edited`.
Alike(all, marked) ==
  /\ marked \in [SendSlot -> {NoSend} \cup SendSet]
  /\ \A s \in SendSlot :
       /\ marked[s].phase = all[s].phase
       /\ all[s].phase # "none" =>
            /\ marked[s].route = all[s].route /\ marked[s].text = all[s].text
            /\ Request(marked[s]) = Request(all[s])

LEMMA MarksKeep ==
  ASSUME NEW all \in [SendSlot -> {NoSend} \cup SendSet], NEW c
  PROVE  Alike(all, all) /\ Alike(all, Edited(c, all)) /\ Alike(all, Outlived(all))
<1>1. ASSUME NEW x \in SendSet, NEW y, y = [x EXCEPT !.edited = TRUE] \/ y = [x EXCEPT !.current = FALSE]
      PROVE  /\ y \in SendSet /\ y.phase = x.phase /\ y.route = x.route /\ y.text = x.text
             /\ Request(y) = Request(x)
  <2>1. /\ y \in SendSet /\ y.phase = x.phase /\ y.route = x.route /\ y.text = x.text
        /\ y.context = x.context /\ y.id = x.id
    BY <1>1 DEF SendSet
  <2> QED BY <2>1 DEF Request
<1>2. \A s \in SendSlot : all[s] \in {NoSend} \cup SendSet /\ (all[s].phase # "none" => all[s] \in SendSet)
  BY DEF NoSend
<1>3. ASSUME NEW marked, DOMAIN marked = SendSlot, marked = [s \in SendSlot |-> marked[s]],
             \A s \in SendSlot : \/ marked[s] = all[s]
                                 \/ /\ all[s].phase # "none"
                                    /\ marked[s] \in {[all[s] EXCEPT !.edited = TRUE],
                                                      [all[s] EXCEPT !.current = FALSE]}
      PROVE  Alike(all, marked)
  <2>1. ASSUME NEW s \in SendSlot
        PROVE  /\ marked[s] \in {NoSend} \cup SendSet /\ marked[s].phase = all[s].phase
               /\ all[s].phase # "none" =>
                    /\ marked[s].route = all[s].route /\ marked[s].text = all[s].text
                    /\ Request(marked[s]) = Request(all[s])
    BY <1>1, <1>2, <1>3
  <2> QED BY <1>3, <2>1 DEF Alike
<1>4. Alike(all, all)
  BY <1>3
<1>5. Alike(all, Edited(c, all))
  <2> DEFINE marked == Edited(c, all)
  <2>1. DOMAIN marked = SendSlot /\ marked = [s \in SendSlot |-> marked[s]]
        /\ \A s \in SendSlot : marked[s] = all[s]
             \/ (all[s].phase # "none" /\ marked[s] = [all[s] EXCEPT !.edited = TRUE])
    BY DEF Edited
  <2> HIDE DEF marked
  <2> QED BY <1>3, <2>1 DEF marked
<1>6. Alike(all, Outlived(all))
  <2> DEFINE marked == Outlived(all)
  <2>1. DOMAIN marked = SendSlot /\ marked = [s \in SendSlot |-> marked[s]]
        /\ \A s \in SendSlot : marked[s] = all[s]
             \/ (all[s].phase # "none" /\ marked[s] = [all[s] EXCEPT !.current = FALSE])
    BY DEF Outlived
  <2> HIDE DEF marked
  <2> QED BY <1>3, <2>1 DEF marked
<1> QED BY <1>4, <1>5, <1>6

LEMMA AlikeAll ==
  ASSUME NEW all, NEW some, NEW marked, Alike(all, some), Alike(some, marked)
  PROVE  Alike(all, marked)
BY DEF Alike

\* A step that makes no request known takes at most what the user is told of.
LEMMA NothingNew ==
  ASSUME IdsAgree, \A x : IsKnown(x)' => IsKnown(x), ids' = ids, NEW gone,
         ledger' = ledger \ gone, told \subseteq told', \A x \in gone : x.id \in told'
  PROVE  IdsAgree'
BY DEF IdsAgree, Fingerprint

LEMMA NothingNewOrGone ==
  ASSUME IdsAgree, \A x : IsKnown(x)' => IsKnown(x), UNCHANGED <<ids, ledger, told>>
  PROVE  IdsAgree'
BY DEF IdsAgree, Fingerprint

\* What one send, and marks on the others, leave known.
LEMMA KnownOfSends ==
  ASSUME NEW s \in SendSlot, NEW all, Alike(all, sends'),
         \A x \in SendSlot : x # s => all[x] = sends[x],
         all[s].phase \notin {"none", "hash"} => IsKnown(Request(all[s])),
         ledger' \subseteq ledger, astray' = astray, server' = server
  PROVE  \A x : IsKnown(x)' => IsKnown(x)
<1> SUFFICES ASSUME NEW x, IsKnown(x)' PROVE IsKnown(x)
  OBVIOUS
<1>1. CASE x \in ledger' \cup astray' \/ \E r \in server' : x = Request(r)
  BY <1>1 DEF IsKnown, Request
<1>2. ASSUME NEW y \in SendSlot, HasId(y)', x = Request(sends'[y]) PROVE IsKnown(x)
  <2>1. all[y].phase \notin {"none", "hash"} /\ x = Request(all[y])
    BY <1>2 DEF HasId, Alike
  <2>2. CASE y = s
    BY <2>1, <2>2
  <2>3. CASE y # s
    BY <2>1, <2>3 DEF HasId, IsKnown
  <2> QED BY <2>2, <2>3
<1> QED BY <1>1, <1>2 DEF IsKnown

LEMMA TypeFacts ==
  ASSUME SendInv
  PROVE  /\ SendTypeOK /\ IdsAgree /\ ScreenAgrees /\ MemoryAgrees
         /\ \A p \in 1 .. typed : Safe(p)
         /\ composer \in ScreenSet /\ composer.at \in Anywhere /\ composer.sending \in BOOLEAN
         /\ composer.text \in Text
         /\ memory \in [Composer -> Text] /\ storage \in [Composer -> Text]
         /\ sends \in [SendSlot -> {NoSend} \cup SendSet]
         /\ Open \in Composer /\ New \in Composer /\ Open # New /\ Elsewhere \notin Composer
         /\ Composer \subseteq Anywhere /\ Elsewhere \in Anywhere
         /\ \A c \in Composer : c = New \/ c = Open
         /\ \A k \in Anywhere : k \in Composer \/ k = Elsewhere
BY SendAssumption DEF SendInv, SendTypeOK, Composer, Anywhere, ScreenSet

\* Screen and drafts are as before, and what was leaving is; what is on its way now
\* was so, or comes from what is on screen: nothing typed is lost.
LEMMA DraftsStay ==
  ASSUME SendInv, composer'.at = composer.at, composer'.text = composer.text,
         UNCHANGED <<memory, storage, unsaved, lost, typed>>,
         \A s \in SendSlot : Sending(s) /\ ~Waiting(sends[s]) =>
           Sending(s)' /\ ~Waiting(sends'[s]) /\ sends'[s].text = sends[s].text,
         \A s \in SendSlot : Sending(s)' =>
           (Sending(s) /\ From(sends'[s]) = From(sends[s])) \/ From(sends'[s]) = composer.at,
         \A p : Sent(p) => Sent(p)'
  PROVE  ScreenAgrees' /\ MemoryAgrees' /\ \A p \in 1 .. typed' : Safe(p)'
<1>1. ScreenAgrees' /\ MemoryAgrees'
  BY TypeFacts DEF ScreenAgrees, MemoryAgrees, Cut
<1>2. ASSUME NEW p \in 1 .. typed PROVE Safe(p)'
  <2>1. Safe(p)
    BY TypeFacts
  <2>2. OnScreen(p) => OnScreen(p)'
    BY DEF OnScreen
  <2>3. InMemory(p) => InMemory(p)'
    BY DEF InMemory
  <2>4. Leaving(p) => Leaving(p)'
    BY DEF Leaving
  <2>5. Resting(p) => Resting(p)'
    BY DEF Resting, Cut
  <2> QED BY <2>1, <2>2, <2>3, <2>4, <2>5 DEF Safe
<1> QED BY <1>1, <1>2

\* The same for a step that changes one send, without ending it.
LEMMA OneSendStays ==
  ASSUME SendInv, NEW s \in SendSlot, NEW new \in SendSet, sends' = [sends EXCEPT ![s] = new],
         sends[s].phase # "none", new.route = sends[s].route, new.text = sends[s].text,
         UNCHANGED <<composer, memory, storage, unsaved, lost, typed>>, \A p : Sent(p) => Sent(p)'
  PROVE  /\ ScreenAgrees' /\ MemoryAgrees' /\ \A p \in 1 .. typed' : Safe(p)'
         /\ sends' \in [SendSlot -> {NoSend} \cup SendSet] /\ sends'[s] = new
         /\ \A x \in SendSlot : x # s => sends'[x] = sends[x]
<1>1. /\ sends' \in [SendSlot -> {NoSend} \cup SendSet] /\ sends'[s] = new
      /\ \A x \in SendSlot : x # s => sends'[x] = sends[x]
  BY TypeFacts
<1>2. new.phase # "none" /\ Waiting(new) = Waiting(sends[s]) /\ From(new) = From(sends[s])
  BY DEF SendSet, Waiting, From
<1>3. \A x \in SendSlot : Sending(x) /\ ~Waiting(sends[x]) =>
        Sending(x)' /\ ~Waiting(sends'[x]) /\ sends'[x].text = sends[x].text
  BY <1>1, <1>2 DEF Sending
<1>4. \A x \in SendSlot : Sending(x)' => Sending(x) /\ From(sends'[x]) = From(sends[x])
  BY <1>1, <1>2 DEF Sending
<1>5. composer'.at = composer.at /\ composer'.text = composer.text
  OBVIOUS
<1>6. ScreenAgrees' /\ MemoryAgrees' /\ \A p \in 1 .. typed' : Safe(p)'
  BY <1>3, <1>4, <1>5, DraftsStay
<1> QED BY <1>1, <1>6

\* A request gets its id, or the one the ledger has for its fingerprint.
LEMMA Registers ==
  ASSUME SendInv, NEW s \in SendSlot, Register(s)
  PROVE  SendInv'
<1>1. PICK h \in SendSet : h = sends[s] /\ h.phase = "hash"
  BY TypeFacts, SendFacts DEF Register
<1> DEFINE next(phase, id) == [[h EXCEPT !.phase = phase] EXCEPT !.id = id]
<1>2. /\ UNCHANGED <<composer, server, astray, reloads, typed, told>>
      /\ UNCHANGED <<memory, storage, unsaved, lost, refusals>>
  BY <1>1 DEF Register, draftVars
<1>3. ASSUME NEW ph \in {"look", "post"}, NEW i \in Nat
      PROVE  /\ next(ph, i) \in SendSet /\ next(ph, i).phase = ph
             /\ next(ph, i).route = h.route /\ next(ph, i).text = h.text
             /\ Request(next(ph, i)) =
                  [route |-> h.route, text |-> h.text, context |-> h.context, id |-> i]
             /\ Request(next(ph, i)) \in RequestSet
  BY <1>1 DEF SendSet, Request, RequestSet
<1>4. \/ \E e \in ledger : /\ Fingerprint(e) = Fingerprint(h)
                            /\ sends' = [sends EXCEPT ![s] = next("look", e.id)]
                            /\ UNCHANGED <<ledger, ids>>
      \/ /\ \A e \in ledger : Fingerprint(e) # Fingerprint(h)
         /\ ids' = ids + 1
         /\ ledger' = ledger \cup {Request(next("post", ids + 1))}
         /\ sends' = [sends EXCEPT ![s] = next("post", ids + 1)]
  <2>1. Request([h EXCEPT !.id = ids + 1]) = Request(next("post", ids + 1))
    BY DEF Request, SendSet
  <2> QED BY <1>1, <2>1 DEF Register
<1> HIDE DEF next
<1>5. \E ph \in {"look", "post"}, i \in Nat : sends' = [sends EXCEPT ![s] = next(ph, i)]
  <2>1. ids + 1 \in Nat /\ \A e \in ledger : e.id \in Nat
    BY TypeFacts DEF SendTypeOK, RequestSet
  <2> QED BY <1>4, <2>1
<1>6. \A p : Sent(p) => Sent(p)'
  BY <1>2 DEF Sent
<1>7. /\ ScreenAgrees' /\ MemoryAgrees' /\ \A p \in 1 .. typed' : Safe(p)'
      /\ sends' \in [SendSlot -> {NoSend} \cup SendSet]
      /\ \A x \in SendSlot : x # s => sends'[x] = sends[x]
  BY <1>1, <1>2, <1>3, <1>5, <1>6, OneSendStays
<1>8. ASSUME NEW e \in ledger, Fingerprint(e) = Fingerprint(h),
             sends' = [sends EXCEPT ![s] = next("look", e.id)], UNCHANGED <<ledger, ids>>
      PROVE  SendInv'
  <2>1. e \in RequestSet
    BY <1>8, TypeFacts DEF SendTypeOK
  <2>2. Request(next("look", e.id)) = e
    <3>1. e.route = h.route /\ e.text = h.text /\ e.context = h.context /\ e.id \in Nat
      BY <1>8, <2>1 DEF Fingerprint, RequestSet
    <3>2. e = [route |-> e.route, text |-> e.text, context |-> e.context, id |-> e.id]
      BY <2>1 DEF RequestSet
    <3> QED BY <1>3, <3>1, <3>2
  <2>3. sends'[s] = next("look", e.id)
    BY <1>8, TypeFacts
  <2>4. \A x : IsKnown(x)' => IsKnown(x)
    BY <1>2, <1>7, <1>8, <2>2, <2>3 DEF IsKnown, HasId, Request
  <2>5. IdsAgree'
    BY <1>2, <1>8, <2>4, NothingNewOrGone, TypeFacts
  <2>6. SendTypeOK'
    BY <1>2, <1>7, <1>8, TypeFacts DEF SendTypeOK
  <2> QED BY <1>7, <2>5, <2>6 DEF SendInv
<1>9. ASSUME \A e \in ledger : Fingerprint(e) # Fingerprint(h), ids' = ids + 1,
             ledger' = ledger \cup {Request(next("post", ids + 1))},
             sends' = [sends EXCEPT ![s] = next("post", ids + 1)]
      PROVE  SendInv'
  <2>1. PICK new \in RequestSet :
          /\ new = Request(next("post", ids + 1)) /\ new.id = ids + 1
          /\ Fingerprint(new) = Fingerprint(h)
    BY <1>3, TypeFacts DEF SendTypeOK, Fingerprint
  <2>2. sends'[s] = next("post", ids + 1)
    BY <1>9, TypeFacts
  <2>3. \A x : IsKnown(x)' => IsKnown(x) \/ x = new
    BY <1>2, <1>7, <1>9, <2>1, <2>2 DEF IsKnown, HasId, Request
  <2>4. IdsAgree'
    <3>1. ids \in Nat /\ IdsAgree /\ ledger \subseteq RequestSet
      BY TypeFacts DEF SendTypeOK
    <3>2. \A x : IsKnown(x) => x.id # new.id /\ x.id \in Nat
      BY <2>1, <3>1 DEF IdsAgree, RequestSet
    <3>3. \A x : IsKnown(x)' => x \in RequestSet /\ x.id <= ids' /\ (x.id \in told' \/ x \in ledger')
      BY <1>2, <1>9, <2>1, <2>3, <3>1, <3>2 DEF IdsAgree
    <3>4. \A x, y : IsKnown(x)' /\ IsKnown(y)' /\ x.id = y.id => x = y
      BY <2>3, <3>1, <3>2 DEF IdsAgree
    <3>5. \A e, f \in ledger' : Fingerprint(e) = Fingerprint(f) => e = f
      BY <1>9, <2>1, <3>1 DEF IdsAgree
    <3> QED BY <3>3, <3>4, <3>5 DEF IdsAgree, Fingerprint
  <2>5. SendTypeOK'
    BY <1>2, <1>7, <1>9, <2>1, TypeFacts DEF SendTypeOK
  <2> QED BY <1>7, <2>4, <2>5 DEF SendInv
<1> QED BY <1>4, <1>8, <1>9

\* The server keeps one request per id.
LEMMA ArrivedFacts ==
  ASSUME SendInv, NEW r, Request(r) \in RequestSet, IsKnown(Request(r)), Arrived(r)
  PROVE  /\ server' \subseteq ServerSet /\ server \subseteq server'
         /\ \A x \in server' : x \in server \/ Request(x) = Request(r)
         /\ \E x \in server' : x.text = r.text
<1>1. server \subseteq ServerSet /\ IdsAgree
  BY TypeFacts DEF SendTypeOK
<1>2. r.route \in Route /\ r.text \in Text /\ r.context \in Nat /\ r.id \in Nat
  BY DEF Request, RequestSet
<1>3. ASSUME NEW x \in server, x.id = r.id PROVE x.text = r.text
  <2>1. IsKnown(Request(x)) /\ Request(x).id = Request(r).id
    BY <1>3 DEF IsKnown, Request
  <2>2. Request(x) = Request(r)
    BY <1>1, <2>1 DEF IdsAgree
  <2> QED BY <2>2 DEF Request
<1>4. CASE \E x \in server : x.id = r.id
  BY <1>1, <1>3, <1>4 DEF Arrived
<1>5. CASE ~\E x \in server : x.id = r.id
  <2> DEFINE new == [route |-> r.route, text |-> r.text, context |-> r.context, id |-> r.id,
                     live |-> TRUE]
  <2>1. server' = server \cup {new}
    BY <1>5 DEF Arrived
  <2>2. new \in ServerSet /\ new.text = r.text /\ Request(new) = Request(r)
    BY <1>2 DEF ServerSet, Request
  <2> QED BY <1>1, <2>1, <2>2
<1> QED BY <1>4, <1>5

\* A POST reaches the server, late or not.
LEMMA Arrivals ==
  ASSUME SendInv,
         (\E s \in SendSlot : Post(s)) \/ \E r \in astray : Stray(r)
  PROVE  SendInv'
<1>1. ASSUME NEW s \in SendSlot, Post(s) PROVE SendInv'
  <2>1. /\ sends[s].phase = "post" /\ Arrived(sends[s])
        /\ sends' = [sends EXCEPT ![s].phase = "posted"]
        /\ UNCHANGED <<composer, ledger, astray, ids, reloads, typed, told>>
        /\ UNCHANGED <<memory, storage, unsaved, lost, refusals>>
    BY <1>1 DEF Post, draftVars
  <2>2. PICK x \in SendSet : x = sends[s]
    BY <2>1, TypeFacts, SendFacts
  <2>3. Request(x) \in RequestSet /\ IsKnown(Request(x))
    BY <2>1, <2>2, SendFacts DEF IsKnown, HasId
  <2>4. /\ server' \subseteq ServerSet /\ server \subseteq server'
        /\ \A y \in server' : y \in server \/ Request(y) = Request(x)
    BY <2>1, <2>2, <2>3, ArrivedFacts
  <2> DEFINE new == [x EXCEPT !.phase = "posted"]
  <2>5. sends' = [sends EXCEPT ![s] = new]
    BY <2>1, <2>2, TypeFacts
  <2>6. new \in SendSet /\ Request(new) = Request(x) /\ new.phase = "posted"
        /\ new.route = x.route /\ new.text = x.text
    BY DEF SendSet, Request
  <2> HIDE DEF new
  <2>7. \A p : Sent(p) => Sent(p)'
    BY <2>1, <2>4 DEF Sent
  <2>8. /\ ScreenAgrees' /\ MemoryAgrees' /\ \A p \in 1 .. typed' : Safe(p)'
        /\ sends' \in [SendSlot -> {NoSend} \cup SendSet] /\ sends'[s] = new
        /\ \A y \in SendSlot : y # s => sends'[y] = sends[y]
    BY <2>1, <2>2, <2>5, <2>6, <2>7, OneSendStays
  <2>9. \A y : IsKnown(y)' => IsKnown(y)
    BY <2>1, <2>2, <2>3, <2>4, <2>6, <2>8 DEF IsKnown, HasId, Request
  <2>10. IdsAgree'
    BY <2>1, <2>9, NothingNewOrGone, TypeFacts
  <2>11. SendTypeOK'
    BY <2>1, <2>4, <2>8, TypeFacts DEF SendTypeOK
  <2> QED BY <2>8, <2>10, <2>11 DEF SendInv
<1>2. ASSUME NEW r \in astray, Stray(r) PROVE SendInv'
  <2>1. /\ Arrived(r) /\ astray' = astray \ {r}
        /\ UNCHANGED <<composer, sends, ledger, ids, reloads, typed, told>>
        /\ UNCHANGED <<memory, storage, unsaved, lost, refusals>>
    BY <1>2 DEF Stray, draftVars
  <2>2. r \in RequestSet /\ Request(r) = r /\ IsKnown(r)
    BY TypeFacts DEF SendTypeOK, RequestSet, Request, IsKnown
  <2>3. /\ server' \subseteq ServerSet /\ server \subseteq server'
        /\ \A y \in server' : y \in server \/ Request(y) = r
        /\ \E y \in server' : y.text = r.text
    BY <2>1, <2>2, ArrivedFacts
  <2>4. \A y : IsKnown(y)' => IsKnown(y)
    BY <2>1, <2>2, <2>3 DEF IsKnown, HasId, Request
  <2>5. IdsAgree'
    BY <2>1, <2>4, NothingNewOrGone, TypeFacts
  <2>6. SendTypeOK'
    BY <2>1, <2>3, TypeFacts DEF SendTypeOK
  <2>7. \A p : Sent(p) => Sent(p)'
    BY <2>1, <2>3 DEF Sent
  <2>8. ScreenAgrees' /\ MemoryAgrees' /\ \A p \in 1 .. typed' : Safe(p)'
    BY <2>1, <2>7, DraftsStay DEF Sending
  <2> QED BY <2>5, <2>6, <2>8 DEF SendInv
<1> QED BY <1>1, <1>2

\* An answer is lost, a request is asked for, a delivery ends.
LEMMA Losses ==
  ASSUME SendInv,
         \/ \E s \in SendSlot : Lose(s)
         \/ \E s \in SendSlot : sends[s].phase = "look"
              /\ sends' = [sends EXCEPT ![s].phase = "post"]
              /\ UNCHANGED <<composer, draftVars, ledger, server, astray, ids, reloads, typed, told>>
         \/ \E r \in server : EndsBadly(r)
  PROVE  SendInv'
<1>1. ASSUME NEW s \in SendSlot, NEW x \in SendSet, x = sends[s], x.phase # "hash",
             NEW ph \in {"post", "lost"}, sends' = [sends EXCEPT ![s].phase = ph],
             astray' \in {astray, astray \cup {Request(x)}},
             UNCHANGED <<composer, draftVars, ledger, server, ids, reloads, typed, told>>
      PROVE  SendInv'
  <2> DEFINE new == [x EXCEPT !.phase = ph]
  <2>1. sends' = [sends EXCEPT ![s] = new]
    BY <1>1, TypeFacts
  <2>2. new \in SendSet /\ Request(new) = Request(x) /\ new.phase = ph
        /\ new.route = x.route /\ new.text = x.text /\ x.phase # "none"
    BY DEF SendSet, Request
  <2> HIDE DEF new
  <2>3. UNCHANGED <<memory, storage, unsaved, lost, refusals>> /\ \A p : Sent(p) => Sent(p)'
    BY <1>1 DEF Sent, draftVars
  <2>4. /\ ScreenAgrees' /\ MemoryAgrees' /\ \A p \in 1 .. typed' : Safe(p)'
        /\ sends' \in [SendSlot -> {NoSend} \cup SendSet] /\ sends'[s] = new
        /\ \A y \in SendSlot : y # s => sends'[y] = sends[y]
    BY <1>1, <2>1, <2>2, <2>3, OneSendStays
  <2>5. Request(x) \in RequestSet /\ IsKnown(Request(x))
    BY <1>1, <2>2, SendFacts DEF IsKnown, HasId
  <2>6. ASSUME NEW y, IsKnown(y)' PROVE IsKnown(y)
    <3>1. CASE y \in ledger' \cup astray'
      BY <1>1, <2>5, <3>1 DEF IsKnown
    <3>2. ASSUME NEW q \in server', y = Request(q)' PROVE IsKnown(y)
      BY <1>1, <3>2 DEF IsKnown, Request
    <3>3. ASSUME NEW z \in SendSlot, HasId(z)', y = Request(sends'[z]) PROVE IsKnown(y)
      BY <2>2, <2>4, <2>5, <3>3 DEF IsKnown, HasId
    <3> QED BY <2>6, <3>1, <3>2, <3>3 DEF IsKnown, Request
  <2>7. IdsAgree'
    BY <1>1, <2>6, NothingNewOrGone, TypeFacts
  <2>8. SendTypeOK'
    BY <1>1, <2>3, <2>4, <2>5, TypeFacts DEF SendTypeOK
  <2> QED BY <2>4, <2>7, <2>8 DEF SendInv
<1>2. ASSUME NEW s \in SendSlot, sends[s].phase # "none" PROVE \E x \in SendSet : x = sends[s]
  BY <1>2, TypeFacts, SendFacts
<1>3. ASSUME NEW s \in SendSlot, Lose(s) PROVE SendInv'
  BY <1>1, <1>2, <1>3 DEF Lose
<1>4. ASSUME NEW r \in server, EndsBadly(r) PROVE SendInv'
  <2> DEFINE new == [r EXCEPT !.live = FALSE]
  <2>1. /\ server' = (server \ {r}) \cup {new}
        /\ UNCHANGED <<composer, sends, ledger, astray, ids, reloads, typed, told>>
        /\ UNCHANGED <<memory, storage, unsaved, lost, refusals>>
    BY <1>4 DEF EndsBadly, draftVars
  <2>2. new \in ServerSet /\ Request(new) = Request(r) /\ new.text = r.text
    <3>1. r \in ServerSet
      BY TypeFacts DEF SendTypeOK
    <3>2. /\ new \in ServerSet /\ new.route = r.route /\ new.text = r.text
          /\ new.context = r.context /\ new.id = r.id
      BY <3>1 DEF ServerSet
    <3> HIDE DEF new
    <3> QED BY <3>2 DEF Request
  <2> HIDE DEF new
  <2>3. \A y : IsKnown(y)' => IsKnown(y)
    BY <2>1, <2>2 DEF IsKnown, HasId, Request
  <2>4. IdsAgree'
    BY <2>1, <2>3, NothingNewOrGone, TypeFacts
  <2>5. SendTypeOK'
    BY <2>1, <2>2, TypeFacts DEF SendTypeOK
  <2>6. \A p : Sent(p) => Sent(p)'
    BY <2>1, <2>2 DEF Sent
  <2>7. ScreenAgrees' /\ MemoryAgrees' /\ \A p \in 1 .. typed' : Safe(p)'
    BY <2>1, <2>6, DraftsStay DEF Sending
  <2> QED BY <2>4, <2>5, <2>7 DEF SendInv
<1> QED BY <1>1, <1>2, <1>3, <1>4

\* What a write to a draft does to memory and storage, and to those of the others.
LEMMA Saves ==
  ASSUME SendInv, NEW c \in Composer, NEW text \in Text, NEW taken \in BOOLEAN,
         SaveDraft(c, text, taken)
  PROVE  /\ memory' \in [Composer -> Text] /\ storage' \in [Composer -> Text] /\ MemoryAgrees'
         /\ memory'[c] = Cut(text)
         /\ \A k \in Composer : k # c => memory'[k] = memory[k] /\ storage'[k] = storage[k]
<1>1. /\ memory' = [memory EXCEPT ![c] = Cut(text)]
      /\ storage' = IF taken THEN [storage EXCEPT ![c] = text] ELSE storage
      /\ unsaved' = IF taken THEN unsaved \ {c} ELSE unsaved \cup {c}
  BY DEF SaveDraft
<1>2. /\ Cut(text) \in Text /\ Cut(Cut(text)) = Cut(text)
      /\ memory \in [Composer -> Text] /\ storage \in [Composer -> Text]
  BY TypeFacts, CutFacts
<1>3. /\ memory' \in [Composer -> Text] /\ storage' \in [Composer -> Text]
      /\ memory'[c] = Cut(text) /\ (taken => storage'[c] = text)
      /\ \A k \in Composer : k # c => memory'[k] = memory[k] /\ storage'[k] = storage[k]
  BY <1>1, <1>2
<1>4. ASSUME NEW k \in Composer
      PROVE  /\ Cut(memory'[k]) = memory'[k]
             /\ k \notin unsaved' /\ memory'[k] # <<>> => memory'[k] = Cut(storage'[k])
  <2>1. CASE k = c
    BY <1>1, <1>2, <1>3, <2>1
  <2>2. CASE k # c
    BY <1>1, <1>3, <2>2, TypeFacts DEF MemoryAgrees
  <2> QED BY <2>1, <2>2
<1> QED BY <1>3, <1>4 DEF MemoryAgrees, Cut

LEMMA Clears ==
  ASSUME SendInv, NEW c \in Composer, NEW text \in Text, NEW taken, ClearDraft(c, text, taken)
  PROVE  /\ memory' \in [Composer -> Text] /\ storage' \in [Composer -> Text] /\ MemoryAgrees'
         /\ memory'[c] = <<>>
         /\ \A k \in Composer : k # c => memory'[k] = memory[k] /\ storage'[k] = storage[k]
<1>1. /\ memory' = [memory EXCEPT ![c] = <<>>]
      /\ storage' = [storage EXCEPT ![c] = <<>>] \/ storage' = storage
      /\ unsaved' = unsaved \ {c}
  BY DEF ClearDraft
<1>2. /\ memory \in [Composer -> Text] /\ storage \in [Composer -> Text]
      /\ <<>> \in Text /\ Cut(<<>>) = <<>>
  BY TypeFacts, Empty
<1>3. /\ memory' \in [Composer -> Text] /\ storage' \in [Composer -> Text]
      /\ memory'[c] = <<>>
      /\ \A k \in Composer : k # c => memory'[k] = memory[k] /\ storage'[k] = storage[k]
  BY <1>1, <1>2
<1>4. ASSUME NEW k \in Composer
      PROVE  /\ Cut(memory'[k]) = memory'[k]
             /\ k \notin unsaved' /\ memory'[k] # <<>> => memory'[k] = Cut(storage'[k])
  <2>1. CASE k = c
    BY <1>2, <1>3, <2>1
  <2>2. CASE k # c
    BY <1>1, <1>3, <2>2, TypeFacts DEF MemoryAgrees
  <2> QED BY <2>1, <2>2
<1> QED BY <1>3, <1>4 DEF MemoryAgrees, Cut

\* Marks on the sends only: nothing becomes known.
LEMMA OnlyMarks ==
  ASSUME SendInv, Alike(sends, sends'), UNCHANGED <<ledger, server, astray, ids, told>>,
         composer' \in ScreenSet, memory' \in [Composer -> Text], storage' \in [Composer -> Text],
         typed' \in Nat
  PROVE  /\ SendTypeOK' /\ IdsAgree'
         /\ \A p : Sent(p) => Sent(p)'
         /\ \A p : Leaving(p) => Leaving(p)'
         /\ \A s \in SendSlot : Sending(s)' => Sending(s) /\ From(sends'[s]) = From(sends[s])
<1>1. SendTypeOK'
  BY TypeFacts DEF SendTypeOK, Alike
<1>2. \A x : IsKnown(x)' => IsKnown(x)
  BY DEF IsKnown, HasId, Alike, Request
<1>3. IdsAgree'
  BY <1>2, NothingNewOrGone, TypeFacts
<1>4. \A p : Sent(p) => Sent(p)'
  BY DEF Sent
<1>5. \A p : Leaving(p) => Leaving(p)'
  BY DEF Leaving, Alike, Sending, Waiting
<1>6. \A s \in SendSlot : Sending(s)' => Sending(s) /\ From(sends'[s]) = From(sends[s])
  BY DEF Alike, Sending, From
<1> QED BY <1>1, <1>3, <1>4, <1>5, <1>6

\* A text on screen that grows, or appears in an empty composer.
LEMMA Writes ==
  ASSUME SendInv, NEW c \in Composer, composer.at = c, NEW text \in Text, NEW taken \in BOOLEAN,
         composer' = [composer EXCEPT !.text = text], SaveDraft(c, text, taken),
         sends' = Edited(c, sends), ToSet(composer.text) \subseteq ToSet(text),
         typed' \in Nat, UNCHANGED <<lost, ledger, server, astray, ids, told>>
  PROVE  /\ SendTypeOK' /\ IdsAgree' /\ ScreenAgrees' /\ MemoryAgrees'
         /\ \A p : Safe(p) \/ p \in ToSet(text) => Safe(p)'
<1>1. /\ memory' \in [Composer -> Text] /\ storage' \in [Composer -> Text] /\ MemoryAgrees'
      /\ memory'[c] = Cut(text)
      /\ \A k \in Composer : k # c => memory'[k] = memory[k] /\ storage'[k] = storage[k]
  BY Saves
<1>2. composer' \in ScreenSet /\ composer'.at = c /\ composer'.text = text
  BY TypeFacts DEF ScreenSet
<1>3. Alike(sends, sends')
  BY MarksKeep, TypeFacts
<1>4. /\ SendTypeOK' /\ IdsAgree'
      /\ \A p : Sent(p) => Sent(p)'
      /\ \A p : Leaving(p) => Leaving(p)'
      /\ \A s \in SendSlot : Sending(s)' => Sending(s) /\ From(sends'[s]) = From(sends[s])
  BY <1>1, <1>2, <1>3, OnlyMarks
<1>5. ScreenAgrees'
  BY <1>1, <1>2 DEF ScreenAgrees, Cut
<1>6. ASSUME NEW p, p \in ToSet(text) PROVE Safe(p)'
  BY <1>2, <1>6 DEF Safe, OnScreen
<1>7. ASSUME NEW p, Safe(p) PROVE Safe(p)'
  <2>1. CASE OnScreen(p)
    BY <1>6, <2>1 DEF OnScreen
  <2>2. ASSUME NEW k \in Composer, p \in ToSet(memory[k]) PROVE Safe(p)'
    <3>1. CASE k = c
      <4>1. ToSet(memory[k]) \subseteq ToSet(composer.text)
        BY <3>1, TypeFacts, CutFacts DEF ScreenAgrees
      <4> QED BY <1>6, <2>2, <4>1
    <3>2. CASE k # c
      BY <1>1, <2>2, <3>2 DEF Safe, InMemory
    <3> QED BY <3>1, <3>2
  <2>3. ASSUME NEW k \in Composer, composer.at # k, memory[k] = <<>>, p \in ToSet(Cut(storage[k])),
               \A s \in SendSlot : Sending(s) => From(sends[s]) # k
        PROVE  Resting(p)'
    BY <1>1, <1>2, <1>4, <2>3 DEF Resting, Cut
  <2> QED BY <1>4, <1>7, <2>1, <2>2, <2>3 DEF Safe, InMemory, Resting
<1> QED BY <1>1, <1>4, <1>5, <1>6, <1>7

\* Typing, and the text of a failed follow-up offered again.
LEMMA Types ==
  ASSUME SendInv, Type \/ \E r \in server : Offer(r)
  PROVE  SendInv'
<1>1. ASSUME Type PROVE SendInv'
  <2>1. PICK c \in Composer : c = composer.at
    BY <1>1 DEF Type
  <2>2. PICK new \in Nat, old \in Text :
          typed \in Nat /\ new = typed + 1 /\ typed' = new /\ composer.text = old
    BY <1>1, TypeFacts DEF Type, SendTypeOK
  <2>3. PICK text \in Text :
          text = Append(old, new) /\ new \in ToSet(text) /\ ToSet(old) \subseteq ToSet(text)
    BY TextGrows
  <2>4. PICK taken \in BOOLEAN : SaveDraft(c, text, taken)
    BY <1>1, <2>1, <2>2, <2>3 DEF Type, StorageAnswers
  <2>5. /\ composer' = [composer EXCEPT !.text = text] /\ sends' = Edited(c, sends)
        /\ UNCHANGED <<lost, ledger, server, astray, ids, told>> /\ typed' \in Nat
        /\ composer.at = c /\ ToSet(composer.text) \subseteq ToSet(text)
    BY <1>1, <2>1, <2>2, <2>3 DEF Type
  <2>6. /\ SendTypeOK' /\ IdsAgree' /\ ScreenAgrees' /\ MemoryAgrees'
        /\ \A p : Safe(p) \/ p \in ToSet(text) => Safe(p)'
    BY <2>4, <2>5, Writes
  <2>7. \A p \in 1 .. typed' : p \in 1 .. typed \/ p = new
    BY <2>2
  <2> QED BY <2>3, <2>6, <2>7, TypeFacts DEF SendInv
<1>2. ASSUME NEW r \in server, Offer(r) PROVE SendInv'
  <2>1. /\ composer.at = Open /\ composer.text = <<>> /\ r.text \in Text /\ Open \in Composer
        /\ typed' = typed /\ typed \in Nat
    BY <1>2, TypeFacts DEF Offer, SendTypeOK, ServerSet
  <2>2. ToSet(composer.text) \subseteq ToSet(r.text)
    BY <2>1, Empty
  <2>3. \E taken \in BOOLEAN : SaveDraft(Open, r.text, taken)
    BY <1>2 DEF Offer, StorageAnswers
  <2>4. /\ composer' = [composer EXCEPT !.text = r.text] /\ sends' = Edited(Open, sends)
        /\ UNCHANGED <<lost, ledger, server, astray, ids, told>>
    BY <1>2 DEF Offer
  <2>5. /\ SendTypeOK' /\ IdsAgree' /\ ScreenAgrees' /\ MemoryAgrees'
        /\ \A p : Safe(p) => Safe(p)'
    BY <2>1, <2>2, <2>3, <2>4, Writes
  <2> QED BY <2>1, <2>5, TypeFacts DEF SendInv
<1> QED BY <1>1, <1>2

\* A reply that is refused before anything is sent.
LEMMA Refusals ==
  ASSUME SendInv, Refuse
  PROVE  SendInv'
<1>1. PICK removed \in BOOLEAN, wrote \in BOOLEAN :
        /\ storage' = [storage EXCEPT ![Open] = IF wrote THEN composer.text
             ELSE IF removed /\ @ = composer.text THEN <<>> ELSE @]
        /\ unsaved' = IF wrote THEN unsaved \ {Open} ELSE unsaved \cup {Open}
  BY DEF Refuse, StorageAnswers
<1>2. /\ composer.at = Open /\ memory' = memory /\ sends' = Edited(Open, sends)
      /\ UNCHANGED <<composer, lost, ledger, server, astray, ids, typed, told>>
  BY DEF Refuse
<1>3. /\ storage' \in [Composer -> Text] /\ (wrote => storage'[Open] = composer.text)
      /\ \A k \in Composer : k # Open => storage'[k] = storage[k]
  BY <1>1, TypeFacts, Empty
<1>4. Alike(sends, sends')
  BY <1>2, MarksKeep, TypeFacts
<1>5. /\ composer' \in ScreenSet /\ memory' \in [Composer -> Text] /\ typed' \in Nat
  BY <1>2, TypeFacts DEF SendTypeOK
<1>6. /\ SendTypeOK' /\ IdsAgree'
      /\ \A p : Sent(p) => Sent(p)'
      /\ \A p : Leaving(p) => Leaving(p)'
      /\ \A s \in SendSlot : Sending(s)' => Sending(s) /\ From(sends'[s]) = From(sends[s])
  BY <1>2, <1>3, <1>4, <1>5, OnlyMarks
<1>7. ScreenAgrees'
  BY <1>2, TypeFacts DEF ScreenAgrees, Cut
<1>8. MemoryAgrees'
  <2>1. ASSUME NEW k \in Composer
        PROVE  /\ Cut(memory'[k]) = memory'[k]
               /\ k \notin unsaved' /\ memory'[k] # <<>> => memory'[k] = Cut(storage'[k])
    <3>1. CASE k = Open
      BY <1>1, <1>2, <1>3, <3>1, TypeFacts DEF MemoryAgrees, ScreenAgrees
    <3>2. CASE k # Open
      BY <1>1, <1>2, <1>3, <3>2, TypeFacts DEF MemoryAgrees
    <3> QED BY <3>1, <3>2
  <2> QED BY <2>1 DEF MemoryAgrees, Cut
<1>9. ASSUME NEW p \in 1 .. typed PROVE Safe(p)'
  <2>1. Safe(p)
    BY TypeFacts
  <2>2. (OnScreen(p) => OnScreen(p)') /\ (InMemory(p) => InMemory(p)')
    BY <1>2 DEF OnScreen, InMemory
  <2>3. ASSUME NEW k \in Composer, composer.at # k, memory[k] = <<>>, p \in ToSet(Cut(storage[k])),
               \A s \in SendSlot : Sending(s) => From(sends[s]) # k
        PROVE  Resting(p)'
    BY <1>2, <1>3, <1>6, <2>3 DEF Resting, Cut
  <2> QED BY <1>2, <1>6, <2>1, <2>2, <2>3 DEF Safe, Resting
<1> QED BY <1>2, <1>6, <1>7, <1>8, <1>9 DEF SendInv

\* Another composer is shown.
LEMMA Switches ==
  ASSUME SendInv, NEW k \in Anywhere, Switch(k)
  PROVE  SendInv'
<1>1. /\ k # composer.at /\ lost' = lost \cup Beyond(composer.text)
      /\ UNCHANGED <<storage, unsaved, ledger, server, astray, ids, typed, told>>
  BY DEF Switch
<1>2. ASSUME NEW c \in Composer
      PROVE  /\ Draft(c) \in Text /\ Cut(Draft(c)) = Draft(c)
             /\ memory[c] # <<>> => Draft(c) = memory[c]
             /\ memory[c] = <<>> => Draft(c) = Cut(storage[c])
  <2>1. memory[c] \in Text /\ storage[c] \in Text /\ Cut(memory[c]) = memory[c]
    BY TypeFacts DEF MemoryAgrees
  <2> QED BY <2>1, CutFacts DEF Draft
<1>3. Alike(sends, sends')
  <2>1. \A c : Alike(sends, sends) /\ Alike(sends, Edited(c, sends)) /\ Alike(sends, Outlived(sends))
    BY MarksKeep, TypeFacts
  <2>2. \A c : Alike(Edited(c, sends), Outlived(Edited(c, sends)))
    <3>1. \A c : Edited(c, sends) \in [SendSlot -> {NoSend} \cup SendSet]
      BY <2>1 DEF Alike
    <3> QED BY <3>1, MarksKeep
  <2>3. \A c : Alike(sends, Outlived(Edited(c, sends)))
    BY <2>1, <2>2, AlikeAll
  <2>4. \/ sends' = Outlived(sends)
        \/ \E c \in {k} : sends' = Outlived(Edited(c, sends))
    BY DEF Switch
  <2> QED BY <2>1, <2>3, <2>4
<1>4. /\ composer' \in ScreenSet /\ memory' \in [Composer -> Text] /\ composer'.at = k
      /\ \A c \in Composer : memory'[c] = IF c = k THEN Draft(c) ELSE memory[c]
      /\ composer'.text = IF k = Elsewhere THEN <<>> ELSE Draft(k)
  <2>1. CASE k = Elsewhere
    <3>1. composer' = At(Elsewhere, <<>>) /\ memory' = memory
      BY <2>1 DEF Switch
    <3>2. composer' \in ScreenSet /\ composer'.at = k /\ composer'.text = <<>>
      BY <2>1, <3>1, TypeFacts, Empty DEF At, ScreenSet
    <3> QED BY <2>1, <3>1, <3>2, TypeFacts
  <2>2. CASE k # Elsewhere
    <3>1. k \in Composer /\ composer' = At(k, Draft(k)) /\ memory' = [memory EXCEPT ![k] = Draft(k)]
      BY <2>2, TypeFacts DEF Switch
    <3>2. Draft(k) \in Text
      BY <1>2, <3>1
    <3>3. composer' \in ScreenSet /\ composer'.at = k /\ composer'.text = Draft(k)
      BY <3>1, <3>2 DEF At, ScreenSet
    <3>4. memory' \in [Composer -> Text]
          /\ \A c \in Composer : memory'[c] = IF c = k THEN Draft(c) ELSE memory[c]
      BY <3>1, <3>2, TypeFacts
    <3> QED BY <2>2, <3>3, <3>4
  <2> QED BY <2>1, <2>2
<1>5. storage' \in [Composer -> Text] /\ typed' \in Nat
  BY <1>1, TypeFacts DEF SendTypeOK
<1>6. /\ SendTypeOK' /\ IdsAgree'
      /\ \A p : Sent(p) => Sent(p)'
      /\ \A p : Leaving(p) => Leaving(p)'
      /\ \A s \in SendSlot : Sending(s)' => Sending(s) /\ From(sends'[s]) = From(sends[s])
  BY <1>1, <1>3, <1>4, <1>5, OnlyMarks
<1>7. ScreenAgrees'
  BY <1>2, <1>4, TypeFacts DEF ScreenAgrees, Cut
<1>8. MemoryAgrees'
  <2>1. ASSUME NEW c \in Composer
        PROVE  /\ Cut(memory'[c]) = memory'[c]
               /\ c \notin unsaved' /\ memory'[c] # <<>> => memory'[c] = Cut(storage'[c])
    BY <1>1, <1>2, <1>4, TypeFacts DEF MemoryAgrees
  <2> QED BY <2>1 DEF MemoryAgrees, Cut
<1>9. ASSUME NEW p \in 1 .. typed PROVE Safe(p)'
  <2>1. Safe(p)
    BY TypeFacts
  <2>2. ASSUME NEW c \in Composer, p \in ToSet(memory[c]) PROVE InMemory(p)'
    <3>1. memory[c] # <<>>
      BY <2>2, Empty
    <3>2. memory'[c] = memory[c]
      BY <1>2, <1>4, <3>1
    <3> QED BY <2>2, <3>2 DEF InMemory
  <2>3. ASSUME p \in ToSet(composer.text) PROVE p \in lost' \/ InMemory(p)'
    <3>1. composer.at \in Composer
      BY <2>3, TypeFacts, Empty DEF ScreenAgrees
    <3>2. PICK c \in Composer : c = composer.at
      BY <3>1
    <3>3. memory[c] = Cut(composer.text)
      BY <3>2, TypeFacts DEF ScreenAgrees
    <3>4. p \in ToSet(memory[c]) \/ p \in Beyond(composer.text)
      BY <2>3, <3>3 DEF Beyond
    <3> QED BY <1>1, <2>2, <3>4
  <2>4. ASSUME NEW c \in Composer, composer.at # c, memory[c] = <<>>, p \in ToSet(Cut(storage[c])),
               \A s \in SendSlot : Sending(s) => From(sends[s]) # c
        PROVE  InMemory(p)' \/ Resting(p)'
    <3>1. CASE c = k
      <4>1. memory'[c] = Cut(storage[c])
        BY <1>2, <1>4, <2>4, <3>1
      <4> QED BY <2>4, <4>1 DEF InMemory
    <3>2. CASE c # k
      BY <1>1, <1>4, <1>6, <2>4, <3>2 DEF Resting, Cut
    <3> QED BY <3>1, <3>2
  <2> QED BY <1>1, <1>6, <2>1, <2>2, <2>3, <2>4 DEF Safe, OnScreen, InMemory, Resting
<1> QED BY <1>1, <1>6, <1>7, <1>8, <1>9 DEF SendInv

\* A new send, in a free place.
LEMMA Submits ==
  ASSUME SendInv, NEW s \in SendSlot, ~Sending(s), NEW send \in SendSet,
         NEW all, Alike(sends, all), sends' = [all EXCEPT ![s] = send],
         send.phase # "hash" => IsKnown(Request(send)),
         UNCHANGED <<ledger, server, astray, ids, told, typed>>,
         composer' \in ScreenSet, memory' \in [Composer -> Text], storage' \in [Composer -> Text]
  PROVE  /\ SendTypeOK' /\ IdsAgree' /\ sends'[s] = send
         /\ \A p : Sent(p) => Sent(p)'
         /\ \A p : Leaving(p) => Leaving(p)'
         /\ \A x \in SendSlot : Sending(x) =>
              Sending(x)' /\ sends'[x].route = sends[x].route /\ sends'[x].text = sends[x].text
         /\ \A x \in SendSlot : x # s /\ Sending(x)' =>
              Sending(x) /\ From(sends'[x]) = From(sends[x])
<1> DEFINE one == [sends EXCEPT ![s] = send]
<1>1. one[s] = send /\ \A x \in SendSlot : x # s => one[x] = sends[x]
  BY TypeFacts
<1> HIDE DEF one
<1>2. /\ sends' \in [SendSlot -> {NoSend} \cup SendSet] /\ sends'[s] = send
      /\ \A x \in SendSlot : x # s => sends'[x] = all[x]
  BY DEF Alike
<1>3. Alike(one, sends')
  BY <1>1, <1>2 DEF Alike
<1>4. send.phase \notin {"none", "hash"} => IsKnown(Request(one[s]))
  BY <1>1
<1>5. \A x : IsKnown(x)' => IsKnown(x)
  BY <1>1, <1>3, <1>4, KnownOfSends
<1>6. IdsAgree'
  BY <1>5, NothingNewOrGone, TypeFacts
<1>7. SendTypeOK'
  BY <1>2, TypeFacts DEF SendTypeOK
<1>8. \A p : Sent(p) => Sent(p)'
  BY DEF Sent
<1>9. \A x \in SendSlot : Sending(x) =>
        Sending(x)' /\ sends'[x].route = sends[x].route /\ sends'[x].text = sends[x].text
  BY <1>2 DEF Alike, Sending
<1>10. \A p : Leaving(p) => Leaving(p)'
  BY <1>9 DEF Leaving, Waiting
<1>11. \A x \in SendSlot : x # s /\ Sending(x)' => Sending(x) /\ From(sends'[x]) = From(sends[x])
  BY <1>2 DEF Alike, Sending, From
<1> QED BY <1>2, <1>6, <1>7, <1>8, <1>9, <1>10, <1>11

LEMMA SubmissionFacts ==
  ASSUME SendInv, NEW route \in Route, NEW context \in Nat
  PROVE  LET send == Submission(route, context)
         IN  send \in SendSet /\ send.phase = "hash" /\ send.text = composer.text /\ send.route = route
BY TypeFacts DEF Submission, SendSet

LEMMA SubmitsWaiting ==
  ASSUME SendInv, NEW s \in SendSlot, SubmitWaiting(s)
  PROVE  SendInv'
<1>1. PICK route \in {"chat", "fallback"}, context \in Nat :
        /\ route = IF composer.at = New THEN "chat" ELSE "fallback"
        /\ sends' = [Outlived(sends) EXCEPT ![s] = Submission(route, context)]
  <2>1. PICK way \in IF composer.at = New THEN {"chat"} ELSE {"fallback"} :
          \E context \in Contexts(way) : sends' = [Outlived(sends) EXCEPT ![s] = Submission(way, context)]
    BY DEF SubmitWaiting
  <2>2. way \in {"chat", "fallback"} /\ way = IF composer.at = New THEN "chat" ELSE "fallback"
    OBVIOUS
  <2>3. PICK context \in Contexts(way) : sends' = [Outlived(sends) EXCEPT ![s] = Submission(way, context)]
    BY <2>1
  <2>4. context \in Nat
    BY SendAssumption DEF Contexts
  <2> QED BY <2>2, <2>3, <2>4
<1>2. PICK send \in SendSet :
        send = Submission(route, context) /\ send.phase = "hash" /\ send.route = route
  BY SubmissionFacts DEF Route
<1>3. /\ ~Sending(s) /\ composer' = [composer EXCEPT !.sending = TRUE] /\ composer.text # <<>>
      /\ UNCHANGED <<memory, storage, unsaved, lost, ledger, server, astray, ids, told, typed>>
  BY DEF SubmitWaiting, draftVars, CanSend
<1>4. composer' \in ScreenSet /\ composer'.at = composer.at /\ composer'.text = composer.text
  BY <1>3, TypeFacts DEF ScreenSet
<1>5. From(send) = composer.at
  BY <1>1, <1>2, <1>3, TypeFacts DEF From, ScreenAgrees
<1>6. PICK all \in [SendSlot -> {NoSend} \cup SendSet] : all = Outlived(sends) /\ Alike(sends, all)
  BY MarksKeep, TypeFacts DEF Alike
<1>7. /\ memory' \in [Composer -> Text] /\ storage' \in [Composer -> Text]
      /\ sends' = [all EXCEPT ![s] = send]
  BY <1>1, <1>2, <1>3, <1>6, TypeFacts
<1>8. /\ SendTypeOK' /\ IdsAgree' /\ sends'[s] = send
      /\ \A p : Sent(p) => Sent(p)'
      /\ \A x \in SendSlot : Sending(x) =>
           Sending(x)' /\ sends'[x].route = sends[x].route /\ sends'[x].text = sends[x].text
      /\ \A x \in SendSlot : x # s /\ Sending(x)' => Sending(x) /\ From(sends'[x]) = From(sends[x])
  BY <1>2, <1>3, <1>4, <1>6, <1>7, Submits
<1>9. ScreenAgrees' /\ MemoryAgrees' /\ \A p \in 1 .. typed' : Safe(p)'
  <2>1. \A x \in SendSlot : Sending(x) /\ ~Waiting(sends[x]) =>
          Sending(x)' /\ ~Waiting(sends'[x]) /\ sends'[x].text = sends[x].text
    BY <1>8 DEF Waiting
  <2>2. \A x \in SendSlot : Sending(x)' =>
          (Sending(x) /\ From(sends'[x]) = From(sends[x])) \/ From(sends'[x]) = composer.at
    BY <1>5, <1>8
  <2> QED BY <1>3, <1>4, <1>8, <2>1, <2>2, DraftsStay
<1> QED BY <1>8, <1>9 DEF SendInv

LEMMA SubmitsReply ==
  ASSUME SendInv, NEW s \in SendSlot, SubmitReply(s)
  PROVE  SendInv'
<1>1. /\ ~Sending(s) /\ composer.at = Open /\ composer' = [composer EXCEPT !.text = <<>>]
      /\ UNCHANGED <<lost, ledger, server, astray, ids, told, typed>>
  BY DEF SubmitReply
<1>2. PICK text \in Text, taken \in BOOLEAN : text = composer.text /\ ClearDraft(Open, text, taken)
  BY TypeFacts DEF SubmitReply, StorageAnswers
<1>3. PICK send \in SendSet :
        /\ sends' = [Edited(Open, sends) EXCEPT ![s] = send]
        /\ send.route \in {"queue", "continue"} \/ \E r \in server : send.route = r.route /\ r.route = "queue"
        /\ send.text = text /\ send.phase # "none"
        /\ send.phase # "hash" => IsKnown(Request(send))
  <2>1. ASSUME NEW route \in {"queue", "continue"}, NEW context \in Nat
        PROVE  \E send \in SendSet : /\ send = Submission(route, context)
                                     /\ send.phase = "hash" /\ send.route = route /\ send.text = text
    BY <1>2, SubmissionFacts DEF Route
  <2>2. \A context \in Contexts("continue") : context \in Nat
    BY SendAssumption DEF Contexts
  <2>3. ASSUME NEW r \in server, r.route = "queue", r.text = text
        PROVE  \E send \in SendSet : /\ send = Exact(r) /\ send.phase = "post"
                                     /\ send.route = "queue" /\ send.text = text
                                     /\ IsKnown(Request(send))
    <3>1. r \in ServerSet /\ r.context \in Nat /\ r.id \in Nat
      BY TypeFacts DEF SendTypeOK, ServerSet
    <3>2. PICK base \in SendSet : /\ base = Submission("queue", r.context) /\ base.text = text
                                  /\ base.route = "queue" /\ base.context = r.context
      <4>1. Submission("queue", r.context).context = r.context
        BY DEF Submission
      <4> QED BY <2>1, <3>1, <4>1
    <3> DEFINE send == [[[base EXCEPT !.phase = "post"] EXCEPT !.exact = TRUE] EXCEPT !.id = r.id]
    <3>3. send = Exact(r)
      BY <2>3, <3>2 DEF Exact
    <3>4. /\ send \in SendSet /\ send.phase = "post" /\ send.route = "queue" /\ send.text = text
          /\ send.context = r.context /\ send.id = r.id
      BY <3>1, <3>2 DEF SendSet
    <3> HIDE DEF send
    <3>5. Request(send) = Request(r)
      BY <2>3, <3>4 DEF Request
    <3>6. IsKnown(Request(send))
      BY <3>5 DEF IsKnown
    <3> QED BY <3>3, <3>4, <3>6
  <2>4. \E send \in {Submission("queue", 0)}
              \cup {Submission("continue", context) : context \in Contexts("continue")}
              \cup {Exact(r) : r \in {x \in server :
                      x.route = "queue" /\ x.live /\ x.text = composer.text}} :
          sends' = [Edited(Open, sends) EXCEPT ![s] = send]
    BY DEF SubmitReply
  <2>5. CASE sends' = [Edited(Open, sends) EXCEPT ![s] = Submission("queue", 0)]
    BY <2>1, <2>5
  <2>6. CASE \E context \in Contexts("continue") :
               sends' = [Edited(Open, sends) EXCEPT ![s] = Submission("continue", context)]
    <3>1. PICK context \in Contexts("continue") :
            sends' = [Edited(Open, sends) EXCEPT ![s] = Submission("continue", context)]
      BY <2>6
    <3>2. context \in Nat
      BY <2>2
    <3>3. PICK send \in SendSet : /\ send = Submission("continue", context) /\ send.phase = "hash"
                                  /\ send.route = "continue" /\ send.text = text
      BY <2>1, <3>2
    <3> QED BY <3>1, <3>3
  <2>7. CASE \E r \in server : r.route = "queue" /\ r.text = text
               /\ sends' = [Edited(Open, sends) EXCEPT ![s] = Exact(r)]
    BY <2>3, <2>7
  <2> QED BY <1>2, <2>4, <2>5, <2>6, <2>7
<1>4. ~Waiting(send) /\ From(send) = Open
  BY <1>3 DEF Waiting, From
<1>5. /\ memory' \in [Composer -> Text] /\ storage' \in [Composer -> Text] /\ MemoryAgrees'
      /\ memory'[Open] = <<>>
      /\ \A k \in Composer : k # Open => memory'[k] = memory[k] /\ storage'[k] = storage[k]
  BY <1>2, Clears, TypeFacts
<1>6. composer' \in ScreenSet /\ composer'.at = Open /\ composer'.text = <<>>
  BY <1>1, TypeFacts, Empty DEF ScreenSet
<1>7. PICK all \in [SendSlot -> {NoSend} \cup SendSet] : all = Edited(Open, sends) /\ Alike(sends, all)
  BY MarksKeep, TypeFacts DEF Alike
<1>8. /\ SendTypeOK' /\ IdsAgree' /\ sends'[s] = send
      /\ \A p : Sent(p) => Sent(p)'
      /\ \A p : Leaving(p) => Leaving(p)'
      /\ \A x \in SendSlot : x # s /\ Sending(x)' => Sending(x) /\ From(sends'[x]) = From(sends[x])
  BY <1>1, <1>3, <1>5, <1>6, <1>7, Submits
<1>9. ScreenAgrees'
  BY <1>5, <1>6, Empty, TypeFacts DEF ScreenAgrees, Cut
<1>10. ASSUME NEW p, p \in ToSet(text) PROVE Leaving(p)'
  BY <1>3, <1>4, <1>8, <1>10 DEF Leaving, Sending
<1>11. ASSUME NEW p \in 1 .. typed PROVE Safe(p)'
  <2>1. Safe(p)
    BY TypeFacts
  <2>2. OnScreen(p) => Leaving(p)'
    BY <1>2, <1>10 DEF OnScreen
  <2>3. ASSUME NEW k \in Composer, p \in ToSet(memory[k]) PROVE Leaving(p)' \/ InMemory(p)'
    <3>1. CASE k = Open
      <4>1. ToSet(memory[k]) \subseteq ToSet(text)
        BY <1>1, <1>2, <3>1, TypeFacts, CutFacts DEF ScreenAgrees
      <4> QED BY <1>10, <2>3, <4>1
    <3>2. CASE k # Open
      BY <1>5, <2>3, <3>2 DEF InMemory
    <3> QED BY <3>1, <3>2
  <2>4. ASSUME NEW k \in Composer, composer.at # k, memory[k] = <<>>, p \in ToSet(Cut(storage[k])),
               \A x \in SendSlot : Sending(x) => From(sends[x]) # k
        PROVE  Resting(p)'
    <3>1. k # Open /\ composer'.at # k /\ memory'[k] = memory[k] /\ storage'[k] = storage[k]
      BY <1>1, <1>5, <1>6, <2>4
    <3>2. \A x \in SendSlot : Sending(x)' => From(sends'[x]) # k
      BY <1>4, <1>8, <2>4, <3>1
    <3> QED BY <2>4, <3>1, <3>2 DEF Resting, Cut
  <2> QED BY <1>1, <1>8, <2>1, <2>2, <2>3, <2>4 DEF Safe, InMemory, Resting
<1> QED BY <1>1, <1>5, <1>8, <1>9, <1>11 DEF SendInv

\* A send ends: the others go on, and no request becomes known.
LEMMA SendEnds ==
  ASSUME SendInv, NEW s \in SendSlot, Alike([sends EXCEPT ![s] = NoSend], sends'),
         ledger' \subseteq ledger, astray' = astray, server' = server, ids' = ids, typed' = typed
  PROVE  /\ sends'[s].phase = "none"
         /\ \A x \in SendSlot : x # s =>
              /\ sends'[x].phase = sends[x].phase
              /\ sends[x].phase # "none" =>
                   sends'[x].route = sends[x].route /\ sends'[x].text = sends[x].text
         /\ \A x \in SendSlot : Sending(x)' => Sending(x) /\ From(sends'[x]) = From(sends[x])
         /\ \A x : IsKnown(x)' => IsKnown(x)
         /\ composer' \in ScreenSet /\ memory' \in [Composer -> Text]
              /\ storage' \in [Composer -> Text] => SendTypeOK'
         /\ \A p : Sent(p) => Sent(p)'
<1> DEFINE all == [sends EXCEPT ![s] = NoSend]
<1>1. /\ all \in [SendSlot -> {NoSend} \cup SendSet] /\ all[s] = NoSend
      /\ \A x \in SendSlot : x # s => all[x] = sends[x]
  BY TypeFacts
<1> HIDE DEF all
<1>2. Alike(all, sends')
  BY DEF all
<1>3. all[s].phase = "none"
  BY <1>1 DEF NoSend
<1>4. \A x : IsKnown(x)' => IsKnown(x)
  BY <1>1, <1>2, <1>3, KnownOfSends
<1>5. /\ sends'[s].phase = "none"
      /\ \A x \in SendSlot : x # s =>
           /\ sends'[x].phase = sends[x].phase
           /\ sends[x].phase # "none" =>
                sends'[x].route = sends[x].route /\ sends'[x].text = sends[x].text
  BY <1>1, <1>2, <1>3 DEF Alike
<1>6. \A x \in SendSlot : Sending(x)' => Sending(x) /\ From(sends'[x]) = From(sends[x])
  BY <1>5 DEF Sending, From
<1>7. composer' \in ScreenSet /\ memory' \in [Composer -> Text]
        /\ storage' \in [Composer -> Text] => SendTypeOK'
  BY <1>2, TypeFacts DEF Alike, SendTypeOK
<1> QED BY <1>4, <1>5, <1>6, <1>7 DEF Sent

\* A send comes to nothing: a reply's text is in front of what was written since.
LEMMA Fails ==
  ASSUME SendInv, NEW s \in SendSlot, Sending(s), Fail(s)
  PROVE  SendInv'
<1>1. PICK x \in SendSet : x = sends[s]
  BY TypeFacts, SendFacts DEF Sending
<1>2. x.text \in Text /\ (~Waiting(x) => From(x) = Open)
  BY SendFacts
<1> DEFINE rest == [sends EXCEPT ![s] = NoSend]
<1>3. /\ rest \in [SendSlot -> {NoSend} \cup SendSet]
      /\ rest[s] = NoSend /\ \A y \in SendSlot : y # s => rest[y] = sends[y]
  BY TypeFacts
<1>4. PICK text \in Text :
        /\ text = x.text \o memory[Open]
        /\ ToSet(x.text) \subseteq ToSet(text) /\ ToSet(memory[Open]) \subseteq ToSet(text)
  <2>1. PICK old \in Text : old = memory[Open]
    BY TypeFacts
  <2> QED BY <1>2, <2>1, TextsJoin
<1>5. /\ UNCHANGED <<ledger, server, astray, ids, typed, told>>
      /\ PutBack(s, text)
  BY <1>1, <1>4 DEF Fail, PutBack
<1>6. \/ /\ Waiting(x) /\ sends' = rest
         /\ composer' = [composer EXCEPT !.sending = composer.sending /\ ~x.current]
         /\ UNCHANGED <<memory, storage, unsaved, lost, refusals>>
      \/ /\ ~Waiting(x) /\ sends' = Edited(Open, rest)
         /\ \E taken \in BOOLEAN : SaveDraft(Open, text, taken)
         /\ \/ /\ composer.at = Open /\ composer' = [composer EXCEPT !.text = text]
               /\ lost' = lost \cup Beyond(composer.text)
            \/ /\ composer.at # Open /\ composer' = composer
               /\ lost' = lost \cup Beyond(text)
  BY <1>1, <1>5 DEF PutBack, StorageAnswers, draftVars
<1>7. Alike(rest, sends')
  <2>1. Alike(rest, rest) /\ Alike(rest, Edited(Open, rest))
    BY <1>3, MarksKeep
  <2> QED BY <1>6, <2>1
<1>8. /\ sends'[s].phase = "none"
      /\ \A y \in SendSlot : y # s =>
           /\ sends'[y].phase = sends[y].phase
           /\ sends[y].phase # "none" =>
                sends'[y].route = sends[y].route /\ sends'[y].text = sends[y].text
      /\ \A y \in SendSlot : Sending(y)' => Sending(y) /\ From(sends'[y]) = From(sends[y])
      /\ \A y : IsKnown(y)' => IsKnown(y)
      /\ composer' \in ScreenSet /\ memory' \in [Composer -> Text]
           /\ storage' \in [Composer -> Text] => SendTypeOK'
      /\ \A p : Sent(p) => Sent(p)'
  BY <1>5, <1>7, SendEnds
<1> HIDE DEF rest
<1>9. IdsAgree'
  BY <1>5, <1>8, NothingNewOrGone, TypeFacts
<1>10. CASE Waiting(x)
  <2>1. /\ composer' \in ScreenSet /\ composer'.at = composer.at /\ composer'.text = composer.text
        /\ UNCHANGED <<memory, storage, unsaved, lost>>
    BY <1>1, <1>6, <1>10, TypeFacts DEF SendSet, ScreenSet
  <2>2. SendTypeOK'
    BY <1>8, <2>1, TypeFacts
  <2>3. \A y \in SendSlot : Sending(y) /\ ~Waiting(sends[y]) =>
          Sending(y)' /\ ~Waiting(sends'[y]) /\ sends'[y].text = sends[y].text
    BY <1>1, <1>8, <1>10 DEF Sending, Waiting
  <2>4. ScreenAgrees' /\ MemoryAgrees' /\ \A p \in 1 .. typed' : Safe(p)'
    BY <1>5, <1>8, <2>1, <2>3, DraftsStay
  <2> QED BY <1>9, <2>2, <2>4 DEF SendInv
<1>11. CASE ~Waiting(x)
  <2>1. PICK taken \in BOOLEAN : SaveDraft(Open, text, taken)
    BY <1>6, <1>11
  <2>2. /\ memory' \in [Composer -> Text] /\ storage' \in [Composer -> Text] /\ MemoryAgrees'
        /\ memory'[Open] = Cut(text)
        /\ \A k \in Composer : k # Open => memory'[k] = memory[k] /\ storage'[k] = storage[k]
    BY <2>1, Saves, TypeFacts
  <2>3. /\ composer' \in ScreenSet /\ composer'.at = composer.at
        /\ composer'.text = IF composer.at = Open THEN text ELSE composer.text
        /\ lost' = IF composer.at = Open THEN lost \cup Beyond(composer.text)
                   ELSE lost \cup Beyond(text)
    BY <1>6, <1>11, TypeFacts DEF ScreenSet
  <2>4. SendTypeOK'
    BY <1>8, <2>2, <2>3
  <2>5. ScreenAgrees'
    BY <2>2, <2>3, TypeFacts DEF ScreenAgrees, Cut
  <2>6. ASSUME NEW p, p \in ToSet(text) PROVE Safe(p)'
    <3>1. CASE composer.at = Open
      BY <2>3, <2>6, <3>1 DEF Safe, OnScreen
    <3>2. CASE composer.at # Open
      BY <2>2, <2>3, <2>6, <3>2, TypeFacts DEF Safe, InMemory, Beyond
    <3> QED BY <3>1, <3>2
  <2>7. ASSUME NEW p, NEW k \in Composer, p \in ToSet(memory[k]) PROVE Safe(p)'
    <3>1. CASE k = Open
      BY <1>4, <2>6, <2>7, <3>1
    <3>2. CASE k # Open
      BY <2>2, <2>7, <3>2 DEF Safe, InMemory
    <3> QED BY <3>1, <3>2
  <2>8. ASSUME NEW p \in 1 .. typed PROVE Safe(p)'
    <3>1. Safe(p)
      BY TypeFacts
    <3>2. p \in lost => p \in lost'
      BY <2>3
    <3>3. ASSUME OnScreen(p) PROVE Safe(p)'
      <4>1. CASE composer.at = Open
        <5>1. p \in ToSet(memory[Open]) \/ p \in lost'
          BY <2>3, <3>3, <4>1, TypeFacts DEF OnScreen, ScreenAgrees, Beyond
        <5> QED BY <2>7, <5>1, TypeFacts DEF Safe
      <4>2. CASE composer.at # Open
        BY <2>3, <3>3, <4>2 DEF Safe, OnScreen
      <4> QED BY <4>1, <4>2
    <3>4. ASSUME NEW y \in SendSlot, Sending(y), ~Waiting(sends[y]), p \in ToSet(sends[y].text)
          PROVE  Safe(p)'
      <4>1. CASE y = s
        BY <1>1, <1>4, <2>6, <3>4, <4>1
      <4>2. CASE y # s
        BY <1>8, <3>4, <4>2 DEF Safe, Leaving, Sending, Waiting
      <4> QED BY <4>1, <4>2
    <3>5. ASSUME NEW k \in Composer, composer.at # k, memory[k] = <<>>, p \in ToSet(Cut(storage[k])),
                 \A y \in SendSlot : Sending(y) => From(sends[y]) # k
          PROVE  Resting(p)'
      <4>1. k # Open
        BY <1>1, <1>2, <1>11, <3>5
      <4> QED BY <1>8, <2>2, <2>3, <3>5, <4>1 DEF Resting, Cut
    <3> QED BY <1>8, <2>7, <3>1, <3>2, <3>3, <3>4, <3>5 DEF Safe, InMemory, Leaving, Resting
  <2> QED BY <1>5, <1>9, <2>2, <2>4, <2>5, <2>8 DEF SendInv
<1> QED BY <1>10, <1>11

\* A send was accepted.
LEMMA Acceptances ==
  ASSUME SendInv, NEW s \in SendSlot, HasId(s), Committed(s) # {}, NEW wasFirst \in BOOLEAN,
         Accept(s, wasFirst)
  PROVE  SendInv'
<1>1. PICK x \in SendSet : x = sends[s]
  BY TypeFacts, SendFacts DEF HasId
<1>2. /\ x.text \in Text /\ From(x) \in Composer /\ Sending(s)
      /\ Request(x).id = x.id /\ IsKnown(Request(x))
  BY <1>1, SendFacts DEF IsKnown, HasId, Sending
<1>3. \A p \in ToSet(x.text) : Sent(p)
  <2>1. PICK r \in server : r.id = x.id
    BY <1>1 DEF Committed
  <2>2. IsKnown(Request(r)) /\ Request(r).id = Request(x).id
    BY <1>2, <2>1 DEF IsKnown, Request
  <2>3. Request(r) = Request(x)
    BY <1>2, <2>2, TypeFacts DEF IdsAgree
  <2>4. r.text = x.text
    BY <2>3 DEF Request
  <2> QED BY <2>4 DEF Sent
<1> DEFINE rest == [sends EXCEPT ![s] = NoSend]
<1>4. rest \in [SendSlot -> {NoSend} \cup SendSet]
  BY TypeFacts
<1> HIDE DEF rest
<1>5. PICK c \in Composer : c = From(x)
  BY <1>2
<1>6. PICK away \in BOOLEAN, cleared \in BOOLEAN :
        /\ away <=> wasFirst \/ composer.at # c
        /\ cleared => Waiting(x) /\ IF away THEN memory[c] = x.text
                                    ELSE composer.text = x.text
        /\ UNCHANGED <<server, astray, ids, typed>> /\ told' = told \cup {x.id}
        /\ ledger' = ledger \/ ledger' = ledger \ {Request(x)}
        /\ \/ cleared /\ \E taken \in BOOLEAN : ClearDraft(c, x.text, taken)
           \/ ~cleared /\ UNCHANGED <<memory, storage, unsaved>>
        /\ \/ /\ StartsChat(x) /\ composer' = At(Elsewhere, <<>>)
              /\ lost' = IF cleared /\ ~away THEN lost ELSE lost \cup Beyond(composer.text)
              /\ sends' = Outlived(IF cleared THEN Edited(c, rest) ELSE rest)
           \/ ~StartsChat(x) /\ composer' = composer /\ lost' = lost /\ sends' = rest
  <2> DEFINE gone == wasFirst \/ composer.at # c
             clears == Waiting(x) /\ IF gone THEN memory[c] = x.text /\ ~x.edited
                                     ELSE composer.text = x.text /\ x.current
  <2>1. PICK away \in BOOLEAN, cleared \in BOOLEAN : (away <=> gone) /\ (cleared <=> clears)
    BY DEF Waiting
  <2>2. /\ UNCHANGED <<server, astray, ids, typed>> /\ told' = told \cup {x.id}
        /\ ledger' = ledger \/ ledger' = ledger \ {Request(x)}
    BY <1>1 DEF Accept
  <2>3. \/ clears /\ \E taken \in BOOLEAN : ClearDraft(c, x.text, taken)
        \/ ~clears /\ UNCHANGED <<memory, storage, unsaved>>
    BY <1>1, <1>5 DEF Accept, StorageAnswers
  <2>4. \/ /\ StartsChat(x) /\ composer' = At(Elsewhere, <<>>)
           /\ lost' = IF clears /\ ~gone THEN lost ELSE lost \cup Beyond(composer.text)
           /\ sends' = Outlived(IF clears THEN Edited(c, rest) ELSE rest)
        \/ ~StartsChat(x) /\ composer' = composer /\ lost' = lost /\ sends' = rest
    BY <1>1, <1>5 DEF Accept, rest
  <2>5. clears => Waiting(x) /\ IF gone THEN memory[c] = x.text ELSE composer.text = x.text
    OBVIOUS
  <2> HIDE DEF gone, clears
  <2>6. away <=> wasFirst \/ composer.at # c
    BY <2>1 DEF gone
  <2> QED BY <2>1, <2>2, <2>3, <2>4, <2>5, <2>6
<1>7. Alike(rest, sends')
  <2>1. /\ Alike(rest, rest) /\ Alike(rest, Edited(c, rest)) /\ Alike(rest, Outlived(rest))
        /\ Edited(c, rest) \in [SendSlot -> {NoSend} \cup SendSet]
    BY <1>4, MarksKeep DEF Alike
  <2>2. Alike(Edited(c, rest), Outlived(Edited(c, rest)))
    BY <2>1, MarksKeep
  <2>3. Alike(rest, Outlived(Edited(c, rest)))
    BY <2>1, <2>2, AlikeAll
  <2> QED BY <1>6, <2>1, <2>3
<1>8. /\ sends'[s].phase = "none"
      /\ \A y \in SendSlot : y # s =>
           /\ sends'[y].phase = sends[y].phase
           /\ sends[y].phase # "none" =>
                sends'[y].route = sends[y].route /\ sends'[y].text = sends[y].text
      /\ \A y \in SendSlot : Sending(y)' => Sending(y) /\ From(sends'[y]) = From(sends[y])
      /\ \A y : IsKnown(y)' => IsKnown(y)
      /\ composer' \in ScreenSet /\ memory' \in [Composer -> Text]
           /\ storage' \in [Composer -> Text] => SendTypeOK'
      /\ \A p : Sent(p) => Sent(p)'
  BY <1>6, <1>7, SendEnds DEF rest
<1>9. IdsAgree'
  <2>1. \E gone \in {{}, {Request(x)}} : ledger' = ledger \ gone
    BY <1>6
  <2>2. PICK gone \in {{}, {Request(x)}} : ledger' = ledger \ gone
    BY <2>1
  <2>3. \A y \in gone : y.id \in told'
    BY <1>2, <1>6, <2>2
  <2>4. IdsAgree /\ ids' = ids /\ told \subseteq told'
    BY <1>6, TypeFacts
  <2> QED BY <1>8, <2>2, <2>3, <2>4, NothingNew
<1>10. /\ memory' \in [Composer -> Text] /\ storage' \in [Composer -> Text] /\ MemoryAgrees'
       /\ \A k \in Composer : k # c \/ ~cleared => memory'[k] = memory[k] /\ storage'[k] = storage[k]
       /\ cleared => memory'[c] = <<>>
  <2>1. CASE ~cleared
    <3>1. MemoryAgrees'
      BY <1>6, <2>1, TypeFacts DEF MemoryAgrees, Cut
    <3> QED BY <1>6, <2>1, <3>1, TypeFacts
  <2>2. CASE cleared
    <3>1. PICK taken \in BOOLEAN : ClearDraft(c, x.text, taken)
      BY <1>6, <2>2
    <3> QED BY <1>2, <2>2, <3>1, Clears
  <2> QED BY <2>1, <2>2
<1>11. /\ composer' \in ScreenSet
       /\ \/ composer'.at = Elsewhere /\ composer'.text = <<>>
          \/ composer' = composer /\ ~cleared
  <2>1. CASE StartsChat(x)
    <3>1. composer' = At(Elsewhere, <<>>)
      BY <1>6, <2>1
    <3> QED BY <3>1, TypeFacts, Empty DEF At, ScreenSet
  <2>2. CASE ~StartsChat(x)
    <3>1. composer' = composer /\ ~Waiting(x)
      BY <1>6, <2>2 DEF StartsChat, Waiting
    <3>2. ~cleared
      BY <1>6, <3>1
    <3> QED BY <3>1, <3>2, TypeFacts
  <2> QED BY <2>1, <2>2
<1>12. ScreenAgrees'
  BY <1>10, <1>11, TypeFacts DEF ScreenAgrees, Cut
<1>13. ASSUME NEW p, NEW k \in Composer, p \in ToSet(memory[k]) PROVE InMemory(p)' \/ Sent(p)'
  <2>1. CASE k # c \/ ~cleared
    BY <1>10, <1>13, <2>1 DEF InMemory
  <2>2. CASE k = c /\ cleared
    <3>1. ToSet(memory[c]) \subseteq ToSet(x.text)
      <4>1. CASE away
        BY <1>6, <2>2, <4>1
      <4>2. CASE ~away
        <5>1. composer.at = c /\ memory[c] = Cut(x.text)
          BY <1>6, <2>2, <4>2, TypeFacts DEF ScreenAgrees
        <5> QED BY <1>2, <5>1, CutFacts
      <4> QED BY <4>1, <4>2
    <3> QED BY <1>3, <1>8, <1>13, <2>2, <3>1
  <2> QED BY <2>1, <2>2
<1>14. ASSUME NEW p \in 1 .. typed PROVE Safe(p)'
  <2>1. Safe(p)
    BY TypeFacts
  <2>2. p \in lost => p \in lost'
    BY <1>6
  <2>3. ASSUME OnScreen(p) PROVE Safe(p)'
    <3>1. CASE composer' = composer
      BY <2>3, <3>1 DEF Safe, OnScreen
    <3>2. CASE cleared /\ ~away
      BY <1>3, <1>6, <1>8, <2>3, <3>2 DEF Safe, OnScreen
    <3>3. CASE composer' # composer /\ ~(cleared /\ ~away)
      <4>1. lost' = lost \cup Beyond(composer.text)
        BY <1>6, <3>3
      <4>2. PICK k \in Composer : memory[k] = Cut(composer.text)
        BY <2>3, TypeFacts, Empty DEF ScreenAgrees, OnScreen
      <4>3. p \in ToSet(memory[k]) \/ p \in lost'
        BY <2>3, <4>1, <4>2 DEF OnScreen, Beyond
      <4> QED BY <1>13, <4>3 DEF Safe
    <3> QED BY <3>1, <3>2, <3>3
  <2>4. ASSUME NEW y \in SendSlot, Sending(y), ~Waiting(sends[y]), p \in ToSet(sends[y].text)
        PROVE  Safe(p)'
    <3>1. CASE y = s
      BY <1>1, <1>3, <1>8, <2>4, <3>1 DEF Safe
    <3>2. CASE y # s
      BY <1>8, <2>4, <3>2 DEF Safe, Leaving, Sending, Waiting
    <3> QED BY <3>1, <3>2
  <2>5. ASSUME NEW k \in Composer, composer.at # k, memory[k] = <<>>, p \in ToSet(Cut(storage[k])),
               \A y \in SendSlot : Sending(y) => From(sends[y]) # k
        PROVE  Resting(p)'
    <3>1. k # c
      BY <1>1, <1>2, <1>5, <2>5
    <3>2. composer'.at # k
      BY <1>11, <2>5, TypeFacts
    <3> QED BY <1>8, <1>10, <2>5, <3>1, <3>2 DEF Resting, Cut
  <2> QED BY <1>8, <1>13, <2>1, <2>2, <2>3, <2>4, <2>5 DEF Safe, InMemory, Leaving, Resting
<1> QED BY <1>6, <1>8, <1>9, <1>10, <1>11, <1>12, <1>14 DEF SendInv

\* The page is closed: what it was sending, and what storage does not have of the
\* drafts, is gone.
LEMMA Reloads ==
  ASSUME SendInv, Reload
  PROVE  SendInv'
<1> DEFINE flying == {sends[s] : s \in {x \in SendSlot : Sending(x)}}
           left == UNION {ToSet(f.text) : f \in {x \in flying : ~Waiting(x)}}
           missing == UNION {ToSet(memory[c]) \ ToSet(Cut(storage[c])) : c \in unsaved}
<1>1. /\ composer' = At(Elsewhere, <<>>) /\ memory' = [c \in Composer |-> <<>>]
      /\ sends' = [s \in SendSlot |-> NoSend] /\ unsaved' = {}
      /\ lost' = lost \cup Beyond(composer.text) \cup left \cup missing
      /\ \E out \in SUBSET {f \in flying : f.phase = "post"} :
           astray' = astray \cup {Request(f) : f \in out}
      /\ UNCHANGED <<storage, ledger, server, ids, typed, told>>
  BY DEF Reload
<1>2. /\ \A s \in SendSlot : Sending(s) /\ ~Waiting(sends[s]) => ToSet(sends[s].text) \subseteq left
      /\ \A c \in unsaved : ToSet(memory[c]) \ ToSet(Cut(storage[c])) \subseteq missing
  OBVIOUS
<1>3. lost \subseteq lost' /\ left \subseteq lost' /\ missing \subseteq lost'
       /\ Beyond(composer.text) \subseteq lost'
  <2> HIDE DEF left, missing
  <2> QED BY <1>1
<1> HIDE DEF left, missing
<1>4. PICK out \in SUBSET {f \in flying : f.phase = "post"} :
        astray' = astray \cup {Request(f) : f \in out}
  BY <1>1
<1>5. ASSUME NEW f \in out PROVE Request(f) \in RequestSet /\ IsKnown(Request(f))
  <2>1. PICK s \in SendSlot : f = sends[s] /\ f.phase = "post"
    OBVIOUS
  <2>2. f \in SendSet
    BY <2>1, SendFacts, TypeFacts
  <2> QED BY <2>1, <2>2, SendFacts DEF IsKnown, HasId
<1>6. \A s \in SendSlot : sends'[s] = NoSend /\ sends'[s].phase = "none"
  BY <1>1 DEF NoSend
<1>7. ASSUME NEW y, IsKnown(y)' PROVE IsKnown(y)
  <2>1. CASE y \in ledger' \cup astray'
    BY <1>1, <1>4, <1>5, <2>1 DEF IsKnown
  <2>2. CASE \E r \in server' : y = Request(r)
    BY <1>1, <2>2 DEF IsKnown, Request
  <2> QED BY <1>6, <1>7, <2>1, <2>2 DEF IsKnown, HasId, Request
<1>8. IdsAgree'
  BY <1>1, <1>7, NothingNewOrGone, TypeFacts
<1>9. /\ composer' \in ScreenSet /\ composer'.at = Elsewhere /\ composer'.text = <<>>
      /\ memory' \in [Composer -> Text] /\ \A c \in Composer : memory'[c] = <<>>
  BY <1>1, TypeFacts, Empty DEF At, ScreenSet
<1>10. SendTypeOK'
  BY <1>1, <1>4, <1>5, <1>9, TypeFacts DEF SendTypeOK
<1>11. ScreenAgrees' /\ MemoryAgrees'
  BY <1>9, TypeFacts, Empty DEF ScreenAgrees, MemoryAgrees, Cut
<1>12. \A p : Sent(p) => Sent(p)'
  BY <1>1, <1>4 DEF Sent
<1>13. ASSUME NEW p, NEW c \in Composer, p \in ToSet(Cut(storage[c])) PROVE Safe(p)'
  <2>1. \A s \in SendSlot : ~Sending(s)'
    BY <1>6 DEF Sending
  <2> QED BY <1>1, <1>9, <1>13, <2>1, TypeFacts DEF Safe, Resting, Cut
<1>14. ASSUME NEW p, NEW c \in Composer, p \in ToSet(memory[c]) PROVE Safe(p)'
  <2>1. CASE c \in unsaved
    <3>1. ToSet(memory[c]) \ ToSet(Cut(storage[c])) \subseteq lost'
      BY <1>2, <1>3, <2>1
    <3> QED BY <1>13, <1>14, <3>1 DEF Safe
  <2>2. CASE c \notin unsaved
    <3>1. memory[c] = Cut(storage[c])
      BY <1>14, <2>2, TypeFacts, Empty DEF MemoryAgrees
    <3> QED BY <1>13, <1>14, <3>1
  <2> QED BY <2>1, <2>2
<1>15. ASSUME NEW p \in 1 .. typed PROVE Safe(p)'
  <2>1. Safe(p)
    BY TypeFacts
  <2>2. p \in lost => p \in lost'
    BY <1>3
  <2>3. ASSUME OnScreen(p) PROVE Safe(p)'
    <3>1. PICK c \in Composer : memory[c] = Cut(composer.text)
      BY <2>3, TypeFacts, Empty DEF ScreenAgrees, OnScreen
    <3>2. p \in ToSet(memory[c]) \/ p \in lost'
      BY <1>3, <2>3, <3>1 DEF OnScreen, Beyond
    <3> QED BY <1>14, <3>2 DEF Safe
  <2>4. ASSUME NEW y \in SendSlot, Sending(y), ~Waiting(sends[y]), p \in ToSet(sends[y].text)
        PROVE  p \in lost'
    BY <1>2, <1>3, <2>4
  <2> QED BY <1>12, <1>13, <1>14, <2>1, <2>2, <2>3, <2>4
      DEF Safe, InMemory, Leaving, Resting
<1> QED BY <1>1, <1>8, <1>10, <1>11, <1>15 DEF SendInv

LEMMA NextSends == SendInv /\ [SendNext]_sendVars => SendInv'
<1> SUFFICES ASSUME SendInv, [SendNext]_sendVars PROVE SendInv'
  OBVIOUS
<1>1. CASE UNCHANGED sendVars
  BY <1>1 DEF sendVars, draftVars, SendInv, SendTypeOK, IdsAgree, IsKnown, HasId, Sending,
     ScreenAgrees, MemoryAgrees, Safe, OnScreen, InMemory, Leaving, Sent, Resting, Cut
<1>2. ASSUME NEW s \in SendSlot, RegisterFails(s) PROVE SendInv'
  BY <1>2, Fails DEF RegisterFails, Sending
<1>3. ASSUME NEW s \in SendSlot, HasId(s), Answered(s) PROVE SendInv'
  <2>1. Committed(s) # {} /\ Sending(s) /\ (Fail(s) \/ \E wasFirst \in BOOLEAN : Accept(s, wasFirst))
    BY <1>3 DEF Answered, HasId, Sending
  <2> QED BY <1>3, <2>1, Fails, Acceptances
<1>4. ASSUME NEW s \in SendSlot, Look(s) PROVE SendInv'
  BY <1>3, <1>4, Fails, Losses DEF Look, HasId, Sending
<1>5. ASSUME NEW s \in SendSlot, Hear(s) PROVE SendInv'
  BY <1>3, <1>5 DEF Hear, HasId
<1> QED BY <1>1, <1>2, <1>4, <1>5, Types, Switches, Refusals, SubmitsWaiting, SubmitsReply,
        Registers, Arrivals, Losses, Reloads DEF SendNext

LEMMA SendInvariant == SendSpec => []SendInv
BY InitSends, NextSends, PTL DEF SendSpec

\* What was lost is found by sending it again the same way (the ledgers of
\* freshQueueReceipt.ts and pendingExactReply.ts).
THEOREM LostIsFound == SendSpec => []LostIsReconciled
<1>1. ASSUME SendInv PROVE LostIsReconciled
  <2>1. IdsAgree /\ SendTypeOK
    BY <1>1 DEF SendInv
  <2>2. ASSUME NEW r \in server \cup astray, r.id \notin told
        PROVE  \E e \in ledger : e.id = r.id /\ Fingerprint(e) = Fingerprint(r)
    <3>1. CASE r \in server
      <4>1. IsKnown(Request(r)) /\ Request(r).id = r.id /\ Fingerprint(Request(r)) = Fingerprint(r)
        BY <3>1 DEF IsKnown, Request, Fingerprint
      <4> QED BY <2>1, <2>2, <4>1 DEF IdsAgree
    <3>2. CASE r \in astray
      <4>1. IsKnown(r)
        BY <3>2 DEF IsKnown
      <4> QED BY <2>1, <2>2, <4>1 DEF IdsAgree
    <3> QED BY <2>2, <3>1, <3>2
  <2> QED BY <2>1, <2>2 DEF IdsAgree, LostIsReconciled
<1> QED BY <1>1, SendInvariant, PTL

\* Nothing typed is lost, except what does not fit into a draft and what a page takes
\* with it that is closed while storage has refused it or a reply is on its way
\* (ChatComposerController.ts, composerDraftMemory.ts).
THEOREM NothingTypedIsLost == SendSpec => []UnsentIsKept
<1>1. ASSUME SendInv PROVE UnsentIsKept
  <2>1. ASSUME NEW p \in 1 .. typed
        PROVE  \/ p \in lost
               \/ \E c \in Composer :
                    p \in ToSet(IF composer.at = c THEN composer.text ELSE Draft(c))
               \/ \E s \in SendSlot : Sending(s) /\ p \in ToSet(sends[s].text)
               \/ \E r \in server \cup astray : p \in ToSet(r.text)
    <3>1. Safe(p)
      BY <1>1, TypeFacts
    <3>2. ASSUME OnScreen(p) PROVE \E c \in Composer : composer.at = c /\ p \in ToSet(composer.text)
      BY <1>1, <3>2, TypeFacts, Empty DEF ScreenAgrees, OnScreen
    <3>3. ASSUME NEW c \in Composer, p \in ToSet(memory[c])
          PROVE  p \in ToSet(IF composer.at = c THEN composer.text ELSE Draft(c))
      <4>1. CASE composer.at = c
        BY <1>1, <3>3, <4>1, TypeFacts, CutFacts DEF ScreenAgrees
      <4>2. CASE composer.at # c
        BY <3>3, <4>2, Empty DEF Draft
      <4> QED BY <4>1, <4>2
    <3>4. ASSUME NEW c \in Composer, composer.at # c, memory[c] = <<>>, p \in ToSet(Cut(storage[c]))
          PROVE  p \in ToSet(IF composer.at = c THEN composer.text ELSE Draft(c))
      BY <3>4 DEF Draft
    <3> QED BY <3>1, <3>2, <3>3, <3>4 DEF Safe, InMemory, Leaving, Sent, Resting
  <2> QED BY <2>1 DEF UnsentIsKept
<1> QED BY <1>1, SendInvariant, PTL

(****************************************************************************)
(* The jobs page.                                                           *)
(****************************************************************************)

LoadingType ==
  \/ loading = NoLoad
  \/ \E v, a \in BOOLEAN : loading = [phase |-> "asked", valid |-> v, again |-> a]
  \/ \E v, a \in BOOLEAN, n \in Nat :
       loading = [phase |-> "served", valid |-> v, again |-> a, body |-> n]

\* The answer to a command describes the jobs as they were when it committed.
CmdType ==
  \/ cmd = NoCommand
  \/ \E b \in BOOLEAN : cmd = [phase |-> "asked", saves |-> b]
  \/ \E b \in BOOLEAN, n \in Nat : n <= jobs /\ cmd = [phase |-> "served", saves |-> b, body |-> n]

JobsTypeOK ==
  /\ jobs \in Nat /\ event \in BOOLEAN /\ dropped \in BOOLEAN
  /\ table \in [version : Nat, error : BOOLEAN]
  /\ LoadingType /\ CmdType

\* Once the page was told of every change, it shows the jobs, says that it does
\* not, or reads them.
Told ==
  ~event =>
    \/ loading = NoLoad /\ (dropped \/ table.error \/ table.version = jobs)
    \/ loading # NoLoad /\ (loading.again \/ loading.phase = "asked" \/ loading.body = jobs)

\* Once the page was told of the change that its own command made, only a read
\* that is asked for again is dropped: the older ones ended, and no command begins.
ToldOfCommand ==
  cmd.phase = "served" /\ ~event =>
    /\ loading = NoLoad => table.error \/ table.version = jobs
    /\ loading # NoLoad /\ ~loading.valid => loading.again

JobsInv == JobsTypeOK /\ Told /\ ToldOfCommand

LEMMA InitJobs == JobsInit => JobsInv
<1> SUFFICES ASSUME JobsInit PROVE JobsInv
  OBVIOUS
<1>1. loading = [phase |-> "asked", valid |-> TRUE, again |-> FALSE] /\ cmd = NoCommand
  BY DEF JobsInit, NewLoad
<1>2. LoadingType /\ CmdType
  BY <1>1 DEF LoadingType, CmdType
<1>3. loading # NoLoad /\ loading.phase = "asked" /\ cmd.phase = "none"
  BY <1>1 DEF NoLoad, NoCommand
<1>4. JobsTypeOK
  BY <1>2 DEF JobsInit, JobsTypeOK
<1> QED BY <1>3, <1>4 DEF JobsInv, Told, ToldOfCommand

\* Asking for the list.
LEMMA LoadAsks ==
  ASSUME LoadingType, Load
  PROVE  /\ LoadingType' /\ loading' # NoLoad
         /\ loading'.again \/ (loading'.phase = "asked" /\ loading'.valid)
<1>1. CASE loading = NoLoad
  BY <1>1 DEF Load, NewLoad, NoLoad, LoadingType
<1>2. ASSUME NEW v \in BOOLEAN, NEW a \in BOOLEAN,
             loading = [phase |-> "asked", valid |-> v, again |-> a]
      PROVE  loading' = [phase |-> "asked", valid |-> v, again |-> TRUE]
  BY <1>2 DEF Load, NoLoad
<1>3. ASSUME NEW v \in BOOLEAN, NEW a \in BOOLEAN, NEW n \in Nat,
             loading = [phase |-> "served", valid |-> v, again |-> a, body |-> n]
      PROVE  loading' = [phase |-> "served", valid |-> v, again |-> TRUE, body |-> n]
  BY <1>3 DEF Load, NoLoad
<1>4. ASSUME NEW v \in BOOLEAN,
             \/ loading' = [phase |-> "asked", valid |-> v, again |-> TRUE]
             \/ \E n \in Nat : loading' = [phase |-> "served", valid |-> v, again |-> TRUE, body |-> n]
      PROVE  LoadingType' /\ loading' # NoLoad /\ loading'.again
  <2>1. LoadingType'
    BY <1>4 DEF LoadingType
  <2>2. CASE loading' = [phase |-> "asked", valid |-> v, again |-> TRUE]
    BY <2>1, <2>2 DEF NoLoad
  <2>3. ASSUME NEW n \in Nat,
               loading' = [phase |-> "served", valid |-> v, again |-> TRUE, body |-> n]
        PROVE  loading' # NoLoad /\ loading'.again
    BY <2>3 DEF NoLoad
  <2> QED BY <1>4, <2>1, <2>2, <2>3
<1> QED BY <1>1, <1>2, <1>3, <1>4 DEF LoadingType

\* What the reads of the list do.
LEMMA ReadsOfJobs ==
  ASSUME JobsInv, LoadJobs \/ JobsEvent \/ ServeJobs \/ \E b \in BOOLEAN : LoadEnds(b)
  PROVE  JobsInv'
<1>1. JobsTypeOK /\ Told /\ ToldOfCommand /\ LoadingType /\ CmdType
  BY DEF JobsInv, JobsTypeOK
<1>2. ASSUME Load, event' \in BOOLEAN, UNCHANGED <<jobs, table, cmd, dropped>>
      PROVE  JobsInv'
  <2>1. /\ LoadingType' /\ loading' # NoLoad
        /\ loading'.again \/ (loading'.phase = "asked" /\ loading'.valid)
    BY <1>1, <1>2, LoadAsks
  <2>2. JobsTypeOK'
    BY <1>1, <1>2, <2>1 DEF JobsTypeOK, CmdType
  <2> QED BY <1>2, <2>1, <2>2 DEF JobsInv, Told, ToldOfCommand
<1>3. CASE LoadJobs \/ JobsEvent
  BY <1>1, <1>2, <1>3 DEF LoadJobs, JobsEvent, JobsTypeOK
<1>4. CASE ServeJobs
  <2>1. PICK v \in BOOLEAN, a \in BOOLEAN : loading = [phase |-> "asked", valid |-> v, again |-> a]
    BY <1>1, <1>4 DEF ServeJobs, LoadingType, NoLoad
  <2>2. /\ loading' = [phase |-> "served", valid |-> v, again |-> a, body |-> jobs]
        /\ UNCHANGED <<jobs, event, table, cmd, dropped>>
    BY <1>4, <2>1 DEF ServeJobs
  <2>3. JobsTypeOK'
    BY <1>1, <2>2 DEF JobsTypeOK, LoadingType, CmdType
  <2>4. Told' /\ ToldOfCommand'
    BY <1>1, <2>1, <2>2 DEF Told, ToldOfCommand, NoLoad
  <2> QED BY <2>3, <2>4 DEF JobsInv
<1>5. ASSUME NEW b \in BOOLEAN, LoadEnds(b) PROVE JobsInv'
  <2>1. UNCHANGED <<jobs, event, cmd>> /\ loading # NoLoad
    BY <1>5 DEF LoadEnds, NoLoad
  <2>2. /\ loading.again \in BOOLEAN /\ loading.valid \in BOOLEAN
        /\ loading' = (IF loading.again THEN NewLoad ELSE NoLoad)
        /\ loading.phase = "served" => loading.body \in Nat
    BY <1>1, <1>5, <2>1 DEF LoadEnds, LoadingType
  <2>3. /\ ~loading.valid => table' = table /\ dropped' = TRUE
        /\ loading.valid =>
             \/ /\ loading.phase = "served" /\ dropped' = FALSE
                /\ table' = [version |-> loading.body, error |-> FALSE]
             \/ table' = [table EXCEPT !.error = TRUE] /\ dropped' = dropped
    BY <1>5 DEF LoadEnds
  <2>4. table' \in [version : Nat, error : BOOLEAN] /\ dropped' \in BOOLEAN
    <3>1. table \in [version : Nat, error : BOOLEAN] /\ dropped \in BOOLEAN
      BY <1>1 DEF JobsTypeOK
    <3>2. CASE loading.valid /\ loading.phase = "served" /\ dropped' = FALSE
               /\ table' = [version |-> loading.body, error |-> FALSE]
      BY <2>2, <3>2
    <3>3. CASE table' = [table EXCEPT !.error = TRUE] /\ dropped' = dropped
      BY <3>1, <3>3
    <3> QED BY <2>3, <3>1, <3>2, <3>3
  <2>5. JobsTypeOK'
    BY <1>1, <2>1, <2>2, <2>4 DEF JobsTypeOK, LoadingType, CmdType, NewLoad
  <2>6. CASE loading.again
    BY <2>2, <2>5, <2>6 DEF JobsInv, Told, ToldOfCommand, NewLoad, NoLoad
  <2>7. CASE ~loading.again
    <3>1. loading' = NoLoad
      BY <2>2, <2>7
    <3>2. loading.valid => table'.error \/ (loading.phase = "served" /\ table'.version = loading.body)
      BY <1>1, <2>3 DEF JobsTypeOK
    <3>3. ~event /\ loading.phase = "served" => loading.body = jobs
      BY <1>1, <2>1, <2>7 DEF Told
    <3>4. ~event /\ loading.valid => table'.error \/ table'.version = jobs
      BY <3>2, <3>3
    <3>5. cmd.phase = "served" /\ ~event => loading.valid
      BY <1>1, <2>1, <2>7 DEF ToldOfCommand
    <3>6. Told' /\ ToldOfCommand'
      BY <2>1, <2>3, <3>1, <3>4, <3>5 DEF Told, ToldOfCommand
    <3> QED BY <2>5, <3>6 DEF JobsInv
  <2> QED BY <2>2, <2>6, <2>7
<1> QED BY <1>3, <1>4, <1>5

\* What changes the jobs tells the page.
LEMMA ChangesTell ==
  ASSUME JobsInv, jobs' = jobs + 1, event' = TRUE, UNCHANGED <<table, loading, dropped>>,
         cmd' = cmd \/ \E b \in BOOLEAN : cmd' = [phase |-> "served", saves |-> b, body |-> jobs']
  PROVE  JobsInv'
<1>1. JobsTypeOK /\ LoadingType /\ CmdType /\ jobs \in Nat
  BY DEF JobsInv, JobsTypeOK
<1>2. CmdType'
  BY <1>1 DEF CmdType
<1> QED BY <1>1, <1>2 DEF JobsInv, JobsTypeOK, LoadingType, Told, ToldOfCommand

\* What commands do.
LEMMA CommandsOfJobs ==
  ASSUME JobsInv,
         PostCommand \/ CommandDone \/ \E b \in BOOLEAN : Command(b) \/ CommandFails(b)
  PROVE  JobsInv'
<1>1. JobsTypeOK /\ Told /\ ToldOfCommand /\ LoadingType /\ CmdType /\ jobs \in Nat
      /\ table \in [version : Nat, error : BOOLEAN]
  BY DEF JobsInv, JobsTypeOK
<1>2. ASSUME NEW b \in BOOLEAN, Command(b) PROVE JobsInv'
  <2>1. /\ cmd' = [phase |-> "asked", saves |-> b]
        /\ loading' = IF loading = NoLoad THEN NoLoad ELSE [loading EXCEPT !.valid = FALSE]
        /\ UNCHANGED <<jobs, event, table, dropped>>
    BY <1>2 DEF Command
  <2>2. /\ LoadingType'
        /\ loading = NoLoad => loading' = NoLoad
        /\ loading # NoLoad => /\ loading' # NoLoad /\ loading'.again = loading.again
                               /\ loading'.phase = loading.phase
                               /\ loading.phase = "served" => loading'.body = loading.body
    <3>1. CASE loading = NoLoad
      BY <2>1, <3>1 DEF LoadingType
    <3>2. ASSUME NEW v \in BOOLEAN, NEW a \in BOOLEAN,
                 loading = [phase |-> "asked", valid |-> v, again |-> a]
          PROVE  loading' = [phase |-> "asked", valid |-> FALSE, again |-> a] /\ LoadingType'
      BY <2>1, <3>2 DEF NoLoad, LoadingType
    <3>3. ASSUME NEW v \in BOOLEAN, NEW a \in BOOLEAN, NEW n \in Nat,
                 loading = [phase |-> "served", valid |-> v, again |-> a, body |-> n]
          PROVE  loading' = [phase |-> "served", valid |-> FALSE, again |-> a, body |-> n]
                 /\ LoadingType'
      <4>1. loading' = [phase |-> "served", valid |-> FALSE, again |-> a, body |-> n]
        BY <2>1, <3>3 DEF NoLoad
      <4> QED BY <4>1 DEF LoadingType
    <3> QED BY <1>1, <3>1, <3>2, <3>3 DEF LoadingType, NoLoad
  <2>3. JobsTypeOK'
    BY <1>1, <2>1, <2>2 DEF JobsTypeOK, CmdType
  <2>4. loading = NoLoad \/ loading.phase \in {"asked", "served"}
    BY <1>1 DEF LoadingType
  <2>5. Told'
    BY <1>1, <2>1, <2>2, <2>4 DEF Told
  <2> QED BY <2>1, <2>3, <2>5 DEF JobsInv, ToldOfCommand
<1>3. CASE PostCommand
  <2>1. \E b \in BOOLEAN : cmd.saves = b
    BY <1>1, <1>3 DEF PostCommand, CmdType, NoCommand
  <2> QED BY <1>3, <2>1, ChangesTell DEF PostCommand, Change
<1>4. ASSUME NEW b \in BOOLEAN, CommandFails(b) PROVE JobsInv'
  <2>1. /\ cmd' = NoCommand /\ UNCHANGED <<jobs, event, table, dropped>>
        /\ Load \/ UNCHANGED loading
    BY <1>4 DEF CommandFails
  <2>2. CASE Load
    <3>1. /\ LoadingType' /\ loading' # NoLoad
          /\ loading'.again \/ (loading'.phase = "asked" /\ loading'.valid)
      BY <1>1, <2>2, LoadAsks
    <3>2. JobsTypeOK'
      BY <1>1, <2>1, <3>1 DEF JobsTypeOK, CmdType
    <3> QED BY <2>1, <3>1, <3>2 DEF JobsInv, Told, ToldOfCommand, NoCommand
  <2>3. CASE UNCHANGED loading
    <3>1. JobsTypeOK'
      BY <1>1, <2>1, <2>3 DEF JobsTypeOK, CmdType, LoadingType
    <3> QED BY <1>1, <2>1, <2>3, <3>1 DEF JobsInv, Told, ToldOfCommand, NoCommand
  <2> QED BY <2>1, <2>2, <2>3
<1>5. CASE CommandDone
  <2>1. /\ cmd.phase = "served" /\ cmd' = NoCommand
        /\ table' = [table EXCEPT !.version = cmd.body]
        /\ dropped' = (cmd.body < table.version)
        /\ UNCHANGED <<jobs, event, loading>>
    BY <1>5 DEF CommandDone
  <2>2. cmd.body \in Nat /\ cmd.body <= jobs
    BY <1>1, <2>1 DEF CmdType, NoCommand
  <2>3. /\ table' \in [version : Nat, error : BOOLEAN]
        /\ table'.version = cmd.body /\ table'.error = table.error
    BY <1>1, <2>1, <2>2
  <2>4. dropped' \in BOOLEAN /\ (dropped' <=> cmd.body < table.version)
    <3>1. (cmd.body < table.version) \in BOOLEAN
      BY <1>1, <2>2
    <3> QED BY <2>1, <3>1, Zenon
  <2>5. JobsTypeOK'
    BY <1>1, <2>1, <2>3, <2>4 DEF JobsTypeOK, CmdType, LoadingType
  <2>6. ~event /\ loading = NoLoad => table.error \/ table.version = jobs
    BY <1>1, <2>1 DEF ToldOfCommand
  <2>7. ~event /\ loading = NoLoad => dropped' \/ table'.error \/ table'.version = jobs
    BY <1>1, <2>2, <2>3, <2>4, <2>6
  <2>8. Told'
    BY <1>1, <2>1, <2>7 DEF Told
  <2> QED BY <2>1, <2>5, <2>8 DEF JobsInv, ToldOfCommand, NoCommand
<1> QED BY <1>2, <1>3, <1>4, <1>5

LEMMA NextJobs == JobsInv /\ [JobsNext]_jobsVars => JobsInv'
<1> SUFFICES ASSUME JobsInv, [JobsNext]_jobsVars PROVE JobsInv'
  OBVIOUS
<1>1. ASSUME UNCHANGED <<jobs, event, table, loading, cmd, dropped>> PROVE JobsInv'
  BY <1>1 DEF JobsInv, JobsTypeOK, LoadingType, CmdType, Told, ToldOfCommand
<1>2. CASE UNCHANGED jobsVars
  BY <1>1, <1>2 DEF jobsVars
<1>3. CASE OpenEditor \/ LeaveEditor \/ AddImage
  BY <1>1, <1>3 DEF OpenEditor, LeaveEditor, AddImage
<1>4. ASSUME NEW i \in editor.images, RemoveImage(i) PROVE JobsInv'
  BY <1>1, <1>4 DEF RemoveImage
<1>5. ASSUME NEW b \in BOOLEAN, UploadEnds(b) PROVE JobsInv'
  BY <1>1, <1>5 DEF UploadEnds
<1>6. CASE OthersChange \/ StrayCommand
  BY <1>6, ChangesTell DEF OthersChange, StrayCommand, Change
<1> QED BY <1>2, <1>3, <1>4, <1>5, <1>6, ReadsOfJobs, CommandsOfJobs DEF JobsNext

\* What the page shows at rest is what the server has: a read that a command made
\* useless is asked for again or counted as dropped (dataGeneration,
\* refreshPending).
THEOREM JobsAreShown == JobsSpec => []JobsAgree
<1>1. JobsInv => JobsAgree
  BY DEF JobsInv, Told, JobsAgree, JobsTypeOK
<1> QED BY <1>1, InitJobs, NextJobs, PTL DEF JobsSpec

---------------------------------------------------------------------------
\* The form: an upload that counts is of the opening on screen, and what it would
\* take back is too.
ImagesOf(opened) == IF opened.open THEN {opened.opening} ELSE {}

FormInv ==
  /\ editor \in [open : BOOLEAN, opening : Nat, images : SUBSET Nat]
  /\ ImagesBelong
  /\ \/ upload = NoUpload
     \/ \E c \in BOOLEAN, n \in Nat, old \in SUBSET Nat :
          /\ upload = [phase |-> "posted", current |-> c, opening |-> n, before |-> old]
          /\ c => editor.open /\ n = editor.opening /\ old \subseteq {n}

LEMMA InitForm == JobsInit => FormInv
BY DEF JobsInit, FormInv, ImagesBelong

\* Leaving the form.
LEMMA LeavesForm ==
  ASSUME FormInv,
         \/ editor' = [editor EXCEPT !.open = FALSE, !.images = {}]
         \/ editor' = [open |-> TRUE, opening |-> editor.opening + 1, images |-> {}],
         upload' = IF upload = NoUpload THEN NoUpload ELSE [upload EXCEPT !.current = FALSE]
  PROVE  FormInv'
<1>1. editor' \in [open : BOOLEAN, opening : Nat, images : SUBSET Nat] /\ editor'.images = {}
  <2>1. editor \in [open : BOOLEAN, opening : Nat, images : SUBSET Nat]
    BY DEF FormInv
  <2>2. CASE editor' = [editor EXCEPT !.open = FALSE, !.images = {}]
    BY <2>1, <2>2
  <2>3. CASE editor' = [open |-> TRUE, opening |-> editor.opening + 1, images |-> {}]
    BY <2>1, <2>3
  <2> QED BY <2>2, <2>3
<1>2. upload' = NoUpload \/ \E n \in Nat, old \in SUBSET Nat :
        upload' = [phase |-> "posted", current |-> FALSE, opening |-> n, before |-> old]
  <2>1. CASE upload = NoUpload
    BY <2>1
  <2>2. CASE upload # NoUpload
    <3>1. PICK c \in BOOLEAN, n \in Nat, old \in SUBSET Nat :
            upload = [phase |-> "posted", current |-> c, opening |-> n, before |-> old]
      BY <2>2 DEF FormInv
    <3>2. upload' = [phase |-> "posted", current |-> FALSE, opening |-> n, before |-> old]
      BY <2>2, <3>1
    <3> QED BY <3>2
  <2> QED BY <2>1, <2>2
<1> QED BY <1>1, <1>2 DEF FormInv, ImagesBelong

LEMMA NextForm == FormInv /\ [JobsNext]_jobsVars => FormInv'
<1> SUFFICES ASSUME FormInv, [JobsNext]_jobsVars PROVE FormInv'
  OBVIOUS
<1>0. editor \in [open : BOOLEAN, opening : Nat, images : SUBSET Nat] /\ ImagesBelong
  BY DEF FormInv
<1>1. ASSUME UNCHANGED <<editor, upload>> PROVE FormInv'
  BY <1>1 DEF FormInv, ImagesBelong
<1>2. CASE \/ UNCHANGED jobsVars \/ LoadJobs \/ JobsEvent \/ ServeJobs \/ PostCommand
           \/ OthersChange \/ StrayCommand
           \/ \E b \in BOOLEAN : LoadEnds(b) \/ Command(b) \/ CommandFails(b)
  BY <1>1, <1>2 DEF jobsVars, LoadJobs, JobsEvent, ServeJobs, PostCommand, OthersChange,
     StrayCommand, LoadEnds, Command, CommandFails
<1>3. CASE CommandDone
  BY <1>1, <1>3, LeavesForm DEF CommandDone, LeftEditor
<1>4. CASE OpenEditor \/ LeaveEditor
  BY <1>4, LeavesForm DEF OpenEditor, LeaveEditor, LeftEditor
<1>5. CASE AddImage
  BY <1>0, <1>5 DEF AddImage, FormInv, ImagesBelong
<1>6. ASSUME NEW i \in editor.images, RemoveImage(i) PROVE FormInv'
  <2>1. /\ editor' = [editor EXCEPT !.images = editor.images \ {i}] /\ UNCHANGED upload
        /\ ~(upload.phase # "none" /\ upload.current)
    BY <1>6 DEF RemoveImage, Uploading
  <2>2. /\ editor' \in [open : BOOLEAN, opening : Nat, images : SUBSET Nat]
        /\ editor'.open = editor.open /\ editor'.opening = editor.opening
        /\ editor'.images \subseteq editor.images
    BY <1>0, <2>1
  <2> QED BY <1>0, <2>1, <2>2 DEF FormInv, ImagesBelong
<1>7. ASSUME NEW b \in BOOLEAN, UploadEnds(b) PROVE FormInv'
  <2>1. PICK c \in BOOLEAN, n \in Nat, old \in SUBSET Nat :
          /\ upload = [phase |-> "posted", current |-> c, opening |-> n, before |-> old]
          /\ c => editor.open /\ n = editor.opening /\ old \subseteq {n}
    BY <1>7 DEF UploadEnds, FormInv
  <2>2. /\ upload' = NoUpload
        /\ \/ editor' = editor
           \/ c /\ editor' = [editor EXCEPT !.images = editor.images \cup {n}]
           \/ c /\ editor' = [editor EXCEPT !.images = old]
    BY <1>7, <2>1 DEF UploadEnds
  <2>3. /\ editor' \in [open : BOOLEAN, opening : Nat, images : SUBSET Nat]
        /\ editor'.open = editor.open /\ editor'.opening = editor.opening
        /\ editor'.images = editor.images
           \/ (c /\ editor'.images \in {editor.images \cup {n}, old})
    BY <1>0, <2>1, <2>2
  <2> QED BY <1>0, <2>1, <2>2, <2>3 DEF FormInv, ImagesBelong
<1> QED BY <1>2, <1>3, <1>4, <1>5, <1>6, <1>7 DEF JobsNext

\* An upload answered after its form was left attaches nowhere (uploadGen).
THEOREM ImagesStayHome == JobsSpec => []ImagesBelong
<1>1. FormInv => ImagesBelong
  BY DEF FormInv
<1> QED BY <1>1, InitForm, NextForm, PTL DEF JobsSpec

(****************************************************************************)
(* The transcript.                                                          *)
(****************************************************************************)

Versions   == [Turn -> Nat]
PrimarySet == [is : {"asked"}] \cup [is : {"answer"}, value : Nat]
StoredSet  == [is : {"failed"}] \cup [is : {"answer"}, value : Versions]
RepliesSet == [is : {"asked"}] \cup StoredSet
LoadSet    == [chat : Chat, current : BOOLEAN, fresh : BOOLEAN, primary : PrimarySet,
               replies : RepliesSet, late : BOOLEAN]
FlightSet  == [for : Chat \cup {NoChat}, again : Chat \cup {NoChat}]
ShownSet   == [chat : Chat \cup {NoChat}, turns : Versions, of : Chat \cup {NoChat},
               error : BOOLEAN]
AheadSet   == [original : Nat, stored : StoredSet]
PrefetchSet == [chat : Chat, answer : [is : {"asked"}] \cup [is : {"answer"}, value : AheadSet]]

Within(turns, top) == \A t \in Turn : turns[t] <= top[t]

\* No answer says more of a chat than the server has; the detail is shown first.
Says(l, top) ==
  /\ l.primary # Asked => l.primary.value <= top[Original]
  /\ l.late => l.primary # Asked
  /\ l.replies \notin {Asked, Absent} => Within(l.replies.value, top)

\* A load that counts is of the selected chat, no load of another chat is taken
\* for it, and it is a first view as long as it has shown nothing.
Steers(l, selection, chat, for) ==
  l.chat # NoChat /\ l.current =>
    /\ l.chat = selection
    /\ for \in {selection, NoChat}
    /\ l.fresh /\ ~l.late <=> chat # selection

LoadsOK(loads, selection, chat, for) ==
  /\ loads \in [Slot -> {Nothing} \cup LoadSet]
  /\ \A s \in Slot : loads[s].chat # NoChat => Says(loads[s], saved[loads[s].chat])
  /\ \A s \in Slot : Steers(loads[s], selection, chat, for)
  /\ \A s1, s2 \in Slot : (/\ loads[s1].chat # NoChat /\ loads[s1].current
                           /\ loads[s2].chat # NoChat /\ loads[s2].current) => s1 = s2

ShownOK(display, selection) ==
  /\ display \in ShownSet
  /\ display.of = display.chat
  /\ selection = NoChat => display.chat = NoChat
  /\ display.chat # NoChat => Within(display.turns, saved[display.chat])

AheadOK(p) ==
  \/ p = Nothing
  \/ /\ p \in PrefetchSet
     /\ p.answer # Asked =>
          /\ p.answer.value.original <= saved[p.chat][Original]
          /\ p.answer.value.stored # Absent => Within(p.answer.value.stored.value, saved[p.chat])

DetailInv ==
  /\ saved \in [Chat -> Versions]
  /\ selected \in Chat \cup {NoChat}
  /\ ShownOK(shown, selected)
  /\ flight \in FlightSet
  /\ LoadsOK(load, selected, shown.chat, flight.for)
  /\ flight.for # NoChat => \E s \in Slot : load[s].chat = flight.for
  /\ recent \in [Chat -> Versions] /\ \A c \in Chat : Within(recent[c], saved[c])
  /\ AheadOK(prefetch)
  /\ NoRefreshIsLost

LEMMA InitDetail == DetailInit => DetailInv
<1> SUFFICES ASSUME DetailInit PROVE DetailInv
  OBVIOUS
<1>1. NoTurns \in Versions /\ OnlyOriginal(1) \in Versions /\ NoChat \notin Chat
  BY DetailAssumption DEF NoTurns, OnlyOriginal, Versions, Turn
<1>2. \A t \in Turn : NoTurns[t] <= OnlyOriginal(1)[t]
  BY DetailAssumption DEF NoTurns, OnlyOriginal, Turn
<1>3. saved \in [Chat -> Versions] /\ recent \in [Chat -> Versions]
      /\ \A c \in Chat : Within(recent[c], saved[c])
  BY <1>1, <1>2 DEF DetailInit, Within
<1>4. \A s \in Slot : load[s] = Nothing /\ load[s].chat = NoChat
  BY DEF DetailInit, Nothing
<1>5. LoadsOK(load, selected, shown.chat, flight.for)
  BY <1>4 DEF DetailInit, LoadsOK, Steers
<1>6. ShownOK(shown, selected) /\ shown.chat = NoChat
  BY <1>1 DEF DetailInit, ShownOK, ShownSet
<1>7. flight \in FlightSet /\ flight.for = NoChat
  BY DEF DetailInit, FlightSet
<1> QED BY <1>3, <1>5, <1>6, <1>7 DEF DetailInv, DetailInit, AheadOK, NoRefreshIsLost

\* What recoverVisibleTurns returns: nothing that no read said, and no less than
\* what is on screen of the same chat.
LEMMA RecoverBounded ==
  ASSUME NEW stored \in StoredSet, NEW previous \in Versions, NEW original \in Nat,
         NEW sameRun \in BOOLEAN, NEW top \in Versions,
         stored # Absent => Within(stored.value, top),
         sameRun => Within(previous, top), original <= top[Original]
  PROVE  LET turns == RecoverVisibleTurns(stored, previous, original, sameRun)
         IN  turns \in Versions /\ Within(turns, top)
             /\ (sameRun => Within(previous, turns))
<1> DEFINE confirmed == IF stored # Absent
                        THEN IF sameRun THEN MergeTurns(stored.value, previous) ELSE stored.value
                        ELSE IF sameRun /\ previous # NoTurns THEN previous
                        ELSE OnlyOriginal(original)
           raised == [confirmed EXCEPT ![Original] = Max2(@, original)]
<1>1. Original \in Turn
  BY DEF Turn
<1>2. confirmed \in Versions /\ Within(confirmed, top) /\ (sameRun => Within(previous, confirmed))
  <2>1. stored # Absent => stored.value \in Versions
    BY DEF StoredSet, Absent
  <2>2. ASSUME NEW a \in Versions, NEW b \in Versions
        PROVE  /\ MergeTurns(a, b) \in Versions /\ Within(b, MergeTurns(a, b))
               /\ Within(a, top) /\ Within(b, top) => Within(MergeTurns(a, b), top)
    BY DEF Versions, MergeTurns, Max2, Within
  <2>3. /\ OnlyOriginal(original) \in Versions /\ Within(OnlyOriginal(original), top)
        /\ Within(NoTurns, OnlyOriginal(original))
    BY <1>1 DEF OnlyOriginal, NoTurns, Versions, Within
  <2>4. Within(previous, previous)
    BY DEF Within, Versions
  <2>5. CASE stored # Absent /\ sameRun
    BY <2>1, <2>2, <2>5
  <2>6. CASE stored # Absent /\ ~sameRun
    BY <2>1, <2>6
  <2>7. CASE stored = Absent /\ sameRun /\ previous # NoTurns
    BY <2>4, <2>7
  <2>8. CASE stored = Absent /\ ~(sameRun /\ previous # NoTurns)
    BY <2>3, <2>8
  <2> QED BY <2>5, <2>6, <2>7, <2>8
<1> HIDE DEF confirmed
<1>3. raised \in Versions /\ Within(raised, top) /\ Within(confirmed, raised)
  BY <1>1, <1>2 DEF Versions, Max2, Within
<1>4. RecoverVisibleTurns(stored, previous, original, sameRun) \in {confirmed, raised}
  BY DEF RecoverVisibleTurns, confirmed
<1>5. sameRun => Within(previous, raised)
  BY <1>2, <1>3 DEF Within, Versions
<1> HIDE DEF raised
<1> QED BY <1>2, <1>3, <1>4, <1>5

\* Superseding leaves no load that counts.
LEMMA SupersededOK ==
  ASSUME NEW loads \in [Slot -> {Nothing} \cup LoadSet]
  PROVE  /\ Superseded(loads) \in [Slot -> {Nothing} \cup LoadSet]
         /\ \A s \in Slot :
              /\ Superseded(loads)[s].chat = loads[s].chat
              /\ loads[s].chat = NoChat => Superseded(loads)[s] = Nothing
              /\ loads[s].chat # NoChat => /\ Superseded(loads)[s] \in LoadSet
                                           /\ ~Superseded(loads)[s].current
                                           /\ Superseded(loads)[s].primary = loads[s].primary
                                           /\ Superseded(loads)[s].late = loads[s].late
                                           /\ Superseded(loads)[s].replies = loads[s].replies
<1>1. ASSUME NEW l \in LoadSet
      PROVE  /\ l.chat # NoChat /\ [l EXCEPT !.current = FALSE] \in LoadSet
             /\ ~[l EXCEPT !.current = FALSE].current
             /\ [l EXCEPT !.current = FALSE].chat = l.chat
             /\ [l EXCEPT !.current = FALSE].primary = l.primary
             /\ [l EXCEPT !.current = FALSE].late = l.late
             /\ [l EXCEPT !.current = FALSE].replies = l.replies
  BY DetailAssumption DEF LoadSet
<1>2. \A s \in Slot : loads[s] = Nothing \/ loads[s] \in LoadSet
  OBVIOUS
<1>3. Nothing.chat = NoChat
  BY DEF Nothing
<1>4. ASSUME NEW s \in Slot
      PROVE  /\ Superseded(loads)[s] \in {Nothing} \cup LoadSet
             /\ Superseded(loads)[s].chat = loads[s].chat
             /\ loads[s].chat = NoChat => Superseded(loads)[s] = Nothing
             /\ loads[s].chat # NoChat => /\ Superseded(loads)[s] \in LoadSet
                                          /\ ~Superseded(loads)[s].current
                                          /\ Superseded(loads)[s].primary = loads[s].primary
                                           /\ Superseded(loads)[s].late = loads[s].late
                                          /\ Superseded(loads)[s].replies = loads[s].replies
  <2>1. CASE loads[s] = Nothing
    BY <1>3, <2>1 DEF Superseded
  <2>2. CASE loads[s] \in LoadSet
    <3>1. Superseded(loads)[s] = [loads[s] EXCEPT !.current = FALSE]
      BY <1>1, <2>2 DEF Superseded
    <3> QED BY <1>1, <2>2, <3>1
  <2> QED BY <1>2, <2>1, <2>2
<1>5. Superseded(loads) = [s \in Slot |-> Superseded(loads)[s]]
  BY DEF Superseded
<1> QED BY <1>4, <1>5

\* loadDetail: one load of the selected chat counts, and it remembers that a
\* second one is due.
LEMMA LoadDetailOK ==
  ASSUME saved \in [Chat -> Versions], NEW c \in Chat, NEW loads, NEW display \in ShownSet,
         NEW now \in FlightSet,
         loads \in [Slot -> {Nothing} \cup LoadSet],
         \A s \in Slot : loads[s].chat # NoChat => Says(loads[s], saved[loads[s].chat]),
         now.for = c => /\ LoadsOK(loads, c, display.chat, c)
                        /\ \E s \in Slot : loads[s].chat = c,
         saved' = saved,
         LoadDetail(c, loads, display, now)
  PROVE  /\ flight' \in FlightSet /\ flight'.for = c
         /\ now.for = c => flight' = [for |-> c, again |-> c]
         /\ LoadsOK(load, c, shown.chat, flight.for)'
         /\ \E s \in Slot : load'[s].chat = c
         /\ shown' \in ShownSet /\ shown'.chat = display.chat
         /\ shown'.turns = display.turns /\ shown'.of = display.of
<1>1. CASE now.for = c
  <2>1. flight' = [now EXCEPT !.again = c] /\ load' = loads /\ shown' = display
    BY <1>1 DEF LoadDetail
  <2>2. flight' \in FlightSet /\ flight'.for = c /\ flight' = [for |-> c, again |-> c]
    BY <1>1, <2>1 DEF FlightSet
  <2> QED BY <1>1, <2>1, <2>2 DEF LoadsOK
<1>2. CASE now.for # c
  <2> DEFINE new == [chat |-> c, current |-> TRUE, fresh |-> display.chat # c,
                     primary |-> Asked, replies |-> Asked, late |-> FALSE]
  <2>1. PICK n \in Slot :
          /\ loads[n].chat = NoChat
          /\ flight' = [now EXCEPT !.for = c]
          /\ load' = [Superseded(loads) EXCEPT ![n] = new]
          /\ shown' = IF display.chat # c THEN [display EXCEPT !.error = FALSE] ELSE display
    BY <1>2 DEF LoadDetail
  <2>2. flight' \in FlightSet /\ flight'.for = c
    BY <2>1 DEF FlightSet
  <2>3. /\ shown' \in ShownSet /\ shown'.chat = display.chat
        /\ shown'.turns = display.turns /\ shown'.of = display.of
    BY <2>1 DEF ShownSet
  <2>4. /\ new \in LoadSet /\ new.chat = c /\ new.primary = Asked /\ new.replies = Asked
        /\ ~new.late /\ (new.fresh <=> display.chat # c)
    BY DEF LoadSet, PrimarySet, RepliesSet, Asked
  <2> HIDE DEF new
  <2>5. /\ load' \in [Slot -> {Nothing} \cup LoadSet] /\ load'[n] = new
        /\ \A s \in Slot : s # n => load'[s] = Superseded(loads)[s]
    BY <2>1, <2>4, SupersededOK
  <2>6. ASSUME NEW s \in Slot, s # n
        PROVE  /\ load'[s].chat # NoChat => Says(load'[s], saved[load'[s].chat])
               /\ ~(load'[s].chat # NoChat /\ load'[s].current)
    BY <2>5, <2>6, SupersededOK DEF Says
  <2>7. /\ Says(load'[n], saved[c])
        /\ Steers(load'[n], c, shown'.chat, flight'.for)
    BY <2>2, <2>3, <2>4, <2>5 DEF Says, Steers
  <2>8. \A s \in Slot : Steers(load'[s], c, shown'.chat, flight'.for)
    BY <2>6, <2>7 DEF Steers
  <2>9. \A s \in Slot : load'[s].chat # NoChat => Says(load'[s], saved'[load'[s].chat])
    BY <2>4, <2>5, <2>6, <2>7
  <2>10. LoadsOK(load, c, shown.chat, flight.for)'
    BY <2>5, <2>6, <2>8, <2>9 DEF LoadsOK
  <2> QED BY <1>2, <2>2, <2>3, <2>4, <2>5, <2>10
<1> QED BY <1>1, <1>2

\* The end of a load, whatever it shows.
LEMMA FinishOK ==
  ASSUME DetailInv, NEW s \in Slot, Flying(s), NEW display, ShownOK(display, selected),
         display.chat = shown.chat \/ (load[s].current /\ selected = load[s].chat),
         UNCHANGED <<saved, selected>>,
         Finish(s, display)
  PROVE  /\ ShownOK(shown, selected)' /\ shown'.chat = display.chat
         /\ shown'.turns = display.turns
         /\ flight' \in FlightSet
         /\ LoadsOK(load, selected, shown.chat, flight.for)'
         /\ flight'.for # NoChat => \E x \in Slot : load'[x].chat = flight'.for
         /\ NoRefreshIsLost'
<1>1. /\ saved \in [Chat -> Versions] /\ flight \in FlightSet /\ NoRefreshIsLost
      /\ LoadsOK(load, selected, shown.chat, flight.for)
      /\ flight.for # NoChat => \E x \in Slot : load[x].chat = flight.for
      /\ selected \in Chat \cup {NoChat} /\ NoChat \notin Chat
  BY DetailAssumption DEF DetailInv
<1>2. PICK c \in Chat : c = load[s].chat /\ c # NoChat
  BY <1>1 DEF LoadsOK, Flying, LoadSet, Nothing
<1> DEFINE loads == [load EXCEPT ![s] = Nothing]
           ended == [for |-> NoChat, again |-> IF flight.again = c THEN NoChat ELSE flight.again]
<1>3. /\ loads \in [Slot -> {Nothing} \cup LoadSet] /\ loads[s].chat = NoChat
      /\ \A x \in Slot : x # s => loads[x] = load[x]
  BY <1>1 DEF LoadsOK, Nothing
<1>4. /\ \A x \in Slot : loads[x].chat # NoChat => Says(loads[x], saved[loads[x].chat])
      /\ \A x1, x2 \in Slot : (/\ loads[x1].chat # NoChat /\ loads[x1].current
                               /\ loads[x2].chat # NoChat /\ loads[x2].current) => x1 = x2
  BY <1>1, <1>3 DEF LoadsOK
<1>5. \A x \in Slot : Steers(loads[x], selected, display.chat, flight.for)
  <2> SUFFICES ASSUME NEW x \in Slot, loads[x].chat # NoChat, loads[x].current
               PROVE  Steers(loads[x], selected, display.chat, flight.for)
    BY DEF Steers
  <2>1. x # s /\ loads[x] = load[x]
    BY <1>3
  <2>2. display.chat = shown.chat
    BY <1>1, <1>2, <2>1 DEF LoadsOK
  <2> QED BY <1>1, <2>1, <2>2 DEF LoadsOK
<1>6. LoadsOK(loads, selected, display.chat, flight.for)
  BY <1>3, <1>4, <1>5 DEF LoadsOK
<1>7. ended \in FlightSet /\ ended.for = NoChat
  BY <1>1 DEF FlightSet
<1>8. CASE flight.for # c
  <2>1. load' = loads /\ shown' = display /\ UNCHANGED <<flight, outdated>>
    BY <1>2, <1>8 DEF Finish
  <2>2. LoadsOK(load, selected, shown.chat, flight.for)'
    BY <1>6, <2>1 DEF LoadsOK
  <2>3. flight.for # NoChat => \E x \in Slot : loads[x].chat = flight.for
    BY <1>1, <1>2, <1>3, <1>8
  <2>4. NoRefreshIsLost'
    BY <1>1, <2>1, <2>3 DEF NoRefreshIsLost
  <2> QED BY <1>1, <2>1, <2>2, <2>3, <2>4 DEF ShownOK
<1>9. CASE flight.for = c /\ flight.again = c /\ selected = c
  <2>1. LoadDetail(c, loads, display, ended) /\ outdated' = FALSE
    BY <1>2, <1>9 DEF Finish
  <2>2. display \in ShownSet
    BY DEF ShownOK
  <2> HIDE DEF loads, ended
  <2>3. /\ flight' \in FlightSet /\ flight'.for = c
        /\ LoadsOK(load, c, shown.chat, flight.for)'
        /\ \E x \in Slot : load'[x].chat = c
        /\ shown' \in ShownSet /\ shown'.chat = display.chat
        /\ shown'.turns = display.turns /\ shown'.of = display.of
    BY <1>1, <1>2, <1>3, <1>4, <1>7, <2>1, <2>2, LoadDetailOK
  <2>4. LoadsOK(load, selected, shown.chat, flight.for)'
    BY <1>9, <2>3 DEF LoadsOK
  <2>5. ShownOK(shown, selected)'
    BY <2>3 DEF ShownOK
  <2>6. NoRefreshIsLost'
    BY <2>1 DEF NoRefreshIsLost
  <2> QED BY <2>3, <2>4, <2>5, <2>6
<1>10. CASE flight.for = c /\ ~(flight.again = c /\ selected = c)
  <2>1. load' = loads /\ shown' = display /\ flight' = ended /\ UNCHANGED outdated
    BY <1>2, <1>10 DEF Finish
  <2>2. \A x \in Slot : Steers(loads[x], selected, display.chat, NoChat)
    BY <1>5 DEF Steers
  <2>3. LoadsOK(load, selected, shown.chat, flight.for)'
    BY <1>6, <1>7, <2>1, <2>2 DEF LoadsOK
  <2>4. ~(selected # NoChat /\ outdated)
    BY <1>1, <1>10 DEF NoRefreshIsLost
  <2>5. NoRefreshIsLost'
    BY <2>1, <2>4 DEF NoRefreshIsLost
  <2> QED BY <1>7, <2>1, <2>3, <2>5 DEF ShownOK
<1> QED BY <1>8, <1>9, <1>10

\* What no step takes back while a chat stays on screen.
TurnsStay == selected' = selected /\ shown'.chat = shown.chat => Within(shown.turns, shown'.turns)

\* Selecting, leaving and asking for the chat again.
LEMMA Selections ==
  ASSUME DetailInv,
         Deselect \/ Invalidate \/ \E c \in Chat, young \in BOOLEAN : Select(c, young)
  PROVE  DetailInv' /\ TurnsStay
<1>1. /\ saved \in [Chat -> Versions] /\ flight \in FlightSet /\ NoRefreshIsLost
      /\ ShownOK(shown, selected) /\ shown \in ShownSet
      /\ LoadsOK(load, selected, shown.chat, flight.for)
      /\ load \in [Slot -> {Nothing} \cup LoadSet]
      /\ \A s \in Slot : load[s].chat # NoChat => Says(load[s], saved[load[s].chat])
      /\ flight.for # NoChat => \E x \in Slot : load[x].chat = flight.for
      /\ selected \in Chat \cup {NoChat} /\ NoChat \notin Chat
      /\ recent \in [Chat -> Versions] /\ \A c \in Chat : Within(recent[c], saved[c])
      /\ AheadOK(prefetch)
  BY DetailAssumption DEF DetailInv, LoadsOK, ShownOK
<1>2. ASSUME UNCHANGED <<saved, recent, prefetch>>
      PROVE  /\ saved' \in [Chat -> Versions] /\ recent' \in [Chat -> Versions]
             /\ \A c \in Chat : Within(recent'[c], saved'[c])
             /\ AheadOK(prefetch)'
  BY <1>1, <1>2 DEF AheadOK
<1>3. \A turns \in Versions : Within(turns, turns)
  BY DEF Versions, Within
<1>4. ASSUME NEW c \in Chat, NEW display \in ShownSet, ShownOK(display, c),
             LoadDetail(c, load, display, flight), selected' = c,
             selected = c => display.turns = shown.turns /\ display.chat = shown.chat,
             flight.for = c => LoadsOK(load, c, display.chat, c),
             outdated' = (flight.for = c),
             UNCHANGED <<saved, recent, prefetch>>
      PROVE  DetailInv' /\ TurnsStay
  <2>1. /\ flight' \in FlightSet /\ flight'.for = c
        /\ flight.for = c => flight' = [for |-> c, again |-> c]
        /\ LoadsOK(load, c, shown.chat, flight.for)'
        /\ \E s \in Slot : load'[s].chat = c
        /\ shown' \in ShownSet /\ shown'.chat = display.chat
        /\ shown'.turns = display.turns /\ shown'.of = display.of
    BY <1>1, <1>4, LoadDetailOK
  <2>2. LoadsOK(load, selected, shown.chat, flight.for)'
    BY <1>4, <2>1 DEF LoadsOK
  <2>3. ShownOK(shown, selected)'
    BY <1>4, <2>1 DEF ShownOK
  <2>4. NoRefreshIsLost'
    BY <1>4, <2>1 DEF NoRefreshIsLost
  <2>5. TurnsStay
    BY <1>1, <1>3, <1>4, <2>1 DEF TurnsStay, ShownSet
  <2> QED BY <1>2, <1>4, <2>1, <2>2, <2>3, <2>4, <2>5 DEF DetailInv
<1>5. CASE Deselect
  <2>1. /\ selected # NoChat /\ selected' = NoChat
        /\ shown' = [chat |-> NoChat, turns |-> NoTurns, of |-> NoChat, error |-> FALSE]
        /\ load' = Superseded(load) /\ outdated' = FALSE
        /\ UNCHANGED <<saved, flight, recent, prefetch>>
    BY <1>5 DEF Deselect
  <2>2. ShownOK(shown, selected)'
    BY <2>1 DEF ShownOK, ShownSet, NoTurns, Versions
  <2>3. /\ load' \in [Slot -> {Nothing} \cup LoadSet]
        /\ \A s \in Slot : /\ load'[s].chat = load[s].chat
                           /\ ~(load'[s].chat # NoChat /\ load'[s].current)
                           /\ load'[s].chat # NoChat => Says(load'[s], saved[load'[s].chat])
    BY <1>1, <2>1, SupersededOK DEF Says
  <2>4. LoadsOK(load, selected, shown.chat, flight.for)'
    BY <2>1, <2>3 DEF LoadsOK, Steers
  <2>5. flight'.for # NoChat => \E x \in Slot : load'[x].chat = flight'.for
    BY <1>1, <2>1, <2>3
  <2>6. NoRefreshIsLost' /\ TurnsStay
    BY <2>1 DEF NoRefreshIsLost, TurnsStay
  <2> QED BY <1>1, <1>2, <2>1, <2>2, <2>4, <2>5, <2>6 DEF DetailInv
<1>6. CASE Invalidate
  <2>1. /\ selected \in Chat /\ LoadDetail(selected, load, shown, flight)
        /\ outdated' = (flight.for = selected)
        /\ UNCHANGED <<saved, selected, recent, prefetch>>
    BY <1>1, <1>6 DEF Invalidate
  <2>2. PICK c \in Chat : c = selected
    BY <2>1
  <2>3. flight.for = c => LoadsOK(load, c, shown.chat, c)
    BY <1>1, <2>2
  <2> QED BY <1>1, <1>4, <2>1, <2>2, <2>3
<1>7. ASSUME NEW c \in Chat, NEW young \in BOOLEAN, Select(c, young)
      PROVE  DetailInv' /\ TurnsStay
  <2> DEFINE display == IF young /\ recent[c] # NoTurns
                        THEN [chat |-> c, turns |-> recent[c], of |-> c, error |-> FALSE]
                        ELSE shown
  <2>1. /\ c # selected /\ selected' = c /\ LoadDetail(c, load, display, flight)
        /\ outdated' = (flight.for = c)
        /\ UNCHANGED <<saved, recent, prefetch>>
    BY <1>7 DEF Select
  <2>2. display \in ShownSet /\ ShownOK(display, c)
    BY <1>1, <2>1 DEF ShownOK, ShownSet
  <2> HIDE DEF display
  <2>3. ASSUME flight.for = c PROVE LoadsOK(load, c, display.chat, c)
    <3>1. \A s \in Slot : ~(load[s].chat # NoChat /\ load[s].current)
      BY <1>1, <2>1, <2>3 DEF LoadsOK, Steers
    <3> QED BY <1>1, <3>1 DEF LoadsOK, Steers
  <2> QED BY <1>4, <2>1, <2>2, <2>3
<1> QED BY <1>5, <1>6, <1>7

\* What a step on one load does to the loads.
LEMMA OneLoad ==
  ASSUME DetailInv, NEW s \in Slot, NEW l \in LoadSet, Flying(s),
         load' = [load EXCEPT ![s] = l],
         l.chat = load[s].chat, l.current = load[s].current,
         Says(l, saved[l.chat]),
         l.current => \/ l.fresh = load[s].fresh /\ l.late = load[s].late /\ shown'.chat = shown.chat
                      \/ l.late /\ selected = l.chat /\ shown'.chat = l.chat,
         ~l.current => shown'.chat = shown.chat,
         UNCHANGED <<saved, selected, flight, outdated>>
  PROVE  /\ LoadsOK(load, selected, shown.chat, flight.for)'
         /\ flight'.for # NoChat => \E x \in Slot : load'[x].chat = flight'.for
         /\ NoRefreshIsLost'
<1>1. /\ load \in [Slot -> {Nothing} \cup LoadSet] /\ LoadsOK(load, selected, shown.chat, flight.for)
      /\ flight.for # NoChat => \E x \in Slot : load[x].chat = flight.for
      /\ NoRefreshIsLost
  BY DEF DetailInv, LoadsOK
<1>2. /\ load' \in [Slot -> {Nothing} \cup LoadSet] /\ load'[s] = l
      /\ \A x \in Slot : x # s => load'[x] = load[x]
      /\ \A x \in Slot : load'[x].chat = load[x].chat
  BY <1>1
<1>3. \A x \in Slot : (load'[x].chat # NoChat /\ load'[x].current)
                      => load[x].chat # NoChat /\ load[x].current
  BY <1>2
<1>4. ASSUME NEW x \in Slot PROVE Steers(load'[x], selected, shown'.chat, flight.for)
  <2>1. CASE x = s
    BY <1>1, <1>2, <2>1 DEF LoadsOK, Steers, Flying
  <2>2. CASE x # s
    <3> SUFFICES ASSUME load[x].chat # NoChat, load[x].current
                 PROVE  Steers(load[x], selected, shown'.chat, flight.for)
      BY <1>2, <2>2 DEF Steers
    <3>1. ~l.current
      BY <1>1, <2>2 DEF LoadsOK, Flying
    <3> QED BY <1>1, <3>1 DEF LoadsOK
  <2> QED BY <2>1, <2>2
<1>5. LoadsOK(load, selected, shown.chat, flight.for)'
  BY <1>1, <1>2, <1>3, <1>4 DEF LoadsOK
<1>6. NoRefreshIsLost'
  BY <1>1, <1>2 DEF NoRefreshIsLost
<1> QED BY <1>1, <1>2, <1>5, <1>6

\* What is known of a load and of what is shown beside it.
LEMMA LoadFacts ==
  ASSUME DetailInv, NEW s \in Slot, Flying(s)
  PROVE  /\ load[s] \in LoadSet /\ load[s].chat \in Chat /\ load[s].chat # NoChat
         /\ Says(load[s], saved[load[s].chat])
         /\ Steers(load[s], selected, shown.chat, flight.for)
         /\ load[s].primary # Asked => load[s].primary.value \in Nat
         /\ load[s].replies # Asked => load[s].replies \in StoredSet
         /\ ShownOK(shown, selected) /\ shown \in ShownSet /\ shown.turns \in Versions
         /\ saved \in [Chat -> Versions] /\ saved[load[s].chat] \in Versions
         /\ Within(shown.turns, shown.turns)
<1>1. load \in [Slot -> {Nothing} \cup LoadSet] /\ load[s].chat # NoChat
  BY DEF DetailInv, LoadsOK, Flying
<1>2. load[s] \in LoadSet
  BY <1>1 DEF Nothing
<1>3. /\ load[s].chat \in Chat /\ load[s].primary \in PrimarySet /\ load[s].replies \in RepliesSet
  BY <1>2 DEF LoadSet
<1>4. /\ load[s].primary # Asked => load[s].primary.value \in Nat
      /\ load[s].replies # Asked => load[s].replies \in StoredSet
  BY <1>3 DEF PrimarySet, RepliesSet, Asked
<1>5. ShownOK(shown, selected) /\ shown \in ShownSet /\ shown.turns \in Versions
      /\ saved \in [Chat -> Versions]
  BY DEF DetailInv, ShownOK, ShownSet
<1>6. Within(shown.turns, shown.turns)
  BY <1>5 DEF Within, Versions
<1> QED BY <1>1, <1>2, <1>3, <1>4, <1>5, <1>6 DEF DetailInv, LoadsOK

\* The reads are answered.
LEMMA Answers ==
  ASSUME DetailInv, NEW s \in Slot,
         AnswerPrimary(s) \/ \E b \in BOOLEAN : AnswerReplies(s, b)
  PROVE  DetailInv' /\ TurnsStay
<1>1. /\ Flying(s) /\ UNCHANGED <<saved, selected, shown, flight, recent, prefetch, outdated>>
  BY DEF AnswerPrimary, AnswerReplies
<1>2. PICK old \in LoadSet, c \in Chat, top \in Versions :
        /\ old = load[s] /\ c = old.chat /\ top = saved[c] /\ Says(old, top)
  BY <1>1, LoadFacts
<1>3. \E l \in LoadSet :
        /\ load' = [load EXCEPT ![s] = l] /\ Says(l, top)
        /\ l.chat = old.chat /\ l.current = old.current /\ l.fresh = old.fresh /\ l.late = old.late
  <2>0. load \in [Slot -> {Nothing} \cup LoadSet]
    BY DEF DetailInv, LoadsOK
  <2>1. CASE AnswerPrimary(s)
    <3>1. load' = [load EXCEPT ![s] = [old EXCEPT !.primary = Answer(top[Original])]]
      BY <1>2, <2>0, <2>1 DEF AnswerPrimary
    <3>2. top[Original] \in Nat
      BY DEF Versions, Turn
    <3>3. Answer(top[Original]) \in PrimarySet /\ Answer(top[Original]).value = top[Original]
      BY <3>2 DEF PrimarySet, Answer
    <3> DEFINE l == [old EXCEPT !.primary = Answer(top[Original])]
    <3>4. /\ l \in LoadSet /\ l.primary = Answer(top[Original]) /\ l.replies = old.replies
          /\ l.chat = old.chat /\ l.current = old.current /\ l.fresh = old.fresh
          /\ l.late = old.late
      BY <3>3 DEF LoadSet
    <3>5. l.primary # Asked
      BY <3>4 DEF Answer, Asked
    <3> HIDE DEF l
    <3>6. Says(l, top)
      BY <1>2, <3>2, <3>3, <3>4, <3>5 DEF Says
    <3> QED BY <3>1, <3>4, <3>6 DEF l
  <2>2. ASSUME NEW b \in BOOLEAN, AnswerReplies(s, b)
        PROVE  \E l \in LoadSet :
                 /\ load' = [load EXCEPT ![s] = l] /\ Says(l, top)
                 /\ l.chat = old.chat /\ l.current = old.current /\ l.fresh = old.fresh
                 /\ l.late = old.late
    <3> DEFINE a == IF b THEN Absent ELSE Answer(top)
    <3>1. load' = [load EXCEPT ![s] = [old EXCEPT !.replies = a]]
      BY <1>2, <2>0, <2>2 DEF AnswerReplies
    <3>2. a \in RepliesSet /\ (a \notin {Asked, Absent} => a.value = top)
      BY DEF RepliesSet, StoredSet, Answer, Absent
    <3> HIDE DEF a
    <3>3. Within(top, top)
      BY DEF Within, Versions
    <3> DEFINE l == [old EXCEPT !.replies = a]
    <3>4. /\ l \in LoadSet /\ l.replies = a /\ l.primary = old.primary
          /\ l.chat = old.chat /\ l.current = old.current /\ l.fresh = old.fresh
          /\ l.late = old.late
      BY <3>2 DEF LoadSet
    <3> HIDE DEF l
    <3>5. Says(l, top)
      BY <1>2, <3>2, <3>3, <3>4 DEF Says
    <3> QED BY <3>1, <3>4, <3>5 DEF l
  <2> QED BY <2>1, <2>2
<1>4. /\ LoadsOK(load, selected, shown.chat, flight.for)'
      /\ flight'.for # NoChat => \E x \in Slot : load'[x].chat = flight'.for
      /\ NoRefreshIsLost'
  BY <1>1, <1>2, <1>3, OneLoad
<1>5. TurnsStay
  BY <1>1, LoadFacts DEF TurnsStay
<1> QED BY <1>1, <1>4, <1>5 DEF DetailInv, ShownOK, AheadOK

\* rememberDetail.
LEMMA RememberOK ==
  ASSUME DetailInv, NEW c \in Chat, NEW original \in Nat, NEW turns \in Versions,
         Within(turns, saved[c]), Remember(c, original, turns), saved' = saved
  PROVE  /\ recent' \in [Chat -> Versions] /\ \A x \in Chat : Within(recent'[x], saved'[x])
<1>1. recent \in [Chat -> Versions] /\ \A x \in Chat : Within(recent[x], saved[x])
  BY DEF DetailInv
<1>2. recent' = [recent EXCEPT ![c] = IF recent[c][Original] > original THEN recent[c] ELSE turns]
  BY DEF Remember
<1> QED BY <1>1, <1>2

\* A load fails or its answers are shown.
LEMMA Renders ==
  ASSUME DetailInv, NEW s \in Slot,
         FailPrimary(s) \/ RenderTurns(s) \/ \E b \in BOOLEAN : Render(s, b)
  PROVE  DetailInv' /\ TurnsStay
<1>1. Flying(s) /\ UNCHANGED <<saved, selected, prefetch>>
  BY DEF FailPrimary, RenderTurns, Render
<1>2. PICK l \in LoadSet, c \in Chat, top \in Versions :
        /\ l = load[s] /\ c = l.chat /\ top = saved[c] /\ Says(l, top)
        /\ Steers(l, selected, shown.chat, flight.for)
        /\ l.primary # Asked => l.primary.value \in Nat
        /\ l.replies # Asked => l.replies \in StoredSet
  BY <1>1, LoadFacts
<1>3. /\ ShownOK(shown, selected) /\ shown \in ShownSet /\ shown.turns \in Versions
      /\ Within(shown.turns, shown.turns) /\ selected \in Chat \cup {NoChat} /\ NoChat \notin Chat
      /\ recent \in [Chat -> Versions] /\ \A x \in Chat : Within(recent[x], saved[x])
  BY <1>1, LoadFacts, DetailAssumption DEF DetailInv
<1>4. ASSUME NEW display, ShownOK(display, selected),
             display.chat = shown.chat \/ (l.current /\ selected = c),
             display.chat = shown.chat => Within(shown.turns, display.turns),
             Finish(s, display),
             recent' \in [Chat -> Versions], \A x \in Chat : Within(recent'[x], saved'[x])
      PROVE  DetailInv' /\ TurnsStay
  <2>1. /\ ShownOK(shown, selected)' /\ shown'.chat = display.chat
        /\ shown'.turns = display.turns
        /\ flight' \in FlightSet
        /\ LoadsOK(load, selected, shown.chat, flight.for)'
        /\ flight'.for # NoChat => \E x \in Slot : load'[x].chat = flight'.for
        /\ NoRefreshIsLost'
    BY <1>1, <1>2, <1>4, FinishOK
  <2>2. TurnsStay
    BY <1>4, <2>1 DEF TurnsStay
  <2> QED BY <1>1, <1>4, <2>1, <2>2 DEF DetailInv, AheadOK
<1>5. CASE FailPrimary(s)
  <2> DEFINE display == IF load[s].current THEN [shown EXCEPT !.error = TRUE] ELSE shown
  <2>1. Finish(s, display) /\ recent' = recent
    BY <1>5 DEF FailPrimary
  <2>2. display \in ShownSet /\ display.chat = shown.chat /\ display.turns = shown.turns
        /\ display.of = shown.of
    BY <1>3 DEF ShownSet
  <2> HIDE DEF display
  <2>3. ShownOK(display, selected)
    BY <1>3, <2>2 DEF ShownOK
  <2> QED BY <1>1, <1>3, <1>4, <2>1, <2>2, <2>3
<1>6. CASE RenderTurns(s)
  <2> DEFINE turns == RecoverVisibleTurns(l.replies, shown.turns, l.primary.value, TRUE)
             display == [shown EXCEPT !.turns = turns, !.of = l.chat]
  <2>1. /\ l.late /\ l.replies # Asked
        /\ IF ~Current(s) THEN Finish(s, shown) /\ UNCHANGED recent
           ELSE Remember(l.chat, l.primary.value, turns) /\ Finish(s, display)
    BY <1>2, <1>6 DEF RenderTurns
  <2>2. CASE ~Current(s)
    BY <1>1, <1>3, <1>4, <2>1, <2>2
  <2>3. CASE Current(s)
    <3>1. l.current /\ selected = c /\ shown.chat = c
      BY <1>2, <1>3, <2>1, <2>3 DEF Current, Steers
    <3>2. l.primary # Asked /\ l.primary.value \in Nat /\ l.primary.value <= top[Original]
          /\ l.replies \in StoredSet /\ (l.replies # Absent => Within(l.replies.value, top))
      BY <1>2, <2>1 DEF Says
    <3>3. Within(shown.turns, top)
      BY <1>2, <1>3, <3>1 DEF ShownOK
    <3>4. turns \in Versions /\ Within(turns, top) /\ Within(shown.turns, turns)
      BY <1>3, <3>2, <3>3, RecoverBounded
    <3> HIDE DEF turns
    <3>5. /\ display \in ShownSet /\ display.chat = shown.chat /\ display.turns = turns
          /\ display.of = c
      BY <1>2, <1>3, <3>4 DEF ShownSet
    <3> HIDE DEF display
    <3>6. ShownOK(display, selected)
      BY <1>2, <1>3, <3>1, <3>4, <3>5 DEF ShownOK
    <3>7. recent' \in [Chat -> Versions] /\ \A x \in Chat : Within(recent'[x], saved'[x])
      BY <1>1, <1>2, <2>1, <2>3, <3>2, <3>4, RememberOK
    <3> QED BY <1>4, <2>1, <2>3, <3>4, <3>5, <3>6, <3>7
  <2> QED BY <2>2, <2>3
<1>7. ASSUME NEW b \in BOOLEAN, Render(s, b) PROVE DetailInv' /\ TurnsStay
  <2> DEFINE early == l.fresh /\ b
             stored == IF early THEN l.replies ELSE Absent
             turns == RecoverVisibleTurns(stored, shown.turns, l.primary.value, ~l.fresh)
             display == [chat |-> l.chat, turns |-> turns, of |-> l.chat, error |-> FALSE]
  <2>1. /\ l.primary # Asked /\ ~l.late /\ (b => l.replies # Asked)
        /\ IF ~Current(s) THEN Finish(s, shown) /\ UNCHANGED recent
           ELSE /\ Remember(l.chat, l.primary.value, turns)
                /\ IF early THEN Finish(s, display)
                   ELSE /\ load' = [load EXCEPT ![s].late = TRUE] /\ shown' = display
                        /\ UNCHANGED <<flight, outdated>>
    BY <1>2, <1>7 DEF Render
  <2>2. CASE ~Current(s)
    BY <1>1, <1>3, <1>4, <2>1, <2>2
  <2>3. CASE Current(s)
    <3>1. l.current /\ selected = c /\ (shown.chat = c <=> ~l.fresh) /\ l.fresh \in BOOLEAN
      BY <1>2, <1>3, <2>1, <2>3 DEF Current, Steers, LoadSet
    <3>2. /\ l.primary.value \in Nat /\ l.primary.value <= top[Original]
          /\ stored \in StoredSet /\ (stored # Absent => Within(stored.value, top))
      BY <1>2, <2>1 DEF Says, StoredSet, Absent
    <3>3. ~l.fresh => Within(shown.turns, top)
      BY <1>2, <1>3, <3>1 DEF ShownOK
    <3> HIDE DEF stored
    <3>4. turns \in Versions /\ Within(turns, top) /\ (~l.fresh => Within(shown.turns, turns))
      BY <1>3, <3>1, <3>2, <3>3, RecoverBounded
    <3> HIDE DEF turns
    <3>5. /\ display \in ShownSet /\ display.chat = c /\ display.turns = turns
          /\ display.of = c
      BY <1>2, <3>4 DEF ShownSet
    <3> HIDE DEF display
    <3>6. ShownOK(display, selected)
      BY <1>2, <1>3, <3>1, <3>4, <3>5 DEF ShownOK
    <3>7. recent' \in [Chat -> Versions] /\ \A x \in Chat : Within(recent'[x], saved'[x])
      BY <1>1, <1>2, <2>1, <2>3, <3>2, <3>4, RememberOK
    <3>8. display.chat = shown.chat => Within(shown.turns, display.turns)
      BY <3>1, <3>4, <3>5
    <3>9. CASE early
      BY <1>4, <2>1, <2>3, <3>1, <3>5, <3>6, <3>7, <3>8, <3>9
    <3>10. CASE ~early
      <4>1. /\ load' = [load EXCEPT ![s] = [l EXCEPT !.late = TRUE]] /\ shown' = display
            /\ UNCHANGED <<flight, outdated>>
        <5>1. load \in [Slot -> {Nothing} \cup LoadSet]
          BY DEF DetailInv, LoadsOK
        <5> QED BY <1>2, <2>1, <2>3, <3>10, <5>1
      <4> DEFINE new == [l EXCEPT !.late = TRUE]
      <4>2. /\ new \in LoadSet /\ new.late /\ new.chat = c
            /\ new.current = l.current /\ new.primary = l.primary /\ new.replies = l.replies
        BY <1>2 DEF LoadSet
      <4> HIDE DEF new
      <4>3. Says(new, top)
        BY <1>2, <2>1, <4>2 DEF Says
      <4>4. /\ LoadsOK(load, selected, shown.chat, flight.for)'
            /\ flight'.for # NoChat => \E x \in Slot : load'[x].chat = flight'.for
            /\ NoRefreshIsLost'
        BY <1>1, <1>2, <3>1, <3>5, <4>1, <4>2, <4>3, OneLoad DEF new
      <4>5. TurnsStay
        BY <3>8, <4>1 DEF TurnsStay
      <4> QED BY <1>1, <3>6, <3>7, <4>1, <4>4, <4>5 DEF DetailInv, ShownOK, AheadOK
    <3> QED BY <3>9, <3>10
  <2> QED BY <2>2, <2>3
<1> QED BY <1>5, <1>6, <1>7

\* Reading a chat ahead.
LEMMA Prefetches ==
  ASSUME DetailInv,
         \/ \E c \in Chat : Prefetch(c)
         \/ \E b \in BOOLEAN : AnswerPrefetch(b)
         \/ RememberPrefetch \/ FailPrefetch
  PROVE  DetailInv' /\ TurnsStay
<1>1. /\ UNCHANGED <<saved, selected, shown, flight, load, outdated>>
      /\ ShownOK(shown, selected) /\ saved \in [Chat -> Versions] /\ AheadOK(prefetch)
      /\ recent \in [Chat -> Versions] /\ \A c \in Chat : Within(recent[c], saved[c])
  BY DEF Prefetch, AnswerPrefetch, RememberPrefetch, FailPrefetch, DetailInv
<1>2. TurnsStay
  BY <1>1 DEF TurnsStay, ShownOK, ShownSet, Within, Versions
<1>3. ASSUME /\ AheadOK(prefetch)' /\ recent' \in [Chat -> Versions]
             /\ \A c \in Chat : Within(recent'[c], saved'[c])
      PROVE  DetailInv'
  BY <1>1, <1>3 DEF DetailInv, ShownOK, LoadsOK, NoRefreshIsLost
<1>4. ASSUME NEW c \in Chat, Prefetch(c) PROVE AheadOK(prefetch)' /\ recent' = recent
  <2>1. prefetch' = [chat |-> c, answer |-> Asked] /\ recent' = recent
    BY <1>4 DEF Prefetch
  <2>2. prefetch' \in PrefetchSet /\ prefetch'.answer = Asked
    BY <2>1 DEF PrefetchSet, Asked
  <2> QED BY <2>1, <2>2 DEF AheadOK
<1>5. ASSUME NEW b \in BOOLEAN, AnswerPrefetch(b) PROVE AheadOK(prefetch)' /\ recent' = recent
  <2>1. prefetch \in PrefetchSet /\ recent' = recent
    BY <1>1, <1>5 DEF AnswerPrefetch, AheadOK
  <2>2. PICK c \in Chat, top \in Versions : c = prefetch.chat /\ top = saved[c]
    BY <1>1, <2>1 DEF PrefetchSet
  <2> DEFINE stored == IF b THEN Absent ELSE Answer(top)
             a == [original |-> top[Original], stored |-> stored]
  <2>3. prefetch' = [prefetch EXCEPT !.answer = Answer(a)]
    BY <1>5, <2>2 DEF AnswerPrefetch
  <2>4. stored \in StoredSet /\ (stored # Absent => stored.value = top) /\ top[Original] \in Nat
    BY DEF StoredSet, Answer, Absent, Versions, Turn
  <2>5. a \in AheadSet /\ a.original = top[Original] /\ a.stored = stored
    BY <2>4 DEF AheadSet
  <2> HIDE DEF stored, a
  <2>6. /\ prefetch' \in PrefetchSet /\ prefetch'.chat = c /\ prefetch'.answer.value = a
    BY <2>1, <2>2, <2>3, <2>5 DEF PrefetchSet, Answer
  <2>7. Within(top, top)
    BY DEF Within, Versions
  <2> QED BY <1>1, <2>1, <2>2, <2>4, <2>5, <2>6, <2>7 DEF AheadOK, Versions, Turn
<1>6. CASE RememberPrefetch
  <2>1. /\ prefetch \in PrefetchSet /\ prefetch # Nothing /\ prefetch.answer # Asked
        /\ prefetch' = Nothing
    BY <1>1, <1>6 DEF RememberPrefetch, AheadOK
  <2>2. PICK c \in Chat, top \in Versions, a \in AheadSet :
          c = prefetch.chat /\ top = saved[c] /\ a = prefetch.answer.value
    BY <1>1, <2>1 DEF PrefetchSet, Asked
  <2>3. /\ a.original \in Nat /\ a.stored \in StoredSet
        /\ a.original <= top[Original] /\ (a.stored # Absent => Within(a.stored.value, top))
    <3>1. a.original \in Nat /\ a.stored \in StoredSet
      BY DEF AheadSet
    <3> QED BY <1>1, <2>1, <2>2, <3>1 DEF AheadOK
  <2> DEFINE turns == RecoverVisibleTurns(a.stored, NoTurns, a.original, FALSE)
  <2>4. turns \in Versions /\ Within(turns, top)
    <3>1. NoTurns \in Versions
      BY DEF NoTurns, Versions
    <3> QED BY <2>3, <3>1, RecoverBounded
  <2>5. Remember(c, a.original, turns)
    BY <1>6, <2>2 DEF RememberPrefetch
  <2> HIDE DEF turns
  <2> QED BY <1>1, <1>3, <1>2, <2>1, <2>2, <2>3, <2>4, <2>5, RememberOK DEF AheadOK
<1>7. CASE FailPrefetch
  BY <1>1, <1>2, <1>3, <1>7 DEF FailPrefetch, AheadOK
<1> QED BY <1>1, <1>2, <1>3, <1>4, <1>5, <1>6, <1>7

\* The server's turns only grow, so that what was said of them stays true.
LEMMA Grows ==
  ASSUME DetailInv, NEW c \in Chat, NEW t \in Turn, Progress(c, t)
  PROVE  DetailInv' /\ TurnsStay
<1>1. /\ saved \in [Chat -> Versions] /\ ShownOK(shown, selected) /\ AheadOK(prefetch)
      /\ LoadsOK(load, selected, shown.chat, flight.for)
      /\ recent \in [Chat -> Versions] /\ \A x \in Chat : Within(recent[x], saved[x])
      /\ shown \in ShownSet /\ load \in [Slot -> {Nothing} \cup LoadSet]
      /\ prefetch = Nothing \/ prefetch \in PrefetchSet
  BY DEF DetailInv, ShownOK, AheadOK, LoadsOK
<1>2. /\ saved' = [saved EXCEPT ![c][t] = @ + 1]
      /\ UNCHANGED <<selected, shown, flight, load, recent, prefetch, outdated>>
  BY DEF Progress
<1>3. saved' \in [Chat -> Versions] /\ \A x \in Chat : Within(saved[x], saved'[x])
  BY <1>1, <1>2 DEF Versions, Within
<1>4. ASSUME NEW turns \in Versions, NEW x \in Chat, Within(turns, saved[x])
      PROVE  Within(turns, saved'[x])
  BY <1>1, <1>3, <1>4 DEF Versions, Within
<1>5. ASSUME NEW n \in Nat, NEW x \in Chat, n <= saved[x][Original]
      PROVE  n <= saved'[x][Original]
  BY <1>1, <1>3, <1>5 DEF Versions, Within, Turn
<1>6. ShownOK(shown, selected)'
  BY <1>1, <1>2, <1>4 DEF ShownOK, ShownSet
<1>7. \A x \in Chat : Within(recent'[x], saved'[x])
  BY <1>1, <1>2, <1>4
<1>8. ASSUME NEW s \in Slot, load[s].chat # NoChat
      PROVE  Says(load[s], saved'[load[s].chat])
  <2>1. Flying(s)
    BY <1>8 DEF Flying
  <2>2. /\ Says(load[s], saved[load[s].chat]) /\ load[s].chat \in Chat
        /\ load[s].primary # Asked => load[s].primary.value \in Nat
        /\ load[s].replies # Asked => load[s].replies \in StoredSet
    BY <2>1, LoadFacts
  <2>3. load[s].replies \notin {Asked, Absent} => load[s].replies.value \in Versions
    BY <2>2 DEF StoredSet, Absent
  <2> QED BY <1>4, <1>5, <2>2, <2>3 DEF Says
<1>9. LoadsOK(load, selected, shown.chat, flight.for)'
  BY <1>1, <1>2, <1>8 DEF LoadsOK
<1>10. AheadOK(prefetch)'
  <2> SUFFICES ASSUME prefetch # Nothing, prefetch.answer # Asked
               PROVE  /\ prefetch.answer.value.original <= saved'[prefetch.chat][Original]
                      /\ prefetch.answer.value.stored # Absent
                           => Within(prefetch.answer.value.stored.value, saved'[prefetch.chat])
    BY <1>1, <1>2 DEF AheadOK
  <2>1. prefetch.chat \in Chat /\ prefetch.answer.value \in AheadSet
    BY <1>1 DEF PrefetchSet, Asked
  <2>2. prefetch.answer.value.original \in Nat /\ prefetch.answer.value.stored \in StoredSet
    BY <2>1 DEF AheadSet
  <2>3. prefetch.answer.value.stored # Absent => prefetch.answer.value.stored.value \in Versions
    BY <2>2 DEF StoredSet, Absent
  <2> QED BY <1>1, <1>4, <1>5, <2>1, <2>2, <2>3 DEF AheadOK
<1>11. TurnsStay
  BY <1>1, <1>2 DEF TurnsStay, ShownSet, Within, Versions
<1> QED BY <1>1, <1>2, <1>3, <1>6, <1>7, <1>9, <1>10, <1>11 DEF DetailInv, NoRefreshIsLost

LEMMA NextDetail == DetailInv /\ [DetailNext]_detailVars => DetailInv' /\ TurnsStay
<1> SUFFICES ASSUME DetailInv, [DetailNext]_detailVars PROVE DetailInv' /\ TurnsStay
  OBVIOUS
<1>1. CASE UNCHANGED detailVars
  <2>1. DetailInv'
    BY <1>1 DEF detailVars, DetailInv, ShownOK, AheadOK, LoadsOK, NoRefreshIsLost
  <2> QED BY <1>1, <2>1 DEF detailVars, TurnsStay, DetailInv, ShownOK, ShownSet, Within, Versions
<1>2. CASE DetailNext
  BY <1>2, Selections, Answers, Renders, Prefetches, Grows DEF DetailNext
<1> QED BY <1>1, <1>2

LEMMA DetailInvariant == DetailSpec => []DetailInv
BY InitDetail, NextDetail, PTL DEF DetailSpec

\* Late answers, of the chat that was left or of the one that is back, never mix
\* with what is shown (detailGeneration, selectedRunId).
THEOREM OneChatIsShown == DetailSpec => []ShownIsOneChat
<1>1. DetailInv => ShownIsOneChat
  BY DEF DetailInv, ShownOK, ShownIsOneChat, Within
<1> QED BY <1>1, DetailInvariant, PTL

\* A reload asked for during a load waits for a load that is in flight
\* (detailRefreshFor).
THEOREM RefreshesWait == DetailSpec => []NoRefreshIsLost
<1>1. DetailInv => NoRefreshIsLost
  BY DEF DetailInv
<1> QED BY <1>1, DetailInvariant, PTL

\* No turn on screen vanishes or goes back (recoverVisibleTurns,
\* mergeConfirmedTurns).
THEOREM TurnsAreKept == DetailSpec => TurnsNeverVanish
<1>1. ASSUME DetailInv, DetailInv', [DetailNext]_detailVars
      PROVE  [selected' = selected /\ shown'.chat = shown.chat
                => \A t \in Turn : shown'.turns[t] >= shown.turns[t]]_detailVars
  <2>1. TurnsStay
    BY <1>1, NextDetail
  <2>2. shown.turns \in Versions /\ shown'.turns \in Versions
    BY <1>1 DEF DetailInv, ShownOK, ShownSet
  <2> QED BY <2>1, <2>2 DEF TurnsStay, Within, Versions
<1> QED BY <1>1, DetailInvariant, PTL DEF DetailSpec, TurnsNeverVanish

(****************************************************************************)
(* The list of chats.                                                       *)
(****************************************************************************)

\* The stamps of some chats
Stamps  == UNION {[R -> Nat] : R \in SUBSET Run}
PageSet == [rows : Stamps, total : Nat]
ListSet == [rows : Stamps, total : Nat, next : Nat, search : Query, error : BOOLEAN,
            busy : BOOLEAN, pending : BOOLEAN, loadingMore : BOOLEAN, loading : BOOLEAN]

FirstAsked  == [phase : {"asked"}, reset : BOOLEAN, search : Query]
FirstServed == [phase : {"served"}, reset : BOOLEAN, page : PageSet, at : Nat,
                changed : SUBSET Run]
MoreAsked   == [phase : {"asked"}, offset : Nat, search : Query]
MoreServed  == [phase : {"served"}, offset : Nat, page : PageSet]

ListTypeOK ==
  /\ activity \in [Run -> Nat] /\ clock \in Nat /\ seen \in Nat /\ whole \in BOOLEAN
  /\ list \in ListSet
  /\ first \in {NoRead} \cup FirstAsked \cup FirstServed
  /\ more \in {NoRead} \cup MoreAsked \cup MoreServed
  /\ frames \in [own : BOOLEAN, old : BOOLEAN]

\* No two activities have one stamp, and none is of the future.
StampsDiffer ==
  /\ \A r, s \in Run : r # s /\ activity[r] = activity[s] => activity[r] = 0
  /\ \A r \in Run : activity[r] <= clock
  /\ seen <= clock /\ (first.phase = "served" => first.at <= clock)

\* With the activities a, the chats that are listed before r, which only become more while r does not move
Above(a, q, r) == {s \in Matching[q] : a[s] > a[r]}
Ranks(a, q, r, n) == Cardinality(Above(a, q, r)) < n

\* What is found and did not move since
Still(a, q, since) == {r \in Matching[q] : 0 < a[r] /\ a[r] <= since}

Known(a, r, rows) == r \in DOMAIN rows /\ rows[r] = a[r]

\* Rows are chats that are found, with stamps they had, the last if they did not move.
RowsWere(a, q, rows, since) ==
  /\ DOMAIN rows \subseteq Matching[q]
  /\ \A r \in DOMAIN rows : 0 < rows[r] /\ rows[r] <= a[r]
  /\ \A r \in DOMAIN rows : a[r] <= since => rows[r] = a[r]

\* A chat that did not move since the last first page is listed, if it ranks before
\* the place at which the next page starts.
Covers(a, q, rows, next, since) ==
  /\ RowsWere(a, q, rows, since)
  /\ \A r \in Still(a, q, since) : Ranks(a, q, r, next) => Known(a, r, rows)

\* A first page knows who ranks on it, everybody if they are few enough, and who moved
\* since the page before, if those were.
FirstCovers(a, q, page, at, since, changed) ==
  /\ RowsWere(a, q, page.rows, at) /\ Cardinality(DOMAIN page.rows) <= PageSize
  /\ \A r \in Still(a, q, at) :
       \/ Ranks(a, q, r, PageSize) \/ page.total <= PageSize
       \/ a[r] > since /\ Cardinality(changed) <= PageSize
       => Known(a, r, page.rows)

\* With an older page, who ranks before its end is on it or was listed before.
MoreCovers(a, q, rows, page, offset, since) ==
  /\ RowsWere(a, q, page.rows, since)
  /\ \A r \in Still(a, q, since) :
       Ranks(a, q, r, offset + Cardinality(DOMAIN page.rows)) => Known(a, r, rows) \/ Known(a, r, page.rows)

ListIsWhole == whole => Covers(activity, list.search, list.rows, list.next, seen)

FirstSays ==
  /\ first.phase = "asked" => first.search = list.search
  /\ first.phase = "served" =>
       FirstCovers(activity, list.search, first.page, first.at, seen, first.changed)

MoreSays ==
  whole =>
    /\ more.phase = "asked" => more.search = list.search /\ more.offset = list.next
    /\ more.phase = "served" => MoreCovers(activity, list.search, list.rows, more.page, more.offset, seen)

ListInv == ListTypeOK /\ StampsDiffer /\ ListIsWhole /\ FirstSays /\ MoreSays

LEMMA MatchingIsFinite ==
  /\ "" \in Query
  /\ \A q \in Query : Matching[q] \subseteq Run /\ IsFiniteSet(Matching[q])
<1>1. "" \in Query /\ Matching \in [Query -> SUBSET Run] /\ IsFiniteSet(Run)
  BY ListAssumption
<1> QED BY <1>1, FS_Subset

LEMMA PageSizeIs == PageSize \in Nat /\ PageSize > 0
<1>1. PageSize \in Nat \ {0}
  BY ListAssumption
<1> QED BY <1>1

\* Less than a bound holds of what is contained.
LEMMA FewerRank ==
  ASSUME NEW T, IsFiniteSet(T), NEW S \in SUBSET T
  PROVE  /\ IsFiniteSet(S) /\ Cardinality(S) \in Nat /\ Cardinality(T) \in Nat
         /\ Cardinality(S) <= Cardinality(T)
BY FS_Subset, FS_CardinalityType

LEMMA LeastOfSet ==
  ASSUME NEW S \in SUBSET Nat, S # {}
  PROVE  \E m \in S : \A n \in S : m <= n
<1>1. PICK m \in S : \A n \in S : <<n, m>> \notin OpToRel(<, Nat)
  BY WFMin, NatLessThanWellFounded, Zenon
<1>2. \A n \in S : ~(n < m)
  <2>1. \A n \in Nat : n < m => <<n, m>> \in OpToRel(<, Nat)
    BY <1>1, Zenon DEF OpToRel
  <2> QED BY <1>1, <2>1
<1>3. \A n \in S : m <= n
  <2>1. \A n \in S : n \in Nat /\ m \in Nat
    OBVIOUS
  <2> QED BY <1>2, <2>1
<1> QED BY <1>3

\* Some chats have an oldest and a latest.
LEMMA Extremes ==
  ASSUME NEW S, S # {}, NEW f \in [S -> Nat], NEW c \in Nat, \A r \in S : f[r] <= c
  PROVE  \E low, high \in S : \A r \in S : f[low] <= f[r] /\ f[r] <= f[high]
<1>1. PICK low \in S : \A r \in S : f[low] <= f[r]
  <2> DEFINE V == {f[r] : r \in S}
  <2>1. V \in SUBSET Nat /\ V # {}
    OBVIOUS
  <2>2. PICK m \in V : \A n \in V : m <= n
    BY <2>1, LeastOfSet
  <2> QED BY <2>2
<1>2. PICK high \in S : \A r \in S : c - f[high] <= c - f[r]
  <2> DEFINE V == {c - f[r] : r \in S}
  <2>1. V \in SUBSET Nat /\ V # {}
    OBVIOUS
  <2>2. PICK m \in V : \A n \in V : m <= n
    BY <2>1, LeastOfSet
  <2> QED BY <2>2
<1>3. \A r \in S : f[r] <= f[high]
  <2>1. \A r \in S : f[r] \in Nat
    OBVIOUS
  <2> QED BY <1>2, <2>1
<1> QED BY <1>1, <1>3

\* The rows that a page of the server may hold, and how many these are: stamps differ,
\* so that no two of them rank alike.
OnPage(q, from, to) ==
  {r \in Matching[q] : activity[r] > 0 /\ Ranks(activity, q, r, to) /\ ~Ranks(activity, q, r, from)}

LEMMA PageFits ==
  ASSUME ListTypeOK, StampsDiffer, NEW q \in Query, NEW from \in Nat
  PROVE  /\ IsFiniteSet(OnPage(q, from, from + PageSize))
         /\ Cardinality(OnPage(q, from, from + PageSize)) <= PageSize
<1> DEFINE M == OnPage(q, from, from + PageSize)
<1>1. /\ Matching[q] \subseteq Run /\ IsFiniteSet(Matching[q]) /\ M \subseteq Matching[q]
      /\ PageSize \in Nat /\ clock \in Nat /\ activity \in [Run -> Nat]
  BY MatchingIsFinite, ListAssumption DEF OnPage, ListTypeOK
<1>2. IsFiniteSet(M) /\ Cardinality(M) \in Nat
  BY <1>1, FewerRank
<1>3. CASE M = {}
  <2>1. IsFiniteSet({}) /\ Cardinality({}) = 0 /\ 0 <= PageSize
    BY <1>1, FS_EmptySet
  <2> QED BY <1>3, <2>1
<1>4. CASE M # {}
  <2>1. PICK low, high \in M :
          \A r \in M : activity[low] <= activity[r] /\ activity[r] <= activity[high]
    <3> DEFINE f == [r \in M |-> activity[r]]
    <3>1. f \in [M -> Nat] /\ \A r \in M : f[r] <= clock
      BY <1>1 DEF StampsDiffer
    <3>2. PICK S, g : S = M /\ g = f
      OBVIOUS
    <3>3. g \in [S -> Nat] /\ (\A r \in S : g[r] <= clock) /\ S # {} /\ clock \in Nat
      BY <1>1, <1>4, <3>1, <3>2
    <3>4. PICK low, high \in S : \A r \in S : g[low] <= g[r] /\ g[r] <= g[high]
      BY ONLY <3>3, Extremes
    <3>5. low \in M /\ high \in M /\ \A r \in M : g[r] = activity[r]
      BY <3>2
    <3> QED BY <3>2, <3>4, <3>5
  <2> DEFINE A == Above(activity, q, high)  B == M \ {low}
  <2>2. /\ A \in SUBSET Matching[q] /\ B \in SUBSET M /\ Above(activity, q, low) \in SUBSET Matching[q]
        /\ low \in Matching[q] /\ high \in Matching[q]
    BY <1>1, <2>1 DEF Above
  <2>3. /\ IsFiniteSet(A) /\ IsFiniteSet(B) /\ IsFiniteSet(Above(activity, q, low))
        /\ Cardinality(A) \in Nat /\ Cardinality(B) \in Nat /\ Cardinality(Above(activity, q, low)) \in Nat
    BY <1>1, <1>2, <2>2, FewerRank
  <2>4. A \cap B = {}
    <3>1. \A r \in M : activity[r] \in Nat /\ activity[high] \in Nat /\ ~(activity[r] > activity[high])
      BY <1>1, <2>1
    <3> QED BY <3>1 DEF Above
  <2>5. A \cup B \in SUBSET Above(activity, q, low)
    <3>1. \A r \in A : activity[r] > activity[low]
      <4>1. \A r \in A : activity[r] \in Nat /\ activity[high] \in Nat /\ activity[low] \in Nat
                         /\ activity[r] > activity[high] /\ activity[low] <= activity[high]
        BY <1>1, <2>1, <2>2 DEF Above
      <4> QED BY <4>1
    <3>2. \A r \in B : activity[r] > activity[low]
      <4>1. \A r \in B : activity[r] \in Nat /\ activity[low] \in Nat /\ activity[r] > 0
                         /\ activity[low] <= activity[r] /\ activity[r] # activity[low]
        BY <1>1, <2>1, <2>2 DEF OnPage, StampsDiffer
      <4> QED BY <4>1
    <3> QED BY <1>1, <2>2, <3>1, <3>2 DEF Above
  <2>6. Cardinality(A \cup B) = Cardinality(A) + Cardinality(B)
    BY <2>3, <2>4, FS_Union, FS_EmptySet
  <2>7. Cardinality(A \cup B) <= Cardinality(Above(activity, q, low))
    BY <2>3, <2>5, FewerRank
  <2>8. Cardinality(B) = Cardinality(M) - 1
    BY <1>2, <2>1, FS_RemoveElement
  <2>9. Cardinality(Above(activity, q, low)) < from + PageSize /\ ~(Cardinality(A) < from)
    BY <2>1 DEF OnPage, Ranks
  <2> HIDE DEF A, B, M
  <2>10. Cardinality(A) + Cardinality(M) - 1 < from + PageSize
    BY <1>1, <1>2, <2>3, <2>6, <2>7, <2>8, <2>9
  <2>11. Cardinality(M) <= PageSize
    BY <1>1, <1>2, <2>3, <2>9, <2>10
  <2> QED BY <1>2, <2>11 DEF M
<1> QED BY <1>2, <1>3, <1>4

\* What the server answers
LEMMA PageIs ==
  ASSUME ListTypeOK, StampsDiffer, NEW q \in Query, NEW offset \in Nat
  PROVE  \E rows \in Stamps, total \in Nat :
           /\ Page(q, offset) = [rows |-> rows, total |-> total]
           /\ DOMAIN rows = OnPage(q, offset, offset + PageSize)
           /\ \A r \in DOMAIN rows : rows[r] = activity[r]
           /\ Cardinality(DOMAIN rows) <= PageSize
           /\ total = Cardinality({r \in Matching[q] : activity[r] > 0})
<1> DEFINE found == Found(q)
           D == {r \in Matching[q] : activity[r] > 0}
<1>1. /\ Matching[q] \subseteq Run /\ IsFiniteSet(Matching[q]) /\ PageSize \in Nat
      /\ activity \in [Run -> Nat]
  BY MatchingIsFinite, ListAssumption DEF ListTypeOK
<1>2. DOMAIN found = D /\ \A r \in D : found[r] = activity[r]
  BY DEF Found, Restrict
<1>3. \A r \in D : {s \in DOMAIN found : found[s] > found[r]} = Above(activity, q, r)
  <2> SUFFICES ASSUME NEW r \in D PROVE {s \in DOMAIN found : found[s] > found[r]} = Above(activity, q, r)
    OBVIOUS
  <2>1. \A s \in Matching[q] : activity[s] \in Nat /\ activity[r] \in Nat
    BY <1>1
  <2>2. \A s \in Matching[q] : activity[s] > activity[r] => s \in D
    BY <2>1
  <2> QED BY <1>2, <2>2 DEF Above
<1>4. ASSUME NEW n \in Nat
      PROVE  /\ DOMAIN Top(found, n) = {r \in D : Ranks(activity, q, r, n)}
             /\ \A r \in DOMAIN Top(found, n) : Top(found, n)[r] = activity[r]
  <2> DEFINE T == {r \in DOMAIN found :
                     Cardinality({s \in DOMAIN found : found[s] > found[r]}) < n}
  <2>1. T = {r \in D : Ranks(activity, q, r, n)}
    BY <1>2, <1>3 DEF Ranks
  <2>2. Top(found, n) = [r \in T |-> found[r]]
    BY DEF Top, Restrict
  <2> QED BY <1>2, <2>1, <2>2
<1> DEFINE upTo == Top(found, offset + PageSize)
           skip == DOMAIN Top(found, offset)
           rows == Restrict(upTo, DOMAIN upTo \ skip)
           total == Cardinality(DOMAIN found)
<1>5. Page(q, offset) = [rows |-> rows, total |-> total]
  BY DEF Page
<1>6. /\ DOMAIN upTo = {r \in D : Ranks(activity, q, r, offset + PageSize)}
      /\ skip = {r \in D : Ranks(activity, q, r, offset)}
      /\ \A r \in DOMAIN upTo : upTo[r] = activity[r]
  <2>1. offset \in Nat /\ offset + PageSize \in Nat
    BY <1>1
  <2> QED BY <1>4, <2>1
<1> HIDE DEF upTo, skip, found
<1>7. /\ DOMAIN rows = OnPage(q, offset, offset + PageSize)
      /\ \A r \in DOMAIN rows : rows[r] = activity[r]
  <2>1. rows = [r \in DOMAIN upTo \ skip |-> upTo[r]]
    BY DEF Restrict
  <2>2. DOMAIN upTo \ skip = OnPage(q, offset, offset + PageSize)
    BY <1>6 DEF OnPage
  <2> QED BY <1>6, <2>1, <2>2
<1>8. rows \in Stamps
  <2>1. rows \in [DOMAIN rows -> Nat] /\ DOMAIN rows \in SUBSET Run
    <3>1. rows = [r \in DOMAIN rows |-> rows[r]]
      BY DEF Restrict
    <3>2. DOMAIN rows \in SUBSET Run
      BY <1>1, <1>7 DEF OnPage
    <3>3. \A r \in DOMAIN rows : rows[r] \in Nat
      BY <1>1, <1>7, <3>2
    <3> QED BY <3>1, <3>2, <3>3
  <2> QED BY <2>1 DEF Stamps
<1>9. total \in Nat /\ total = Cardinality(D)
  BY <1>1, <1>2, FewerRank
<1> QED BY <1>5, <1>7, <1>8, <1>9, PageFits

Moved(a, b, c, s) ==
  /\ a \in [Run -> Nat] /\ c \in Nat /\ s \in Run /\ \A r \in Run : a[r] <= c
  /\ b = [a EXCEPT ![s] = c + 1]

\* A chat that moves on top of the list changes no rank before the others', and what was
\* known of the others stays known.
LEMMA Moves ==
  ASSUME NEW a, NEW b, NEW c, NEW s, Moved(a, b, c, s),
         NEW q \in Query, NEW since \in Nat, since <= c
  PROVE  /\ \A r \in Still(b, q, since) :
              /\ r \in Still(a, q, since) /\ b[r] = a[r]
              /\ \A n \in Nat : Ranks(b, q, r, n) => Ranks(a, q, r, n)
         /\ \A rows \in Stamps : RowsWere(a, q, rows, since) => RowsWere(b, q, rows, since)
<1>0. /\ a \in [Run -> Nat] /\ c \in Nat /\ s \in Run /\ (\A r \in Run : a[r] <= c)
      /\ b = [a EXCEPT ![s] = c + 1]
  BY DEF Moved
<1>1. /\ Matching[q] \subseteq Run /\ IsFiniteSet(Matching[q]) /\ b \in [Run -> Nat]
      /\ \A r \in Run : r # s => b[r] = a[r]
      /\ b[s] = c + 1 /\ \A r \in Run : a[r] \in Nat /\ a[r] <= b[r]
  <2>1. Matching[q] \subseteq Run /\ IsFiniteSet(Matching[q])
    BY MatchingIsFinite
  <2>2. /\ b \in [Run -> Nat] /\ b[s] = c + 1
        /\ \A r \in Run : r # s => b[r] = a[r]
    BY <1>0
  <2>3. \A r \in Run : a[r] \in Nat /\ a[r] <= c
    BY <1>0
  <2>4. \A r \in Run : a[r] <= b[r]
    BY <1>0, <2>2, <2>3
  <2> QED BY <2>1, <2>2, <2>3, <2>4
<1>2. ASSUME NEW r \in Still(b, q, since)
      PROVE  r # s /\ r \in Still(a, q, since) /\ b[r] = a[r]
  <2>1. r # s
    BY <1>0, <1>1 DEF Still
  <2> QED BY <1>1, <2>1 DEF Still
<1>3. ASSUME NEW r \in Still(b, q, since), NEW n \in Nat, Ranks(b, q, r, n)
      PROVE  Ranks(a, q, r, n)
  <2>1. Above(a, q, r) \in SUBSET Above(b, q, r) /\ Above(b, q, r) \in SUBSET Matching[q]
    <3>1. \A x \in Matching[q] : a[x] > a[r] => b[x] > b[r]
      <4>1. \A x \in Matching[q] : a[x] \in Nat /\ b[x] \in Nat /\ a[r] \in Nat /\ a[x] <= b[x] /\ b[r] = a[r]
        BY <1>1, <1>2 DEF Still
      <4> QED BY <4>1
    <3> QED BY <3>1 DEF Above
  <2>2. IsFiniteSet(Above(b, q, r))
    BY <1>1, <2>1, FewerRank
  <2>3. /\ Cardinality(Above(a, q, r)) <= Cardinality(Above(b, q, r))
        /\ Cardinality(Above(a, q, r)) \in Nat /\ Cardinality(Above(b, q, r)) \in Nat
    BY <2>1, <2>2, FewerRank
  <2> QED BY <1>3, <2>3 DEF Ranks
<1>4. ASSUME NEW rows \in Stamps, RowsWere(a, q, rows, since) PROVE RowsWere(b, q, rows, since)
  <2>1. rows \in [DOMAIN rows -> Nat] /\ DOMAIN rows \subseteq Matching[q]
    BY <1>4 DEF Stamps, RowsWere
  <2>2. ASSUME NEW r \in DOMAIN rows
        PROVE  /\ 0 < rows[r] /\ rows[r] <= b[r]
               /\ b[r] <= since => rows[r] = b[r]
    <3>1. /\ 0 < rows[r] /\ rows[r] <= a[r] /\ rows[r] \in Nat /\ r \in Run
          /\ a[r] <= since => rows[r] = a[r]
      BY <1>1, <1>4, <2>1 DEF RowsWere
    <3>2. a[r] \in Nat /\ b[r] \in Nat /\ a[r] <= b[r] /\ (r # s => b[r] = a[r]) /\ b[s] = c + 1
      BY <1>1, <3>1
    <3> QED BY <1>0, <3>1, <3>2
  <2> QED BY <2>1, <2>2 DEF RowsWere
<1> QED BY <1>2, <1>3, <1>4

LEMMA RowsOf ==
  ASSUME NEW rows \in Stamps
  PROVE  /\ rows \in [DOMAIN rows -> Nat] /\ DOMAIN rows \in SUBSET Run
         /\ IsFiniteSet(DOMAIN rows) /\ Cardinality(DOMAIN rows) \in Nat
<1>1. rows \in [DOMAIN rows -> Nat] /\ DOMAIN rows \in SUBSET Run
  BY DEF Stamps
<1> QED BY <1>1, ListAssumption, FewerRank

LEMMA MovesCover ==
  ASSUME NEW a, NEW b, NEW c, NEW s, Moved(a, b, c, s),
         NEW q \in Query, NEW since \in Nat, since <= c,
         NEW rows \in Stamps, NEW n \in Nat, NEW page \in PageSet, NEW at \in Nat, NEW changed
  PROVE  /\ Covers(a, q, rows, n, since) => Covers(b, q, rows, n, since)
         /\ FirstCovers(a, q, page, since, at, changed) => FirstCovers(b, q, page, since, at, changed)
         /\ MoreCovers(a, q, rows, page, n, since) => MoreCovers(b, q, rows, page, n, since)
<1>1. /\ \A r \in Still(b, q, since) :
           /\ r \in Still(a, q, since) /\ b[r] = a[r]
           /\ \A m \in Nat : Ranks(b, q, r, m) => Ranks(a, q, r, m)
      /\ RowsWere(a, q, rows, since) => RowsWere(b, q, rows, since)
      /\ RowsWere(a, q, page.rows, since) => RowsWere(b, q, page.rows, since)
  <2>1. PICK new \in Stamps : new = page.rows
    BY DEF PageSet
  <2>2. /\ \A r \in Still(b, q, since) :
             /\ r \in Still(a, q, since) /\ b[r] = a[r]
             /\ \A m \in Nat : Ranks(b, q, r, m) => Ranks(a, q, r, m)
        /\ \A x \in Stamps : RowsWere(a, q, x, since) => RowsWere(b, q, x, since)
    BY Moves
  <2> QED BY <2>1, <2>2
<1>2. PageSize \in Nat /\ n + Cardinality(DOMAIN page.rows) \in Nat
  <2>1. page.rows \in Stamps
    BY DEF PageSet
  <2>2. Cardinality(DOMAIN page.rows) \in Nat
    BY <2>1, RowsOf
  <2> QED BY <2>2, PageSizeIs
<1>3. Covers(a, q, rows, n, since) => Covers(b, q, rows, n, since)
  BY <1>1 DEF Covers, Known
<1>4. FirstCovers(a, q, page, since, at, changed) => FirstCovers(b, q, page, since, at, changed)
  BY <1>1, <1>2 DEF FirstCovers, Known
<1>5. MoreCovers(a, q, rows, page, n, since) => MoreCovers(b, q, rows, page, n, since)
  BY <1>1, <1>2 DEF MoreCovers, Known
<1> QED BY <1>3, <1>4, <1>5

LEMMA RankIsNat ==
  ASSUME NEW q \in Query, NEW a, NEW r
  PROVE  Cardinality(Above(a, q, r)) \in Nat
BY MatchingIsFinite, FewerRank DEF Above

\* The first page, when it is served
LEMMA FirstIsServed ==
  ASSUME ListTypeOK, StampsDiffer, NEW q \in Query, NEW changed,
         changed = {r \in Matching[q] : activity[r] > seen}
  PROVE  Page(q, 0) \in PageSet /\ FirstCovers(activity, q, Page(q, 0), clock, seen, changed)
<1>1. PICK rows \in Stamps, total \in Nat :
        /\ Page(q, 0) = [rows |-> rows, total |-> total]
        /\ DOMAIN rows = OnPage(q, 0, 0 + PageSize)
        /\ \A r \in DOMAIN rows : rows[r] = activity[r]
        /\ Cardinality(DOMAIN rows) <= PageSize
        /\ total = Cardinality({r \in Matching[q] : activity[r] > 0})
  BY PageIs
<1>2. PICK page : page = Page(q, 0)
  OBVIOUS
<1>3. page \in PageSet /\ page.rows = rows /\ page.total = total
  BY <1>1, <1>2 DEF PageSet
<1>4. /\ Matching[q] \subseteq Run /\ IsFiniteSet(Matching[q]) /\ PageSize \in Nat /\ PageSize > 0
      /\ \A r \in Matching[q] : activity[r] \in Nat /\ activity[r] <= clock
      /\ seen \in Nat /\ clock \in Nat
  <2>1. Matching[q] \subseteq Run /\ IsFiniteSet(Matching[q])
    BY MatchingIsFinite
  <2>2. PageSize \in Nat /\ PageSize > 0
    BY PageSizeIs
  <2>3. activity \in [Run -> Nat] /\ seen \in Nat /\ clock \in Nat
    BY DEF ListTypeOK
  <2> QED BY <2>1, <2>2, <2>3 DEF StampsDiffer
<1>5. RowsWere(activity, q, rows, clock)
  <2>1. \A r \in DOMAIN rows : r \in Matching[q] /\ activity[r] > 0
    BY <1>1 DEF OnPage
  <2>2. \A r \in DOMAIN rows : 0 < rows[r] /\ rows[r] <= activity[r]
    BY <1>1, <1>4, <2>1
  <2> QED BY <1>1, <2>1, <2>2 DEF RowsWere
<1>6. ASSUME NEW r \in Still(activity, q, clock), Ranks(activity, q, r, PageSize)
      PROVE  Known(activity, r, rows)
  <2>1. 0 + PageSize = PageSize /\ r \in Matching[q] /\ activity[r] > 0 /\ activity[r] \in Nat
    BY <1>4 DEF Still
  <2>2. ~Ranks(activity, q, r, 0)
    BY RankIsNat DEF Ranks
  <2>3. r \in DOMAIN rows
    BY <1>1, <1>6, <2>1, <2>2 DEF OnPage
  <2> QED BY <1>1, <2>3 DEF Known
<1>7. ASSUME NEW r \in Still(activity, q, clock), NEW S, r \in S, S \in SUBSET Matching[q],
             Cardinality(S) <= PageSize, Above(activity, q, r) \subseteq S
      PROVE  Ranks(activity, q, r, PageSize)
  <2>1. Above(activity, q, r) \in SUBSET (S \ {r})
    <3>1. r \notin Above(activity, q, r)
      <4>1. activity[r] \in Nat
        BY <1>4 DEF Still
      <4> QED BY <4>1 DEF Above
    <3> QED BY <1>7, <3>1
  <2>2. IsFiniteSet(S) /\ Cardinality(S) \in Nat
    BY <1>4, <1>7, FewerRank
  <2>3. IsFiniteSet(S \ {r}) /\ Cardinality(S \ {r}) = Cardinality(S) - 1
    BY <1>7, <2>2, FS_RemoveElement
  <2>4. Cardinality(Above(activity, q, r)) <= Cardinality(S \ {r}) /\ Cardinality(Above(activity, q, r)) \in Nat
    BY <2>1, <2>3, FewerRank
  <2> QED BY <1>4, <1>7, <2>2, <2>3, <2>4 DEF Ranks
<1>8. ASSUME NEW r \in Still(activity, q, clock), total <= PageSize PROVE Ranks(activity, q, r, PageSize)
  <2> DEFINE S == {x \in Matching[q] : activity[x] > 0}
  <2>1. r \in S /\ S \in SUBSET Matching[q] /\ Above(activity, q, r) \subseteq S
    <3>1. activity[r] \in Nat /\ activity[r] > 0 /\ r \in Matching[q]
      BY <1>4 DEF Still
    <3> QED BY <1>4, <3>1 DEF Above
  <2> QED BY <1>1, <1>7, <1>8, <2>1
<1>9. ASSUME NEW r \in Still(activity, q, clock), activity[r] > seen, Cardinality(changed) <= PageSize
      PROVE  Ranks(activity, q, r, PageSize)
  <2>1. r \in changed /\ changed \in SUBSET Matching[q] /\ Above(activity, q, r) \subseteq changed
    <3>1. activity[r] \in Nat /\ r \in Matching[q]
      BY <1>4 DEF Still
    <3> QED BY <1>4, <1>9, <3>1 DEF Above
  <2> QED BY <1>7, <1>9, <2>1
<1>10. FirstCovers(activity, q, page, clock, seen, changed)
  BY <1>1, <1>3, <1>5, <1>6, <1>8, <1>9 DEF FirstCovers
<1> QED BY <1>2, <1>3, <1>10

\* An older page, when it is served
LEMMA MoreIsServed ==
  ASSUME ListTypeOK, StampsDiffer, NEW q \in Query, NEW offset \in Nat
  PROVE  /\ Page(q, offset) \in PageSet
         /\ \A rows : Covers(activity, q, rows, offset, seen) =>
              MoreCovers(activity, q, rows, Page(q, offset), offset, seen)
<1>1. PICK new \in Stamps, total \in Nat :
        /\ Page(q, offset) = [rows |-> new, total |-> total]
        /\ DOMAIN new = OnPage(q, offset, offset + PageSize)
        /\ \A r \in DOMAIN new : new[r] = activity[r]
        /\ Cardinality(DOMAIN new) <= PageSize
  BY PageIs
<1>2. PICK page : page = Page(q, offset)
  OBVIOUS
<1>3. page \in PageSet /\ page.rows = new
  BY <1>1, <1>2 DEF PageSet
<1>4. /\ PageSize \in Nat /\ Cardinality(DOMAIN new) \in Nat
      /\ \A r \in Matching[q] : activity[r] \in Nat
  BY MatchingIsFinite, ListAssumption, RowsOf DEF ListTypeOK
<1>5. RowsWere(activity, q, new, seen)
  <2>1. \A r \in DOMAIN new : r \in Matching[q] /\ activity[r] > 0
    BY <1>1 DEF OnPage
  <2>2. \A r \in DOMAIN new : 0 < new[r] /\ new[r] <= activity[r]
    BY <1>1, <1>4, <2>1
  <2> QED BY <1>1, <2>1, <2>2 DEF RowsWere
<1>6. ASSUME NEW rows, Covers(activity, q, rows, offset, seen), NEW r \in Still(activity, q, seen),
             Ranks(activity, q, r, offset + Cardinality(DOMAIN new))
      PROVE  Known(activity, r, rows) \/ Known(activity, r, new)
  <2>1. CASE Ranks(activity, q, r, offset)
    BY <1>6, <2>1 DEF Covers
  <2>2. CASE ~Ranks(activity, q, r, offset)
    <3>1. Ranks(activity, q, r, offset + PageSize)
      BY <1>1, <1>4, <1>6, RankIsNat DEF Ranks
    <3>2. r \in DOMAIN new
      BY <1>1, <2>2, <3>1 DEF OnPage, Still
    <3> QED BY <1>1, <3>2 DEF Known
  <2> QED BY <2>1, <2>2
<1>7. \A rows : Covers(activity, q, rows, offset, seen) =>
              MoreCovers(activity, q, rows, page, offset, seen)
  BY <1>3, <1>5, <1>6 DEF MoreCovers
<1> QED BY <1>2, <1>3, <1>7

LEMMA NoRows == <<>> \in Stamps /\ DOMAIN <<>> = {}
<1>1. <<>> \in [{} -> Nat]
  OBVIOUS
<1>2. {} \in SUBSET Run
  OBVIOUS
<1> QED BY <1>1, <1>2 DEF Stamps

LEMMA TopOf ==
  ASSUME NEW m \in Stamps, NEW n
  PROVE  /\ Top(m, n) \in Stamps /\ DOMAIN Top(m, n) \subseteq DOMAIN m
         /\ \A r \in DOMAIN Top(m, n) : Top(m, n)[r] = m[r]
         /\ \A r \in DOMAIN m : Cardinality({s \in DOMAIN m : m[s] > m[r]}) < n =>
              r \in DOMAIN Top(m, n)
<1> DEFINE T == {r \in DOMAIN m : Cardinality({s \in DOMAIN m : m[s] > m[r]}) < n}
<1>1. Top(m, n) = [r \in T |-> m[r]]
  BY DEF Top, Restrict
<1>2. m \in [DOMAIN m -> Nat] /\ DOMAIN m \in SUBSET Run
  BY RowsOf
<1>3. [r \in T |-> m[r]] \in [T -> Nat] /\ T \in SUBSET Run
  BY <1>2
<1> QED BY <1>1, <1>3 DEF Stamps

\* Who ranks before a place is among the latest up to there, if those who are listed
\* were once as they are listed.
LEMMA TopKeeps ==
  ASSUME NEW a \in [Run -> Nat], NEW q \in Query, NEW m \in Stamps, NEW n \in Nat,
         NEW upTo \in Nat, n <= upTo,
         DOMAIN m \subseteq Matching[q], \A r \in DOMAIN m : m[r] <= a[r],
         NEW r, Known(a, r, m), Ranks(a, q, r, n)
  PROVE  Known(a, r, Top(m, upTo))
<1> DEFINE S == {s \in DOMAIN m : m[s] > m[r]}
<1>1. m \in [DOMAIN m -> Nat] /\ Matching[q] \subseteq Run /\ IsFiniteSet(Matching[q])
  BY RowsOf, MatchingIsFinite
<1>2. S \in SUBSET Above(a, q, r) /\ Above(a, q, r) \in SUBSET Matching[q]
  <2>1. ASSUME NEW s \in DOMAIN m, m[s] > m[r] PROVE a[s] > a[r]
    <3>1. m[s] \in Nat /\ a[s] \in Nat /\ a[r] \in Nat /\ m[s] <= a[s] /\ m[r] = a[r]
      BY <1>1 DEF Known
    <3> QED BY <2>1, <3>1
  <2> QED BY <2>1 DEF Above
<1>3. IsFiniteSet(Above(a, q, r))
  BY <1>1, <1>2, FewerRank
<1>4. /\ Cardinality(S) <= Cardinality(Above(a, q, r))
      /\ Cardinality(S) \in Nat /\ Cardinality(Above(a, q, r)) \in Nat
  BY <1>2, <1>3, FewerRank
<1>5. Cardinality(S) < upTo
  BY <1>4 DEF Ranks
<1>6. r \in DOMAIN m /\ r \in DOMAIN Top(m, upTo)
  BY <1>5, TopOf DEF Known
<1> QED BY <1>6, TopOf DEF Known

LEMMA UpdatedIs ==
  ASSUME NEW rows \in Stamps, NEW new \in Stamps
  PROVE  /\ Updated(rows, new) \in Stamps
         /\ DOMAIN Updated(rows, new) = DOMAIN rows \cup DOMAIN new
         /\ \A r \in DOMAIN new : Updated(rows, new)[r] = new[r]
         /\ \A r \in DOMAIN rows \ DOMAIN new : Updated(rows, new)[r] = rows[r]
<1>1. /\ rows \in [DOMAIN rows -> Nat] /\ DOMAIN rows \in SUBSET Run
      /\ new \in [DOMAIN new -> Nat] /\ DOMAIN new \in SUBSET Run
  BY RowsOf
<1>2. Updated(rows, new) \in [DOMAIN rows \cup DOMAIN new -> Nat]
  BY <1>1 DEF Updated
<1>3. DOMAIN rows \cup DOMAIN new \in SUBSET Run
  BY <1>1
<1> QED BY <1>1, <1>2, <1>3 DEF Updated, Stamps

\* What was right of either is right of both.
LEMMA UpdatedWere ==
  ASSUME NEW a \in [Run -> Nat], NEW q \in Query, NEW rows \in Stamps, NEW new \in Stamps,
         NEW since \in Nat, RowsWere(a, q, new, since),
         DOMAIN rows \subseteq Matching[q],
         \A r \in DOMAIN rows : 0 < rows[r] /\ rows[r] <= a[r],
         \A r \in DOMAIN rows \ DOMAIN new : a[r] <= since => rows[r] = a[r]
  PROVE  /\ RowsWere(a, q, Updated(rows, new), since)
         /\ \A r \in Still(a, q, since) : Known(a, r, rows) \/ Known(a, r, new) =>
              Known(a, r, Updated(rows, new))
<1>1. PICK both \in Stamps :
        /\ both = Updated(rows, new) /\ DOMAIN both = DOMAIN rows \cup DOMAIN new
        /\ \A r \in DOMAIN new : both[r] = new[r]
        /\ \A r \in DOMAIN rows \ DOMAIN new : both[r] = rows[r]
  <2>1. /\ Updated(rows, new) \in Stamps
        /\ DOMAIN Updated(rows, new) = DOMAIN rows \cup DOMAIN new
        /\ \A r \in DOMAIN new : Updated(rows, new)[r] = new[r]
        /\ \A r \in DOMAIN rows \ DOMAIN new : Updated(rows, new)[r] = rows[r]
    BY UpdatedIs
  <2> QED BY <2>1
<1>2. /\ DOMAIN new \subseteq Matching[q]
      /\ \A r \in DOMAIN new : 0 < new[r] /\ new[r] <= a[r] /\ (a[r] <= since => new[r] = a[r])
  BY DEF RowsWere
<1>3. ASSUME NEW r \in DOMAIN both
      PROVE  0 < both[r] /\ both[r] <= a[r] /\ (a[r] <= since => both[r] = a[r])
  <2>1. CASE r \in DOMAIN new
    BY <1>1, <1>2, <2>1
  <2>2. CASE r \in DOMAIN rows \ DOMAIN new
    BY <1>1, <2>2
  <2> QED BY <1>1, <2>1, <2>2
<1>4. RowsWere(a, q, both, since)
  BY <1>1, <1>2, <1>3 DEF RowsWere
<1>5. ASSUME NEW r \in Still(a, q, since), Known(a, r, rows) \/ Known(a, r, new)
      PROVE  Known(a, r, both)
  <2>1. r \in DOMAIN new => new[r] = a[r]
    BY <1>2 DEF Still
  <2>2. CASE r \in DOMAIN new
    BY <1>1, <2>1, <2>2 DEF Known
  <2>3. CASE r \notin DOMAIN new
    BY <1>1, <1>5, <2>3 DEF Known
  <2> QED BY <2>2, <2>3
<1> QED BY <1>1, <1>4, <1>5

LEMMA SmallerIs ==
  ASSUME NEW x \in Nat, NEW y \in Nat
  PROVE  /\ Smaller(x, y) \in Nat /\ Smaller(x, y) <= x /\ Smaller(x, y) <= y
         /\ Larger(x, y) \in Nat /\ Larger(x, y) \in {x, y}
BY DEF Smaller, Larger

LEMMA RanksMore ==
  ASSUME NEW q \in Query, NEW a, NEW r, NEW m \in Nat, NEW n \in Nat, m <= n, Ranks(a, q, r, m)
  PROVE  Ranks(a, q, r, n)
BY RankIsNat DEF Ranks

\* The first page of a search arrives.
LEMMA ResetCovers ==
  ASSUME NEW a \in [Run -> Nat], NEW q \in Query, NEW page \in PageSet, NEW at \in Nat,
         NEW since, NEW changed, FirstCovers(a, q, page, at, since, changed)
  PROVE  Covers(a, q, page.rows, Smaller(page.total, Cardinality(DOMAIN page.rows)), at)
<1>1. page.rows \in Stamps /\ page.total \in Nat
  BY DEF PageSet
<1>2. PICK size \in Nat : size = Cardinality(DOMAIN page.rows)
  BY <1>1, RowsOf
<1>3. PICK next \in Nat : next = Smaller(page.total, size) /\ next <= size
  BY <1>1, SmallerIs
<1>4. size <= PageSize /\ RowsWere(a, q, page.rows, at)
  BY <1>2 DEF FirstCovers
<1>5. ASSUME NEW r \in Still(a, q, at), Ranks(a, q, r, next) PROVE Known(a, r, page.rows)
  <2>1. next <= PageSize /\ PageSize \in Nat
    BY <1>3, <1>4, PageSizeIs
  <2>2. Ranks(a, q, r, PageSize)
    BY <1>5, <2>1, RanksMore
  <2> QED BY <2>2 DEF FirstCovers
<1>6. Covers(a, q, page.rows, next, at)
  BY <1>4, <1>5 DEF Covers
<1> QED BY <1>2, <1>3, <1>6

\* The first page is read again.
LEMMA RefreshCovers ==
  ASSUME NEW a \in [Run -> Nat], NEW q \in Query, NEW page \in PageSet, NEW at \in Nat,
         NEW since \in Nat, NEW changed, FirstCovers(a, q, page, at, since, changed),
         NEW rows \in Stamps, NEW next \in Nat, Covers(a, q, rows, next, since),
         Cardinality(changed) <= PageSize
  PROVE  Covers(a, q, ReconcileResultPage(rows, page),
                Smaller(page.total, Larger(next, Cardinality(DOMAIN page.rows))), at)
<1>1. PICK new \in Stamps, total \in Nat : new = page.rows /\ total = page.total
  BY DEF PageSet
<1>2. PICK size \in Nat : size = Cardinality(DOMAIN page.rows)
  BY <1>1, RowsOf
<1>3. PICK end \in Nat : end = Larger(next, size) /\ end \in {next, size}
  BY SmallerIs
<1>4. PICK to \in Nat : to = Smaller(total, end) /\ to <= total /\ to <= end
  BY SmallerIs
<1>5. PICK kept \in Stamps : kept = IF total <= PageSize THEN <<>> ELSE rows
  BY NoRows
<1>6. PICK both \in Stamps : both = Updated(kept, new)
  BY UpdatedIs
<1>7. PICK top \in Stamps : top = Top(both, total) /\ top = ReconcileResultPage(rows, page)
  <2>1. ReconcileResultPage(rows, page) = Top(both, total)
    BY <1>1, <1>5, <1>6 DEF ReconcileResultPage
  <2> QED BY <2>1, TopOf
<1>8. /\ size <= PageSize /\ PageSize \in Nat /\ RowsWere(a, q, new, at) /\ RowsWere(a, q, rows, since)
      /\ \A r \in Still(a, q, at) :
           Ranks(a, q, r, PageSize) \/ total <= PageSize \/ a[r] > since => Known(a, r, new)
  BY <1>1, <1>2, PageSizeIs DEF FirstCovers, Covers
<1>9. Matching[q] \subseteq Run /\ \A r \in Run : a[r] \in Nat
  BY MatchingIsFinite
<1>10. /\ DOMAIN kept \subseteq Matching[q]
       /\ \A r \in DOMAIN kept : 0 < kept[r] /\ kept[r] <= a[r]
       /\ \A r \in DOMAIN kept \ DOMAIN new : a[r] <= at => kept[r] = a[r]
  <2>1. CASE total <= PageSize
    BY <1>5, <2>1, NoRows
  <2>2. CASE ~(total <= PageSize)
    <3>1. kept = rows
      BY <1>5, <2>2
    <3>2. ASSUME NEW r \in DOMAIN rows \ DOMAIN new, a[r] <= at PROVE rows[r] = a[r]
      <4>1. r \in Matching[q] /\ 0 < rows[r] /\ rows[r] <= a[r] /\ (a[r] <= since => rows[r] = a[r])
        BY <1>8 DEF RowsWere
      <4>2. rows[r] \in Nat /\ a[r] \in Nat
        BY <1>9, <4>1, RowsOf
      <4>3. r \in Still(a, q, at)
        BY <3>2, <4>1, <4>2 DEF Still
      <4>4. ~(a[r] > since)
        BY <1>8, <4>3 DEF Known
      <4> QED BY <4>1, <4>2, <4>4
    <3> QED BY <1>8, <3>1, <3>2 DEF RowsWere
  <2> QED BY <2>1, <2>2
<1>11. /\ RowsWere(a, q, both, at)
       /\ \A r \in Still(a, q, at) : Known(a, r, kept) \/ Known(a, r, new) => Known(a, r, both)
  BY <1>6, <1>8, <1>10, UpdatedWere
<1>12. RowsWere(a, q, top, at)
  <2>1. DOMAIN top \subseteq DOMAIN both /\ \A r \in DOMAIN top : top[r] = both[r]
    <3>1. /\ DOMAIN Top(both, total) \subseteq DOMAIN both
          /\ \A r \in DOMAIN Top(both, total) : Top(both, total)[r] = both[r]
      BY TopOf
    <3> QED BY <1>7, <3>1
  <2> QED BY <1>11, <2>1 DEF RowsWere
<1>13. ASSUME NEW r \in Still(a, q, at), Ranks(a, q, r, to) PROVE Known(a, r, top)
  <2>1. Known(a, r, kept) \/ Known(a, r, new)
    <3>1. CASE Ranks(a, q, r, PageSize) \/ total <= PageSize \/ a[r] > since
      BY <1>8, <3>1
    <3>2. CASE ~(Ranks(a, q, r, PageSize) \/ total <= PageSize \/ a[r] > since)
      <4>1. kept = rows /\ r \in Still(a, q, since)
        BY <1>5, <1>9, <3>2 DEF Still
      <4>2. Ranks(a, q, r, end)
        BY <1>4, <1>13, RanksMore
      <4>3. end # size
        BY <1>8, <3>2, <4>2, RanksMore
      <4>4. Ranks(a, q, r, next)
        BY <1>3, <4>2, <4>3
      <4> QED BY <4>1, <4>4 DEF Covers
    <3> QED BY <3>1, <3>2
  <2>2. Known(a, r, both)
    BY <1>11, <2>1
  <2>3. DOMAIN both \subseteq Matching[q] /\ \A x \in DOMAIN both : both[x] <= a[x]
    BY <1>11 DEF RowsWere
  <2> QED BY <1>4, <1>7, <1>13, <2>2, <2>3, TopKeeps
<1>14. Covers(a, q, top, to, at)
  BY <1>12, <1>13 DEF Covers
<1> QED BY <1>1, <1>2, <1>3, <1>4, <1>7, <1>14

\* An older page arrives.
LEMMA AppendCovers ==
  ASSUME NEW a \in [Run -> Nat], NEW q \in Query, NEW page \in PageSet, NEW offset \in Nat,
         NEW since \in Nat, NEW rows \in Stamps, NEW next \in Nat, Covers(a, q, rows, next, since),
         MoreCovers(a, q, rows, page, offset, since)
  PROVE  Covers(a, q, Updated(rows, page.rows),
                Smaller(page.total, offset + Cardinality(DOMAIN page.rows)), since)
<1>1. PICK new \in Stamps, total \in Nat : new = page.rows /\ total = page.total
  BY DEF PageSet
<1>2. PICK end \in Nat : end = offset + Cardinality(DOMAIN new)
  <2>1. Cardinality(DOMAIN new) \in Nat
    BY RowsOf
  <2> QED BY <2>1
<1>3. PICK to \in Nat : to = Smaller(total, end) /\ to <= end
  BY SmallerIs
<1>4. PICK both \in Stamps : both = Updated(rows, new)
  BY UpdatedIs
<1>5. RowsWere(a, q, new, since) /\ RowsWere(a, q, rows, since)
  BY <1>1 DEF MoreCovers, Covers
<1>6. /\ RowsWere(a, q, both, since)
      /\ \A r \in Still(a, q, since) : Known(a, r, rows) \/ Known(a, r, new) => Known(a, r, both)
  <2>1. /\ DOMAIN rows \subseteq Matching[q]
        /\ \A r \in DOMAIN rows : 0 < rows[r] /\ rows[r] <= a[r]
        /\ \A r \in DOMAIN rows \ DOMAIN new : a[r] <= since => rows[r] = a[r]
    BY <1>5 DEF RowsWere
  <2> QED BY <1>4, <1>5, <2>1, UpdatedWere
<1>7. ASSUME NEW r \in Still(a, q, since), Ranks(a, q, r, to) PROVE Known(a, r, both)
  <2>1. Ranks(a, q, r, end)
    BY <1>3, <1>7, RanksMore
  <2> QED BY <1>1, <1>2, <1>6, <2>1 DEF MoreCovers
<1>8. Covers(a, q, both, to, since)
  BY <1>6, <1>7 DEF Covers
<1> QED BY <1>1, <1>2, <1>3, <1>4, <1>8

LEMMA ReadTypes ==
  ASSUME ListTypeOK
  PROVE  /\ first.phase = "asked" => first \in FirstAsked
         /\ first.phase = "served" => first \in FirstServed
         /\ more.phase = "asked" => more \in MoreAsked
         /\ more.phase = "served" => more \in MoreServed
         /\ NoRead.phase = "none"
BY DEF ListTypeOK, NoRead, FirstAsked, FirstServed, MoreAsked, MoreServed

\* Reads are asked, given up or fail, and the list stays.
LEMMA SameListKeeps ==
  ASSUME ListInv, list' \in ListSet, list'.search = list.search, list'.rows = list.rows,
         list'.next = list.next, first' \in {first, NoRead},
         \/ more' \in {more, NoRead}
         \/ more' = [phase |-> "asked", offset |-> list.next, search |-> list.search],
         frames' \in [own : BOOLEAN, old : BOOLEAN], UNCHANGED <<activity, clock, whole, seen>>
  PROVE  ListInv'
<1>1. ListTypeOK /\ NoRead.phase = "none"
  BY ReadTypes DEF ListInv
<1>2. list.next \in Nat /\ list.search \in Query
  BY <1>1 DEF ListTypeOK, ListSet
<1>3. CASE more' \in {more, NoRead}
  <2>1. ListTypeOK'
    BY <1>1, <1>3 DEF ListTypeOK
  <2>2. StampsDiffer' /\ ListIsWhole' /\ FirstSays'
    BY <1>1 DEF ListInv, StampsDiffer, ListIsWhole, FirstSays
  <2>3. MoreSays'
    BY <1>1, <1>3 DEF ListInv, MoreSays
  <2> QED BY <2>1, <2>2, <2>3 DEF ListInv
<1>4. CASE more' = [phase |-> "asked", offset |-> list.next, search |-> list.search]
  <2>1. more' \in MoreAsked /\ more'.phase = "asked"
        /\ more'.search = list.search /\ more'.offset = list.next
    BY <1>2, <1>4 DEF MoreAsked
  <2>2. ListTypeOK'
    BY <1>1, <2>1 DEF ListTypeOK
  <2>3. StampsDiffer' /\ ListIsWhole' /\ FirstSays'
    BY <1>1 DEF ListInv, StampsDiffer, ListIsWhole, FirstSays
  <2>4. MoreSays'
    BY <2>1 DEF MoreSays
  <2> QED BY <2>2, <2>3, <2>4 DEF ListInv
<1> QED BY <1>3, <1>4

\* A first page is asked for, and nothing else is under way.
LEMMA StartReadKeeps ==
  ASSUME ListInv, NEW l \in ListSet, NEW reset \in BOOLEAN,
         NEW awaited \in [own : BOOLEAN, old : BOOLEAN], StartRead(l, reset, awaited),
         UNCHANGED <<activity, clock, seen>>, whole' \in BOOLEAN,
         whole' => /\ whole /\ l.search = list.search
                   /\ l.rows = list.rows /\ l.next = list.next
  PROVE  ListInv'
<1>1. ListTypeOK /\ NoRead.phase = "none"
  BY ReadTypes DEF ListInv
<1>2. /\ list' \in ListSet /\ list'.search = l.search /\ list'.rows = l.rows /\ list'.next = l.next
      /\ frames' \in [own : BOOLEAN, old : BOOLEAN] /\ more' = NoRead
  BY DEF StartRead, ListSet
<1>3. first' \in FirstAsked /\ first'.phase = "asked" /\ first'.search = l.search
  <2>1. first' = [phase |-> "asked", reset |-> reset, search |-> l.search] /\ l.search \in Query
    BY DEF StartRead, ListSet
  <2> QED BY <2>1 DEF FirstAsked
<1>4. ListTypeOK'
  BY <1>1, <1>2, <1>3 DEF ListTypeOK
<1>5. StampsDiffer'
  BY <1>3 DEF ListInv, StampsDiffer
<1>6. ListIsWhole'
  BY <1>2 DEF ListInv, ListIsWhole
<1>7. FirstSays' /\ MoreSays'
  BY <1>1, <1>2, <1>3 DEF FirstSays, MoreSays
<1> QED BY <1>4, <1>5, <1>6, <1>7 DEF ListInv

LEMMA QuietKeeps ==
  ASSUME ListInv, \/ RefreshList \/ FirstFails \/ LoadMore \/ MoreFails
                  \/ \E q \in Query : ApplyFilter(q)
                  \/ \E which \in {"own", "old"} : AnimationFrame(which)
  PROVE  ListInv'
<1>1. list \in ListSet /\ frames \in [own : BOOLEAN, old : BOOLEAN] /\ whole \in BOOLEAN
  BY DEF ListInv, ListTypeOK
<1>2. CASE RefreshList
  <2>1. CASE list.busy
    <3>1. /\ list' = [list EXCEPT !.pending = TRUE]
          /\ UNCHANGED <<first, more, frames, activity, clock, whole, seen>>
      BY <1>2, <2>1 DEF RefreshList
    <3>2. /\ list' \in ListSet /\ list'.search = list.search /\ list'.rows = list.rows
          /\ list'.next = list.next
      BY <1>1, <3>1 DEF ListSet
    <3> QED BY <1>1, <3>1, <3>2, SameListKeeps
  <2>2. CASE ~list.busy
    BY <1>1, <1>2, <2>2, StartReadKeeps DEF RefreshList
  <2> QED BY <2>1, <2>2
<1>3. ASSUME NEW q \in Query, ApplyFilter(q) PROVE ListInv'
  <2>1. PICK l : l = [list EXCEPT !.search = q]
    OBVIOUS
  <2>2. l \in ListSet
    BY <1>1, <2>1 DEF ListSet
  <2> QED BY <1>1, <1>3, <2>1, <2>2, StartReadKeeps DEF ApplyFilter
<1>4. CASE FirstFails
  <2>1. /\ list' = [list EXCEPT !.error = TRUE, !.loading = FALSE]
        /\ first' = NoRead /\ frames' = [frames EXCEPT !.own = TRUE]
        /\ UNCHANGED <<more, activity, clock, whole, seen>>
    BY <1>4 DEF FirstFails, Complete
  <2>2. /\ list' \in ListSet /\ list'.search = list.search /\ list'.rows = list.rows
        /\ list'.next = list.next /\ frames' \in [own : BOOLEAN, old : BOOLEAN]
    BY <1>1, <2>1 DEF ListSet
  <2> QED BY <2>1, <2>2, SameListKeeps
<1>5. CASE LoadMore
  <2>1. /\ list' = [list EXCEPT !.loadingMore = TRUE]
        /\ more' = [phase |-> "asked", offset |-> list.next, search |-> list.search]
        /\ UNCHANGED <<first, frames, activity, clock, whole, seen>>
    BY <1>5 DEF LoadMore
  <2>2. /\ list' \in ListSet /\ list'.search = list.search /\ list'.rows = list.rows
        /\ list'.next = list.next
    BY <1>1, <2>1 DEF ListSet
  <2> QED BY <1>1, <2>1, <2>2, SameListKeeps
<1>6. CASE MoreFails
  <2>1. /\ list' = [list EXCEPT !.error = TRUE, !.loadingMore = FALSE] /\ more' = NoRead
        /\ UNCHANGED <<first, frames, activity, clock, whole, seen>>
    BY <1>6 DEF MoreFails
  <2>2. /\ list' \in ListSet /\ list'.search = list.search /\ list'.rows = list.rows
        /\ list'.next = list.next
    BY <1>1, <2>1 DEF ListSet
  <2> QED BY <1>1, <2>1, <2>2, SameListKeeps
<1>7. ASSUME NEW which \in {"own", "old"}, AnimationFrame(which) PROVE ListInv'
  <2>1. PICK done, left : /\ done = [list EXCEPT !.busy = FALSE, !.pending = FALSE]
                          /\ left = [frames EXCEPT ![which] = FALSE]
    OBVIOUS
  <2>2. /\ done \in ListSet /\ done.search = list.search /\ done.rows = list.rows
        /\ done.next = list.next
    BY <1>1, <2>1 DEF ListSet
  <2>3. left \in [own : BOOLEAN, old : BOOLEAN]
    BY <1>1, <2>1
  <2>4. /\ IF list.pending THEN StartRead(done, FALSE, left)
           ELSE list' = done /\ frames' = left /\ UNCHANGED <<first, more>>
        /\ UNCHANGED <<activity, clock, whole, seen>>
    BY <1>7, <2>1 DEF AnimationFrame
  <2>5. CASE list.pending
    BY <1>1, <2>2, <2>3, <2>4, <2>5, StartReadKeeps
  <2>6. CASE ~list.pending
    BY <2>2, <2>3, <2>4, <2>6, SameListKeeps
  <2> QED BY <2>5, <2>6
<1> QED BY <1>2, <1>3, <1>4, <1>5, <1>6, <1>7

LEMMA ServeFirstKeeps == ASSUME ListInv, ServeFirst PROVE ListInv'
<1> DEFINE q == list.search
<1>1. /\ ListTypeOK /\ StampsDiffer /\ first.phase = "asked" /\ first \in FirstAsked
      /\ first.search = q /\ q \in Query
      /\ UNCHANGED <<activity, clock, list, more, frames, whole, seen>>
  BY ReadTypes DEF ListInv, FirstSays, ListTypeOK, ListSet, ServeFirst
<1>2. PICK page, changed : /\ page = Page(q, 0)
                           /\ changed = {r \in Matching[q] : activity[r] > seen}
  OBVIOUS
<1>3. page \in PageSet /\ FirstCovers(activity, q, page, clock, seen, changed)
  BY <1>1, <1>2, FirstIsServed
<1>4. first' = [phase |-> "served", reset |-> first.reset, page |-> page, at |-> clock,
                changed |-> changed]
  BY <1>1, <1>2 DEF ServeFirst
<1>5. /\ first' \in FirstServed /\ first'.phase = "served" /\ first'.page = page
      /\ first'.at = clock /\ first'.changed = changed
  <2>1. changed \in SUBSET Run /\ clock \in Nat /\ first.reset \in BOOLEAN
    BY <1>1, <1>2, MatchingIsFinite DEF ListTypeOK, FirstAsked
  <2> QED BY <1>3, <1>4, <2>1 DEF FirstServed
<1>6. ListTypeOK'
  BY <1>1, <1>5 DEF ListTypeOK
<1>7. StampsDiffer'
  <2>1. clock \in Nat
    BY <1>1 DEF ListTypeOK
  <2> QED BY <1>1, <1>5, <2>1 DEF StampsDiffer
<1>8. FirstSays'
  BY <1>1, <1>3, <1>5 DEF FirstSays
<1>9. ListIsWhole' /\ MoreSays'
  BY <1>1 DEF ListInv, ListIsWhole, MoreSays
<1> QED BY <1>6, <1>7, <1>8, <1>9 DEF ListInv

LEMMA ServeMoreKeeps == ASSUME ListInv, ServeMore PROVE ListInv'
<1>1. /\ ListTypeOK /\ StampsDiffer /\ more.phase = "asked" /\ more \in MoreAsked
      /\ more.search \in Query /\ more.offset \in Nat
      /\ UNCHANGED <<activity, clock, list, first, frames, whole, seen>>
  BY ReadTypes DEF ListInv, MoreAsked, ServeMore
<1>2. PICK q \in Query, offset \in Nat : q = more.search /\ offset = more.offset
  BY <1>1
<1>3. PICK page : page = Page(q, offset)
  OBVIOUS
<1>4. /\ page \in PageSet
      /\ \A rows : Covers(activity, q, rows, offset, seen) =>
           MoreCovers(activity, q, rows, page, offset, seen)
  BY <1>1, <1>3, MoreIsServed
<1>5. more' = [phase |-> "served", offset |-> offset, page |-> page]
  BY <1>2, <1>3 DEF ServeMore
<1>6. /\ more' \in MoreServed /\ more'.phase = "served" /\ more'.page = page
      /\ more'.offset = offset
  BY <1>4, <1>5 DEF MoreServed
<1>7. ListTypeOK'
  BY <1>1, <1>6 DEF ListTypeOK
<1>8. MoreSays'
  <2>1. whole => q = list.search /\ offset = list.next
    BY <1>1, <1>2 DEF ListInv, MoreSays
  <2>2. whole => Covers(activity, q, list.rows, offset, seen)
    BY <2>1 DEF ListInv, ListIsWhole
  <2>3. whole => MoreCovers(activity, list.search, list.rows, page, offset, seen)
    BY <1>4, <2>1, <2>2
  <2> QED BY <1>1, <1>6, <2>3 DEF MoreSays
<1>9. StampsDiffer' /\ ListIsWhole' /\ FirstSays'
  BY <1>1 DEF ListInv, StampsDiffer, ListIsWhole, FirstSays
<1> QED BY <1>7, <1>8, <1>9 DEF ListInv

LEMMA FirstArrivesKeeps == ASSUME ListInv, FirstArrives PROVE ListInv'
<1>1. /\ ListTypeOK /\ StampsDiffer /\ first.phase = "served" /\ first \in FirstServed
      /\ list \in ListSet /\ activity \in [Run -> Nat] /\ seen \in Nat
      /\ NoRead.phase = "none" /\ UNCHANGED <<activity, clock, more>>
  BY ReadTypes DEF ListInv, ListTypeOK, FirstArrives, Complete
<1>2. PICK q \in Query, page \in PageSet, at \in Nat, changed \in SUBSET Run :
        q = list.search /\ page = first.page /\ at = first.at /\ changed = first.changed
  BY <1>1 DEF ListSet, FirstServed
<1>3. PICK rows \in Stamps, next \in Nat : rows = list.rows /\ next = list.next
  BY <1>1 DEF ListSet
<1>4. PICK size \in Nat : size = Cardinality(DOMAIN page.rows)
  <2>1. page.rows \in Stamps
    BY DEF PageSet
  <2> QED BY <2>1, RowsOf
<1>5. FirstCovers(activity, q, page, at, seen, changed)
  BY <1>1, <1>2 DEF ListInv, FirstSays
<1>6. PICK newRows \in Stamps, newNext \in Nat :
        /\ newRows = IF first.reset THEN page.rows ELSE ReconcileResultPage(rows, page)
        /\ newNext = Smaller(page.total, IF first.reset THEN size ELSE Larger(next, size))
  <2>1. page.rows \in Stamps /\ page.total \in Nat
    BY DEF PageSet
  <2>2. ReconcileResultPage(rows, page) \in Stamps
    <3>1. PICK kept \in Stamps : kept = IF page.total <= PageSize THEN <<>> ELSE rows
      BY NoRows
    <3>2. PICK both \in Stamps : both = Updated(kept, page.rows)
      BY <2>1, UpdatedIs
    <3>3. ReconcileResultPage(rows, page) = Top(both, page.total)
      BY <3>1, <3>2 DEF ReconcileResultPage
    <3> QED BY <3>3, TopOf
  <2>3. /\ Larger(next, size) \in Nat
        /\ \A x \in Nat : Smaller(page.total, x) \in Nat
    BY <2>1, SmallerIs
  <2> QED BY <2>1, <2>2, <2>3
<1>7. /\ list' = [list EXCEPT !.rows = newRows, !.total = page.total, !.next = newNext,
                              !.error = FALSE, !.loading = FALSE]
      /\ first' = NoRead /\ frames' = [frames EXCEPT !.own = TRUE] /\ seen' = at
      /\ whole' = (Idle(more) /\ (first.reset \/ (whole /\ Cardinality(changed) <= PageSize)))
  <2>1. list' = [[list EXCEPT
           !.rows = IF first.reset THEN page.rows ELSE ReconcileResultPage(list.rows, page),
           !.total = page.total,
           !.next = Smaller(page.total, IF first.reset THEN size ELSE Larger(list.next, size)),
           !.error = FALSE] EXCEPT !.loading = FALSE]
    BY <1>2, <1>4 DEF FirstArrives, Complete
  <2>2. list' = [[list EXCEPT !.rows = newRows, !.total = page.total, !.next = newNext,
                              !.error = FALSE] EXCEPT !.loading = FALSE]
    BY <1>3, <1>6, <2>1, Zenon
  <2> QED BY <1>1, <1>2, <2>2 DEF FirstArrives, Complete, ListSet
<1>8. /\ list' \in ListSet /\ list'.rows = newRows /\ list'.next = newNext /\ list'.search = q
      /\ frames' \in [own : BOOLEAN, old : BOOLEAN] /\ whole' \in BOOLEAN
  <2>1. page.total \in Nat /\ frames \in [own : BOOLEAN, old : BOOLEAN]
    BY <1>1 DEF PageSet, ListTypeOK
  <2>2. whole' \in BOOLEAN
    BY <1>7
  <2>3. frames' \in [own : BOOLEAN, old : BOOLEAN]
    BY <1>7, <2>1
  <2>4. list' \in ListSet /\ list'.rows = newRows /\ list'.next = newNext /\ list'.search = q
    BY <1>1, <1>2, <1>7, <2>1 DEF ListSet
  <2> QED BY <2>2, <2>3, <2>4
<1>9. ListTypeOK'
  BY <1>1, <1>7, <1>8 DEF ListTypeOK
<1>10. StampsDiffer'
  BY <1>1, <1>2, <1>7 DEF StampsDiffer
<1>11. whole' => Covers(activity, q, newRows, newNext, at)
  <2>1. CASE first.reset
    <3>1. newRows = page.rows /\ newNext = Smaller(page.total, size)
      BY <1>6, <2>1
    <3>2. Covers(activity, q, page.rows, Smaller(page.total, Cardinality(DOMAIN page.rows)), at)
      BY <1>1, <1>5, ResetCovers
    <3> QED BY <1>4, <3>1, <3>2
  <2>2. CASE ~first.reset
    <3> SUFFICES ASSUME whole' PROVE Covers(activity, q, newRows, newNext, at)
      OBVIOUS
    <3>1. whole /\ Cardinality(changed) <= PageSize
      BY <1>7, <2>2
    <3>2. Covers(activity, q, rows, next, seen)
      BY <1>2, <1>3, <3>1 DEF ListInv, ListIsWhole
    <3> QED BY <1>1, <1>4, <1>5, <1>6, <2>2, <3>1, <3>2, RefreshCovers
  <2> QED BY <2>1, <2>2
<1>12. ListIsWhole'
  BY <1>1, <1>7, <1>8, <1>11 DEF ListIsWhole
<1>13. FirstSays' /\ MoreSays'
  BY <1>1, <1>7 DEF FirstSays, MoreSays, Idle
<1> QED BY <1>9, <1>10, <1>12, <1>13 DEF ListInv

LEMMA MoreArrivesKeeps == ASSUME ListInv, MoreArrives PROVE ListInv'
<1>1. /\ ListTypeOK /\ StampsDiffer /\ more.phase = "served" /\ more \in MoreServed
      /\ list \in ListSet /\ activity \in [Run -> Nat] /\ seen \in Nat
      /\ NoRead.phase = "none" /\ more' = NoRead
      /\ UNCHANGED <<activity, clock, first, frames, whole, seen>>
  BY ReadTypes DEF ListInv, ListTypeOK, MoreArrives
<1>2. PICK page \in PageSet, offset \in Nat : page = more.page /\ offset = more.offset
  BY <1>1 DEF MoreServed
<1>3. PICK q \in Query, rows \in Stamps, next \in Nat :
        q = list.search /\ rows = list.rows /\ next = list.next
  BY <1>1 DEF ListSet
<1>4. PICK size \in Nat : size = Cardinality(DOMAIN page.rows)
  <2>1. page.rows \in Stamps
    BY DEF PageSet
  <2> QED BY <2>1, RowsOf
<1>5. CASE size = 0 /\ offset < page.total
  <2>1. list' = [list EXCEPT !.error = TRUE, !.loadingMore = FALSE]
    BY <1>2, <1>4, <1>5 DEF MoreArrives
  <2>2. /\ list' \in ListSet /\ list'.search = list.search /\ list'.rows = list.rows
        /\ list'.next = list.next /\ frames' \in [own : BOOLEAN, old : BOOLEAN]
    BY <1>1, <2>1 DEF ListSet, ListTypeOK
  <2> QED BY <1>1, <2>2, SameListKeeps
<1>6. CASE ~(size = 0 /\ offset < page.total)
  <2>1. PICK newRows \in Stamps, newNext \in Nat :
          newRows = Updated(rows, page.rows) /\ newNext = Smaller(page.total, offset + size)
    <3>1. page.rows \in Stamps /\ page.total \in Nat
      BY DEF PageSet
    <3>2. Updated(rows, page.rows) \in Stamps
      BY <3>1, UpdatedIs
    <3>3. offset + size \in Nat
      OBVIOUS
    <3>4. Smaller(page.total, offset + size) \in Nat
      BY <3>1, <3>3, SmallerIs
    <3> QED BY <3>2, <3>4
  <2>2. list' = [list EXCEPT !.rows = newRows, !.total = page.total, !.next = newNext,
                             !.error = FALSE, !.loadingMore = FALSE]
    BY <1>2, <1>3, <1>4, <1>6, <2>1 DEF MoreArrives
  <2>3. list' \in ListSet /\ list'.rows = newRows /\ list'.next = newNext /\ list'.search = q
    <3>1. page.total \in Nat
      BY DEF PageSet
    <3> QED BY <1>1, <1>3, <2>2, <3>1 DEF ListSet
  <2>4. ListTypeOK'
    BY <1>1, <2>3 DEF ListTypeOK
  <2>5. whole => Covers(activity, q, newRows, newNext, seen)
    <3> SUFFICES ASSUME whole PROVE Covers(activity, q, newRows, newNext, seen)
      OBVIOUS
    <3>1. Covers(activity, q, rows, next, seen) /\ MoreCovers(activity, q, rows, page, offset, seen)
      BY <1>1, <1>2, <1>3 DEF ListInv, ListIsWhole, MoreSays
    <3> QED BY <1>1, <1>4, <2>1, <3>1, AppendCovers
  <2>6. ListIsWhole' /\ MoreSays'
    BY <1>1, <2>3, <2>5 DEF ListIsWhole, MoreSays
  <2>7. StampsDiffer' /\ FirstSays'
    BY <1>1, <1>3, <2>3 DEF ListInv, StampsDiffer, FirstSays
  <2> QED BY <2>4, <2>6, <2>7 DEF ListInv
<1> QED BY <1>5, <1>6

LEMMA ActivityKeeps == ASSUME ListInv, NEW s \in Run, Activity(s) PROVE ListInv'
<1>1. /\ ListTypeOK /\ StampsDiffer /\ activity \in [Run -> Nat] /\ clock \in Nat /\ seen \in Nat
      /\ list \in ListSet /\ clock' = clock + 1 /\ activity' = [activity EXCEPT ![s] = clock + 1]
      /\ UNCHANGED <<list, first, more, frames, whole, seen>>
  BY DEF ListInv, ListTypeOK, Activity
<1>2. Moved(activity, activity', clock, s)
  BY <1>1 DEF Moved, StampsDiffer
<1>3. activity' \in [Run -> Nat] /\ clock' \in Nat
  BY <1>1
<1>4. ListTypeOK'
  BY <1>1, <1>3 DEF ListTypeOK
<1>5. StampsDiffer'
  <2>1. \A r \in Run : activity[r] \in Nat /\ activity[r] <= clock
    BY <1>1 DEF StampsDiffer
  <2>2. \A r \in Run : r # s => activity'[r] = activity[r]
    BY <1>1
  <2>3. activity'[s] = clock + 1
    BY <1>1
  <2>4. \A r \in Run : activity'[r] <= clock'
    BY <1>1, <2>1, <2>2, <2>3
  <2>5. \A r, x \in Run : r # x /\ activity'[r] = activity'[x] => activity'[r] = 0
    BY <1>1, <2>1, <2>2, <2>3 DEF StampsDiffer
  <2>6. seen' <= clock' /\ (first'.phase = "served" => first'.at <= clock')
    <3>1. first.phase = "served" => first.at \in Nat
      BY <1>1, ReadTypes DEF FirstServed
    <3> QED BY <1>1, <3>1 DEF StampsDiffer
  <2> QED BY <2>4, <2>5, <2>6 DEF StampsDiffer
<1>6. PICK q \in Query, rows \in Stamps, next \in Nat :
        q = list.search /\ rows = list.rows /\ next = list.next
  BY <1>1 DEF ListSet
<1>7. seen <= clock /\ (first.phase = "served" => first.at <= clock)
  BY <1>1 DEF StampsDiffer
<1>8. ListIsWhole'
  <2>1. PICK page \in PageSet, at \in Nat : TRUE
    <3>1. <<>> \in Stamps
      BY NoRows
    <3>2. [rows |-> <<>>, total |-> 0] \in PageSet
      BY <3>1 DEF PageSet
    <3> QED BY <3>2
  <2>2. Covers(activity, q, rows, next, seen) => Covers(activity', q, rows, next, seen)
    BY <1>1, <1>2, <1>7, <2>1, MovesCover
  <2> QED BY <1>1, <1>6, <2>2 DEF ListInv, ListIsWhole
<1>9. FirstSays'
  <2>1. CASE first.phase = "served"
    <3>1. PICK page \in PageSet, at \in Nat, changed \in SUBSET Run :
            page = first.page /\ at = first.at /\ changed = first.changed
      BY <1>1, <2>1, ReadTypes DEF FirstServed
    <3>2. at <= clock
      BY <1>7, <2>1, <3>1
    <3>3. FirstCovers(activity, q, page, at, seen, changed) =>
            FirstCovers(activity', q, page, at, seen, changed)
      BY <1>1, <1>2, <3>2, MovesCover
    <3> QED BY <1>1, <1>6, <2>1, <3>1, <3>3 DEF ListInv, FirstSays
  <2>2. CASE first.phase # "served"
    BY <1>1, <2>2 DEF ListInv, FirstSays
  <2> QED BY <2>1, <2>2
<1>10. MoreSays'
  <2>1. CASE more.phase = "served"
    <3>1. PICK page \in PageSet, offset \in Nat : page = more.page /\ offset = more.offset
      BY <1>1, <2>1, ReadTypes DEF MoreServed
    <3>2. MoreCovers(activity, q, rows, page, offset, seen) =>
            MoreCovers(activity', q, rows, page, offset, seen)
      BY <1>1, <1>2, <1>7, MovesCover
    <3> QED BY <1>1, <1>6, <2>1, <3>1, <3>2 DEF ListInv, MoreSays
  <2>2. CASE more.phase # "served"
    BY <1>1, <2>2 DEF ListInv, MoreSays
  <2> QED BY <2>1, <2>2
<1> QED BY <1>4, <1>5, <1>8, <1>9, <1>10 DEF ListInv

\* The inductive invariant of the list: what each read in flight and the rows on screen
\* know of the chats that did not move since.
THEOREM ListInvariant == ListSpec => []ListInv
<1>1. ListInit => ListInv
  <2> SUFFICES ASSUME ListInit PROVE ListInv
    OBVIOUS
  <2>1. NoRead.phase = "none" /\ first = NoRead /\ more = NoRead
    BY DEF ListInit, NoRead
  <2>2. list \in ListSet
    BY NoRows, MatchingIsFinite DEF ListInit, ListSet
  <2>3. ListTypeOK
    BY <2>1, <2>2 DEF ListInit, ListTypeOK
  <2>4. StampsDiffer
    <3>1. activity = [r \in Run |-> 0] /\ clock = 0 /\ seen = 0 /\ first.phase = "none"
      BY <2>1 DEF ListInit
    <3>2. \A r \in Run : activity[r] = 0
      BY <3>1
    <3> QED BY <3>1, <3>2 DEF StampsDiffer
  <2>5. whole = FALSE /\ first.phase = "none"
    BY <2>1 DEF ListInit
  <2>6. ListIsWhole /\ FirstSays /\ MoreSays
    BY <2>5 DEF ListIsWhole, FirstSays, MoreSays
  <2> QED BY <2>3, <2>4, <2>6 DEF ListInv
<1>2. ListInv /\ [ListNext]_listVars => ListInv'
  <2> SUFFICES ASSUME ListInv, [ListNext]_listVars PROVE ListInv'
    OBVIOUS
  <2>1. CASE UNCHANGED listVars
    BY <2>1 DEF listVars, ListInv, ListTypeOK, StampsDiffer, ListIsWhole, FirstSays, MoreSays
  <2>2. CASE ListNext
    BY <2>2, QuietKeeps, ServeFirstKeeps, FirstArrivesKeeps, ServeMoreKeeps, MoreArrivesKeeps,
       ActivityKeeps DEF ListNext
  <2> QED BY <2>1, <2>2
<1> QED BY <1>1, <1>2, PTL DEF ListSpec

\* Neither chats that move while pages are read nor refreshes that cross older pages leave
\* a hole in the list (reconcileResultPage, nextResultPageOffset), for any number of chats,
\* searches and pages.
THEOREM ListHasNoHole == ListSpec => []NoHole
<1>1. ListInv => NoHole
  <2> SUFFICES ASSUME ListInv, whole, \A r \in Run : activity[r] <= seen
      PROVE  LET found == Found(list.search)
                 shownFirst == Top(found, list.next)
             IN  /\ shownFirst = Restrict(list.rows, DOMAIN list.rows \cap DOMAIN shownFirst)
                 /\ DOMAIN list.rows \subseteq DOMAIN found
    BY DEF NoHole
  <2>1. PICK q \in Query, rows \in Stamps, next \in Nat :
          q = list.search /\ rows = list.rows /\ next = list.next
    BY DEF ListInv, ListTypeOK, ListSet
  <2>2. Covers(activity, q, rows, next, seen)
    BY <2>1 DEF ListInv, ListIsWhole
  <2>3. /\ Matching[q] \subseteq Run /\ \A r \in Matching[q] : activity[r] \in Nat
        /\ rows \in [DOMAIN rows -> Nat]
    BY MatchingIsFinite, RowsOf DEF ListInv, ListTypeOK
  <2> DEFINE found == Found(q)
             D == {r \in Matching[q] : activity[r] > 0}
             top == Top(found, next)
  <2>4. found = [r \in D |-> activity[r]]
    BY DEF Found, Restrict
  <2>5. found \in Stamps
    <3>1. D \in SUBSET Run /\ [r \in D |-> activity[r]] \in [D -> Nat]
      BY <2>3
    <3> QED BY <2>4, <3>1 DEF Stamps
  <2>6. PICK topmost \in Stamps :
          /\ topmost = top
          /\ DOMAIN topmost = {r \in D : Cardinality({s \in DOMAIN found : found[s] > found[r]}) < next}
          /\ \A r \in DOMAIN topmost : topmost[r] = activity[r]
    <3> DEFINE T == {r \in DOMAIN found :
                       Cardinality({s \in DOMAIN found : found[s] > found[r]}) < next}
    <3>1. top = [r \in T |-> found[r]]
      BY DEF Top, Restrict
    <3>2. top \in Stamps
      BY <2>5, TopOf
    <3>3. DOMAIN top = T /\ \A r \in T : top[r] = activity[r]
      BY <2>4, <3>1
    <3>4. T = {r \in D : Cardinality({s \in DOMAIN found : found[s] > found[r]}) < next}
      BY <2>4
    <3> QED BY <3>2, <3>3, <3>4
  <2>7. ASSUME NEW r \in DOMAIN topmost PROVE Known(activity, r, rows)
    <3>1. r \in D /\ r \in Matching[q] /\ activity[r] \in Nat
      BY <2>3, <2>6
    <3>2. {s \in DOMAIN found : found[s] > found[r]} = Above(activity, q, r)
      <4>1. \A s \in Matching[q] : activity[s] > activity[r] => s \in D
        BY <2>3, <3>1
      <4> QED BY <2>4, <3>1, <4>1 DEF Above
    <3>3. Ranks(activity, q, r, next)
      BY <2>6, <3>2 DEF Ranks
    <3>4. r \in Still(activity, q, seen)
      BY <2>3, <3>1 DEF Still
    <3> QED BY <2>2, <3>3, <3>4 DEF Covers
  <2>8. DOMAIN rows \subseteq D
    <3>1. \A r \in DOMAIN rows : r \in Matching[q] /\ 0 < rows[r] /\ rows[r] <= activity[r]
      BY <2>2 DEF Covers, RowsWere
    <3> QED BY <2>3, <3>1
  <2>9. topmost = Restrict(rows, DOMAIN rows \cap DOMAIN topmost)
    <3>1. DOMAIN rows \cap DOMAIN topmost = DOMAIN topmost
      BY <2>7 DEF Known
    <3>2. topmost = [r \in DOMAIN topmost |-> topmost[r]]
      BY RowsOf
    <3>3. \A r \in DOMAIN topmost : topmost[r] = rows[r]
      BY <2>6, <2>7 DEF Known
    <3> QED BY <3>1, <3>2, <3>3 DEF Restrict
  <2>10. DOMAIN found = D
    BY <2>4
  <2> QED BY <2>1, <2>6, <2>8, <2>9, <2>10
<1> QED BY <1>1, ListInvariant, PTL
=============================================================================
