----------------------------- MODULE ChatSends -----------------------------
(***************************************************************************)
(* What the composers send: drafts on screen, in memory and in the         *)
(* browser's storage, the routes of a Send, the ledgers of request ids that *)
(* make a repeated Send the same request, POSTs whose answer is lost, the   *)
(* GET that settles them, pages that are closed meanwhile (submit of        *)
(* src/ui/ChatComposerController.ts, sendFresh, sendReply, queueEarlyReply  *)
(* and sendExactReply of src/ui/ChatsPageController.ts,                     *)
(* src/ui/composerDraftMemory.ts, src/ui/freshQueueReceipt.ts,              *)
(* src/ui/pendingExactReply.ts).                                            *)
(*                                                                         *)
(* A text is a sequence of pieces, numbered as they are typed.  Storage may *)
(* refuse any write; what it took can be read.                              *)
(***************************************************************************)
EXTENDS Naturals, Sequences, SequencesExt

CONSTANTS
  New, Open,      \* the composer of a new chat and that of an open chat
  Elsewhere,      \* another chat, in which nothing is written
  MaxContext,     \* bound: what a continuation quotes of the open chat, 1 .. MaxContext
  MaxLength,      \* 32000 characters in the code: how many pieces fit into a draft
  MaxRecords,     \* 1024 in the code, of either ledger
  MaxPieces,      \* bound: pieces typed
  MaxIds,         \* bound: request ids made
  SendSlot,       \* bound: sends in flight
  MaxRefusals,    \* bound: writes that storage refuses
  MaxReloads      \* bound

Composer == {New, Open}
Anywhere == Composer \cup {Elsewhere}

ASSUME SendAssumption ==
  /\ New # Open /\ Elsewhere \notin Composer
  /\ {MaxContext, MaxLength, MaxRecords, MaxPieces, MaxIds, MaxReloads, MaxRefusals} \subseteq Nat

VARIABLES
  composer,   \* where the page is, its `sending` and the text on screen
  memory,     \* the draft the page remembers of each composer, cut to MaxLength
  storage,    \* browser storage: the draft of each composer
  sends,      \* submissions in flight
  ledger,     \* browser storage: unacknowledged requests, by fingerprint, with their ids
  server,     \* requests that were committed
  astray,     \* POSTs that were given up and may still commit
  ids, reloads, refusals,
  typed,      \* history: how many pieces were typed
  told,       \* history: ids of requests that were reported as accepted
  unsaved,    \* history: composers of whose draft the last write was refused
  lost        \* history: pieces cut from a draft, or gone with the page (see `Reload`)

draftVars == <<memory, storage, unsaved, lost, refusals>>
sendVars ==
  <<composer, draftVars, sends, ledger, server, astray, ids, reloads, typed, told>>

NoSend == [phase |-> "none"]
Sending(s) == sends[s].phase # "none"

\* A continuation's prompt quotes what the page shows of the chat.
Contexts(route) == IF route \in {"continue", "fallback"} THEN 1 .. MaxContext ELSE {0}
Fingerprint(r) == [route |-> r.route, text |-> r.text, context |-> r.context]
Request(r) == [route |-> r.route, text |-> r.text, context |-> r.context, id |-> r.id]
StartsChat(r) == r.route # "queue"

\* A fresh chat and a fallback keep their text in the composer until accepted.
Waiting(r) == r.route \in {"chat", "fallback"}
From(r) == IF r.route = "chat" THEN New ELSE Open

SendInit ==
  /\ composer = [at |-> New, sending |-> FALSE, text |-> <<>>]
  /\ memory = [c \in Composer |-> <<>>] /\ storage = memory
  /\ sends = [s \in SendSlot |-> NoSend]
  /\ ledger = {} /\ server = {} /\ astray = {}
  /\ ids = 0 /\ reloads = 0 /\ refusals = 0
  /\ typed = 0 /\ told = {} /\ unsaved = {} /\ lost = {}

---------------------------------------------------------------------------
(* Drafts.                                                                 *)

Cut(text) == IF Len(text) <= MaxLength THEN text ELSE SubSeq(text, 1, MaxLength)
Beyond(text) == ToSet(text) \ ToSet(Cut(text))

\* What the composer shows when it is opened: memory wins.
Draft(c) == IF memory[c] # <<>> THEN memory[c] ELSE Cut(storage[c])

\* Every edit counts for the submission that waits in that composer.
Edited(c, all) ==
  [s \in SendSlot |-> IF all[s].phase # "none" /\ Waiting(all[s]) /\ From(all[s]) = c
                      THEN [all[s] EXCEPT !.edited = TRUE] ELSE all[s]]

\* ++submissionGeneration: what waits is not current any more.
Outlived(all) ==
  [s \in SendSlot |-> IF all[s].phase # "none" /\ Waiting(all[s])
                      THEN [all[s] EXCEPT !.current = FALSE] ELSE all[s]]

\* What storage may answer to a write; what it refuses is not written.
StorageAnswers == {TRUE} \cup (IF refusals < MaxRefusals THEN {FALSE} ELSE {})
Count(taken) == refusals' = IF taken THEN refusals ELSE refusals + 1

SaveDraft(c, text, taken) ==
  /\ memory' = [memory EXCEPT ![c] = Cut(text)]
  /\ storage' = IF taken THEN [storage EXCEPT ![c] = text] ELSE storage
  /\ unsaved' = IF taken THEN unsaved \ {c} ELSE unsaved \cup {c}

\* Storage is asked to forget the draft only if it holds this text.
ClearDraft(c, text, taken) ==
  /\ memory' = [memory EXCEPT ![c] = <<>>]
  /\ storage[c] = text \/ taken
  /\ storage' = IF storage[c] = text /\ taken THEN [storage EXCEPT ![c] = <<>>] ELSE storage
  /\ unsaved' = unsaved \ {c}

\* The textarea takes no more than MaxLength, and none while a fresh chat is sent.
Type ==
  /\ typed < MaxPieces /\ composer.at \in Composer /\ ~composer.sending
  /\ Len(composer.text) < MaxLength
  /\ typed' = typed + 1
  /\ LET text == Append(composer.text, typed')
     IN  /\ composer' = [composer EXCEPT !.text = text]
         /\ \E taken \in StorageAnswers : SaveDraft(composer.at, text, taken) /\ Count(taken)
  /\ sends' = Edited(composer.at, sends)
  /\ UNCHANGED <<lost, ledger, server, astray, ids, reloads, told>>

At(k, text) == [at |-> k, sending |-> FALSE, text |-> text]

Switch(k) ==
  /\ k # composer.at
  /\ lost' = lost \cup Beyond(composer.text)
  /\ IF k = Elsewhere
     THEN composer' = At(k, <<>>) /\ memory' = memory /\ sends' = Outlived(sends)
     ELSE /\ composer' = At(k, Draft(k))
          /\ memory' = [memory EXCEPT ![k] = Draft(k)]
          /\ sends' = Outlived(IF Draft(k) = memory[k] THEN sends ELSE Edited(k, sends))
  /\ UNCHANGED <<storage, unsaved, refusals, ledger, server, astray, ids, reloads, typed, told>>

\* The preflight of a queued follow-up failed: an empty composer shows it again.
Offer(r) ==
  /\ r.route = "queue" /\ r.live
  /\ composer.at = Open /\ ~composer.sending /\ composer.text = <<>>
  /\ composer' = [composer EXCEPT !.text = r.text]
  /\ \E taken \in StorageAnswers : SaveDraft(Open, r.text, taken) /\ Count(taken)
  /\ sends' = Edited(Open, sends)
  /\ UNCHANGED <<lost, ledger, server, astray, ids, reloads, typed, told>>

---------------------------------------------------------------------------
(* A Send, whose route is chosen by what the page shows of the chat.       *)

CanSend == composer.text # <<>> /\ ~composer.sending

Submission(route, context) ==
  [phase |-> "hash", text |-> composer.text, route |-> route,
   context |-> context, exact |-> FALSE, current |-> TRUE, edited |-> FALSE, id |-> 0]

\* A new chat, or the offer to continue an unverified one in a new chat.
SubmitWaiting(s) ==
  /\ ~Sending(s) /\ CanSend
  /\ \E route \in (IF composer.at = New THEN {"chat"} ELSE {"fallback"}) :
       \E context \in Contexts(route) :
         sends' = [Outlived(sends) EXCEPT ![s] = Submission(route, context)]
  /\ composer' = [composer EXCEPT !.sending = TRUE]
  /\ UNCHANGED <<draftVars, ledger, server, astray, ids, reloads, typed, told>>

\* The exact reply of a turn that is bound and still waits has the turn's id.
Exact(r) == [Submission(r.route, r.context) EXCEPT !.phase = "post", !.exact = TRUE, !.id = r.id]

\* A reply leaves its composer at once: it is queued behind a turn that goes on,
\* starts a new chat if the last answer is complete, or is the pending one itself.
SubmitReply(s) ==
  /\ ~Sending(s) /\ CanSend /\ composer.at = Open
  /\ \E send \in {Submission("queue", 0)}
              \cup {Submission("continue", context) : context \in Contexts("continue")}
              \cup {Exact(r) : r \in {x \in server :
                      x.route = "queue" /\ x.live /\ x.text = composer.text}} :
       sends' = [Edited(Open, sends) EXCEPT ![s] = send]
  /\ composer' = [composer EXCEPT !.text = <<>>]
  /\ \E taken \in StorageAnswers : ClearDraft(Open, composer.text, taken) /\ Count(taken)
  /\ UNCHANGED <<lost, ledger, server, astray, ids, reloads, typed, told>>

\* A chat that is still loading, a pending reply with another text, a chat that
\* has no id: nothing is sent and the text, just taken, is put back.
Refuse ==
  /\ CanSend /\ composer.at = Open
  /\ memory' = memory
  /\ \E removed, saved \in StorageAnswers :
       /\ storage' = [storage EXCEPT ![Open] = IF saved THEN composer.text
            ELSE IF removed /\ @ = composer.text THEN <<>> ELSE @]
       /\ unsaved' = IF saved THEN unsaved \ {Open} ELSE unsaved \cup {Open}
       /\ Count(removed /\ saved)
  /\ sends' = Edited(Open, sends)
  /\ UNCHANGED <<composer, lost, ledger, server, astray, ids, reloads, typed, told>>

---------------------------------------------------------------------------
(* The end of a submission.                                                *)

\* The result is a refusal or an uncertainty: a reply comes back in front of
\* what was written since.
PutBack(s, restored) ==
  LET send == sends[s]
      rest == [sends EXCEPT ![s] = NoSend]
  IN  /\ IF Waiting(send)
         THEN /\ composer' = [composer EXCEPT !.sending = @ /\ ~send.current]
              /\ sends' = rest
              /\ UNCHANGED draftVars
         ELSE /\ \E taken \in StorageAnswers : SaveDraft(Open, restored, taken) /\ Count(taken)
              /\ IF composer.at = Open
                 THEN /\ composer' = [composer EXCEPT !.text = restored]
                      /\ lost' = lost \cup Beyond(composer.text)
                 ELSE /\ composer' = composer
                      /\ lost' = lost \cup Beyond(restored)
              /\ sends' = Edited(Open, rest)
      /\ UNCHANGED <<ledger, server, astray, ids, reloads, typed, told>>

\* mutant: a reply's text replaces what was written since
Fail_Overwrites(s) == PutBack(s, sends[s].text)

Fail(s) == PutBack(s, sends[s].text \o memory[Open])

\* The request is acknowledged, if storage can be written, and for a fresh chat
\* the page goes to it, before the composer hears of it or after.
Accept(s, first) ==
  LET send == sends[s]
      c == From(send)
      rest == [sends EXCEPT ![s] = NoSend]
      away == first \/ composer.at # c
      cleared == Waiting(send) /\
        IF away THEN memory[c] = send.text /\ ~send.edited
        ELSE composer.text = send.text /\ send.current
  IN  /\ told' = told \cup {send.id}
      /\ \E acknowledged, taken \in StorageAnswers :
           /\ send.exact => acknowledged
           /\ ledger' = IF acknowledged /\ ~send.exact THEN ledger \ {Request(send)} ELSE ledger
           /\ IF cleared THEN ClearDraft(c, send.text, taken)
              ELSE taken /\ UNCHANGED <<memory, storage, unsaved>>
           /\ Count(acknowledged /\ taken)
      /\ IF StartsChat(send)
         THEN /\ composer' = At(Elsewhere, <<>>)
              /\ lost' = IF cleared /\ ~away THEN lost ELSE lost \cup Beyond(composer.text)
              /\ sends' = Outlived(IF cleared THEN Edited(c, rest) ELSE rest)
         ELSE composer' = composer /\ lost' = lost /\ sends' = rest
      /\ UNCHANGED <<server, astray, ids, reloads, typed>>

---------------------------------------------------------------------------
(* A submission.                                                           *)

\* The hash is there: the ledger knows the request, or gets a new id for it.
Register(s) ==
  /\ sends[s].phase = "hash"
  /\ LET send == sends[s]
         known == {e \in ledger : Fingerprint(e) = Fingerprint(send)}
     IN  IF known # {}
         THEN /\ \E e \in known :
                   sends' = [sends EXCEPT ![s] = [send EXCEPT !.phase = "look", !.id = e.id]]
              /\ UNCHANGED <<ledger, ids>>
         ELSE /\ Cardinality({e \in ledger : StartsChat(e) = StartsChat(send)}) < MaxRecords
              /\ ids < MaxIds
              /\ ids' = ids + 1
              /\ sends' = [sends EXCEPT ![s] = [send EXCEPT !.phase = "post", !.id = ids']]
              /\ ledger' = ledger \cup {Request([send EXCEPT !.id = ids'])}
  /\ UNCHANGED <<composer, draftVars, server, astray, reloads, typed, told>>

\* The ledger is full, or the storage cannot be read or written.
RegisterFails(s) ==
  /\ sends[s].phase = "hash"
  /\ Fail(s)

Committed(s) == {r \in server : r.id = sends[s].id}

\* The answer shows the request: it counts as accepted unless its delivery is
\* uncertain or ended without one, or an exact reply is put off again.
Answered(s) ==
  \E r \in Committed(s) :
    \/ r.live /\ \E first \in BOOLEAN : Accept(s, first)
    \/ (~r.live \/ sends[s].exact) /\ Fail(s)

\* mutant: a request that the GET does not show is forgotten
Look_Forgets(s) ==
  \/ /\ sends[s].phase \in {"look", "lost"}
     /\ Answered(s)
  \/ /\ sends[s].phase = "look"
     /\ sends' = [sends EXCEPT ![s].phase = "post"]
     /\ UNCHANGED <<composer, draftVars, ledger, server, astray, ids, reloads, typed, told>>
  \/ /\ sends[s].phase = "lost" /\ Committed(s) = {}
     /\ ledger' = ledger \ {Request(sends[s])}
     /\ sends' = [sends EXCEPT ![s] = NoSend]
     /\ composer' = [composer EXCEPT !.sending = FALSE]
     /\ UNCHANGED <<draftVars, server, astray, ids, reloads, typed, told>>

\* A GET of the request: before a repeated POST, and after a POST that failed
\* or was not answered.
Look(s) ==
  \/ /\ sends[s].phase \in {"look", "lost"}
     /\ Answered(s)
  \/ /\ sends[s].phase = "look"       \* none, or the GET failed
     /\ sends' = [sends EXCEPT ![s].phase = "post"]
     /\ UNCHANGED <<composer, draftVars, ledger, server, astray, ids, reloads, typed, told>>
  \/ /\ sends[s].phase = "lost"
     /\ Fail(s)

\* The id makes a repeated POST the same request.
Arrived(r) ==
  server' = IF \E x \in server : x.id = r.id THEN server
            ELSE server \cup {[route |-> r.route, text |-> r.text, context |-> r.context,
                               id |-> r.id, live |-> TRUE]}

Post(s) ==
  /\ sends[s].phase = "post"
  /\ Arrived(sends[s])
  /\ sends' = [sends EXCEPT ![s].phase = "posted"]
  /\ UNCHANGED <<composer, draftVars, ledger, astray, ids, reloads, typed, told>>

Hear(s) ==
  /\ sends[s].phase = "posted"
  /\ Answered(s)

\* A timeout, a refused request, a lost answer.
Lose(s) ==
  /\ sends[s].phase \in {"post", "posted"}
  /\ sends' = [sends EXCEPT ![s].phase = "lost"]
  /\ astray' \in (IF sends[s].phase = "post" THEN {astray, astray \cup {Request(sends[s])}}
                  ELSE {astray})
  /\ UNCHANGED <<composer, draftVars, ledger, server, ids, reloads, typed, told>>

Stray(r) ==
  /\ r \in astray
  /\ Arrived(r)
  /\ astray' = astray \ {r}
  /\ UNCHANGED <<composer, draftVars, sends, ledger, ids, reloads, typed, told>>

\* The delivery ends in quarantine, a dead letter or a cancellation.
EndsBadly(r) ==
  /\ r \in server /\ r.live
  /\ server' = (server \ {r}) \cup {[r EXCEPT !.live = FALSE]}
  /\ UNCHANGED <<composer, draftVars, sends, ledger, astray, ids, reloads, typed, told>>

\* The page is closed and opened again: what storage took is there, cut to
\* MaxLength once a composer shows it.
Reload ==
  /\ reloads < MaxReloads
  /\ reloads' = reloads + 1
  /\ composer' = At(Elsewhere, <<>>)
  /\ memory' = [c \in Composer |-> <<>>]
  /\ sends' = [s \in SendSlot |-> NoSend]
  /\ LET flying == {sends[s] : s \in {x \in SendSlot : Sending(x)}}
     IN  /\ astray' \in {astray \cup {Request(f) : f \in out} :
              out \in SUBSET {f \in flying : f.phase = "post"}}
         /\ lost' = lost \cup Beyond(composer.text)
              \cup (UNION {ToSet(f.text) : f \in {x \in flying : ~Waiting(x)}})
              \cup (UNION {ToSet(memory[c]) \ ToSet(Cut(storage[c])) : c \in unsaved})
  /\ unsaved' = {}
  /\ UNCHANGED <<storage, refusals, ledger, server, ids, typed, told>>

SendNext ==
  \/ Type
  \/ \E k \in Anywhere : Switch(k)
  \/ \E r \in server : Offer(r)
  \/ Refuse
  \/ \E s \in SendSlot :
       \/ SubmitWaiting(s) \/ SubmitReply(s)
       \/ Register(s) \/ RegisterFails(s) \/ Look(s) \/ Post(s) \/ Hear(s) \/ Lose(s)
  \/ \E r \in astray : Stray(r)
  \/ \E r \in server : EndsBadly(r)
  \/ Reload

SendSpec == SendInit /\ [][SendNext]_sendVars

---------------------------------------------------------------------------
\* A request that the server has, or may still get, and that the user was not
\* told of is in a ledger under its fingerprint: the same text sent again by the
\* same route, quoting the same, is the same request and finds it, whatever was
\* lost, closed or refused meanwhile.  (By another route it is another request.)
LostIsReconciled ==
  /\ \A r \in server \cup astray :
       r.id \notin told =>
         \E e \in ledger : e.id = r.id /\ Fingerprint(e) = Fingerprint(r)
  /\ \A e, f \in ledger : Fingerprint(e) = Fingerprint(f) => e = f

\* What was typed is on screen, in a draft its composer will show, on its way or at
\* the server; except what exceeds the length of a draft and, when the page is closed,
\* replies on their way and drafts of which storage refused the last write.
UnsentIsKept ==
  \A p \in 1 .. typed :
    \/ p \in lost
    \/ \E c \in Composer :
         p \in ToSet(IF composer.at = c THEN composer.text ELSE Draft(c))
    \/ \E s \in SendSlot : Sending(s) /\ p \in ToSet(sends[s].text)
    \/ \E r \in server \cup astray : p \in ToSet(r.text)
=============================================================================
