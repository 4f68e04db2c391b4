----------------------------- MODULE ChatDetail -----------------------------
(***************************************************************************)
(* The transcript of the selected chat: loads that selection, the event    *)
(* stream and polling ask for, the two reads of each load, the memory of   *)
(* recently shown chats and what is prefetched into it, and the merge of   *)
(* what two reads say of one turn (loadDetail, prefetchRun, cachedDetail,  *)
(* syncProps of src/ui/ChatsPageController.ts; src/ui/turnRecovery.ts).    *)
(*                                                                         *)
(* A turn goes through versions 1, 2, ... and is completed in the last;    *)
(* its text, tool calls and updated_at grow with the version, 0 is a turn  *)
(* that does not exist.  Each answer describes the moment it was given.    *)
(***************************************************************************)
EXTENDS Naturals, FiniteSets

CONSTANTS
  Chat,
  NoChat,
  Original,    \* the turn of the prompt that started the chat
  Reply,       \* the turns of follow-ups
  Completed,   \* the last version of a turn
  LastVersion, \* bound: the last version that each turn of a chat reaches
  MaxLoads     \* bound: loads and prefetches in flight at a time

Turn == {Original} \cup Reply
Slot == 1 .. MaxLoads

ASSUME DetailAssumption ==
  /\ NoChat \notin Chat /\ Original \notin Reply
  /\ {Completed, MaxLoads} \subseteq Nat \ {0}
  /\ LastVersion \in [Chat -> [Turn -> 0..Completed]]

VARIABLES
  saved,      \* the server: the version of each turn of each chat
  selected,   \* selectedRunId while the chats are in view
  shown,      \* detail, turns and detailError
  flight,     \* detailInFlightFor and detailRefreshFor
  load,       \* the loads in flight
  recent,     \* recentDetails
  prefetch,   \* a prefetch in flight
  outdated    \* history: told to reload since the current load began

detailVars == <<saved, selected, shown, flight, load, recent, prefetch, outdated>>

NoTurns == [t \in Turn |-> 0]
Nothing == [chat |-> NoChat]
Asked   == [is |-> "asked"]    \* the states of a read
Absent  == [is |-> "failed"]
Answer(value) == [is |-> "answer", value |-> value]

Max2(a, b) == IF a < b THEN b ELSE a
OnlyOriginal(v) == [NoTurns EXCEPT ![Original] = v]

\* mergeConfirmedTurns: no turn is lost, and the later version wins.
MergeTurns(a, b) == [t \in Turn |-> Max2(a[t], b[t])]

\* mutant: the turns on screen are kept whichever chat they are of
RecoverVisibleTurns_AnyRun(stored, previous, original, sameRun) ==
  LET confirmed == IF stored # Absent THEN MergeTurns(stored.value, previous)
                   ELSE IF previous # NoTurns THEN previous
                   ELSE OnlyOriginal(original)
  IN  [confirmed EXCEPT ![Original] = Max2(@, original)]

\* mutant: a failed read of the turns leaves the original
RecoverVisibleTurns_OriginalOnly(stored, previous, original, sameRun) ==
  IF stored = Absent THEN OnlyOriginal(original)
  ELSE [(IF sameRun THEN MergeTurns(stored.value, previous) ELSE stored.value)
          EXCEPT ![Original] = Max2(@, original)]

\* A failed read of the turns must not replace several turns by the original.
RecoverVisibleTurns(stored, previous, original, sameRun) ==
  LET confirmed ==
        IF stored # Absent
        THEN IF sameRun THEN MergeTurns(stored.value, previous) ELSE stored.value
        ELSE IF sameRun /\ previous # NoTurns THEN previous
        ELSE OnlyOriginal(original)
  IN  IF confirmed[Original] = Completed /\ original # Completed THEN confirmed
      ELSE [confirmed EXCEPT ![Original] = Max2(@, original)]

DetailInit ==
  /\ saved = [c \in Chat |-> OnlyOriginal(1)]
  /\ selected = NoChat
  /\ shown = [chat |-> NoChat, turns |-> NoTurns, of |-> NoChat, error |-> FALSE]
  /\ flight = [for |-> NoChat, again |-> NoChat]
  /\ load = [s \in Slot |-> Nothing]
  /\ recent = [c \in Chat |-> NoTurns]
  /\ prefetch = Nothing
  /\ outdated = FALSE

---------------------------------------------------------------------------
(* Loads.                                                                  *)

Flying(s) == load[s].chat # NoChat
Free == {s \in Slot : ~Flying(s)}
Room == Cardinality(Free) > (IF prefetch = Nothing THEN 0 ELSE 1)

\* ++detailGeneration: no load is current any more.
Superseded(loads) ==
  [s \in Slot |-> IF loads[s].chat = NoChat THEN loads[s]
                  ELSE [loads[s] EXCEPT !.current = FALSE]]

\* mutant: a load in flight swallows the request
LoadDetail_Swallows(c, loads, display, now) ==
  IF now.for = c
  THEN flight' = now /\ load' = loads /\ shown' = display
  ELSE \E s \in {x \in Slot : loads[x].chat = NoChat} :
       /\ flight' = [now EXCEPT !.for = c]
       /\ load' = [Superseded(loads) EXCEPT ![s] =
            [chat |-> c, current |-> TRUE, fresh |-> display.chat # c,
             primary |-> Asked, replies |-> Asked, late |-> FALSE]]
       /\ shown' = IF display.chat # c THEN [display EXCEPT !.error = FALSE] ELSE display

\* loadDetail(c) while c is selected.
LoadDetail(c, loads, display, now) ==
  IF now.for = c
  THEN /\ flight' = [now EXCEPT !.again = c]
       /\ load' = loads
       /\ shown' = display
  ELSE \E s \in {x \in Slot : loads[x].chat = NoChat} :
       /\ flight' = [now EXCEPT !.for = c]
       /\ load' = [Superseded(loads) EXCEPT ![s] =
            [chat |-> c, current |-> TRUE, fresh |-> display.chat # c,
             primary |-> Asked, replies |-> Asked, late |-> FALSE]]
       /\ shown' = IF display.chat # c THEN [display EXCEPT !.error = FALSE] ELSE display

\* The finally of loadDetail.
Finish(s, display) ==
  LET c == load[s].chat
      loads == [load EXCEPT ![s] = Nothing]
      ended == [for |-> NoChat, again |-> IF flight.again = c THEN NoChat ELSE flight.again]
  IN  IF flight.for # c
      THEN load' = loads /\ shown' = display /\ UNCHANGED <<flight, outdated>>
      ELSE IF flight.again = c /\ selected = c
      THEN LoadDetail(c, loads, display, ended) /\ outdated' = FALSE
      ELSE load' = loads /\ shown' = display /\ flight' = ended /\ UNCHANGED outdated

\* Selecting shows what is remembered, unless it is too old, and loads.
Select(c, young) ==
  /\ c # selected /\ Room
  /\ selected' = c
  /\ LET cached == young /\ recent[c] # NoTurns
         display == IF cached
                    THEN [chat |-> c, turns |-> recent[c], of |-> c, error |-> FALSE]
                    ELSE shown
     IN  LoadDetail(c, load, display, flight)
  /\ outdated' = (flight.for = c)
  /\ UNCHANGED <<saved, recent, prefetch>>

Deselect ==
  /\ selected # NoChat
  /\ selected' = NoChat
  /\ shown' = [chat |-> NoChat, turns |-> NoTurns, of |-> NoChat, error |-> FALSE]
  /\ load' = Superseded(load)
  /\ outdated' = FALSE
  /\ UNCHANGED <<saved, flight, recent, prefetch>>

\* The event stream, the poll of an active turn, a receipt or another tab.
Invalidate ==
  /\ selected # NoChat /\ Room
  /\ LoadDetail(selected, load, shown, flight)
  /\ outdated' = (flight.for = selected)
  /\ UNCHANGED <<saved, selected, recent, prefetch>>

---------------------------------------------------------------------------
(* The reads of a load: the detail, which is required, and its turns.      *)

AnswerPrimary(s) ==
  /\ Flying(s) /\ load[s].primary = Asked
  /\ load' = [load EXCEPT ![s].primary = Answer(saved[load[s].chat][Original])]
  /\ UNCHANGED <<saved, selected, shown, flight, recent, prefetch, outdated>>

AnswerReplies(s, fails) ==
  /\ Flying(s) /\ load[s].replies = Asked
  /\ load' = [load EXCEPT ![s].replies = IF fails THEN Absent ELSE Answer(saved[load[s].chat])]
  /\ UNCHANGED <<saved, selected, shown, flight, recent, prefetch, outdated>>

FailPrimary(s) ==
  /\ Flying(s) /\ load[s].primary = Asked
  /\ Finish(s, IF load[s].current THEN [shown EXCEPT !.error = TRUE] ELSE shown)
  /\ UNCHANGED <<saved, selected, recent, prefetch>>

Current(s) == load[s].current /\ selected = load[s].chat

\* rememberDetail keeps a newer detail.
Remember(c, original, turns) ==
  recent' = [recent EXCEPT ![c] = IF @[Original] > original THEN @ ELSE turns]

\* The detail is there.  A first view waits 100 ms for the turns as well.
Render(s, inTime) ==
  /\ Flying(s) /\ load[s].primary # Asked /\ ~load[s].late
  /\ inTime => load[s].replies # Asked
  /\ LET l == load[s]
         original == l.primary.value
         early == l.fresh /\ inTime
         turns == RecoverVisibleTurns(IF early THEN l.replies ELSE Absent,
                                      shown.turns, original, ~l.fresh)
         display == [chat |-> l.chat, turns |-> turns, of |-> l.chat, error |-> FALSE]
     IN  IF ~Current(s) THEN Finish(s, shown) /\ UNCHANGED recent
         ELSE /\ Remember(l.chat, original, turns)
              /\ IF early THEN Finish(s, display)
                 ELSE /\ load' = [load EXCEPT ![s].late = TRUE]
                      /\ shown' = display
                      /\ UNCHANGED <<flight, outdated>>
  /\ UNCHANGED <<saved, selected, prefetch>>

\* The turns came later than the detail.
RenderTurns(s) ==
  /\ Flying(s) /\ load[s].late /\ load[s].replies # Asked
  /\ LET l == load[s]
         turns == RecoverVisibleTurns(l.replies, shown.turns, l.primary.value, TRUE)
     IN  IF ~Current(s) THEN Finish(s, shown) /\ UNCHANGED recent
         ELSE /\ Remember(l.chat, l.primary.value, turns)
              /\ Finish(s, [shown EXCEPT !.turns = turns, !.of = l.chat])
  /\ UNCHANGED <<saved, selected, prefetch>>

---------------------------------------------------------------------------
\* Pointing at a chat reads it ahead, unless it is shown or remembered.
Prefetch(c) ==
  /\ prefetch = Nothing /\ c # selected /\ Room
  /\ prefetch' = [chat |-> c, answer |-> Asked]
  /\ UNCHANGED <<saved, selected, shown, flight, load, recent, outdated>>

AnswerPrefetch(fails) ==
  /\ prefetch # Nothing /\ prefetch.answer = Asked
  /\ prefetch' = [prefetch EXCEPT !.answer = Answer(
       [original |-> saved[prefetch.chat][Original],
        stored |-> IF fails THEN Absent ELSE Answer(saved[prefetch.chat])])]
  /\ UNCHANGED <<saved, selected, shown, flight, load, recent, outdated>>

RememberPrefetch ==
  /\ prefetch # Nothing /\ prefetch.answer # Asked
  /\ LET a == prefetch.answer.value
     IN  Remember(prefetch.chat, a.original,
                  RecoverVisibleTurns(a.stored, NoTurns, a.original, FALSE))
  /\ prefetch' = Nothing
  /\ UNCHANGED <<saved, selected, shown, flight, load, outdated>>

FailPrefetch ==
  /\ prefetch # Nothing
  /\ prefetch' = Nothing
  /\ UNCHANGED <<saved, selected, shown, flight, load, recent, outdated>>

\* An answer grows, or a follow-up of a concluded answer begins.
Progress(c, t) ==
  /\ saved[c][t] < LastVersion[c][t]
  /\ t # Original => saved[c][Original] = Completed
  /\ saved' = [saved EXCEPT ![c][t] = @ + 1]
  /\ UNCHANGED <<selected, shown, flight, load, recent, prefetch, outdated>>

DetailNext ==
  \/ \E c \in Chat :
       \/ \E young \in BOOLEAN : Select(c, young)
       \/ Prefetch(c) \/ \E t \in Turn : Progress(c, t)
  \/ Deselect \/ Invalidate
  \/ \E s \in Slot :
       \/ AnswerPrimary(s) \/ FailPrimary(s) \/ RenderTurns(s)
       \/ \E b \in BOOLEAN : AnswerReplies(s, b) \/ Render(s, b)
  \/ (\E fails \in BOOLEAN : AnswerPrefetch(fails)) \/ RememberPrefetch \/ FailPrefetch

DetailSpec == DetailInit /\ [][DetailNext]_detailVars

---------------------------------------------------------------------------
\* What is shown is one chat: the turns belong to the detail beside them and say
\* nothing the server never said of that chat, and nothing is shown when none is
\* selected, whichever answers come after the selection changed
\* (detailGeneration, selectedRunId).
ShownIsOneChat ==
  /\ shown.of = shown.chat
  /\ selected = NoChat => shown.chat = NoChat
  /\ shown.chat # NoChat => \A t \in Turn : shown.turns[t] <= saved[shown.chat][t]

\* A chat that changed while it was being loaded is loaded again: the request is
\* remembered as long as the load it waits for is in flight (detailRefreshFor).
NoRefreshIsLost ==
  selected # NoChat /\ outdated =>
    /\ flight = [for |-> selected, again |-> selected]
    /\ \E s \in Slot : load[s].chat = selected

\* While a chat stays on screen no turn of it vanishes or goes back: not by a
\* late answer, an answer without its turns, or two reads that crossed
\* (recoverVisibleTurns, mergeConfirmedTurns).
TurnsNeverVanish ==
  [][selected' = selected /\ shown'.chat = shown.chat
       => \A t \in Turn : shown'.turns[t] >= shown.turns[t]]_detailVars
=============================================================================
