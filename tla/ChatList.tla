------------------------------ MODULE ChatList ------------------------------
(***************************************************************************)
(* The list of chats: the first page that invalidations read again, the    *)
(* older pages that scrolling appends, and searches that replace it        *)
(* (loadList, loadMore and applyFilter of src/ui/ChatsPageController.ts,   *)
(* src/ui/resultListRefresh.ts).                                           *)
(*                                                                         *)
(* A chat is its id and the stamp of its latest activity; the list is      *)
(* sorted by it.  An answer describes the moment the server gave it and    *)
(* may arrive later.  A read that a newer one supersedes has no effect and *)
(* is forgotten, but the frame that its completion awaits is not.          *)
(***************************************************************************)
EXTENDS Naturals, FiniteSets, Functions

CONSTANTS
  Run,        \* the chats there may be
  Query,      \* what may be searched for; "" is no search
  Matching,   \* the chats that a query finds
  PageSize,   \* 100 in the code
  MaxStamp    \* bound: activities of all chats

ASSUME ListAssumption ==
  /\ IsFiniteSet(Run)
  /\ "" \in Query /\ Matching \in [Query -> SUBSET Run]
  /\ PageSize \in Nat \ {0} /\ MaxStamp \in Nat

VARIABLES
  activity,   \* the server: stamp of each chat, 0 before it exists
  clock,
  list,       \* items, total, nextOffset, appliedSearch and the flags
  first,      \* the current GET of the first page
  more,       \* the current GET of an older page
  frames,     \* completions of loadList that await an animation frame
  whole,      \* history: the answer of this search's reset was applied,
              \* never more than a page of chats changed between two first pages,
              \* and none arrived while an older page was on its way
  seen        \* history: the clock when the last first page was served

listVars == <<activity, clock, list, first, more, frames, whole, seen>>

NoRead == [phase |-> "none"]
Idle(read) == read.phase = "none"

\* The n latest of a set of chats with their stamps.
Top(stamps, n) ==
  Restrict(stamps, {r \in DOMAIN stamps :
    Cardinality({s \in DOMAIN stamps : stamps[s] > stamps[r]}) < n})

Found(q) == Restrict(activity, {r \in Matching[q] : activity[r] > 0})

\* The later entry wins, as in new Map([...a, ...b]).
Updated(a, b) ==
  [r \in DOMAIN a \cup DOMAIN b |-> IF r \in DOMAIN b THEN b[r] ELSE a[r]]

Smaller(a, b) == IF a < b THEN a ELSE b
Larger(a, b)  == IF a < b THEN b ELSE a

Page(q, offset) ==
  LET found == Found(q)
      upTo  == Top(found, offset + PageSize)
      skip  == DOMAIN Top(found, offset)
  IN  [rows |-> Restrict(upTo, DOMAIN upTo \ skip), total |-> Cardinality(DOMAIN found)]

\* mutant: a refresh drops the older pages
ReconcileResultPage_FirstOnly(rows, page) == page.rows

\* Older pages stay while the result is longer than a page.
ReconcileResultPage(rows, page) ==
  LET retained == IF page.total <= PageSize THEN <<>> ELSE rows
  IN  Top(Updated(retained, page.rows), page.total)

ListInit ==
  /\ activity = [r \in Run |-> 0] /\ clock = 0
  /\ list = [rows |-> <<>>, total |-> 0, next |-> 0, search |-> "", error |-> FALSE,
             busy |-> FALSE, pending |-> FALSE, loadingMore |-> FALSE, loading |-> TRUE]
  /\ first = NoRead /\ more = NoRead
  /\ frames = [own |-> FALSE, old |-> FALSE]
  /\ whole = FALSE /\ seen = 0

---------------------------------------------------------------------------
\* The body of loadList once it reads: it supersedes the reads in flight, and
\* the frames awaited are those of earlier generations.
StartRead(l, reset, awaited) ==
  /\ list' = [l EXCEPT !.busy = TRUE, !.loadingMore = FALSE, !.loading = l.rows = <<>>,
                       !.pending = @ /\ ~reset]
  /\ first' = [phase |-> "asked", reset |-> reset, search |-> l.search]
  /\ more' = NoRead
  /\ frames' = [own |-> FALSE, old |-> awaited.own \/ awaited.old]

\* An invalidation, a poll or a receipt: refreshes coalesce.
RefreshList ==
  /\ IF list.busy
     THEN list' = [list EXCEPT !.pending = TRUE] /\ UNCHANGED <<first, more, frames>>
     ELSE StartRead(list, FALSE, frames)
  /\ UNCHANGED <<activity, clock, whole, seen>>

ApplyFilter(q) ==
  /\ StartRead([list EXCEPT !.search = q], TRUE, frames)
  /\ whole' = FALSE
  /\ UNCHANGED <<activity, clock, seen>>

ServeFirst ==
  /\ first.phase = "asked"
  /\ first' = [phase |-> "served", reset |-> first.reset, page |-> Page(first.search, 0),
               at |-> clock, changed |-> {r \in Matching[first.search] : activity[r] > seen}]
  /\ UNCHANGED <<activity, clock, list, more, frames, whole, seen>>

Complete(l) ==
  /\ list' = [l EXCEPT !.loading = FALSE]
  /\ first' = NoRead
  /\ frames' = [frames EXCEPT !.own = TRUE]
  /\ UNCHANGED <<activity, clock, more>>

FirstArrives ==
  /\ first.phase = "served"
  /\ LET page == first.page
         size == Cardinality(DOMAIN page.rows)
     IN  Complete([list EXCEPT
           !.rows = IF first.reset THEN page.rows ELSE ReconcileResultPage(@, page),
           !.total = page.total,
           !.next = Smaller(page.total, IF first.reset THEN size ELSE Larger(@, size)),
           !.error = FALSE])
  /\ whole' = (Idle(more) /\ (first.reset \/ (whole /\ Cardinality(first.changed) <= PageSize)))
  /\ seen' = first.at

FirstFails ==
  /\ ~Idle(first)
  /\ Complete([list EXCEPT !.error = TRUE])
  /\ UNCHANGED <<whole, seen>>

\* requestAnimationFrame: the completion goes on, whichever read is current.
AnimationFrame(which) ==
  /\ frames[which]
  /\ LET done == [list EXCEPT !.busy = FALSE, !.pending = FALSE]
         left == [frames EXCEPT ![which] = FALSE]
     IN  IF list.pending THEN StartRead(done, FALSE, left)
         ELSE list' = done /\ frames' = left /\ UNCHANGED <<first, more>>
  /\ UNCHANGED <<activity, clock, whole, seen>>

---------------------------------------------------------------------------
LoadMore ==
  /\ ~list.loadingMore /\ ~list.loading /\ list.next < list.total
  /\ list' = [list EXCEPT !.loadingMore = TRUE]
  /\ more' = [phase |-> "asked", offset |-> list.next, search |-> list.search]
  /\ UNCHANGED <<activity, clock, first, frames, whole, seen>>

ServeMore ==
  /\ more.phase = "asked"
  /\ more' = [phase |-> "served", offset |-> more.offset, page |-> Page(more.search, more.offset)]
  /\ UNCHANGED <<activity, clock, list, first, frames, whole, seen>>

MoreArrives ==
  /\ more.phase = "served"
  /\ LET page == more.page
         size == Cardinality(DOMAIN page.rows)
     IN  list' = IF size = 0 /\ more.offset < page.total
                 THEN [list EXCEPT !.error = TRUE, !.loadingMore = FALSE]
                 ELSE [list EXCEPT !.rows = Updated(@, page.rows), !.total = page.total,
                                   !.next = Smaller(page.total, more.offset + size),
                                   !.error = FALSE, !.loadingMore = FALSE]
  /\ more' = NoRead
  /\ UNCHANGED <<activity, clock, first, frames, whole, seen>>

MoreFails ==
  /\ ~Idle(more)
  /\ list' = [list EXCEPT !.error = TRUE, !.loadingMore = FALSE]
  /\ more' = NoRead
  /\ UNCHANGED <<activity, clock, first, frames, whole, seen>>

\* A chat starts or goes on; the event stream tells the page at once.
Activity(r) ==
  /\ clock < MaxStamp
  /\ clock' = clock + 1
  /\ activity' = [activity EXCEPT ![r] = clock']
  /\ UNCHANGED <<list, first, more, frames, whole, seen>>

ListNext ==
  \/ RefreshList \/ (\E q \in Query : ApplyFilter(q))
  \/ ServeFirst \/ FirstArrives \/ FirstFails
  \/ (\E which \in {"own", "old"} : AnimationFrame(which))
  \/ LoadMore \/ ServeMore \/ MoreArrives \/ MoreFails
  \/ (\E r \in Run : Activity(r))

ListSpec == ListInit /\ [][ListNext]_listVars

---------------------------------------------------------------------------
Settled == Idle(first) /\ Idle(more) /\ ~list.error /\ ~list.loading

\* At rest the chats shown are those found that were active last, without a hole
\* between two pages and without one that the search does not find, however
\* chats moved while pages were read: as far as the next page starts, and if the
\* search's own first page came and no more than a page moved between two
\* (reconcileResultPage, nextResultPageOffset).
NoHole ==
  Settled /\ whole /\ (\A r \in Run : activity[r] <= seen) =>
    LET found == Found(list.search)
        shownFirst == Top(found, list.next)
    IN  /\ shownFirst = Restrict(list.rows, DOMAIN list.rows \cap DOMAIN shownFirst)
        /\ DOMAIN list.rows \subseteq DOMAIN found
=============================================================================
