-------------------------- MODULE SchedulerProofs --------------------------
(****************************************************************************)
(* No crash strands a delivery, no group runs twice and no interval starts  *)
(* early, for any number of jobs, schedules, commands, deaths and ticks.    *)
(****************************************************************************)
EXTENDS Scheduler, NaturalsInduction, WellFoundedInduction, TLAPS

Stages    == {"idle", "reconcile", "plan", "ensure", "decide", "enqueue", "record", "remove"}
Outcome   == {"succeeded", "failed"}
DefSet    == [kind : {"interval", "daily", "once"}, every : Nat, run : Nat, prompt : Nat]
IdSet     == [job : Jobs, prompt : Nat, marker : Nat]
StateSet  == [initial : Nat, next : Nat, sent : Nat, queued : Nat, fired : Nat,
              last : IdSet \cup {NoId}, completed : IdSet \cup {NoId},
              plan : DefSet \cup {NoJob}, paused : BOOLEAN]
RowSet    == [status : Pending \cup Outcome, created : Nat, finished : Nat]
TickSet   == [pc : Stages, j : Jobs, at : Nat, seen : [Jobs -> StateSet],
              defs : [Jobs -> DefSet \cup {NoJob}], id : IdSet \cup {NoId}, since : Nat]
AskedSet  == [op : {"none", "fire", "fired", "clear", "cancel", "rebase", "stop"},
              job : Jobs \cup {0}, every : Nat, at : Nat, gone : IdSet \cup {NoId}]

SchedulerTypeOK ==
  /\ wall \in Nat \ {0}
  /\ defined \in [Jobs -> DefSet \cup {NoJob}]
  /\ jobState \in [Jobs -> StateSet]
  /\ DOMAIN delivery \subseteq IdSet /\ delivery \in [DOMAIN delivery -> RowSet]
  /\ tick \in TickSet /\ request \in AskedSet
  /\ dispatched \in [Jobs -> Nat] /\ touched \subseteq Jobs /\ excused \subseteq IdSet

\* A state names deliveries that exist, its own, and what it has settled is over.
Refers(s, j) ==
  /\ s.last # NoId => s.last \in DOMAIN delivery /\ s.last.job = j /\ s.plan # NoJob
  /\ s.completed # NoId => Status(s.completed) \in Outcome

TickOK ==
  /\ tick.pc # "idle" => tick.at > 0
  /\ tick.pc = "plan" => tick.j = 1
  /\ \A j \in Jobs : Refers(jobState[j], j) /\ Refers(tick.seen[j], j)
  /\ tick.pc \in {"enqueue", "record", "remove"} =>
       tick.defs[tick.j] # NoJob /\ tick.id \in IdSet /\ tick.id.job = tick.j
  /\ tick.pc = "record" => tick.id \in DOMAIN delivery
  /\ request = NoRequest \/ request.job \in Jobs
  /\ request.op \in {"fire", "fired"} /\ request.gone # NoId => Status(request.gone) \in Outcome

\* A delivery that the state of its job does not know and no command cut off
Stray(x) ==
  /\ x \in DOMAIN delivery \ excused
  /\ delivery[x].status \in Pending
  /\ jobState[x.job].last # x

HasRun(s) == s.sent # 0 \/ s.queued # 0 \/ s.initial # 0 \/ s.next # 0

\* The stages that go by the definitions as the tick has read them
UsesDefs == {"ensure", "decide", "enqueue", "record", "remove"}

\* A stray delivery is what the next decision comes upon, whatever the next tick
\* does before it: there is nothing to settle and no first run to set.
StraysAwait ==
  \A x \in DOMAIN delivery : Stray(x) =>
    LET s == jobState[x.job] d == defined[x.job] IN
    /\ d # NoJob /\ OccurrenceKey(x.job, d, s) = x
    /\ s.last = s.completed
    /\ d.kind = "once" \/ HasRun(s)
    /\ tick.pc \in UsesDefs => tick.defs[x.job] = d
    /\ tick.pc = "reconcile" /\ x.job >= tick.j =>
         tick.seen[x.job].last = s.last /\ tick.seen[x.job].completed = s.completed

\* The job in hand waits for nothing but what is in hand.
HandIsFree ==
  /\ tick.pc \in {"enqueue", "record"} =>
       ~HasPending(tick.j) /\ \A x \in DOMAIN delivery : Stray(x) /\ x.job = tick.j => x = tick.id
  /\ tick.pc = "remove" => \A x \in DOMAIN delivery : Stray(x) => x.job # tick.j

\* What no command was about is as the tick read it.
UntouchedStay ==
  \A j \in Jobs \ touched :
    /\ tick.pc = "ensure" \/ (tick.pc \in UsesDefs /\ j >= tick.j) => defined[j] = tick.defs[j]
    /\ \/ tick.pc = "ensure" /\ j < tick.j
       \/ tick.pc \in {"decide", "enqueue"} /\ j >= tick.j
       \/ tick.pc \in {"record", "remove"} /\ j > tick.j
       => tick.defs[j] = NoJob \/ tick.defs[j].kind = "once" \/ HasRun(jobState[j])
    /\ tick.pc = "enqueue" /\ j = tick.j => OccurrenceKey(j, tick.defs[j], jobState[j]) = tick.id

\* Of two jobs of a group one may count.
CountsForGroup(k) == defined[k] # NoJob /\ HasPending(k) /\ jobState[k].last \notin excused

\* Who was not defined when the tick read the jobs does not count, and who is in hand
\* waits for nobody that counts.
GroupWaits ==
  /\ tick.pc \in UsesDefs => \A k \in Jobs : CountsForGroup(k) => tick.defs[k] # NoJob
  /\ tick.pc \in {"enqueue", "record"} /\ tick.j \in MutexGroup =>
       \A k \in MutexGroup \ {tick.j} : ~CountsForGroup(k)

SchedulerInv ==
  /\ SchedulerTypeOK /\ TickOK
  /\ StraysAwait /\ HandIsFree /\ UntouchedStay /\ GroupWaits /\ GroupExcludes

(****************************************************************************)
(* Numbers.                                                                 *)
(****************************************************************************)
\* A set of numbers has a smallest one.
LEMMA MinIsIn ==
  ASSUME NEW S \in SUBSET Nat, S # {}
  PROVE  Min(S) \in S
<1>1. PICK m \in S : \A n \in S : <<n, m>> \notin OpToRel(<, Nat)
  BY WFMin, NatLessThanWellFounded, Zenon
<1>2. \A n \in S : ~(n < m)
  <2>1. \A n \in Nat : n < m => <<n, m>> \in OpToRel(<, Nat)
    BY <1>1, Zenon DEF OpToRel
  <2> QED BY <1>1, <2>1
<1>3. \A n \in S : m =< n
  BY <1>2
<1> QED BY <1>3, Zenon DEF Min

LEMMA MaxOfTwo ==
  ASSUME NEW a \in Nat, NEW b \in Nat
  PROVE  Max({a, b}) \in Nat /\ Max({a, b}) \in {a, b} /\ Max({a, b}) >= a /\ Max({a, b}) >= b
<1> DEFINE m == IF a >= b THEN a ELSE b
<1>1. m \in {a, b} /\ \A y \in {a, b} : m >= y
  OBVIOUS
<1> HIDE DEF m
<1>2. Max({a, b}) \in {a, b} /\ \A y \in {a, b} : Max({a, b}) >= y
  BY <1>1, Zenon DEF Max
<1> QED BY <1>2

LEMMA MaxOfThree ==
  ASSUME NEW a \in Nat, NEW b \in Nat, NEW c \in Nat
  PROVE  LET m == Max({a, b, c}) IN m \in Nat /\ m >= a /\ m >= b /\ m >= c
<1> DEFINE n == IF a >= b THEN a ELSE b
           m == IF n >= c THEN n ELSE c
<1>1. m \in {a, b, c} /\ \A y \in {a, b, c} : m >= y
  OBVIOUS
<1> HIDE DEF m
<1>2. Max({a, b, c}) \in {a, b, c} /\ \A y \in {a, b, c} : Max({a, b, c}) >= y
  BY <1>1, Zenon DEF Max
<1> QED BY <1>2

\* The next daily run is after the epoch.
LEMMA DailyIsLater ==
  ASSUME NEW t \in Nat, NEW now \in BOOLEAN
  PROVE  NextDaily(t, now) \in Nat \ {0}
<1> DEFINE S == {n \in {Day * k : k \in 1 .. (t + 1)} : n > t \/ (now /\ n = t)}
<1>1. Day \in Nat \ {0}
  BY SchedulerAssumption
<1>2. \A k \in Nat : k > 0 => Day * k \in Nat /\ Day * k >= k
  BY <1>1
<1>3. S \subseteq Nat \ {0}
  BY <1>2
<1>4. Day * (t + 1) \in S
  BY <1>2
<1> HIDE DEF S
<1>5. Min(S) \in S
  BY <1>3, <1>4, MinIsIn
<1> QED BY <1>3, <1>5 DEF NextDaily, S

(****************************************************************************)
(* Types and references.                                                    *)
(****************************************************************************)
LEMMA SchedulerConstants ==
  /\ Jobs \subseteq Nat /\ 0 \notin Jobs /\ 1 \in Jobs
  /\ NoId \notin IdSet /\ NoJob \notin DefSet
  /\ Clear \in StateSet /\ NoTick \in TickSet /\ NoRequest \in AskedSet
  /\ \A j \in Jobs, n \in {1, 2} : Definition(j, n) \subseteq DefSet
<1>1. Jobs \subseteq Nat /\ 0 \notin Jobs /\ 1 \in Jobs
  BY SchedulerAssumption DEF Jobs
<1>2. NoId \notin IdSet /\ NoJob \notin DefSet
  BY <1>1 DEF NoId, IdSet, NoJob, DefSet
<1>3. Clear \in StateSet
  BY DEF Clear, StateSet
<1>4. NoTick \in TickSet
  BY <1>1, <1>3 DEF NoTick, TickSet, Stages
<1>5. NoRequest \in AskedSet
  BY DEF NoRequest, RequestFor, AskedSet
<1>6. ASSUME NEW j \in Jobs, NEW n \in {1, 2} PROVE Definition(j, n) \subseteq DefSet
  <2>1. Schedule[j] \subseteq [kind : {"interval", "daily", "once"}, every : Nat, run : Nat]
    BY <1>6, SchedulerAssumption DEF Jobs
  <2> QED BY <2>1 DEF Definition, DefSet
<1> QED BY <1>1, <1>2, <1>3, <1>4, <1>5, <1>6

\* Where a tick goes on
LEMMA OnwardIs ==
  ASSUME tick \in TickSet, NEW stage \in {"reconcile", "ensure", "decide"}
  PROVE  LET n == Onward(stage) IN
         \/ /\ n \in TickSet /\ tick.j < LastJob
            /\ n.pc = stage /\ n.j = tick.j + 1
            /\ n.at = tick.at /\ n.seen = tick.seen /\ n.defs = tick.defs
         \/ /\ n \in TickSet /\ tick.j = LastJob /\ stage = "reconcile"
            /\ n.pc = "plan" /\ n.j = 1 /\ n.at = tick.at /\ n.seen = NoTick.seen
         \/ /\ n \in TickSet /\ tick.j = LastJob /\ stage = "ensure"
            /\ n.pc = "decide" /\ n.j = 1
            /\ n.at = tick.at /\ n.seen = tick.seen /\ n.defs = tick.defs
         \/ n = NoTick /\ stage = "decide"
<1>1. tick.j \in 1 .. LastJob /\ LastJob \in Nat
  BY SchedulerAssumption DEF TickSet, Jobs
<1>2. CASE tick.j < LastJob
  <2>1. tick.j + 1 \in Jobs
    BY <1>1, <1>2 DEF Jobs
  <2>2. stage \in Stages
    BY DEF Stages
  <2> QED BY <1>2, <2>1, <2>2 DEF Onward, TickSet
<1>3. CASE ~(tick.j < LastJob) /\ stage = "reconcile"
  <2>1. Onward(stage) = [NoTick EXCEPT !.pc = "plan", !.at = tick.at]
    BY <1>3 DEF Onward
  <2>2. NoTick \in TickSet /\ tick.at \in Nat
    BY SchedulerConstants DEF TickSet
  <2>3. NoTick.j = 1
    BY DEF NoTick
  <2>4. "plan" \in Stages
    BY DEF Stages
  <2>5. LET n == [NoTick EXCEPT !.pc = "plan", !.at = tick.at] IN
          n \in TickSet /\ n.pc = "plan" /\ n.j = 1 /\ n.at = tick.at /\ n.seen = NoTick.seen
    BY <2>2, <2>3, <2>4 DEF TickSet
  <2>6. tick.j = LastJob
    BY <1>1, <1>3
  <2> QED BY <1>3, <2>1, <2>5, <2>6
<1>4. CASE ~(tick.j < LastJob) /\ stage = "ensure"
  <2>1. Onward(stage) = [tick EXCEPT !.pc = "decide", !.j = 1]
    BY <1>4 DEF Onward
  <2>2. "decide" \in Stages /\ 1 \in Jobs
    BY SchedulerConstants DEF Stages
  <2>3. LET n == [tick EXCEPT !.pc = "decide", !.j = 1] IN
          /\ n \in TickSet /\ n.pc = "decide" /\ n.j = 1
          /\ n.at = tick.at /\ n.seen = tick.seen /\ n.defs = tick.defs
    BY <2>2 DEF TickSet
  <2>4. tick.j = LastJob
    BY <1>1, <1>4
  <2> QED BY <1>4, <2>1, <2>3, <2>4
<1>5. CASE ~(tick.j < LastJob) /\ stage = "decide"
  BY <1>1, <1>5 DEF Onward
<1> QED BY <1>2, <1>3, <1>4, <1>5

Base == SchedulerTypeOK /\ TickOK

\* What the types say, field by field
LEMMA BaseFacts ==
  ASSUME Base
  PROVE  /\ wall \in Nat \ {0} /\ tick.at \in Nat /\ tick.since \in Nat
         /\ tick.pc \in Stages /\ tick.j \in Jobs /\ tick \in TickSet
         /\ tick.seen \in [Jobs -> StateSet] /\ tick.defs \in [Jobs -> DefSet \cup {NoJob}]
         /\ jobState \in [Jobs -> StateSet] /\ defined \in [Jobs -> DefSet \cup {NoJob}]
         /\ DOMAIN delivery \subseteq IdSet /\ delivery \in [DOMAIN delivery -> RowSet]
         /\ \A x \in DOMAIN delivery : x.job \in Jobs /\ delivery[x] \in RowSet
         /\ \A j \in Jobs : Refers(jobState[j], j) /\ Refers(tick.seen[j], j)
         /\ dispatched \in [Jobs -> Nat] /\ touched \subseteq Jobs /\ excused \subseteq IdSet
         /\ request \in AskedSet
BY DEF Base, SchedulerTypeOK, TickOK, TickSet, IdSet

\* References stay good as long as nothing is forgotten or begins again.
LEMMA StillRefers ==
  ASSUME Base, DOMAIN delivery \subseteq DOMAIN delivery',
         \A x \in DOMAIN delivery : delivery[x].status \in Outcome => delivery'[x].status \in Outcome,
         tick'.seen \in {tick.seen, jobState, NoTick.seen},
         \A k \in Jobs : \/ /\ jobState'[k].last = jobState[k].last
                            /\ jobState'[k].completed = jobState[k].completed
                            /\ jobState'[k].plan = jobState[k].plan
                         \/ Refers(jobState[k], k)'
  PROVE  \A k \in Jobs : Refers(jobState[k], k)' /\ Refers(tick.seen[k], k)'
<1> SUFFICES ASSUME NEW k \in Jobs PROVE Refers(jobState[k], k)' /\ Refers(tick.seen[k], k)'
  OBVIOUS
<1>1. Refers(jobState[k], k) /\ Refers(tick.seen[k], k)
  BY BaseFacts
<1>2. \A x : Status(x) \in Outcome => Status(x)' \in Outcome
  BY DEF Status, Outcome
<1>3. Refers(jobState[k], k)'
  BY <1>1, <1>2 DEF Refers
<1>4. Refers(tick.seen[k], k)'
  <2>1. CASE tick'.seen = tick.seen
    BY <1>1, <1>2, <2>1 DEF Refers
  <2>2. CASE tick'.seen = jobState
    BY <1>1, <1>2, <2>2 DEF Refers
  <2>3. CASE tick'.seen = NoTick.seen
    <3>1. tick'.seen[k].last = NoId /\ tick'.seen[k].completed = NoId
      BY <2>3 DEF NoTick, Clear
    <3> QED BY <3>1 DEF Refers
  <2> QED BY <2>1, <2>2, <2>3
<1> QED BY <1>3, <1>4

\* The same, with no delivery changed and one state written
LEMMA OneWritten ==
  ASSUME Base, UNCHANGED delivery, NEW j \in Jobs, NEW new \in StateSet,
         jobState' = [jobState EXCEPT ![j] = new],
         new.last # NoId => new.last \in DOMAIN delivery /\ new.last.job = j /\ new.plan # NoJob,
         new.completed # NoId => Status(new.completed) \in Outcome,
         tick'.seen \in {tick.seen, jobState, NoTick.seen}
  PROVE  /\ jobState' \in [Jobs -> StateSet]
         /\ \A k \in Jobs : Refers(jobState[k], k)' /\ Refers(tick.seen[k], k)'
<1>1. jobState' \in [Jobs -> StateSet]
  BY BaseFacts
<1>2. Refers(jobState[j], j)'
  BY BaseFacts DEF Refers, Status
<1>3. \A k \in Jobs : k # j => jobState'[k] = jobState[k]
  BY BaseFacts
<1> QED BY <1>1, <1>2, <1>3, StillRefers

\* What holds of the tick is untouched by who leaves it and the deliveries' ends alone.
LEMMA TickKept ==
  ASSUME Base, UNCHANGED tick, DOMAIN delivery' = DOMAIN delivery,
         \A x \in DOMAIN delivery : delivery[x].status \in Outcome => delivery'[x].status \in Outcome,
         \A k \in Jobs : \/ /\ jobState'[k].last = jobState[k].last
                            /\ jobState'[k].completed = jobState[k].completed
                            /\ jobState'[k].plan = jobState[k].plan
                         \/ Refers(jobState[k], k)',
         request' = NoRequest \/ request'.job \in Jobs,
         request'.op \in {"fire", "fired"} /\ request'.gone # NoId => Status(request.gone)' \in Outcome
  PROVE  TickOK'
<1>1. \A k \in Jobs : Refers(jobState[k], k)' /\ Refers(tick.seen[k], k)'
  BY StillRefers
<1>2. TickOK
  BY DEF Base
<1> QED BY <1>1, <1>2 DEF TickOK, Status

\* The same when the request is left alone or answered
LEMMA RequestKept ==
  ASSUME Base, DOMAIN delivery' = DOMAIN delivery,
         \A x \in DOMAIN delivery : delivery[x].status \in Outcome => delivery'[x].status \in Outcome,
         request' \in {request, NoRequest}
  PROVE  /\ request' = NoRequest \/ request'.job \in Jobs
         /\ request'.op \in {"fire", "fired"} /\ request'.gone # NoId => Status(request.gone)' \in Outcome
<1>1. NoRequest.op \notin {"fire", "fired"}
  BY DEF NoRequest, RequestFor
<1>2. CASE request' = NoRequest
  BY <1>1, <1>2
<1>3. CASE request' = request
  <2>1. \A x : Status(x) \in Outcome => Status(x)' \in Outcome
    BY DEF Status, Outcome
  <2> QED BY <1>3, <2>1 DEF Base, TickOK
<1> QED BY <1>2, <1>3

(****************************************************************************)
(* Types and references: the steps of a tick.                               *)
(****************************************************************************)
LEMMA BeginTypes ==
  ASSUME Base, BeginTick PROVE Base'
<1>1. PICK seen \in [Jobs -> StateSet], at \in Nat \ {0} :
        seen = jobState /\ at = wall /\ tick' = [NoTick EXCEPT !.pc = "reconcile", !.at = at, !.seen = seen]
  BY BaseFacts DEF BeginTick
<1>2. /\ tick' \in TickSet /\ tick'.pc = "reconcile" /\ tick'.at = at /\ tick'.seen = jobState
  <2>1. "reconcile" \in Stages /\ NoTick \in TickSet
    BY SchedulerConstants DEF Stages
  <2> QED BY <1>1, <2>1 DEF TickSet
<1>3. \A k \in Jobs : Refers(jobState[k], k)' /\ Refers(tick.seen[k], k)'
  BY <1>2, StillRefers DEF BeginTick
<1>4. touched' \subseteq Jobs
  BY DEF BeginTick, Base, TickOK
<1>5. UNCHANGED <<wall, defined, jobState, delivery, request, dispatched, excused>>
  BY DEF BeginTick
<1>6. SchedulerTypeOK'
  BY <1>2, <1>4, <1>5 DEF Base, SchedulerTypeOK
<1>7. TickOK'
  BY <1>1, <1>2, <1>3, <1>5 DEF Base, TickOK, Status
<1> QED BY <1>6, <1>7 DEF Base

\* When only the tick and the job in hand change, what is left to show is the tick.
LEMMA TickTypes ==
  ASSUME Base, UNCHANGED <<wall, delivery, request, touched, excused>>,
         defined' \in [Jobs -> DefSet \cup {NoJob}], dispatched' \in [Jobs -> Nat],
         jobState' \in [Jobs -> StateSet],
         \A k \in Jobs : Refers(jobState[k], k)' /\ Refers(tick.seen[k], k)',
         tick' \in TickSet, tick'.pc # "idle" => tick'.at > 0,
         tick'.pc = "plan" => tick'.j = 1,
         tick'.pc \in {"enqueue", "record", "remove"} =>
           tick'.defs[tick'.j] # NoJob /\ tick'.id \in IdSet /\ tick'.id.job = tick'.j,
         tick'.pc = "record" => tick'.id \in DOMAIN delivery
  PROVE  Base'
<1>1. SchedulerTypeOK'
  BY DEF Base, SchedulerTypeOK
<1>2. TickOK'
  BY DEF Base, TickOK, Status
<1> QED BY <1>1, <1>2 DEF Base

\* Going on to the next job
LEMMA OnwardTypes ==
  ASSUME Base, UNCHANGED <<wall, delivery, request, touched, excused>>,
         defined' \in [Jobs -> DefSet \cup {NoJob}], dispatched' \in [Jobs -> Nat],
         NEW j \in Jobs, NEW new \in StateSet,
         jobState' = [jobState EXCEPT ![j] = new],
         new.last # NoId => new.last \in DOMAIN delivery /\ new.last.job = j /\ new.plan # NoJob,
         new.completed # NoId => Status(new.completed) \in Outcome,
         NEW stage \in {"reconcile", "ensure", "decide"}, tick' = Onward(stage),
         tick.pc # "idle"
  PROVE  Base'
<1>1. tick \in TickSet /\ tick.at > 0
  BY BaseFacts DEF Base, TickOK
<1>2. /\ tick' \in TickSet /\ (tick'.pc # "idle" => tick'.at > 0)
      /\ tick'.pc = "plan" => tick'.j = 1
      /\ tick'.pc \notin {"enqueue", "record", "remove"}
      /\ tick'.seen \in {tick.seen, NoTick.seen}
  <2>1. NoTick \in TickSet /\ NoTick.pc = "idle"
    BY SchedulerConstants DEF NoTick
  <2> QED BY <1>1, <2>1, OnwardIs
<1>3. /\ jobState' \in [Jobs -> StateSet]
      /\ \A k \in Jobs : Refers(jobState[k], k)' /\ Refers(tick.seen[k], k)'
  BY <1>2, OneWritten
<1> QED BY <1>2, <1>3, TickTypes

\* Times of runs are numbers.
LEMMA NextDueIsTime ==
  ASSUME NEW plan \in DefSet \cup {NoJob}, NEW t \in Nat, NEW jitter \in Nat
  PROVE  NextDueAt(plan, t, jitter) \in Nat
<1>1. plan.every \in Nat
  BY DEF DefSet, NoJob
<1>2. PICK daily \in Nat : daily = NextDaily(t, FALSE)
  BY DailyIsLater
<1>3. NextDueAt(plan, t, jitter) = CASE plan.kind = "once"  -> 0
                                    [] plan.kind = "daily" -> daily
                                    [] OTHER               -> t + plan.every + jitter
  BY <1>2, Zenon DEF NextDueAt
<1>4. t + plan.every + jitter \in Nat
  BY <1>1
<1> QED BY <1>3, <1>4

LEMMA ReconciledIs ==
  ASSUME NEW now \in StateSet, NEW s \in StateSet, NEW row \in RowSet, NEW jitter \in Nat
  PROVE  LET new == Reconciled(now, s, row, jitter) IN
         /\ new \in StateSet
         /\ new.last = now.last /\ new.plan = now.plan /\ new.completed = s.last
         /\ new.queued = now.queued /\ new.fired = now.fired
<1>1. s.plan \in DefSet \cup {NoJob} /\ s.fired \in Nat /\ s.plan.every \in Nat
  BY DEF StateSet, DefSet, NoJob
<1>2. PICK due \in Nat : due = NextDueAt(s.plan, row.finished, jitter)
  BY <1>1, NextDueIsTime DEF RowSet
<1>3. Max({due, s.fired + s.plan.every}) \in Nat
  BY <1>1, MaxOfTwo
<1>4. PICK next \in Nat : next = IF s.plan.kind = "interval" /\ s.fired > 0
                                 THEN Max({due, s.fired + s.plan.every}) ELSE due
  BY <1>3
<1>5. PICK sent \in Nat : sent = IF row.status = "succeeded" THEN row.finished ELSE now.sent
  BY DEF RowSet, StateSet
<1>6. Reconciled(now, s, row, jitter) =
        [now EXCEPT !.initial = 0, !.next = next, !.sent = sent, !.completed = s.last]
  BY <1>2, <1>4, <1>5 DEF Reconciled, StateSet
<1>7. PICK last \in IdSet \cup {NoId} : last = s.last
  BY DEF StateSet
<1>8. PICK new : new = [now EXCEPT !.initial = 0, !.next = next, !.sent = sent, !.completed = last]
  OBVIOUS
<1>9. /\ new \in StateSet /\ new.last = now.last /\ new.plan = now.plan /\ new.completed = last
      /\ new.queued = now.queued /\ new.fired = now.fired
  BY <1>8 DEF StateSet
<1>10. new = Reconciled(now, s, row, jitter)
  BY <1>6, <1>7, <1>8
<1> QED BY <1>7, <1>9, <1>10

\* A write that changes nothing
LEMMA SameState ==
  ASSUME Base, NEW j \in Jobs
  PROVE  /\ jobState[j] \in StateSet /\ jobState = [jobState EXCEPT ![j] = jobState[j]]
         /\ LET s == jobState[j] IN
            /\ s.last # NoId => s.last \in DOMAIN delivery /\ s.last.job = j /\ s.plan # NoJob
            /\ s.completed # NoId => Status(s.completed) \in Outcome
         /\ defined \in [Jobs -> DefSet \cup {NoJob}] /\ dispatched \in [Jobs -> Nat]
BY BaseFacts DEF Refers

\* What reconciliation writes about the job in hand
LEMMA ReconcileWrites ==
  ASSUME Base, NEW jitter \in Jitter, ReconcileJob(jitter)
  PROVE  \E new \in StateSet :
           /\ jobState' = [jobState EXCEPT ![tick.j] = new]
           /\ new.last = jobState[tick.j].last /\ new.plan = jobState[tick.j].plan
           /\ new.queued = jobState[tick.j].queued /\ new.fired = jobState[tick.j].fired
           /\ \/ new = jobState[tick.j]
              \/ /\ tick.seen[tick.j].last # tick.seen[tick.j].completed
                 /\ new.completed = tick.seen[tick.j].last
                 /\ Status(new.completed) \in Outcome
<1> DEFINE j == tick.j
           s == tick.seen[j]
<1>1. j \in Jobs /\ s \in StateSet /\ jobState[j] \in StateSet /\ jitter \in Nat
  BY BaseFacts, SchedulerAssumption
<1>2. CASE Status(s.last) \in {"succeeded", "failed"} /\ s.completed # s.last
  <2>1. s.last \in DOMAIN delivery
    BY <1>2 DEF Status
  <2>2. PICK row \in RowSet, now \in StateSet, then \in StateSet :
          row = delivery[s.last] /\ now = jobState[j] /\ then = s
    BY <1>1, <2>1, BaseFacts
  <2>3. PICK new \in StateSet : /\ new = Reconciled(now, then, row, jitter)
                                /\ new.last = now.last /\ new.plan = now.plan
                                /\ new.completed = then.last
                                /\ new.queued = now.queued /\ new.fired = now.fired
    <3>1. PICK r : r = Reconciled(now, then, row, jitter)
      OBVIOUS
    <3>2. /\ r \in StateSet
          /\ r.last = now.last /\ r.plan = now.plan /\ r.completed = then.last
          /\ r.queued = now.queued /\ r.fired = now.fired
      <4>1. now \in StateSet /\ then \in StateSet /\ row \in RowSet /\ jitter \in Nat
        BY <1>1, <2>2
      <4> QED BY ONLY <3>1, <4>1, ReconciledIs
    <3> QED BY <3>1, <3>2
  <2>4. jobState' = [jobState EXCEPT ![j] = new]
    BY <1>1, <1>2, <2>2, <2>3, BaseFacts DEF ReconcileJob
  <2> QED BY <1>2, <2>2, <2>3, <2>4 DEF Outcome
<1>3. CASE ~(Status(s.last) \in {"succeeded", "failed"} /\ s.completed # s.last)
  <2>1. jobState' = jobState
    BY <1>3 DEF ReconcileJob
  <2> QED BY <1>1, <2>1, SameState
<1> QED BY <1>2, <1>3

LEMMA ReconcileTypes ==
  ASSUME Base, NEW jitter \in Jitter, ReconcileJob(jitter) PROVE Base'
<1>1. PICK new \in StateSet :
           /\ jobState' = [jobState EXCEPT ![tick.j] = new]
           /\ new.last = jobState[tick.j].last /\ new.plan = jobState[tick.j].plan
           /\ new = jobState[tick.j] \/ Status(new.completed) \in Outcome
  BY ReconcileWrites
<1>2. tick.j \in Jobs
  BY BaseFacts
<1>3. /\ new.last # NoId => new.last \in DOMAIN delivery /\ new.last.job = tick.j /\ new.plan # NoJob
      /\ new.completed # NoId => Status(new.completed) \in Outcome
  BY <1>1, <1>2, SameState
<1>4. /\ tick.pc # "idle" /\ tick' = Onward("reconcile")
      /\ UNCHANGED <<wall, delivery, request, touched, excused, defined, dispatched>>
  BY DEF ReconcileJob, historyVars
<1> QED BY <1>1, <1>2, <1>3, <1>4, SameState, OnwardTypes

LEMMA ReadTypes ==
  ASSUME Base, ReadJobs PROVE Base'
<1>1. PICK t \in TickSet, defs \in [Jobs -> DefSet \cup {NoJob}] :
        t = tick /\ defs = defined /\ tick' = [t EXCEPT !.pc = "ensure", !.defs = defs]
  BY BaseFacts DEF ReadJobs
<1>2. /\ tick' \in TickSet /\ tick'.pc = "ensure" /\ tick'.at = tick.at /\ tick'.seen = tick.seen
  <2>1. "ensure" \in Stages
    BY DEF Stages
  <2> QED BY <1>1, <2>1 DEF TickSet
<1>3. tick.at > 0
  BY DEF ReadJobs, Base, TickOK
<1>4. UNCHANGED <<wall, defined, jobState, delivery, request, dispatched, touched, excused>>
  BY DEF ReadJobs, historyVars
<1>5. \A k \in Jobs : Refers(jobState[k], k)' /\ Refers(tick.seen[k], k)'
  BY <1>2, <1>4, StillRefers
<1> QED BY <1>2, <1>3, <1>4, <1>5, BaseFacts, TickTypes

\* What the planning of first runs writes about the job in hand
LEMMA EnsureWrites ==
  ASSUME Base, NEW jitter \in Jitter, EnsureInitial(jitter)
  PROVE  \E due \in Nat :
           LET s == jobState[tick.j]
               d == tick.defs[tick.j]
               new == IF d # NoJob /\ ~HasRun(s) THEN [s EXCEPT !.initial = due] ELSE s
           IN  /\ jobState' = [jobState EXCEPT ![tick.j] = new] /\ new \in StateSet
               /\ d.kind # "once" => due > 0
<1> DEFINE j == tick.j
           s == jobState[j]
           d == tick.defs[j]
           due == CASE d.kind = "once"  -> d.run
                    [] d.kind = "daily" -> NextDaily(tick.at, TRUE)
                    [] OTHER            -> tick.at + jitter
           new == IF d # NoJob /\ ~HasRun(s) THEN [s EXCEPT !.initial = due] ELSE s
<1>1. /\ j \in Jobs /\ s \in StateSet /\ d \in DefSet \cup {NoJob} /\ jitter \in Nat
      /\ tick.at \in Nat /\ tick.at > 0
  BY BaseFacts, SchedulerAssumption DEF EnsureInitial, Base, TickOK
<1>2. PICK daily \in Nat \ {0} : daily = NextDaily(tick.at, TRUE)
  BY <1>1, DailyIsLater
<1>3. due \in Nat /\ (d.kind # "once" => due > 0)
  <2>1. due = CASE d.kind = "once"  -> d.run
                [] d.kind = "daily" -> daily
                [] OTHER            -> tick.at + jitter
    BY <1>2, Zenon
  <2> HIDE DEF due
  <2>2. d.run \in Nat /\ tick.at + jitter \in Nat /\ tick.at + jitter > 0
    BY <1>1 DEF DefSet, NoJob
  <2> QED BY <1>1, <2>1, <2>2
<1>4. {s.sent, s.queued, s.initial, s.next} = {0} <=> ~HasRun(s)
  BY DEF HasRun
<1> HIDE DEF due
<1>5. jobState' = [jobState EXCEPT ![j] = new]
  <2>1. IF d # NoJob /\ ~HasRun(s) THEN jobState' = [jobState EXCEPT ![j].initial = due]
        ELSE UNCHANGED jobState
    BY <1>4 DEF EnsureInitial, due
  <2> QED BY <1>1, <2>1, SameState
<1>6. new \in StateSet
  BY <1>1, <1>3 DEF StateSet
<1> QED BY <1>3, <1>5, <1>6

LEMMA EnsureTypes ==
  ASSUME Base, NEW jitter \in Jitter, EnsureInitial(jitter) PROVE Base'
<1>1. PICK new \in StateSet :
           /\ jobState' = [jobState EXCEPT ![tick.j] = new]
           /\ new.last = jobState[tick.j].last /\ new.plan = jobState[tick.j].plan
           /\ new.completed = jobState[tick.j].completed
  <2>1. jobState[tick.j] \in StateSet
    BY BaseFacts
  <2>2. PICK due \in Nat :
           LET s == jobState[tick.j]
               d == tick.defs[tick.j]
               new == IF d # NoJob /\ ~HasRun(s) THEN [s EXCEPT !.initial = due] ELSE s
           IN  jobState' = [jobState EXCEPT ![tick.j] = new] /\ new \in StateSet
    BY EnsureWrites
  <2>3. CASE tick.defs[tick.j] # NoJob /\ ~HasRun(jobState[tick.j])
    BY <2>1, <2>2, <2>3 DEF StateSet
  <2>4. CASE ~(tick.defs[tick.j] # NoJob /\ ~HasRun(jobState[tick.j]))
    BY <2>1, <2>2, <2>4
  <2> QED BY <2>3, <2>4
<1>2. tick.j \in Jobs
  BY BaseFacts
<1>3. /\ new.last # NoId => new.last \in DOMAIN delivery /\ new.last.job = tick.j /\ new.plan # NoJob
      /\ new.completed # NoId => Status(new.completed) \in Outcome
  BY <1>1, <1>2, SameState
<1>4. /\ tick.pc # "idle" /\ tick' = Onward("ensure")
      /\ UNCHANGED <<wall, delivery, request, touched, excused, defined, dispatched>>
  BY DEF EnsureInitial, historyVars
<1> QED BY <1>1, <1>2, <1>3, <1>4, SameState, OnwardTypes

LEMMA KeyIsId ==
  ASSUME NEW j \in Jobs, NEW d \in DefSet, NEW s \in StateSet
  PROVE  OccurrenceKey(j, d, s) \in IdSet /\ OccurrenceKey(j, d, s).job = j
BY DEF OccurrenceKey, DefSet, StateSet, IdSet

\* A decision leads to the queue or to the next job.
LEMMA DecideIs ==
  ASSUME Base, Decide
  PROVE  \/ tick' = Onward("decide")
         \/ /\ tick' \in TickSet /\ tick'.pc = "enqueue" /\ tick'.j = tick.j
            /\ tick'.at = tick.at /\ tick'.seen = tick.seen /\ tick'.defs = tick.defs
            /\ tick.defs[tick.j] # NoJob /\ ~GroupBusy(tick.j) /\ ~HasPending(tick.j)
            /\ tick'.id = OccurrenceKey(tick.j, tick.defs[tick.j], jobState[tick.j])
            /\ tick'.since = dispatched[tick.j]
            /\ IsDue(tick.defs[tick.j], jobState[tick.j], tick.at)
<1> DEFINE j == tick.j
           d == tick.defs[j]
           s == jobState[j]
           going == d # NoJob /\ ~GroupBusy(j) /\ ~HasPending(j) /\ IsDue(d, s, tick.at)
<1>1. /\ j \in Jobs /\ s \in StateSet /\ d \in DefSet \cup {NoJob} /\ tick \in TickSet
      /\ dispatched[j] \in Nat
  BY BaseFacts
<1>2. PICK locked \in {FALSE, tick.j \in MutexGroup} :
        tick' = IF d # NoJob /\ ~GroupBusy(j) /\ ~locked /\ ~s.paused /\ ~HasPending(j)
                   /\ IsDue(d, s, tick.at)
                THEN [tick EXCEPT !.pc = "enqueue", !.id = OccurrenceKey(j, d, s),
                                  !.since = dispatched[j]]
                ELSE Onward("decide")
  BY Zenon DEF Decide
<1>3. \/ tick' = Onward("decide")
      \/ going /\ tick' = [tick EXCEPT !.pc = "enqueue", !.id = OccurrenceKey(j, d, s),
                                       !.since = dispatched[j]]
  BY <1>2, Zenon
<1>4. CASE going /\ tick' = [tick EXCEPT !.pc = "enqueue", !.id = OccurrenceKey(j, d, s),
                                         !.since = dispatched[j]]
  <2>1. PICK id \in IdSet : id = OccurrenceKey(j, d, s)
    BY <1>1, <1>4, KeyIsId
  <2>2. PICK since \in Nat : since = dispatched[j]
    BY <1>1
  <2>3. tick' = [tick EXCEPT !.pc = "enqueue", !.id = id, !.since = since]
    BY <1>4, <2>1, <2>2
  <2>4. "enqueue" \in Stages
    BY DEF Stages
  <2>5. /\ tick' \in TickSet /\ tick'.pc = "enqueue" /\ tick'.j = j /\ tick'.id = id
        /\ tick'.since = since
        /\ tick'.at = tick.at /\ tick'.seen = tick.seen /\ tick'.defs = tick.defs
    BY <1>1, <2>3, <2>4 DEF TickSet
  <2> QED BY <1>4, <2>1, <2>2, <2>5
<1> QED BY <1>3, <1>4

LEMMA DecideTypes ==
  ASSUME Base, Decide PROVE Base'
<1>1. /\ tick.pc # "idle"
      /\ UNCHANGED <<wall, defined, jobState, delivery, request, dispatched, touched, excused>>
  BY DEF Decide, historyVars
<1>2. tick.j \in Jobs /\ tick.at > 0
  BY <1>1, BaseFacts DEF Base, TickOK
<1>3. CASE tick' = Onward("decide")
  BY <1>1, <1>2, <1>3, SameState, OnwardTypes
<1>4. CASE /\ tick' \in TickSet /\ tick'.pc = "enqueue" /\ tick'.j = tick.j
           /\ tick'.at = tick.at /\ tick'.seen = tick.seen /\ tick'.defs = tick.defs
           /\ tick.defs[tick.j] # NoJob
           /\ tick'.id = OccurrenceKey(tick.j, tick.defs[tick.j], jobState[tick.j])
  <2>1. tick'.id \in IdSet /\ tick'.id.job = tick.j
    BY <1>2, <1>4, BaseFacts, KeyIsId
  <2>2. \A k \in Jobs : Refers(jobState[k], k)' /\ Refers(tick.seen[k], k)'
    BY <1>1, <1>4, StillRefers
  <2> QED BY <1>1, <1>2, <1>4, <2>1, <2>2, BaseFacts, TickTypes
<1> QED BY <1>3, <1>4, DecideIs

\* What the queue holds after a delivery was handed to it
LEMMA EnqueueAdds ==
  ASSUME Base, Enqueue
  PROVE  /\ tick.id \in IdSet /\ tick.id.job = tick.j
         /\ DOMAIN delivery' = DOMAIN delivery \cup {tick.id}
         /\ \A x \in DOMAIN delivery : delivery'[x] = delivery[x]
         /\ delivery' \in [DOMAIN delivery' -> RowSet]
<1>1. tick.id \in IdSet /\ tick.id.job = tick.j /\ tick.at \in Nat
  BY BaseFacts DEF Enqueue, Base, TickOK
<1>2. PICK row \in RowSet : row = [status |-> "queued", created |-> tick.at, finished |-> 0]
  BY <1>1 DEF RowSet, Pending
<1>3. delivery' = [id \in DOMAIN delivery \cup {tick.id} |->
                     IF id \in DOMAIN delivery THEN delivery[id] ELSE row]
  BY <1>2 DEF Enqueue
<1>4. \A x \in DOMAIN delivery : delivery[x] \in RowSet
  BY BaseFacts
<1> QED BY <1>1, <1>3, <1>4

LEMMA EnqueueTypes ==
  ASSUME Base, Enqueue PROVE Base'
<1>1. PICK t \in TickSet : t = tick /\ tick' = [t EXCEPT !.pc = "record"]
  BY BaseFacts DEF Enqueue
<1>2. /\ tick' \in TickSet /\ tick'.pc = "record" /\ tick'.at = tick.at /\ tick'.seen = tick.seen
      /\ tick'.j = tick.j /\ tick'.defs = tick.defs /\ tick'.id = tick.id
  BY <1>1 DEF TickSet, Stages
<1>3. /\ tick.pc = "enqueue"
      /\ UNCHANGED <<wall, defined, jobState, request, touched>>
  BY DEF Enqueue
<1>4. \A k \in Jobs : Refers(jobState[k], k)' /\ Refers(tick.seen[k], k)'
  BY <1>2, <1>3, EnqueueAdds, StillRefers
<1>5. dispatched' \in [Jobs -> Nat] /\ excused' \subseteq IdSet
  <2>1. dispatched \in [Jobs -> Nat] /\ tick.at \in Nat /\ tick.id \in IdSet /\ excused \subseteq IdSet
    BY BaseFacts, EnqueueAdds
  <2>2. \/ dispatched' = dispatched
        \/ dispatched' = [dispatched EXCEPT ![tick.j] = tick.at]
    BY Zenon DEF Enqueue
  <2>3. excused' \in {excused, excused \cup {tick.id}}
    BY Zenon DEF Enqueue
  <2> QED BY <2>1, <2>2, <2>3
<1>6. SchedulerTypeOK'
  BY <1>2, <1>3, <1>5, EnqueueAdds DEF Base, SchedulerTypeOK
<1>7. TickOK'
  <2>1. /\ tick.at > 0 /\ tick.defs[tick.j] # NoJob /\ tick.id \in IdSet /\ tick.id.job = tick.j
        /\ request = NoRequest \/ request.job \in Jobs
        /\ request.op \in {"fire", "fired"} /\ request.gone # NoId => Status(request.gone) \in Outcome
    BY <1>3 DEF Base, TickOK
  <2>2. Status(request.gone) \in Outcome => Status(request.gone)' \in Outcome
    BY <1>3, EnqueueAdds DEF Status, Outcome
  <2> QED BY <1>2, <1>3, <1>4, <2>1, <2>2, EnqueueAdds DEF TickOK
<1> QED BY <1>6, <1>7 DEF Base

\* What the scheduler writes about the delivery that it has handed over
LEMMA RecordWrites ==
  ASSUME Base, RecordPending
  PROVE  \E new \in StateSet :
           /\ jobState' = [jobState EXCEPT ![tick.j] = new]
           /\ new.last = tick.id /\ new.plan # NoJob
           /\ new.completed = jobState[tick.j].completed
           /\ new.queued = delivery[tick.id].created /\ new.fired = jobState[tick.j].fired
<1>1. /\ tick.j \in Jobs /\ jobState[tick.j] \in StateSet
      /\ tick.defs[tick.j] \in DefSet /\ tick.id \in IdSet /\ tick.id \in DOMAIN delivery
  BY BaseFacts DEF RecordPending, Base, TickOK
<1>2. PICK at \in Nat : at = delivery[tick.id].created
  BY <1>1, BaseFacts DEF RowSet
<1>3. PICK s \in StateSet, d \in DefSet, id \in IdSet :
        s = jobState[tick.j] /\ d = tick.defs[tick.j] /\ id = tick.id
  BY <1>1
<1>4. PICK new : new = [s EXCEPT !.queued = at, !.last = id, !.plan = d]
  OBVIOUS
<1>5. /\ new \in StateSet /\ new.last = id /\ new.plan = d /\ new.completed = s.completed
      /\ new.queued = at /\ new.fired = s.fired
  BY <1>4 DEF StateSet
<1>6. jobState' = [jobState EXCEPT ![tick.j] = new]
  BY <1>1, <1>2, <1>3, <1>4, BaseFacts DEF RecordPending
<1> QED BY <1>2, <1>3, <1>5, <1>6, SchedulerConstants

\* The last dispatch that is known is one that the state has.
LEMMA RecordDispatch ==
  ASSUME Base, RecordPending
  PROVE  \E at \in Nat :
           /\ dispatched' = [dispatched EXCEPT ![tick.j] = at]
           /\ at = delivery[tick.id].created \/ at = jobState[tick.j].fired
<1>1. /\ tick.j \in Jobs /\ dispatched[tick.j] \in Nat /\ tick.id \in DOMAIN delivery
  BY BaseFacts DEF RecordPending, Base, TickOK
<1>2. PICK created \in Nat : created = delivery[tick.id].created
  BY <1>1, BaseFacts DEF RowSet
<1>3. jobState[tick.j].fired \in Nat
  BY <1>1, BaseFacts DEF StateSet
<1>4. Max({jobState[tick.j].fired, created}) \in {jobState[tick.j].fired, created}
  BY <1>2, <1>3, MaxOfTwo
<1>5. dispatched' = [dispatched EXCEPT ![tick.j] = Max({jobState[tick.j].fired, created})]
  BY <1>2 DEF RecordPending
<1> QED BY <1>2, <1>3, <1>4, <1>5

LEMMA RecordTypes ==
  ASSUME Base, RecordPending PROVE Base'
<1>1. PICK new \in StateSet :
           /\ jobState' = [jobState EXCEPT ![tick.j] = new]
           /\ new.last = tick.id /\ new.plan # NoJob
           /\ new.completed = jobState[tick.j].completed
  BY RecordWrites
<1>2. /\ tick.pc = "record" /\ tick \in TickSet /\ tick.j \in Jobs
      /\ UNCHANGED <<wall, defined, delivery, request, touched, excused>>
  BY BaseFacts DEF RecordPending
<1>3. /\ tick.at > 0 /\ tick.defs[tick.j] # NoJob /\ tick.id \in IdSet /\ tick.id.job = tick.j
      /\ tick.id \in DOMAIN delivery
  BY <1>2 DEF Base, TickOK
<1>4. /\ new.last # NoId => new.last \in DOMAIN delivery /\ new.last.job = tick.j /\ new.plan # NoJob
      /\ new.completed # NoId => Status(new.completed) \in Outcome
  BY <1>1, <1>2, <1>3, SameState
<1>5. dispatched' \in [Jobs -> Nat]
  BY <1>2, BaseFacts, RecordDispatch
<1>6. CASE tick' = Onward("decide")
  BY <1>1, <1>2, <1>4, <1>5, <1>6, BaseFacts, OnwardTypes
<1>7. CASE tick' = [tick EXCEPT !.pc = "remove"]
  <2>1. /\ tick' \in TickSet /\ tick'.pc = "remove" /\ tick'.at = tick.at /\ tick'.seen = tick.seen
        /\ tick'.j = tick.j /\ tick'.defs = tick.defs /\ tick'.id = tick.id
    BY <1>2, <1>7 DEF TickSet, Stages
  <2>2. jobState' \in [Jobs -> StateSet] /\ \A k \in Jobs : Refers(jobState[k], k)' /\ Refers(tick.seen[k], k)'
    BY <1>1, <1>2, <1>4, <2>1, OneWritten
  <2> QED BY <1>2, <1>3, <1>5, <2>1, <2>2, BaseFacts, TickTypes
<1> QED BY <1>6, <1>7 DEF RecordPending

LEMMA RemoveTypes ==
  ASSUME Base, RemoveOnce PROVE Base'
<1>1. /\ tick.pc = "remove" /\ tick.j \in Jobs /\ tick' = Onward("decide")
      /\ UNCHANGED <<wall, jobState, delivery, request, dispatched, touched, excused>>
  BY BaseFacts DEF RemoveOnce, historyVars
<1>2. defined' \in [Jobs -> DefSet \cup {NoJob}]
  BY BaseFacts DEF RemoveOnce
<1> QED BY <1>1, <1>2, SameState, OnwardTypes

LEMMA DiesTypes ==
  ASSUME Base, SchedulerDies PROVE Base'
<1>1. /\ tick' = NoTick
      /\ UNCHANGED <<wall, defined, jobState, delivery, request, dispatched, touched, excused>>
  BY DEF SchedulerDies, historyVars
<1>2. NoTick \in TickSet /\ NoTick.pc = "idle"
  BY SchedulerConstants DEF NoTick
<1>3. \A k \in Jobs : Refers(jobState[k], k)' /\ Refers(tick.seen[k], k)'
  BY <1>1, StillRefers
<1> QED BY <1>1, <1>2, <1>3, BaseFacts, TickTypes

(****************************************************************************)
(* Types and references: commands, workers and the clock.                   *)
(****************************************************************************)
\* Deliveries end or change hands, none is forgotten or begins again.
RowsGoOn ==
  /\ DOMAIN delivery' = DOMAIN delivery /\ delivery' \in [DOMAIN delivery -> RowSet]
  /\ \A x \in DOMAIN delivery : delivery[x].status \in Outcome => delivery'[x].status \in Outcome

LEMMA RowsStay ==
  ASSUME Base, UNCHANGED delivery PROVE RowsGoOn
BY BaseFacts DEF RowsGoOn

\* One row of a delivery that is pending is written.
LEMMA RowWritten ==
  ASSUME Base, NEW id \in DOMAIN delivery, delivery[id].status \in Pending, NEW row \in RowSet,
         delivery' = [delivery EXCEPT ![id] = row]
  PROVE  RowsGoOn
BY BaseFacts DEF RowsGoOn, Pending, Outcome


\* What a command cancels is over.
LEMMA CancelGoesOn ==
  ASSUME Base, NEW j \in Jobs, CancelLast(j), NEW id, id = jobState[j].last
  PROVE  RowsGoOn /\ (Status(id) = "queued" => Status(id)' \in Outcome)
<1>1. CASE Status(id) = "queued"
  <2>1. id \in DOMAIN delivery /\ delivery[id].status = "queued"
    BY <1>1 DEF Status
  <2>2. PICK row \in RowSet : row = [delivery[id] EXCEPT !.status = "failed", !.finished = wall]
    BY <2>1, BaseFacts DEF RowSet, Outcome
  <2>3. delivery' = [delivery EXCEPT ![id] = row] /\ row.status = "failed"
    BY <1>1, <2>1, <2>2, BaseFacts DEF CancelLast, RowSet
  <2>4. RowsGoOn
    BY <2>1, <2>3, RowWritten DEF Pending
  <2> QED BY <2>1, <2>3, <2>4, BaseFacts DEF Status, Outcome
<1>2. CASE Status(id) # "queued"
  <2>1. delivery' = delivery
    BY <1>2 DEF CancelLast
  <2> QED BY <1>2, <2>1, RowsStay
<1> QED BY <1>1, <1>2

\* When the tick is left alone
LEMMA OtherTypes ==
  ASSUME Base, UNCHANGED tick, RowsGoOn, wall' \in Nat \ {0},
         defined' \in [Jobs -> DefSet \cup {NoJob}], dispatched' \in [Jobs -> Nat],
         jobState' \in [Jobs -> StateSet],
         \A k \in Jobs : \/ /\ jobState'[k].last = jobState[k].last
                            /\ jobState'[k].completed = jobState[k].completed
                            /\ jobState'[k].plan = jobState[k].plan
                         \/ Refers(jobState[k], k)',
         touched' \subseteq Jobs, excused' \subseteq IdSet,
         request' \in AskedSet, request' = NoRequest \/ request'.job \in Jobs,
         request'.op \in {"fire", "fired"} /\ request'.gone # NoId => Status(request.gone)' \in Outcome
  PROVE  Base'
<1>1. TickOK'
  BY TickKept DEF RowsGoOn
<1>2. SchedulerTypeOK'
  BY DEF Base, SchedulerTypeOK, RowsGoOn
<1> QED BY <1>1, <1>2 DEF Base

\* When the rest is left alone too
LEMMA RowTypes ==
  ASSUME Base, RowsGoOn, request' \in {request, NoRequest},
         UNCHANGED <<tick, wall, defined, dispatched, jobState, touched, excused>>
  PROVE  Base'
<1>1. /\ request' = NoRequest \/ request'.job \in Jobs
      /\ request'.op \in {"fire", "fired"} /\ request'.gone # NoId => Status(request.gone)' \in Outcome
  BY RequestKept DEF RowsGoOn
<1>2. request' \in AskedSet
  BY BaseFacts, SchedulerConstants
<1> QED BY <1>1, <1>2, BaseFacts, OtherTypes

\* A request that was made
LEMMA AskedIs ==
  ASSUME NEW op \in {"clear", "cancel", "rebase", "stop"}, NEW j \in Jobs
  PROVE  RequestFor(op, j) \in AskedSet /\ RequestFor(op, j).job = j /\ RequestFor(op, j).op = op
BY DEF RequestFor, AskedSet

\* Commands that cut off: the history keeps its types.
LEMMA CutTypes ==
  ASSUME Base, NEW j \in Jobs, NEW kept, CutOff(j, kept)
  PROVE  touched' \subseteq Jobs /\ excused' \subseteq IdSet
BY BaseFacts DEF CutOff

\* Commands that ask and write a definition
LEMMA DefineTypes ==
  ASSUME Base, UNCHANGED <<tick, wall, jobState, delivery>>, NEW j \in Jobs, NEW kept, CutOff(j, kept),
         NEW d \in DefSet \cup {NoJob}, defined' = [defined EXCEPT ![j] = d],
         NEW n \in Nat, dispatched' \in {dispatched, [dispatched EXCEPT ![j] = n]},
         NEW op \in {"clear", "cancel", "rebase", "stop"},
         request' \in {NoRequest, RequestFor(op, j)}
  PROVE  Base'
<1>1. /\ request' \in AskedSet
      /\ request' = NoRequest \/ request'.job \in Jobs
      /\ request'.op \notin {"fire", "fired"}
  BY AskedIs, SchedulerConstants DEF NoRequest, RequestFor
<1>2. defined' \in [Jobs -> DefSet \cup {NoJob}] /\ dispatched' \in [Jobs -> Nat]
  BY BaseFacts
<1>3. touched' \subseteq Jobs /\ excused' \subseteq IdSet
  BY CutTypes
<1>4. wall \in Nat \ {0} /\ jobState \in [Jobs -> StateSet]
  BY BaseFacts
<1> QED BY <1>1, <1>2, <1>3, <1>4, RowsStay, OtherTypes

\* Commands that write the state of a job
LEMMA StateTypes ==
  ASSUME Base, UNCHANGED <<tick, wall, defined, delivery>>,
         touched' \subseteq Jobs, excused' \subseteq IdSet, dispatched' \in [Jobs -> Nat],
         NEW j \in Jobs, NEW new \in StateSet, jobState' = [jobState EXCEPT ![j] = new],
         \/ new = Clear
         \/ /\ new.last = jobState[j].last /\ new.plan = jobState[j].plan
            /\ new.completed = jobState[j].completed \/ Status(new.completed) \in Outcome,
         request' \in AskedSet, request' = NoRequest \/ request'.job \in Jobs,
         request'.op \notin {"fire", "fired"}
  PROVE  Base'
<1>1. jobState' \in [Jobs -> StateSet] /\ jobState'[j] = new
  BY BaseFacts
<1>2. Refers(jobState[j], j)'
  <2>1. Refers(jobState[j], j)
    BY BaseFacts
  <2>2. CASE new = Clear
    BY <1>1, <2>2 DEF Refers, Clear
  <2>3. CASE /\ new.last = jobState[j].last /\ new.plan = jobState[j].plan
             /\ new.completed = jobState[j].completed \/ Status(new.completed) \in Outcome
    BY <1>1, <2>1, <2>3 DEF Refers, Status
  <2> QED BY <2>2, <2>3
<1>3. \A k \in Jobs : k # j => jobState'[k] = jobState[k]
  BY BaseFacts
<1> QED BY <1>1, <1>2, <1>3, BaseFacts, RowsStay, OtherTypes

LEMMA FireNowTypes ==
  ASSUME Base, NEW j \in Jobs, FireNow(j) PROVE Base'
<1>1. defined[j] \in DefSet \cup {NoJob} /\ wall \in Nat
  BY BaseFacts
<1>2. PICK every \in Nat, at \in Nat : every = defined[j].every /\ at = wall
  BY <1>1 DEF DefSet, NoJob
<1>3. request' = [op |-> "fire", job |-> j, every |-> every, at |-> at, gone |-> NoId]
  BY <1>2 DEF FireNow, Ask, RequestFor
<1>4. request' \in AskedSet /\ request'.job = j /\ request'.gone = NoId
  BY <1>3 DEF AskedSet
<1>5. touched' \subseteq Jobs
  BY BaseFacts DEF FireNow
<1>6. UNCHANGED <<wall, defined, jobState, delivery, tick, dispatched, excused>>
  BY DEF FireNow
<1> QED BY <1>4, <1>5, <1>6, BaseFacts, RowsStay, OtherTypes

LEMMA FireCancelsTypes ==
  ASSUME Base, FireCancels PROVE Base'
<1>1. request.op = "fire" /\ request \in AskedSet /\ request # NoRequest
  BY BaseFacts DEF FireCancels, NoRequest, RequestFor
<1>2. request.job \in Jobs
  BY <1>1 DEF Base, TickOK
<1>3. PICK id \in IdSet \cup {NoId} : id = jobState[request.job].last
  BY <1>2, BaseFacts DEF StateSet
<1>4. /\ UNCHANGED <<wall, defined, jobState, tick, dispatched, touched, excused>>
      /\ CancelLast(request.job)
  BY DEF FireCancels, historyVars
<1>5. RowsGoOn /\ (Status(id) = "queued" => Status(id)' \in Outcome)
  BY <1>2, <1>3, <1>4, CancelGoesOn
<1>6. PICK gone \in IdSet \cup {NoId} : gone = IF Status(id) = "queued" THEN id ELSE request.gone
  BY <1>1 DEF AskedSet
<1>7. request' = [request EXCEPT !.op = "fired", !.gone = gone]
  BY <1>3, <1>6 DEF FireCancels
<1>8. request' \in AskedSet /\ request'.job = request.job /\ request'.gone = gone
  BY <1>1, <1>7 DEF AskedSet
<1>9. gone # NoId => Status(request.gone)' \in Outcome
  <2>1. CASE Status(id) = "queued"
    <3>1. request'.gone = id
      BY <1>6, <1>8, <2>1
    <3> QED BY <1>5, <2>1, <3>1 DEF Status
  <2>2. CASE Status(id) # "queued"
    <3>1. request'.gone = request.gone /\ gone = request.gone
      BY <1>6, <1>8, <2>2
    <3>2. request.gone # NoId => Status(request.gone) \in Outcome
      BY <1>1 DEF Base, TickOK
    <3> QED BY <1>5, <3>1, <3>2 DEF Status, RowsGoOn, Outcome
  <2> QED BY <2>1, <2>2
<1> QED BY <1>2, <1>4, <1>5, <1>8, <1>9, BaseFacts, OtherTypes

\* What a firing writes
LEMMA FireWritesState ==
  ASSUME Base, FireWrites
  PROVE  /\ request.job \in Jobs
         /\ \E new \in StateSet :
              /\ jobState' = [jobState EXCEPT ![request.job] = new]
              /\ new.last = jobState[request.job].last /\ new.plan = jobState[request.job].plan
              /\ new.completed = jobState[request.job].completed \/ Status(new.completed) \in Outcome
              /\ new.fired = request.at
<1>1. request.op = "fired" /\ request \in AskedSet /\ request # NoRequest
  BY BaseFacts DEF FireWrites, NoRequest, RequestFor
<1>2. request.job \in Jobs
  BY <1>1 DEF Base, TickOK
<1>3. PICK s \in StateSet : s = jobState[request.job]
  BY <1>2, BaseFacts
<1>4. PICK next \in Nat, at \in Nat : next = request.at + request.every /\ at = request.at
  BY <1>1 DEF AskedSet
<1>5. PICK completed \in IdSet \cup {NoId} :
        completed = IF request.gone = NoId THEN s.completed ELSE request.gone
  BY <1>1 DEF AskedSet, StateSet
<1>6. completed = s.completed \/ Status(completed) \in Outcome
  BY <1>1, <1>5 DEF Base, TickOK
<1>7. PICK new : new = [s EXCEPT !.initial = 0, !.next = next, !.fired = at, !.completed = completed]
  OBVIOUS
<1>8. /\ new \in StateSet /\ new.last = s.last /\ new.plan = s.plan /\ new.completed = completed
      /\ new.fired = at
  BY <1>7 DEF StateSet
<1>9. jobState' = [jobState EXCEPT ![request.job] = new]
  <2>1. jobState' = [jobState EXCEPT ![request.job] =
          [jobState[request.job] EXCEPT !.initial = 0, !.next = request.at + request.every,
             !.fired = request.at, !.completed = IF request.gone = NoId
               THEN jobState[request.job].completed ELSE request.gone]]
    BY DEF FireWrites
  <2> QED BY <1>3, <1>4, <1>5, <1>7, <2>1, Zenon
<1> QED BY <1>2, <1>3, <1>4, <1>6, <1>8, <1>9

LEMMA FireWritesTypes ==
  ASSUME Base, FireWrites PROVE Base'
<1>1. request.job \in Jobs
  BY FireWritesState
<1>2. PICK new \in StateSet :
        /\ jobState' = [jobState EXCEPT ![request.job] = new]
        /\ new.last = jobState[request.job].last /\ new.plan = jobState[request.job].plan
        /\ new.completed = jobState[request.job].completed \/ Status(new.completed) \in Outcome
  BY FireWritesState
<1>3. /\ CutOff(request.job, jobState[request.job].last) /\ request' = NoRequest
      /\ dispatched' = [dispatched EXCEPT ![request.job] = request.at]
      /\ UNCHANGED <<tick, wall, defined, delivery>>
  BY DEF FireWrites
<1>4. dispatched' \in [Jobs -> Nat]
  BY <1>3, BaseFacts DEF AskedSet
<1>5. touched' \subseteq Jobs /\ excused' \subseteq IdSet
  BY <1>1, <1>3, CutTypes
<1>6. NoRequest \in AskedSet /\ NoRequest.op \notin {"fire", "fired"}
  BY SchedulerConstants DEF NoRequest, RequestFor
<1> QED BY <1>1, <1>2, <1>3, <1>4, <1>5, <1>6, StateTypes

LEMMA AddTypes ==
  ASSUME Base, NEW j \in Jobs, NEW d \in Definition(j, 1), AddJob(j, d) PROVE Base'
<1>1. d \in DefSet
  BY SchedulerConstants
<1>2. /\ UNCHANGED <<tick, wall, jobState, delivery>> /\ CutOff(j, NoId)
      /\ defined' = [defined EXCEPT ![j] = d] /\ dispatched' = [dispatched EXCEPT ![j] = 0]
      /\ request' = RequestFor("clear", j)
  BY DEF AddJob, Ask
<1> QED BY <1>1, <1>2, DefineTypes

LEMMA RemoveJobTypes ==
  ASSUME Base, NEW j \in Jobs, RemoveJob(j) PROVE Base'
<1>1. /\ UNCHANGED <<tick, wall, jobState, delivery, dispatched>> /\ CutOff(j, NoId)
      /\ defined' = [defined EXCEPT ![j] = NoJob]
      /\ request' = RequestFor("cancel", j)
  BY DEF RemoveJob, Ask
<1> QED BY <1>1, DefineTypes

LEMMA EditTypes ==
  ASSUME Base, NEW j \in Jobs, NEW d \in Definition(j, 1) \cup Definition(j, 2), EditJob(j, d)
  PROVE  Base'
<1>1. d \in DefSet
  BY SchedulerConstants
<1>2. /\ UNCHANGED <<tick, wall, jobState, delivery>> /\ CutOff(j, jobState[j].last)
      /\ defined' = [defined EXCEPT ![j] = d]
      /\ request' = IF SameCadence(d, defined[j]) THEN NoRequest ELSE RequestFor("rebase", j)
  BY DEF EditJob, Ask
<1>3. dispatched' \in {dispatched, [dispatched EXCEPT ![j] = 0]}
  <2>1. dispatched = [dispatched EXCEPT ![j] = dispatched[j]]
    BY BaseFacts
  <2> QED BY <2>1 DEF EditJob
<1> QED BY <1>1, <1>2, <1>3, DefineTypes

LEMMA RemoveCancelsTypes ==
  ASSUME Base, RemoveCancels PROVE Base'
<1>1. request.op = "cancel" /\ request \in AskedSet /\ request # NoRequest
  BY BaseFacts DEF RemoveCancels, NoRequest, RequestFor
<1>2. request.job \in Jobs
  BY <1>1 DEF Base, TickOK
<1>3. /\ UNCHANGED <<wall, defined, jobState, tick, dispatched, touched, excused>>
      /\ CancelLast(request.job) /\ request' = [request EXCEPT !.op = "clear"]
  BY DEF RemoveCancels, historyVars
<1>4. request' \in AskedSet /\ request'.job = request.job /\ request'.op = "clear"
  BY <1>1, <1>3 DEF AskedSet
<1>5. RowsGoOn
  BY <1>2, <1>3, CancelGoesOn
<1> QED BY <1>2, <1>3, <1>4, <1>5, BaseFacts, OtherTypes

LEMMA ClearTypes ==
  ASSUME Base, ClearState PROVE Base'
<1>1. request.op = "clear" /\ request # NoRequest
  BY DEF ClearState, NoRequest, RequestFor
<1>2. request.job \in Jobs
  BY <1>1 DEF Base, TickOK
<1>3. /\ jobState' = [jobState EXCEPT ![request.job] = Clear] /\ CutOff(request.job, NoId)
      /\ dispatched' = [dispatched EXCEPT ![request.job] = 0] /\ request' = NoRequest
      /\ UNCHANGED <<tick, wall, defined, delivery>>
  BY DEF ClearState
<1>4. dispatched' \in [Jobs -> Nat] /\ touched' \subseteq Jobs /\ excused' \subseteq IdSet
  BY <1>2, <1>3, BaseFacts, CutTypes
<1>5. NoRequest \in AskedSet /\ NoRequest.op \notin {"fire", "fired"}
  BY SchedulerConstants DEF NoRequest, RequestFor
<1> QED BY <1>2, <1>3, <1>4, <1>5, SchedulerConstants, StateTypes

LEMMA RebaseTypes ==
  ASSUME Base, Rebase PROVE Base'
<1>1. request.op = "rebase" /\ request # NoRequest
  BY DEF Rebase, NoRequest, RequestFor
<1>2. request.job \in Jobs
  BY <1>1 DEF Base, TickOK
<1>3. PICK s \in StateSet : s = jobState[request.job]
  BY <1>2, BaseFacts
<1>4. PICK new : new = [s EXCEPT !.next = 0, !.initial = 0]
  OBVIOUS
<1>5. new \in StateSet /\ new.last = s.last /\ new.plan = s.plan /\ new.completed = s.completed
  BY <1>4 DEF StateSet
<1>6. /\ jobState' = [jobState EXCEPT ![request.job] = new]
      /\ CutOff(request.job, s.last) /\ request' = NoRequest
      /\ UNCHANGED <<tick, wall, defined, delivery, dispatched>>
  BY <1>2, <1>3, <1>4, BaseFacts DEF Rebase
<1>7. touched' \subseteq Jobs /\ excused' \subseteq IdSet
  BY <1>2, <1>6, CutTypes
<1>8. NoRequest \in AskedSet /\ NoRequest.op \notin {"fire", "fired"}
  BY SchedulerConstants DEF NoRequest, RequestFor
<1> QED BY <1>2, <1>3, <1>5, <1>6, <1>7, <1>8, BaseFacts, StateTypes

\* Pausing and stopping write the pause alone.
LEMMA PauseWrites ==
  ASSUME Base, NEW j \in Jobs, NEW paused \in BOOLEAN, UNCHANGED <<tick, wall, defined, delivery,
         dispatched, touched, excused>>,
         jobState' = [jobState EXCEPT ![j].paused = paused],
         request' \in {NoRequest, RequestFor("stop", j)}
  PROVE  /\ Base'
         /\ \A k \in Jobs : /\ jobState'[k].last = jobState[k].last
                            /\ jobState'[k].completed = jobState[k].completed
                            /\ jobState'[k].sent = jobState[k].sent
                            /\ jobState'[k].queued = jobState[k].queued
                            /\ jobState'[k].initial = jobState[k].initial
                            /\ jobState'[k].next = jobState[k].next
                            /\ jobState'[k].fired = jobState[k].fired
<1>1. PICK s \in StateSet : s = jobState[j]
  BY BaseFacts
<1>2. PICK new : new = [s EXCEPT !.paused = paused]
  OBVIOUS
<1>3. /\ new \in StateSet /\ new.last = s.last /\ new.plan = s.plan /\ new.completed = s.completed
      /\ new.sent = s.sent /\ new.queued = s.queued /\ new.initial = s.initial /\ new.next = s.next
      /\ new.fired = s.fired
  BY <1>2 DEF StateSet
<1>4. jobState' = [jobState EXCEPT ![j] = new]
  BY <1>1, <1>2, BaseFacts
<1>5. /\ request' \in AskedSet
      /\ request' = NoRequest \/ request'.job \in Jobs
      /\ request'.op \notin {"fire", "fired"}
  BY AskedIs, SchedulerConstants DEF NoRequest, RequestFor
<1>6. Base'
  BY <1>1, <1>3, <1>4, <1>5, BaseFacts, StateTypes
<1> QED BY <1>1, <1>3, <1>4, <1>6, BaseFacts

LEMMA PauseTypes ==
  ASSUME Base, NEW j \in Jobs, Pause(j) \/ StopPauses(j)
  PROVE  \E paused \in BOOLEAN :
           /\ jobState' = [jobState EXCEPT ![j].paused = paused]
           /\ UNCHANGED <<tick, wall, defined, delivery, dispatched, touched, excused>>
           /\ request' \in {NoRequest, RequestFor("stop", j)}
<1>1. CASE Pause(j)
  <2>1. jobState[j].paused \in BOOLEAN
    BY BaseFacts DEF StateSet
  <2>2. jobState' = [jobState EXCEPT ![j].paused = ~jobState[j].paused]
    BY <1>1 DEF Pause
  <2>3. (~jobState[j].paused) \in BOOLEAN
    BY <2>1, Zenon
  <2>4. /\ UNCHANGED <<tick, wall, defined, delivery, dispatched, touched, excused>>
        /\ request' = NoRequest
    BY <1>1 DEF Pause, Ask, historyVars
  <2> QED BY <2>2, <2>3, <2>4, Zenon
<1>2. CASE StopPauses(j)
  BY <1>2 DEF StopPauses, Ask, historyVars
<1> QED BY <1>1, <1>2

LEMMA StopCancelsTypes ==
  ASSUME Base, StopCancels PROVE Base' /\ RowsGoOn
<1>1. request.op = "stop" /\ request # NoRequest
  BY DEF StopCancels, NoRequest, RequestFor
<1>2. request.job \in Jobs
  BY <1>1 DEF Base, TickOK
<1>3. /\ UNCHANGED <<wall, defined, jobState, tick, dispatched, touched, excused>>
      /\ CancelLast(request.job) /\ request' = NoRequest
  BY DEF StopCancels, historyVars
<1>4. RowsGoOn
  BY <1>2, <1>3, CancelGoesOn
<1> QED BY <1>3, <1>4, RowTypes

\* The workers write a row that is pending.
WorkerStep(id) == Claim(id) \/ Retry(id) \/ DeliveryEnds(id, "succeeded") \/ DeliveryEnds(id, "failed")

LEMMA WorkerTypes ==
  ASSUME Base, NEW id \in DOMAIN delivery, WorkerStep(id) PROVE Base' /\ RowsGoOn
<1>1. /\ UNCHANGED <<wall, defined, jobState, tick, request, dispatched, touched, excused>>
  BY DEF WorkerStep, Claim, Retry, DeliveryEnds, historyVars
<1>2. delivery[id].status \in Pending /\ delivery[id] \in RowSet
  BY BaseFacts DEF WorkerStep, Claim, Retry, DeliveryEnds, Status, Pending
<1>3. \E row \in RowSet : delivery' = [delivery EXCEPT ![id] = row]
  <2>1. CASE Claim(id)
    <3>1. PICK row \in RowSet : row = [delivery[id] EXCEPT !.status = "running"]
      BY <1>2 DEF RowSet, Pending
    <3> QED BY <2>1, <3>1 DEF Claim
  <2>2. CASE Retry(id)
    <3>1. PICK row \in RowSet : row = [delivery[id] EXCEPT !.status = "queued"]
      BY <1>2 DEF RowSet, Pending
    <3> QED BY <2>2, <3>1 DEF Retry
  <2>3. ASSUME NEW outcome \in Outcome, DeliveryEnds(id, outcome)
        PROVE  \E row \in RowSet : delivery' = [delivery EXCEPT ![id] = row]
    <3>1. PICK at \in Nat : at = wall
      BY BaseFacts
    <3>2. PICK row \in RowSet : row = [delivery[id] EXCEPT !.status = outcome, !.finished = at]
      BY <1>2 DEF RowSet
    <3>3. delivery' = [delivery EXCEPT ![id] = row]
      BY <2>3, <3>1, <3>2, BaseFacts DEF DeliveryEnds
    <3> QED BY <3>3
  <2> QED BY <2>1, <2>2, <2>3 DEF WorkerStep, Outcome
<1>4. RowsGoOn
  BY <1>2, <1>3, RowWritten
<1> QED BY <1>1, <1>4, RowTypes

LEMMA ClockTypes ==
  ASSUME Base, Advance \/ RequestDies PROVE Base' /\ RowsGoOn
<1>1. CASE Advance
  <2>1. /\ wall' \in Nat \ {0}
        /\ UNCHANGED <<defined, jobState, delivery, tick, request, dispatched, touched, excused>>
    BY <1>1, BaseFacts DEF Advance, historyVars
  <2>2. RowsGoOn
    BY <2>1, RowsStay
  <2>3. /\ request' = NoRequest \/ request'.job \in Jobs
        /\ request'.op \in {"fire", "fired"} /\ request'.gone # NoId => Status(request.gone)' \in Outcome
    BY <2>1, <2>2, RequestKept DEF RowsGoOn
  <2> QED BY <2>1, <2>2, <2>3, BaseFacts, OtherTypes
<1>2. CASE RequestDies
  <2>1. /\ request' = NoRequest
        /\ UNCHANGED <<wall, defined, jobState, delivery, tick, dispatched, touched, excused>>
    BY <1>2 DEF RequestDies, historyVars
  <2> QED BY <2>1, RowsStay, RowTypes
<1> QED BY <1>1, <1>2

(****************************************************************************)
(* What a step leaves of the invariant.                                     *)
(****************************************************************************)
\* What the invariant reads of the state of a job
SameRun(k) ==
  /\ jobState'[k].last = jobState[k].last /\ jobState'[k].completed = jobState[k].completed
  /\ jobState'[k].sent = jobState[k].sent /\ jobState'[k].queued = jobState[k].queued
  /\ jobState'[k].initial = jobState[k].initial /\ jobState'[k].next = jobState[k].next
  /\ jobState'[k].fired = jobState[k].fired

\* Two jobs of a group never count.
LEMMA ExcludesIs ==
  GroupExcludes <=> \A j, k \in MutexGroup : j # k => ~(CountsForGroup(j) /\ CountsForGroup(k))
BY DEF GroupExcludes, CountsForGroup

LEMMA GroupIsOfJobs == MutexGroup \subseteq Jobs
BY SchedulerAssumption DEF Jobs

\* The key of an occurrence goes by the definition and the markers.
LEMMA SameKey ==
  ASSUME NEW k \in Jobs, SameRun(k), NEW d
  PROVE  /\ OccurrenceKey(k, d, jobState'[k]) = OccurrenceKey(k, d, jobState[k])
         /\ HasRun(jobState'[k]) <=> HasRun(jobState[k])
BY DEF SameRun, OccurrenceKey, HasRun

\* When deliveries go on, nothing that was not pending is pending.
LEMMA PendingWas ==
  ASSUME Base, RowsGoOn
  PROVE  \A x : Status(x)' \in Pending => Status(x) \in Pending
BY BaseFacts DEF RowsGoOn, Status, Pending, Outcome, RowSet

\* Who leaves the tick alone leaves the invariant alone but for the jobs whose
\* deliveries are cut off.
LEMMA OthersKeep ==
  ASSUME SchedulerInv, Base', UNCHANGED tick, RowsGoOn,
         touched \subseteq touched', excused \subseteq excused',
         NEW J \in SUBSET Jobs, J \subseteq touched',
         \A k \in Jobs \ J : defined'[k] = defined[k] /\ SameRun(k),
         \A k \in J : /\ HasPending(k)' => HasPending(k)
                      /\ CountsForGroup(k)' => CountsForGroup(k)
                      /\ \A x \in DOMAIN delivery : x.job = k => ~Stray(x)'
  PROVE  SchedulerInv'
<1>0. Base /\ \A x \in DOMAIN delivery : x.job \in Jobs
  BY BaseFacts DEF SchedulerInv, Base
<1>1. \A x : Status(x)' \in Pending => Status(x) \in Pending
  BY <1>0, PendingWas
<1>2. \A k \in Jobs : HasPending(k)' => HasPending(k)
  BY <1>1 DEF HasPending, SameRun
<1>3. \A k \in Jobs : CountsForGroup(k)' => CountsForGroup(k)
  BY <1>2 DEF CountsForGroup, SameRun
<1>4. \A x \in DOMAIN delivery : Stray(x)' => x.job \in Jobs \ J /\ Stray(x)
  BY <1>0, <1>1 DEF Stray, SameRun, RowsGoOn, Status
<1>5. StraysAwait'
  <2> SUFFICES ASSUME NEW x \in DOMAIN delivery', Stray(x)'
        PROVE  LET s == jobState'[x.job] d == defined'[x.job] IN
               /\ d # NoJob /\ OccurrenceKey(x.job, d, s) = x
               /\ s.last = s.completed
               /\ d.kind = "once" \/ HasRun(s)
               /\ tick'.pc \in UsesDefs => tick'.defs[x.job] = d
               /\ tick'.pc = "reconcile" /\ x.job >= tick'.j =>
                    tick'.seen[x.job].last = s.last /\ tick'.seen[x.job].completed = s.completed
    BY DEF StraysAwait, OccurrenceKey
  <2>1. x \in DOMAIN delivery /\ x.job \in Jobs \ J /\ Stray(x)
    BY <1>4 DEF RowsGoOn
  <2>2. defined'[x.job] = defined[x.job] /\ SameRun(x.job)
    BY <2>1
  <2>3. /\ OccurrenceKey(x.job, defined[x.job], jobState'[x.job]) = OccurrenceKey(x.job, defined[x.job], jobState[x.job])
        /\ HasRun(jobState'[x.job]) <=> HasRun(jobState[x.job])
    BY <2>1, <2>2, SameKey
  <2> QED BY <2>1, <2>2, <2>3 DEF SchedulerInv, StraysAwait, SameRun
<1>6. HandIsFree'
  BY <1>0, <1>2, <1>4 DEF SchedulerInv, HandIsFree, RowsGoOn, Base, SchedulerTypeOK, TickSet
<1>7. UntouchedStay'
  BY DEF SchedulerInv, UntouchedStay, OccurrenceKey, SameRun, HasRun
<1>8. GroupWaits'
  BY <1>3, GroupIsOfJobs DEF SchedulerInv, GroupWaits
<1>9. GroupExcludes'
  <2>1. \A j, k \in MutexGroup : j # k => ~(CountsForGroup(j) /\ CountsForGroup(k))
    BY ExcludesIs DEF SchedulerInv
  <2>2. \A j, k \in MutexGroup : j # k => ~(CountsForGroup(j)' /\ CountsForGroup(k)')
    BY <1>3, <2>1, GroupIsOfJobs
  <2> QED BY <2>2 DEF GroupExcludes, CountsForGroup
<1> QED BY <1>5, <1>6, <1>7, <1>8, <1>9 DEF SchedulerInv, Base

\* Commands that cut off what is not in the state of a job
LEMMA CutKeeps ==
  ASSUME SchedulerInv, Base', UNCHANGED <<tick, delivery>>, NEW j \in Jobs, NEW kept, CutOff(j, kept),
         \A k \in Jobs \ {j} : defined'[k] = defined[k] /\ SameRun(k),
         \/ kept = NoId /\ jobState'[j].last \in {NoId, jobState[j].last}
         \/ /\ kept = jobState[j].last /\ jobState'[j].last = kept
            /\ defined'[j] # NoJob => defined[j] # NoJob
  PROVE  SchedulerInv'
<1>0. Base /\ NoId \notin DOMAIN delivery
  BY BaseFacts, SchedulerConstants DEF SchedulerInv, Base
<1>1. HasPending(j)' => HasPending(j)
  BY <1>0 DEF HasPending, Status, Pending
<1>2. \A x \in DOMAIN delivery : x.job = j => ~Stray(x)'
  BY <1>0 DEF Stray, CutOff
<1>3. CountsForGroup(j)' => CountsForGroup(j)
  <2> SUFFICES ASSUME CountsForGroup(j)' PROVE CountsForGroup(j)
    OBVIOUS
  <2>1. jobState'[j].last \in DOMAIN delivery
    BY DEF CountsForGroup, HasPending, Status, Pending
  <2>2. jobState'[j].last = jobState[j].last /\ jobState[j].last.job = j
    BY <1>0, <2>1, SameState
  <2>3. kept # NoId
    BY <1>0, <2>1, <2>2 DEF CountsForGroup, CutOff
  <2> QED BY <1>1, <2>2, <2>3 DEF CountsForGroup, CutOff
<1>4. RowsGoOn
  BY <1>0, RowsStay
<1>5. {j} \subseteq touched' /\ touched \subseteq touched' /\ excused \subseteq excused'
  BY DEF CutOff
<1> DEFINE J == {j}
<1>6. /\ J \in SUBSET Jobs /\ J \subseteq touched'
      /\ \A k \in Jobs \ J : defined'[k] = defined[k] /\ SameRun(k)
      /\ \A k \in J : /\ HasPending(k)' => HasPending(k)
                      /\ CountsForGroup(k)' => CountsForGroup(k)
                      /\ \A x \in DOMAIN delivery : x.job = k => ~Stray(x)'
  BY <1>1, <1>2, <1>3, <1>5
<1> HIDE DEF J
<1> QED BY <1>4, <1>5, <1>6, OthersKeep

\* Steps that cut nothing off
LEMMA NothingCut ==
  ASSUME SchedulerInv, Base', UNCHANGED <<tick, defined, excused>>, RowsGoOn,
         touched \subseteq touched', \A k \in Jobs : SameRun(k)
  PROVE  SchedulerInv'
<1> DEFINE J == {}
<1>1. /\ J \in SUBSET Jobs /\ J \subseteq touched'
      /\ \A k \in Jobs \ J : defined'[k] = defined[k] /\ SameRun(k)
      /\ \A k \in J : /\ HasPending(k)' => HasPending(k)
                      /\ CountsForGroup(k)' => CountsForGroup(k)
                      /\ \A x \in DOMAIN delivery : x.job = k => ~Stray(x)'
  OBVIOUS
<1> HIDE DEF J
<1> QED BY <1>1, OthersKeep

\* Who writes the state or the definition of one job leaves the others alone.
LEMMA OneChanges ==
  ASSUME Base, NEW j \in Jobs, NEW new, NEW d,
         jobState' \in {jobState, [jobState EXCEPT ![j] = new]},
         defined' \in {defined, [defined EXCEPT ![j] = d]}
  PROVE  \A k \in Jobs \ {j} : defined'[k] = defined[k] /\ SameRun(k)
BY BaseFacts DEF SameRun

LEMMA CommandsKeep ==
  ASSUME SchedulerInv, NEW j \in Jobs,
         \/ \E d \in Definition(j, 1) : AddJob(j, d)
         \/ \E d \in Definition(j, 1) \cup Definition(j, 2) : EditJob(j, d)
         \/ RemoveJob(j) \/ FireNow(j) \/ Pause(j) \/ StopPauses(j)
  PROVE  SchedulerInv'
<1>0. Base
  BY DEF SchedulerInv, Base
<1>1. ASSUME NEW d \in Definition(j, 1), AddJob(j, d) PROVE SchedulerInv'
  <2>1. /\ UNCHANGED <<tick, delivery, jobState>> /\ CutOff(j, NoId)
        /\ defined' = [defined EXCEPT ![j] = d]
    BY <1>1 DEF AddJob
  <2>2. Base'
    BY <1>0, <1>1, AddTypes
  <2>3. \A k \in Jobs \ {j} : defined'[k] = defined[k] /\ SameRun(k)
    BY <1>0, <2>1, BaseFacts DEF SameRun
  <2> QED BY <2>1, <2>2, <2>3, CutKeeps
<1>2. ASSUME NEW d \in Definition(j, 1) \cup Definition(j, 2), EditJob(j, d) PROVE SchedulerInv'
  <2>1. /\ UNCHANGED <<tick, delivery, jobState>> /\ CutOff(j, jobState[j].last)
        /\ defined' = [defined EXCEPT ![j] = d] /\ defined[j] # NoJob
    BY <1>2 DEF EditJob
  <2>2. Base'
    BY <1>0, <1>2, EditTypes
  <2>3. \A k \in Jobs \ {j} : defined'[k] = defined[k] /\ SameRun(k)
    BY <1>0, <2>1, BaseFacts DEF SameRun
  <2> QED BY <2>1, <2>2, <2>3, CutKeeps
<1>3. CASE RemoveJob(j)
  <2>1. /\ UNCHANGED <<tick, delivery, jobState>> /\ CutOff(j, NoId)
        /\ defined' = [defined EXCEPT ![j] = NoJob]
    BY <1>3 DEF RemoveJob
  <2>2. Base'
    BY <1>0, <1>3, RemoveJobTypes
  <2>3. \A k \in Jobs \ {j} : defined'[k] = defined[k] /\ SameRun(k)
    BY <1>0, <2>1, BaseFacts DEF SameRun
  <2> QED BY <2>1, <2>2, <2>3, CutKeeps
<1>4. CASE FireNow(j)
  <2>1. UNCHANGED <<tick, delivery, jobState, defined, excused>> /\ touched \subseteq touched'
    BY <1>4 DEF FireNow
  <2>2. Base' /\ RowsGoOn /\ \A k \in Jobs : SameRun(k)
    BY <1>0, <1>4, <2>1, FireNowTypes, RowsStay DEF SameRun
  <2> QED BY <2>1, <2>2, NothingCut
<1>5. CASE Pause(j) \/ StopPauses(j)
  <2>1. PICK paused \in BOOLEAN :
           /\ jobState' = [jobState EXCEPT ![j].paused = paused]
           /\ UNCHANGED <<tick, wall, defined, delivery, dispatched, touched, excused>>
           /\ request' \in {NoRequest, RequestFor("stop", j)}
    BY <1>0, <1>5, PauseTypes
  <2>2. Base' /\ \A k \in Jobs : SameRun(k)
    BY <1>0, <2>1, PauseWrites DEF SameRun
  <2>3. RowsGoOn
    BY <1>0, <2>1, RowsStay
  <2> QED BY <2>1, <2>2, <2>3, NothingCut
<1> QED BY <1>1, <1>2, <1>3, <1>4, <1>5

LEMMA RequestKeeps ==
  ASSUME SchedulerInv,
         FireCancels \/ FireWrites \/ RemoveCancels \/ ClearState \/ Rebase \/ StopCancels
  PROVE  SchedulerInv'
<1>0. Base
  BY DEF SchedulerInv, Base
<1>1. request.job \in Jobs
  BY <1>0 DEF Base, TickOK, NoRequest, RequestFor, FireCancels, FireWrites, RemoveCancels,
              ClearState, Rebase, StopCancels
<1>2. CASE FireCancels \/ RemoveCancels \/ StopCancels
  <2>1. UNCHANGED <<tick, defined, jobState, touched, excused>> /\ CancelLast(request.job)
    BY <1>2 DEF FireCancels, RemoveCancels, StopCancels, historyVars
  <2>2. Base'
    BY <1>0, <1>2, FireCancelsTypes, RemoveCancelsTypes, StopCancelsTypes
  <2>3. RowsGoOn
    BY <1>0, <1>1, <2>1, CancelGoesOn
  <2>4. \A k \in Jobs : SameRun(k)
    BY <2>1 DEF SameRun
  <2> QED BY <2>1, <2>2, <2>3, <2>4, NothingCut
<1>3. CASE FireWrites
  <2>1. PICK new \in StateSet :
          /\ jobState' = [jobState EXCEPT ![request.job] = new]
          /\ new.last = jobState[request.job].last
    BY <1>0, <1>3, FireWritesState
  <2>2. UNCHANGED <<tick, delivery, defined>> /\ CutOff(request.job, jobState[request.job].last)
    BY <1>3 DEF FireWrites
  <2>3. Base'
    BY <1>0, <1>3, FireWritesTypes
  <2>4. \A k \in Jobs \ {request.job} : defined'[k] = defined[k] /\ SameRun(k)
    BY <1>0, <1>1, <2>1, <2>2, OneChanges
  <2>5. jobState'[request.job].last = jobState[request.job].last
    BY <1>0, <1>1, <2>1, BaseFacts
  <2> QED BY <1>1, <2>2, <2>3, <2>4, <2>5, CutKeeps
<1>4. CASE ClearState
  <2>1. /\ UNCHANGED <<tick, delivery, defined>> /\ CutOff(request.job, NoId)
        /\ jobState' = [jobState EXCEPT ![request.job] = Clear]
    BY <1>4 DEF ClearState
  <2>2. Base'
    BY <1>0, <1>4, ClearTypes
  <2>3. \A k \in Jobs \ {request.job} : defined'[k] = defined[k] /\ SameRun(k)
    BY <1>0, <1>1, <2>1, OneChanges
  <2>4. jobState'[request.job].last = NoId
    BY <1>0, <1>1, <2>1, BaseFacts DEF Clear
  <2> QED BY <1>1, <2>1, <2>2, <2>3, <2>4, CutKeeps
<1>5. CASE Rebase
  <2>1. /\ UNCHANGED <<tick, delivery, defined>> /\ CutOff(request.job, jobState[request.job].last)
        /\ jobState' = [jobState EXCEPT ![request.job] = [jobState[request.job] EXCEPT !.next = 0, !.initial = 0]]
    BY <1>5 DEF Rebase
  <2>2. Base'
    BY <1>0, <1>5, RebaseTypes
  <2>3. \A k \in Jobs \ {request.job} : defined'[k] = defined[k] /\ SameRun(k)
    BY <1>0, <1>1, <2>1, OneChanges
  <2>4. jobState'[request.job].last = jobState[request.job].last
    <3>1. PICK s \in StateSet : s = jobState[request.job]
      BY <1>0, <1>1, BaseFacts
    <3>2. [s EXCEPT !.next = 0, !.initial = 0].last = s.last
      BY DEF StateSet
    <3> QED BY <1>0, <1>1, <2>1, <3>1, <3>2, BaseFacts
  <2> QED BY <1>1, <2>1, <2>2, <2>3, <2>4, CutKeeps
<1> QED BY <1>2, <1>3, <1>4, <1>5

LEMMA WorldKeeps ==
  ASSUME SchedulerInv,
         Advance \/ RequestDies \/ \E id \in DOMAIN delivery : WorkerStep(id)
  PROVE  SchedulerInv'
<1>0. Base
  BY DEF SchedulerInv, Base
<1>1. UNCHANGED <<tick, defined, jobState, touched, excused>>
  BY DEF Advance, RequestDies, WorkerStep, Claim, Retry, DeliveryEnds, historyVars
<1>2. Base' /\ RowsGoOn
  BY <1>0, ClockTypes, WorkerTypes
<1>3. \A k \in Jobs : SameRun(k)
  BY <1>1 DEF SameRun
<1> QED BY <1>1, <1>2, <1>3, NothingCut

(****************************************************************************)
(* The steps of a tick.                                                     *)
(****************************************************************************)
\* What the invariant says of a stray delivery
Awaits(x) ==
  LET s == jobState[x.job] d == defined[x.job] IN
    /\ d # NoJob /\ OccurrenceKey(x.job, d, s) = x
    /\ s.last = s.completed
    /\ d.kind = "once" \/ HasRun(s)

LEMMA AwaitsIs ==
  StraysAwait <=> \A x \in DOMAIN delivery : Stray(x) =>
    /\ Awaits(x)
    /\ tick.pc \in UsesDefs => tick.defs[x.job] = defined[x.job]
    /\ tick.pc = "reconcile" /\ x.job >= tick.j =>
         /\ tick.seen[x.job].last = jobState[x.job].last
         /\ tick.seen[x.job].completed = jobState[x.job].completed
BY DEF StraysAwait, Awaits

\* While no delivery, definition or reference to the last delivery changes
LEMMA SameStrays ==
  ASSUME Base, UNCHANGED <<delivery, excused, defined>>,
         \A k \in Jobs : jobState'[k].last = jobState[k].last
  PROVE  /\ \A x \in DOMAIN delivery : Stray(x)' <=> Stray(x)
         /\ \A k \in Jobs : HasPending(k)' <=> HasPending(k)
         /\ \A k \in Jobs : CountsForGroup(k)' <=> CountsForGroup(k)
         /\ GroupExcludes => GroupExcludes'
<1>1. \A x \in DOMAIN delivery : Stray(x)' <=> Stray(x)
  BY BaseFacts DEF Stray
<1>2. \A k \in Jobs : HasPending(k)' <=> HasPending(k)
  BY DEF HasPending, Status
<1>3. \A k \in Jobs : CountsForGroup(k)' <=> CountsForGroup(k)
  BY <1>2 DEF CountsForGroup
<1>4. GroupExcludes => GroupExcludes'
  BY <1>2, GroupIsOfJobs DEF GroupExcludes
<1> QED BY <1>1, <1>2, <1>3, <1>4

LEMMA BeginKeeps ==
  ASSUME SchedulerInv, BeginTick PROVE SchedulerInv'
<1>0. Base /\ Base'
  BY BeginTypes DEF SchedulerInv, Base
<1>1. /\ tick'.pc = "reconcile" /\ tick'.seen = jobState
      /\ UNCHANGED <<defined, jobState, delivery, excused>>
  <2>1. PICK t \in TickSet, seen \in {jobState}, at \in {wall} : t = NoTick /\ seen = jobState /\ at = wall
    BY SchedulerConstants
  <2>2. tick' = [t EXCEPT !.pc = "reconcile", !.at = at, !.seen = seen]
    BY <2>1 DEF BeginTick
  <2> QED BY <2>1, <2>2 DEF BeginTick, TickSet
<1>2. /\ \A x \in DOMAIN delivery : Stray(x)' <=> Stray(x)
      /\ GroupExcludes'
  BY <1>0, <1>1, SameStrays DEF SchedulerInv
<1>3. StraysAwait'
  BY <1>1, <1>2 DEF SchedulerInv, StraysAwait, UsesDefs, OccurrenceKey, HasRun
<1>4. HandIsFree' /\ UntouchedStay' /\ GroupWaits'
  BY <1>1 DEF HandIsFree, UntouchedStay, GroupWaits, UsesDefs
<1> QED BY <1>0, <1>2, <1>3, <1>4 DEF SchedulerInv, Base

LEMMA ReconcileKeeps ==
  ASSUME SchedulerInv, NEW jitter \in Jitter, ReconcileJob(jitter) PROVE SchedulerInv'
<1>0. Base /\ Base'
  BY ReconcileTypes DEF SchedulerInv, Base
<1>1. PICK new \in StateSet :
           /\ jobState' = [jobState EXCEPT ![tick.j] = new]
           /\ new.last = jobState[tick.j].last
           /\ \/ new = jobState[tick.j]
              \/ tick.seen[tick.j].last # tick.seen[tick.j].completed
  BY <1>0, ReconcileWrites
<1>2. /\ tick.pc = "reconcile" /\ tick \in TickSet /\ tick.j \in Jobs /\ Jobs \subseteq Nat
      /\ UNCHANGED <<delivery, defined, excused>> /\ tick' = Onward("reconcile")
  BY <1>0, BaseFacts, SchedulerConstants DEF ReconcileJob, historyVars
<1>3. /\ tick'.pc \in {"reconcile", "plan"}
      /\ tick'.pc = "reconcile" => tick'.j = tick.j + 1 /\ tick'.seen = tick.seen
  BY <1>2, OnwardIs DEF NoTick
<1>4. \A k \in Jobs : jobState'[k].last = jobState[k].last /\ (k # tick.j => jobState'[k] = jobState[k])
  BY <1>0, <1>1, <1>2, BaseFacts
<1>5. /\ \A x \in DOMAIN delivery : Stray(x)' <=> Stray(x)
      /\ GroupExcludes'
  BY <1>0, <1>2, <1>4, SameStrays DEF SchedulerInv
<1>6. StraysAwait'
  <2> SUFFICES ASSUME NEW x \in DOMAIN delivery, Stray(x)
        PROVE  /\ Awaits(x)'
               /\ tick'.pc \in UsesDefs => tick'.defs[x.job] = defined'[x.job]
               /\ tick'.pc = "reconcile" /\ x.job >= tick'.j =>
                    /\ tick'.seen[x.job].last = jobState'[x.job].last
                    /\ tick'.seen[x.job].completed = jobState'[x.job].completed
    BY <1>2, <1>5 DEF StraysAwait, Awaits
  <2>1. x.job \in Jobs /\ x.job \in Nat /\ tick.j \in Nat
    BY <1>0, <1>2, BaseFacts
  <2>2. /\ Awaits(x)
        /\ x.job >= tick.j => /\ tick.seen[x.job].last = jobState[x.job].last
                              /\ tick.seen[x.job].completed = jobState[x.job].completed
    BY <1>2, AwaitsIs DEF SchedulerInv
  <2>3. jobState'[x.job] = jobState[x.job]
    <3>1. CASE x.job = tick.j
      <4>1. x.job >= tick.j
        BY <2>1, <3>1
      <4>2. jobState[x.job].last = jobState[x.job].completed
        BY <2>2 DEF Awaits
      <4>3. tick.seen[tick.j].last = tick.seen[tick.j].completed
        BY <2>2, <3>1, <4>1, <4>2
      <4> QED BY <1>0, <1>1, <1>2, <3>1, <4>3, BaseFacts
    <3> QED BY <1>4, <2>1, <3>1
  <2>4. Awaits(x)'
    BY <1>2, <2>2, <2>3 DEF Awaits, OccurrenceKey
  <2>5. ASSUME tick'.pc = "reconcile", x.job >= tick'.j
        PROVE  /\ tick'.seen[x.job].last = jobState'[x.job].last
               /\ tick'.seen[x.job].completed = jobState'[x.job].completed
    <3>1. x.job >= tick.j
      BY <1>3, <2>1, <2>5
    <3> QED BY <1>3, <2>2, <2>3, <2>5, <3>1
  <2> QED BY <1>3, <2>4, <2>5 DEF UsesDefs
<1>7. HandIsFree' /\ UntouchedStay' /\ GroupWaits'
  BY <1>3 DEF HandIsFree, UntouchedStay, GroupWaits, UsesDefs
<1> QED BY <1>0, <1>5, <1>6, <1>7 DEF SchedulerInv, Base

LEMMA ReadKeeps ==
  ASSUME SchedulerInv, ReadJobs PROVE SchedulerInv'
<1>0. Base /\ Base'
  BY ReadTypes DEF SchedulerInv, Base
<1>1. /\ tick.pc = "plan" /\ tick \in TickSet
      /\ tick' = [tick EXCEPT !.pc = "ensure", !.defs = defined]
      /\ UNCHANGED <<delivery, defined, excused, jobState, touched>>
  BY <1>0, BaseFacts DEF ReadJobs, historyVars
<1>2. tick.j = 1 /\ Jobs \subseteq Nat /\ \A k \in Jobs : k >= 1
  BY <1>1, SchedulerConstants DEF SchedulerInv, TickOK, Jobs
<1>3. tick'.pc = "ensure" /\ tick'.defs = defined /\ tick'.j = 1
  BY <1>1, <1>2 DEF TickSet
<1>4. /\ \A x \in DOMAIN delivery : Stray(x)' <=> Stray(x)
      /\ \A k \in Jobs : CountsForGroup(k)' <=> CountsForGroup(k)
      /\ GroupExcludes'
  BY <1>0, <1>1, SameStrays DEF SchedulerInv
<1>5. StraysAwait'
  BY <1>1, <1>3, <1>4 DEF SchedulerInv, StraysAwait, OccurrenceKey, HasRun
<1>6. HandIsFree'
  BY <1>3 DEF HandIsFree
<1>7. UntouchedStay'
  BY <1>1, <1>2, <1>3 DEF UntouchedStay, UsesDefs
<1>8. GroupWaits'
  BY <1>3, <1>4 DEF GroupWaits, CountsForGroup
<1> QED BY <1>0, <1>4, <1>5, <1>6, <1>7, <1>8 DEF SchedulerInv, Base

LEMMA EnsureKeeps ==
  ASSUME SchedulerInv, NEW jitter \in Jitter, EnsureInitial(jitter) PROVE SchedulerInv'
<1> DEFINE j == tick.j
           d == tick.defs[j]
<1>0. Base /\ Base'
  BY EnsureTypes DEF SchedulerInv, Base
<1>1. /\ tick.pc = "ensure" /\ tick \in TickSet /\ j \in Jobs /\ Jobs \subseteq Nat /\ j \in Nat
      /\ UNCHANGED <<delivery, defined, excused, touched>> /\ tick' = Onward("ensure")
  BY <1>0, BaseFacts, SchedulerConstants DEF EnsureInitial, historyVars
<1>2. PICK due \in Nat :
           LET s == jobState[j]
               new == IF d # NoJob /\ ~HasRun(s) THEN [s EXCEPT !.initial = due] ELSE s
           IN  /\ jobState' = [jobState EXCEPT ![j] = new] /\ new \in StateSet
               /\ d.kind # "once" => due > 0
  BY <1>0, EnsureWrites
<1>3. PICK s \in StateSet : s = jobState[j]
  BY <1>0, <1>1, BaseFacts
<1>4. PICK new \in StateSet :
        /\ jobState' = [jobState EXCEPT ![j] = new]
        /\ new.last = s.last /\ new.completed = s.completed
        /\ \/ new = s /\ (d = NoJob \/ HasRun(s))
           \/ d # NoJob /\ ~HasRun(s) /\ new.initial = due
  <2>1. CASE d # NoJob /\ ~HasRun(s)
    <3>1. PICK new : new = [s EXCEPT !.initial = due]
      OBVIOUS
    <3>2. /\ new \in StateSet /\ new.last = s.last /\ new.completed = s.completed /\ new.initial = due
      BY <3>1 DEF StateSet
    <3>3. jobState' = [jobState EXCEPT ![j] = new]
      BY <1>2, <1>3, <2>1, <3>1
    <3> QED BY <2>1, <3>2, <3>3
  <2>2. CASE ~(d # NoJob /\ ~HasRun(s))
    BY <1>2, <1>3, <2>2
  <2> QED BY <2>1, <2>2
<1>5. d = NoJob \/ d.kind = "once" \/ HasRun(new)
  BY <1>2, <1>4 DEF HasRun
<1>6. /\ tick'.defs = tick.defs
      /\ \/ tick'.pc = "ensure" /\ tick'.j = j + 1
         \/ tick'.pc = "decide" /\ tick'.j = 1 /\ j = LastJob
  BY <1>1, OnwardIs
<1>7. /\ jobState'[j] = new
      /\ \A k \in Jobs : jobState'[k].last = jobState[k].last /\ (k # j => jobState'[k] = jobState[k])
  BY <1>0, <1>1, <1>3, <1>4, BaseFacts
<1>8. /\ \A x \in DOMAIN delivery : Stray(x)' <=> Stray(x)
      /\ \A k \in Jobs : CountsForGroup(k)' <=> CountsForGroup(k)
      /\ GroupExcludes'
  BY <1>0, <1>1, <1>7, SameStrays DEF SchedulerInv
<1>9. StraysAwait'
  <2> SUFFICES ASSUME NEW x \in DOMAIN delivery, Stray(x)
        PROVE  /\ Awaits(x)'
               /\ tick'.pc \in UsesDefs => tick'.defs[x.job] = defined'[x.job]
               /\ tick'.pc # "reconcile"
    BY <1>1, <1>8 DEF StraysAwait, Awaits
  <2>1. x.job \in Jobs
    BY <1>0, BaseFacts
  <2>2. Awaits(x) /\ tick.defs[x.job] = defined[x.job]
    BY <1>1, AwaitsIs DEF SchedulerInv, UsesDefs
  <2>3. CASE jobState'[x.job] = jobState[x.job]
    BY <1>1, <1>6, <2>2, <2>3 DEF Awaits, OccurrenceKey
  <2>4. CASE x.job = j /\ d # NoJob /\ ~HasRun(s)
    <3>1. d.kind = "once" /\ d = defined[j]
      BY <1>3, <2>2, <2>4 DEF Awaits
    <3>2. OccurrenceKey(j, d, new) = OccurrenceKey(j, d, s)
      BY <3>1 DEF OccurrenceKey
    <3>3. Awaits(x)'
      BY <1>1, <1>3, <1>4, <1>7, <2>2, <2>4, <3>1, <3>2 DEF Awaits
    <3> QED BY <1>1, <1>6, <2>2, <3>3
  <2> QED BY <1>3, <1>4, <1>7, <2>1, <2>3, <2>4
<1>10. HandIsFree'
  BY <1>6 DEF HandIsFree
<1>11. UntouchedStay'
  <2> SUFFICES ASSUME NEW k \in Jobs \ touched
        PROVE  /\ defined[k] = tick.defs[k]
               /\ k =< j => tick.defs[k] = NoJob \/ tick.defs[k].kind = "once" \/ HasRun(jobState'[k])
    <3>1. \A k \in Jobs : k \in Nat /\ k =< LastJob
      BY <1>1 DEF Jobs
    <3>2. \A k \in Jobs : (tick'.pc = "ensure" /\ k < tick'.j) \/ tick'.pc = "decide" => k =< j
      BY <1>1, <1>6, <3>1
    <3> QED BY <1>1, <1>6, <3>2 DEF UntouchedStay, UsesDefs, HasRun
  <2>1. defined[k] = tick.defs[k]
    BY <1>1 DEF SchedulerInv, UntouchedStay
  <2>2. k < j => tick.defs[k] = NoJob \/ tick.defs[k].kind = "once" \/ HasRun(jobState[k])
    BY <1>1 DEF SchedulerInv, UntouchedStay
  <2>3. k \in Nat /\ (k # j => jobState'[k] = jobState[k])
    BY <1>1, <1>7
  <2> QED BY <1>1, <1>5, <1>7, <2>1, <2>2, <2>3
<1>12. GroupWaits'
  BY <1>1, <1>6, <1>8 DEF SchedulerInv, GroupWaits, UsesDefs
<1> QED BY <1>0, <1>8, <1>9, <1>10, <1>11, <1>12 DEF SchedulerInv, Base

\* On to the next decision, or to the end of the tick: of whom is left less is asked.
LEMMA NextDecision ==
  ASSUME SchedulerInv, Base', tick' = Onward("decide"), tick.pc \in {"decide", "record", "remove"},
         UNCHANGED touched, StraysAwait',
         \A k \in Jobs : k # tick.j => defined'[k] = defined[k] /\ SameRun(k),
         \A k \in Jobs : CountsForGroup(k)' => CountsForGroup(k) \/ (k = tick.j /\ tick.defs[k] # NoJob),
         GroupExcludes'
  PROVE  SchedulerInv'
<1>0. Base /\ tick \in TickSet /\ tick.j \in Jobs /\ Jobs \subseteq Nat
  BY BaseFacts, SchedulerConstants DEF SchedulerInv, Base
<1>1. \/ tick'.pc = "decide" /\ tick'.j = tick.j + 1 /\ tick'.defs = tick.defs
      \/ tick'.pc = "idle"
  BY <1>0, OnwardIs DEF NoTick
<1>2. HandIsFree'
  BY <1>1 DEF HandIsFree
<1>3. UntouchedStay'
  <2> SUFFICES ASSUME NEW k \in Jobs \ touched, tick'.pc = "decide", k >= tick'.j
        PROVE  /\ defined'[k] = tick.defs[k]
               /\ tick.defs[k] = NoJob \/ tick.defs[k].kind = "once" \/ HasRun(jobState'[k])
    BY <1>1 DEF UntouchedStay, UsesDefs, HasRun
  <2>1. k \in Nat /\ tick.j \in Nat /\ k > tick.j /\ k # tick.j /\ k >= tick.j
    <3>1. k \in Nat /\ tick.j \in Nat
      BY <1>0
    <3>2. k >= tick.j + 1
      BY <1>1
    <3> QED BY <3>1, <3>2
  <2>2. defined[k] = tick.defs[k]
    BY <2>1 DEF SchedulerInv, UntouchedStay, UsesDefs
  <2>3. tick.defs[k] = NoJob \/ tick.defs[k].kind = "once" \/ HasRun(jobState[k])
    BY <2>1 DEF SchedulerInv, UntouchedStay
  <2>4. defined'[k] = defined[k] /\ SameRun(k)
    BY <2>1
  <2> QED BY <2>2, <2>3, <2>4, SameKey
<1>4. GroupWaits'
  <2>1. \A k \in Jobs : CountsForGroup(k) => tick.defs[k] # NoJob
    BY DEF SchedulerInv, GroupWaits, UsesDefs
  <2> QED BY <1>1, <2>1 DEF GroupWaits, UsesDefs
<1> QED BY <1>2, <1>3, <1>4 DEF SchedulerInv, Base

LEMMA DecideKeeps ==
  ASSUME SchedulerInv, Decide PROVE SchedulerInv'
<1> DEFINE j == tick.j
<1>0. Base /\ Base'
  BY DecideTypes DEF SchedulerInv, Base
<1>1. /\ tick.pc = "decide" /\ j \in Jobs /\ Jobs \subseteq Nat /\ j >= j
      /\ UNCHANGED <<delivery, defined, excused, jobState, touched>>
  BY <1>0, BaseFacts, SchedulerConstants DEF Decide, historyVars
<1>2. /\ \A x \in DOMAIN delivery : Stray(x)' <=> Stray(x)
      /\ \A k \in Jobs : HasPending(k)' <=> HasPending(k)
      /\ \A k \in Jobs : CountsForGroup(k)' <=> CountsForGroup(k)
      /\ GroupExcludes'
  BY <1>0, <1>1, SameStrays DEF SchedulerInv
<1>3. \A x \in DOMAIN delivery : Stray(x) => Awaits(x) /\ tick.defs[x.job] = defined[x.job] /\ x.job \in Jobs
  BY <1>0, <1>1, AwaitsIs, BaseFacts DEF SchedulerInv, UsesDefs
<1>4. CASE tick' = Onward("decide")
  <2>1. /\ tick'.pc \in {"decide", "idle"}
        /\ tick'.pc = "decide" => tick'.defs = tick.defs
    BY <1>0, <1>4, BaseFacts, OnwardIs DEF NoTick
  <2>2. StraysAwait'
    BY <1>1, <1>2, <1>3, <2>1 DEF StraysAwait, Awaits, OccurrenceKey, HasRun, UsesDefs
  <2>3. \A k \in Jobs : defined'[k] = defined[k] /\ SameRun(k)
    BY <1>1 DEF SameRun
  <2> QED BY <1>0, <1>1, <1>2, <1>4, <2>2, <2>3, NextDecision
<1>5. CASE /\ tick'.pc = "enqueue" /\ tick'.j = j /\ tick'.defs = tick.defs
           /\ tick.defs[j] # NoJob /\ ~GroupBusy(j) /\ ~HasPending(j)
           /\ tick'.id = OccurrenceKey(j, tick.defs[j], jobState[j])
  <2>1. StraysAwait'
    BY <1>1, <1>2, <1>3, <1>5 DEF StraysAwait, Awaits, OccurrenceKey, HasRun, UsesDefs
  <2>2. HandIsFree'
    <3>1. \A x \in DOMAIN delivery : Stray(x) /\ x.job = j => x = tick'.id
      BY <1>3, <1>5 DEF Awaits
    <3> QED BY <1>1, <1>2, <1>5, <3>1 DEF HandIsFree
  <2>3. UntouchedStay'
    <3> SUFFICES ASSUME NEW k \in Jobs \ touched
          PROVE  /\ k >= j => defined[k] = tick.defs[k]
                 /\ k >= j => tick.defs[k] = NoJob \/ tick.defs[k].kind = "once" \/ HasRun(jobState[k])
                 /\ k = j => OccurrenceKey(k, tick.defs[k], jobState[k]) = tick'.id
      BY <1>1, <1>5 DEF UntouchedStay, UsesDefs, HasRun, OccurrenceKey
    <3>1. k >= j => defined[k] = tick.defs[k]
      BY <1>1 DEF SchedulerInv, UntouchedStay, UsesDefs
    <3>2. k >= j => tick.defs[k] = NoJob \/ tick.defs[k].kind = "once" \/ HasRun(jobState[k])
      BY <1>1 DEF SchedulerInv, UntouchedStay
    <3> QED BY <1>5, <3>1, <3>2
  <2>4. GroupWaits'
    <3>1. \A k \in Jobs : CountsForGroup(k) => tick.defs[k] # NoJob
      BY <1>1 DEF SchedulerInv, GroupWaits, UsesDefs
    <3>2. j \in MutexGroup => \A k \in MutexGroup \ {j} : ~CountsForGroup(k)
      BY <1>5, <3>1, GroupIsOfJobs DEF GroupBusy, CountsForGroup
    <3> QED BY <1>1, <1>2, <1>5, <3>1, <3>2, GroupIsOfJobs DEF GroupWaits, UsesDefs
  <2> QED BY <1>0, <1>2, <2>1, <2>2, <2>3, <2>4 DEF SchedulerInv, Base
<1> QED BY <1>0, <1>4, <1>5, DecideIs

LEMMA EnqueueKeeps ==
  ASSUME SchedulerInv, Enqueue PROVE SchedulerInv'
<1> DEFINE j  == tick.j
           id == tick.id
           loose == j \in touched \/ Unreconciled(j)
<1>0. Base /\ Base'
  BY EnqueueTypes DEF SchedulerInv, Base
<1>1. /\ tick.pc = "enqueue" /\ tick \in TickSet /\ j \in Jobs /\ Jobs \subseteq Nat /\ j >= j
      /\ UNCHANGED <<defined, jobState, touched>>
  BY <1>0, BaseFacts, SchedulerConstants DEF Enqueue
<1>2. tick'.pc = "record" /\ tick'.j = j /\ tick'.defs = tick.defs /\ tick'.id = id
  <2>1. tick' = [tick EXCEPT !.pc = "record"]
    BY DEF Enqueue
  <2> QED BY <1>1, <2>1 DEF TickSet
<1>3. /\ id.job = j /\ DOMAIN delivery' = DOMAIN delivery \cup {id}
      /\ \A x \in DOMAIN delivery : delivery'[x] = delivery[x]
  BY <1>0, EnqueueAdds
<1>4. /\ excused' \in {excused, excused \cup {id}} /\ excused \subseteq excused'
      /\ id \notin DOMAIN delivery /\ loose => id \in excused'
      /\ id \in DOMAIN delivery => excused' = excused
  BY Zenon DEF Enqueue
<1>5. \A k \in Jobs : jobState[k].last # NoId => jobState[k].last \in DOMAIN delivery
  BY <1>0, BaseFacts DEF Refers
<1>6. NoId \notin DOMAIN delivery'
  BY <1>0, <1>3, BaseFacts, EnqueueAdds, SchedulerConstants
<1>7. \A k \in Jobs : Status(jobState[k].last)' = Status(jobState[k].last)
  BY <1>1, <1>3, <1>5, <1>6 DEF Status
<1>8. \A k \in Jobs : HasPending(k)' <=> HasPending(k)
  BY <1>7 DEF HasPending
<1>9. \A k \in Jobs : CountsForGroup(k)' => CountsForGroup(k)
  BY <1>1, <1>4, <1>8 DEF CountsForGroup
<1>10. \A x \in DOMAIN delivery : Stray(x)' => Stray(x)
  BY <1>0, <1>1, <1>3, <1>4, BaseFacts DEF Stray
<1>11. ~HasPending(j) /\ \A x \in DOMAIN delivery : Stray(x) /\ x.job = j => x = id
  BY <1>1 DEF SchedulerInv, HandIsFree
<1>12. StraysAwait'
  <2> SUFFICES ASSUME NEW x \in DOMAIN delivery', Stray(x)'
        PROVE  Awaits(x) /\ tick.defs[x.job] = defined[x.job]
    BY <1>1, <1>2 DEF StraysAwait, Awaits, OccurrenceKey, HasRun
  <2>1. CASE x \in DOMAIN delivery
    BY <1>1, <1>10, <2>1, AwaitsIs DEF SchedulerInv, UsesDefs
  <2>2. CASE x = id /\ id \notin DOMAIN delivery
    <3>1. ~loose
      BY <1>4, <2>2 DEF Stray
    <3>2. j \in Jobs \ touched /\ jobState[j].last = jobState[j].completed
      BY <1>1, <1>11, <3>1 DEF Unreconciled
    <3>3. /\ defined[j] = tick.defs[j]
          /\ tick.defs[j] = NoJob \/ tick.defs[j].kind = "once" \/ HasRun(jobState[j])
          /\ OccurrenceKey(j, tick.defs[j], jobState[j]) = id
      BY <1>1, <3>2 DEF SchedulerInv, UntouchedStay, UsesDefs
    <3>4. tick.defs[j] # NoJob
      BY <1>1 DEF SchedulerInv, TickOK
    <3> QED BY <1>3, <2>2, <3>2, <3>3, <3>4 DEF Awaits
  <2> QED BY <1>3, <2>1, <2>2
<1>13. HandIsFree'
  BY <1>1, <1>2, <1>3, <1>8, <1>10, <1>11 DEF HandIsFree
<1>14. UntouchedStay'
  <2> SUFFICES ASSUME NEW k \in Jobs \ touched
        PROVE  /\ k >= j => defined[k] = tick.defs[k]
               /\ k > j => tick.defs[k] = NoJob \/ tick.defs[k].kind = "once" \/ HasRun(jobState[k])
    BY <1>1, <1>2 DEF UntouchedStay, UsesDefs, HasRun
  <2>1. k >= j => defined[k] = tick.defs[k]
    BY <1>1 DEF SchedulerInv, UntouchedStay, UsesDefs
  <2>2. k >= j => tick.defs[k] = NoJob \/ tick.defs[k].kind = "once" \/ HasRun(jobState[k])
    BY <1>1 DEF SchedulerInv, UntouchedStay
  <2>3. k > j => k >= j
    <3>1. k \in Nat /\ j \in Nat
      BY <1>1
    <3> QED BY <3>1
  <2> QED BY <2>1, <2>2, <2>3
<1>15. GroupWaits'
  BY <1>1, <1>2, <1>9, GroupIsOfJobs DEF SchedulerInv, GroupWaits, UsesDefs
<1>16. GroupExcludes'
  <2>1. \A i, k \in MutexGroup : i # k => ~(CountsForGroup(i) /\ CountsForGroup(k))
    BY ExcludesIs DEF SchedulerInv
  <2>2. \A i, k \in MutexGroup : i # k => ~(CountsForGroup(i)' /\ CountsForGroup(k)')
    BY <1>9, <2>1, GroupIsOfJobs
  <2> QED BY <2>2 DEF GroupExcludes, CountsForGroup
<1> QED BY <1>0, <1>12, <1>13, <1>14, <1>15, <1>16 DEF SchedulerInv, Base

\* When the delivery in hand is in the state of its job, that job has no other.
LEMMA RecordKeeps ==
  ASSUME SchedulerInv, RecordPending PROVE SchedulerInv'
<1> DEFINE j  == tick.j
           id == tick.id
<1>0. Base /\ Base'
  BY RecordTypes DEF SchedulerInv, Base
<1>1. /\ tick.pc = "record" /\ tick \in TickSet /\ j \in Jobs /\ Jobs \subseteq Nat
      /\ UNCHANGED <<defined, delivery, touched, excused>>
  BY <1>0, BaseFacts, SchedulerConstants DEF RecordPending
<1>2. PICK new \in StateSet : jobState' = [jobState EXCEPT ![j] = new] /\ new.last = id
  BY <1>0, RecordWrites
<1>3. /\ jobState'[j].last = id
      /\ \A k \in Jobs : k # j => jobState'[k] = jobState[k] /\ SameRun(k)
  BY <1>0, <1>1, <1>2, BaseFacts DEF SameRun
<1>4. ~HasPending(j) /\ \A x \in DOMAIN delivery : Stray(x) /\ x.job = j => x = id
  BY <1>1 DEF SchedulerInv, HandIsFree
<1>5. tick.defs[j] # NoJob /\ id.job = j
  BY <1>1 DEF SchedulerInv, TickOK
<1>6. \A x \in DOMAIN delivery : Stray(x)' => x.job \in Jobs \ {j} /\ Stray(x)
  <2> SUFFICES ASSUME NEW x \in DOMAIN delivery, Stray(x)' PROVE x.job \in Jobs \ {j} /\ Stray(x)
    OBVIOUS
  <2>1. x.job \in Jobs /\ x \notin excused /\ delivery[x].status \in Pending
    BY <1>0, <1>1, BaseFacts DEF Stray
  <2>2. x.job # j
    <3> SUFFICES ASSUME x.job = j PROVE FALSE
      BY <2>1
    <3>1. jobState[j].last # x
      BY <1>4, <2>1 DEF HasPending, Status
    <3>2. x = id
      BY <1>4, <2>1, <3>1 DEF Stray
    <3> QED BY <1>3, <3>2 DEF Stray
  <2>3. jobState'[x.job] = jobState[x.job]
    BY <1>3, <2>1, <2>2
  <2> QED BY <1>1, <2>1, <2>2, <2>3 DEF Stray
<1>7. \A k \in Jobs : k # j => (CountsForGroup(k)' => CountsForGroup(k))
  BY <1>1, <1>3 DEF CountsForGroup, HasPending, Status
<1>8. GroupExcludes'
  <2>1. \A i, k \in MutexGroup : i # k => ~(CountsForGroup(i) /\ CountsForGroup(k))
    BY ExcludesIs DEF SchedulerInv
  <2>2. j \in MutexGroup => \A k \in MutexGroup \ {j} : ~CountsForGroup(k)
    BY <1>1 DEF SchedulerInv, GroupWaits
  <2>3. \A i, k \in MutexGroup : i # k => ~(CountsForGroup(i)' /\ CountsForGroup(k)')
    BY <1>7, <2>1, <2>2, GroupIsOfJobs
  <2> QED BY <2>3 DEF GroupExcludes, CountsForGroup
<1>9. \A x \in DOMAIN delivery : Stray(x)' => Awaits(x)' /\ tick.defs[x.job] = defined[x.job]
  <2> SUFFICES ASSUME NEW x \in DOMAIN delivery, Stray(x)'
        PROVE  Awaits(x)' /\ tick.defs[x.job] = defined[x.job]
    OBVIOUS
  <2>1. x.job \in Jobs \ {j} /\ Stray(x)
    BY <1>6
  <2>2. Awaits(x) /\ tick.defs[x.job] = defined[x.job]
    BY <1>1, <2>1, AwaitsIs DEF SchedulerInv, UsesDefs
  <2>3. jobState'[x.job] = jobState[x.job]
    BY <1>3, <2>1
  <2> QED BY <1>1, <2>2, <2>3 DEF Awaits, OccurrenceKey
<1>10. CASE tick' = Onward("decide")
  <2>1. /\ tick'.pc \in {"decide", "idle"}
        /\ tick'.pc = "decide" => tick'.defs = tick.defs
    BY <1>0, <1>10, BaseFacts, OnwardIs DEF NoTick
  <2>2. StraysAwait'
    BY <1>1, <1>9, <2>1 DEF StraysAwait, Awaits, UsesDefs
  <2> QED BY <1>0, <1>1, <1>3, <1>5, <1>7, <1>8, <1>10, <2>2, NextDecision
<1>11. CASE tick' = [tick EXCEPT !.pc = "remove"]
  <2>1. tick'.pc = "remove" /\ tick'.j = j /\ tick'.defs = tick.defs
    BY <1>1, <1>11 DEF TickSet
  <2>2. StraysAwait'
    BY <1>1, <1>9, <2>1 DEF StraysAwait, Awaits, UsesDefs
  <2>3. HandIsFree'
    BY <1>1, <1>6, <2>1 DEF HandIsFree
  <2>4. UntouchedStay'
    <3> SUFFICES ASSUME NEW k \in Jobs \ touched
          PROVE  /\ k >= j => defined[k] = tick.defs[k]
                 /\ k > j => tick.defs[k] = NoJob \/ tick.defs[k].kind = "once" \/ HasRun(jobState'[k])
      BY <1>1, <2>1 DEF UntouchedStay, UsesDefs, HasRun
    <3>1. k >= j => defined[k] = tick.defs[k]
      BY <1>1 DEF SchedulerInv, UntouchedStay, UsesDefs
    <3>2. k > j => tick.defs[k] = NoJob \/ tick.defs[k].kind = "once" \/ HasRun(jobState[k])
      BY <1>1 DEF SchedulerInv, UntouchedStay
    <3>3. k > j => jobState'[k] = jobState[k]
      BY <1>1, <1>3
    <3> QED BY <3>1, <3>2, <3>3
  <2>5. GroupWaits'
    <3>1. \A k \in Jobs : CountsForGroup(k) => tick.defs[k] # NoJob
      BY <1>1 DEF SchedulerInv, GroupWaits, UsesDefs
    <3> QED BY <1>5, <1>7, <2>1, <3>1 DEF GroupWaits
  <2> QED BY <1>0, <1>8, <2>2, <2>3, <2>4, <2>5 DEF SchedulerInv, Base
<1> QED BY <1>10, <1>11 DEF RecordPending

LEMMA RemoveKeeps ==
  ASSUME SchedulerInv, RemoveOnce PROVE SchedulerInv'
<1> DEFINE j == tick.j
<1>0. Base /\ Base'
  BY RemoveTypes DEF SchedulerInv, Base
<1>1. /\ tick.pc = "remove" /\ j \in Jobs /\ tick' = Onward("decide")
      /\ UNCHANGED <<jobState, delivery, touched, excused>>
      /\ defined' = [defined EXCEPT ![j] = NoJob]
  BY <1>0, BaseFacts DEF RemoveOnce, historyVars
<1>2. /\ defined'[j] = NoJob
      /\ \A k \in Jobs : k # j => defined'[k] = defined[k]
      /\ \A k \in Jobs : SameRun(k)
  BY <1>0, <1>1, BaseFacts DEF SameRun
<1>3. /\ tick'.pc \in {"decide", "idle"}
      /\ tick'.pc = "decide" => tick'.defs = tick.defs
  BY <1>0, <1>1, BaseFacts, OnwardIs DEF NoTick
<1>4. StraysAwait'
  <2> SUFFICES ASSUME NEW x \in DOMAIN delivery, Stray(x)'
        PROVE  Awaits(x)' /\ tick.defs[x.job] = defined'[x.job]
    BY <1>1, <1>3 DEF StraysAwait, Awaits, UsesDefs
  <2>1. Stray(x)
    BY <1>1 DEF Stray
  <2>2. x.job \in Jobs \ {j}
    BY <1>0, <1>1, <2>1, BaseFacts DEF SchedulerInv, HandIsFree
  <2>3. Awaits(x) /\ tick.defs[x.job] = defined[x.job]
    BY <1>1, <2>1, AwaitsIs DEF SchedulerInv, UsesDefs
  <2> QED BY <1>1, <1>2, <2>2, <2>3 DEF Awaits, OccurrenceKey
<1>5. \A k \in Jobs : CountsForGroup(k)' => CountsForGroup(k)
  BY <1>1, <1>2 DEF CountsForGroup, HasPending, Status
<1>6. GroupExcludes'
  <2>1. \A i, k \in MutexGroup : i # k => ~(CountsForGroup(i) /\ CountsForGroup(k))
    BY ExcludesIs DEF SchedulerInv
  <2>2. \A i, k \in MutexGroup : i # k => ~(CountsForGroup(i)' /\ CountsForGroup(k)')
    BY <1>5, <2>1, GroupIsOfJobs
  <2> QED BY <2>2 DEF GroupExcludes, CountsForGroup
<1> QED BY <1>0, <1>1, <1>2, <1>4, <1>5, <1>6, NextDecision

LEMMA DiesKeeps ==
  ASSUME SchedulerInv, SchedulerDies PROVE SchedulerInv'
<1>0. Base /\ Base'
  BY DiesTypes DEF SchedulerInv, Base
<1>1. tick'.pc = "idle" /\ UNCHANGED <<defined, jobState, delivery, touched, excused>>
  BY DEF SchedulerDies, historyVars, NoTick
<1>2. /\ \A x \in DOMAIN delivery : Stray(x)' <=> Stray(x)
      /\ GroupExcludes'
  BY <1>0, <1>1, SameStrays DEF SchedulerInv
<1>3. StraysAwait'
  BY <1>1, <1>2 DEF SchedulerInv, StraysAwait, UsesDefs, OccurrenceKey, HasRun
<1>4. HandIsFree' /\ UntouchedStay' /\ GroupWaits'
  BY <1>1 DEF HandIsFree, UntouchedStay, GroupWaits, UsesDefs
<1> QED BY <1>0, <1>2, <1>3, <1>4 DEF SchedulerInv, Base

(****************************************************************************)
(* The theorems.                                                            *)
(****************************************************************************)
LEMMA SchedulerStarts == SchedulerInit => SchedulerInv
<1> SUFFICES ASSUME SchedulerInit PROVE SchedulerInv
  OBVIOUS
<1>1. DOMAIN delivery = {} /\ delivery = [x \in {} |-> NoJob]
  BY DEF SchedulerInit
<1>2. \A j \in Jobs : /\ jobState[j] = Clear /\ ~HasPending(j) /\ Refers(jobState[j], j)
                      /\ Refers(NoTick.seen[j], j)
  <2>1. \A j \in Jobs : jobState[j] = Clear /\ NoTick.seen[j] = Clear
    BY DEF SchedulerInit, NoTick
  <2>2. Clear.last = NoId /\ Clear.completed = NoId
    BY DEF Clear
  <2> QED BY <1>1, <2>1, <2>2 DEF HasPending, Status, Pending, Refers
<1>3. SchedulerTypeOK
  <2>1. defined \in [Jobs -> DefSet \cup {NoJob}]
    <3>1. PICK S : S = {NoJob} \cup UNION {Definition(j, 1) : j \in Jobs}
      OBVIOUS
    <3>2. S \subseteq DefSet \cup {NoJob}
      BY <3>1, SchedulerConstants
    <3> QED BY <3>1, <3>2 DEF SchedulerInit
  <2>2. jobState \in [Jobs -> StateSet] /\ dispatched \in [Jobs -> Nat]
    BY SchedulerConstants DEF SchedulerInit
  <2>3. delivery \in [DOMAIN delivery -> RowSet]
    BY <1>1
  <2> QED BY <1>1, <2>1, <2>2, <2>3, SchedulerConstants DEF SchedulerInit, SchedulerTypeOK
<1>4. tick.pc = "idle" /\ tick = NoTick /\ request = NoRequest
  BY DEF SchedulerInit, NoTick
<1>5. TickOK
  BY <1>2, <1>4 DEF TickOK, NoRequest, RequestFor
<1>6. StraysAwait /\ HandIsFree
  BY <1>1, <1>4 DEF StraysAwait, HandIsFree
<1>7. UntouchedStay /\ GroupWaits
  BY <1>4 DEF UntouchedStay, GroupWaits, UsesDefs
<1>8. GroupExcludes
  BY <1>2, GroupIsOfJobs DEF GroupExcludes
<1> QED BY <1>3, <1>5, <1>6, <1>7, <1>8 DEF SchedulerInv

LEMMA SchedulerSteps == SchedulerInv /\ [SchedulerNext]_scheduleVars => SchedulerInv'
<1> SUFFICES ASSUME SchedulerInv, [SchedulerNext]_scheduleVars PROVE SchedulerInv'
  OBVIOUS
<1>1. ASSUME NEW jitter \in Jitter, ReconcileJob(jitter) \/ EnsureInitial(jitter) PROVE SchedulerInv'
  BY <1>1, ReconcileKeeps, EnsureKeeps
<1>2. CASE BeginTick \/ ReadJobs \/ Decide \/ Enqueue \/ RecordPending \/ RemoveOnce \/ SchedulerDies
  BY <1>2, BeginKeeps, ReadKeeps, DecideKeeps, EnqueueKeeps, RecordKeeps, RemoveKeeps, DiesKeeps
<1>3. CASE FireCancels \/ FireWrites \/ RemoveCancels \/ ClearState \/ Rebase \/ StopCancels
  BY <1>3, RequestKeeps
<1>4. ASSUME NEW j \in Jobs,
             \/ FireNow(j) \/ RemoveJob(j) \/ Pause(j) \/ StopPauses(j)
             \/ \E d \in Definition(j, 1) : AddJob(j, d)
             \/ \E d \in Definition(j, 1) \cup Definition(j, 2) : EditJob(j, d)
      PROVE  SchedulerInv'
  BY <1>4, CommandsKeep
<1>5. CASE \E id \in DOMAIN delivery :
             Claim(id) \/ Retry(id) \/ DeliveryEnds(id, "succeeded") \/ DeliveryEnds(id, "failed")
  BY <1>5, WorldKeeps DEF WorkerStep
<1>6. CASE Advance \/ RequestDies
  BY <1>6, WorldKeeps
<1>7. CASE UNCHANGED scheduleVars
  <2>1. UNCHANGED <<wall, tick, defined, jobState, delivery, dispatched, touched, excused, request>>
    BY <1>7 DEF scheduleVars, historyVars
  <2>2. Base /\ RowsGoOn
    BY <2>1, RowsStay DEF SchedulerInv, Base
  <2>3. Base' /\ \A k \in Jobs : SameRun(k)
    BY <2>1, <2>2, RowTypes DEF SameRun
  <2> QED BY <2>1, <2>2, <2>3, NothingCut
<1> QED BY <1>1, <1>2, <1>3, <1>4, <1>5, <1>6, <1>7 DEF SchedulerNext

\* The inductive invariant of the scheduler: what a tick has read, what it holds and
\* what it has queued agree with what the commands made of the jobs meanwhile.
THEOREM SchedulerInvariant == SchedulerSpec => []SchedulerInv
BY SchedulerStarts, SchedulerSteps, PTL DEF SchedulerSpec

\* A crash between the queue and the state strands nothing (scheduler_service.py:196):
\* the next decision of the job comes upon every delivery its state does not know.
THEOREM PendingStaysKnown == SchedulerSpec => []PendingIsKnown
<1>1. SchedulerInv => PendingIsKnown
  BY DEF SchedulerInv, StraysAwait, Stray, PendingIsKnown
<1> QED BY <1>1, SchedulerInvariant, PTL

\* Jobs that share a mutex group are serialized (core.py:169), whatever commands and
\* deaths fall between the look at the group and the write of the delivery.
THEOREM GroupAlwaysExcludes == SchedulerSpec => []GroupExcludes
<1>1. SchedulerInv => GroupExcludes
  BY DEF SchedulerInv
<1> QED BY <1>1, SchedulerInvariant, PTL

(****************************************************************************)
(* The cadence: the last dispatch of a job is known to the next decision.   *)
(****************************************************************************)
\* What the next decision on a definition comes upon is among the deliveries, whatever
\* became of it: there is nothing to settle before it and no first run to set.
ComesUpon(j, d, s, deliveries) ==
  \/ d = NoJob
  \/ /\ OccurrenceKey(j, d, s) \in deliveries /\ s.last = s.completed
     /\ d.kind = "once" \/ HasRun(s)

Recorded(j) == dispatched[j] =< jobState[j].queued \/ dispatched[j] =< jobState[j].fired

\* The tick has still to decide on a job by the definitions it has read.
Undecided(j) ==
  \/ tick.pc = "ensure"
  \/ tick.pc \in {"decide", "enqueue"} /\ j >= tick.j
  \/ tick.pc \in {"record", "remove"} /\ j > tick.j

Recognized(j) ==
  /\ ComesUpon(j, defined[j], jobState[j], DOMAIN delivery)
  /\ Undecided(j) => ComesUpon(j, tick.defs[j], jobState[j], DOMAIN delivery)
  /\ tick.pc = "reconcile" /\ j >= tick.j /\ defined[j] # NoJob =>
       /\ tick.seen[j].last = jobState[j].last
       /\ tick.seen[j].completed = jobState[j].completed

\* The last dispatch of a job is in its state, or the next decision comes upon it.
DispatchIsKnown == \A j \in Jobs : Recorded(j) \/ Recognized(j)

\* While a job is written, the tick knows that it is; what is rebased is in the state.
RequestIsSeen ==
  /\ request # NoRequest /\ request.op # "stop" => request.job \in touched
  /\ request.op = "rebase" => Recorded(request.job)

\* What is handed to the queue is there already, or its time has come.
InTime ==
  tick.pc = "enqueue" /\ tick.id \notin DOMAIN delivery
  /\ tick.defs[tick.j].kind = "interval" /\ tick.since > 0
    => tick.at >= tick.since + tick.defs[tick.j].every

CadenceInv == DispatchIsKnown /\ RequestIsSeen /\ InTime

\* What is among the deliveries stays there.
LEMMA StillComesUpon ==
  ASSUME NEW k \in Jobs, SameRun(k), NEW d, NEW Q, NEW R, Q \subseteq R,
         ComesUpon(k, d, jobState[k], Q)
  PROVE  ComesUpon(k, d, jobState'[k], R)
BY DEF ComesUpon, OccurrenceKey, HasRun, SameRun

LEMMA CadenceTypes ==
  ASSUME Base
  PROVE  /\ \A k \in Jobs : dispatched[k] \in Nat /\ jobState[k].queued \in Nat /\ jobState[k].fired \in Nat
         /\ Jobs \subseteq Nat
         /\ request # NoRequest => request.job \in Jobs
         /\ NoRequest.op = "none"
BY BaseFacts, SchedulerConstants DEF StateSet, Base, TickOK, NoRequest, RequestFor

\* Who leaves the tick alone leaves the cadence alone but for the jobs whose last
\* dispatch it writes.
LEMMA OthersKeepCadence ==
  ASSUME Base, CadenceInv, UNCHANGED tick, DOMAIN delivery' = DOMAIN delivery,
         NEW J \in SUBSET Jobs,
         \A k \in Jobs \ J : /\ defined'[k] \in {defined[k], NoJob} /\ SameRun(k)
                             /\ dispatched'[k] = dispatched[k],
         \A k \in J : Recorded(k)',
         RequestIsSeen'
  PROVE  CadenceInv'
<1>1. InTime'
  BY DEF CadenceInv, InTime
<1>2. ASSUME NEW k \in Jobs PROVE Recorded(k)' \/ Recognized(k)'
  <2>1. CASE k \in J
    BY <2>1
  <2>2. CASE k \notin J
    <3>1. /\ defined'[k] \in {defined[k], NoJob} /\ SameRun(k)
          /\ dispatched'[k] = dispatched[k]
      BY <2>2
    <3>2. Recorded(k) => Recorded(k)'
      BY <3>1 DEF Recorded, SameRun
    <3>3. ASSUME Recognized(k) PROVE Recognized(k)'
      <4>1. PICK Q, d, e : Q = DOMAIN delivery /\ d = defined[k] /\ e = tick.defs[k]
        OBVIOUS
      <4>2. ComesUpon(k, d, jobState[k], Q) => ComesUpon(k, d, jobState'[k], Q)
        BY <3>1, StillComesUpon
      <4>3. ComesUpon(k, e, jobState[k], Q) => ComesUpon(k, e, jobState'[k], Q)
        BY <3>1, StillComesUpon
      <4>4. ComesUpon(k, NoJob, jobState'[k], Q)
        BY DEF ComesUpon
      <4>5. Undecided(k)' <=> Undecided(k)
        BY DEF Undecided
      <4>6. /\ ComesUpon(k, defined'[k], jobState'[k], DOMAIN delivery')
            /\ Undecided(k) => ComesUpon(k, tick'.defs[k], jobState'[k], DOMAIN delivery')
        <5>1. ComesUpon(k, d, jobState[k], Q) /\ (Undecided(k) => ComesUpon(k, e, jobState[k], Q))
          BY <3>3, <4>1 DEF Recognized
        <5> QED BY <3>1, <4>1, <4>2, <4>3, <4>4, <5>1
      <4>7. tick'.pc = "reconcile" /\ k >= tick'.j /\ defined'[k] # NoJob =>
              /\ tick'.seen[k].last = jobState'[k].last
              /\ tick'.seen[k].completed = jobState'[k].completed
        BY <3>1, <3>3 DEF Recognized, SameRun
      <4> QED BY <4>5, <4>6, <4>7 DEF Recognized
    <3> QED BY <3>2, <3>3 DEF CadenceInv, DispatchIsKnown
  <2> QED BY <2>1, <2>2
<1> QED BY <1>1, <1>2 DEF CadenceInv, DispatchIsKnown

\* The request stays in sight of the tick.
LEMMA StillSeen ==
  ASSUME Base, CadenceInv, touched \subseteq touched', request' \in {request, NoRequest},
         \A k \in Jobs : k = request.job /\ request.op = "rebase" /\ Recorded(k) => Recorded(k)'
  PROVE  RequestIsSeen'
<1>1. CASE request' = NoRequest
  BY <1>1, CadenceTypes DEF RequestIsSeen
<1>2. CASE request' = request
  <2>1. request.op = "rebase" => request.job \in Jobs /\ Recorded(request.job)
    BY CadenceTypes DEF CadenceInv, RequestIsSeen
  <2>2. \A k \in Jobs : k = request.job /\ request.op = "rebase" => Recorded(k)'
    BY <2>1 DEF Recorded
  <2> QED BY <1>2, <2>1, <2>2 DEF CadenceInv, RequestIsSeen, Recorded
<1> QED BY <1>1, <1>2

\* When only deliveries or the clock go on
LEMMA NothingDispatched ==
  ASSUME Base, CadenceInv, UNCHANGED <<tick, defined, dispatched>>, DOMAIN delivery' = DOMAIN delivery,
         \A k \in Jobs : SameRun(k), RequestIsSeen'
  PROVE  CadenceInv'
<1> DEFINE J == {}
<1>1. /\ J \in SUBSET Jobs
      /\ \A k \in Jobs \ J : /\ defined'[k] \in {defined[k], NoJob} /\ SameRun(k)
                             /\ dispatched'[k] = dispatched[k]
      /\ \A k \in J : Recorded(k)'
  OBVIOUS
<1> HIDE DEF J
<1> QED BY <1>1, OthersKeepCadence

\* When one job is written whose last dispatch is in its state by then
LEMMA OneRecorded ==
  ASSUME Base, CadenceInv, UNCHANGED <<tick, delivery>>, NEW j \in Jobs,
         \A k \in Jobs \ {j} : /\ defined'[k] = defined[k] /\ SameRun(k)
                               /\ dispatched'[k] = dispatched[k],
         Recorded(j)', RequestIsSeen'
  PROVE  CadenceInv'
<1> DEFINE J == {j}
<1>1. /\ J \in SUBSET Jobs
      /\ \A k \in Jobs \ J : /\ defined'[k] \in {defined[k], NoJob} /\ SameRun(k)
                             /\ dispatched'[k] = dispatched[k]
      /\ \A k \in J : Recorded(k)'
  OBVIOUS
<1> HIDE DEF J
<1> QED BY <1>1, OthersKeepCadence

\* A request that was made is seen.
LEMMA AskedIsSeen ==
  ASSUME NEW j \in Jobs, j \in touched',
         \/ request' = NoRequest
         \/ request'.job = j /\ request'.op # "rebase"
         \/ request'.job = j /\ Recorded(j)'
  PROVE  RequestIsSeen'
BY DEF RequestIsSeen, NoRequest, RequestFor, Recorded

LEMMA CommandsKeepCadence ==
  ASSUME Base, CadenceInv, NEW j \in Jobs,
         \/ \E d \in Definition(j, 1) : AddJob(j, d)
         \/ \E d \in Definition(j, 1) \cup Definition(j, 2) : EditJob(j, d)
         \/ RemoveJob(j) \/ FireNow(j) \/ Pause(j) \/ StopPauses(j)
  PROVE  CadenceInv'
<1>0. dispatched[j] \in Nat /\ jobState[j].queued \in Nat /\ jobState[j].fired \in Nat
  BY CadenceTypes
<1>1. ASSUME NEW d \in Definition(j, 1), AddJob(j, d) PROVE CadenceInv'
  <2>1. /\ UNCHANGED <<tick, delivery, jobState>> /\ j \in touched'
        /\ defined' = [defined EXCEPT ![j] = d] /\ dispatched' = [dispatched EXCEPT ![j] = 0]
        /\ request' = RequestFor("clear", j)
    BY <1>1 DEF AddJob, Ask, CutOff
  <2>2. Recorded(j)'
    BY <1>0, <2>1, BaseFacts DEF Recorded
  <2>3. RequestIsSeen'
    BY <2>1, AskedIsSeen DEF RequestFor
  <2>4. \A k \in Jobs \ {j} : /\ defined'[k] = defined[k] /\ SameRun(k)
                              /\ dispatched'[k] = dispatched[k]
    BY <2>1, BaseFacts DEF SameRun
  <2> QED BY <2>1, <2>2, <2>3, <2>4, OneRecorded
<1>2. ASSUME NEW d \in Definition(j, 1) \cup Definition(j, 2), EditJob(j, d) PROVE CadenceInv'
  <2>1. /\ UNCHANGED <<tick, delivery, jobState>> /\ j \in touched'
        /\ defined' = [defined EXCEPT ![j] = d]
        /\ dispatched' = [dispatched EXCEPT ![j] =
             IF d.kind # "interval" \/ Forgiven(j) THEN 0 ELSE dispatched[j]]
        /\ request' \in {NoRequest, RequestFor("rebase", j)}
    BY <1>2 DEF EditJob, Ask, CutOff
  <2>2. Recorded(j)'
    <3>1. dispatched'[j] = 0 \/ (dispatched'[j] = dispatched[j] /\ ~Forgiven(j))
      BY <2>1, BaseFacts
    <3> QED BY <1>0, <2>1, <3>1 DEF Recorded, Forgiven
  <2>3. RequestIsSeen'
    <3>1. request' = NoRequest \/ request'.job = j
      BY <2>1 DEF RequestFor
    <3> QED BY <2>1, <2>2, <3>1, AskedIsSeen
  <2>4. \A k \in Jobs \ {j} : /\ defined'[k] = defined[k] /\ SameRun(k)
                              /\ dispatched'[k] = dispatched[k]
    BY <2>1, BaseFacts DEF SameRun
  <2> QED BY <2>1, <2>2, <2>3, <2>4, OneRecorded
<1>3. CASE RemoveJob(j)
  <2>1. /\ UNCHANGED <<tick, delivery, jobState, dispatched>> /\ j \in touched'
        /\ defined' = [defined EXCEPT ![j] = NoJob]
        /\ request' = RequestFor("cancel", j)
    BY <1>3 DEF RemoveJob, Ask, CutOff
  <2>2. RequestIsSeen'
    BY <2>1, AskedIsSeen DEF RequestFor
  <2> DEFINE J == {}
  <2>3. /\ J \in SUBSET Jobs
        /\ \A k \in Jobs \ J : /\ defined'[k] \in {defined[k], NoJob} /\ SameRun(k)
                               /\ dispatched'[k] = dispatched[k]
        /\ \A k \in J : Recorded(k)'
    BY <2>1, BaseFacts DEF SameRun
  <2> HIDE DEF J
  <2> QED BY <2>1, <2>2, <2>3, OthersKeepCadence
<1>4. CASE FireNow(j)
  <2>1. /\ UNCHANGED <<tick, defined, dispatched, delivery, jobState>> /\ j \in touched'
        /\ request'.job = j /\ request'.op = "fire"
    BY <1>4 DEF FireNow, Ask, RequestFor
  <2>2. RequestIsSeen' /\ \A k \in Jobs : SameRun(k)
    BY <2>1, AskedIsSeen DEF SameRun
  <2> QED BY <2>1, <2>2, NothingDispatched
<1>5. CASE Pause(j) \/ StopPauses(j)
  <2>1. PICK paused \in BOOLEAN :
           /\ jobState' = [jobState EXCEPT ![j].paused = paused]
           /\ UNCHANGED <<tick, wall, defined, delivery, dispatched, touched, excused>>
           /\ request' \in {NoRequest, RequestFor("stop", j)}
    BY <1>5, PauseTypes
  <2>2. \A k \in Jobs : SameRun(k)
    BY <2>1, PauseWrites DEF SameRun
  <2>3. RequestIsSeen'
    BY <2>1 DEF RequestIsSeen, NoRequest, RequestFor
  <2> QED BY <2>1, <2>2, <2>3, NothingDispatched
<1> QED BY <1>1, <1>2, <1>3, <1>4, <1>5

LEMMA RequestKeepsCadence ==
  ASSUME Base, CadenceInv,
         FireCancels \/ FireWrites \/ RemoveCancels \/ ClearState \/ Rebase \/ StopCancels
  PROVE  CadenceInv'
<1>1. request.job \in Jobs /\ request # NoRequest
  BY DEF Base, TickOK, NoRequest, RequestFor, FireCancels, FireWrites, RemoveCancels,
         ClearState, Rebase, StopCancels
<1>2. PICK j \in Jobs : j = request.job
  BY <1>1
<1>3. CASE FireCancels \/ RemoveCancels \/ StopCancels
  <2>1. /\ UNCHANGED <<tick, defined, jobState, touched, dispatched>> /\ CancelLast(j)
        /\ \/ request' = NoRequest
           \/ request'.job = j /\ request'.op \in {"fired", "clear"} /\ j \in touched
    <3>1. CASE FireCancels
      <4>1. /\ request.op = "fire" /\ UNCHANGED <<tick, defined, jobState, touched, dispatched>>
            /\ CancelLast(j)
        BY <1>2, <3>1 DEF FireCancels, historyVars
      <4>2. \E gone : request' = [request EXCEPT !.op = "fired", !.gone = gone]
        BY <3>1 DEF FireCancels
      <4>3. request'.job = j /\ request'.op = "fired"
        BY <1>2, <4>2, BaseFacts DEF AskedSet
      <4> QED BY <1>1, <1>2, <4>1, <4>3 DEF CadenceInv, RequestIsSeen
    <3>2. CASE RemoveCancels
      <4>1. /\ request.op = "cancel" /\ UNCHANGED <<tick, defined, jobState, touched, dispatched>>
            /\ CancelLast(j) /\ request' = [request EXCEPT !.op = "clear"]
        BY <1>2, <3>2 DEF RemoveCancels, historyVars
      <4>2. request'.job = j /\ request'.op = "clear"
        BY <1>2, <4>1, BaseFacts DEF AskedSet
      <4> QED BY <1>1, <1>2, <4>1, <4>2 DEF CadenceInv, RequestIsSeen
    <3>3. CASE StopCancels
      BY <1>2, <3>3 DEF StopCancels, historyVars
    <3> QED BY <1>3, <3>1, <3>2, <3>3
  <2>2. RowsGoOn
    BY <1>2, <2>1, CancelGoesOn
  <2>3. RequestIsSeen'
    BY <2>1, AskedIsSeen DEF RequestIsSeen, NoRequest, RequestFor
  <2>4. \A k \in Jobs : SameRun(k)
    BY <2>1 DEF SameRun
  <2> QED BY <2>1, <2>2, <2>3, <2>4, NothingDispatched DEF RowsGoOn
<1>4. CASE FireWrites
  <2>1. PICK new \in StateSet :
          jobState' = [jobState EXCEPT ![j] = new] /\ new.fired = request.at
    BY <1>2, <1>4, FireWritesState
  <2>2. /\ UNCHANGED <<tick, delivery, defined>> /\ request' = NoRequest /\ j \in touched'
        /\ dispatched' = [dispatched EXCEPT ![j] = request.at]
    BY <1>2, <1>4 DEF FireWrites, CutOff
  <2>3. Recorded(j)'
    <3>1. request.at \in Nat
      BY BaseFacts DEF AskedSet
    <3>2. dispatched'[j] = request.at /\ jobState'[j].fired = request.at
      BY <2>1, <2>2, BaseFacts
    <3> QED BY <3>1, <3>2 DEF Recorded
  <2>4. \A k \in Jobs \ {j} : /\ defined'[k] = defined[k] /\ SameRun(k)
                              /\ dispatched'[k] = dispatched[k]
    BY <2>1, <2>2, BaseFacts DEF SameRun
  <2>5. RequestIsSeen'
    BY <2>2, AskedIsSeen
  <2> QED BY <2>2, <2>3, <2>4, <2>5, OneRecorded
<1>5. CASE ClearState
  <2>1. /\ UNCHANGED <<tick, delivery, defined>> /\ request' = NoRequest /\ j \in touched'
        /\ dispatched' = [dispatched EXCEPT ![j] = 0]
        /\ jobState' = [jobState EXCEPT ![j] = Clear]
    BY <1>2, <1>5 DEF ClearState, CutOff
  <2>2. Recorded(j)'
    BY <2>1, BaseFacts DEF Recorded, Clear
  <2>3. \A k \in Jobs \ {j} : /\ defined'[k] = defined[k] /\ SameRun(k)
                              /\ dispatched'[k] = dispatched[k]
    BY <2>1, BaseFacts DEF SameRun
  <2>4. RequestIsSeen'
    BY <2>1, AskedIsSeen
  <2> QED BY <2>1, <2>2, <2>3, <2>4, OneRecorded
<1>6. CASE Rebase
  <2>1. PICK s \in StateSet : s = jobState[j]
    BY BaseFacts
  <2>2. PICK new : new = [s EXCEPT !.next = 0, !.initial = 0]
    OBVIOUS
  <2>3. new.queued = s.queued /\ new.fired = s.fired
    BY <2>2 DEF StateSet
  <2>4. /\ UNCHANGED <<tick, delivery, defined, dispatched>> /\ request' = NoRequest /\ j \in touched'
        /\ jobState' = [jobState EXCEPT ![j] = new] /\ request.op = "rebase"
    BY <1>2, <1>6, <2>1, <2>2, BaseFacts DEF Rebase, CutOff
  <2>5. Recorded(j)'
    <3>1. Recorded(j)
      BY <1>2, <2>4 DEF CadenceInv, RequestIsSeen, Recorded
    <3>2. jobState'[j].queued = jobState[j].queued /\ jobState'[j].fired = jobState[j].fired
      BY <2>1, <2>3, <2>4, BaseFacts
    <3> QED BY <2>4, <3>1, <3>2 DEF Recorded
  <2>6. \A k \in Jobs \ {j} : /\ defined'[k] = defined[k] /\ SameRun(k)
                              /\ dispatched'[k] = dispatched[k]
    BY <2>4, BaseFacts DEF SameRun
  <2>7. RequestIsSeen'
    BY <2>4, AskedIsSeen
  <2> QED BY <2>4, <2>5, <2>6, <2>7, OneRecorded
<1> QED BY <1>3, <1>4, <1>5, <1>6

LEMMA WorldKeepsCadence ==
  ASSUME Base, CadenceInv,
         Advance \/ RequestDies \/ \E id \in DOMAIN delivery : WorkerStep(id)
  PROVE  CadenceInv'
<1>1. /\ UNCHANGED <<tick, defined, jobState, touched, dispatched>>
      /\ request' \in {request, NoRequest}
  BY DEF Advance, RequestDies, WorkerStep, Claim, Retry, DeliveryEnds, historyVars
<1>2. RowsGoOn
  BY ClockTypes, WorkerTypes
<1>3. \A k \in Jobs : SameRun(k)
  BY <1>1 DEF SameRun
<1>4. \A k \in Jobs : Recorded(k) => Recorded(k)'
  BY <1>1 DEF Recorded
<1>5. RequestIsSeen'
  BY <1>1, <1>4, StillSeen
<1> QED BY <1>1, <1>2, <1>3, <1>5, NothingDispatched DEF RowsGoOn

LEMMA BeginKeepsCadence ==
  ASSUME Base, CadenceInv, BeginTick PROVE CadenceInv'
<1>1. /\ tick'.pc = "reconcile" /\ tick'.seen = jobState
      /\ UNCHANGED <<defined, jobState, delivery, request, dispatched>>
  <2>1. PICK t \in TickSet, seen \in {jobState}, at \in {wall} : t = NoTick
    BY SchedulerConstants
  <2>2. tick' = [t EXCEPT !.pc = "reconcile", !.at = at, !.seen = seen]
    BY <2>1 DEF BeginTick
  <2> QED BY <2>1, <2>2 DEF BeginTick, TickSet
<1>2. DispatchIsKnown'
  BY <1>1 DEF CadenceInv, DispatchIsKnown, Recorded, Recognized, Undecided, ComesUpon, OccurrenceKey, HasRun
<1>3. RequestIsSeen'
  <2>1. request # NoRequest => request.job \in touched'
    BY DEF BeginTick
  <2> QED BY <1>1, <2>1 DEF CadenceInv, RequestIsSeen, Recorded
<1>4. InTime'
  BY <1>1 DEF InTime
<1> QED BY <1>2, <1>3, <1>4 DEF CadenceInv

\* A step of the tick that writes no dispatch
LEMMA TickSeesRequest ==
  ASSUME Base, CadenceInv, UNCHANGED <<request, touched, dispatched>>,
         \A k \in Jobs : /\ jobState'[k].queued = jobState[k].queued
                         /\ jobState'[k].fired = jobState[k].fired
  PROVE  RequestIsSeen' /\ \A k \in Jobs : Recorded(k) => Recorded(k)'
<1>1. \A k \in Jobs : Recorded(k) => Recorded(k)'
  BY DEF Recorded
<1>2. RequestIsSeen'
  BY <1>1, StillSeen
<1> QED BY <1>1, <1>2

LEMMA ReconcileKeepsCadence ==
  ASSUME Base, CadenceInv, NEW jitter \in Jitter, ReconcileJob(jitter) PROVE CadenceInv'
<1>1. PICK new \in StateSet :
           /\ jobState' = [jobState EXCEPT ![tick.j] = new]
           /\ new.queued = jobState[tick.j].queued /\ new.fired = jobState[tick.j].fired
           /\ \/ new = jobState[tick.j]
              \/ tick.seen[tick.j].last # tick.seen[tick.j].completed
  BY ReconcileWrites
<1>2. /\ tick.pc = "reconcile" /\ tick \in TickSet /\ tick.j \in Jobs /\ Jobs \subseteq Nat
      /\ UNCHANGED <<delivery, defined, request, touched, dispatched>> /\ tick' = Onward("reconcile")
  BY BaseFacts, SchedulerConstants DEF ReconcileJob, historyVars
<1>3. /\ tick'.pc \in {"reconcile", "plan"}
      /\ tick'.pc = "reconcile" => tick'.j = tick.j + 1 /\ tick'.seen = tick.seen
  BY <1>2, OnwardIs DEF NoTick
<1>4. \A k \in Jobs : /\ jobState'[k].queued = jobState[k].queued /\ jobState'[k].fired = jobState[k].fired
                      /\ k # tick.j \/ new = jobState[tick.j] => jobState'[k] = jobState[k]
  BY <1>1, <1>2, BaseFacts
<1>5. RequestIsSeen' /\ \A k \in Jobs : Recorded(k) => Recorded(k)'
  BY <1>2, <1>4, TickSeesRequest
<1>6. ASSUME NEW k \in Jobs, Recognized(k) PROVE Recognized(k)'
  <2>1. ~Undecided(k)'
    BY <1>3 DEF Undecided
  <2>2. CASE defined[k] = NoJob
    BY <1>2, <2>1, <2>2 DEF Recognized, ComesUpon
  <2>3. CASE defined[k] # NoJob
    <3>1. /\ OccurrenceKey(k, defined[k], jobState[k]) \in DOMAIN delivery
          /\ jobState[k].last = jobState[k].completed
          /\ k >= tick.j => /\ tick.seen[k].last = jobState[k].last
                            /\ tick.seen[k].completed = jobState[k].completed
      BY <1>2, <1>6, <2>3 DEF Recognized, ComesUpon
    <3>2. jobState'[k] = jobState[k]
      <4>1. CASE k = tick.j
        <5>1. k >= tick.j
          BY <1>2, <4>1
        <5>2. tick.seen[tick.j].last = tick.seen[tick.j].completed
          BY <3>1, <4>1, <5>1
        <5> QED BY <1>1, <1>4, <4>1, <5>2
      <4> QED BY <1>4, <4>1
    <3>3. tick'.pc = "reconcile" /\ k >= tick'.j =>
            /\ tick'.seen[k].last = jobState'[k].last
            /\ tick'.seen[k].completed = jobState'[k].completed
      <4>1. k \in Nat /\ tick.j \in Nat
        BY <1>2
      <4>2. tick'.pc = "reconcile" /\ k >= tick'.j => k >= tick.j
        BY <1>3, <4>1
      <4> QED BY <1>3, <3>1, <3>2, <4>2
    <3> QED BY <1>2, <1>6, <2>1, <3>2, <3>3 DEF Recognized, ComesUpon, OccurrenceKey
  <2> QED BY <2>2, <2>3
<1>7. InTime'
  BY <1>3 DEF InTime
<1> QED BY <1>5, <1>6, <1>7 DEF CadenceInv, DispatchIsKnown

LEMMA ReadKeepsCadence ==
  ASSUME Base, CadenceInv, ReadJobs PROVE CadenceInv'
<1>1. /\ tick \in TickSet /\ tick' = [tick EXCEPT !.pc = "ensure", !.defs = defined]
      /\ UNCHANGED <<delivery, defined, jobState, request, touched, dispatched>>
  BY BaseFacts DEF ReadJobs, historyVars
<1>2. tick'.pc = "ensure" /\ tick'.defs = defined
  BY <1>1 DEF TickSet
<1>3. RequestIsSeen' /\ \A k \in Jobs : Recorded(k) => Recorded(k)'
  BY <1>1, TickSeesRequest
<1>4. \A k \in Jobs : Recognized(k) => Recognized(k)'
  BY <1>1, <1>2 DEF Recognized, ComesUpon, OccurrenceKey, HasRun
<1>5. InTime'
  BY <1>2 DEF InTime
<1> QED BY <1>3, <1>4, <1>5 DEF CadenceInv, DispatchIsKnown

LEMMA EnsureKeepsCadence ==
  ASSUME Base, CadenceInv, NEW jitter \in Jitter, EnsureInitial(jitter) PROVE CadenceInv'
<1> DEFINE j == tick.j
           d == tick.defs[j]
<1>1. /\ tick.pc = "ensure" /\ tick \in TickSet /\ j \in Jobs /\ Jobs \subseteq Nat
      /\ UNCHANGED <<delivery, defined, request, touched, dispatched>> /\ tick' = Onward("ensure")
  BY BaseFacts, SchedulerConstants DEF EnsureInitial, historyVars
<1>2. PICK s \in StateSet : s = jobState[j]
  BY <1>1, BaseFacts
<1>3. PICK new \in StateSet :
        /\ jobState' = [jobState EXCEPT ![j] = new]
        /\ new.last = s.last /\ new.completed = s.completed
        /\ new.queued = s.queued /\ new.fired = s.fired
        /\ new = s \/ (d # NoJob /\ ~HasRun(s))
  <2>1. PICK due \in Nat :
           LET new == IF d # NoJob /\ ~HasRun(s) THEN [s EXCEPT !.initial = due] ELSE s
           IN  jobState' = [jobState EXCEPT ![j] = new] /\ new \in StateSet
    BY <1>2, EnsureWrites
  <2>2. CASE d # NoJob /\ ~HasRun(s)
    BY <2>1, <2>2 DEF StateSet
  <2>3. CASE ~(d # NoJob /\ ~HasRun(s))
    BY <2>1, <2>3
  <2> QED BY <2>2, <2>3
<1>4. /\ tick'.defs = tick.defs /\ tick'.pc \in {"ensure", "decide"}
  BY <1>1, OnwardIs
<1>5. /\ jobState'[j] = new
      /\ \A k \in Jobs : k # j => jobState'[k] = jobState[k]
      /\ \A k \in Jobs : jobState'[k].queued = jobState[k].queued /\ jobState'[k].fired = jobState[k].fired
  BY <1>1, <1>2, <1>3, BaseFacts
<1>6. RequestIsSeen' /\ \A k \in Jobs : Recorded(k) => Recorded(k)'
  BY <1>1, <1>5, TickSeesRequest
\* What comes upon a delivery and has not run is to run once, whenever that is.
<1>7. ASSUME NEW k \in Jobs, NEW e, NEW Q, ComesUpon(k, e, jobState[k], Q)
      PROVE  ComesUpon(k, e, jobState'[k], Q)
  <2>1. CASE jobState'[k] = jobState[k]
    BY <1>7, <2>1
  <2>2. CASE k = j /\ ~HasRun(s) /\ e # NoJob
    <3>1. e.kind = "once" /\ OccurrenceKey(k, e, s) \in Q /\ s.last = s.completed
      BY <1>2, <1>7, <2>2 DEF ComesUpon
    <3>2. OccurrenceKey(k, e, new) = OccurrenceKey(k, e, s)
      BY <3>1 DEF OccurrenceKey
    <3> QED BY <1>3, <1>5, <2>2, <3>1, <3>2 DEF ComesUpon
  <2>3. CASE e = NoJob
    BY <2>3 DEF ComesUpon
  <2> QED BY <1>2, <1>3, <1>5, <2>1, <2>2, <2>3
<1>8. ASSUME NEW k \in Jobs, Recognized(k) PROVE Recognized(k)'
  <2>1. PICK Q, a, b : Q = DOMAIN delivery /\ a = defined[k] /\ b = tick.defs[k]
    OBVIOUS
  <2>2. ComesUpon(k, a, jobState[k], Q) /\ ComesUpon(k, b, jobState[k], Q)
    BY <1>1, <1>8, <2>1 DEF Recognized, Undecided
  <2>3. ComesUpon(k, a, jobState'[k], Q) /\ ComesUpon(k, b, jobState'[k], Q)
    BY <1>7, <2>2
  <2> QED BY <1>1, <1>4, <2>1, <2>3 DEF Recognized
<1>9. InTime'
  BY <1>4 DEF InTime
<1> QED BY <1>6, <1>8, <1>9 DEF CadenceInv, DispatchIsKnown

\* The last dispatch is a floor under what is due.
LEMMA FloorHolds ==
  ASSUME NEW d \in DefSet, NEW s \in StateSet, NEW t \in Nat, NEW since \in Nat,
         d.kind = "interval", since > 0, since =< s.queued \/ since =< s.fired,
         IsDue(d, s, t)
  PROVE  t >= since + d.every
<1>1. /\ s.sent \in Nat /\ s.queued \in Nat /\ s.fired \in Nat /\ s.next \in Nat /\ d.every \in Nat
  BY DEF StateSet, DefSet
<1>2. PICK latest \in Nat : /\ latest = Max({s.sent, s.queued, s.fired})
                            /\ latest >= s.queued /\ latest >= s.fired
  BY <1>1, MaxOfThree
<1>3. PICK floor \in Nat : floor = Floor(d, s) /\ floor >= since + d.every
  <2>1. latest > 0
    BY <1>1, <1>2
  <2>2. Floor(d, s) = latest + d.every
    BY <1>2, <2>1 DEF Floor
  <2> QED BY <1>1, <1>2, <2>2
<1>4. t >= floor
  <2>1. CASE s.next > 0
    <3>1. PICK bound \in Nat : bound = Max({s.next, floor}) /\ bound >= floor
      BY <1>1, MaxOfTwo
    <3>2. t >= bound
      BY <1>3, <2>1, <3>1 DEF IsDue
    <3> QED BY <3>1, <3>2
  <2>2. CASE ~(s.next > 0)
    BY <1>3, <2>2 DEF IsDue
  <2> QED BY <2>1, <2>2
<1> QED BY <1>1, <1>3, <1>4

LEMMA DecideKeepsCadence ==
  ASSUME Base, CadenceInv, Decide PROVE CadenceInv'
<1> DEFINE j == tick.j
<1>1. /\ tick.pc = "decide" /\ tick \in TickSet /\ j \in Jobs /\ Jobs \subseteq Nat /\ j >= j
      /\ UNCHANGED <<delivery, defined, jobState, request, touched, dispatched>>
  BY BaseFacts, SchedulerConstants DEF Decide, historyVars
<1>2. RequestIsSeen' /\ \A k \in Jobs : Recorded(k) => Recorded(k)'
  BY <1>1, TickSeesRequest
<1>3. /\ tick'.pc \in {"decide", "enqueue", "idle"}
      /\ tick'.pc # "idle" => tick'.defs = tick.defs /\ tick'.j \in {j, j + 1}
  BY <1>1, OnwardIs, DecideIs DEF NoTick
<1>4. ASSUME NEW k \in Jobs, Recognized(k) PROVE Recognized(k)'
  <2>1. k \in Nat /\ j \in Nat
    BY <1>1
  <2>2. Undecided(k)' => Undecided(k) /\ tick'.defs = tick.defs
    BY <1>1, <1>3, <2>1 DEF Undecided
  <2> QED BY <1>1, <1>3, <1>4, <2>2 DEF Recognized, ComesUpon, OccurrenceKey, HasRun
<1>5. InTime'
  <2> SUFFICES ASSUME tick'.pc = "enqueue", tick'.id \notin DOMAIN delivery,
                      tick'.defs[tick'.j].kind = "interval", tick'.since > 0
        PROVE  tick'.at >= tick'.since + tick'.defs[tick'.j].every
    BY <1>1 DEF InTime
  <2>1. CASE tick' = Onward("decide")
    BY <1>1, <2>1, OnwardIs DEF NoTick
  <2>2. CASE /\ tick'.j = j /\ tick'.at = tick.at /\ tick'.defs = tick.defs
             /\ tick.defs[j] # NoJob
             /\ tick'.id = OccurrenceKey(j, tick.defs[j], jobState[j])
             /\ tick'.since = dispatched[j]
             /\ IsDue(tick.defs[j], jobState[j], tick.at)
    <3>1. ~Recognized(j)
      BY <1>1, <2>2 DEF Recognized, Undecided, ComesUpon
    <3>2. dispatched[j] =< jobState[j].queued \/ dispatched[j] =< jobState[j].fired
      BY <1>1, <3>1 DEF CadenceInv, DispatchIsKnown, Recorded
    <3>3. PICK d \in DefSet, s \in StateSet, t \in Nat, since \in Nat :
            d = tick.defs[j] /\ s = jobState[j] /\ t = tick.at /\ since = dispatched[j]
      BY <1>1, <2>2, BaseFacts
    <3>4. t >= since + d.every
      BY <2>2, <3>2, <3>3, FloorHolds
    <3> QED BY <2>2, <3>3, <3>4
  <2> QED BY <2>1, <2>2, DecideIs
<1> QED BY <1>2, <1>4, <1>5 DEF CadenceInv, DispatchIsKnown

LEMMA EnqueueKeepsCadence ==
  ASSUME SchedulerInv, CadenceInv, Enqueue PROVE CadenceInv'
<1> DEFINE j  == tick.j
           id == tick.id
           loose == j \in touched \/ Unreconciled(j)
<1>0. Base
  BY DEF SchedulerInv, Base
<1>1. /\ tick.pc = "enqueue" /\ tick \in TickSet /\ j \in Jobs /\ Jobs \subseteq Nat /\ j >= j
      /\ UNCHANGED <<defined, jobState, request, touched>>
  BY <1>0, BaseFacts, SchedulerConstants DEF Enqueue
<1>2. tick'.pc = "record" /\ tick'.j = j /\ tick'.defs = tick.defs
  <2>1. tick' = [tick EXCEPT !.pc = "record"]
    BY DEF Enqueue
  <2> QED BY <1>1, <2>1 DEF TickSet
<1>3. DOMAIN delivery' = DOMAIN delivery \cup {id}
  BY <1>0, EnqueueAdds
<1>4. \/ dispatched' = dispatched
      \/ /\ dispatched' = [dispatched EXCEPT ![j] = tick.at]
         /\ id \notin DOMAIN delivery /\ ~loose
  BY Zenon DEF Enqueue
<1>5. \A k \in Jobs : k # j \/ loose => dispatched'[k] = dispatched[k]
  BY <1>0, <1>4, BaseFacts
<1>6. RequestIsSeen'
  <2>1. request.op = "rebase" => request.job \in touched /\ request.job \in Jobs
    BY <1>0, CadenceTypes DEF CadenceInv, RequestIsSeen
  <2>2. \A k \in Jobs : k = request.job /\ request.op = "rebase" /\ Recorded(k) => Recorded(k)'
    BY <1>1, <1>5, <2>1 DEF Recorded
  <2> QED BY <1>0, <1>1, <2>2, StillSeen
<1>7. ASSUME NEW k \in Jobs, Recognized(k) PROVE Recognized(k)'
  <2>1. k \in Nat /\ j \in Nat
    BY <1>1
  <2>2. Undecided(k)' => Undecided(k)
    BY <1>1, <1>2, <2>1 DEF Undecided
  <2> QED BY <1>1, <1>2, <1>3, <1>7, <2>2 DEF Recognized, ComesUpon, OccurrenceKey, HasRun
<1>8. ASSUME NEW k \in Jobs PROVE Recorded(k)' \/ Recognized(k)'
  <2>1. CASE dispatched'[k] = dispatched[k]
    BY <1>1, <1>7, <2>1 DEF Recorded, CadenceInv, DispatchIsKnown
  <2>2. CASE k = j /\ ~loose
    <3>1. j \in Jobs \ touched /\ jobState[j].last = jobState[j].completed
      BY <1>1, <2>2 DEF Unreconciled, SchedulerInv, HandIsFree
    <3>2. /\ defined[j] = tick.defs[j]
          /\ tick.defs[j] = NoJob \/ tick.defs[j].kind = "once" \/ HasRun(jobState[j])
          /\ OccurrenceKey(j, tick.defs[j], jobState[j]) = id
      BY <1>1, <3>1 DEF SchedulerInv, UntouchedStay, UsesDefs
    <3>3. ComesUpon(j, defined[j], jobState[j], DOMAIN delivery')
      BY <1>3, <3>1, <3>2 DEF ComesUpon
    <3>4. j \in Nat
      BY <1>1
    <3>5. ~(j > j)
      BY <3>4
    <3> QED BY <1>1, <1>2, <2>2, <3>3, <3>5 DEF Recognized, Undecided
  <2> QED BY <1>5, <2>1, <2>2
<1>9. InTime'
  BY <1>2 DEF InTime
<1> QED BY <1>6, <1>8, <1>9 DEF CadenceInv, DispatchIsKnown

\* Whose decision is behind, of that job nothing is to be decided.
LEMMA OnwardDecided ==
  ASSUME Base, tick.pc \in {"decide", "record", "remove"}, tick' = Onward("decide"), NEW k \in Jobs,
         k = tick.j \/ ~Undecided(k)
  PROVE  ~Undecided(k)'
<1>1. k \in Nat /\ tick.j \in Nat /\ tick \in TickSet
  BY BaseFacts, SchedulerConstants
<1>2. \/ tick'.pc = "decide" /\ tick'.j = tick.j + 1
      \/ tick'.pc = "idle"
  BY <1>1, OnwardIs DEF NoTick
<1>3. tick'.pc = "decide" /\ k >= tick'.j => k > tick.j /\ k >= tick.j /\ k # tick.j
  BY <1>1, <1>2
<1> QED BY <1>2, <1>3 DEF Undecided

LEMMA RecordKeepsCadence ==
  ASSUME Base, CadenceInv, RecordPending PROVE CadenceInv'
<1> DEFINE j == tick.j
<1>1. /\ tick.pc = "record" /\ tick \in TickSet /\ j \in Jobs /\ Jobs \subseteq Nat
      /\ UNCHANGED <<defined, delivery, request, touched>>
      /\ tick' = Onward("decide") \/ tick' = [tick EXCEPT !.pc = "remove"]
  BY BaseFacts, SchedulerConstants DEF RecordPending
<1>2. PICK new \in StateSet :
        /\ jobState' = [jobState EXCEPT ![j] = new]
        /\ new.queued = delivery[tick.id].created /\ new.fired = jobState[j].fired
  BY RecordWrites
<1>3. PICK at \in Nat : /\ dispatched' = [dispatched EXCEPT ![j] = at]
                        /\ (at = delivery[tick.id].created \/ at = jobState[j].fired)
  BY RecordDispatch
<1>4. \A k \in Jobs : k = j => Recorded(k)'
  <2>1. dispatched'[j] = at /\ jobState'[j] = new
    BY <1>1, <1>2, <1>3, BaseFacts
  <2>2. at =< new.queued \/ at =< new.fired
    BY <1>2, <1>3
  <2> QED BY <2>1, <2>2 DEF Recorded
<1>5. \A k \in Jobs : k # j => jobState'[k] = jobState[k] /\ dispatched'[k] = dispatched[k]
  BY <1>1, <1>2, <1>3, BaseFacts
<1>6. \A k \in Jobs : Recorded(k) => Recorded(k)'
  BY <1>4, <1>5 DEF Recorded
<1>7. RequestIsSeen'
  BY <1>1, <1>6, StillSeen
<1>8. tick'.pc \in {"decide", "idle", "remove"} /\ (tick'.pc # "idle" => tick'.defs = tick.defs)
  BY <1>1, OnwardIs DEF NoTick, TickSet
<1>9. \A k \in Jobs : Undecided(k)' => Undecided(k)
  <2>1. CASE tick' = Onward("decide")
    BY <1>1, <2>1, OnwardDecided
  <2>2. CASE tick' = [tick EXCEPT !.pc = "remove"]
    BY <1>1, <2>2 DEF Undecided, TickSet
  <2> QED BY <1>1, <2>1, <2>2
<1>10. ASSUME NEW k \in Jobs, k # j, Recognized(k) PROVE Recognized(k)'
  <2>1. jobState'[k] = jobState[k]
    BY <1>5, <1>10
  <2>2. Undecided(k)' => Undecided(k) /\ tick'.defs = tick.defs
    BY <1>8, <1>9 DEF Undecided
  <2> QED BY <1>1, <1>8, <1>10, <2>1, <2>2 DEF Recognized, ComesUpon, OccurrenceKey
<1>11. InTime'
  BY <1>8 DEF InTime
<1> QED BY <1>4, <1>6, <1>7, <1>10, <1>11 DEF CadenceInv, DispatchIsKnown

LEMMA RemoveKeepsCadence ==
  ASSUME Base, CadenceInv, RemoveOnce PROVE CadenceInv'
<1> DEFINE j == tick.j
<1>1. /\ tick.pc = "remove" /\ tick \in TickSet /\ j \in Jobs /\ tick' = Onward("decide")
      /\ UNCHANGED <<jobState, delivery, request, touched, dispatched>>
      /\ defined' = [defined EXCEPT ![j] = NoJob]
  BY BaseFacts DEF RemoveOnce, historyVars
<1>2. /\ defined'[j] = NoJob
      /\ \A k \in Jobs : k # j => defined'[k] = defined[k]
  BY <1>1, BaseFacts
<1>3. RequestIsSeen' /\ \A k \in Jobs : Recorded(k) => Recorded(k)'
  BY <1>1, TickSeesRequest
<1>4. tick'.pc \in {"decide", "idle"} /\ (tick'.pc # "idle" => tick'.defs = tick.defs)
  BY <1>1, OnwardIs DEF NoTick
<1>5. ASSUME NEW k \in Jobs, Recognized(k) PROVE Recognized(k)'
  <2>1. Undecided(k)' => Undecided(k) /\ tick'.defs = tick.defs
    BY <1>1, <1>4, OnwardDecided DEF Undecided
  <2>2. CASE k = j
    <3>1. ~Undecided(k)'
      BY <1>1, <2>2, OnwardDecided
    <3> QED BY <1>2, <1>4, <2>2, <3>1 DEF Recognized, ComesUpon
  <2>3. CASE k # j
    BY <1>1, <1>2, <1>4, <1>5, <2>1, <2>3 DEF Recognized, ComesUpon, OccurrenceKey, HasRun
  <2> QED BY <2>2, <2>3
<1>6. InTime'
  BY <1>4 DEF InTime
<1> QED BY <1>3, <1>5, <1>6 DEF CadenceInv, DispatchIsKnown

LEMMA DiesKeepsCadence ==
  ASSUME Base, CadenceInv, SchedulerDies PROVE CadenceInv'
<1>1. tick'.pc = "idle" /\ UNCHANGED <<defined, jobState, delivery, request, touched, dispatched>>
  BY DEF SchedulerDies, historyVars, NoTick
<1>2. RequestIsSeen' /\ \A k \in Jobs : Recorded(k) => Recorded(k)'
  BY <1>1, TickSeesRequest
<1>3. \A k \in Jobs : Recognized(k) => Recognized(k)'
  BY <1>1 DEF Recognized, Undecided, ComesUpon, OccurrenceKey, HasRun
<1>4. InTime'
  BY <1>1 DEF InTime
<1> QED BY <1>2, <1>3, <1>4 DEF CadenceInv, DispatchIsKnown

LEMMA CadenceStarts == SchedulerInit => SchedulerInv /\ CadenceInv
<1> SUFFICES ASSUME SchedulerInit PROVE CadenceInv
  BY SchedulerStarts
<1>1. tick.pc = "idle" /\ request = NoRequest /\ NoRequest.op = "none"
  BY DEF SchedulerInit, NoTick, NoRequest, RequestFor
<1>2. \A j \in Jobs : dispatched[j] = 0 /\ jobState[j].queued = 0
  BY DEF SchedulerInit, Clear
<1>3. DispatchIsKnown
  BY <1>2 DEF DispatchIsKnown, Recorded
<1>4. RequestIsSeen /\ InTime
  BY <1>1 DEF RequestIsSeen, InTime
<1> QED BY <1>3, <1>4 DEF CadenceInv

LEMMA CadenceSteps ==
  SchedulerInv /\ CadenceInv /\ [SchedulerNext]_scheduleVars => CadenceInv'
<1> SUFFICES ASSUME SchedulerInv, CadenceInv, [SchedulerNext]_scheduleVars PROVE CadenceInv'
  OBVIOUS
<1>0. Base
  BY DEF SchedulerInv, Base
<1>1. ASSUME NEW jitter \in Jitter, ReconcileJob(jitter) \/ EnsureInitial(jitter) PROVE CadenceInv'
  BY <1>0, <1>1, ReconcileKeepsCadence, EnsureKeepsCadence
<1>2. CASE BeginTick \/ ReadJobs \/ Decide \/ Enqueue \/ RecordPending \/ RemoveOnce \/ SchedulerDies
  BY <1>0, <1>2, BeginKeepsCadence, ReadKeepsCadence, DecideKeepsCadence, EnqueueKeepsCadence,
     RecordKeepsCadence, RemoveKeepsCadence, DiesKeepsCadence
<1>3. CASE FireCancels \/ FireWrites \/ RemoveCancels \/ ClearState \/ Rebase \/ StopCancels
  BY <1>0, <1>3, RequestKeepsCadence
<1>4. ASSUME NEW j \in Jobs,
             \/ FireNow(j) \/ RemoveJob(j) \/ Pause(j) \/ StopPauses(j)
             \/ \E d \in Definition(j, 1) : AddJob(j, d)
             \/ \E d \in Definition(j, 1) \cup Definition(j, 2) : EditJob(j, d)
      PROVE  CadenceInv'
  BY <1>0, <1>4, CommandsKeepCadence
<1>5. CASE \E id \in DOMAIN delivery :
             Claim(id) \/ Retry(id) \/ DeliveryEnds(id, "succeeded") \/ DeliveryEnds(id, "failed")
  BY <1>0, <1>5, WorldKeepsCadence DEF WorkerStep
<1>6. CASE Advance \/ RequestDies
  BY <1>0, <1>6, WorldKeepsCadence
<1>7. CASE UNCHANGED scheduleVars
  <2>1. UNCHANGED <<wall, tick, defined, jobState, delivery, dispatched, touched, excused, request>>
    BY <1>7 DEF scheduleVars, historyVars
  <2>2. RequestIsSeen'
    BY <2>1 DEF CadenceInv, RequestIsSeen, Recorded
  <2> QED BY <1>0, <2>1, <2>2, NothingDispatched DEF SameRun
<1> QED BY <1>1, <1>2, <1>3, <1>4, <1>5, <1>6, <1>7 DEF SchedulerNext

\* The last dispatch of a job never escapes the decision on the next one, whoever dies
\* between the queue and the state (scheduler_service.py:186) and whatever the commands
\* write beside the tick: it is in the state, or the decision comes upon its delivery.
THEOREM CadenceInvariant == SchedulerSpec => []CadenceInv
<1>1. SchedulerInit => SchedulerInv /\ CadenceInv
  BY CadenceStarts
<1>2. SchedulerInv /\ CadenceInv /\ [SchedulerNext]_scheduleVars => (SchedulerInv /\ CadenceInv)'
  BY SchedulerSteps, CadenceSteps
<1> QED BY <1>1, <1>2, PTL DEF SchedulerSpec

\* An interval is never started anew within its length of the last dispatch that its
\* record knows (scheduler_policy.py:103).
THEOREM CadenceIsKept == SchedulerSpec => KeepsCadence
<1>1. CadenceInv =>
        \A j \in Jobs :
          Enqueue /\ tick.j = j /\ tick.id \notin DOMAIN delivery
          /\ tick.defs[j].kind = "interval" /\ tick.since > 0
            => tick.at >= tick.since + tick.defs[j].every
  BY DEF CadenceInv, InTime, Enqueue
<1>2. CadenceInv /\ [SchedulerNext]_scheduleVars =>
        [\A j \in Jobs :
          Enqueue /\ tick.j = j /\ tick.id \notin DOMAIN delivery
          /\ tick.defs[j].kind = "interval" /\ tick.since > 0
            => tick.at >= tick.since + tick.defs[j].every]_scheduleVars
  BY <1>1
<1> QED BY <1>2, CadenceInvariant, PTL DEF SchedulerSpec, KeepsCadence
=============================================================================
