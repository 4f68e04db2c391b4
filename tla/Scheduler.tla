------------------------------ MODULE Scheduler ------------------------------
(***************************************************************************)
(* The scheduler (scheduler_service.py, scheduler_policy.py): each tick    *)
(* reconciles finished deliveries, plans new jobs and queues what is due.  *)
(*                                                                         *)
(* Definitions and job_state are in one database and deliveries in         *)
(* another; nothing spans a tick, so that the user's commands (web_jobs.py,*)
(* core.py, manual_fire.py) fall between any two of its transactions, and  *)
(* either process may die there.  What makes a second attempt harmless is  *)
(* the identity of a delivery, which is computed from the schedule.        *)
(*                                                                         *)
(* One status stands for every end but success (the scheduler reads no     *)
(* more), one for queued, retrying and rate_limited.  The reads of one     *)
(* decision are one step; a manual delivery itself is not followed, nor    *)
(* are priorities.  Clearing all jobs is removing each.                    *)
(***************************************************************************)
EXTENDS Naturals, FiniteSets, FiniteSetsExt

CONSTANTS
  LastJob,      \* jobs are 1..LastJob, in the order of their names
  MutexGroup,   \* the jobs that share a mutex group
  Schedule,     \* what each job may be defined as: [kind, every, run]
  Day,          \* a daily job runs at the multiples of this
  Jitter,       \* what is added to intervals
  MaxWall, MaxRequests, MaxDeaths   \* bounds: time, commands, crashes

ASSUME SchedulerAssumption ==
  /\ LastJob \in Nat \ {0} /\ MutexGroup \subseteq 1..LastJob
  /\ Day \in Nat \ {0} /\ Jitter \subseteq Nat
  /\ {MaxWall, MaxRequests, MaxDeaths} \subseteq Nat
  /\ \A j \in 1..LastJob :
       Schedule[j] \subseteq [kind : {"interval", "daily", "once"}, every : Nat, run : Nat]

Jobs == 1..LastJob

VARIABLES
  wall,        \* time.time(), from 1: 0 is the missing marker
  defined,     \* scheduled_jobs: the definition of each job
  jobState,    \* scheduler_state of each job
  delivery,    \* job_deliveries of scheduled jobs, by send_id
  tick,        \* where the scheduler is
  request,     \* the command under way
  requests, deaths,
  dispatched,  \* history: the last dispatch of each job, 0 when the job was made anew
  touched,     \* history: the jobs a command was about since the tick began
  excused      \* history: deliveries that a command cut off from their job

historyVars == <<dispatched, excused, touched>>
scheduleVars ==
  <<wall, defined, jobState, delivery, tick, request, requests, deaths, historyVars>>

NoJob     == [kind |-> "none", every |-> 0, run |-> 0, prompt |-> 0]
NoId      == [job |-> 0, prompt |-> 0, marker |-> 0]
Clear     == [initial |-> 0, next |-> 0, sent |-> 0, queued |-> 0, fired |-> 0,
              last |-> NoId, completed |-> NoId, plan |-> NoJob, paused |-> FALSE]
NoTick    == [pc |-> "idle", j |-> 1, at |-> 0, seen |-> [j \in Jobs |-> Clear],
              defs |-> [j \in Jobs |-> NoJob], id |-> NoId, since |-> 0]

RequestFor(op, j) == [op |-> op, job |-> j, every |-> 0, at |-> 0, gone |-> NoId]
NoRequest == RequestFor("none", 0)

Definition(j, prompt) ==
  {[kind |-> s.kind, every |-> s.every, run |-> s.run, prompt |-> prompt] : s \in Schedule[j]}

Pending  == {"queued", "running"}
Status(id) == IF id \in DOMAIN delivery THEN delivery[id].status ELSE "none"

SchedulerInit ==
  /\ wall = 1
  /\ defined \in [Jobs -> {NoJob} \cup UNION {Definition(j, 1) : j \in Jobs}]
  /\ \A j \in Jobs : defined[j] \in {NoJob} \cup Definition(j, 1)
  /\ jobState = [j \in Jobs |-> Clear]
  /\ delivery = [id \in {} |-> NoJob]
  /\ tick = NoTick /\ request = NoRequest
  /\ requests \in 0..MaxRequests /\ deaths = 0
  /\ dispatched = [j \in Jobs |-> 0] /\ touched = {} /\ excused = {}

---------------------------------------------------------------------------
(* The policy.                                                             *)

\* _next_daily_epoch
NextDaily(t, includeNow) ==
  Min({n \in {Day * k : k \in 1..(t + 1)} : n > t \/ (includeNow /\ n = t)})

\* next_due_at: the next run of a plan after an instant.
NextDueAt(plan, t, jitter) ==
  CASE plan.kind = "once"  -> 0
    [] plan.kind = "daily" -> NextDaily(t, FALSE)
    [] OTHER               -> t + plan.every + jitter

\* interval_floor: an interval after the last dispatch.
Floor(d, s) ==
  LET latest == Max({s.sent, s.queued, s.fired})
  IN  IF d.kind = "interval" /\ latest > 0 THEN latest + d.every ELSE 0

\* due_in <= 0
IsDue(d, s, t) ==
  CASE d.kind = "once" -> s.sent = 0 /\ t >= (IF s.initial > 0 THEN s.initial ELSE d.run)
    [] d.kind # "once" /\ s.next > 0 -> t >= Max({s.next, Floor(d, s)})
    [] d.kind = "daily" /\ s.next = 0 /\ s.sent > 0 -> t >= NextDaily(s.sent, FALSE)
    [] OTHER -> t >= Floor(d, s) /\ (s.sent = 0 => t >= s.initial)

\* mutant: an occurrence is told apart by the time of its decision
OccurrenceKey_ByClock(j, d, s) == [job |-> j, prompt |-> d.prompt, marker |-> wall]

\* occurrence_key: the same while the schedule has not moved.
OccurrenceKey(j, d, s) ==
  [job |-> j, prompt |-> d.prompt,
   marker |-> IF d.kind = "once" THEN d.run
              ELSE IF s.next > 0 THEN s.next
              ELSE IF s.initial > 0 THEN s.initial ELSE s.sent]

\* terminal_reconciliation_updates, merged into what is stored by now
\* (update_job_state): decided on the state s that was read at the start.
Reconciled(now, s, row, jitter) ==
  LET due == NextDueAt(s.plan, row.finished, jitter)
  IN  [now EXCEPT !.initial = 0,
                  !.next = IF s.plan.kind = "interval" /\ s.fired > 0
                           THEN Max({due, s.fired + s.plan.every}) ELSE due,
                  !.sent = IF row.status = "succeeded" THEN row.finished ELSE @,
                  !.completed = s.last]

---------------------------------------------------------------------------
(* A tick.                                                                 *)

\* On to the next job, or to the next stage.
Onward(stage) ==
  IF tick.j < LastJob THEN [tick EXCEPT !.pc = stage, !.j = @ + 1, !.id = NoId, !.since = 0]
  ELSE CASE stage = "reconcile" -> [NoTick EXCEPT !.pc = "plan", !.at = tick.at]
         [] stage = "ensure"    -> [tick EXCEPT !.pc = "decide", !.j = 1]
         [] stage = "decide"    -> NoTick

\* tick, reconcile_terminal_receipts: the states are read once.
BeginTick ==
  /\ tick = NoTick
  /\ tick' = [NoTick EXCEPT !.pc = "reconcile", !.at = wall, !.seen = jobState]
  /\ touched' = IF request = NoRequest THEN {} ELSE {request.job}
  /\ UNCHANGED <<wall, defined, jobState, delivery, request, requests, deaths, dispatched, excused>>

\* _advance_after_terminal, on the state that was read.
ReconcileJob(jitter) ==
  /\ tick.pc = "reconcile"
  /\ LET s == tick.seen[tick.j]
     IN  IF Status(s.last) \in {"succeeded", "failed"} /\ s.completed # s.last
         THEN jobState' = [jobState EXCEPT ![tick.j] =
                             Reconciled(@, s, delivery[s.last], jitter)]
         ELSE UNCHANGED jobState
  /\ tick' = Onward("reconcile")
  /\ UNCHANGED <<wall, defined, delivery, request, requests, deaths, historyVars>>

\* read_jobs
ReadJobs ==
  /\ tick.pc = "plan"
  /\ tick' = [tick EXCEPT !.pc = "ensure", !.defs = defined]
  /\ UNCHANGED <<wall, defined, jobState, delivery, request, requests, deaths, historyVars>>

\* ensure_initial_schedules
EnsureInitial(jitter) ==
  /\ tick.pc = "ensure"
  /\ LET d == tick.defs[tick.j]
         s == jobState[tick.j]
         due == CASE d.kind = "once"  -> d.run
                  [] d.kind = "daily" -> NextDaily(tick.at, TRUE)
                  [] OTHER            -> tick.at + jitter
     IN  IF d # NoJob /\ {s.sent, s.queued, s.initial, s.next} = {0}
         THEN jobState' = [jobState EXCEPT ![tick.j].initial = due] ELSE UNCHANGED jobState
  /\ tick' = Onward("ensure")
  /\ UNCHANGED <<wall, defined, delivery, request, requests, deaths, historyVars>>

HasPending(j)   == Status(jobState[j].last) \in Pending
Unreconciled(j) == ~HasPending(j) /\ jobState[j].last # jobState[j].completed

\* mutant: only running deliveries make a group busy
GroupBusy_Running(j) ==
  j \in MutexGroup /\ \E k \in MutexGroup \ {j} :
    tick.defs[k] # NoJob /\ Status(jobState[k].last) = "running"

\* _mutex_group_busy
GroupBusy(j) ==
  j \in MutexGroup /\ \E k \in MutexGroup \ {j} : tick.defs[k] # NoJob /\ HasPending(k)

\* enqueue_if_due up to the identity of the occurrence; another process may
\* hold the lock file of a group.
Decide ==
  /\ tick.pc = "decide"
  /\ \E locked \in {FALSE, tick.j \in MutexGroup} :
     LET j == tick.j
         d == tick.defs[j]
         s == jobState[j]
     IN  tick' = IF d # NoJob /\ ~GroupBusy(j) /\ ~locked /\ ~s.paused /\ ~HasPending(j)
                    /\ IsDue(d, s, tick.at)
                 THEN [tick EXCEPT !.pc = "enqueue", !.id = OccurrenceKey(j, d, s),
                                   !.since = dispatched[j]]
                 ELSE Onward("decide")
  /\ UNCHANGED <<wall, defined, jobState, delivery, request, requests, deaths, historyVars>>

\* enqueue_idempotent: a row with this send_id is kept as it is.
Enqueue ==
  /\ tick.pc = "enqueue"
  /\ LET j == tick.j
         new == tick.id \notin DOMAIN delivery
         loose == j \in touched \/ Unreconciled(j)
     IN  /\ delivery' = [id \in DOMAIN delivery \cup {tick.id} |->
              IF id \in DOMAIN delivery THEN delivery[id]
              ELSE [status |-> "queued", created |-> tick.at, finished |-> 0]]
         /\ dispatched' = IF new /\ ~loose
                          THEN [dispatched EXCEPT ![j] = tick.at] ELSE dispatched
         /\ excused' = IF new /\ loose THEN excused \cup {tick.id} ELSE excused
  /\ tick' = [tick EXCEPT !.pc = "record"]
  /\ UNCHANGED <<wall, defined, jobState, request, requests, deaths, touched>>

\* _record_pending_metadata: last_enqueued_at is when the delivery was created, be it an
\* old one (OccurrenceIsOpen). History: the last dispatch is what the state knows by then.
RecordPending ==
  /\ tick.pc = "record"
  /\ LET d == tick.defs[tick.j]
         at == delivery[tick.id].created
     IN  /\ jobState' = [jobState EXCEPT ![tick.j] =
                           [@ EXCEPT !.queued = at, !.last = tick.id, !.plan = d]]
         /\ dispatched' = [dispatched EXCEPT ![tick.j] = Max({jobState[tick.j].fired, at})]
         /\ tick' = IF d.kind = "once" THEN [tick EXCEPT !.pc = "remove"]
                    ELSE Onward("decide")
  /\ UNCHANGED <<wall, defined, delivery, request, requests, deaths, touched, excused>>

\* remove_job: what is defined under the name by now.
RemoveOnce ==
  /\ tick.pc = "remove"
  /\ defined' = [defined EXCEPT ![tick.j] = NoJob]
  /\ tick' = Onward("decide")
  /\ UNCHANGED <<wall, jobState, delivery, request, requests, deaths, historyVars>>

---------------------------------------------------------------------------
(* Commands of the web server and the CLI, one at a time.                  *)

\* History: what of a job is not in its state is cut off.
CutOff(j, kept) ==
  /\ excused' = excused \cup {id \in DOMAIN delivery : id.job = j /\ id # kept}
  /\ touched' = touched \cup {j}

\* History: a dispatch the state does not know does not bind what is decided next.
Forgiven(j) == dispatched[j] \notin {jobState[j].queued, jobState[j].fired}

Ask(command) ==
  /\ request = NoRequest /\ requests < MaxRequests
  /\ requests' = requests + 1
  /\ request' = command

\* cancel_pending: not what a worker has claimed.
CancelLast(j) ==
  LET id == jobState[j].last
  IN  delivery' = IF Status(id) = "queued"
                  THEN [delivery EXCEPT ![id].status = "failed", ![id].finished = wall]
                  ELSE delivery

\* fire_job_now: a manual delivery was queued, an interval starts anew.
FireNow(j) ==
  /\ defined[j].kind = "interval"
  /\ Ask([RequestFor("fire", j) EXCEPT !.every = defined[j].every, !.at = wall])
  /\ touched' = touched \cup {j}
  /\ UNCHANGED <<wall, defined, jobState, delivery, tick, deaths, dispatched, excused>>

FireCancels ==
  /\ request.op = "fire"
  /\ LET j == request.job
     IN  /\ CancelLast(j)
         /\ request' = [request EXCEPT !.op = "fired", !.gone =
                           IF Status(jobState[j].last) = "queued" THEN jobState[j].last ELSE @]
  /\ UNCHANGED <<wall, defined, jobState, tick, requests, deaths, historyVars>>

\* mutant: the countdown starts anew only if a delivery was cancelled
FireWrites_IfCancelled ==
  /\ request.op = "fired"
  /\ LET j == request.job
     IN  /\ IF request.gone = NoId THEN UNCHANGED jobState
            ELSE jobState' = [jobState EXCEPT ![j] =
                   [@ EXCEPT !.initial = 0, !.next = request.at + request.every,
                             !.fired = request.at, !.completed = request.gone]]
         /\ dispatched' = [dispatched EXCEPT ![j] = request.at]
         /\ CutOff(j, jobState[j].last)
  /\ request' = NoRequest
  /\ UNCHANGED <<wall, defined, delivery, tick, requests, deaths>>

FireWrites ==
  /\ request.op = "fired"
  /\ LET j == request.job
         s == jobState[j]
     IN  /\ jobState' = [jobState EXCEPT ![j] =
              [s EXCEPT !.initial = 0, !.next = request.at + request.every,
                        !.fired = request.at,
                        !.completed = IF request.gone = NoId THEN s.completed ELSE request.gone]]
         /\ dispatched' = [dispatched EXCEPT ![j] = request.at]
         /\ CutOff(j, s.last)
  /\ request' = NoRequest
  /\ UNCHANGED <<wall, defined, delivery, tick, requests, deaths>>

\* A new job, or (CLI) one that is defined again: its state is cleared after.
AddJob(j, d) ==
  /\ Ask(RequestFor("clear", j))
  /\ defined' = [defined EXCEPT ![j] = d]
  /\ dispatched' = [dispatched EXCEPT ![j] = 0]
  /\ CutOff(j, NoId)
  /\ UNCHANGED <<wall, jobState, delivery, tick, deaths>>

RemoveJob(j) ==
  /\ defined[j] # NoJob
  /\ Ask(RequestFor("cancel", j))
  /\ defined' = [defined EXCEPT ![j] = NoJob]
  /\ CutOff(j, NoId)
  /\ UNCHANGED <<wall, jobState, delivery, tick, deaths, dispatched>>

RemoveCancels ==
  /\ request.op = "cancel"
  /\ CancelLast(request.job)
  /\ request' = [request EXCEPT !.op = "clear"]
  /\ UNCHANGED <<wall, defined, jobState, tick, requests, deaths, historyVars>>

\* clear_job_state
ClearState ==
  /\ request.op = "clear"
  /\ jobState' = [jobState EXCEPT ![request.job] = Clear]
  /\ dispatched' = [dispatched EXCEPT ![request.job] = 0]
  /\ CutOff(request.job, NoId)
  /\ request' = NoRequest
  /\ UNCHANGED <<wall, defined, delivery, tick, requests, deaths>>

SameCadence(d, e) == [d EXCEPT !.prompt = 1] = [e EXCEPT !.prompt = 1]

\* The editor and `prompta edit`: another cadence rebases from the last send.
EditJob(j, d) ==
  /\ NoJob \notin {defined[j], d} /\ d # defined[j]
  /\ Ask(IF SameCadence(d, defined[j]) THEN NoRequest ELSE RequestFor("rebase", j))
  /\ defined' = [defined EXCEPT ![j] = d]
  /\ dispatched' = [dispatched EXCEPT ![j] =
                      IF d.kind # "interval" \/ Forgiven(j) THEN 0 ELSE @]
  /\ CutOff(j, jobState[j].last)
  /\ UNCHANGED <<wall, jobState, delivery, tick, deaths>>

Rebase ==
  /\ request.op = "rebase"
  /\ jobState' = [jobState EXCEPT ![request.job] = [@ EXCEPT !.next = 0, !.initial = 0]]
  /\ CutOff(request.job, jobState[request.job].last)
  /\ request' = NoRequest
  /\ UNCHANGED <<wall, defined, delivery, tick, requests, deaths, dispatched>>

\* set_job_paused
Pause(j) ==
  /\ defined[j] # NoJob
  /\ Ask(NoRequest)
  /\ jobState' = [jobState EXCEPT ![j].paused = ~@]
  /\ UNCHANGED <<wall, defined, delivery, tick, deaths, historyVars>>

\* "stop": paused, then its delivery is stopped; a claimed one is sent all the same.
StopPauses(j) ==
  /\ defined[j] # NoJob
  /\ Ask(RequestFor("stop", j))
  /\ jobState' = [jobState EXCEPT ![j].paused = TRUE]
  /\ UNCHANGED <<wall, defined, delivery, tick, deaths, historyVars>>

StopCancels ==
  /\ request.op = "stop"
  /\ CancelLast(request.job)
  /\ request' = NoRequest
  /\ UNCHANGED <<wall, defined, jobState, tick, requests, deaths, historyVars>>

---------------------------------------------------------------------------
(* The workers and the clock; each process may die between transactions.   *)

Claim(id) ==
  /\ Status(id) = "queued"
  /\ delivery' = [delivery EXCEPT ![id].status = "running"]
  /\ UNCHANGED <<wall, defined, jobState, tick, request, requests, deaths, historyVars>>

Retry(id) ==
  /\ Status(id) = "running"
  /\ delivery' = [delivery EXCEPT ![id].status = "queued"]
  /\ UNCHANGED <<wall, defined, jobState, tick, request, requests, deaths, historyVars>>

\* It takes time, so that no end falls on the instant of its occurrence.
DeliveryEnds(id, outcome) ==
  /\ Status(id) = "running" /\ wall > delivery[id].created
  /\ delivery' = [delivery EXCEPT ![id].status = outcome, ![id].finished = wall]
  /\ UNCHANGED <<wall, defined, jobState, tick, request, requests, deaths, historyVars>>

Advance ==
  /\ wall < MaxWall
  /\ wall' = wall + 1
  /\ UNCHANGED <<defined, jobState, delivery, tick, request, requests, deaths, historyVars>>

SchedulerDies ==
  /\ tick # NoTick /\ deaths < MaxDeaths
  /\ tick' = NoTick
  /\ deaths' = deaths + 1
  /\ UNCHANGED <<wall, defined, jobState, delivery, request, requests, historyVars>>

RequestDies ==
  /\ request # NoRequest /\ deaths < MaxDeaths
  /\ request' = NoRequest
  /\ deaths' = deaths + 1
  /\ UNCHANGED <<wall, defined, jobState, delivery, tick, requests, historyVars>>

SchedulerNext ==
  \/ BeginTick \/ ReadJobs \/ Decide \/ Enqueue \/ RecordPending \/ RemoveOnce
  \/ \E jitter \in Jitter : ReconcileJob(jitter) \/ EnsureInitial(jitter)
  \/ FireCancels \/ FireWrites \/ RemoveCancels \/ ClearState \/ Rebase \/ StopCancels
  \/ \E j \in Jobs : FireNow(j) \/ RemoveJob(j) \/ Pause(j) \/ StopPauses(j)
  \/ \E j \in Jobs : \/ \E d \in Definition(j, 1) : AddJob(j, d)
                     \/ \E d \in Definition(j, 1) \cup Definition(j, 2) : EditJob(j, d)
  \/ \E id \in DOMAIN delivery :
       Claim(id) \/ Retry(id) \/ DeliveryEnds(id, "succeeded") \/ DeliveryEnds(id, "failed")
  \/ Advance \/ SchedulerDies \/ RequestDies

SchedulerSpec == SchedulerInit /\ [][SchedulerNext]_scheduleVars

---------------------------------------------------------------------------
(* Properties.                                                             *)

\* An interval is never started anew within its length of the last dispatch
\* (scheduler_policy.py:103), whatever marker is stale, whoever died between
\* the queue and the state and however the cadence was edited. The last dispatch is
\* the last one that no record of an older delivery (OccurrenceIsOpen) has replaced.
KeepsCadence ==
  [][\A j \in Jobs :
       Enqueue /\ tick.j = j /\ tick.id \notin DOMAIN delivery
       /\ tick.defs[j].kind = "interval" /\ tick.since > 0
         => tick.at >= tick.since + tick.defs[j].every]_scheduleVars

\* A crash between the queue and the state strands nothing: what is pending is
\* in the state of its job or what the next decision comes upon, which recognizes
\* it (scheduler_service.py:196), unless a command cut it off.
PendingIsKnown ==
  \A id \in DOMAIN delivery :
    delivery[id].status \in Pending /\ id \notin excused =>
      \/ jobState[id.job].last = id
      \/ defined[id.job] # NoJob /\ OccurrenceKey(id.job, defined[id.job], jobState[id.job]) = id

\* Jobs that share a mutex group are serialized (core.py:169) while both are
\* defined: their recorded deliveries are never pending at once.
GroupExcludes ==
  \A j, k \in MutexGroup :
    j # k /\ NoJob \notin {defined[j], defined[k]} /\ HasPending(j) /\ HasPending(k)
      => {jobState[j].last, jobState[k].last} \cap excused # {}

\* A cadence edit rebases from the last send (web_jobs.py:186), so that a job
\* that is only ever edited goes on: what a tick in which nobody meddled hands to
\* the queue is not an occurrence that the scheduler has already done with.
OccurrenceIsOpen ==
  [][Enqueue /\ tick.defs[tick.j].kind # "once" /\ tick.j \notin touched
     /\ jobState[tick.j].fired = 0
       => tick.id # jobState[tick.j].completed]_scheduleVars
=============================================================================
