-------------------------- MODULE OperationsProofs --------------------------
(****************************************************************************)
(* What keeps the system running: the watchdog closes no tab in use and     *)
(* forgets none that is open, and work is admitted only to what serves, for *)
(* any tabs, ages, deployments, recoveries, failures, deaths and boots.     *)
(****************************************************************************)
EXTENDS TabOwnership, Deployment, TLAPS

(****************************************************************************)
(* Tabs.                                                                    *)
(****************************************************************************)

TabTypeOK ==
  /\ time \in Nat /\ MaxAge <= time
  /\ target \in [Tab -> {"none", "open", "closed"}]
  /\ active \in [Tab -> Nat]
  /\ DOMAIN leases \subseteq Tab
  /\ DOMAIN asking \subseteq Tab /\ \A t \in DOMAIN asking : asking[t] \in Nat

\* A row says when its tab was last active, and tabs are active once opened.
RowIsTrue(t) ==
  /\ t \in DOMAIN leases => leases[t] = active[t] /\ target[t] # "none"
  /\ target[t] = "none" => active[t] = 0

\* What the watchdog calls expired is, and remains so while it holds the ledger.
ClaimIsDue ==
  /\ reaper.pc # "idle" => reaper.cutoff \in Nat /\ reaper.cutoff + MaxAge <= time
  /\ reaper.pc = "close" => /\ reaper.tab \in DOMAIN leases
                            /\ leases[reaper.tab] <= reaper.cutoff

\* A tab that the browser may still close after the command timed out: its row
\* cannot be renewed any more, nor does the watchdog drop it.
Doomed(t) ==
  /\ t \in DOMAIN leases /\ leases[t] + MaxAge <= time
  /\ t \in DOMAIN asking => leases[t] + MaxAge <= asking[t]
  /\ reaper.pc \in {"leases", "forget"} => t \in reaper.open

DoomedStay == \A t \in Tab : <<t, "timeout">> \in closing /\ target[t] # "closed" => Doomed(t)

TabIInv ==
  /\ TabTypeOK
  /\ \A t \in Tab : RowIsTrue(t)
  /\ OpenIsLeased
  /\ ClaimIsDue
  /\ DoomedStay

---------------------------------------------------------------------------
\* What the ledger is after a row was removed.
LEMMA RemovedRow ==
  ASSUME NEW f, NEW t
  PROVE  /\ DOMAIN Deleted(f, t) = DOMAIN f \ {t}
         /\ \A u \in DOMAIN f \ {t} : Deleted(f, t)[u] = f[u]
  BY DEF Deleted, Restrict

LEMMA TabInitial == TabInit => TabIInv
  BY TabAssumption DEF TabInit, TabIInv, TabTypeOK, RowIsTrue, OpenIsLeased, ClaimIsDue, DoomedStay, AtRest

---------------------------------------------------------------------------
(* One lemma for each action that writes the ledger or moves the watchdog. *)

LEMMA LeaseKeeps == ASSUME TabIInv, NEW t \in Tab, Lease(t) PROVE TabIInv'
<1> USE DEF TabIInv
<1>1. /\ t \notin DOMAIN leases => leases'[t] = time
      /\ DOMAIN leases' = DOMAIN leases \cup {t}
      /\ \A u \in DOMAIN leases : leases'[u] = leases[u]
  <2>1. leases' = Inserted(leases, t, time)
    BY DEF Lease
  <2> QED BY <2>1 DEF Inserted
<1>2. /\ t \notin DOMAIN leases => active' = [active EXCEPT ![t] = time]
      /\ t \in DOMAIN leases => active' = active
  BY DEF Lease, TabTypeOK
<1>3. TabTypeOK'
  BY <1>1, <1>2 DEF TabTypeOK, Lease
<1>4. \A u \in Tab : RowIsTrue(u)'
  BY <1>1, <1>2 DEF TabTypeOK, Lease, RowIsTrue
<1>5. OpenIsLeased'
  BY <1>1, <1>2 DEF TabTypeOK, Lease, OpenIsLeased
<1>6. ClaimIsDue'
  BY <1>1 DEF ClaimIsDue, Lease
<1>7. DoomedStay'
  BY <1>1 DEF DoomedStay, Doomed, Lease
<1> QED BY <1>3, <1>4, <1>5, <1>6, <1>7

LEMMA TouchKeeps == ASSUME TabIInv, NEW t \in Tab, Touch(t) PROVE TabIInv'
<1> USE DEF TabIInv
<1>1. /\ DOMAIN asking' = DOMAIN asking \ {t} /\ t \in DOMAIN asking
      /\ \A u \in DOMAIN asking' : asking'[u] = asking[u]
  BY RemovedRow DEF Touch
<1>2. DOMAIN leases' = DOMAIN leases /\ ~Locked
  BY DEF Touch
<1>3. \A u \in DOMAIN leases : u # t \/ ~Fresh(t, asking[t]) => leases'[u] = leases[u]
  BY DEF Touch
<1>4. Fresh(t, asking[t]) => /\ t \in DOMAIN leases /\ leases'[t] = asking[t]
                             /\ active' = [active EXCEPT ![t] = asking[t]]
  BY DEF Touch, Fresh
<1>5. ~Fresh(t, asking[t]) => active' = active
  BY DEF Touch
<1>6. TabTypeOK'
  BY <1>1, <1>2, <1>4, <1>5 DEF TabTypeOK, Touch
<1>7. \A u \in Tab : RowIsTrue(u)'
  BY <1>1, <1>2, <1>3, <1>4, <1>5 DEF TabTypeOK, Touch, RowIsTrue, OpenIsLeased
<1>8. OpenIsLeased'
  BY <1>1, <1>2, <1>4, <1>5 DEF TabTypeOK, Touch, OpenIsLeased
<1>9. ClaimIsDue'
  BY <1>2 DEF ClaimIsDue, Touch, Locked
<1>10. DoomedStay'
  <2> SUFFICES ASSUME NEW u \in Tab, <<u, "timeout">> \in closing, target[u] # "closed"
               PROVE  Doomed(u)'
    BY DEF DoomedStay, Touch
  <2>1. Doomed(u)
    BY DEF DoomedStay
  <2>2. u = t => ~Fresh(t, asking[t])
    BY <1>1, <2>1, TabAssumption DEF Doomed, Fresh, TabTypeOK, RowIsTrue
  <2>3. leases'[u] = leases[u]
    BY <1>3, <2>1, <2>2 DEF Doomed
  <2> QED BY <1>1, <1>2, <2>1, <2>3 DEF Doomed, Touch
<1> QED BY <1>6, <1>7, <1>8, <1>9, <1>10

LEMMA ForgetKeeps == ASSUME TabIInv, Forget PROVE TabIInv'
<1> USE DEF TabIInv
<1> DEFINE missing == DOMAIN reaper.rows \ reaper.open
<1>1. /\ DOMAIN leases' = DOMAIN leases \ missing
      /\ \A u \in DOMAIN leases' : leases'[u] = leases[u]
  BY DEF Forget, Restrict
<1>2. TabTypeOK' /\ \A u \in Tab : RowIsTrue(u)'
  BY <1>1 DEF TabTypeOK, RowIsTrue, Forget
<1>3. OpenIsLeased'
  BY <1>1 DEF OpenIsLeased, Forget
<1>4. ClaimIsDue'
  BY DEF ClaimIsDue, Forget, ClaimNext
<1>5. DoomedStay'
  BY <1>1 DEF DoomedStay, Doomed, Forget, ClaimNext
<1> QED BY <1>2, <1>3, <1>4, <1>5

LEMMA CloseTabKeeps == ASSUME TabIInv, CloseTab PROVE TabIInv'
<1> USE DEF TabIInv
<1>1. /\ DOMAIN leases' = DOMAIN leases \ {reaper.tab} /\ reaper.tab \in Tab
      /\ \A u \in DOMAIN leases' : leases'[u] = leases[u]
  <2>1. leases' = Deleted(leases, reaper.tab) /\ reaper.tab \in Tab
    BY DEF CloseTab, ClaimIsDue, TabTypeOK
  <2>2. DOMAIN leases' = DOMAIN leases \ {reaper.tab}
    BY <2>1, RemovedRow
  <2> QED BY <2>1, <2>2, RemovedRow
<1>2. /\ target'[reaper.tab] = "closed"
      /\ \A u \in Tab \ {reaper.tab} : target'[u] = target[u]
  BY <1>1 DEF CloseTab, TabTypeOK
<1>3. TabTypeOK'
  BY <1>1 DEF TabTypeOK, CloseTab
<1>4. \A u \in Tab : RowIsTrue(u)'
  BY <1>1, <1>2 DEF TabTypeOK, RowIsTrue, CloseTab
<1>5. OpenIsLeased'
  BY <1>1, <1>2 DEF OpenIsLeased, CloseTab
<1>6. ClaimIsDue'
  BY DEF ClaimIsDue, CloseTab, Unclaim, ClaimNext
<1>7. DoomedStay'
  BY <1>1, <1>2 DEF DoomedStay, Doomed, CloseTab, Unclaim, ClaimNext
<1> QED BY <1>3, <1>4, <1>5, <1>6, <1>7

LEMMA CloseFailsKeeps == ASSUME TabIInv, NEW late \in Late, CloseFails(late) PROVE TabIInv'
<1> USE DEF TabIInv
<1>1. reaper' = ClaimNext(reaper.attempts, reaper.due) /\ reaper'.pc = "claim"
  BY DEF CloseFails, Unclaim, ClaimNext
<1>2. TabTypeOK' /\ (\A u \in Tab : RowIsTrue(u)') /\ OpenIsLeased'
  BY DEF TabTypeOK, RowIsTrue, OpenIsLeased, CloseFails
<1>3. ClaimIsDue'
  BY <1>1 DEF ClaimIsDue, CloseFails, ClaimNext
<1>4. DoomedStay'
  <2> SUFFICES ASSUME NEW u \in Tab, <<u, "timeout">> \in closing', target[u] # "closed"
               PROVE  Doomed(u)'
    BY DEF DoomedStay, CloseFails
  <2>1. CASE <<u, "timeout">> \in closing
    BY <1>1, <2>1 DEF DoomedStay, Doomed, CloseFails
  <2>2. CASE <<u, "timeout">> \notin closing
    <3>1. u = reaper.tab /\ late = "timeout"
      BY <2>2 DEF CloseFails, Overdue
    <3>2. u \in DOMAIN leases /\ leases[u] + MaxAge <= time /\ u \notin DOMAIN asking
      BY <3>1, TabAssumption DEF CloseFails, Overdue, ClaimIsDue, TabTypeOK, RowIsTrue
    <3> QED BY <1>1, <3>2 DEF Doomed, CloseFails
  <2> QED BY <2>1, <2>2
<1> QED BY <1>2, <1>3, <1>4

LEMMA EndTickKeeps == ASSUME TabIInv, NEW late \in Late, EndTick(late) PROVE TabIInv'
<1> USE DEF TabIInv
<1>1. \A u \in Tab : <<u, "timeout">> \in closing' => <<u, "timeout">> \in closing
  BY DEF EndTick, Overdue, Late
<1>2. TabTypeOK' /\ (\A u \in Tab : RowIsTrue(u)') /\ OpenIsLeased'
  BY DEF TabTypeOK, RowIsTrue, OpenIsLeased, EndTick
<1>3. ClaimIsDue'
  BY DEF ClaimIsDue, EndTick, AtRest
<1>4. DoomedStay'
  BY <1>1 DEF DoomedStay, Doomed, EndTick, AtRest
<1> QED BY <1>2, <1>3, <1>4

\* The watchdog's reads and its claim write nothing else.
LEMMA ReadsKeep ==
  ASSUME TabIInv,
         \/ StartTick \/ ListTargets \/ ReadLeases
         \/ \E t \in Tab : ClaimExpired(t)
  PROVE  TabIInv'
<1> USE DEF TabIInv
<1>1. TabTypeOK' /\ (\A u \in Tab : RowIsTrue(u)') /\ OpenIsLeased'
  BY DEF TabTypeOK, RowIsTrue, OpenIsLeased, StartTick, ListTargets, ReadLeases, ClaimExpired
<1>2. CASE StartTick
  <2>1. ClaimIsDue'
    BY <1>2, TabAssumption DEF StartTick, ClaimIsDue, TabTypeOK
  <2>2. DoomedStay'
    BY <1>2 DEF StartTick, DoomedStay, Doomed
  <2> QED BY <1>1, <2>1, <2>2
<1>3. CASE ListTargets
  <2>1. ClaimIsDue'
    BY <1>3 DEF ListTargets, ClaimIsDue
  <2>2. \A t \in Tab : Doomed(t) /\ target[t] # "closed" => t \in reaper'.open
    BY <1>3 DEF ListTargets, Doomed, RowIsTrue, TabTypeOK
  <2>3. DoomedStay'
    BY <1>3, <2>2 DEF ListTargets, DoomedStay, Doomed
  <2> QED BY <1>1, <2>1, <2>3
<1>4. CASE ReadLeases
  BY <1>1, <1>4 DEF ReadLeases, ClaimIsDue, DoomedStay, Doomed
<1>5. CASE \E t \in Tab : ClaimExpired(t)
  <2> PICK t \in Tab : ClaimExpired(t)
    BY <1>5
  <2>1. CASE t \in DOMAIN leases /\ leases[t] <= reaper.cutoff
    <3>1. reaper' = Claimed(t)
      BY <2>1 DEF ClaimExpired
    <3> QED BY <1>1, <2>1, <3>1 DEF ClaimExpired, Claimed, ClaimIsDue, DoomedStay, Doomed
  <2>2. CASE ~(t \in DOMAIN leases /\ leases[t] <= reaper.cutoff)
    <3>1. reaper' = ClaimNext(reaper.attempts + 1, reaper.due \ {t})
      BY <2>2 DEF ClaimExpired
    <3> QED BY <1>1, <3>1 DEF ClaimExpired, ClaimNext, ClaimIsDue, DoomedStay, Doomed
  <2> QED BY <2>1, <2>2
<1> QED BY <1>2, <1>3, <1>4, <1>5

\* A tab that closes is no concern any more, and a new one has no row yet.
LEMMA TabsKeep ==
  ASSUME TabIInv, NEW t \in Tab,
         \/ OpenTab(t) \/ TabCloses(t)
         \/ \E late \in Late : ClosesLate(t, late)
  PROVE  TabIInv'
<1> USE DEF TabIInv
<1>1. /\ target \in [Tab -> {"none", "open", "closed"}]
      /\ \/ target' = [target EXCEPT ![t] = "open"] /\ target[t] = "none"
         \/ target' = [target EXCEPT ![t] = "closed"] /\ target[t] = "open"
  BY DEF TabTypeOK, OpenTab, TabCloses, ClosesLate
<1>2. UNCHANGED <<time, asking, leases, reaper, active, strayed>> /\ closing' \subseteq closing
  BY DEF OpenTab, TabCloses, ClosesLate
<1>3. TabTypeOK' /\ (\A u \in Tab : RowIsTrue(u)') /\ OpenIsLeased' /\ ClaimIsDue'
  BY <1>1, <1>2 DEF TabTypeOK, RowIsTrue, OpenIsLeased, ClaimIsDue
<1>4. DoomedStay'
  BY <1>1, <1>2 DEF DoomedStay, Doomed
<1> QED BY <1>3, <1>4

\* Renewals come and go, drivers come and go; none of this touches the ledger.
LEMMA DriversKeep ==
  ASSUME TabIInv, NEW t \in Tab,
         \/ LeaseFails(t) \/ AskTouch(t) \/ TouchFails(t) \/ OwnerDies(t)
         \/ FindSurviving(t) \/ RecoveryEnds(t) \/ \E closes \in BOOLEAN : Leave(t, closes)
  PROVE  TabIInv'
<1> USE DEF TabIInv
<1>1. UNCHANGED <<time, closing, leases, reaper, active, strayed>>
  BY DEF LeaseFails, AskTouch, TouchFails, OwnerDies, FindSurviving, RecoveryEnds, Leave
<1>2. \/ asking' = asking
      \/ asking' = Inserted(asking, t, time) /\ t \notin DOMAIN asking
      \/ asking' = Deleted(asking, t)
  BY DEF LeaseFails, AskTouch, TouchFails, OwnerDies, FindSurviving, RecoveryEnds, Leave
<1>3. /\ DOMAIN asking' \subseteq DOMAIN asking \cup {t}
      /\ \A u \in DOMAIN asking' : asking'[u] \in {asking[u], time}
      /\ \A u \in DOMAIN asking' : u \notin DOMAIN asking => asking'[u] = time
      /\ \A u \in DOMAIN asking' : u \in DOMAIN asking => asking'[u] = asking[u]
  <2>1. CASE asking' = asking
    BY <2>1
  <2>2. CASE asking' = Inserted(asking, t, time) /\ t \notin DOMAIN asking
    BY <2>2 DEF Inserted
  <2>3. CASE asking' = Deleted(asking, t)
    BY <2>3 DEF Deleted, Restrict
  <2> QED BY <1>2, <2>1, <2>2, <2>3
<1>4. /\ target' \in [Tab -> {"none", "open", "closed"}]
      /\ \A u \in Tab : target'[u] # target[u] => target'[u] = "closed"
  BY DEF TabTypeOK, LeaseFails, AskTouch, TouchFails, OwnerDies, FindSurviving, RecoveryEnds, Leave
<1>5. TabTypeOK'
  BY <1>1, <1>3, <1>4 DEF TabTypeOK
<1>6. (\A u \in Tab : RowIsTrue(u)') /\ OpenIsLeased' /\ ClaimIsDue'
  BY <1>1, <1>4 DEF TabTypeOK, RowIsTrue, OpenIsLeased, ClaimIsDue
<1>7. DoomedStay'
  <2> SUFFICES ASSUME NEW u \in Tab, <<u, "timeout">> \in closing, target'[u] # "closed"
               PROVE  Doomed(u)'
    BY <1>1 DEF DoomedStay
  <2>1. Doomed(u)
    BY <1>4 DEF DoomedStay
  <2> QED BY <1>1, <1>3, <2>1 DEF Doomed
<1> QED BY <1>5, <1>6, <1>7

LEMMA TimeKeeps == ASSUME TabIInv, PassTime PROVE TabIInv'
  BY TabAssumption
     DEF TabIInv, TabTypeOK, RowIsTrue, OpenIsLeased, ClaimIsDue, DoomedStay, Doomed, PassTime

LEMMA TabStep == ASSUME TabIInv, [TabNext]_tabVars PROVE TabIInv'
<1>1. CASE UNCHANGED tabVars
  BY <1>1 DEF tabVars, TabIInv, TabTypeOK, RowIsTrue, OpenIsLeased, ClaimIsDue, DoomedStay, Doomed
<1>2. CASE \E t \in Tab :
             \/ LeaseFails(t) \/ AskTouch(t) \/ TouchFails(t) \/ OwnerDies(t)
             \/ FindSurviving(t) \/ RecoveryEnds(t) \/ \E closes \in BOOLEAN : Leave(t, closes)
  BY <1>2, DriversKeep
<1>3. CASE \E t \in Tab :
             \/ OpenTab(t) \/ TabCloses(t)
             \/ \E late \in Late : ClosesLate(t, late)
  BY <1>3, TabsKeep
<1>4. CASE \E t \in Tab : Lease(t) \/ Touch(t)
  BY <1>4, LeaseKeeps, TouchKeeps
<1>5. CASE \/ StartTick \/ ListTargets \/ ReadLeases
           \/ \E t \in Tab : ClaimExpired(t)
  BY <1>5, ReadsKeep
<1>6. CASE Forget \/ CloseTab \/ PassTime
  BY <1>6, ForgetKeeps, CloseTabKeeps, TimeKeeps
<1>7. CASE \E late \in Late : CloseFails(late) \/ EndTick(late)
  BY <1>7, CloseFailsKeeps, EndTickKeeps
<1> QED BY <1>1, <1>2, <1>3, <1>4, <1>5, <1>6, <1>7 DEF TabNext

---------------------------------------------------------------------------
\* Ledger, watchdog, waiting renewals and overdue commands agree, whatever the
\* drivers, the watchdog and the browser do.
THEOREM TabInvariant == TabSpec => []TabIInv
<1>1. TabInit => TabIInv
  BY TabInitial
<1>2. TabIInv /\ [TabNext]_tabVars => TabIInv'
  BY TabStep
<1> QED BY <1>1, <1>2, PTL DEF TabSpec

\* A leased tab that is open stays in the ledger (forget_owned_tabs and mark_closed
\* drop no row of an open tab but that of a strayed one).
THEOREM OpenTabsAreLeased == TabSpec => []OpenIsLeased
<1>1. TabIInv => OpenIsLeased
  BY DEF TabIInv
<1> QED BY <1>1, TabInvariant, PTL

\* The watchdog closes no tab within MaxAge of an activity that the ledger took
\* (claim_expired_tab beside touch_owned_tab).
THEOREM ActiveTabsAreSpared == TabSpec => SparesActive
<1> DEFINE Spared ==
      \A t \in Tab :
        ClosesLate(t, "timeout") \/ (CloseTab /\ reaper.tab = t)
          => time >= active[t] + MaxAge
<1>1. TabIInv => Spared
  <2> SUFFICES ASSUME TabIInv, NEW t \in Tab,
                      ClosesLate(t, "timeout") \/ (CloseTab /\ reaper.tab = t)
               PROVE  time >= active[t] + MaxAge
    OBVIOUS
  <2>1. t \in DOMAIN leases => leases[t] = active[t] /\ active[t] \in Nat
    BY DEF TabIInv, RowIsTrue, TabTypeOK
  <2>2. CASE ClosesLate(t, "timeout")
    BY <2>1, <2>2, TabAssumption DEF TabIInv, TabTypeOK, DoomedStay, Doomed, ClosesLate
  <2>3. CASE CloseTab /\ reaper.tab = t
    BY <2>1, <2>3, TabAssumption DEF TabIInv, TabTypeOK, ClaimIsDue, CloseTab
  <2> QED BY <2>2, <2>3
<1>2. TabSpec => [][Spared]_tabVars
  BY <1>1, TabInvariant, PTL DEF TabSpec
<1> QED BY <1>2 DEF SparesActive

(****************************************************************************)
(* Deployments.                                                             *)
(****************************************************************************)

DeployPc == {"idle", "prepared", "paused", "retiring", "stopped", "started", "disabled",
             "written", "enabled", "restarted", "verified"}
WatchPc == {"idle", "probing", "chosen", "marking", "paused", "stopped", "started", "verified"}

DeployTypeOK ==
  /\ pause \in {"none", "deployment", "recovery", "blank"}
  /\ running \subseteq Nat \cup {Frontends} /\ enabled \subseteq Nat
  /\ current \in Nat /\ newest \in Nat /\ current <= newest
  /\ deployer \in [pc : DeployPc, units : Nat]
  /\ watchdog \in [pc : WatchPc, units : Nat]
  /\ operator \in {"idle", "verified"} /\ raced \in BOOLEAN

\* A file of one name has one owner, and nobody is at work without it.
OwnerWorks ==
  /\ deployer.pc \notin {"idle", "prepared"} => pause = "deployment"
  /\ watchdog.pc = "marking" => pause = "blank"
  /\ watchdog.pc \in {"paused", "stopped", "started", "verified"} => pause = "recovery"
  /\ operator = "verified" =>
       /\ pause # "none" /\ deployer.pc \in {"idle", "prepared"}
       /\ watchdog.pc \in {"idle", "probing", "chosen"}

\* Two generations never run side by side, and the one written down is the only one
\* that a boot may bring back; if it is up, it is also brought back.
OneGeneration ==
  /\ enabled \subseteq {current}
  /\ \A g, h \in running \ {Frontends} : g = h
  /\ Up(current) \/ pause # "deployment" => enabled = {current}

Serving == running = {current, Frontends} /\ enabled = {current}

\* What each step of a deployment leaves behind if it is the last one.
DeployerIsAt ==
  /\ deployer.pc = "idle" => deployer = Resting
  /\ deployer.pc \in {"prepared", "paused", "retiring", "stopped", "started", "disabled"} =>
       deployer.units = current /\ current < newest
  /\ deployer.pc \in {"paused", "retiring"} => Serving
  /\ deployer.pc = "stopped" => running = {} /\ enabled = {current}
  /\ deployer.pc = "started" => running = {newest} /\ enabled = {current}
  /\ deployer.pc = "disabled" => running = {newest} /\ enabled = {}
  /\ deployer.pc = "written" => current = newest /\ running = {newest} /\ enabled = {}
  /\ deployer.pc = "enabled" => current = newest /\ running = {newest} /\ enabled = {newest}
  /\ deployer.pc \in {"restarted", "verified"} => current = newest /\ Serving

AdmissionIsDue ==
  /\ pause \in {"none", "blank"} \/ operator = "verified" => Serving
  /\ watchdog.pc = "stopped" => running = {}
  /\ watchdog.pc = "verified" => Serving

\* What holds as long as no recovery took up a pause that was being lifted.
Guarded == OwnerWorks /\ OneGeneration /\ DeployerIsAt /\ AdmissionIsDue

\* The inductive invariant.
DeployIInv == DeployTypeOK /\ (~raced => Guarded)

LEMMA DeployInitial == DeployInit => DeployIInv
<1> SUFFICES ASSUME DeployInit PROVE DeployIInv
  OBVIOUS
<1> USE DeploymentAssumption DEF DeployInit, Resting
<1>1. DeployTypeOK
  <2>1. deployer \in [pc : DeployPc, units : Nat] /\ watchdog \in [pc : WatchPc, units : Nat]
    BY DEF DeployPc, WatchPc
  <2>2. running \subseteq Nat \cup {Frontends} /\ enabled \subseteq Nat
    OBVIOUS
  <2>3. current \in Nat /\ newest \in Nat /\ current <= newest
    OBVIOUS
  <2> QED
    BY <2>1, <2>2, <2>3 DEF DeployTypeOK
<1>2. OwnerWorks /\ DeployerIsAt
  BY DEF OwnerWorks, DeployerIsAt
<1>3. OneGeneration /\ AdmissionIsDue
  BY DEF OneGeneration, AdmissionIsDue, Serving
<1> QED
  BY <1>1, <1>2, <1>3 DEF DeployIInv, Guarded

\* What is verified to be up serves, whatever pause is in place.
LEMMA UpServes ==
  ASSUME DeployTypeOK, OneGeneration, Up(current)
  PROVE  Serving
<1>1. current \in running \ {Frontends} /\ Frontends \in running
  BY DeploymentAssumption DEF DeployTypeOK, Up
<1>2. \A g \in running : g \in {current, Frontends}
  BY <1>1 DEF OneGeneration
<1>3. running = {current, Frontends}
  BY <1>1, <1>2
<1> QED
  BY <1>3 DEF OneGeneration, Serving

---------------------------------------------------------------------------
(* One step for each action: the types, and what holds unless a recovery   *)
(* raced with the operator.                                                *)

\* Every column keeps to its values.
LEMMA DeployTypesKept ==
  ASSUME DeployTypeOK, DeployNext
  PROVE  DeployTypeOK'
<1> USE DeploymentAssumption DEF DeployTypeOK, DeployPc, WatchPc, Resting
<1>1. CASE Prepare
  BY <1>1 DEF Prepare
<1>2. CASE RequestPause
  BY <1>2 DEF RequestPause, Deploy
<1>3. CASE Retire
  BY <1>3 DEF Retire, Deploy
<1>4. CASE StopWorkers
  BY <1>4 DEF StopWorkers, Deploy
<1>5. CASE StartNew
  BY <1>5 DEF StartNew, Deploy
<1>6. CASE DisableOld
  BY <1>6 DEF DisableOld, Deploy
<1>7. CASE WriteGeneration
  BY <1>7 DEF WriteGeneration, Deploy
<1>8. CASE EnableNew
  BY <1>8 DEF EnableNew, Deploy
<1>9. CASE RestartFrontends
  BY <1>9 DEF RestartFrontends, Deploy
<1>10. CASE VerifyNew
  BY <1>10 DEF VerifyNew, Deploy
<1>11. CASE AdmitNew
  BY <1>11 DEF AdmitNew
<1>12. CASE DeployFails
  BY <1>12 DEF DeployFails
<1>13. CASE DeployDies
  BY <1>13 DEF DeployDies
<1>14. CASE Tick
  BY <1>14 DEF Tick, Watch
<1>15. CASE ChooseServices
  BY <1>15 DEF ChooseServices
<1>16. CASE OpenMarker
  BY <1>16 DEF OpenMarker, Watch
<1>17. CASE WriteMarker
  BY <1>17 DEF WriteMarker, Watch
<1>18. CASE FindMarker
  BY <1>18 DEF FindMarker, Watch
<1>19. CASE QuiesceWorkers
  BY <1>19 DEF QuiesceWorkers, Watch
<1>20. CASE StartServices
  BY <1>20 DEF StartServices, Watch
<1>21. CASE VerifyServices
  BY <1>21 DEF VerifyServices, Watch
<1>22. CASE AdmitRecovered
  BY <1>22 DEF AdmitRecovered
<1>23. CASE WatchEnds
  BY <1>23 DEF WatchEnds
<1>24. CASE CheckHealth
  BY <1>24 DEF CheckHealth
<1>25. CASE Resume
  BY <1>25 DEF Resume
<1>26. CASE Reboot
  BY <1>26 DEF Reboot
<1> QED
  BY <1>1, <1>2, <1>3, <1>4, <1>5, <1>6, <1>7, <1>8, <1>9, <1>10, <1>11, <1>12, <1>13, <1>14,
     <1>15, <1>16, <1>17, <1>18, <1>19, <1>20, <1>21, <1>22, <1>23, <1>24, <1>25, <1>26 DEF DeployNext

\* The steps of a deployment.
LEMMA DeployerKeeps ==
  ASSUME DeployTypeOK, Guarded, ~raced',
         Prepare \/ RequestPause \/ Retire \/ StopWorkers \/ StartNew \/
         DisableOld \/ WriteGeneration \/ EnableNew \/ RestartFrontends \/
         VerifyNew \/ AdmitNew \/ DeployFails \/ DeployDies
  PROVE  Guarded'
<1> USE DeploymentAssumption DEF DeployTypeOK, DeployPc, WatchPc, Resting, Guarded, OwnerWorks,
         OneGeneration, DeployerIsAt, AdmissionIsDue, Serving, Up
<1>1. CASE Prepare
  BY <1>1 DEF Prepare
<1>2. CASE RequestPause
  BY <1>2 DEF RequestPause, Deploy
<1>3. CASE Retire
  BY <1>3 DEF Retire, Deploy
<1>4. CASE StopWorkers
  BY <1>4 DEF StopWorkers, Deploy
<1>5. CASE StartNew
  BY <1>5 DEF StartNew, Deploy
<1>6. CASE DisableOld
  BY <1>6 DEF DisableOld, Deploy
<1>7. CASE WriteGeneration
  BY <1>7 DEF WriteGeneration, Deploy
<1>8. CASE EnableNew
  BY <1>8 DEF EnableNew, Deploy
<1>9. CASE RestartFrontends
  BY <1>9 DEF RestartFrontends, Deploy
<1>10. CASE VerifyNew
  BY <1>10 DEF VerifyNew, Deploy
<1>11. CASE AdmitNew
  BY <1>11 DEF AdmitNew
<1>12. CASE DeployFails
  BY <1>12 DEF DeployFails
<1>13. CASE DeployDies
  BY <1>13 DEF DeployDies
<1> QED
  BY <1>1, <1>2, <1>3, <1>4, <1>5, <1>6, <1>7, <1>8, <1>9, <1>10, <1>11, <1>12, <1>13

\* The steps of a recovery.
LEMMA WatchdogKeeps ==
  ASSUME DeployTypeOK, Guarded, ~raced',
         Tick \/ ChooseServices \/ OpenMarker \/ WriteMarker \/ FindMarker \/
         QuiesceWorkers \/ StartServices \/ VerifyServices \/ AdmitRecovered \/
         WatchEnds
  PROVE  Guarded'
<1> USE DeploymentAssumption DEF DeployTypeOK, DeployPc, WatchPc, Resting, Guarded, OwnerWorks,
         OneGeneration, DeployerIsAt, AdmissionIsDue, Serving, Up
<1>1. CASE Tick
  BY <1>1 DEF Tick, Watch
<1>2. CASE ChooseServices
  BY <1>2 DEF ChooseServices
<1>3. CASE OpenMarker
  BY <1>3 DEF OpenMarker, Watch
<1>4. CASE WriteMarker
  BY <1>4 DEF WriteMarker, Watch
<1>5. CASE FindMarker
  <2>1. operator = "idle"
    BY <1>5 DEF FindMarker, Watch
  <2> QED
    BY <1>5, <2>1 DEF FindMarker, Watch
<1>6. CASE QuiesceWorkers
  BY <1>6 DEF QuiesceWorkers, Watch
<1>7. CASE StartServices
  BY <1>7 DEF StartServices, Watch
<1>8. CASE VerifyServices
  <2>1. Serving
    BY <1>8, UpServes DEF VerifyServices, Watch
  <2> QED
    BY <1>8, <2>1 DEF VerifyServices, Watch
<1>9. CASE AdmitRecovered
  BY <1>9 DEF AdmitRecovered
<1>10. CASE WatchEnds
  BY <1>10 DEF WatchEnds
<1> QED
  BY <1>1, <1>2, <1>3, <1>4, <1>5, <1>6, <1>7, <1>8, <1>9, <1>10

\* The operator, and a boot.
LEMMA OperatorKeeps ==
  ASSUME DeployTypeOK, Guarded, ~raced',
         CheckHealth \/ Resume \/ Reboot
  PROVE  Guarded'
<1> USE DeploymentAssumption DEF DeployTypeOK, DeployPc, WatchPc, Resting, Guarded, OwnerWorks,
         OneGeneration, DeployerIsAt, AdmissionIsDue, Serving, Up
<1>1. CASE CheckHealth
  <2>1. Serving
    BY <1>1, UpServes DEF CheckHealth
  <2> QED
    BY <1>1, <2>1 DEF CheckHealth
<1>2. CASE Resume
  BY <1>2 DEF Resume
<1>3. CASE Reboot
  <2>1. OwnerWorks' /\ DeployerIsAt'
    BY <1>3 DEF Reboot
  <2>2. OneGeneration'
    <3>1. \A g \in (running \ {Frontends})' : g = current
      BY <1>3 DEF Reboot
    <3>2. ASSUME Up(current)' PROVE enabled = {current}
      <4>1. current \in running' /\ current # Frontends
        BY <1>3, <3>2 DEF Reboot
      <4>2. current \in enabled
        BY <1>3, <4>1 DEF Reboot
      <4> QED
        BY <4>2
    <3> QED
      BY <1>3, <3>1, <3>2 DEF Reboot
  <2>3. AdmissionIsDue'
    BY <1>3 DEF Reboot
  <2> QED
    BY <2>1, <2>2, <2>3
<1> QED
  BY <1>1, <1>2, <1>3

---------------------------------------------------------------------------
\* The pause has one owner, generations never overlap, and what each step leaves
\* behind is never mistaken for what serves (deploy, recover_crashed_browser).
THEOREM DeployInvariant == DeploySpec => []DeployIInv
<1>1. DeployIInv /\ [DeployNext]_deployVars => DeployIInv'
  <2> SUFFICES ASSUME DeployIInv, [DeployNext]_deployVars PROVE DeployIInv'
    OBVIOUS
  <2>1. CASE DeployNext
    <3>1. DeployTypeOK'
      BY <2>1, DeployTypesKept DEF DeployIInv
    <3>2. ~raced' => ~raced
      BY <2>1 DEF DeployNext, Prepare, RequestPause, Retire, StopWorkers, StartNew, DisableOld, WriteGeneration,
         EnableNew, RestartFrontends, VerifyNew, AdmitNew, DeployFails, DeployDies, Tick, ChooseServices,
         OpenMarker, WriteMarker, FindMarker, QuiesceWorkers, StartServices, VerifyServices, AdmitRecovered,
         WatchEnds, CheckHealth, Resume, Reboot
    <3>3. ~raced' => Guarded'
      BY <2>1, <3>2, DeployerKeeps, WatchdogKeeps, OperatorKeeps DEF DeployIInv, DeployNext
    <3> QED
      BY <3>1, <3>3 DEF DeployIInv
  <2>2. CASE UNCHANGED deployVars
    BY <2>2 DEF deployVars, DeployIInv, Guarded, DeployTypeOK, OwnerWorks, OneGeneration, DeployerIsAt, AdmissionIsDue,
       Serving, Up
  <2> QED
    BY <2>1, <2>2
<1> QED
  BY <1>1, DeployInitial, PTL DEF DeploySpec

\* Whatever failed or died before, work is admitted only to the generation that was
\* written down, with its frontends and no other beside it, which is also the one
\* that a boot brings back (deploy, recover_crashed_browser, --resume).
THEOREM AdmissionIsServed == DeploySpec => []AdmittedServes
<1>1. DeployIInv => AdmittedServes
  BY DEF DeployIInv, Guarded, AdmissionIsDue, Serving, AdmittedServes
<1> QED
  BY <1>1, DeployInvariant, PTL
=============================================================================
