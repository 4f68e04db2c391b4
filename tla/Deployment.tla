----------------------------- MODULE Deployment -----------------------------
(***************************************************************************)
(* A deployment (src/scripts/rolling_deploy.py, deploy_guarded.py) and the *)
(* watchdog's recovery of a crashed browser (src/browser_watchdog.py).     *)
(*                                                                         *)
(* Both stop all owners, may fail or die after any step, and must not      *)
(* admit work again until what serves was verified.  They exclude each     *)
(* other by a file, deployment.pause, that tells whose pause it is.        *)
(***************************************************************************)
EXTENDS Naturals

CONSTANTS
  Frontends,        \* the units of web and scheduler
  LastGeneration    \* bound: deployments

ASSUME DeploymentAssumption == LastGeneration \in Nat /\ Frontends \notin Nat

VARIABLES
  pause,     \* deployment.pause: "none", whose it is, or "blank", created and not written
  running,   \* systemd: units that run; the two workers of a generation are one
  enabled,   \* systemd: generations started at boot
  current,   \* worker-generation.json
  newest,    \* the last release made
  deployer,  \* where deploy is, and the units it will retire
  watchdog,  \* where recover_crashed_browser is, and the services it will start
  operator,  \* deploy_guarded --resume: "idle", or "verified"
  raced      \* history: a recovery took up the pause that the operator was lifting

deployVars == <<pause, running, enabled, current, newest, deployer, watchdog, operator, raced>>

Resting == [pc |-> "idle", units |-> 0]

DeployInit ==
  /\ pause = "none"
  /\ running = {0, Frontends} /\ enabled = {0} /\ current = 0 /\ newest = 0
  /\ deployer = Resting /\ watchdog = Resting /\ operator = "idle"
  /\ raced = FALSE

Up(generation) == {generation, Frontends} \subseteq running

---------------------------------------------------------------------------
(* The deployer; a lock file admits one at a time.                         *)

Deploy(from, to) ==
  /\ deployer.pc = from
  /\ deployer' = [deployer EXCEPT !.pc = to]

\* The snapshot is made, and the units to retire are read.
Prepare ==
  /\ deployer = Resting /\ newest < LastGeneration
  /\ newest' = newest + 1
  /\ deployer' = [pc |-> "prepared", units |-> current]
  /\ UNCHANGED <<pause, running, enabled, current, watchdog, operator, raced>>

\* request_pause creates the file exclusively.
RequestPause ==
  /\ pause = "none"
  /\ Deploy("prepared", "paused")
  /\ pause' = "deployment"
  /\ UNCHANGED <<running, enabled, current, newest, watchdog, operator, raced>>

\* record_interrupted_work is done.
Retire ==
  /\ Deploy("paused", "retiring")
  /\ UNCHANGED <<pause, running, enabled, current, newest, watchdog, operator, raced>>

StopWorkers ==
  /\ Deploy("retiring", "stopped")
  /\ running' = {}
  /\ UNCHANGED <<pause, enabled, current, newest, watchdog, operator, raced>>

\* After the migrations and prepare_recovery.
StartNew ==
  /\ Deploy("stopped", "started")
  /\ running' = running \cup {newest}
  /\ UNCHANGED <<pause, enabled, current, newest, watchdog, operator, raced>>

\* The new workers published their readiness.
DisableOld ==
  /\ newest \in running
  /\ Deploy("started", "disabled")
  /\ enabled' = enabled \ {deployer.units}
  /\ UNCHANGED <<pause, running, current, newest, watchdog, operator, raced>>

WriteGeneration ==
  /\ Deploy("disabled", "written")
  /\ current' = newest
  /\ UNCHANGED <<pause, running, enabled, newest, watchdog, operator, raced>>

EnableNew ==
  /\ Deploy("written", "enabled")
  /\ enabled' = enabled \cup {newest}
  /\ UNCHANGED <<pause, running, current, newest, watchdog, operator, raced>>

RestartFrontends ==
  /\ Deploy("enabled", "restarted")
  /\ running' = running \cup {Frontends}
  /\ UNCHANGED <<pause, enabled, current, newest, watchdog, operator, raced>>

\* verify_services and verify_recorded_work
VerifyNew ==
  /\ Up(newest)
  /\ Deploy("restarted", "verified")
  /\ UNCHANGED <<pause, running, enabled, current, newest, watchdog, operator, raced>>

AdmitNew ==
  /\ deployer.pc = "verified"
  /\ deployer' = Resting
  /\ pause' = "none"
  /\ UNCHANGED <<running, enabled, current, newest, watchdog, operator, raced>>

\* mutant: retired is set only once the workers have stopped
DeployFails_LateRetired ==
  /\ deployer # Resting
  /\ deployer' = Resting
  /\ pause' = IF deployer.pc \in {"paused", "retiring"} THEN "none" ELSE pause
  /\ \/ running' = running
     \/ deployer.pc = "retiring" /\ running' = {}
  /\ UNCHANGED <<enabled, current, newest, watchdog, operator, raced>>

\* An exception in any step, part of which may be done: "retired" decides whether
\* the pause is lifted.
DeployFails ==
  /\ deployer # Resting
  /\ deployer' = Resting
  /\ pause' = IF deployer.pc = "paused" THEN "none" ELSE pause
  /\ \/ running' = running
     \/ deployer.pc = "retiring" /\ running' = {}
  /\ UNCHANGED <<enabled, current, newest, watchdog, operator, raced>>

\* A kill, or another file in place of the pause.
DeployDies ==
  /\ deployer # Resting
  /\ deployer' = Resting
  /\ UNCHANGED <<pause, running, enabled, current, newest, watchdog, operator, raced>>

---------------------------------------------------------------------------
(* The watchdog.                                                           *)

Watch(from, to) ==
  /\ watchdog.pc = from
  /\ watchdog' = [watchdog EXCEPT !.pc = to]

\* main: admissions are open, or paused by an earlier recovery.
Tick ==
  /\ pause \in {"none", "recovery"}
  /\ Watch("idle", "probing")
  /\ UNCHANGED <<pause, running, enabled, current, newest, deployer, operator, raced>>

\* The browser is to be restarted.
ChooseServices ==
  /\ watchdog.pc = "probing"
  /\ watchdog' = [pc |-> "chosen", units |-> current]
  /\ UNCHANGED <<pause, running, enabled, current, newest, deployer, operator, raced>>

OpenMarker ==
  /\ pause = "none"
  /\ Watch("chosen", "marking")
  /\ pause' = "blank"
  /\ UNCHANGED <<running, enabled, current, newest, deployer, operator, raced>>

WriteMarker ==
  /\ Watch("marking", "paused")
  /\ pause' = IF pause = "blank" THEN "recovery" ELSE pause
  /\ UNCHANGED <<running, enabled, current, newest, deployer, operator, raced>>

FindMarker ==
  /\ pause = "recovery"
  /\ Watch("chosen", "paused")
  /\ raced' = (raced \/ operator # "idle")
  /\ UNCHANGED <<pause, running, enabled, current, newest, deployer, operator>>

QuiesceWorkers ==
  /\ Watch("paused", "stopped")
  /\ running' = {}
  /\ UNCHANGED <<pause, enabled, current, newest, deployer, operator, raced>>

\* The browser was restarted and answers.
StartServices ==
  /\ Watch("stopped", "started")
  /\ running' = running \cup {watchdog.units, Frontends}
  /\ UNCHANGED <<pause, enabled, current, newest, deployer, operator, raced>>

\* verify_services reads the generation again.
VerifyServices ==
  /\ Up(current)
  /\ Watch("started", "verified")
  /\ UNCHANGED <<pause, running, enabled, current, newest, deployer, operator, raced>>

AdmitRecovered ==
  /\ watchdog.pc = "verified"
  /\ watchdog' = Resting
  /\ pause' = "none"
  /\ UNCHANGED <<running, enabled, current, newest, deployer, operator, raced>>

\* Nothing to do, an error, or a kill, perhaps with the workers stopped.
WatchEnds ==
  /\ watchdog # Resting
  /\ watchdog' = Resting
  /\ \/ running' = running
     \/ watchdog.pc = "paused" /\ running' = {}
  /\ UNCHANGED <<pause, enabled, current, newest, deployer, operator, raced>>

---------------------------------------------------------------------------
(* The operator, and the machine.                                          *)

\* "a leftover pause": nobody is at work under it
CheckHealth ==
  /\ operator = "idle" /\ pause # "none" /\ Up(current)
  /\ deployer.pc \in {"idle", "prepared"} /\ watchdog.pc \in {"idle", "probing", "chosen"}
  /\ operator' = "verified"
  /\ UNCHANGED <<pause, running, enabled, current, newest, deployer, watchdog, raced>>

Resume ==
  /\ operator = "verified"
  /\ operator' = "idle"
  /\ pause' = "none"
  /\ UNCHANGED <<running, enabled, current, newest, deployer, watchdog, raced>>

Reboot ==
  /\ running' = enabled \cup {Frontends}
  /\ deployer' = Resting /\ watchdog' = Resting /\ operator' = "idle"
  /\ UNCHANGED <<pause, enabled, current, newest, raced>>

DeployNext ==
  \/ Prepare \/ RequestPause \/ Retire \/ StopWorkers \/ StartNew \/ DisableOld
  \/ WriteGeneration \/ EnableNew \/ RestartFrontends \/ VerifyNew \/ AdmitNew
  \/ DeployFails \/ DeployDies
  \/ Tick \/ ChooseServices \/ OpenMarker \/ WriteMarker \/ FindMarker \/ QuiesceWorkers
  \/ StartServices \/ VerifyServices \/ AdmitRecovered \/ WatchEnds
  \/ CheckHealth \/ Resume \/ Reboot

DeploySpec == DeployInit /\ [][DeployNext]_deployVars

---------------------------------------------------------------------------
\* Work is admitted only to the generation that was written down, with its frontends
\* and no other beside it, which is also the one that a boot brings back; whatever
\* failed before (deploy, recover_crashed_browser, --resume).
AdmittedServes ==
  ~raced /\ pause = "none" => running = {current, Frontends} /\ enabled = {current}
=============================================================================
