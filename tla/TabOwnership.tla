---------------------------- MODULE TabOwnership ----------------------------
(***************************************************************************)
(* Tabs of the shared browser: who may close them                          *)
(* (src/browser_ownership.py, the leases of src/patchright_driver.py, the  *)
(* reaper of src/browser_watchdog.py, src/owned_tab_recovery.py).          *)
(*                                                                         *)
(* A driver leases each tab it opens in a ledger on disk and renews the    *)
(* lease when it sees verified activity.  The watchdog closes tabs whose   *)
(* lease expired, whoever opened them: the owner may be dead, or wait in   *)
(* vain.  It must not close a tab in use, nor forget one that is open.     *)
(*                                                                         *)
(* The unit of time is longer than a write waits for the ledger (2 s), so  *)
(* that a renewal is at most one unit old when it is written.              *)
(***************************************************************************)
EXTENDS Naturals, FiniteSets, Functions

CONSTANTS
  Tab,       \* CDP targets
  MaxAge,    \* MAX_OWNED_TAB_AGE_SECONDS
  PerTick,   \* MAX_EXPIRED_TABS_PER_TICK
  MaxTime    \* bound: the clock

ASSUME TabAssumption ==
  /\ IsFiniteSet(Tab)
  /\ {MaxAge, PerTick} \subseteq Nat \ {0} /\ MaxTime \in Nat

VARIABLES
  time,
  target,    \* the browser: tabs that are open
  closing,   \* the browser: tabs it was told to close and has not yet, and
             \* whether the command timed out or its sender was cut off
  driver,    \* how far the driver of a tab is
  known,     \* _owned_target_ids: the driver knows the target's id
  asking,    \* touch_owned_tab waits for the ledger: the time it will write
  leases,    \* owned_tabs: last_activity_at of each row
  reaper,    \* where the watchdog is
  active,    \* history: the last activity that the ledger took, 0 before
  strayed    \* history: open tabs whose row the watchdog dropped

tabVars == <<time, target, closing, driver, known, asking, leases, reaper, active, strayed>>

Leasing == {"opened", "prepared"}  \* before and after the viewport and navigation
Alive   == Leasing \cup {"ready"}
Late    == {"no", "timeout", "lost"}
AtRest  == [pc |-> "idle"]

\* A row of a table is inserted, unless it is there, or deleted.
Inserted(f, t, v) == [u \in DOMAIN f \cup {t} |-> IF u \in DOMAIN f THEN f[u] ELSE v]
Deleted(f, t) == Restrict(f, DOMAIN f \ {t})

\* claim_expired_tab holds the writer's lock.
Locked == reaper.pc = "close"

TabInit ==
  /\ time = MaxAge
  /\ target = [t \in Tab |-> "none"] /\ closing = {}
  /\ driver = [t \in Tab |-> "none"]
  /\ known = {} /\ asking = <<>>
  /\ leases = <<>>
  /\ reaper = AtRest
  /\ active = [t \in Tab |-> 0] /\ strayed = {}

---------------------------------------------------------------------------
(* The driver.                                                             *)

OpenTab(t) ==
  /\ target[t] = "none"
  /\ target' = [target EXCEPT ![t] = "open"]
  /\ driver' = [driver EXCEPT ![t] = "opened"]
  /\ UNCHANGED <<time, closing, known, asking, leases, reaper, active, strayed>>

Further(t) == driver' = [driver EXCEPT ![t] = IF @ = "opened" THEN "prepared" ELSE "ready"]

\* _lease_owned_page, when the page is made and after each navigation: a row that
\* is there keeps its last activity.
Lease(t) ==
  /\ driver[t] \in Leasing /\ target[t] = "open" /\ ~Locked
  /\ leases' = Inserted(leases, t, time)
  /\ active' = [active EXCEPT ![t] = IF t \in DOMAIN leases THEN @ ELSE time]
  /\ known' = known \cup {t}
  /\ Further(t)
  /\ UNCHANGED <<time, target, closing, asking, reaper, strayed>>

\* The browser or the ledger did not answer; the driver goes on.
LeaseFails(t) ==
  /\ driver[t] \in Leasing
  /\ Further(t)
  /\ UNCHANGED <<time, target, closing, known, asking, leases, reaper, active, strayed>>

AskTouch(t) ==
  /\ driver[t] = "found" \/ (driver[t] = "ready" /\ t \in known)
  /\ target[t] = "open" /\ t \notin DOMAIN asking
  /\ asking' = Inserted(asking, t, time)
  /\ UNCHANGED <<time, target, closing, driver, known, leases, reaper, active, strayed>>

Fresh(t, at) == t \in DOMAIN leases /\ leases[t] <= at /\ at < leases[t] + MaxAge

\* touch_owned_tab: a row that had expired is not renewed, even if nobody closed
\* the tab yet.
Touch(t) ==
  /\ t \in DOMAIN asking /\ ~Locked
  /\ asking' = Deleted(asking, t)
  /\ LET at == asking[t]
     IN  /\ IF Fresh(t, at)
            THEN /\ leases' = [leases EXCEPT ![t] = at]
                 /\ active' = [active EXCEPT ![t] = at]
            ELSE UNCHANGED <<leases, active>>
         /\ driver' = [driver EXCEPT ![t] = IF @ # "found" THEN @
                                            ELSE IF Fresh(t, at) THEN "recovering" ELSE "dead"]
  /\ UNCHANGED <<time, target, closing, known, reaper, strayed>>

\* The ledger was locked for too long.
TouchFails(t) ==
  /\ t \in DOMAIN asking
  /\ asking' = Deleted(asking, t)
  /\ driver' = [driver EXCEPT ![t] = IF @ = "found" THEN "dead" ELSE @]
  /\ UNCHANGED <<time, target, closing, known, leases, reaper, active, strayed>>

\* The driver is done: it closes the tab, tries in vain, or leaves it to load.
Leave(t, closes) ==
  /\ driver[t] \in Alive
  /\ driver' = [driver EXCEPT ![t] = "left"]
  /\ target' = [target EXCEPT ![t] = IF closes THEN "closed" ELSE @]
  /\ known' = known \ {t} /\ asking' = Deleted(asking, t)
  /\ UNCHANGED <<time, closing, leases, reaper, active, strayed>>

OwnerDies(t) ==
  /\ driver[t] \in Alive \cup {"left"}
  /\ driver' = [driver EXCEPT ![t] = "dead"]
  /\ known' = known \ {t} /\ asking' = Deleted(asking, t)
  /\ UNCHANGED <<time, target, closing, leases, reaper, active, strayed>>

\* surviving_owned_tabs and the checks of connect: the recovery of an interrupted
\* chat attaches to a tab whose owner is dead.
FindSurviving(t) ==
  /\ driver[t] = "dead" /\ target[t] = "open" /\ Fresh(t, time)
  /\ driver' = [driver EXCEPT ![t] = "found"]
  /\ UNCHANGED <<time, target, closing, known, asking, leases, reaper, active, strayed>>

\* The recovery never closes the tab.
RecoveryEnds(t) ==
  /\ driver[t] = "recovering"
  /\ driver' = [driver EXCEPT ![t] = "dead"]
  /\ UNCHANGED <<time, target, closing, known, asking, leases, reaper, active, strayed>>

\* The user, or a restart of the browser.
TabCloses(t) ==
  /\ target[t] = "open"
  /\ target' = [target EXCEPT ![t] = "closed"]
  /\ UNCHANGED <<time, closing, driver, known, asking, leases, reaper, active, strayed>>

---------------------------------------------------------------------------
(* The watchdog; reap_expired_leases_http does the same over HTTP.         *)

StartTick ==
  /\ reaper = AtRest
  /\ reaper' = [pc |-> "targets", cutoff |-> time - MaxAge]
  /\ UNCHANGED <<time, target, closing, driver, known, asking, leases, active, strayed>>

ListTargets ==
  /\ reaper.pc = "targets"
  /\ reaper' = [pc |-> "leases", cutoff |-> reaper.cutoff,
                open |-> {t \in Tab : target[t] = "open"}]
  /\ UNCHANGED <<time, target, closing, driver, known, asking, leases, active, strayed>>

\* owned_tab_records
ReadLeases ==
  /\ reaper.pc = "leases"
  /\ reaper' = [pc |-> "forget", cutoff |-> reaper.cutoff, open |-> reaper.open,
                rows |-> leases]
  /\ UNCHANGED <<time, target, closing, driver, known, asking, leases, active, strayed>>

ClaimNext(attempts, due) ==
  [pc |-> "claim", cutoff |-> reaper.cutoff, attempts |-> attempts, due |-> due]

\* forget_owned_tabs(set(leases) - active)
Forget ==
  /\ reaper.pc = "forget"
  /\ LET missing == DOMAIN reaper.rows \ reaper.open
     IN  /\ leases' = Restrict(leases, DOMAIN leases \ missing)
         /\ strayed' = strayed \cup {t \in missing : target[t] = "open"}
  /\ reaper' = ClaimNext(0, {t \in DOMAIN reaper.rows \cap reaper.open :
                              reaper.rows[t] <= reaper.cutoff})
  /\ UNCHANGED <<time, target, closing, driver, known, asking, active>>

Claimed(t) ==
  [pc |-> "close", cutoff |-> reaper.cutoff, attempts |-> reaper.attempts + 1,
   due |-> reaper.due \ {t}, tab |-> t]

\* mutant: what was read decides, not what the row says now
Claim_Trusts(t) ==
  /\ reaper.pc = "claim" /\ t \in reaper.due /\ reaper.attempts < PerTick
  /\ reaper' = Claimed(t)
  /\ UNCHANGED <<time, target, closing, driver, known, asking, leases, active, strayed>>

\* claim_expired_tab: the row is read again under the lock that keeps writers
\* off until the browser has answered.
ClaimExpired(t) ==
  /\ reaper.pc = "claim" /\ t \in reaper.due /\ reaper.attempts < PerTick
  /\ reaper' = IF t \in DOMAIN leases /\ leases[t] <= reaper.cutoff
               THEN Claimed(t) ELSE ClaimNext(reaper.attempts + 1, reaper.due \ {t})
  /\ UNCHANGED <<time, target, closing, driver, known, asking, leases, active, strayed>>

Unclaim == reaper' = ClaimNext(reaper.attempts, reaper.due)

\* mark_closed, committed
CloseTab ==
  /\ reaper.pc = "close" /\ target[reaper.tab] = "open"
  /\ target' = [target EXCEPT ![reaper.tab] = "closed"]
  /\ leases' = Deleted(leases, reaper.tab)
  /\ Unclaim
  /\ UNCHANGED <<time, closing, driver, known, asking, active, strayed>>

\* How a command that was not answered may still arrive: it timed out, which takes
\* longer (3 s) than a write waits for the ledger, or its sender was cut off.
Overdue(late) ==
  /\ late = "timeout" => DOMAIN asking = {}
  /\ closing' = IF late = "no" THEN closing ELSE closing \cup {<<reaper.tab, late>>}

\* mutant: the row is dropped whether or not the browser answered
CloseFails_Forgets(late) ==
  /\ reaper.pc = "close"
  /\ Overdue(late)
  /\ leases' = Deleted(leases, reaper.tab)
  /\ Unclaim
  /\ UNCHANGED <<time, target, driver, known, asking, active, strayed>>

\* The claim is given up, and the row stays.
CloseFails(late) ==
  /\ reaper.pc = "close"
  /\ Overdue(late)
  /\ Unclaim
  /\ UNCHANGED <<time, target, driver, known, asking, leases, active, strayed>>

ClosesLate(t, late) ==
  /\ <<t, late>> \in closing /\ target[t] = "open"
  /\ target' = [target EXCEPT ![t] = "closed"]
  /\ closing' = closing \ {<<t, late>>}
  /\ UNCHANGED <<time, driver, known, asking, leases, reaper, active, strayed>>

\* All were tried, or as many as a tick may; or the watchdog dies.
EndTick(late) ==
  /\ reaper # AtRest
  /\ late # "no" => Locked /\ late = "lost"
  /\ Overdue(late)
  /\ reaper' = AtRest
  /\ UNCHANGED <<time, target, driver, known, asking, leases, active, strayed>>

PassTime ==
  /\ time < MaxTime /\ \A t \in DOMAIN asking : asking[t] = time
  /\ time' = time + 1
  /\ UNCHANGED <<target, closing, driver, known, asking, leases, reaper, active, strayed>>

TabNext ==
  \/ \E t \in Tab :
       \/ OpenTab(t) \/ Lease(t) \/ LeaseFails(t) \/ AskTouch(t) \/ Touch(t) \/ TouchFails(t)
       \/ OwnerDies(t) \/ FindSurviving(t) \/ RecoveryEnds(t) \/ TabCloses(t)
       \/ ClaimExpired(t)
       \/ \E late \in Late : ClosesLate(t, late)
       \/ \E closes \in BOOLEAN : Leave(t, closes)
  \/ StartTick \/ ListTargets \/ ReadLeases \/ Forget \/ CloseTab
  \/ (\E late \in Late : CloseFails(late) \/ EndTick(late)) \/ PassTime

TabSpec == TabInit /\ [][TabNext]_tabVars

---------------------------------------------------------------------------
\* The watchdog closes no tab within MaxAge of an activity that the ledger took,
\* wherever the renewal came between the watchdog's reads and its claim, also when
\* the browser closes the tab after the command timed out.  Not if the watchdog was
\* cut off at once: a renewal that waited for its claim can follow, and the command
\* still arrive (claim_expired_tab, touch_owned_tab).
SparesActive ==
  [][\A t \in Tab :
       ClosesLate(t, "timeout") \/ (CloseTab /\ reaper.tab = t)
         => time >= active[t] + MaxAge]_tabVars

\* A tab that was leased and is open remains in the ledger, so that the watchdog
\* finds it when its owner is gone, however often closing it failed; except one
\* that was opened and leased between the watchdog's two reads.
OpenIsLeased ==
  \A t \in Tab : target[t] = "open" /\ active[t] > 0 => t \in DOMAIN leases \cup strayed
=============================================================================
