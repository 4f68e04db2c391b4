------------------------------ MODULE MCParts ------------------------------
(***************************************************************************)
(* The page, the scheduler, the tabs and deployments side by side.         *)
(* They share no state, so that each behaviour moves one of them: the      *)
(* states are the union of theirs and not the product.                     *)
(***************************************************************************)
EXTENDS ChatList, ChatDetail, ChatPins, ChatReads, ChatSends, JobsPage, MCScheduler, TabOwnership,
        Deployment

VARIABLE moving

MCMatching == [q \in Query |-> IF q = "" THEN Run ELSE Run \ {2}]

\* The answer of the first chat concludes and is followed up; the other grows.
MCLastVersion ==
  [c \in Chat |-> IF c = "first" THEN [t \in Turn |-> IF t = Original THEN Completed ELSE 1]
                  ELSE OnlyOriginal(1)]

PartsInit ==
  /\ ListInit /\ DetailInit /\ PinInit /\ ReadInit /\ SendInit /\ JobsInit /\ SchedulerInit
  /\ TabInit /\ DeployInit
  /\ moving \in {"list", "detail", "pins", "reads", "sends", "jobs", "scheduler", "tabs",
                "deployment"}
  /\ moving # "pins" => pinned = {}
  /\ IF moving = "scheduler" THEN MCScheduled
     ELSE defined = [j \in Jobs |-> NoJob] /\ requests = 0

InFlight(slots, phases) == {s \in slots : phases[s].phase # "none"}

\* What disturbs the composers: storage refuses, the page is closed, a POST that is
\* given up, a delivery that ends badly.
Troubles == refusals + reloads + Cardinality(astray) + Cardinality({r \in server : ~r.live})

\* Bounds: what is expensive is not combined with everything else.  Requests, pieces
\* and troubles are four at most, two requests are about one piece, and two sends are
\* in flight while requests and pieces are two at most and nothing disturbs them; a
\* text has no piece twice, and what is quoted first is called 1.
SendBound ==
  /\ ids + typed + Troubles <= 4 /\ (ids <= 1 \/ typed <= 1) /\ IsInjective(composer.text)
  /\ Cardinality(InFlight(SendSlot, sends)) <= 1 \/ (Troubles = 0 /\ ids + typed <= 2)
  /\ \A s \in SendSlot : Sending(s) /\ sends[s].context > 1 =>
       \E e \in ledger \cup server : e.context = 1

\* "Mark all read" meets one receipt; two loads overlap while some chat is not
\* remembered; time ends earlier where a command and a crash both fall.
PartsBound ==
  /\ moving = "sends" => SendBound
  /\ bulks = 0 \/ Cardinality(InFlight(ReceiptSlot, posting)) + Cardinality(late) <= 1
  /\ Flying(1) /\ Flying(2) => \E c \in Chat : recent[c] = NoTurns
  /\ deaths = 0 \/ requests = 0 \/ wall < MaxWall

PartsNext ==
  /\ moving' = moving
  /\ \/ moving = "list" /\ ListNext
        /\ UNCHANGED <<detailVars, pinVars, readVars, sendVars, jobsVars, scheduleVars, tabVars, deployVars>>
     \/ moving = "detail" /\ DetailNext
        /\ UNCHANGED <<listVars, pinVars, readVars, sendVars, jobsVars, scheduleVars, tabVars, deployVars>>
     \/ moving = "pins" /\ PinNext
        /\ UNCHANGED <<listVars, detailVars, readVars, sendVars, jobsVars, scheduleVars, tabVars, deployVars>>
     \/ moving = "reads" /\ ReadNext
        /\ UNCHANGED <<listVars, detailVars, pinVars, sendVars, jobsVars, scheduleVars, tabVars, deployVars>>
     \/ moving = "sends" /\ SendNext
        /\ UNCHANGED <<listVars, detailVars, pinVars, readVars, jobsVars, scheduleVars, tabVars, deployVars>>
     \/ moving = "jobs" /\ JobsNext
        /\ UNCHANGED <<listVars, detailVars, pinVars, readVars, sendVars, scheduleVars, tabVars, deployVars>>
     \/ moving = "scheduler" /\ SchedulerNext
        /\ UNCHANGED <<listVars, detailVars, pinVars, readVars, sendVars, jobsVars, tabVars, deployVars>>
     \/ moving = "tabs" /\ TabNext
        /\ UNCHANGED <<listVars, detailVars, pinVars, readVars, sendVars, jobsVars, scheduleVars, deployVars>>
     \/ moving = "deployment" /\ DeployNext
        /\ UNCHANGED <<listVars, detailVars, pinVars, readVars, sendVars, jobsVars, scheduleVars, tabVars>>
  /\ PartsBound'

\* What tells states apart: the others are as they were in the beginning.
Moved ==
  <<moving,
    CASE moving = "list" -> listVars [] moving = "detail" -> detailVars
      [] moving = "pins" -> pinVars [] moving = "reads" -> readVars
      [] moving = "sends" -> sendVars [] moving = "jobs" -> jobsVars
      [] moving = "scheduler" -> scheduleVars [] moving = "tabs" -> tabVars
      [] moving = "deployment" -> deployVars>>

PartsSpec ==
  PartsInit
  /\ [][PartsNext]_<<listVars, detailVars, pinVars, readVars, sendVars, jobsVars, scheduleVars, tabVars,
                    deployVars, moving>>
=============================================================================
