------------------------------ MODULE StopJob ------------------------------
(***************************************************************************)
(* The Stop button (src/stop_jobs.py) beside the workers of                *)
(* DeliveryWorker.                                                         *)
(*                                                                         *)
(* StopJobService.stop runs in the web server.  It reads the result and    *)
(* then the queue row, cancels the row if it still waits, decides from     *)
(* what it had READ whether the run is still starting, clicks Stop in the  *)
(* browser for up to 15 seconds, and last marks the result as stopped.     *)
(* Workers go on between any two of these steps.                           *)
(***************************************************************************)
EXTENDS DeliveryWorker

VARIABLES
  stop,        \* where the Stop of a send is, or how the last one ended
  readResult,  \* the result it read first: status and accepted_at
  readRow      \* the status it read of the queue row

stopVars == <<stop, readResult, readRow>>

\* "cancelled" and "stopped" are the answers {"ok": true} with and without
\* cancelled_pending; "conflict" is "This job is still starting".
StopPC == {"none", "read", "decide", "browser", "browser_cancelled",
           "cancelled", "stopped", "conflict"}
Answered == {"cancelled", "stopped"}

StopTypeOK ==
  /\ stop       \in [Send -> StopPC]
  /\ readResult \in [Send -> ResultStatus \X BOOLEAN]
  /\ readRow    \in [Send -> QueueStatus]

StopInit ==
  /\ Init
  /\ stop       = [s \in Send |-> "none"]
  /\ readResult = [s \in Send |-> <<"absent", FALSE>>]
  /\ readRow    = [s \in Send |-> "absent"]

\* record = self.results.get(send_id)
StopReadsResult(s) ==
  /\ stop[s] = "none"
  /\ readResult' = [readResult EXCEPT ![s] = <<result[s], acceptedAt[s]>>]
  /\ stop' = [stop EXCEPT ![s] = "read"]
  /\ UNCHANGED <<vars, readRow>>

\* mutant: the second read asks the first store again
StopReadsRow_FromResults(s) ==
  /\ stop[s] = "read"
  /\ readRow' = [readRow EXCEPT ![s] = result[s]]
  /\ stop' = [stop EXCEPT ![s] = IF result[s] = "absent" THEN "none" ELSE "decide"]
  /\ UNCHANGED <<vars, readResult>>

\* queued = self.queue.get(send_id); without either there is no such run.
StopReadsRow(s) ==
  /\ stop[s] = "read"
  /\ readRow' = [readRow EXCEPT ![s] = status[s]]
  /\ stop' = [stop EXCEPT ![s] =
       IF readResult[s][1] = "absent" /\ status[s] = "absent" THEN "none" ELSE "decide"]
  /\ UNCHANGED <<vars, readResult>>

\* There is a turn in ChatGPT to stop.  The conversation of an answer that is no
\* longer captured is known once the send was accepted.
HasTarget(s) ==
  \/ readResult[s][1] = "accepted"
  \/ readResult[s][1] \in {"interrupted", "unavailable"} /\ readResult[s][2]

\* mutant: what was read decides whether there is something to cancel
StopDecides_ByRead(s) ==
  /\ stop[s] = "decide"
  /\ IF readRow[s] \in Waiting
     THEN /\ Release({s}, "cancelled")
          /\ UNCHANGED <<retryAttempt, orderVars, resultVars, projection, confirmed, now>>
          /\ stop' = [stop EXCEPT ![s] = "browser_cancelled"]
     ELSE /\ UNCHANGED queueVars
          /\ stop' = [stop EXCEPT ![s] =
               IF readRow[s] = "running" /\ ~HasTarget(s) THEN "conflict" ELSE "browser"]
  /\ UNCHANGED <<loopVars, senderVars, readResult, readRow>>

\* cancel_pending, and the refusal to stop a run that was starting when read
StopDecides(s) ==
  /\ stop[s] = "decide"
  /\ \/ /\ CancelPending(s)
        /\ stop' = [stop EXCEPT ![s] = "browser_cancelled"]
     \/ /\ status[s] \notin Waiting
        /\ UNCHANGED queueVars
        /\ stop' = [stop EXCEPT ![s] =
             IF readRow[s] = "running" /\ ~HasTarget(s) THEN "conflict" ELSE "browser"]
  /\ UNCHANGED <<loopVars, senderVars, readResult, readRow>>

\* The browser has been tried, with whatever success, and the result is closed.
StopCloses(s) ==
  /\ stop[s] \in {"browser", "browser_cancelled"}
  /\ \/ StopResult(s)
     \/ /\ result[s] \notin {"queued", "accepted", "interrupted", "unavailable"}
        /\ UNCHANGED queueVars
  /\ stop' = [stop EXCEPT ![s] = IF stop[s] = "browser" THEN "stopped" ELSE "cancelled"]
  /\ UNCHANGED <<loopVars, senderVars, readResult, readRow>>

\* The answer has been shown and the user may press Stop again.
StopAgain(s) ==
  /\ stop[s] \in Answered \cup {"conflict"}
  /\ stop' = [stop EXCEPT ![s] = "none"]
  /\ readResult' = [readResult EXCEPT ![s] = <<"absent", FALSE>>]
  /\ readRow'    = [readRow EXCEPT ![s] = "absent"]
  /\ UNCHANGED vars

StopStep(s) ==
  \/ StopReadsResult(s) \/ StopReadsRow(s) \/ StopDecides(s) \/ StopCloses(s) \/ StopAgain(s)

StopNext ==
  \/ Next /\ UNCHANGED stopVars
  \/ \E s \in Send : StopStep(s)

StopSpec == StopInit /\ [][StopNext]_<<vars, stopVars>>

(***************************************************************************)
(* Properties                                                              *)
(***************************************************************************)

\* A Stop that cancelled the delivery, at whatever moment its two reads were
\* taken, prevents the dispatch: nothing of the prompt was or will be sent
\* (test_stop_queued_job_prevents_dispatch_and_is_idempotent).
CancelledStopIsQuiet ==
  /\ StopTypeOK
  /\ \A s \in Send : stop[s] \in {"browser_cancelled", "cancelled"} =>
       status[s] = "cancelled" /\ Quiet(s)

\* A run that Stop has answered for is not sent afterwards: while a delivery is
\* starting, Stop answers "This job is still starting" instead.
StoppedIsNotSent ==
  [][\A s \in Send : Click(s) => ~(stop[s] \in Answered /\ result[s] = "stopped")]_<<vars, stopVars>>

=============================================================================
