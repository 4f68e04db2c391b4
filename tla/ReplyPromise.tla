---------------------------- MODULE ReplyPromise ----------------------------
(***************************************************************************)
(* What Prompta promises for every follow-up the user writes: ChatGPT      *)
(* takes it at most once, and only after it was claimed for sending, which *)
(* happens once.  One that was withdrawn before is never taken, and one    *)
(* that is reported as sent was.                                           *)
(***************************************************************************)
EXTENDS Integers

CONSTANT Reply

VARIABLES
  takes,    \* how often ChatGPT took a follow-up
  verdict   \* what Prompta says of it

Verdict == {"waiting", "claimed", "sent", "stopped", "withdrawn"}

Init ==
  /\ takes   = [r \in Reply |-> 0]
  /\ verdict = [r \in Reply |-> "waiting"]

Decide(R, v) ==
  /\ verdict' = [r \in Reply |-> IF r \in R THEN v ELSE verdict[r]]
  /\ UNCHANGED takes

Claim(r) == verdict[r] = "waiting" /\ Decide({r}, "claimed")

\* A stopped follow-up may have been on its way.
Take(r) ==
  /\ verdict[r] \in {"claimed", "stopped"}
  /\ takes[r] = 0
  /\ takes' = [takes EXCEPT ![r] = 1]
  /\ UNCHANGED verdict

Confirm(r) ==
  /\ verdict[r] = "claimed"
  /\ takes[r] = 1
  /\ Decide({r}, "sent")

\* Part of the first prompt instead of a turn of its own.
Merge(r) == verdict[r] = "waiting" /\ Decide({r}, "withdrawn")

\* The user stops a chat: what waits is withdrawn, what was claimed is closed.
Stop(R) ==
  /\ verdict' = [r \in Reply |->
       CASE r \in R /\ verdict[r] = "waiting" -> "withdrawn"
         [] r \in R /\ verdict[r] \in {"claimed", "sent"} -> "stopped"
         [] OTHER -> verdict[r]]
  /\ UNCHANGED takes

Next ==
  \/ \E r \in Reply : Claim(r) \/ Take(r) \/ Confirm(r) \/ Merge(r)
  \/ \E R \in SUBSET Reply : Stop(R)

Spec == Init /\ [][Next]_<<takes, verdict>>

=============================================================================
