-------------------------- MODULE AtMostOnceSend --------------------------
(***************************************************************************)
(* What Prompta promises for every send: ChatGPT takes its prompt at most  *)
(* once, and the verdict the queue reports is true.  A send whose fate is  *)
(* not known may still be taken, or turn out to have been; a send reported *)
(* as refused never is, and one reported as delivered was.                 *)
(***************************************************************************)
EXTENDS Integers

CONSTANT Send

VARIABLES
  accepts,  \* how often ChatGPT took the prompt of a send
  verdict   \* what the queue says of it

Verdict == {"pending", "unknown", "delivered", "refused"}

Init ==
  /\ accepts = [s \in Send |-> 0]
  /\ verdict = [s \in Send |-> "pending"]

Accept(s) ==
  /\ verdict[s] \in {"pending", "unknown"}
  /\ accepts[s] = 0
  /\ accepts' = [accepts EXCEPT ![s] = 1]
  /\ UNCHANGED verdict

\* Several sends may be given up, or settled, by one transaction.
Decide(S, v) ==
  /\ verdict' = [s \in Send |-> IF s \in S THEN v ELSE verdict[s]]
  /\ UNCHANGED accepts

Quarantine(S) ==
  /\ \A s \in S : verdict[s] = "pending"
  /\ Decide(S, "unknown")

Deliver(S) ==
  /\ \A s \in S : verdict[s] \in {"pending", "unknown"} /\ accepts[s] = 1
  /\ Decide(S, "delivered")

Refuse(s) ==
  /\ verdict[s] = "pending"
  /\ accepts[s] = 0
  /\ Decide({s}, "refused")

Next ==
  \/ \E s \in Send : Accept(s) \/ Refuse(s)
  \/ \E S \in SUBSET Send : Quarantine(S) \/ Deliver(S)

Spec == Init /\ [][Next]_<<accepts, verdict>>

=============================================================================
