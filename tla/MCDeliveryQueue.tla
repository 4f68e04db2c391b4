-------------------------- MODULE MCDeliveryQueue --------------------------
(* Small instances of DeliveryQueue: its stores under arbitrary callers.   *)
EXTENDS DeliveryQueue, TLC

Symmetry == Permutations(Send)

\* Bound: at most one delivery is a one-shot or was moved to the front.  Two
\* deliveries of which one is neither are out of order for one reason at a time.
\* The order decides claims only, so that nothing is left to project meanwhile.
OneOutOfLine ==
  /\ Cardinality({s \in Send : oneTime[s] \/ queuePriority[s] # 0}) <= 1
  /\ (\E s \in Send : queuePriority[s] # 0) => projection = {}
=============================================================================
