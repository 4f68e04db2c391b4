-------------------------- MODULE MCDeliveryWorker -------------------------
(* Small instances of DeliveryWorker; the bounds are in the .cfg files.    *)
EXTENDS DeliveryWorker, TLC

\* For the run with two sends.
Symmetry == Permutations(Send)
=============================================================================
