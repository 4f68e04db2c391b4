-------------------------- MODULE MCManualReplies --------------------------
(* Small instances of ManualReplies; the bounds are in the .cfg files.     *)
EXTENDS ManualReplies, TLC

CONSTANTS c1, c2, r1, r2

OneChat  == [r \in {r1, r2} |-> c1]
OneReply == [r \in {r1} |-> c1]
Symmetry == Permutations({r1, r2})
=============================================================================
