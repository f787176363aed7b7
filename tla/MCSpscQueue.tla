---------------------------- MODULE MCSpscQueue ----------------------------
(* Instances of SpscQueue for TLC. *)
EXTENDS SpscQueue, TLC

(* Fresh memory, and memory that was used before. *)
ZeroLength == {0}
AnyLength == 0..(Width - 1)

NodeSymmetry == Permutations(Nodes)
Symmetry == NodeSymmetry \cup Permutations(Values)
=============================================================================
