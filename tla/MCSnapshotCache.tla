-------------------------- MODULE MCSnapshotCache --------------------------
(* Instances of SnapshotCache for TLC. *)
EXTENDS SnapshotCache, TLC

CONSTANTS p1, p2, p3

MCTwoPages == {p1, p2}
MCThreePages == {p1, p2, p3}
MCSymmetry == Permutations(MCThreePages)
=============================================================================
