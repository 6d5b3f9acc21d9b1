---------------------------- MODULE MCWowReorder ----------------------------
(* Instances of WowReorder for TLC. *)
EXTENDS WowReorder, TLC

Everything == OpKinds

Symmetry == Permutations(Paths)

=============================================================================
