----------------------------- MODULE MCWowCache -----------------------------
(* The instance of WowCache for TLC. *)
EXTENDS WowCache, TLC

Everything == OpKinds

Symmetry == Permutations(Paths) \cup Permutations(Files) \cup Permutations(Handles)

=============================================================================
