------------------------- MODULE MCWowLocalReorder --------------------------
(* Instance of WowLocalReorder for TLC. *)
EXTENDS WowLocalReorder, TLC

Symmetry == Permutations(Files) \cup Permutations(Blocks)
=============================================================================
