--------------------------- MODULE MCWowNamespace ---------------------------
(* Instance of WowNamespace for TLC: names and clients are alike.          *)
EXTENDS WowNamespace, TLC

Symmetry == Permutations(Clients) \cup Permutations(Names)
=============================================================================
