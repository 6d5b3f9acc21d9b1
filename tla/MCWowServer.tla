---------------------------- MODULE MCWowServer ----------------------------
(* Instances of WowServer for TLC: paths fileA and fileB with the names    *)
(* the code gives their temporary files.                                   *)
EXTENDS WowServerInv, TLC

CONSTANTS fileA, fileB, fileA_wow, fileB_wow

(* One path, and two. *)
OneTmp == fileA :> fileA_wow
TwoTmp == fileA :> fileA_wow @@ fileB :> fileB_wow

(* What the handler notices, and what it does not. *)
Noticed == {"crash", "open", "pwrite"}
LosesPower == {"crash", "power"}
Unnoticed == {"crash", "open", "pwrite", "break", "short", "fsync", "rename"}
Overlaps == {"overlap"}

(* Inodes and readers are interchangeable; so are Writebacks, whose        *)
(* requests range over the same set in Init.                               *)
InodeSymmetry == Permutations(Inodes)
Symmetry == Permutations(Inodes) \cup Permutations(Calls) \cup Permutations(Readers)

=============================================================================
