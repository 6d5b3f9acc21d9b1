----------------------------- MODULE AtomicFiles -----------------------------
(***************************************************************************)
(* What the file server of wowFS promises its clients: a set of files that *)
(* are replaced as wholes.  The handlers of WowRPCServer.H need several    *)
(* system calls for a Writeback; here it is one step.  A crash of the      *)
(* server process does not appear at all, and a power loss takes every     *)
(* file back to a version the disk had.                                    *)
(***************************************************************************)
CONSTANTS Paths, Calls, Absent, Empty

VARIABLES
    file,       \* path -> the Writeback it holds, Empty or Absent
    disk,       \* path -> the same after a power loss
    done,       \* Writebacks that have taken effect
    target,     \* Writeback -> the path it is for
    value       \* Writeback -> itself, or Empty if it sends nothing

vars == <<file, disk, done, target, value>>

Init ==
    /\ file = [p \in Paths |-> Absent]
    /\ disk = [p \in Paths |-> Absent]
    /\ done = {}
    /\ target \in [Calls -> Paths]
    /\ value \in [Calls -> Calls \cup {Empty}]
    /\ \A c \in Calls : value[c] \in {c, Empty}

(* A Writeback replaces its file, and does so once. *)
Put(c) ==
    /\ c \notin done
    /\ file' = [file EXCEPT ![target[c]] = value[c]]
    /\ done' = done \cup {c}
    /\ UNCHANGED <<disk, target, value>>

Create(p) ==
    /\ file[p] = Absent
    /\ file' = [file EXCEPT ![p] = Empty]
    /\ UNCHANGED <<disk, done, target, value>>

(* The paths of S, and those of T on disk, are links to one file. *)
Truncate(S, T) ==
    /\ \A p, q \in S : file[p] = file[q] /\ file[p] # Absent
    /\ \A p \in T : disk[p] # Absent
    /\ file' = [p \in Paths |-> IF p \in S THEN Empty ELSE file[p]]
    /\ disk' = [p \in Paths |-> IF p \in T THEN Empty ELSE disk[p]]
    /\ UNCHANGED <<done, target, value>>

Unlink(p) ==
    /\ file' = [file EXCEPT ![p] = Absent]
    /\ UNCHANGED <<disk, done, target, value>>

Rename(p, q) ==
    /\ file[p] # Absent
    /\ file' = [file EXCEPT ![q] = file[p], ![p] = Absent]
    /\ UNCHANGED <<disk, done, target, value>>

Link(p, q) ==
    /\ file[p] # Absent
    /\ file[q] = Absent
    /\ file' = [file EXCEPT ![q] = file[p]]
    /\ UNCHANGED <<disk, done, target, value>>

Sync ==
    /\ disk' = file
    /\ UNCHANGED <<file, done, target, value>>

PowerLoss ==
    /\ file' = disk
    /\ UNCHANGED <<disk, done, target, value>>

Next ==
    \/ \E c \in Calls : Put(c)
    \/ \E p \in Paths :
         \/ Create(p) \/ Unlink(p)
         \/ \E q \in Paths : Rename(p, q) \/ Link(p, q)
    \/ \E S, T \in SUBSET Paths : Truncate(S, T)
    \/ Sync \/ PowerLoss

Spec == Init /\ [][Next]_vars

=============================================================================
