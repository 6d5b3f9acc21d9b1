---------------------------- MODULE WowServerInv ----------------------------
(***************************************************************************)
(* The inductive invariant behind FinalWhole and ReadsOneVersion of        *)
(* WowServer.  It holds where no failure passes the handler unnoticed      *)
(* (Sound) and no user's file has a name that ends in ".wow".              *)
(***************************************************************************)
EXTENDS WowServer

(* No fault that the Writeback handler takes for success. *)
Sound ==
    /\ Faults \cap {"overlap", "break", "short", "fsync"} = {}
    /\ Paths \cap TmpNames = {}

(* The inodes that paths name, now or after a power loss, and those that a *)
(* reader has open, are whole; the former are on disk.                     *)
FilesWhole ==
    /\ \A p \in Paths : dir[p] # None => Whole(data[dir[p]]) /\ synced[dir[p]]
    /\ \A p \in Paths : pdir[p] # None => Whole(data[pdir[p]]) /\ synced[pdir[p]]
    /\ \A r \in Readers : rfd[r] # None => Whole(data[rfd[r]])

(* The inode under a temporary name is under no other name and in no       *)
(* reader's hands, nor would a power loss put it under a path.             *)
TmpApart ==
    \A p \in Paths : dir[TmpOf[p]] # None =>
        /\ \A q \in Paths : /\ dir[q] # dir[TmpOf[p]]
                            /\ pdir[q] # dir[TmpOf[p]]
                            /\ p # q => dir[TmpOf[q]] # dir[TmpOf[p]]
        /\ \A r \in Readers : rfd[r] # dir[TmpOf[p]]

(* The directory on disk keeps temporary inodes apart in the same way. *)
DiskApart ==
    \A p, q \in Paths : pdir[TmpOf[p]] # None =>
        /\ pdir[q] # pdir[TmpOf[p]]
        /\ p # q => pdir[TmpOf[q]] # pdir[TmpOf[p]]

OneWriter ==
    \A c, d \in Calls : Active(c) /\ Active(d) /\ c # d => req[c].path # req[d].path

(* A handler's descriptor is the inode under its temporary name, which     *)
(* holds what the stream has brought so far.                               *)
HandlerInStep(c) ==
    /\ pc[c] = "idle" => fd[c] = None /\ pos[c] = 0
    /\ pc[c] = "reading" /\ fd[c] = None => pos[c] = 0
    /\ pc[c] = "reading" /\ fd[c] # None =>
          dir[Tmp(c)] = fd[c] /\ data[fd[c]] = Prefix(c, pos[c])
    /\ pc[c] = "ended" =>
          fd[c] # None /\ dir[Tmp(c)] = fd[c] /\ data[fd[c]] = Version(c)
    /\ pc[c] = "synced" =>
          /\ dir[Tmp(c)] # None
          /\ data[dir[Tmp(c)]] = Version(c)
          /\ synced[dir[Tmp(c)]]

HandlersInStep == \A c \in Calls : HandlerInStep(c)

IInv ==
    /\ TypeOK
    /\ FilesWhole
    /\ ReadsOneVersion
    /\ TmpApart
    /\ DiskApart
    /\ OneWriter
    /\ HandlersInStep

=============================================================================
