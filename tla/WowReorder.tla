----------------------------- MODULE WowReorder -----------------------------
(***************************************************************************)
(* Write-backs that errinj_wow_reorder_server delays: one wowFS client     *)
(* whose configuration triggers the injection on every flush, release and  *)
(* open (probability 100, both expressions ".*", as in setupFS.sh).        *)
(*                                                                         *)
(* flush and release leave what they have to do in the list of             *)
(* WowWritebackReorderManager.  Its watchdog takes one operation every     *)
(* second; open has all operations of its path done first; when the client *)
(* exits, the destructor stops the watchdog and does the rest.  All of     *)
(* them work under listMutex_, one system or remote call at a time, while  *)
(* other handlers write, open, remove and rename files.                    *)
(*                                                                         *)
(* A content is the number of the write that made it. Sessions of one     *)
(* path follow each other (WowSession has those that overlap), but the     *)
(* release of one may come after the open of the next.                     *)
(***************************************************************************)
EXTENDS Integers, Sequences, FiniteSets

CONSTANTS
    Paths,
    MaxHandles,     \* FUSE file infos are 1..MaxHandles
    MaxFd,          \* descriptors are 1..MaxFd, the lowest free one is used
    MaxWrites,      \* bound on the writes and creations of a behaviour
    MaxPending,     \* bound on the length of the list
    Dog, Main,      \* the watchdog, the thread that exits
    None,
    Ops             \* what else happens in a run, a subset of OpKinds

OpKinds == {"unlink", "rename", "rpc", "exit"}   \* "rpc": a Writeback fails

Fds == 1..MaxFd
Handles == 1..MaxHandles
Versions == 0..MaxWrites      \* 0 is a content from before
Kinds == {"FLUSH", "CLOSE"}
WritebackOps == [path : Paths, fd : Fds, kind : Kinds]

ASSUME ReorderAssumption ==
    /\ MaxFd \in Nat
    /\ MaxWrites \in Nat
    /\ MaxPending \in Nat
    /\ MaxHandles \in Nat
    /\ None \notin Paths \cup Fds \cup Versions
    /\ None \notin [path : Paths, dirty : BOOLEAN] \cup [path : Paths, version : Versions]
    /\ Cardinality({Dog, Main, None}) = 3
    /\ Handles \cap {Dog, Main, None} = {}
    /\ Ops \subseteq OpKinds

VARIABLES
    local,      \* path -> content of the local copy
    server,     \* path -> content on the server
    newer,      \* paths whose file on the server is newer than the copy
    open,       \* descriptor -> the path it was opened for
    meta,       \* fdToMeta_ : descriptor -> path and isDirty
    pc,         \* handle -> where its handler is, or its session
    path,       \* handle -> its path
    fh,         \* handle -> its descriptor
    pendingOps, \* the list of delayed operations
    lock,       \* who holds listMutex_
    work,       \* what the holder has still to apply, the first being applied
    step,       \* where the first of work is
    buf,        \* what readFile has read for it, and from which path
    phase,      \* of the client's exit
    writes,     \* number of writes so far
    spoiled     \* paths that a known race has touched (history)

fileVars == <<local, server, newer>>
fdVars == <<open, meta>>
handleVars == <<pc, path, fh>>
listVars == <<pendingOps, lock, work, step, buf>>
vars == <<local, server, newer, open, meta, pc, path, fh, pendingOps, lock,
          work, step, buf, phase, writes, spoiled>>

Steps == {"read", "send", "close", "unmap"}
FreeFds == {n \in Fds : open[n] = None}
LowestFd == CHOOSE n \in FreeFds : \A m \in FreeFds : n <= m
OnPath(p) == {h \in Handles : pc[h] # "idle" /\ path[h] = p}
Pending(p) == \E i \in DOMAIN pendingOps : pendingOps[i].path = p
Applied(p) == work # <<>> /\ Head(work).path = p

(* The client starts with some files, up to date in its cache. *)
Init ==
    /\ local \in [Paths -> {0, None}]
    /\ server = local
    /\ newer = {}
    /\ open = [n \in Fds |-> None]
    /\ meta = [n \in Fds |-> None]
    /\ pc = [h \in Handles |-> "idle"]
    /\ path = [h \in Handles |-> None]
    /\ fh = [h \in Handles |-> None]
    /\ pendingOps = <<>>
    /\ lock = None
    /\ work = <<>>
    /\ step = "read"
    /\ buf = None
    /\ phase = "running"
    /\ writes = 0
    /\ spoiled = {}

-----------------------------------------------------------------------------
(* Sessions: open or create, write, flush, release. *)

(* The local open(2) or creat(2), and registerFileOpen. *)
TakeFd(h, p) ==
    /\ FreeFds # {}
    /\ open' = [open EXCEPT ![LowestFd] = p]
    /\ meta' = [meta EXCEPT ![LowestFd] = [path |-> p, dirty |-> FALSE]]
    /\ fh' = [fh EXCEPT ![h] = LowestFd]
    /\ pc' = [pc EXCEPT ![h] = "open"]

(* FUSE allocates a file info; which one makes no difference. *)
Starts(h, p) ==
    /\ phase = "running"
    /\ pc[h] = "idle"
    /\ \A g \in 1..(h - 1) : pc[g] # "idle"
    /\ \A g \in OnPath(p) : pc[g] = "closed"

Open(h, p) ==
    /\ Starts(h, p)
    /\ local[p] # None
    /\ pc' = [pc EXCEPT ![h] = "opening"]
    /\ path' = [path EXCEPT ![h] = p]
    /\ UNCHANGED <<fileVars, fdVars, fh, listVars, phase, writes, spoiled>>

(* shouldFetch compares the times; a file that is newer on the server      *)
(* replaces the copy.                                                      *)
Fetch(h) ==
    LET p == path[h] IN
    /\ pc[h] = "fetching"
    /\ local' = IF p \in newer /\ server[p] # None
                THEN [local EXCEPT ![p] = server[p]] ELSE local
    /\ newer' = newer \ {p}
    /\ TakeFd(h, p)
    /\ UNCHANGED <<server, path, listVars, phase, writes, spoiled>>

(* The injection leaves create alone: it does not look at the list. *)
Create(h, p) ==
    /\ Starts(h, p)
    /\ local[p] = None /\ server[p] = None
    /\ writes < MaxWrites
    /\ writes' = writes + 1
    /\ local' = [local EXCEPT ![p] = writes + 1]
    /\ server' = [server EXCEPT ![p] = writes + 1]
    /\ path' = [path EXCEPT ![h] = p]
    /\ TakeFd(h, p)
    /\ spoiled' = IF Pending(p) \/ Applied(p) THEN spoiled \cup {p} ELSE spoiled
    /\ UNCHANGED <<newer, listVars, phase>>

(* pwrite and registerFileDirty. *)
Write(h) ==
    LET p == path[h] IN
    /\ pc[h] = "open"
    /\ writes < MaxWrites
    /\ writes' = writes + 1
    /\ local' = [local EXCEPT ![p] = writes + 1]
    /\ newer' = newer \ {p}
    /\ meta' = IF meta[fh[h]] = None THEN meta ELSE [meta EXCEPT ![fh[h]].dirty = TRUE]
    /\ UNCHANGED <<server, open, handleVars, listVars, phase, spoiled>>

(* Mutant of AddNewWriteback: new operations go to the front. *)
AddNewWritebackFront(h, kind) ==
    /\ lock = None
    /\ Len(pendingOps) < MaxPending
    /\ pendingOps' = <<[path |-> path[h], fd |-> fh[h], kind |-> kind]>> \o pendingOps
    /\ UNCHANGED <<lock, work, step, buf>>

(* "we always add to the back". *)
AddNewWriteback(h, kind) ==
    /\ lock = None
    /\ Len(pendingOps) < MaxPending
    /\ pendingOps' = Append(pendingOps, [path |-> path[h], fd |-> fh[h], kind |-> kind])
    /\ UNCHANGED <<lock, work, step, buf>>

Flush(h) ==
    LET p == path[h] IN
    /\ pc[h] = "open"
    /\ AddNewWriteback(h, "FLUSH")
    /\ pc' = [pc EXCEPT ![h] = "closed"]
    /\ UNCHANGED <<fileVars, fdVars, path, fh, phase, writes, spoiled>>

(* FUSE calls release some time after close has returned. *)
Release(h) ==
    /\ pc[h] = "closed"
    /\ AddNewWriteback(h, "CLOSE")
    /\ pc' = [pc EXCEPT ![h] = "idle"]
    /\ path' = [path EXCEPT ![h] = None]
    /\ fh' = [fh EXCEPT ![h] = None]
    /\ UNCHANGED <<fileVars, fdVars, phase, writes, spoiled>>

-----------------------------------------------------------------------------
(* Who applies operations: the watchdog, an open, the destructor. *)

(* Mutant of DogPop: the mutex is given back before the operation is       *)
(* applied.                                                                *)
DogPopUnlocked ==
    /\ phase \in {"running", "stopping"}
    /\ lock = None
    /\ pendingOps # <<>>
    /\ work' = <<Head(pendingOps)>>
    /\ pendingOps' = Tail(pendingOps)
    /\ phase' = IF phase = "stopping" THEN "last" ELSE phase
    /\ UNCHANGED <<fileVars, fdVars, handleVars, lock, step, buf, writes, spoiled>>

(* Once keepRunning_ is false there is at most one more turn. *)
DogPop ==
    /\ phase \in {"running", "stopping"}
    /\ lock = None
    /\ IF pendingOps = <<>> THEN UNCHANGED listVars
       ELSE /\ lock' = Dog
            /\ work' = <<Head(pendingOps)>>
            /\ pendingOps' = Tail(pendingOps)
            /\ UNCHANGED <<step, buf>>
    /\ phase' = IF phase = "stopping" THEN "last" ELSE phase
    /\ UNCHANGED <<fileVars, fdVars, handleVars, writes, spoiled>>

(* The operations of a list whose path is in P, in their order. *)
OpsOf(list, P) ==
    LET kept[i \in 0..Len(list)] ==
            IF i = 0 THEN <<>>
            ELSE IF list[i].path \in P THEN Append(kept[i - 1], list[i])
            ELSE kept[i - 1]
    IN  kept[Len(list)]

(* Mutant of OnFileOp: open goes on at once. *)
OnFileOpSkipped(h) ==
    /\ pc[h] = "opening"
    /\ lock = None
    /\ lock' = h
    /\ UNCHANGED <<fileVars, fdVars, handleVars, pendingOps, work, step, buf, phase, writes,
                   spoiled>>

OnFileOp(h) ==
    /\ pc[h] = "opening"
    /\ lock = None
    /\ lock' = h
    /\ work' = OpsOf(pendingOps, {path[h]})
    /\ UNCHANGED <<fileVars, fdVars, handleVars, pendingOps, step, buf, phase, writes,
                   spoiled>>

(* Mutant of OnFileOpEnds: what was applied stays in the list. *)
OnFileOpEndsKeeps(h) ==
    /\ lock = h
    /\ work = <<>>
    /\ lock' = None
    /\ pc' = [pc EXCEPT ![h] = "fetching"]
    /\ UNCHANGED <<fileVars, fdVars, path, fh, pendingOps, work, step, buf, phase, writes,
                   spoiled>>

OnFileOpEnds(h) ==
    /\ lock = h
    /\ work = <<>>
    /\ pendingOps' = OpsOf(pendingOps, Paths \ {path[h]})
    /\ lock' = None
    /\ pc' = [pc EXCEPT ![h] = "fetching"]
    /\ UNCHANGED <<fileVars, fdVars, path, fh, work, step, buf, phase, writes, spoiled>>

(* The file system is unmounted: fuse_main returns and main's statics are  *)
(* destroyed.                                                              *)
Exit ==
    /\ "exit" \in Ops
    /\ phase = "running"
    /\ \A h \in Handles : pc[h] = "idle"
    /\ phase' = "stopping"
    /\ UNCHANGED <<fileVars, fdVars, handleVars, listVars, writes, spoiled>>

(* Mutant of Join: what is in the list is forgotten. *)
JoinForgets ==
    /\ phase \in {"stopping", "last"}
    /\ lock = None
    /\ lock' = Main
    /\ phase' = "draining"
    /\ UNCHANGED <<fileVars, fdVars, handleVars, pendingOps, work, step, buf, writes,
                   spoiled>>

Join ==
    /\ phase \in {"stopping", "last"}
    /\ lock = None
    /\ lock' = Main
    /\ work' = pendingOps
    /\ phase' = "draining"
    /\ UNCHANGED <<fileVars, fdVars, handleVars, pendingOps, step, buf, writes, spoiled>>

DestructorEnds ==
    /\ lock = Main
    /\ work = <<>>
    /\ lock' = None
    /\ pendingOps' = <<>>
    /\ phase' = "ended"
    /\ UNCHANGED <<fileVars, fdVars, handleVars, work, step, buf, writes, spoiled>>

-----------------------------------------------------------------------------
(* WritebackOp::apply: FLUSH is writebackToServer, CLOSE is                *)
(* unreliable_release_impl, which closes the descriptor afterwards.        *)

(* The watchdog has taken one operation only and gives the mutex back. *)
NextOp ==
    /\ work' = Tail(work)
    /\ step' = "read"
    /\ buf' = None
    /\ lock' = IF lock = Dog THEN None ELSE lock

WrittenBack(op) ==
    IF op.kind = "CLOSE"
    THEN step' = "close" /\ buf' = None /\ UNCHANGED <<work, lock>>
    ELSE NextOp

(* isFileDirty, then readFile: the entry stays in between, for only the     *)
(* holder of listMutex_ removes entries.                                   *)
ReadBack(op) ==
    LET m == meta[op.fd] IN
    /\ step = "read"
    /\ IF m # None /\ m.dirty /\ local[m.path] # None
       THEN /\ buf' = [path |-> m.path, version |-> local[m.path]]
            /\ step' = "send"
            /\ UNCHANGED <<work, lock>>
       ELSE WrittenBack(op)
    /\ UNCHANGED <<fileVars, fdVars, spoiled>>

Send(op) ==
    /\ step = "send"
    /\ server' = [server EXCEPT ![op.path] = buf.version]
    /\ newer' = newer \cup {op.path}
    /\ WrittenBack(op)
    /\ UNCHANGED <<local, fdVars, spoiled>>

(* The operation is gone with its failed RPC, and a CLOSE leaks its        *)
(* descriptor.                                                             *)
SendFails(op) ==
    /\ "rpc" \in Ops
    /\ step = "send"
    /\ NextOp
    /\ spoiled' = spoiled \cup {op.path}
    /\ UNCHANGED <<fileVars, fdVars>>

CloseFd(op) ==
    /\ step = "close"
    /\ open' = [open EXCEPT ![op.fd] = None]
    /\ step' = "unmap"
    /\ UNCHANGED <<fileVars, meta, work, lock, buf, spoiled>>

(* registerFileClose: the entry of a handle that has been given the number *)
(* in the meantime goes.                                                   *)
Unmap(op) ==
    /\ step = "unmap"
    /\ meta' = [meta EXCEPT ![op.fd] = None]
    /\ spoiled' = IF open[op.fd] # None THEN spoiled \cup {open[op.fd]} ELSE spoiled
    /\ NextOp
    /\ UNCHANGED <<fileVars, open>>

Apply ==
    /\ work # <<>>
    /\ LET op == Head(work) IN
         \/ ReadBack(op) \/ Send(op) \/ SendFails(op)
         \/ CloseFd(op) \/ Unmap(op)
    /\ UNCHANGED <<handleVars, pendingOps, phase, writes>>

-----------------------------------------------------------------------------
(* unlink and rename, on the server and locally; "any open / rename /      *)
(* delete / flush should first call" onFileOp, but these two do not.       *)

Unlink(p) ==
    /\ "unlink" \in Ops
    /\ phase = "running"
    /\ OnPath(p) = {}
    /\ local[p] # None
    /\ server' = [server EXCEPT ![p] = None]
    /\ local' = [local EXCEPT ![p] = None]
    /\ newer' = newer \ {p}
    /\ spoiled' = IF Pending(p) \/ Applied(p) THEN spoiled \cup {p} ELSE spoiled
    /\ UNCHANGED <<fdVars, handleVars, listVars, phase, writes>>

Rename(p, q) ==
    /\ "rename" \in Ops
    /\ phase = "running"
    /\ OnPath(p) \cup OnPath(q) = {}
    /\ local[p] # None
    /\ local[q] = None /\ server[q] = None
    /\ server' = [server EXCEPT ![q] = server[p], ![p] = None]
    /\ local' = [local EXCEPT ![q] = local[p], ![p] = None]
    /\ newer' = (newer \ {p, q}) \cup (IF p \in newer THEN {q} ELSE {})
    /\ spoiled' = IF \E r \in {p, q} : Pending(r) \/ Applied(r) \/ r \in spoiled
                  THEN spoiled \cup {p, q} ELSE spoiled
    /\ UNCHANGED <<fdVars, handleVars, listVars, phase, writes>>

HandleStep(h) ==
    \/ \E p \in Paths : Open(h, p) \/ Create(h, p)
    \/ OnFileOp(h) \/ OnFileOpEnds(h) \/ Fetch(h)
    \/ Write(h) \/ Flush(h) \/ Release(h)

Next ==
    \/ \E h \in Handles : HandleStep(h)
    \/ DogPop \/ Apply
    \/ Exit \/ Join \/ DestructorEnds
    \/ \E p \in Paths : Unlink(p) \/ \E q \in Paths : Rename(p, q)

Spec == Init /\ [][Next]_vars

-----------------------------------------------------------------------------
(* Properties. *)

(* Every variable has the shape of what it stands for, and only the holder *)
(* of listMutex_ has operations to apply.                                  *)
TypeOK ==
    /\ local \in [Paths -> Versions \cup {None}]
    /\ server \in [Paths -> Versions \cup {None}]
    /\ newer \subseteq Paths
    /\ open \in [Fds -> Paths \cup {None}]
    /\ meta \in [Fds -> [path : Paths, dirty : BOOLEAN] \cup {None}]
    /\ pc \in [Handles -> {"idle", "opening", "fetching", "open", "closed"}]
    /\ path \in [Handles -> Paths \cup {None}]
    /\ fh \in [Handles -> Fds \cup {None}]
    /\ pendingOps \in Seq(WritebackOps)
    /\ lock \in Handles \cup {Dog, Main, None}
    /\ work \in Seq(WritebackOps)
    /\ step \in Steps
    /\ buf \in [path : Paths, version : Versions] \cup {None}
    /\ phase \in {"running", "stopping", "last", "draining", "ended"}
    /\ writes \in 0..MaxWrites
    /\ spoiled \subseteq Paths
    /\ work # <<>> => lock # None

(* A delayed close is applied once: the descriptor of a session is never   *)
(* taken away from it, nor from the operations that are still to use it.   *)
KeepsDescriptor ==
    /\ \A h \in Handles : pc[h] \in {"open", "closed"} => open[fh[h]] = path[h]
    /\ lock \in {None, Dog} =>
         \A i \in DOMAIN pendingOps : open[pendingOps[i].fd] = pendingOps[i].path

(* What open calls onFileOp for: when it goes on, the server has what the  *)
(* sessions before it have left in the copy, unless a race touched the     *)
(* path that the list knows nothing of (unlink, rename, reuse of a         *)
(* descriptor, an RPC that failed).                                        *)
OpenSeesClosed ==
    \A h \in Handles :
        pc[h] = "fetching" /\ path[h] \notin spoiled => server[path[h]] = local[path[h]]

(* Neither the copy nor the server's file of an unspoiled path ever goes   *)
(* back to an older content: not by the delay, not by the download at      *)
(* open.                                                                   *)
NeverBack ==
    [][\A p \in Paths \ spoiled' :
         /\ {local[p], local'[p]} \subseteq Versions => local'[p] >= local[p]
         /\ {server[p], server'[p]} \subseteq Versions => server'[p] >= server[p]]_vars

(* "make sure all pending ops are applied on close": after the destructor  *)
(* the server has the last content of every unspoiled path.                *)
SavedAtEnd ==
    phase = "ended" =>
        \A p \in Paths \ spoiled : server[p] = local[p]

=============================================================================
