------------------------------ MODULE WowCache ------------------------------
(***************************************************************************)
(* One wowFS client: the handlers of unreliablefs_ops.c that FUSE runs on  *)
(* several threads, over the local copies of the files, the kernel's table *)
(* of descriptors, and the maps of WowCacheManager (WowCache.H), which the *)
(* handlers use to find out what a descriptor stands for.                  *)
(*                                                                         *)
(* Every map operation takes mapMutex_, so it is one step; between two of  *)
(* them, and between them and a system call, other handlers run.  A handle *)
(* (a FUSE file info) has at most one handler at a time.  The server is    *)
(* what WowServer implements, a store of whole files; no other client      *)
(* writes, and the local copies are current when they are opened.          *)
(***************************************************************************)
EXTENDS Integers, FiniteSets

CONSTANTS
    Paths,
    Files,          \* local inodes
    Handles,        \* FUSE file infos
    MaxFd,          \* descriptors are 1..MaxFd, the lowest free one is used
    Threads,        \* handlers that FUSE runs at a time
    MaxWrites,      \* bound on the writes and truncations of a behaviour
    MaxFreq,        \* bound on the count of a path when it is opened
    None,
    Ops             \* what else happens in a run, a subset of OpKinds

OpKinds == {"rename",     \* files are renamed while they are open
            "truncate",   \* truncate(2) by path
            "rpc"}        \* a Writeback RPC fails

Fds == 1..MaxFd
Versions == 0..MaxWrites       \* version 0 is the empty file

ASSUME CacheAssumption ==
    /\ MaxFd \in Nat
    /\ Threads \in Nat
    /\ MaxWrites \in Nat
    /\ MaxFreq \in Nat
    /\ None \notin Paths \cup Files \cup Fds \cup Versions
    /\ None \notin [path : Paths, dirty : BOOLEAN] \cup [file : Files, version : Versions]
    /\ Ops \subseteq OpKinds

VARIABLES
    local,      \* path -> local file
    data,       \* local file -> the version it holds
    server,     \* path -> the version the server holds
    open,       \* descriptor -> the file the kernel has open on it
    meta,       \* fdToMeta_ : descriptor -> path and isDirty
    freq,       \* filepathToFreq_, 0 for a path that is not in it
    pc,         \* handle -> where its handler is
    releasing,  \* handle -> the handler is release, not flush
    flushed,    \* handle -> flush was called since its last write
    path,       \* handle -> the path FUSE passes to its handlers
    file,       \* handle -> the file it was opened on
    fh,         \* handle -> the descriptor in it
    buf,        \* handle -> the file and version that readFile has read
    writes,     \* number of writes so far
    spoiled     \* what the code is known to lose: file and why (history)

handleVars == <<pc, releasing, flushed, path, file, fh, buf>>
mapVars == <<meta, freq>>
counters == <<writes, spoiled>>
vars == <<local, data, server, open, meta, freq, pc, releasing, flushed,
          path, file, fh, buf, writes, spoiled>>

(* Reasons for which a change of a file may not reach the server: its name *)
(* was changed while it was open, it was truncated by path, the RPC of its *)
(* release failed, its descriptor was given out again before its close was *)
(* registered, an older copy was sent after a newer one.                   *)
Reasons == {"renamed", "truncated", "failed", "reused", "overtaken"}
Spoil(fs, why) == spoiled' = spoiled \cup (fs \X {why})
Sound(f) == \A why \in Reasons : <<f, why>> \notin spoiled

Resting == {"unused", "open"}
Busy == {h \in Handles : pc[h] \notin Resting}
OnPath(p) == {h \in Handles : pc[h] # "unused" /\ path[h] = p}
FreeFds == {n \in Fds : open[n] = None}
LowestFd(n) == n \in FreeFds /\ \A m \in FreeFds : n <= m

Init ==
    /\ local = [p \in Paths |-> None]
    /\ data = [f \in Files |-> 0]
    /\ server = [p \in Paths |-> None]
    /\ open = [n \in Fds |-> None]
    /\ meta = [n \in Fds |-> None]
    /\ freq = [p \in Paths |-> 0]
    /\ pc = [h \in Handles |-> "unused"]
    /\ releasing = [h \in Handles |-> FALSE]
    /\ flushed = [h \in Handles |-> FALSE]
    /\ path = [h \in Handles |-> None]
    /\ file = [h \in Handles |-> None]
    /\ fh = [h \in Handles |-> None]
    /\ buf = [h \in Handles |-> None]
    /\ writes = 0
    /\ spoiled = {}

-----------------------------------------------------------------------------
(* open and create: the local open takes a descriptor, then                *)
(* registerFileOpen enters it in the maps.                                 *)

TakeFd(h, p, f) ==
    /\ pc[h] = "unused"
    /\ Cardinality(Busy) < Threads
    /\ freq[p] < MaxFreq
    /\ \E n \in Fds :
         /\ LowestFd(n)
         /\ open' = [open EXCEPT ![n] = f]
         /\ fh' = [fh EXCEPT ![h] = n]
    /\ path' = [path EXCEPT ![h] = p]
    /\ file' = [file EXCEPT ![h] = f]
    /\ pc' = [pc EXCEPT ![h] = "opened"]
    /\ UNCHANGED <<mapVars, releasing, flushed, buf, writes>>

Open(h, p) ==
    /\ local[p] # None
    /\ TakeFd(h, p, local[p])
    /\ UNCHANGED <<local, data, server, spoiled>>

Create(h, p) ==
    /\ local[p] = None
    /\ \E f \in Files :
         /\ \A q \in Paths : local[q] # f
         /\ \A n \in Fds : open[n] # f
         /\ TakeFd(h, p, f)
         /\ local' = [local EXCEPT ![p] = f]
         /\ data' = [data EXCEPT ![f] = 0]
         /\ server' = [server EXCEPT ![p] = 0]
         /\ spoiled' = {s \in spoiled : s[1] # f \/ s[2] = "reused"}

(* The descriptor of h had an owner whose close is not registered yet. *)
Reuses(h) ==
    Spoil({file[h] : g \in {g \in Handles : pc[g] = "closed" /\ fh[g] = fh[h]}}, "reused")

(* Mutants of RegisterOpen: the path is not counted, a path that is        *)
(* already open gets no second entry, and an entry is never overwritten.   *)
RegisterOpenUncounted(h) ==
    /\ pc[h] = "opened"
    /\ meta' = [meta EXCEPT ![fh[h]] = [path |-> path[h], dirty |-> FALSE]]
    /\ pc' = [pc EXCEPT ![h] = "open"]
    /\ Reuses(h)
    /\ UNCHANGED <<local, data, server, open, freq, releasing, flushed, path, file, fh, buf,
                   writes>>

RegisterOpenOnce(h) ==
    /\ pc[h] = "opened"
    /\ meta' = IF freq[path[h]] > 0 THEN meta
               ELSE [meta EXCEPT ![fh[h]] = [path |-> path[h], dirty |-> FALSE]]
    /\ freq' = [freq EXCEPT ![path[h]] = @ + 1]
    /\ pc' = [pc EXCEPT ![h] = "open"]
    /\ Reuses(h)
    /\ UNCHANGED <<local, data, server, open, releasing, flushed, path, file, fh, buf, writes>>

RegisterOpenInserts(h) ==
    /\ pc[h] = "opened"
    /\ meta' = IF meta[fh[h]] # None THEN meta
               ELSE [meta EXCEPT ![fh[h]] = [path |-> path[h], dirty |-> FALSE]]
    /\ freq' = [freq EXCEPT ![path[h]] = @ + 1]
    /\ pc' = [pc EXCEPT ![h] = "open"]
    /\ Reuses(h)
    /\ UNCHANGED <<local, data, server, open, releasing, flushed, path, file, fh, buf, writes>>

RegisterOpen(h) ==
    /\ pc[h] = "opened"
    /\ meta' = [meta EXCEPT ![fh[h]] = [path |-> path[h], dirty |-> FALSE]]
    /\ freq' = [freq EXCEPT ![path[h]] = @ + 1]
    /\ pc' = [pc EXCEPT ![h] = "open"]
    /\ Reuses(h)
    /\ UNCHANGED <<local, data, server, open, releasing, flushed, path, file, fh, buf, writes>>

-----------------------------------------------------------------------------
(* write and ftruncate: the local copy changes, then registerFileDirty.    *)
(* ftruncate works on the path, which is the file of the handle.           *)

(* Mutant of Write: the write is not registered. *)
WriteUnregistered(h) ==
    /\ pc[h] = "open"
    /\ Cardinality(Busy) < Threads
    /\ writes < MaxWrites
    /\ writes' = writes + 1
    /\ data' = [data EXCEPT ![open[fh[h]]] = writes + 1]
    /\ flushed' = [flushed EXCEPT ![h] = FALSE]
    /\ UNCHANGED <<local, server, open, mapVars, pc, releasing, path, file, fh, buf, spoiled>>

Write(h) ==
    /\ pc[h] = "open"
    /\ Cardinality(Busy) < Threads
    /\ writes < MaxWrites
    /\ writes' = writes + 1
    /\ data' = [data EXCEPT ![open[fh[h]]] = writes + 1]
    /\ flushed' = [flushed EXCEPT ![h] = FALSE]
    /\ pc' = [pc EXCEPT ![h] = "written"]
    /\ UNCHANGED <<local, server, open, mapVars, releasing, path, file, fh, buf, spoiled>>

(* An unknown descriptor is logged and otherwise ignored. *)
RegisterDirty(h) ==
    /\ pc[h] = "written"
    /\ meta' = IF meta[fh[h]] = None THEN meta
               ELSE [meta EXCEPT ![fh[h]] = [path |-> @.path, dirty |-> TRUE]]
    /\ pc' = [pc EXCEPT ![h] = "open"]
    /\ UNCHANGED <<local, data, server, open, freq, releasing, flushed, path, file, fh, buf,
                   counters>>

(* truncate by path changes the local copy and nothing else. *)
TruncatePath(p) ==
    /\ "truncate" \in Ops
    /\ Cardinality(Busy) < Threads
    /\ local[p] # None
    /\ writes < MaxWrites
    /\ writes' = writes + 1
    /\ data' = [data EXCEPT ![local[p]] = writes + 1]
    /\ Spoil({local[p]}, "truncated")
    /\ UNCHANGED <<local, server, open, mapVars, handleVars>>

-----------------------------------------------------------------------------
(* flush and release, which both write back first: isFileDirty, then       *)
(* readFile, then the RPC, each on what the maps hold at that moment.      *)

StartFlush(h) ==
    /\ pc[h] = "open"
    /\ Cardinality(Busy) < Threads
    /\ pc' = [pc EXCEPT ![h] = "check"]
    /\ releasing' = [releasing EXCEPT ![h] = FALSE]
    /\ flushed' = [flushed EXCEPT ![h] = TRUE]
    /\ UNCHANGED <<local, data, server, open, mapVars, path, file, fh, buf, counters>>

(* FUSE calls release some time after the last close, and with it the last *)
(* flush, has returned.                                                    *)
StartRelease(h) ==
    /\ pc[h] = "open"
    /\ flushed[h]
    /\ Cardinality(Busy) < Threads
    /\ pc' = [pc EXCEPT ![h] = "check"]
    /\ releasing' = [releasing EXCEPT ![h] = TRUE]
    /\ UNCHANGED <<local, data, server, open, mapVars, flushed, path, file, fh, buf, counters>>

WrittenBack(h) == IF releasing[h] THEN "close" ELSE "open"

CheckDirty(h) ==
    /\ pc[h] = "check"
    /\ pc' = [pc EXCEPT ![h] =
                IF meta[fh[h]] # None /\ meta[fh[h]].dirty THEN "read"
                ELSE WrittenBack(h)]
    /\ UNCHANGED <<local, data, server, open, mapVars, releasing, flushed, path, file, fh, buf,
                   counters>>

(* readFile opens the path that the map has for the descriptor; when there *)
(* is none, or no such file, the write-back is skipped and taken for done. *)
ReadFile(h) ==
    LET m == meta[fh[h]] IN
    /\ pc[h] = "read"
    /\ IF m = None \/ local[m.path] = None
       THEN /\ pc' = [pc EXCEPT ![h] = WrittenBack(h)]
            /\ UNCHANGED buf
       ELSE /\ pc' = [pc EXCEPT ![h] = "send"]
            /\ buf' = [buf EXCEPT ![h] =
                         [file |-> local[m.path], version |-> data[local[m.path]]]]
    /\ UNCHANGED <<local, data, server, open, mapVars, releasing, flushed, path, file, fh, counters>>

(* The Writeback RPC, as the whole that WowServer makes of it; flush then  *)
(* closes a duplicate of the descriptor, which changes nothing.            *)
Send(h) ==
    /\ pc[h] = "send"
    /\ server' = [server EXCEPT ![path[h]] = buf[h].version]
    /\ pc' = [pc EXCEPT ![h] = WrittenBack(h)]
    /\ buf' = [buf EXCEPT ![h] = None]
    /\ IF server[path[h]] # None /\ buf[h].version < server[path[h]]
       THEN Spoil({file[h]}, "overtaken") ELSE UNCHANGED spoiled
    /\ UNCHANGED <<local, data, open, mapVars, releasing, flushed, path, file, fh, writes>>

(* The handle is given back to FUSE. *)
Reset(h) ==
    /\ pc' = [pc EXCEPT ![h] = "unused"]
    /\ releasing' = [releasing EXCEPT ![h] = FALSE]
    /\ flushed' = [flushed EXCEPT ![h] = FALSE]
    /\ path' = [path EXCEPT ![h] = None]
    /\ file' = [file EXCEPT ![h] = None]
    /\ fh' = [fh EXCEPT ![h] = None]

(* flush returns -1 to close.  release returns before it closes anything,  *)
(* and FUSE does not call it again: descriptor and entry are leaked.       *)
FlushFails(h) ==
    /\ "rpc" \in Ops
    /\ pc[h] = "send"
    /\ ~releasing[h]
    /\ pc' = [pc EXCEPT ![h] = "open"]
    /\ buf' = [buf EXCEPT ![h] = None]
    /\ UNCHANGED <<local, data, server, open, mapVars, releasing, flushed, path, file, fh, counters>>

ReleaseFails(h) ==
    /\ "rpc" \in Ops
    /\ pc[h] = "send"
    /\ releasing[h]
    /\ Reset(h)
    /\ buf' = [buf EXCEPT ![h] = None]
    /\ Spoil({file[h]}, "failed")
    /\ UNCHANGED <<local, data, server, open, mapVars, writes>>

(* close(fd): from here on another open may get the number. *)
Close(h) ==
    /\ pc[h] = "close"
    /\ open' = [open EXCEPT ![fh[h]] = None]
    /\ pc' = [pc EXCEPT ![h] = "closed"]
    /\ UNCHANGED <<local, data, server, mapVars, releasing, flushed, path, file, fh, buf, counters>>

(* Mutant of RegisterClose: the entry goes, the count stays. *)
RegisterCloseKeepsCount(h) ==
    /\ pc[h] = "closed"
    /\ meta' = [meta EXCEPT ![fh[h]] = None]
    /\ Reset(h)
    /\ UNCHANGED <<local, data, server, open, freq, buf, counters>>

RegisterClose(h) ==
    LET m == meta[fh[h]] IN
    /\ pc[h] = "closed"
    /\ IF m = None THEN UNCHANGED mapVars
       ELSE /\ meta' = [meta EXCEPT ![fh[h]] = None]
            /\ freq' = [freq EXCEPT ![m.path] = @ - 1]
    /\ Reset(h)
    /\ UNCHANGED <<local, data, server, open, buf, counters>>

-----------------------------------------------------------------------------
(* rename and unlink act on the server and then on the local copy; the     *)
(* maps keep the old path.  libfuse holds back a rename of a path that a   *)
(* handler is using, and hides a file that is open instead of removing it. *)

Rename(p, q) ==
    /\ "rename" \in Ops
    /\ Cardinality(Busy) < Threads
    /\ p # q
    /\ local[p] # None
    /\ OnPath(p) \cap Busy = {}
    /\ OnPath(q) = {}
    /\ server' = [server EXCEPT ![q] = server[p], ![p] = None]
    /\ local' = [local EXCEPT ![q] = local[p], ![p] = None]
    /\ path' = [h \in Handles |-> IF h \in OnPath(p) THEN q ELSE path[h]]
    /\ Spoil({local[p] : h \in OnPath(p)}, "renamed")
    /\ UNCHANGED <<data, open, mapVars, pc, releasing, flushed, file, fh, buf, writes>>

Unlink(p) ==
    /\ Cardinality(Busy) < Threads
    /\ local[p] # None
    /\ OnPath(p) = {}
    /\ server' = [server EXCEPT ![p] = None]
    /\ local' = [local EXCEPT ![p] = None]
    /\ UNCHANGED <<data, open, mapVars, handleVars, counters>>

HandlerStep(h) ==
    \/ RegisterOpen(h) \/ RegisterDirty(h) \/ CheckDirty(h) \/ ReadFile(h)
    \/ Send(h) \/ FlushFails(h) \/ ReleaseFails(h) \/ Close(h) \/ RegisterClose(h)

Next ==
    \/ \E h \in Handles :
         \/ \E p \in Paths : Open(h, p) \/ Create(h, p)
         \/ Write(h) \/ StartFlush(h) \/ StartRelease(h) \/ HandlerStep(h)
    \/ \E p \in Paths :
         \/ TruncatePath(p) \/ Unlink(p)
         \/ \E q \in Paths : Rename(p, q)

Spec == Init /\ [][Next]_vars

-----------------------------------------------------------------------------
(* Properties. *)

(* Every variable has the shape of the structure it stands for, and a      *)
(* handler at work has the descriptor and the buffer it is about to use.   *)
TypeOK ==
    /\ local \in [Paths -> Files \cup {None}]
    /\ data \in [Files -> Versions]
    /\ server \in [Paths -> Versions \cup {None}]
    /\ open \in [Fds -> Files \cup {None}]
    /\ meta \in [Fds -> [path : Paths, dirty : BOOLEAN] \cup {None}]
    /\ freq \in [Paths -> Nat]
    /\ pc \in [Handles -> Resting \cup {"opened", "written", "check", "read", "send",
                                        "close", "closed"}]
    /\ releasing \in [Handles -> BOOLEAN]
    /\ flushed \in [Handles -> BOOLEAN]
    /\ path \in [Handles -> Paths \cup {None}]
    /\ file \in [Handles -> Files \cup {None}]
    /\ fh \in [Handles -> Fds \cup {None}]
    /\ buf \in [Handles -> [file : Files, version : Versions] \cup {None}]
    /\ writes \in 0..MaxWrites
    /\ spoiled \subseteq Files \X Reasons

(* A handle that an open has given out keeps its descriptor to itself      *)
(* until close: no two handles write through one descriptor.               *)
HasFd(h) == pc[h] \notin {"unused", "closed"}
DescriptorsApart ==
    \A h \in Handles : HasFd(h) =>
        /\ open[fh[h]] = file[h]
        /\ \A g \in Handles : HasFd(g) /\ g # h => fh[g] # fh[h]

(* registerFileDirty logs "unknown fd ... Note this looks like a serious   *)
(* issue!" when it does not find the descriptor: it always finds it, but   *)
(* for a descriptor that was given out before its close was registered.    *)
DirtyFindsMeta ==
    \A h \in Handles :
      pc[h] = "written" /\ <<file[h], "reused">> \notin spoiled => meta[fh[h]] # None

(* "the below maps only include entries corresponding to currently open    *)
(* files": between handlers there is an entry for every open descriptor    *)
(* and for no other, and the path map counts the entries of a path, as     *)
(* long as no descriptor was given out before its close was registered.    *)
MapsMatch ==
    Busy = {} /\ (\A f \in Files : <<f, "reused">> \notin spoiled) =>
        /\ \A n \in Fds : meta[n] # None <=> open[n] # None
        /\ \A p \in Paths :
             freq[p] = Cardinality({n \in Fds : meta[n] # None /\ meta[n].path = p})

(* "... to avoid potential disasters of reading some other file and        *)
(* sync-ing that with the server": what is about to be sent was read from  *)
(* the file the handle was opened on, unless that was renamed meanwhile.   *)
ReadsOwnFile ==
    \A h \in Handles :
      pc[h] = "send" /\ <<file[h], "renamed">> \notin spoiled => buf[h].file = file[h]

(* What flush promises: "data goes to the server".  When every handle has  *)
(* been released, the server holds the last version of every file, except  *)
(* of those that one of the five Reasons has spoiled.                      *)
ServerCatchesUp ==
    (\A h \in Handles : pc[h] = "unused") =>
        \A p \in Paths :
          local[p] # None /\ Sound(local[p]) => server[p] = data[local[p]]

=============================================================================
