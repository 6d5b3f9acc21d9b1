----------------------------- MODULE WowServer -----------------------------
(***************************************************************************)
(* The file server of wowFS: the gRPC service WowFSServiceImpl of          *)
(* src/wowRPC/WowRPCServer.H and the start-up of src/wowRPC/server.cpp,    *)
(* over the POSIX directory /tmp/wowfs_remote.                             *)
(*                                                                         *)
(* The server runs one thread per RPC and keeps no state of its own: what  *)
(* it does is a sequence of system calls on one shared directory.  The     *)
(* model therefore has the directory (names to inodes, in memory and on    *)
(* disk), the contents of the inodes, and for every RPC that makes more    *)
(* than one system call a program counter and a descriptor.  Contents are  *)
(* sequences of stream chunks, each tagged by the Writeback that wrote it. *)
(***************************************************************************)
EXTENDS Integers, FiniteSets

CONSTANTS
    Paths,          \* paths users give to their files
    Names,          \* every name of the directory tree
    TmpOf,          \* path -> the name the code makes of it, path + ".wow"
    Inodes,
    Calls,          \* Writeback RPCs, each used once
    Readers,        \* threads that serve ReadFile
    MaxLen,         \* bound on the number of chunks of a file
    None,           \* no inode
    NoData,         \* nothing stored at this position
    Faults          \* what may go wrong in a run, a subset of FaultKinds

FaultKinds == {"overlap",   \* two Writebacks of one path at a time
               "break",     \* a client dies in the middle of its stream
               "short",     \* pwrite stores less than it was given
               "fsync",     \* fsync fails
               "rename",    \* the rename of the temporary file fails
               "open",      \* the temporary file cannot be opened
               "pwrite",    \* pwrite returns -1
               "crash",     \* the server process dies
               "power"}     \* the machine loses what is not on its disk

Pos == 1..MaxLen
TmpNames == {TmpOf[p] : p \in Paths}
Contents == [Pos -> Calls \cup {NoData}]
Blank == [k \in Pos |-> NoData]

ASSUME ConstantsAssumption ==
    /\ Paths \subseteq Names
    /\ TmpOf \in [Paths -> Names]
    /\ \A p, q \in Paths : TmpOf[p] = TmpOf[q] => p = q
    /\ \A p \in Paths : TmpOf[p] # p
    /\ MaxLen \in Nat
    /\ None \notin Inodes \cup Calls \cup {NoData}
    /\ NoData \notin Calls
    /\ Faults \subseteq FaultKinds

VARIABLES
    dir,        \* name -> inode, as every process sees it
    pdir,       \* name -> inode, as the disk has it
    data,       \* inode -> contents
    synced,     \* inode -> the disk has all of its contents
    up,         \* the server process is running
    crashOnWrite, \* its flag --withCrashOnWrite, the same at every start
    req,        \* Writeback -> the path and the number of chunks it carries
    pc,         \* Writeback -> where its handler is
    pos,        \* Writeback -> chunks received and handed to pwrite
    fd,         \* Writeback -> inode its outputFd is open on
    rfd,        \* ReadFile thread -> inode it has open
    rsize,      \* ReadFile thread -> bytes it was asked for
    got         \* ReadFile thread -> what it sent last

fsVars == <<dir, pdir, data, synced>>
callVars == <<crashOnWrite, req, pc, pos, fd>>
readVars == <<rfd, rsize, got>>
vars == <<dir, pdir, data, synced, up, crashOnWrite, req, pc, pos, fd,
          rfd, rsize, got>>

(* The first n chunks of what the client of c sends, and all of them. *)
Prefix(c, n) == [k \in Pos |-> IF k <= n THEN c ELSE NoData]
Version(c) == Prefix(c, req[c].len)

Running == {"reading", "ended", "synced"}
Ended == {"ok", "error", "lost"}
Active(c) == pc[c] \in Running
Tmp(c) == TmpOf[req[c].path]

Linked(i) == \E n \in Names : dir[n] = i \/ pdir[n] = i
Opened(i) == (\E c \in Calls : fd[c] = i) \/ (\E r \in Readers : rfd[r] = i)
Free(i) == ~Linked(i) /\ ~Opened(i)

Init ==
    /\ dir = [n \in Names |-> None]
    /\ pdir = [n \in Names |-> None]
    /\ data = [i \in Inodes |-> Blank]
    /\ synced = [i \in Inodes |-> TRUE]
    /\ up = TRUE
    /\ crashOnWrite \in BOOLEAN
    /\ req \in [Calls -> [path : Paths, len : 0..MaxLen]]
    /\ pc = [c \in Calls |-> "idle"]
    /\ pos = [c \in Calls |-> 0]
    /\ fd = [c \in Calls |-> None]
    /\ rfd = [r \in Readers |-> None]
    /\ rsize = [r \in Readers |-> 0]
    /\ got = [r \in Readers |-> Blank]

-----------------------------------------------------------------------------
(* Writeback.  The handler is entered, then for every message of the       *)
(* stream makes sure the temporary file is open and writes the chunk.      *)

StartWriteback(c) ==
    /\ up
    /\ pc[c] = "idle"
    /\ "overlap" \in Faults
         \/ \A d \in Calls : Active(d) => req[d].path # req[c].path
    /\ pc' = [pc EXCEPT ![c] = "reading"]
    /\ UNCHANGED <<fsVars, up, crashOnWrite, req, pos, fd, readVars>>

(* Mutant of OpenTmp: without O_TRUNC. *)
OpenTmpKeepsData(c) ==
    /\ pc[c] = "reading"
    /\ fd[c] = None
    /\ \E i \in Inodes :
         /\ IF dir[Tmp(c)] = None THEN Free(i) ELSE i = dir[Tmp(c)]
         /\ dir' = [dir EXCEPT ![Tmp(c)] = i]
         /\ data' = IF dir[Tmp(c)] = None THEN [data EXCEPT ![i] = Blank] ELSE data
         /\ fd' = [fd EXCEPT ![c] = i]
    /\ UNCHANGED <<pdir, synced, up, crashOnWrite, req, pc, pos, readVars>>

(* open(tmpPath, O_WRONLY | O_CREAT | O_TRUNC) on the first message. *)
OpenTmp(c) ==
    /\ pc[c] = "reading"
    /\ fd[c] = None
    /\ \E i \in Inodes :
         /\ IF dir[Tmp(c)] = None THEN Free(i) ELSE i = dir[Tmp(c)]
         /\ dir' = [dir EXCEPT ![Tmp(c)] = i]
         /\ data' = [data EXCEPT ![i] = Blank]
         /\ synced' = [synced EXCEPT ![i] = TRUE]
         /\ fd' = [fd EXCEPT ![c] = i]
    /\ UNCHANGED <<pdir, up, crashOnWrite, req, pc, pos, readVars>>

OpenTmpFails(c) ==
    /\ "open" \in Faults
    /\ pc[c] = "reading"
    /\ fd[c] = None
    /\ pc' = [pc EXCEPT ![c] = "error"]
    /\ UNCHANGED <<fsVars, up, crashOnWrite, req, pos, fd, readVars>>

(* Mutant of WriteChunk: the handler does not see the end of the stream. *)
WriteChunkPastEnd(c) ==
    /\ pc[c] = "reading"
    /\ fd[c] # None
    /\ pos' = [pos EXCEPT ![c] = @ + 1]
    /\ data' = [data EXCEPT ![fd[c]][pos[c] + 1] = c]
    /\ synced' = [synced EXCEPT ![fd[c]] = FALSE]
    /\ UNCHANGED <<dir, pdir, up, crashOnWrite, req, pc, fd, readVars>>

(* pwrite of the chunk at its own offset. *)
WriteChunk(c) ==
    /\ pc[c] = "reading"
    /\ fd[c] # None
    /\ pos[c] < req[c].len
    /\ pos' = [pos EXCEPT ![c] = @ + 1]
    /\ data' = [data EXCEPT ![fd[c]][pos[c] + 1] = c]
    /\ synced' = [synced EXCEPT ![fd[c]] = FALSE]
    /\ UNCHANGED <<dir, pdir, up, crashOnWrite, req, pc, fd, readVars>>

(* A pwrite that stores only part of the chunk: it returns no -1, so the   *)
(* handler goes on with the next message, which has its own offset.        *)
ShortWrite(c) ==
    /\ "short" \in Faults
    /\ pc[c] = "reading"
    /\ fd[c] # None
    /\ pos[c] < req[c].len
    /\ pos' = [pos EXCEPT ![c] = @ + 1]
    /\ UNCHANGED <<fsVars, up, crashOnWrite, req, pc, fd, readVars>>

(* pwrite returns -1: the handler returns without close and without        *)
(* removing the temporary file.                                            *)
WriteFails(c) ==
    /\ "pwrite" \in Faults
    /\ pc[c] = "reading"
    /\ fd[c] # None
    /\ pc' = [pc EXCEPT ![c] = "error"]
    /\ UNCHANGED <<fsVars, up, crashOnWrite, req, pos, fd, readVars>>

(* Mutant of EndOfStream: the end of the stream is not recognised. *)
EndOfStreamMissed(c) ==
    /\ pc[c] = "reading"
    /\ fd[c] # None
    /\ pos[c] > req[c].len
    /\ pc' = [pc EXCEPT ![c] = "ended"]
    /\ UNCHANGED <<fsVars, up, crashOnWrite, req, pos, fd, readVars>>

(* Read returns false: the client called WritesDone after its last chunk.  *)
EndOfStream(c) ==
    /\ pc[c] = "reading"
    /\ fd[c] # None
    /\ pos[c] = req[c].len
    /\ pc' = [pc EXCEPT ![c] = "ended"]
    /\ UNCHANGED <<fsVars, up, crashOnWrite, req, pos, fd, readVars>>

(* Read returns false as well when the connection is gone, here after at   *)
(* least one message: the handler takes the same path.                     *)
BreakStream(c) ==
    /\ "break" \in Faults
    /\ pc[c] = "reading"
    /\ fd[c] # None
    /\ pos[c] \in 1..(req[c].len - 1)
    /\ pc' = [pc EXCEPT ![c] = "ended"]
    /\ UNCHANGED <<fsVars, up, crashOnWrite, req, pos, fd, readVars>>

(* The connection is gone before the first message: outputFd is -1, both   *)
(* paths are empty strings, and rename("", "") fails unnoticed.            *)
BreakBeforeFirst(c) ==
    /\ "break" \in Faults
    /\ ~crashOnWrite
    /\ pc[c] = "reading"
    /\ fd[c] = None
    /\ pc' = [pc EXCEPT ![c] = "lost"]
    /\ UNCHANGED <<fsVars, up, crashOnWrite, req, pos, fd, readVars>>

(* Mutant of FsyncClose: without fsync. *)
CloseOnly(c) ==
    /\ pc[c] = "ended"
    /\ fd' = [fd EXCEPT ![c] = None]
    /\ pc' = [pc EXCEPT ![c] = "synced"]
    /\ UNCHANGED <<fsVars, up, crashOnWrite, req, pos, readVars>>

(* fsync and close, the result of fsync being ignored. *)
FsyncClose(c) ==
    /\ pc[c] = "ended"
    /\ synced' = [synced EXCEPT ![fd[c]] = TRUE]
    /\ fd' = [fd EXCEPT ![c] = None]
    /\ pc' = [pc EXCEPT ![c] = "synced"]
    /\ UNCHANGED <<dir, pdir, data, up, crashOnWrite, req, pos, readVars>>

FsyncFails(c) ==
    /\ "fsync" \in Faults
    /\ pc[c] = "ended"
    /\ fd' = [fd EXCEPT ![c] = None]
    /\ pc' = [pc EXCEPT ![c] = "synced"]
    /\ UNCHANGED <<fsVars, up, crashOnWrite, req, pos, readVars>>

(* What rename(2) makes of the directory: names of one inode stay. *)
Moved(d, from, to) ==
    IF d[from] = d[to] THEN d
    ELSE [d EXCEPT ![to] = d[from], ![from] = None]

(* Mutants of RenameFinal: a link in place of the rename, which leaves the *)
(* temporary name, and a rename skipped where the file exists.             *)
LinkFinal(c) ==
    /\ ~crashOnWrite
    /\ pc[c] = "synced"
    /\ dir' = [dir EXCEPT ![req[c].path] = dir[Tmp(c)]]
    /\ pc' = [pc EXCEPT ![c] = "ok"]
    /\ UNCHANGED <<pdir, data, synced, up, crashOnWrite, req, pos, fd, readVars>>

RenameIfAbsent(c) ==
    /\ ~crashOnWrite
    /\ pc[c] = "synced"
    /\ dir' = IF dir[Tmp(c)] = None \/ dir[req[c].path] # None THEN dir
              ELSE Moved(dir, Tmp(c), req[c].path)
    /\ pc' = [pc EXCEPT ![c] = "ok"]
    /\ UNCHANGED <<pdir, data, synced, up, crashOnWrite, req, pos, fd, readVars>>

(* Mutant of RenameFinal: the test of withCrashOnWrite comes too late. *)
RenameBeforeCrash(c) ==
    /\ pc[c] = "synced"
    /\ dir' = IF dir[Tmp(c)] = None THEN dir
              ELSE Moved(dir, Tmp(c), req[c].path)
    /\ pc' = [pc EXCEPT ![c] = "ok"]
    /\ UNCHANGED <<pdir, data, synced, up, crashOnWrite, req, pos, fd, readVars>>

(* rename(tmpPath, finalPath) and the reply, which says ok either way. *)
RenameFinal(c) ==
    /\ ~crashOnWrite
    /\ pc[c] = "synced"
    /\ dir' = IF dir[Tmp(c)] = None THEN dir
              ELSE Moved(dir, Tmp(c), req[c].path)
    /\ pc' = [pc EXCEPT ![c] = "ok"]
    /\ UNCHANGED <<pdir, data, synced, up, crashOnWrite, req, pos, fd, readVars>>

RenameFails(c) ==
    /\ "rename" \in Faults
    /\ ~crashOnWrite
    /\ pc[c] = "synced"
    /\ pc' = [pc EXCEPT ![c] = "ok"]
    /\ UNCHANGED <<fsVars, up, crashOnWrite, req, pos, fd, readVars>>

-----------------------------------------------------------------------------
(* The RPCs that make one system call on the directory. *)

(* open with O_CREAT: Open adds it, Create has it from its client.  An     *)
(* absent file is created.                                                 *)
CreateFile(p) ==
    /\ up
    /\ dir[p] = None
    /\ \E i \in Inodes :
         /\ Free(i)
         /\ dir' = [dir EXCEPT ![p] = i]
         /\ data' = [data EXCEPT ![i] = Blank]
         /\ synced' = [synced EXCEPT ![i] = TRUE]
    /\ UNCHANGED <<pdir, up, callVars, readVars>>

(* The same with O_TRUNC in the client's flags, on an existing file. *)
TruncateFile(p) ==
    /\ up
    /\ dir[p] # None
    /\ data' = [data EXCEPT ![dir[p]] = Blank]
    /\ synced' = [synced EXCEPT ![dir[p]] = TRUE]
    /\ UNCHANGED <<dir, pdir, up, callVars, readVars>>

Unlink(p) ==
    /\ up
    /\ dir[p] # None
    /\ dir' = [dir EXCEPT ![p] = None]
    /\ UNCHANGED <<pdir, data, synced, up, callVars, readVars>>

Rename(p, q) ==
    /\ up
    /\ dir[p] # None
    /\ dir' = Moved(dir, p, q)
    /\ UNCHANGED <<pdir, data, synced, up, callVars, readVars>>

Link(p, q) ==
    /\ up
    /\ dir[p] # None
    /\ dir[q] = None
    /\ dir' = [dir EXCEPT ![q] = dir[p]]
    /\ UNCHANGED <<pdir, data, synced, up, callVars, readVars>>

-----------------------------------------------------------------------------
(* ReadFile: open, then pread of the size the client learnt from an        *)
(* earlier DownloadStat, whatever the file is by now.                      *)

FirstOf(d, n) == [k \in Pos |-> IF k <= n THEN d[k] ELSE NoData]

ReadOpen(r, p, n) ==
    /\ up
    /\ rfd[r] = None
    /\ dir[p] # None
    /\ rfd' = [rfd EXCEPT ![r] = dir[p]]
    /\ rsize' = [rsize EXCEPT ![r] = n]
    /\ UNCHANGED <<fsVars, up, callVars, got>>

ReadPread(r) ==
    /\ rfd[r] # None
    /\ got' = [got EXCEPT ![r] = FirstOf(data[rfd[r]], rsize[r])]
    /\ rfd' = [rfd EXCEPT ![r] = None]
    /\ rsize' = [rsize EXCEPT ![r] = 0]
    /\ UNCHANGED <<fsVars, up, callVars>>

-----------------------------------------------------------------------------
(* The process and the machine. *)

(* Every handler ends without a reply and every descriptor is closed. *)
ProcessEnds ==
    /\ up' = FALSE
    /\ pc' = [c \in Calls |-> IF Active(c) THEN "lost" ELSE pc[c]]
    /\ fd' = [c \in Calls |-> None]
    /\ rfd' = [r \in Readers |-> None]
    /\ rsize' = [r \in Readers |-> 0]
    /\ UNCHANGED <<crashOnWrite, req, pos, got>>

Crash ==
    /\ "crash" \in Faults
    /\ up
    /\ ProcessEnds
    /\ UNCHANGED fsVars

(* std::terminate between close and rename. *)
TerminateOnWrite(c) ==
    /\ crashOnWrite
    /\ pc[c] = "synced" \/ ("break" \in Faults /\ pc[c] = "reading" /\ fd[c] = None)
    /\ ProcessEnds
    /\ UNCHANGED fsVars

(* The directory falls back to what the disk has, and a file that was not  *)
(* synced keeps any part of its contents.                                  *)
PowerLoss ==
    /\ "power" \in Faults
    /\ ProcessEnds
    /\ dir' = pdir
    /\ \E torn \in SUBSET {x \in Inodes \X Pos : ~synced[x[1]]} :
         data' = [i \in Inodes |-> [k \in Pos |->
                    IF <<i, k>> \in torn THEN NoData ELSE data[i][k]]]
    /\ synced' = [i \in Inodes |-> TRUE]
    /\ UNCHANGED pdir

(* Mutant of Restart: nothing is cleaned. *)
RestartOnly ==
    /\ ~up
    /\ up' = TRUE
    /\ UNCHANGED <<fsVars, callVars, readVars>>

(* main: CleanTmpFiles removes every name that ends in ".wow", then the    *)
(* server accepts calls.                                                   *)
Restart ==
    /\ ~up
    /\ up' = TRUE
    /\ dir' = [n \in Names |-> IF n \in TmpNames THEN None ELSE dir[n]]
    /\ UNCHANGED <<pdir, data, synced, callVars, readVars>>

(* The file system commits its journal whenever it likes. *)
SyncDir ==
    /\ "power" \in Faults
    /\ pdir # dir
    /\ pdir' = dir
    /\ UNCHANGED <<dir, data, synced, up, callVars, readVars>>

HandlerStep(c) ==
    \/ OpenTmp(c) \/ WriteChunk(c) \/ EndOfStream(c)
    \/ FsyncClose(c) \/ RenameFinal(c) \/ TerminateOnWrite(c)

HandlerFault(c) ==
    \/ OpenTmpFails(c) \/ ShortWrite(c) \/ WriteFails(c)
    \/ BreakStream(c) \/ BreakBeforeFirst(c) \/ FsyncFails(c) \/ RenameFails(c)

PathOp(p) ==
    \/ CreateFile(p) \/ TruncateFile(p) \/ Unlink(p)
    \/ \E q \in Paths : Rename(p, q) \/ Link(p, q)
    \/ \E r \in Readers, n \in 0..MaxLen : ReadOpen(r, p, n)

Next ==
    \/ \E c \in Calls : StartWriteback(c) \/ HandlerStep(c) \/ HandlerFault(c)
    \/ \E p \in Paths : PathOp(p)
    \/ \E r \in Readers : ReadPread(r)
    \/ Crash \/ PowerLoss \/ Restart \/ SyncDir

Spec == Init /\ [][Next]_vars

(* The scheduler runs every handler, and an operator restarts the server.  *)
Fairness ==
    /\ \A c \in Calls : WF_vars(HandlerStep(c))
    /\ \A r \in Readers : WF_vars(ReadPread(r))
    /\ WF_vars(Restart)

FairSpec == Spec /\ Fairness

-----------------------------------------------------------------------------
(* Properties. *)

(* The state of the server is of the shape the code gives it: a running    *)
(* handler needs a running process, a stopped process has nothing open,    *)
(* and every name is bound to at most one inode.                           *)
TypeOK ==
    /\ dir \in [Names -> Inodes \cup {None}]
    /\ pdir \in [Names -> Inodes \cup {None}]
    /\ data \in [Inodes -> Contents]
    /\ synced \in [Inodes -> BOOLEAN]
    /\ up \in BOOLEAN
    /\ crashOnWrite \in BOOLEAN
    /\ req \in [Calls -> [path : Paths, len : 0..MaxLen]]
    /\ pc \in [Calls -> {"idle"} \cup Running \cup Ended]
    /\ pos \in [Calls -> 0..MaxLen]
    /\ fd \in [Calls -> Inodes \cup {None}]
    /\ rfd \in [Readers -> Inodes \cup {None}]
    /\ rsize \in [Readers -> 0..MaxLen]
    /\ got \in [Readers -> Contents]
    /\ ~up => /\ \A c \in Calls : ~Active(c) /\ fd[c] = None
              /\ \A r \in Readers : rfd[r] = None

(* The contents of a file that no Writeback was cut off in the middle of:  *)
(* empty, or everything some answered Writeback sent.                      *)
Whole(d) == d = Blank \/ \E c \in Calls : pc[c] = "ok" /\ d = Version(c)

(* "wowFS only guarantees that file is not corrupted on server" (test 5):  *)
(* whatever Writebacks are under way, and after a crash or a power loss    *)
(* between any two of their steps, a user's path names an empty file or    *)
(* one that holds exactly what one completed Writeback sent.               *)
FinalWhole == \A p \in Paths : dir[p] # None => Whole(data[dir[p]])

(* A ReadFile that is overtaken by Writebacks, renames and deletions sends *)
(* the beginning of one version of the file, never parts of two.           *)
ReadsOneVersion ==
    \A r \in Readers :
        got[r] = Blank \/ \E c \in Calls : \E n \in 0..req[c].len :
                             got[r] = Prefix(c, n)

(* A weaker promise for the failures the handler does not notice (a broken *)
(* stream, a short write, a failed fsync): a file may miss chunks, but     *)
(* never mixes the chunks of two Writebacks.                               *)
FinalUnmixed ==
    \A p \in Paths : dir[p] # None =>
        \A j, k \in Pos : \/ data[dir[p]][j] = data[dir[p]][k]
                          \/ NoData \in {data[dir[p]][j], data[dir[p]][k]}

(* A running server has temporary files only of the Writebacks in flight:  *)
(* those of a crashed server are gone before it takes the next call, and a *)
(* completed Writeback leaves none.                                        *)
TmpOwned ==
    up => \A t \in TmpNames : dir[t] # None =>
            \E c \in Calls : Active(c) /\ Tmp(c) = t

(* With --withCrashOnWrite the server dies before every rename: after its  *)
(* reboot other clients see an empty file (test 5), never the write.       *)
CrashLosesWrite ==
    crashOnWrite => \A p \in Paths : dir[p] # None => data[dir[p]] = Blank

(* A Writeback is answered ok only in a step that makes its path name the  *)
(* whole of what it sent.                                                  *)
AckedCommitted ==
    [][\A c \in Calls : pc[c] # "ok" /\ pc'[c] = "ok" =>
         /\ dir'[req[c].path] # None
         /\ data'[dir'[req[c].path]] = Version(c)]_vars

(* Every Writeback that is taken up is answered, or cut off by a crash:    *)
(* no failure leaves a handler waiting.                                    *)
EveryCallEnds == \A c \in Calls : Active(c) ~> pc[c] \in Ended

(* What the names show of the contents: the Writeback that wrote a file,   *)
(* NoData for an empty one, and otherwise the contents as they are.        *)
Shown(d, n) ==
    IF d[n] = None THEN None
    ELSE IF data[d[n]] = Blank THEN NoData
    ELSE IF \E c \in Calls : data[d[n]] = Version(c)
         THEN CHOOSE c \in Calls : data[d[n]] = Version(c)
    ELSE data[d[n]]

Abstract == INSTANCE AtomicFiles WITH
    Absent <- None,
    Empty <- NoData,
    file <- [p \in Paths |-> Shown(dir, p)],
    disk <- [p \in Paths |-> Shown(pdir, p)],
    done <- {c \in Calls : pc[c] = "ok"},
    target <- [c \in Calls |-> req[c].path],
    value <- [c \in Calls |-> IF req[c].len = 0 THEN NoData ELSE c]

(* The server implements a store of whole files: every call takes effect   *)
(* at once or not at all, and a crash of the process changes no file.      *)
AtomicStore == Abstract!Spec

=============================================================================
