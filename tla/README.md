# wowFS in TLA+

wowFS (`src/README.md`) is a remote file system: every client machine runs a FUSE
file system that keeps whole copies of files under `/tmp/wowfs_local`, and one
gRPC server keeps the files under `/tmp/wowfs_remote`. A file is fetched when it
is opened and sent back when it is closed. This directory holds a model of it in
TLA+, the configurations that TLC checks, and proofs for TLAPS.

## 1. Inventory

| Part | State | Operations | Works with |
|---|---|---|---|
| File server: `wowRPC/WowRPCServer.H`, `wowRPC/server.cpp` | the directory tree and file contents; per RPC a descriptor and a position | `Writeback` (stream into `<path>.wow`, fsync, rename), `ReadFile`, `Open`, `Create`, `Unlink`, `Rename`, `Link`, `Mkdir`, `Rmdir`, `Symlink`, `DownloadStat`, `ReadDir`, `GetXAttr`, `Access`; `CleanTmpFiles` at start-up | one thread per RPC; called by every client |
| RPC client: `wowRPC/WowRPCClient.C` | none | one stub per RPC; cuts a file into 1 MB messages; a failing RPC is `ret_ = -1` | server, FUSE handlers |
| Cache manager: `wowUtils/WowCache.H` | `fdToMeta_` (path and `isDirty` of every open descriptor), `filepathToFreq_` | `registerFileOpen`, `registerFileDirty`, `registerFileClose`, `isFileDirty`, `readFile`, `saveToCache`, `deleteFromCache`, `rename` | FUSE handlers; each map operation holds `mapMutex_`, two of them do not |
| WowManager: `unreliablefs/unreliablefs.h` | none | `shouldFetch` (which copy is newer), `writebackToServer` | cache manager, RPC client |
| FUSE handlers: `unreliablefs/unreliablefs_ops.c` | the handle's descriptor, kernel tables | `open`, `create`, `write`, `truncate`, `flush`, `release`, `unlink`, `rename` of files; `mkdir`, `rmdir`, `link`, ... of names | libfuse calls them on several threads (`unreliablefs.c:185`) |
| Write-back reordering: `WowWritebackReorderManager.H` | list of pending flushes and closes | `addNewWriteback`, `onFileOp`, `popOne` (every second), destructor | flush, release and open under error injection |
| Local write reordering: `WowLocalWriteReorder.H` | queue of delayed writes | `RecordWrite`, `Shuffle`, replay in flush | write and flush under error injection |
| Error injection: `unreliablefs_errinj.c` | configuration, random numbers | `error_inject` | every FUSE handler |
| WowConcert: `wowAB/WowConcert.H` | per participant a place in the protocol; UDP messages | orchestrator rounds, writers A and B, sink | drives two clients and observes the server |
| Configuration reader: `conf.c`; errno tables | section and option of the line before | `ini_parse`, `op_random_errno` | error injection |
| Logger, `FHLookup.H` (unused), workloads, scripts | | | not part of the model |

What is hard, and what makes each part correct:

* **Server.** Handlers interleave system call by system call, the process may die
  between any two of them, and the machine may lose what is not on disk. Correct
  means: a path never names a file that nobody sent in full, a read never mixes
  versions, ok means done, temporary files do not pile up.
* **Cache manager and handlers.** Descriptor numbers are reused at once by the
  kernel; a handler makes several map operations and system calls. Correct means:
  the maps stand for the descriptors that are open, a write-back sends the file
  it is for, and what was closed reaches the server.
* **Sessions of several clients.** Stat, download, save and open are separate
  steps, freshness is decided by time stamps, release comes after close.
  Correct means: an open finds what the last close left, and a close sends what
  its session wrote.
* **Reordering, error injection, WowConcert.** Background thread and handlers on
  one list; replay through old descriptors; lost and repeated UDP messages.

The full list of places where something can go wrong is under `hazards` in
`PROJECT.json`, each at its line with the properties that watch it.

## 2. Modules

| Module | Models |
|---|---|
| `AtomicFiles` | what the server promises: files replaced as wholes |
| `WowServer` | the server, one step per system call |
| `WowServerInv` | its inductive invariant |
| `WowServerProofs` | proofs: invariant and whole files; the refinement of `AtomicFiles`; what is left under unnoticed failures |
| `WowCache`, `WowCacheProofs` | one client: handlers, descriptors and maps, on several threads |
| `WowSession`, `WowSessionProofs` | several clients, one file: freshness and close-to-open |
| `WowReorder`, `WowReorderProofs` | delayed write-backs: handlers, watchdog, `onFileOp`, destructor |
| `WowLocalReorder`, `WowLocalReorderProofs` | delayed local writes and their replay in flush |
| `ErrInject`, `ErrInjectProofs` | configuration file, parser, and `error_inject` on several threads |
| `WowNamespace`, `WowNamespaceProofs` | names: on the server and then locally, failing in between |
| `WowConcert`, `WowConcertProofs` | orchestrator, writers and sink over UDP |
| `MC...` | instances for TLC |

The modules stack by abstraction. `WowServer` implements `AtomicFiles`
(`AtomicStore`; proved), and every client module uses a server that is such a store,
one step per RPC. `WowCache` looks at one client and all that its maps can do wrong
with current copies; `WowSession` takes the maps to be right and looks at the age of
copies on several clients; `WowReorder` puts maps, descriptors, copies, RPCs and the
list of delayed operations together for one client. `ErrInject` decides what is
injected, `WowReorder` and `WowLocalReorder` say what the handlers then do.
`WowConcert` uses close, release and reads of one file as `WowSession` has them.

### WowServer

A *name* is bound to an inode, an inode holds a sequence of chunks, and every
chunk is tagged with the Writeback that sent it, which is all that "mixed" and
"whole" depend on. `dir` and `data` are what processes see; `pdir` and `synced`
are what a power loss leaves. A Writeback goes
`idle -> reading -> ended -> synced -> ok`, one step per system call:
`OpenTmp`, `WriteChunk`, `EndOfStream`, `FsyncClose`, `RenameFinal`; it may end
in `error` (the handler noticed) or `lost` (the process died, or the stream broke
before its first message). `ReadFile` is `ReadOpen` and `ReadPread`; the other
RPCs are one system call and one action. `Restart` is `CleanTmpFiles` and the
start of the service, which takes no call before. `crashOnWrite` is the flag
`--withCrashOnWrite`, chosen once: a server that has it dies in place of the
rename (`TerminateOnWrite`).

`Faults` says what may go wrong in a run. Failures the handler notices (`open`,
`pwrite`), those it takes for success (`break`, `short`, `fsync`, `rename`),
`crash`, `power`, and `overlap`: two Writebacks of one path at a time.

Simplifications: a chunk is written by one `pwrite` or not at all; the journal
commits the directory as a whole and truncation with it; an inode that was not
synced may lose any of its chunks; the rename and the reply are one step (nothing
is changed between them); directories, modes and sizes are left out, and a client
that sends an empty file sends one empty message.

### WowCache

One client. `open` is the kernel's descriptor table, `meta` and `freq` are the
two maps, `pc` says where the handler of a FUSE file info is. Every map
operation (they hold `mapMutex_`) and every system call is a step. `Threads` bounds
the handlers that run at a time. libfuse itself is modelled from how it calls the
handlers: it does not rename a path that a handler is using, hides an open file
instead of unlinking it, and calls release after the last flush. Contents are
version numbers. RPCs other than Writeback succeed, and `create` and its RPC are one
step.

The code loses or misplaces data in five situations, and the module names them
instead of excluding them: `spoiled` collects, per file, that it was *renamed* while
open, *truncated* by path, that the RPC of its release *failed*, that its
descriptor was given out again before its close was registered (*reused*), or that
an older copy was sent after a newer one (*overtaken*). Each property says from
which of them it is exempt, and from no other; the last column of the second table
in section 3 tells what goes wrong in each.

### WowSession

Several clients, one file. A content is the set of writes in it; `Torn` is in a
content of which a part is missing. Of the time stamps the code only asks whether
the local copy is at least as new as the server's file, so the model keeps the
set `current` of clients for which this is so: changing a local copy makes it
current, changing the server's file makes all copies old, except under `tick`
those that were changed in the same clock tick. Clocks agree. The local `stat`
in `shouldFetch` is part of the step in which the server answers, since the
handler does nothing in between; unlink is one step. Without `late` the second
write-back of release follows the first at once and changes nothing, so it has no
step.

`saveToCache` may fail before it has truncated the copy (`SaveFails`), or save a
part of the download, since the result of `fwrite` is not looked at (`SaveShort`);
either way the open goes on with what is there. A copy that cannot be read back is
not sent, and flush succeeds (`ReadBackFails`).

History variables: `latest` and `may` record what an open may find; `overwritten`
has the handles whose unsent write another open of the same client replaced.
`quiet` is lost by these steps and by no other: the server's file changes while
another handler is between its stat and the end of its save (`Overtakes`); the copy
is opened while it is being filled (`OpensUnfilled`); release sends what is not on the
server any more (`SendsAgain`); the server's file gets the time stamp of a copy that
differs (`Coincides`); a call fails that is a stat, or leaves less than the file in
the copy, or has an older copy opened, or ends a session whose copy was not sent
(`FaultDisturbs`); a file is unlinked of which another client has a copy
(`UnlinkDisturbs`). Handlers that overlap otherwise, late releases, equal times and
all other failures leave it alone. `tears` records why a file may be torn: it was
downloaded with an old *length*, read back while it was being saved (*overlap*), or
saved in part (*short*). `FreshOpen` speaks of behaviours that are quiet so far,
`ServerWhole` and `CloseSendsOwnWrite` of all, with `tears` and `overwritten` as their
only exceptions.

### WowReorder

The configuration is that of `scripts/setupFS.sh:26-30`: the injection is triggered
on every flush, release and open. `flush` and `release` append to `pendingOps`;
`DogPop` is the watchdog, which takes one operation a second; `OnFileOp`
is what `open` does first: it takes all operations of its path; `Exit`, `Join`
and `DestructorEnds` are the destructor. Whoever works holds `lock`
(`listMutex_`) and applies `work` one system or remote call per step, with the
handlers that need no lock in between. Sessions of one path follow each other, but
the release of one may come after the open of the next. A path is in `spoiled`
when something happens to it that the list knows nothing of: unlink, rename, an RPC
that fails, a descriptor used again while an operation of the old one is pending.

### WowLocalReorder

`queue` is `WRITE_QUEUE`, never cleared by the code although the comment at
`unreliablefs_ops.c:619-620` says that it is going to be empty: every flush replays
all of it, through descriptors that may have been given to another file. A file is
a set of blocks with the number of their last write. `Kill` is the kill phrase, whose
replay ends the client. Handlers run one at a time.

The queue keeps a payload as `std::string(buf)` and writes `op.size` bytes of it. For
a payload with a NUL (`NulWrites`) that is its start and then other bytes: `Copy` makes
value *-n* of write *n*, and `Number` is the write that a value comes from. A payload
without one is copied past its end, which does no harm to the bytes that are written
(a read that hits an unmapped page would end the client, and is left out).

A write-back (`writebackToServer`, `Outcomes`) is sent; or its RPC *fails*, or only
its *answer is lost*, and the handler returns -1: a session whose flush fails is
`failed` and goes on to release, a release that fails leaks the descriptor
(`ReleaseFails`), which the queue may still write to; or the file is *not read*, which
no one is told. `unsent` has the files of which a crash or an unreadable copy has kept
something here, `Leaked` the descriptors that were leaked: `ClosedIsSent` and
`FlushSends` except these two, and nothing else.

### ErrInject

The configuration file is a sequence of lines, the parser a fold over them
(`ini_parse`). `Wanted` says by the lines what a file asks for: `MCErrInject` compares
the two on all files of up to four lines, and `ParserReads` proves them equal for every
file. That includes indented lines (a continuation of the option before, whatever they
look like, unless nothing is there to continue) and options without a name, which
end what an indented line could continue. A handler goes
`called -> (walk ->) unlock -> injected` and then acts; for the configuration file
itself the list is read again under the mutex before the handler acts. `rand_range`
is a choice among 0, 50 and 100, and reads one element past the array. The file is
edited through a handle, by renames onto it and away, by unlink, and by truncation by
path, which does not read it again.

`Asked` is what the manual says of the configuration: faults of the entries whose
probability is above 0, errnos of the array, and certainly one if a probability is 100.
`Beyond` has the two ways in which the code goes beyond it, an entry of probability 0
that is triggered and an errno from behind the array. `FaultsAreConfigured` allows
both and nothing more; the manual's sentences themselves, `ZeroIsNever` and
`HundredIsAlways`, fail when TLC is given them (section 3). One of the files of the run has an
entry of probability 0.

### WowNamespace

A tree maps paths to `Dir` or the identity of a file. A handler goes
`server -> local`: the RPC, then the system call on the client's own tree, which has
only what the client made or opened: `open` of a file that is not there makes the
directories above it first, and terminates the client when one of their names is
taken by a file. One of these handlers at a time runs per client.

The second step fails by the shape of the client's tree, or for any other reason
(`LocalFails`: no space, no right, a disk error): after the server has done it, a
system call's error is the answer, and an exception of `std::filesystem` ends the
client. Opens fail in the same ways (`FetchFails`).

A file that is sent back is renamed over its path, so it is a *new* file on the server,
and the other links there keep the old one (`Writeback`); one that the server has lost
meanwhile comes back; and `open` with `O_CREAT` makes a file on the server
(`OpenCreates`). Which file a name has is seen by sharing only: a write-back over a
name that no other name shares changes nothing here, and has no step. A fetched copy of
a file that links share is a file of its own (`CopyOf`). A symbolic link is a file like
others.

`apart` records the top directories in which a client may see something else than its
own tree, and why: another client works there; an RPC failed half-way; the second step
failed, by itself or because `symlink` ignored the server's refusal; or a write-back cut
a name off its links or brought a file back. Outside of them the trees agree and a
failed call changed nothing. Inside, as the actions show: `rename` of a file that is
not in the cache throws after the server has done it, and the client terminates;
`mkdir`, `rmdir` and `create` fail locally after the server has done them; a failed
RPC makes the handler return +1; after create a, link a b, a write-back of a and
rename a b the server has b only, while the client, whose names are one file, has both.

### WowConcert

Messages are records in the set `net`; one that is delivered leaves it, a lost one
too, and a registration or an acknowledgement may stay for a second delivery. Each
of the programs takes a message from its socket and acts on it or ignores it,
as `WowConcert.H` does. `server` is the round whose content the file has. close
sends in `Close`; release reads and sends later (`ReleaseRead`, `ReleaseSend`),
but before its client opens the file again, which the 50 ms sleep of the sink makes
so in practice.

## 3. Runs

Passing runs:

| Run | Question and answer |
|---|---|
| `Server_crash` | Two Writebacks of up to two chunks on two paths, one reader, links, renames, deletions, truncations, noticed failures and crashes with restart: `FinalWhole`, `ReadsOneVersion`, `AckedCommitted` hold. |
| `Server_power` | Two paths and power losses: `IInv`, the invariant of the proofs, and `TmpOwned` hold, and the server implements `AtomicFiles` (`AtomicStore`); names and inodes are mapped to the Writeback whose contents they show. |
| `Server_faults` | With broken streams, short writes, failing fsync and rename files may be incomplete but are never mixed (`FinalUnmixed`); with `--withCrashOnWrite`, as in consistency test 5, files are empty after the reboot (`CrashLosesWrite`); whatever fails, a Writeback that was taken up ends (`EveryCallEnds`). |
| `Cache` | Two handlers at a time, renames, truncations, failing RPCs: maps and descriptors agree (`MapsMatch`), a write finds its entry (`DirtyFindsMeta`), a write-back reads its own file (`ReadsOwnFile`), and when all handles are released the server has every last version (`ServerCatchesUp`), but for what the five reasons exempt. |
| `Session` | Three sessions on two clients, everything may happen, with one failing RPC, disk error or unlink: a close sends its session's own write unless an open of the same client replaced it; an open finds what the last close left unless one of the named disturbances has happened; no torn file gets to the server but for the three causes in `tears`. |
| `Reorder` | Two sessions, two paths, unlink, rename, failing RPCs, exit at any time: a pending operation never loses its descriptor, an open finds what was closed before it, no content goes back, and the exit saves everything, but for spoiled paths. |
| `LocalReorder` | Three writes, one of them with a NUL, three opens, injection switched at will, one failing write-back: what is closed is on the server and flush sends what it has replayed, unless a crash, an unreadable copy or a leaked descriptor came between, and no write of a session is forgotten, also when its flush fails. |
| `ErrInject` | Two threads, five calls, edits of the file through the file system, renames onto it, unlinks, crashes: a saved configuration is in force, the faults are those the manual says it asks for but for the two exceptions in `Beyond`, nobody walks a deleted list. |
| `Namespace` | Two clients, four calls, opens and write-backs in two levels of names, one failing RPC or local step: outside of `apart` the client's tree is the server's (`OwnTreeAgrees`) and a call that fails has changed nothing (`ErrorsChangeNothing`). |
| `Concert` | Three rounds, one message lost, two delivered again: one message under way per participant, everybody in the same round, the sink reads its round, and the concert finishes unless a message was lost. |

Runs that show where the code does something else than the repository says (the
quotes are under `findings` in `PROJECT.json`):

| Run | What happens |
|---|---|
| `Server_overlap` | Two Writebacks of one path use the same temporary file: the file that is published has the first chunk of one and the second of the other (`FinalUnmixed`). |
| `Session_race` | A copy saved after another client's close counts as newer; it is never refreshed (`AlwaysFresh`). |

TLC finds more when a property is checked under other constants or without one of
its exemptions, or when one is checked that the modules state and say not to hold. They
are kept out of the regular runs:

| Change | Property that fails | What happens |
|---|---|---|
| `Server_crash`, `Faults = {"break"}` | `FinalWhole` | A client that dies mid-stream leaves the beginning of its file in place of the whole one. |
| `Cache`, exemption *reused* dropped | `DirtyFindsMeta`, `MapsMatch`, `ServerCatchesUp` | `close(fd)` comes before `registerFileClose(fd)`: the entry of the next owner of the number is removed, its writes are not registered and never sent. |
| `Cache`, exemption *renamed* dropped | `ReadsOwnFile`, `ServerCatchesUp` | A file renamed while open is written back from what has its old name, or not at all. |
| `Cache`, exemption *truncated* dropped | `ServerCatchesUp` | truncate by path changes the local copy only. |
| `Cache`, exemption *failed* dropped | `ServerCatchesUp` | A release whose RPC fails leaks descriptor and entry; nobody tries again. |
| `Cache`, exemption *overtaken* dropped | `ServerCatchesUp` | Of two handles of one file the older copy is sent last. |
| `Session_race`, `Modes = {"late"}`, `Threads = 1` | `AlwaysFresh` | release writes back again after close returned, over another client's close. |
| `Session_race`, `Modes = {"tick"}`, `Threads = 1` | `AlwaysFresh` | A copy with an equal time stamp counts as newer. |
| `Session_race`, `Modes = {"delete"}`, `Threads = 1` | `AlwaysFresh` | A file unlinked elsewhere is found in the cache (test 4 records this). |
| `Session_race`, `Modes = {"rpc"}`, `Threads = 1` | `AlwaysFresh` | A failing stat counts as a missing file, and the old copy is opened. |
| `Session`, `overwritten` dropped | `CloseSendsOwnWrite` | A second open on the same client overwrites unsent writes. |
| `Session`, `tears` dropped | `ServerWhole` | A copy saved in part, or read while it is being saved, is sent as the file. |
| `Session`, `FaultDisturbs` dropped | `FreshOpen` | `saveFile` fails, and the open goes on with the old copy. |
| `LocalReorder`, `unsent` or `Leaked` dropped | `ClosedIsSent`, `FlushSends` | The kill phrase, an unreadable copy, a release that leaks the descriptor of a delayed write. |
| `ErrInject`, invariant `ZeroIsNever` | `ZeroIsNever` | "Probability equal to 0 means that error injection will never happen" (`unreliablefs.conf.5:55`), but it does when 0 is drawn (`unreliablefs_errinj.c:188`). |
| `ErrInject`, invariant `HundredIsAlways` | `HundredIsAlways` | "Probability equal to 100 means that error injection will happen on each file operation" (`unreliablefs.conf.5:56`), but not if the element behind the array of errnos is 0 (`unreliablefs_errinj.c:26`). |
| `LocalReorder`, property `DelayedAsWritten` | `DelayedAsWritten` | A delayed write with a NUL in it is not in the file afterwards (`WowLocalWriteReorder.H:45`), although the application is to "think we performed the write" (`unreliablefs_ops.c:566`). |
| `Namespace`, `apart` not changed by `Puts` | `OwnTreeAgrees` | A write-back breaks hard links on the server, and a later rename between them differs. |
| `Namespace`, `apart` not changed by `LocalFails` | both properties | The server has done what the client's own system call refuses. |
| `Concert`, `Repeats` with any other kind | a safety property | Apart from registrations and acknowledgements, no message may come twice. |

With `Threads = 1` and no modes `AlwaysFresh` holds.

A user's file named `x.wow` is removed by `CleanTmpFiles`, and taken by a Writeback
of `x`; the instances and `Sound` assume that there is none.

**Bounds.** Server: two Writebacks are what it takes to mix or replace, and two
chunks what it takes to tear one (`Server_power` has one chunk, which a power loss
may take, so that two paths and the refinement fit; `Server_crash` has two paths and
two chunks, `Server_faults` one path); one reader overlaps both; the inodes are
enough for every path and temporary file plus one held open. Cache: two handles, two
descriptors and two handlers at a time make every reuse of a number; `MaxFreq`
bounds only what leaks can count up to. Session: two clients with three handles have
every kind of overlap, two writes let one overtake another, and one fault is one
RPC, disk error or unlink at any moment. Reorder: three pending operations are the flush and
release of one session and the flush of the next. LocalReorder: three opens give a
descriptor to a second file and back, three writes put one with a NUL between two
others, and one write-back fails at any place. ErrInject: five calls are open, write, flush
and release of the file with one handler beside them; the parser is compared on
4681 files.
Namespace: four calls are two directories, a file and what is done to it by another,
or create, link, write back and rename, which takes three files; one failure comes at
any place. Concert: three rounds, so that a message can be late by one or two.
No bound is part of the code but `MaxFd`, the size of a descriptor table.

`CHECK_DEADLOCK` is off where the system stops: in `Cache` leaked descriptors are
used up, in `Reorder` the client exits, in `ErrInject` and `Namespace` the calls
are, and in `Concert` the participants wait for ever once the orchestrator has returned.

Symmetry is used where the elements of a set are neither ordered nor named in a
definition: inodes, calls, readers, paths, files, handles of one client, threads,
blocks, names; runs that check liveness have none. `Session` has a `VIEW`: `latest`
and `may` are read by `FreshOpen` only, and only while `quiet` holds, so states that
differ in them after `quiet` is lost are one.

**Fairness.** `FairSpec` of `WowServer`: every handler that can take a step does,
`ReadPread` likewise, since gRPC runs a thread per call; and the server is restarted
after a crash, as test 5 does. A handler's next step includes the arrival of the
client's next message, for which `reader->Read` (`WowRPCServer.H:257`) waits without
a deadline. So `EveryCallEnds` assumes of clients that have begun a stream that they send
on, finish, or are cut off (a dead connection makes `Read` return false); a client that
keeps its stream open and silent keeps its handler for ever. It is not assumed that a
client begins a call, nor that a fault happens.
`WowConcert`: every program runs on and takes what is in its socket, and FUSE calls
release in the end. Nothing is assumed of the network: a message need never arrive, and
`Finishes` says "unless one is lost".

## 4. Proofs

The proofs are for every value of the constants that satisfies the assumptions named
in the modules (types, distinct model values) and, where the table says so, one more.

| Module | Theorem | Assumes | States |
|---|---|---|---|
| `WowServerProofs` | `TypeCorrect` | | `Spec => []TypeOK` |
| | `Invariant`, `FilesAreWhole`, `ReadsAreConsistent` | `Sound` | `IInv`, `FinalWhole`, `ReadsOneVersion` |
| | `AnswersAreHonest` | `Sound`, no failing rename | `AckedCommitted` |
| | `ImplementsAtomicFiles` | `Sound`, no failing rename | `Spec => AtomicStore` |
| | `LooseInvariant`, `FilesUnmixed`, `NothingWritten` | `Loose` | `UInv`, `FinalUnmixed`, `CrashLosesWrite` |
| | `NoLeftovers` | `Tidy` | `TmpOwned` |
| `WowCacheProofs` | `Invariant`, `TypeCorrect`, `DirtyKnown`, `MapsAgree`, `SendsOwnFile`, `NothingUnsent` | | `IInv`, `TypeOK`, `DirtyFindsMeta`, `MapsMatch`, `ReadsOwnFile`, `ServerCatchesUp` |
| `WowSessionProofs` | `Invariant`, `TypeCorrect`, `OwnWriteSent`, `WholeOnServer`, `OpensFresh` | | `SInv`, `TypeOK`, `CloseSendsOwnWrite`, `ServerWhole`, `FreshOpen` |
| `WowReorderProofs` | `Invariant`, `TypeCorrect`, `DescriptorsAreKept`, `OpenSeesWhatWasClosed`, `ExitSavesAll`, `NothingGoesBack` | | `IInv`, `TypeOK`, `KeepsDescriptor`, `OpenSeesClosed`, `SavedAtEnd`, `NeverBack` |
| `WowLocalReorderProofs` | `Invariant`, `TypeCorrect`, `CloseSends`, `FlushSendsFile`, `CloseKeeps` | | `IInv`, `TypeOK`, `ClosedIsSent`, `FlushSends`, `CloseKeepsWrites` |
| `ErrInjectProofs` | `ParserReads` | | `ini_parse(f) = Wanted(f)` for files of any length |
| | `Invariant`, `TypeCorrect`, `NobodyWalksDeleted`, `SavedIsInForce`, `OnlyConfiguredFaults` | | `EInv`, `TypeOK`, `WalksLiveList`, `SavedTakesEffect`, `FaultsAreConfigured` |
| `WowNamespaceProofs` | `Invariant`, `TypeCorrect`, `TreesAgree`, `ErrorsKeepAll` | | `IInv`, `TypeOK`, `OwnTreeAgrees`, `ErrorsChangeNothing` |
| `WowConcertProofs` | `Invariant`, `TypeCorrect`, `OneMessage`, `RoundsInStep`, `ReadsItsRound` | | the table of places, `TypeOK`, `OneOutstanding`, `InStep`, `SinkSeesRound` |

* `Sound`: no fault passes the handler unnoticed (no overlapping Writebacks of a
  path, no stream broken in the middle, no short write, no failing fsync) and no path is
  the temporary name of another. `Loose`: only the first and the last of these.
  `Tidy`: `Sound`, and neither pwrite nor rename fails. They are necessary:
  `Server_overlap` drops the first condition of `Loose`, and `FinalUnmixed` fails;
  each unnoticed failure breaks `FinalWhole`; a failing pwrite or rename leaves a
  temporary file behind.

**The server.** `FinalWhole` is not inductive. What a rename publishes is the inode
under the temporary name, so the invariant has to say that a handler's descriptor is that
inode and holds what the stream has brought so far (`HandlerInStep`), that no
other Writeback writes to it (`OneWriter`), that no path and no reader has it
before the rename (`TmpApart`), and the same of the directory a power loss brings
back (`DiskApart`, `FilesWhole`). The proof has a lemma per action, and
`InvNext` collects them. `AnswersAreHonest` follows, by the lemma `AckIsCommit`,
from `HandlerInStep` at the state before the rename. The refinement rests on the same
invariant: every step but one leaves what the paths show (`FilesKept`), because
temporary inodes are under no path, `RenameFinal` is `Put`, and a power loss leaves
synced inodes as they are. With unnoticed failures a temporary file holds only
*some* chunks of its own call, which is what `WritersInStep` of `UInv` keeps.

**The cache.** The maps are right only up to the five reasons, so each part of `IInv`
carries its exemption: `EntriesOwn` (an open handle's entry has its path),
`Exact` (between the steps of open and close, which descriptors have an entry),
`Counted`, `BufferOwn`, and `CatchesUp`: a file that the server does not have is
saved by some handle that will still send it. `DescriptorsApart` needs no exemption
and carries the rest.

**Sessions.** `OwnWrites` holds in all behaviours: a write stays in the copy of its
client and in what is sent. `Whole` holds in all of them too: while `tears` is empty no
copy, download or buffer that can get to the server is torn, whatever failed. While the
sessions are quiet, `Undisturbed` says that the server has `latest`, and what every
handler between two steps has in hand; a step that fails without disturbing keeps it.

**Write-back reordering.** Every property speaks of the list `pendingOps`, so the
invariant says of each operation, waiting or taken: its descriptor is open for its path
until the operation closes it, and nothing later is to use that descriptor (`FdOK`).
`Covered` says that whenever the server lacks what the client has, somebody still owes
it (`Owed`): an open session with a dirty entry, an operation that waits or is taken,
or the buffer about to be sent. With `Ordered` (no path has newer contents on the server
than locally, and the buffer is in between) it gives all four properties. An open
applies only the operations of its path, and the proof needs that what is left of the
list and what is taken from it are the two parts of it in their order (`OpsOf`,
`PartOf`).

**Local reordering.** The queue is never cleared, and what a replay does to a file is a
fold over it: `Made` states its result after the first *k* operations, block by block
and in terms of the last operation that hits the block. Where no
write of another session has got into the file (`Alone`), `NoneLost` says that of a
block the session has written, either the file has one of the session's values or the
queue is to bring one, and `Straight` that as long as the writes were all delayed or
none of them, the last value of the block is the one that is there at the end. Values
are compared by `Number`, so that a payload damaged by its copy is still traced to its
write: which write is in a block is proved, that its bytes are as written is not, and
`DelayedAsWritten`, which fails, shows that they may not be. A close that fails is a step like the
others; `Leaked` stays with the descriptor.

**Names.** A handler is before, between or after its two steps. `Agrees` compares the
client's tree with the server's when it is not between them; `Behind` says that
between them the client's tree can take the same operation and will then be alike, so
that only a failure of its own (`LocalFails`) can refuse it;
`Begun` that before the server's step its names are as the call has found them; and
`Refused` that after an error they still are. All of it is said outside of `apart`. What
carries the proof is what an operation on a tree touches, for paths of any
depth: it is done to the top directories of its arguments and depends on nothing else
(`DoneSame`, `DoneElsewhere`). A write-back puts its top directory into `apart` for
everyone and touches no other (`Unseen`).

**Error injection.** The parser is proved by what it has read after *n* lines (`Reads`):
one entry per type in the order of their first value, each with the last value of its
keys so far. For the handlers: there is at most one editor of the file
(`OneEditor`), its flush and release have read the file under the mutex
(`SavedIsRead`), and a walk has collected what the entries before its place allow
(`Walks`, with `MayReturn`), which is `Asked` of the file once the walk is over, up to
`Beyond`.

**WowConcert.** The invariant is a table: for every place of the orchestrator, where a
participant may be and which message may be between the two (`ClientPlace`,
`SinkPlace`), and how far the files are (`ClientFile`, `Orchestra`).

**Induction.** The library's induction theorems take an operator, so the proofs
use a set instead: a set of numbers that has 0 and with every number the next one has
all of them (`SetInduction`, from `WFMin` by way of `LeastOf`). A recursive function is
a CHOOSE among functions that satisfy its equation: a lemma shows by `SetInduction`
that one exists, and the equation follows. `FoldLeft` is expanded to the function on
sets which the community modules define it by.

**What the proofs changed.** `Fetch` of `WowNamespace` tested the direct parent only,
where `create_directories` may meet a file at any level. `Wanted` of `ErrInject` was
wrong about indented lines that look like sections, and about options without a name,
which the test files did not have; they have them now. `Unseen` made it necessary
that an opened copy of a shared file is a file of its own.

Only model-checked: liveness (`EveryCallEnds`, `Finishes`), since fairness and ENABLED
are out of the prover's reach. Every other property of a passing run is a theorem.

## 5. Not modelled

* The flush delayed and the release not, which another configuration than that of
  `setupFS.sh` may cause; writes to the unlocked queue of delayed writes at the same time.
* A `recvfrom` that returns -1 and is taken for a message; clock skew between machines.
* An injected `EEXIST`, `EBUSY` or `ENOTBLK` that a handler takes for a reordering
  (`unreliablefs.h:13-15`) is in `ErrInject` up to what the handler then does.
* `chmod`, `chown`, `mknod`, `utimens` and extended attributes act on the
  local copy only; `fallocate` acts on it and registers the descriptor as dirty, as a
  write does (`unreliablefs_ops.c:1222-1226`), and stands for one; reads of attributes, listings and contents change nothing. The
  kernel's page and attribute caches.
* The logger; `FHLookup.H`, which nothing uses; `ini_parse_string`, likewise; the errno
  tables of other systems; workloads, tests and scripts, which drive the system and
  whose expectations the properties quote.
