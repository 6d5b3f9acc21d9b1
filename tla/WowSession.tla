----------------------------- MODULE WowSession -----------------------------
(***************************************************************************)
(* Sessions (open, write, close) of several wowFS clients on one file:     *)
(* shouldFetch compares the modification times of the local copy and of    *)
(* the server's file and open downloads the newer one; flush and then      *)
(* release write the whole local copy back.                                *)
(*                                                                         *)
(* A content is the set of the writes that are in it.  The only question   *)
(* the code asks of the clocks, which are taken to agree, is whether a     *)
(* local copy is at least as new as the server's file: "current" answers   *)
(* it for every client.  The server is the store of whole files that       *)
(* WowServer implements; the maps of WowCache are taken to be right.       *)
(***************************************************************************)
EXTENDS Integers, FiniteSets

CONSTANTS
    Clients,
    Handles,        \* FUSE file infos, one for every session
    Owner,          \* handle -> the client it belongs to
    Threads,        \* bound on the handlers that are at work at a time
    MaxWrites,      \* bound on the number of writes
    MaxFaults,      \* bound on the calls that fail and the files unlinked
    Torn,           \* in a content of which a part is missing
    None,
    Modes           \* what may happen in a run, a subset of ModeKinds

ModeKinds == {"late",    \* release comes some time after close has returned
              "tick",    \* two modifications get the same time
              "rpc",     \* an RPC fails
              "disk",    \* the local copy can't be written or read, or not all of it
              "delete"}  \* the file is unlinked

Writes == 1..MaxWrites
Contents == SUBSET (Writes \cup {Torn})
Absent == {None}               \* in place of a content: there is no file

ASSUME SessionAssumption ==
    /\ Owner \in [Handles -> Clients]
    /\ Threads \in Nat
    /\ MaxWrites \in Nat
    /\ MaxFaults \in Nat
    /\ Torn \notin Writes
    /\ None \notin Writes \cup {Torn}
    /\ Modes \subseteq ModeKinds

VARIABLES
    server,     \* content of the server's file
    local,      \* client -> content of its copy
    current,    \* clients whose copy is at least as new as the server's file
    tick,       \* clients whose copy was modified in the present clock tick
    pc,         \* handle -> where its handler is, or its session
    seen,       \* handle -> content of the file that DownloadStat measured
    buf,        \* handle -> what was downloaded, or read to be written back
    wrote,      \* handle -> its last write; not None says isDirty
    writes,     \* number of writes so far
    faults,     \* number of calls that failed and of files unlinked so far
    latest,     \* content of the last close (history variable)
    may,        \* handle -> what its open may find (history variable)
    quiet,      \* nothing has disturbed the sessions (history variable)
    tears,      \* what may have torn a file so far (history variable)
    overwritten \* handles whose writes an open replaced (history variable)

dataVars == <<server, local, current, tick>>
historyVars == <<latest, may>>
observed == <<quiet, tears, overwritten>>
vars == <<server, local, current, tick, pc, seen, buf, wrote, writes, latest, may,
          faults, quiet, tears, overwritten>>

Resting == {"idle", "open", "closed"}
Opening == {"create", "download", "save", "fill", "local"}
Busy == {h \in Handles : pc[h] \notin Resting}
Siblings(h) == {g \in Handles : Owner[g] = Owner[h]}

(* Another handler may start. *)
Scheduled == Cardinality(Busy) < Threads

Init ==
    /\ server = Absent
    /\ local = [c \in Clients |-> Absent]
    /\ current = {}
    /\ tick = {}
    /\ pc = [h \in Handles |-> "idle"]
    /\ seen = [h \in Handles |-> Absent]
    /\ buf = [h \in Handles |-> Absent]
    /\ wrote = [h \in Handles |-> None]
    /\ writes = 0
    /\ latest = Absent
    /\ may = [h \in Handles |-> {}]
    /\ faults = 0
    /\ quiet = TRUE
    /\ tears = {}
    /\ overwritten = {}

Goto(h, l) == pc' = [pc EXCEPT ![h] = l]

(* The file of client c, or of the server, gets a content and a new time.  *)
SetLocal(c, d) ==
    /\ local' = [local EXCEPT ![c] = d]
    /\ current' = current \cup {c}
    /\ tick' = IF "tick" \in Modes THEN tick \cup {c} ELSE tick
    /\ UNCHANGED server

SetServer(d) ==
    /\ server' = d
    /\ current' = tick
    /\ UNCHANGED <<local, tick>>

(* What the handles that are opening the file may find from now on. *)
MayFind(hs, d) ==
    may' = [h \in Handles |->
              IF h \in hs /\ pc[h] \in Opening THEN may[h] \cup {d} ELSE may[h]]

-----------------------------------------------------------------------------
(* open.  shouldFetch asks the server first and stats the local copy as    *)
(* soon as it has the answer.                                              *)

Unsaved(c) == {local[c] : g \in {g \in Handles : Owner[g] = c /\ wrote[g] # None}}

(* Mutant of ShouldFetch: a copy that exists is used, whatever its age. *)
ShouldFetchAbsent(h) ==
    LET c == Owner[h] IN
    /\ pc[h] = "idle"
    /\ Scheduled
    /\ server # Absent \/ local[c] # Absent
    /\ Goto(h, IF server = Absent THEN "create"
               ELSE IF local[c] # Absent THEN "local"
               ELSE "download")
    /\ seen' = IF pc'[h] = "download" THEN [seen EXCEPT ![h] = server] ELSE seen
    /\ may' = [may EXCEPT ![h] = {latest} \cup Unsaved(c)]
    /\ UNCHANGED <<dataVars, buf, wrote, writes, latest>>

ShouldFetch(h) ==
    LET c == Owner[h] IN
    /\ pc[h] = "idle"
    /\ Scheduled
    /\ server # Absent \/ local[c] # Absent
    /\ Goto(h, IF server = Absent THEN "create"
               ELSE IF local[c] # Absent /\ c \in current THEN "local"
               ELSE "download")
    /\ seen' = IF pc'[h] = "download" THEN [seen EXCEPT ![h] = server] ELSE seen
    /\ may' = [may EXCEPT ![h] = {latest} \cup Unsaved(c)]
    /\ UNCHANGED <<dataVars, buf, wrote, writes, latest>>

(* An RPC of shouldFetch that fails counts as "no such file". *)
ShouldFetchFails(h) ==
    /\ "rpc" \in Modes
    /\ pc[h] = "idle"
    /\ Scheduled
    /\ server # Absent \/ local[Owner[h]] # Absent
    /\ Goto(h, "create")
    /\ may' = [may EXCEPT ![h] = {latest} \cup Unsaved(Owner[h])]
    /\ UNCHANGED <<dataVars, seen, buf, wrote, writes, latest>>

(* The Open RPC creates the file the server was said not to have. *)
OpenRPC(h) ==
    /\ pc[h] = "create"
    /\ Goto(h, "local")
    /\ IF server = Absent
       THEN /\ SetServer({})
            /\ latest' = {}
            /\ may' = [may EXCEPT ![h] = {{}}]
       ELSE UNCHANGED <<dataVars, historyVars>>
    /\ UNCHANGED <<seen, buf, wrote, writes>>

(* DownloadFile asks for as many bytes as the file had: of a file that has *)
(* grown since then the end is missing.                                    *)
FirstBytes(h) ==
    IF server = seen[h] THEN {server}
    ELSE IF {} \in {server, seen[h]} THEN {{}}
    ELSE {server, server \cup {Torn}}

Download(h) ==
    /\ pc[h] = "download"
    /\ server # Absent
    /\ \E d \in FirstBytes(h) : buf' = [buf EXCEPT ![h] = d]
    /\ seen' = [seen EXCEPT ![h] = Absent]
    /\ Goto(h, "save")
    /\ UNCHANGED <<dataVars, wrote, writes, historyVars>>

(* saveToCache: fopen truncates the copy in place, then fwrite fills it. *)
SaveTruncate(h) ==
    /\ pc[h] = "save"
    /\ SetLocal(Owner[h], IF buf[h] = {} THEN {} ELSE {Torn})
    /\ Goto(h, "fill")
    /\ UNCHANGED <<seen, buf, wrote, writes, historyVars>>

(* Mutant of SaveFill: fwrite stores only a part. *)
SaveFillShort(h) ==
    /\ pc[h] = "fill"
    /\ buf' = [buf EXCEPT ![h] = Absent]
    /\ Goto(h, "local")
    /\ UNCHANGED <<dataVars, seen, wrote, writes, historyVars>>

SaveFill(h) ==
    /\ pc[h] = "fill"
    /\ SetLocal(Owner[h], buf[h])
    /\ buf' = [buf EXCEPT ![h] = Absent]
    /\ Goto(h, "local")
    /\ UNCHANGED <<seen, wrote, writes, historyVars>>

(* fopen fails: saveToCache returns false, and open goes on regardless.    *)
SaveFails(h) ==
    /\ "disk" \in Modes
    /\ pc[h] = "save"
    /\ buf' = [buf EXCEPT ![h] = Absent]
    /\ Goto(h, "local")
    /\ UNCHANGED <<dataVars, seen, wrote, writes, historyVars>>

(* fwrite or fclose stores only a part, and nobody asks. *)
SaveShort(h) ==
    /\ "disk" \in Modes
    /\ pc[h] = "fill"
    /\ buf[h] # {}
    /\ \E part \in {{}, buf[h]} : SetLocal(Owner[h], part \cup {Torn})
    /\ buf' = [buf EXCEPT ![h] = Absent]
    /\ Goto(h, "local")
    /\ UNCHANGED <<seen, wrote, writes, historyVars>>

OpenLocal(h) ==
    /\ pc[h] = "local"
    /\ local[Owner[h]] # Absent
    /\ Goto(h, "open")
    /\ may' = [may EXCEPT ![h] = {}]
    /\ UNCHANGED <<dataVars, seen, buf, wrote, writes, latest>>

(* The file is gone on the server, or there is no local copy to open; or   *)
(* the RPC has failed.                                                     *)
GiveUp(h) ==
    /\ Goto(h, "idle")
    /\ seen' = [seen EXCEPT ![h] = Absent]
    /\ may' = [may EXCEPT ![h] = {}]
    /\ UNCHANGED <<dataVars, buf, wrote, writes, latest>>

OpenFails(h) ==
    /\ \/ pc[h] = "download" /\ server = Absent
       \/ pc[h] = "local" /\ local[Owner[h]] = Absent
    /\ GiveUp(h)

OpenRpcFails(h) ==
    /\ "rpc" \in Modes
    /\ pc[h] \in {"create", "download"}
    /\ GiveUp(h)

(* create, which the kernel calls when getattr has found no file: the      *)
(* Create RPC, then the local open.  A file that has appeared in between   *)
(* is opened, and truncated if the application asked for that.             *)
LookUp(h) ==
    /\ pc[h] = "idle"
    /\ Scheduled
    /\ server = Absent /\ local[Owner[h]] = Absent
    /\ Goto(h, "missing")
    /\ UNCHANGED <<dataVars, seen, buf, wrote, writes, historyVars>>

CreateRPC(h) ==
    /\ pc[h] = "missing"
    /\ Goto(h, "creating")
    /\ \/ /\ SetServer({})
          /\ latest' = {}
          /\ MayFind(Handles, {})
       \/ /\ server # Absent
          /\ UNCHANGED <<dataVars, historyVars>>
    /\ UNCHANGED <<seen, buf, wrote, writes>>

CreateFails(h) ==
    /\ "rpc" \in Modes
    /\ pc[h] = "missing"
    /\ Goto(h, "idle")
    /\ UNCHANGED <<dataVars, seen, buf, wrote, writes, historyVars>>

CreateLocal(h) ==
    /\ pc[h] = "creating"
    /\ IF local[Owner[h]] = Absent THEN SetLocal(Owner[h], {}) ELSE UNCHANGED dataVars
    /\ Goto(h, "open")
    /\ UNCHANGED <<seen, buf, wrote, writes, historyVars>>

-----------------------------------------------------------------------------
(* write, flush and release. *)

Write(h) ==
    LET c == Owner[h] IN
    /\ pc[h] = "open"
    /\ Scheduled
    /\ local[c] # Absent
    /\ writes < MaxWrites
    /\ writes' = writes + 1
    /\ SetLocal(c, local[c] \cup {writes + 1})
    /\ wrote' = [wrote EXCEPT ![h] = writes + 1]
    /\ MayFind(Siblings(h), local[c] \cup {writes + 1})
    /\ UNCHANGED <<pc, seen, buf, latest>>

(* What follows when close has returned: release, at once or later. *)
Closed == IF "late" \in Modes THEN "closed" ELSE "idle"

(* isFileDirty and readFile; a file that is not dirty or that has no local *)
(* copy any more is not written back.                                      *)
ReadBack(h, sending, nothing) ==
    IF wrote[h] # None /\ local[Owner[h]] # Absent
    THEN /\ buf' = [buf EXCEPT ![h] = local[Owner[h]]]
         /\ Goto(h, sending)
         /\ UNCHANGED wrote
    ELSE /\ Goto(h, nothing)
         /\ wrote' = IF nothing = "idle" THEN [wrote EXCEPT ![h] = None] ELSE wrote
         /\ UNCHANGED buf

Flush(h) ==
    /\ pc[h] = "open"
    /\ Scheduled
    /\ ReadBack(h, "flushing", Closed)
    /\ UNCHANGED <<dataVars, seen, writes, historyVars>>

(* readFile fails: the write-back is left out, and close succeeds. *)
ReadBackFails(h) ==
    /\ "disk" \in Modes
    /\ pc[h] \in {"open", "closed"}
    /\ Scheduled
    /\ wrote[h] # None /\ local[Owner[h]] # Absent
    /\ LET l == IF pc[h] = "open" THEN Closed ELSE "idle" IN
         /\ Goto(h, l)
         /\ wrote' = IF l = "idle" THEN [wrote EXCEPT ![h] = None] ELSE wrote
    /\ UNCHANGED <<dataVars, seen, buf, writes, historyVars>>

(* Mutants of Done: the buffer, or the entry in the maps, is kept. *)
DoneKeepsBuffer(h, l) ==
    /\ Goto(h, l)
    /\ wrote' = IF l = "idle" THEN [wrote EXCEPT ![h] = None] ELSE wrote
    /\ UNCHANGED buf

DoneKeepsEntry(h, l) ==
    /\ Goto(h, l)
    /\ buf' = [buf EXCEPT ![h] = Absent]
    /\ UNCHANGED wrote

(* A write-back has ended; with release the entry in the maps goes. *)
Done(h, l) ==
    /\ Goto(h, l)
    /\ buf' = [buf EXCEPT ![h] = Absent]
    /\ wrote' = IF l = "idle" THEN [wrote EXCEPT ![h] = None] ELSE wrote

(* The Writeback RPC.  flush does not clear isDirty, so release writes     *)
(* back again: at once, that changes nothing.                              *)
FlushSend(h) ==
    /\ pc[h] = "flushing"
    /\ SetServer(buf[h])
    /\ Done(h, Closed)
    /\ latest' = buf[h]
    /\ MayFind(Handles, buf[h])
    /\ UNCHANGED <<seen, writes>>

FlushFails(h) ==
    /\ "rpc" \in Modes
    /\ pc[h] = "flushing"
    /\ Done(h, Closed)
    /\ UNCHANGED <<dataVars, seen, writes, historyVars>>

Release(h) ==
    /\ pc[h] = "closed"
    /\ Scheduled
    /\ ReadBack(h, "releasing", "idle")
    /\ UNCHANGED <<dataVars, seen, writes, historyVars>>

ReleaseSend(h) ==
    /\ pc[h] = "releasing"
    /\ SetServer(buf[h])
    /\ Done(h, "idle")
    /\ UNCHANGED <<seen, writes, historyVars>>

ReleaseFails(h) ==
    /\ "rpc" \in Modes
    /\ pc[h] = "releasing"
    /\ Done(h, "idle")
    /\ UNCHANGED <<dataVars, seen, writes, historyVars>>

-----------------------------------------------------------------------------
(* unlink on the server and then locally, when the client does not have    *)
(* the file open (libfuse renames it otherwise).                           *)
Unlink(c) ==
    /\ "delete" \in Modes
    /\ Scheduled
    /\ \A h \in Handles : Owner[h] = c => pc[h] = "idle"
    /\ server # Absent
    /\ server' = Absent
    /\ local' = [local EXCEPT ![c] = Absent]
    /\ latest' = Absent
    /\ UNCHANGED <<current, tick, pc, seen, buf, wrote, writes, may>>

(* The clock that time stamps are taken from goes on. *)
Tick ==
    /\ tick # {}
    /\ tick' = {}
    /\ UNCHANGED <<server, local, current, pc, seen, buf, wrote, writes, historyVars>>

OpenStep(h) ==
    \/ ShouldFetch(h) \/ OpenRPC(h) \/ Download(h) \/ SaveTruncate(h) \/ SaveFill(h)
    \/ OpenLocal(h) \/ OpenFails(h)
    \/ LookUp(h) \/ CreateRPC(h) \/ CreateLocal(h)

CloseStep(h) == Flush(h) \/ FlushSend(h) \/ Release(h) \/ ReleaseSend(h)

RpcFails(h) ==
    \/ ShouldFetchFails(h) \/ OpenRpcFails(h) \/ CreateFails(h)
    \/ FlushFails(h) \/ ReleaseFails(h)

DiskFails(h) == SaveFails(h) \/ SaveShort(h) \/ ReadBackFails(h)

(* What disturbs the sessions.  A step of h changes the server's file while *)
(* another handler is between its stat and the end of its save, or between *)
(* finding no file and creating it,                                        *)
Fetching == {"create", "download", "save", "fill", "missing", "creating"}
Overtakes(h) == server' # server /\ \E g \in Handles \ {h} : pc[g] \in Fetching

(* opens the copy while another handler is filling it,                     *)
OpensUnfilled(h) == pc[h] = "local" /\ \E g \in Siblings(h) : pc[g] = "fill"

(* sends on release what is not on the server (any more, or as yet),       *)
SendsAgain(h) == pc[h] = "releasing" /\ buf[h] # server

(* or gives the server's file the time stamp of a copy that differs.       *)
Coincides(h) ==
    /\ pc[h] \in {"create", "missing", "flushing", "releasing"}
    /\ \E c \in tick : local[c] \notin {Absent, server'}

Disturbs(h) == Overtakes(h) \/ OpensUnfilled(h) \/ SendsAgain(h) \/ Coincides(h)

(* A failing call does, when it is a stat, or leaves less than the file in *)
(* the copy, or has an older copy opened, or ends a session whose copy is  *)
(* not on the server.                                                      *)
FaultDisturbs(h) ==
    \/ pc[h] \in {"idle", "fill"}
    \/ pc[h] = "save" /\ local[Owner[h]] # Absent
    \/ pc'[h] = "idle" /\ wrote[h] # None /\ server # local[Owner[h]]

(* An unlink does, when another client has a copy or is about to open it.  *)
UnlinkDisturbs(c) ==
    \/ \E d \in Clients \ {c} : local[d] # Absent
    \/ \E h \in Handles : pc[h] \in Opening \cup Fetching

(* What may tear a file: it is downloaded with the length it had before,   *)
(* or it is read back while another handler is filling the copy.           *)
Tears(h) ==
    IF pc[h] = "download" /\ pc'[h] = "save" /\ server # seen[h] THEN {"length"}
    ELSE IF pc'[h] \in {"flushing", "releasing"} /\ \E g \in Siblings(h) : pc[g] = "fill"
    THEN {"overlap"}
    ELSE {}

Replaces(h) ==
    IF pc[h] = "fill" \/ pc'[h] = "fill" THEN {g \in Siblings(h) \ {h} : wrote[g] # None} ELSE {}

Observe(h, disturbs, cuts) ==
    /\ quiet' = (quiet /\ ~disturbs)
    /\ tears' = tears \cup cuts
    /\ overwritten' = {g \in overwritten \cup Replaces(h) : pc'[g] # "idle"}

Next ==
    \/ \E h \in Handles :
         \/ /\ OpenStep(h) \/ Write(h) \/ CloseStep(h)
            /\ Observe(h, Disturbs(h), Tears(h))
            /\ UNCHANGED faults
         \/ /\ faults < MaxFaults
            /\ faults' = faults + 1
            /\ RpcFails(h) \/ DiskFails(h)
            /\ Observe(h, FaultDisturbs(h), IF pc[h] = "fill" THEN {"short"} ELSE {})
    \/ \E c \in Clients :
         /\ faults < MaxFaults
         /\ faults' = faults + 1
         /\ Unlink(c)
         /\ quiet' = (quiet /\ ~UnlinkDisturbs(c))
         /\ UNCHANGED <<tears, overwritten>>
    \/ Tick /\ UNCHANGED <<faults, observed>>

Spec == Init /\ [][Next]_vars

-----------------------------------------------------------------------------
(* Properties. *)

(* The shape of the state: contents are sets of writes that have been      *)
(* made, and a handler that is saving or sending has something to save or  *)
(* send.                                                                   *)
TypeOK ==
    /\ server \in Contents \cup {Absent}
    /\ local \in [Clients -> Contents \cup {Absent}]
    /\ current \subseteq Clients
    /\ tick \subseteq current
    /\ pc \in [Handles -> Resting \cup Opening \cup {"missing", "creating", "flushing", "releasing"}]
    /\ seen \in [Handles -> Contents \cup {Absent}]
    /\ buf \in [Handles -> Contents \cup {Absent}]
    /\ wrote \in [Handles -> Writes \cup {None}]
    /\ writes \in 0..MaxWrites
    /\ faults \in 0..MaxFaults
    /\ latest \in Contents \cup {Absent}
    /\ may \in [Handles -> SUBSET (Contents \cup {Absent})]
    /\ quiet \in BOOLEAN
    /\ tears \subseteq {"length", "overlap", "short"}
    /\ overwritten \subseteq {h \in Handles : wrote[h] # None}
    /\ \A h \in Handles :
         pc[h] \in {"save", "fill", "flushing", "releasing"} <=> buf[h] # Absent

(* "AFS like semantics": an open finds what the last close before it left, *)
(* or a close that ran at the same time, or what its own client has        *)
(* written and not yet closed.                                             *)
FindsLatest ==
    \A h \in Handles :
      pc[h] = "local" /\ pc'[h] = "open" => local[Owner[h]] \in may[h]

AlwaysFresh == [][FindsLatest]_vars

(* The same for handlers that overlap at will, with calls that fail, late  *)
(* releases and equal time stamps, as long as none of what Disturbs,       *)
(* FaultDisturbs and UnlinkDisturbs name has happened.                     *)
FreshOpen == [][quiet' => FindsLatest]_vars

(* What flush promises, that "data goes to the server": what a close sends *)
(* has the last write of its session in it, whatever happens, unless       *)
(* another open of the same client has replaced the copy meanwhile.        *)
CloseSendsOwnWrite ==
    \A h \in Handles \ overwritten :
      pc[h] \in {"flushing", "releasing"} => wrote[h] \in buf[h]

(* No client puts a file on the server of which a part is missing, whatever*)
(* overlaps, fails, comes late or is unlinked, unless it was downloaded    *)
(* with an old length, read back while it was being saved, or not saved as *)
(* a whole.                                                                *)
ServerWhole == server # Absent /\ Torn \in server => tears # {}

=============================================================================
