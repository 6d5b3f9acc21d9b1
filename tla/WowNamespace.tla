---------------------------- MODULE WowNamespace ----------------------------
(***************************************************************************)
(* Names: mkdir, rmdir, unlink, rename, link, symlink and create change    *)
(* the tree of the server by an RPC, and then the client's own tree in the *)
(* cache directory by a system call.  The client's tree has what it made   *)
(* itself and what it has opened, so the second step may fail where the    *)
(* first one succeeded, and so may it for want of space or rights; nothing *)
(* is undone.  What opening a file and sending it back do to names is here *)
(* too: the server puts a new file in the place of the old one.            *)
(*                                                                         *)
(* A tree maps paths to Dir or to a file's identity, which links share.    *)
(* Contents, modes and times are those of the other modules.  A client     *)
(* runs one of these handlers at a time.                                   *)
(***************************************************************************)
EXTENDS Integers, Sequences, FiniteSets, SequencesExt

CONSTANTS
    Clients,
    Names,          \* names of directory entries
    Depth,          \* length of a path
    MaxFiles,       \* bound on the files ever made
    MaxOps,         \* bound on the calls, opens and files sent back
    MaxLost,        \* bound on failing RPCs and failing system calls
    Dir, None

Paths == UNION {[1..n -> Names] : n \in 1..Depth}
Files == 1..MaxFiles

ASSUME NamespaceAssumption ==
    /\ Depth \in Nat
    /\ MaxFiles \in Nat
    /\ None \notin Paths

VARIABLES
    server,     \* the tree under /tmp/wowfs_remote
    local,      \* client -> its tree under /tmp/wowfs_local
    pc,         \* client -> "idle", "server" or "local": the step that is next
    job,        \* client -> operation, path, second path or None, new file
    alive,      \* clients that did not terminate
    made,       \* files made so far
    ops,        \* calls so far
    lost,       \* RPCs and system calls that failed so far
    answer,     \* client -> how its last call ended
    before,     \* history: client -> the server's tree when its call began
    apart       \* history: client -> top directories that it may see differently

vars == <<server, local, pc, job, alive, made, ops, lost, answer, before, apart>>

NoJob == [op |-> "none", path |-> <<>>, to |-> None, file |-> 0]

Init ==
    /\ server = <<>>
    /\ local = [c \in Clients |-> <<>>]
    /\ pc = [c \in Clients |-> "idle"]
    /\ job = [c \in Clients |-> NoJob]
    /\ alive = Clients
    /\ made = 0
    /\ ops = 0
    /\ lost = 0
    /\ answer = [c \in Clients |-> "ok"]
    /\ before = [c \in Clients |-> <<>>]
    /\ apart = [c \in Clients |-> {}]

-----------------------------------------------------------------------------
(* System calls on a tree. *)

Has(t, p) == p \in DOMAIN t
IsDir(t, p) == Has(t, p) /\ t[p] = Dir
Under(t, p) == {q \in DOMAIN t : IsStrictPrefix(p, q)}
HasParent(t, p) == Len(p) = 1 \/ IsDir(t, Front(p))
With(t, p, x) == [q \in DOMAIN t \cup {p} |-> IF q = p THEN x ELSE t[q]]
Without(t, ps) == [q \in DOMAIN t \ ps |-> t[q]]

(* Mutant of Moved: what is below a directory stays. *)
MovedAlone(t, p, new) == With(Without(t, {p}), new, t[p])

Moved(t, p, new) ==
    LET From(q) == IF IsPrefix(new, q) THEN p \o SubSeq(q, Len(new) + 1, Len(q)) ELSE q
        moved == {q \in Paths : IsPrefix(new, q) /\ From(q) \in DOMAIN t}
    IN [q \in moved \cup (DOMAIN t \ ({new, p} \cup Under(t, p))) |-> t[From(q)]]

Can(t, j) ==
    CASE j.op = "mkdir" -> ~Has(t, j.path) /\ HasParent(t, j.path)
      [] j.op = "create" -> HasParent(t, j.path) /\ ~IsDir(t, j.path)
      [] j.op = "rmdir" -> IsDir(t, j.path) /\ Under(t, j.path) = {}
      [] j.op = "unlink" -> Has(t, j.path) /\ ~IsDir(t, j.path)
      [] j.op = "symlink" -> ~Has(t, j.path) /\ HasParent(t, j.path)
      [] j.op = "link" ->
            /\ Has(t, j.path) /\ ~IsDir(t, j.path)
            /\ ~Has(t, j.to) /\ HasParent(t, j.to)
      [] j.op = "rename" ->
            /\ Has(t, j.path) /\ HasParent(t, j.to) /\ ~IsStrictPrefix(j.path, j.to)
            /\ Has(t, j.to) => /\ IsDir(t, j.to) <=> IsDir(t, j.path)
                               /\ Under(t, j.to) = {}
      [] OTHER -> FALSE

Done(t, j) ==
    CASE j.op = "mkdir" -> With(t, j.path, Dir)
      [] j.op = "create" -> IF Has(t, j.path) THEN t ELSE With(t, j.path, j.file)
      [] j.op \in {"rmdir", "unlink"} -> Without(t, {j.path})
      [] j.op = "symlink" -> With(t, j.path, j.file)
      [] j.op = "link" -> With(t, j.to, t[j.path])
      [] j.op = "rename" -> IF Has(t, j.to) /\ t[j.to] = t[j.path] /\ ~IsDir(t, j.path)
                            THEN t ELSE Moved(t, j.path, j.to)

-----------------------------------------------------------------------------
(* The kernel looks a name up with getattr before it calls a handler: a    *)
(* name is there when the server or the client's own tree has it.          *)

Sees(c, p) == Has(server, p) \/ Has(local[c], p)
SeesDir(c, p) == IF Has(server, p) THEN IsDir(server, p) ELSE IsDir(local[c], p)

Allowed(c, j) ==
    /\ Len(j.path) = 1 \/ SeesDir(c, Front(j.path))
    /\ CASE j.op \in {"mkdir", "symlink", "create"} -> ~Sees(c, j.path)
         [] j.op = "rmdir" -> SeesDir(c, j.path)
         [] j.op = "unlink" -> Sees(c, j.path) /\ ~SeesDir(c, j.path)
         [] j.op = "link" -> /\ Sees(c, j.path) /\ ~SeesDir(c, j.path)
                             /\ ~Sees(c, j.to)
         [] j.op = "rename" -> /\ Sees(c, j.path) /\ ~IsPrefix(j.path, j.to)
                               /\ Sees(c, j.to) => SeesDir(c, j.to) = SeesDir(c, j.path)

Jobs ==
    [op : {"mkdir", "rmdir", "unlink"}, path : Paths, to : {None}, file : {0}]
    \cup [op : {"create", "symlink"}, path : Paths, to : {None}, file : {made + 1} \cap Files]
    \cup {j \in [op : {"rename", "link"}, path : Paths, to : Paths, file : {0}] : j.path # j.to}

Call(c) ==
    /\ c \in alive
    /\ pc[c] = "idle"
    /\ ops < MaxOps
    /\ \E j \in Jobs :
         /\ Allowed(c, j)
         /\ job' = [job EXCEPT ![c] = j]
         /\ made' = IF j.file = 0 THEN made ELSE j.file
    /\ pc' = [pc EXCEPT ![c] = "server"]
    /\ ops' = ops + 1
    /\ before' = [before EXCEPT ![c] = server]
    /\ UNCHANGED <<server, local, alive, lost, answer, apart>>

-----------------------------------------------------------------------------
(* The first step: the RPC. *)

Tops(j) == {j.path[1]} \cup (IF j.to = None THEN {} ELSE {j.to[1]})

Return(c, how) ==
    /\ pc' = [pc EXCEPT ![c] = "idle"]
    /\ answer' = [answer EXCEPT ![c] = how]

(* Others may now see something else than their own tree has, and so may   *)
(* the client itself when it moves what it does not have.                  *)
ServerDoes(c) ==
    /\ server' = Done(server, job[c])
    /\ apart' = [d \in Clients |->
                    IF d = c /\ Tops(job[c]) \cap apart[d] = {} THEN apart[d]
                    ELSE apart[d] \cup Tops(job[c])]

ServerStep(c) ==
    /\ pc[c] = "server"
    /\ Can(server, job[c])
    /\ ServerDoes(c)
    /\ pc' = [pc EXCEPT ![c] = "local"]
    /\ UNCHANGED <<local, job, alive, made, ops, lost, answer, before>>

(* Mutant of ServerRefuses: no handler looks at the server's answer. *)
ServerRefusesGoesOn(c) ==
    /\ pc[c] = "server"
    /\ ~Can(server, job[c])
    /\ pc' = [pc EXCEPT ![c] = "local"]
    /\ UNCHANGED <<server, local, job, alive, made, ops, lost, answer, before, apart>>

(* Every handler but symlink gives up when the server refuses. *)
ServerRefuses(c) ==
    /\ pc[c] = "server"
    /\ ~Can(server, job[c])
    /\ IF job[c].op = "symlink"
       THEN /\ pc' = [pc EXCEPT ![c] = "local"]
            /\ apart' = [apart EXCEPT ![c] = @ \cup Tops(job[c])]
            /\ UNCHANGED answer
       ELSE Return(c, "error") /\ UNCHANGED apart
    /\ UNCHANGED <<server, local, job, alive, made, ops, lost, before>>

(* A failing RPC is an error too, whether the server has done it or not. *)
RpcFails(c) ==
    /\ pc[c] = "server"
    /\ lost < MaxLost
    /\ lost' = lost + 1
    /\ \/ /\ Can(server, job[c])
          /\ server' = Done(server, job[c])
          /\ apart' = [d \in Clients |-> apart[d] \cup Tops(job[c])]
       \/ /\ apart' = IF job[c].op = "symlink"
                      THEN [apart EXCEPT ![c] = @ \cup Tops(job[c])] ELSE apart
          /\ UNCHANGED server
    /\ IF job[c].op = "symlink"
       THEN pc' = [pc EXCEPT ![c] = "local"] /\ UNCHANGED answer
       ELSE Return(c, "error")
    /\ UNCHANGED <<local, job, alive, made, ops, before>>

-----------------------------------------------------------------------------
(* The second step: the client's own tree. *)

AtLocal(c, op) ==
    /\ pc[c] = "local"
    /\ job[c].op = op
    /\ UNCHANGED <<server, job, made, ops, lost, before, apart>>

Change(c, t) == local' = [local EXCEPT ![c] = t]

(* An exception of std::filesystem that nobody catches; the client may be  *)
(* mounted again, with the tree it has.                                    *)
Terminate(c) ==
    /\ pc' = [pc EXCEPT ![c] = "idle"]
    /\ answer' = [answer EXCEPT ![c] = "terminated"]
    /\ alive' = alive \ {c}

Mount(c) ==
    /\ c \notin alive
    /\ alive' = alive \cup {c}
    /\ UNCHANGED <<server, local, pc, job, made, ops, lost, answer, before, apart>>

(* mkdir, rmdir, link and symlink: the system call's error is the answer. *)
LocalCall(c, op) ==
    /\ AtLocal(c, op)
    /\ UNCHANGED alive
    /\ IF Can(local[c], job[c])
       THEN Change(c, Done(local[c], job[c])) /\ Return(c, "ok")
       ELSE UNCHANGED local /\ Return(c, "error")

LocalMkdir(c) == LocalCall(c, "mkdir")
LocalRmdir(c) == LocalCall(c, "rmdir")
LocalLink(c) == LocalCall(c, "link")
LocalSymlink(c) == LocalCall(c, "symlink")

(* Mutant of LocalUnlink: the cached file is kept. *)
LocalUnlinkKeeps(c) ==
    /\ AtLocal(c, "unlink")
    /\ UNCHANGED <<alive, local>>
    /\ Return(c, "ok")

(* deleteFromCache: std::filesystem::remove takes a file, an empty         *)
(* directory, or nothing.                                                  *)
LocalUnlink(c) ==
    /\ AtLocal(c, "unlink")
    /\ IF Under(local[c], job[c].path) # {}
       THEN Terminate(c) /\ UNCHANGED local
       ELSE /\ Change(c, Without(local[c], {job[c].path}))
            /\ Return(c, "ok")
            /\ UNCHANGED alive

LocalRename(c) ==
    /\ AtLocal(c, "rename")
    /\ IF Can(local[c], job[c])
       THEN /\ Change(c, Done(local[c], job[c]))
            /\ Return(c, "ok")
            /\ UNCHANGED alive
       ELSE Terminate(c) /\ UNCHANGED local

Parents(p) == {SubSeq(p, 1, n) : n \in 1..(Len(p) - 1)}

(* constructDirPath makes the directories that the path needs. *)
WithParents(t, p) == [q \in DOMAIN t \cup Parents(p) |-> IF q \in DOMAIN t THEN t[q] ELSE Dir]

LocalCreate(c) ==
    /\ AtLocal(c, "create")
    /\ LET t == WithParents(local[c], job[c].path)
       IN IF \E q \in Parents(job[c].path) : ~IsDir(t, q)
          THEN Terminate(c) /\ UNCHANGED local
          ELSE /\ UNCHANGED alive
               /\ IF Can(t, job[c])
                  THEN Change(c, Done(t, job[c])) /\ Return(c, "ok")
                  ELSE Change(c, t) /\ Return(c, "error")

CanMakeParents(c, p) == \A q \in Parents(p) : IsDir(WithParents(local[c], p), q)

MakesParents(c, p) ==
    /\ CanMakeParents(c, p)
    /\ Change(c, WithParents(local[c], p))

(* The second step fails, whatever the trees are: no space, no right, an   *)
(* error of the disk.  A system call's error is the answer, an exception   *)
(* of std::filesystem is caught by nobody; create has made directories.    *)
LocalFails(c) ==
    /\ pc[c] = "local"
    /\ lost < MaxLost
    /\ lost' = lost + 1
    /\ apart' = [apart EXCEPT ![c] = @ \cup Tops(job[c])]
    /\ \/ /\ Return(c, "error") /\ UNCHANGED alive
          /\ \/ job[c].op \in {"mkdir", "rmdir", "link", "symlink"} /\ UNCHANGED local
             \/ job[c].op = "create" /\ MakesParents(c, job[c].path)
       \/ /\ Terminate(c)
          /\ \/ job[c].op \in {"unlink", "rename"} /\ UNCHANGED local
             \/ job[c].op = "create" /\ \E q \in Parents(job[c].path) : MakesParents(c, q)
    /\ UNCHANGED <<server, job, made, ops, before>>

-----------------------------------------------------------------------------
(* Opening a file and sending it back. *)

Fetchable(c) == {p \in DOMAIN server : ~IsDir(server, p) /\ ~Has(local[c], p)}

(* A copy is a file of its own, also of a file that links share.           *)
CopyOf(c, x) == IF \E q \in DOMAIN local[c] : local[c][q] = x THEN made + 1 ELSE x

(* open fetches a file of the server, with the directories above it, for   *)
(* which there must be no file in the way.                                 *)
Fetch(c) ==
    /\ c \in alive
    /\ pc[c] = "idle"
    /\ ops < MaxOps
    /\ \E p \in Fetchable(c) :
         \/ /\ CanMakeParents(c, p)
            /\ CopyOf(c, server[p]) \in Files
            /\ Change(c, With(WithParents(local[c], p), p, CopyOf(c, server[p])))
            /\ made' = IF CopyOf(c, server[p]) = server[p] THEN made ELSE made + 1
            /\ UNCHANGED <<alive, pc, answer, job>>
         \/ /\ ~CanMakeParents(c, p)
            /\ Terminate(c)
            /\ job' = [job EXCEPT ![c] = NoJob]
            /\ UNCHANGED <<local, made>>
    /\ ops' = ops + 1
    /\ UNCHANGED <<server, lost, before, apart>>

(* The copy is not saved and nothing is there to open, or a directory can  *)
(* not be made.                                                            *)
FetchFails(c) ==
    /\ c \in alive
    /\ pc[c] = "idle"
    /\ ops < MaxOps
    /\ lost < MaxLost
    /\ lost' = lost + 1
    /\ \E p \in Fetchable(c) :
         \/ MakesParents(c, p) /\ UNCHANGED <<alive, pc, answer, job>>
         \/ /\ \E q \in Parents(p) : MakesParents(c, q)
            /\ Terminate(c)
            /\ job' = [job EXCEPT ![c] = NoJob]
    /\ ops' = ops + 1
    /\ UNCHANGED <<server, made, before, apart>>

(* A new file on the server under the name p, next to what links to the    *)
(* old one.                                                                *)
Puts(p) ==
    /\ HasParent(server, p) /\ ~IsDir(server, p)
    /\ made + 1 \in Files
    /\ server' = With(server, p, made + 1)
    /\ made' = made + 1
    /\ apart' = [d \in Clients |-> apart[d] \cup {p[1]}]

OwnFiles(c) == {p \in DOMAIN local[c] : ~IsDir(local[c], p)}

(* open makes the file on a server that does not have it.                  *)
OpenCreates(c) ==
    /\ c \in alive
    /\ pc[c] = "idle"
    /\ ops < MaxOps
    /\ \E p \in OwnFiles(c) : ~Has(server, p) /\ Puts(p)
    /\ ops' = ops + 1
    /\ UNCHANGED <<local, pc, job, alive, lost, answer, before>>

(* A dirty file is sent back: the server renames its temporary file over   *)
(* the path.  That cuts the name off its links, or brings it back; the     *)
(* identity of any other file is nowhere seen.                             *)
Writeback(c) ==
    /\ c \in alive
    /\ pc[c] = "idle"
    /\ ops < MaxOps
    /\ \E p \in OwnFiles(c) :
         /\ Has(server, p) => \E q \in DOMAIN server \ {p} : server[q] = server[p]
         /\ Puts(p)
    /\ ops' = ops + 1
    /\ UNCHANGED <<local, pc, job, alive, lost, answer, before>>

LocalStep(c) ==
    \/ LocalMkdir(c) \/ LocalRmdir(c) \/ LocalLink(c) \/ LocalSymlink(c)
    \/ LocalUnlink(c) \/ LocalRename(c) \/ LocalCreate(c)

Next ==
    \E c \in Clients :
        \/ Call(c) \/ Mount(c)
        \/ ServerStep(c) \/ ServerRefuses(c) \/ RpcFails(c)
        \/ LocalStep(c) \/ LocalFails(c)
        \/ Fetch(c) \/ FetchFails(c) \/ OpenCreates(c) \/ Writeback(c)

Spec == Init /\ [][Next]_vars

-----------------------------------------------------------------------------
(* Properties. *)

IsTree(t) ==
    /\ DOMAIN t \subseteq Paths
    /\ \A p \in DOMAIN t : HasParent(t, p) /\ t[p] \in Files \cup {Dir}

(* The shape of the state. *)
TypeOK ==
    /\ IsTree(server)
    /\ \A c \in Clients : IsTree(local[c])
    /\ pc \in [Clients -> {"idle", "server", "local"}]
    /\ answer \in [Clients -> {"ok", "error", "terminated"}]
    /\ apart \in [Clients -> SUBSET Names]

In(t, top) == [p \in {q \in DOMAIN t : q[1] = top} |-> t[p]]

(* A client's own tree is the server's between its calls, but for the top  *)
(* directories in which another client changed a name, an RPC failed       *)
(* half-way, the second step of the client's own call failed, or a file    *)
(* sent back took a name off its links or brought it back.                 *)
OwnTreeAgrees ==
    \A c \in Clients : \A top \in Names \ apart[c] :
        pc[c] = "idle" => In(server, top) = In(local[c], top)

(* Outside those, a call that fails has changed nothing, here or on the    *)
(* server, and the client does not die of it: the shapes of the two trees  *)
(* never let the server do what the client then can not.                   *)
ErrorsChangeNothing ==
    \A c \in Clients :
        pc[c] = "idle" /\ answer[c] # "ok" /\ job[c] # NoJob /\ Tops(job[c]) \cap apart[c] = {}
            => /\ answer[c] = "error"
               /\ \A top \in Tops(job[c]) : In(server, top) = In(before[c], top)

=============================================================================
