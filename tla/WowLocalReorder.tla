-------------------------- MODULE WowLocalReorder ---------------------------
(***************************************************************************)
(* WowLocalWriteReorder.H: error injection may keep a write in a queue     *)
(* instead of the file, with the descriptor it was made through; a flush,  *)
(* of whatever file, makes all the writes of the queue, in their order or  *)
(* shuffled, and leaves them in the queue.  A write of the kill phrase     *)
(* ends the client when its turn comes.                                    *)
(*                                                                         *)
(* Sessions of one file follow each other, and handlers do.  A write-back  *)
(* may fail in the RPC, before or after the server has done it, or when    *)
(* the file cannot be read back.                                           *)
(***************************************************************************)
EXTENDS Integers, Sequences, FiniteSets, SequencesExt

CONSTANTS
    Files,
    Blocks,         \* places of a file that a write covers
    Fds,            \* numbers of descriptors
    MaxWrites,
    NulWrites,      \* the writes that have a NUL in their payload
    MaxOpens,
    MaxFaults,      \* write-backs that fail
    None

ASSUME LocalReorderAssumption ==
    /\ Fds \in SUBSET Nat
    /\ None \notin Files \cup Fds
    /\ MaxWrites \in Nat
    /\ MaxFaults \in Nat
    /\ NulWrites \subseteq 1..MaxWrites

Kill == MaxWrites + 1       \* WOW_KILL_PHRASE
Injections == {"off", "wow_delay", "wow_reorder_local"}
Outcomes == {"sent", "failed", "answer lost", "not read"}   \* of a write-back

VARIABLES
    injection,  \* what the configuration injects
    queue,      \* WRITE_QUEUE
    fds,        \* descriptor -> the file it is open on, or None
    dirty,      \* descriptors that are registered dirty
    session,    \* file -> "none", "open", "flushed" or, when its flush failed, "failed"
    fh,         \* file -> the descriptor of its session (fi->fh)
    local,      \* file -> its blocks here
    server,     \* file -> its blocks on the server
    writes,     \* writes so far
    opens,      \* opens so far
    faults,     \* failing write-backs so far
    mine,       \* history: file -> what its session has asked to write, in order
    straight,   \* history: file -> they were all delayed, or all made at once
    shuffled,   \* history: the queue has been shuffled
    unsent      \* history: files that a crash, or a write-back that could not
                \* read them, left different from the server's

vars == <<injection, queue, fds, dirty, session, fh, local, server, writes,
          opens, faults, mine, straight, shuffled, unsent>>

Empty == [b \in Blocks |-> 0]

Init ==
    /\ injection \in Injections
    /\ queue = <<>>
    /\ fds = [fd \in Fds |-> None]
    /\ dirty = {}
    /\ session = [f \in Files |-> "none"]
    /\ fh = [f \in Files |-> None]
    /\ local = [f \in Files |-> Empty]
    /\ server = [f \in Files |-> Empty]
    /\ writes = 0
    /\ opens = 0
    /\ faults = 0
    /\ mine = [f \in Files |-> <<>>]
    /\ straight = [f \in Files |-> TRUE]
    /\ shuffled = FALSE
    /\ unsent = {}

(* The kernel gives the lowest number that is free. *)
LowestFd == CHOOSE fd \in Fds : fds[fd] = None /\ \A e \in Fds : fds[e] = None => fd <= e

(* The configuration is read again. *)
Configure ==
    /\ injection' \in Injections \ {injection}
    /\ UNCHANGED <<queue, fds, dirty, session, fh, local, server, writes, opens,
                   faults, mine, straight, shuffled, unsent>>

Open(f) ==
    /\ session[f] = "none"
    /\ opens < MaxOpens
    /\ \E fd \in Fds : fds[fd] = None
    /\ fds' = [fds EXCEPT ![LowestFd] = f]
    /\ dirty' = dirty \ {LowestFd}
    /\ session' = [session EXCEPT ![f] = "open"]
    /\ fh' = [fh EXCEPT ![f] = LowestFd]
    /\ opens' = opens + 1
    /\ mine' = [mine EXCEPT ![f] = <<>>]
    /\ straight' = [straight EXCEPT ![f] = TRUE]
    /\ UNCHANGED <<injection, queue, local, server, writes, faults, shuffled, unsent>>

-----------------------------------------------------------------------------
(* A file system as pwrite and registerFileDirty see it. *)

Disk == [local |-> local, dirty |-> dirty]

(* Mutant of wow_write: a descriptor that is not known is marked too. *)
wow_write_marks(disk, op) ==
    [local |-> IF fds[op.fd] = None THEN disk.local
               ELSE [disk.local EXCEPT ![fds[op.fd]][op.block] = op.val],
     dirty |-> disk.dirty \cup {op.fd}]

(* pwrite through a descriptor that is closed fails, and has no entry to   *)
(* mark; through one that is open it writes to the file that has it now.   *)
wow_write(disk, op) ==
    IF fds[op.fd] = None THEN disk
    ELSE [local |-> [disk.local EXCEPT ![fds[op.fd]][op.block] = op.val],
          dirty |-> disk.dirty \cup {op.fd}]

NextWrite(f, b, n) ==
    /\ session[f] = "open"
    /\ writes < MaxWrites
    /\ writes' = writes + 1
    /\ n \in {writes + 1, Kill}
    /\ mine' = [mine EXCEPT ![f] = Append(@, <<b, n>>)]
    /\ UNCHANGED <<injection, fds, session, fh, server, opens, faults, shuffled, unsent>>

Op(f, b, v) == [fd |-> fh[f], block |-> b, val |-> v]

(* Value n stands for the bytes of write n, value -n for its bytes as the  *)
(* queue has kept them when there is a NUL in them.                        *)
Number(v) == IF v < 0 THEN -v ELSE v

(* std::string(buf) ends at the first NUL, and size bytes of it are made   *)
(* later: of a payload with a NUL in it the start and then other bytes.    *)
(* Without one the copy goes on behind the payload, which changes nothing  *)
(* of the size bytes; the phrase followed by other bytes is not the phrase *)
(* any more and is a write like others.                                    *)
Copy(n) == IF n \in NulWrites THEN -n ELSE n

(* Mutant of RecordWrite: the queue is a stack. *)
RecordWriteFirst(f, b, n) == queue' = <<Op(f, b, Copy(n))>> \o queue

RecordWrite(f, b, n) == queue' = Append(queue, Op(f, b, Copy(n)))

(* With a probability below 100 some writes are delayed, some are not. *)
WriteDelayed(f, b, n) ==
    /\ injection # "off"
    /\ NextWrite(f, b, n)
    /\ RecordWrite(f, b, n)
    /\ straight' = [straight EXCEPT ![f] = @ /\ \A i \in DOMAIN mine[f] :
                       \E j \in DOMAIN queue : Number(queue[j].val) = mine[f][i][2]]
    /\ UNCHANGED <<dirty, local>>

WriteNow(f, b, n) ==
    /\ NextWrite(f, b, n)
    /\ LET disk == wow_write(Disk, Op(f, b, n))
       IN local' = disk.local /\ dirty' = disk.dirty
    /\ straight' = [straight EXCEPT ![f] = @ /\ \A i \in DOMAIN mine[f] :
                       \A j \in DOMAIN queue : Number(queue[j].val) # mine[f][i][2]]
    /\ UNCHANGED queue

-----------------------------------------------------------------------------
(* flush. *)

Shuffled(q) == {[i \in DOMAIN q |-> q[p[i]]] : p \in {p \in [DOMAIN q -> DOMAIN q] : IsInjective(p)}}

Shuffle ==
    IF injection = "wow_reorder_local" THEN Shuffled(queue) \cup {queue} ELSE {queue}

FirstKill(q) == IF \E i \in DOMAIN q : q[i].val = Kill
                THEN CHOOSE i \in DOMAIN q : q[i].val = Kill /\ \A j \in 1..(i - 1) : q[j].val # Kill
                ELSE 0

Replay(q) == FoldLeft(wow_write, Disk, q)

(* A file that is not dirty is not sent.  A file that cannot be read back  *)
(* is not sent either, and the caller is not told.                         *)
writebackToServer(f, disk, out) ==
    /\ out # "sent" => faults < MaxFaults /\ fh[f] \in disk.dirty
    /\ faults' = faults + (IF out = "sent" THEN 0 ELSE 1)
    /\ server' = IF fh[f] \in disk.dirty /\ out \in {"sent", "answer lost"}
                 THEN [server EXCEPT ![f] = disk.local[f]] ELSE server
    /\ unsent' = CASE fh[f] \in disk.dirty /\ out = "sent" -> unsent \ {f}
                   [] out = "not read" -> unsent \cup {f}
                   [] OTHER -> unsent

(* Mutant of Succeeds: the result of the RPC is not looked at. *)
SucceedsAlways(out) == out \in Outcomes

Succeeds(out) == out \in {"sent", "not read"}

(* Mutant of Flush: the file is sent before the queue is written. *)
FlushSendsFirst(f) ==
    /\ session[f] = "open"
    /\ \E q \in Shuffle, out \in Outcomes :
         /\ FirstKill(q) = 0
         /\ queue' = q
         /\ shuffled' = (shuffled \/ q # queue)
         /\ LET disk == Replay(q)
            IN /\ local' = disk.local
               /\ dirty' = disk.dirty
               /\ writebackToServer(f, Disk, out)
         /\ session' = [session EXCEPT ![f] = IF Succeeds(out) THEN "flushed" ELSE "failed"]
    /\ UNCHANGED <<injection, fds, fh, writes, opens, mine, straight>>

Flush(f) ==
    /\ session[f] = "open"
    /\ \E q \in Shuffle, out \in Outcomes :
         /\ FirstKill(q) = 0
         /\ queue' = q
         /\ shuffled' = (shuffled \/ q # queue)
         /\ LET disk == Replay(q)
            IN /\ local' = disk.local
               /\ dirty' = disk.dirty
               /\ writebackToServer(f, disk, out)
         /\ session' = [session EXCEPT ![f] = IF Succeeds(out) THEN "flushed" ELSE "failed"]
    /\ UNCHANGED <<injection, fds, fh, writes, opens, mine, straight>>

(* raise(SIGSEGV) in the middle of the replay; the client is mounted anew. *)
FlushKilled(f) ==
    /\ session[f] = "open"
    /\ \E q \in Shuffle :
         /\ FirstKill(q) # 0
         /\ local' = Replay(SubSeq(q, 1, FirstKill(q) - 1)).local
    /\ queue' = <<>>
    /\ fds' = [fd \in Fds |-> None]
    /\ dirty' = {}
    /\ session' = [g \in Files |-> "none"]
    /\ fh' = [g \in Files |-> None]
    /\ unsent' = {g \in Files : local'[g] # server[g]}
    /\ shuffled' = FALSE
    /\ UNCHANGED <<injection, server, writes, opens, faults, mine, straight>>

(* The kernel releases a file whether its flush has failed or not. *)
ReleaseCloses(f) ==
    /\ session[f] \in {"flushed", "failed"}
    /\ \E out \in Outcomes : Succeeds(out) /\ writebackToServer(f, Disk, out)
    /\ fds' = [fds EXCEPT ![fh[f]] = None]
    /\ dirty' = dirty \ {fh[f]}
    /\ session' = [session EXCEPT ![f] = "none"]
    /\ fh' = [fh EXCEPT ![f] = None]
    /\ UNCHANGED <<injection, queue, local, writes, opens, mine, straight, shuffled>>

(* The handler returns before close: descriptor and mark stay for good. *)
ReleaseFails(f) ==
    /\ session[f] \in {"flushed", "failed"}
    /\ \E out \in Outcomes : ~Succeeds(out) /\ writebackToServer(f, Disk, out)
    /\ session' = [session EXCEPT ![f] = "none"]
    /\ fh' = [fh EXCEPT ![f] = None]
    /\ UNCHANGED <<injection, queue, fds, dirty, local, writes, opens, mine, straight, shuffled>>

Next ==
    \/ Configure
    \/ \E f \in Files :
         \/ Open(f) \/ Flush(f) \/ FlushKilled(f) \/ ReleaseCloses(f) \/ ReleaseFails(f)
         \/ \E b \in Blocks, n \in 1..Kill : WriteDelayed(f, b, n) \/ WriteNow(f, b, n)

Spec == Init /\ [][Next]_vars

-----------------------------------------------------------------------------
(* Properties. *)

(* The descriptors that failing releases have left open on f. *)
Leaked(f) == {fd \in Fds : fds[fd] = f /\ fd # fh[f]}

(* The shape of the state; a session has its descriptor, and one that is   *)
(* marked dirty is open.                                                   *)
TypeOK ==
    /\ injection \in Injections
    /\ \A i \in DOMAIN queue : queue[i] \in [fd : Fds, block : Blocks, val : (-MaxWrites)..Kill]
    /\ \A f \in Files : IF session[f] = "none" THEN fh[f] = None
                         ELSE fh[f] \in Fds /\ fds[fh[f]] = f
    /\ \A fd \in dirty : fds[fd] # None
    /\ local \in [Files -> [Blocks -> (-MaxWrites)..Kill]]
    /\ server \in [Files -> [Blocks -> (-MaxWrites)..Kill]]

(* Whatever is written into a file, late and by the flush of another one,  *)
(* is on the server when it is closed; but a crash keeps it here, and so   *)
(* does a write-back that cannot read it back.  When the last write-back   *)
(* of a session fails its descriptor stays open: what is delayed there is  *)
(* made one day and sent by nobody.                                        *)
ClosedIsSent ==
    \A f \in Files : session[f] = "none" /\ Leaked(f) = {} /\ f \notin unsent => server[f] = local[f]

(* A close that succeeds has made the delayed writes and sent them, with   *)
(* the same exceptions.                                                    *)
FlushSends ==
    [][\A f \in Files : /\ session[f] = "open" /\ session'[f] = "flushed"
                        /\ Leaked(f) = {} /\ f \notin unsent'
          => server'[f] = local'[f]]_vars

Own(f) ==
    \A i \in DOMAIN queue : fds[queue[i].fd] = f =>
        \E j \in DOMAIN mine[f] : mine[f][j][2] = Number(queue[i].val)

LastWrite(f, b) ==
    LET at == {i \in DOMAIN mine[f] : mine[f][i][1] = b}
    IN mine[f][CHOOSE i \in at : \A j \in at : j <= i][2]

(* Writes of a session may be reordered with each other when that is       *)
(* injected and are otherwise made in order; none is forgotten, also when  *)
(* the close fails.  What is in a block may be damaged by the copy.        *)
(* Nothing is said of a file that a write of another session has got into. *)
CloseKeepsWrites ==
    [][\A f \in Files : session[f] = "open" /\ session'[f] \in {"flushed", "failed"} /\ Own(f)
          => \A i \in DOMAIN mine[f] :
                LET b == mine[f][i][1]
                IN IF straight[f] /\ ~shuffled'
                   THEN Number(local'[f][b]) = LastWrite(f, b)
                   ELSE <<b, Number(local'[f][b])>> \in Range(mine[f])]_vars

(* "Let application think we performed the write"                          *)
(* (unreliablefs_ops.c:566): a session that only delays its writes finds   *)
(* in the file what it has written.  It does not hold of a payload with a  *)
(* NUL in it.                                                              *)
DelayedAsWritten ==
    [][\A f \in Files : session[f] = "open" /\ session'[f] = "flushed" /\ Own(f)
          => \A i \in DOMAIN mine[f] :
                <<mine[f][i][1], local'[f][mine[f][i][1]]>> \in Range(mine[f])]_vars

=============================================================================
