----------------------------- MODULE WowConcert -----------------------------
(***************************************************************************)
(* The A/B test of WowConcert.H: an orchestrator lets the clients close a  *)
(* file that each of them has prepared at the same time, and a sink on the *)
(* server observe what has come of it, round after round.  They talk in    *)
(* UDP messages, which are lost, delayed and repeated; nobody sends one    *)
(* again.  An orchestrator counts messages by kind and origin, and ignores *)
(* what it is not waiting for; a participant likewise.                     *)
(*                                                                         *)
(* close sends the file in flush before it returns, and once more in       *)
(* release, which FUSE calls later.  The 50 ms that the sink sleeps and    *)
(* the messages of a round are taken to be enough for a release to end     *)
(* before its client opens the file again.                                 *)
(***************************************************************************)
EXTENDS Integers, FiniteSets

CONSTANTS
    Clients,        \* NODE_A and NODE_B
    Sink,
    Orchestrator,
    Rounds,         \* --iters
    MaxLost,        \* bound on the messages that are lost
    MaxRepeated,    \* bound on the messages that are delivered twice
    None,
    Repeats         \* kinds of messages that the network may deliver again

Participants == Clients \cup {Sink}
MessageType == {"RESET", "REGISTRATION", "TRIGGER", "READY", "ACK", "GO", "DONE"}
WowPigeon == [from : Participants, to : {Orchestrator}, kind : MessageType]
             \cup [from : {Orchestrator}, to : Participants, kind : MessageType]

ASSUME ConcertAssumption ==
    /\ Sink \notin Clients
    /\ Orchestrator \notin Participants
    /\ None \notin Participants \cup {Orchestrator}
    /\ Clients # {}
    /\ Rounds \in Nat
    /\ MaxLost \in Nat
    /\ MaxRepeated \in Nat
    /\ Repeats \subseteq {"REGISTRATION", "ACK"}

VARIABLES
    net,        \* messages on their way or in the buffer of a socket
    repeated,   \* messages that have been delivered once and come again
    lost,       \* how many messages have been lost
    opc,        \* what the orchestrator is waiting for
    got,        \* cmask: who has sent what it is waiting for
    round,      \* rounds it has started
    pc,         \* participant -> what it is doing
    prepared,   \* client -> the round that its local content is for
    releasing,  \* client -> "no", "due", or the round whose content was read
    server,     \* the file on the server: the round of its content
    closes,     \* client -> how often it has closed the file
    observed    \* how often the sink has read it

orchestratorVars == <<opc, got, round>>
fileVars == <<prepared, releasing, server>>
vars == <<net, repeated, lost, opc, got, round, pc, prepared, releasing, server, closes, observed>>

NoRelease == [due |-> FALSE, read |-> None]

Init ==
    /\ net = {}
    /\ repeated = {}
    /\ lost = 0
    /\ opc = "register"
    /\ got = {}
    /\ round = 0
    /\ pc = [p \in Participants |-> "start"]
    /\ prepared = [c \in Clients |-> 0]
    /\ releasing = [c \in Clients |-> NoRelease]
    /\ server = 0
    /\ closes = [c \in Clients |-> 0]
    /\ observed = 0

-----------------------------------------------------------------------------
(* Sockets. *)

FromOrchestrator(ps, kind) == [from : {Orchestrator}, to : ps, kind : {kind}]
ToOrchestrator(p, kind) == [from |-> p, to |-> Orchestrator, kind |-> kind]

(* recvfrom takes a message; the network may deliver it once more. *)
Take(m) ==
    \/ net' = net \ {m} /\ UNCHANGED repeated
    \/ /\ m.kind \in Repeats
       /\ m \notin repeated
       /\ Cardinality(repeated) < MaxRepeated
       /\ repeated' = repeated \cup {m}
       /\ UNCHANGED net

Lose ==
    /\ lost < MaxLost
    /\ \E m \in net : net' = net \ {m}
    /\ lost' = lost + 1
    /\ UNCHANGED <<repeated, orchestratorVars, pc, fileVars, closes, observed>>

-----------------------------------------------------------------------------
(* The orchestrator: waitRegistrations, waitMsgSubset and perform. *)

WaitMask ==
    IF opc = "writing" \/ (opc = "ready" /\ round > 0) THEN Clients
    ELSE IF opc = "observing" THEN {Sink} ELSE Participants

WaitKind == IF opc = "writing" THEN "DONE" ELSE "READY"

(* waitRegistrations takes a message of any kind for a registration. *)
Counts(m) == m.from \in WaitMask /\ (opc = "register" \/ m.kind = WaitKind)

OrchestratorReceives ==
    /\ opc # "over"
    /\ got # WaitMask
    /\ \E m \in net :
         /\ m.to = Orchestrator
         /\ Take(m)
         /\ got' = IF Counts(m) THEN got \cup {m.from} ELSE got
    /\ UNCHANGED <<lost, opc, round, pc, fileVars, closes, observed>>

(* Mutant of Complete: the first message is enough. *)
CompleteFirst(l) == opc = l /\ got # {}

Complete(l) == opc = l /\ got = WaitMask

(* Mutants of Notify: cmask starts with what it was; one client is told.   *)
NotifyKeepsMask(ps, kind, next) ==
    /\ net' = net \cup FromOrchestrator(ps, kind)
    /\ opc' = next
    /\ UNCHANGED <<repeated, lost, got, pc, fileVars, closes, observed>>

NotifyOne(ps, kind, next) ==
    /\ \E p \in ps : net' = net \cup FromOrchestrator({p}, kind)
    /\ opc' = next
    /\ got' = {}
    /\ UNCHANGED <<repeated, lost, pc, fileVars, closes, observed>>

(* notifyAll, notifyOne and notifyABParallel: whatever the order of the    *)
(* calls, the messages arrive in any order.                                *)
Notify(ps, kind, next) ==
    /\ net' = net \cup FromOrchestrator(ps, kind)
    /\ opc' = next
    /\ got' = {}
    /\ UNCHANGED <<repeated, lost, pc, fileVars, closes, observed>>

Acknowledge ==
    /\ Complete("register")
    /\ Notify(Participants, "ACK", "ready")
    /\ UNCHANGED round

Trigger ==
    /\ Complete("ready")
    /\ round < Rounds
    /\ round' = round + 1
    /\ Notify(Clients, "TRIGGER", "writing")

Go ==
    /\ Complete("writing")
    /\ Notify({Sink}, "GO", "observing")
    /\ UNCHANGED round

Reset ==
    /\ Complete("observing")
    /\ Notify(Clients, "RESET", "ready")
    /\ UNCHANGED round

Over ==
    /\ Complete("ready")
    /\ round = Rounds
    /\ opc' = "over"
    /\ UNCHANGED <<net, repeated, lost, got, round, pc, fileVars, closes, observed>>

-----------------------------------------------------------------------------
(* Participants. *)

Send(p, kind, next) ==
    /\ net' = net \cup {ToOrchestrator(p, kind)}
    /\ pc' = [pc EXCEPT ![p] = next]

Register(p) ==
    /\ pc[p] = "start"
    /\ Send(p, "REGISTRATION", "registered")
    /\ UNCHANGED <<repeated, lost, orchestratorVars, fileVars, closes, observed>>

(* What a participant waits for, and what it does then. *)
Waiting == {"registered", "ready", "done"}

Awaited(p) ==
    IF pc[p] = "registered" THEN "ACK"
    ELSE IF pc[p] = "done" THEN "RESET"
    ELSE IF p = Sink THEN "GO" ELSE "TRIGGER"

Continues(p) ==
    IF pc[p] = "ready" THEN IF p = Sink THEN "observing" ELSE "closing"
    ELSE IF p = Sink THEN "reporting" ELSE "preparing"

(* Mutant of ParticipantReceives: waitFor does not look at the kind. *)
ParticipantReceivesAny(p) ==
    /\ pc[p] \in Waiting
    /\ \E m \in net :
         /\ m.to = p
         /\ Take(m)
         /\ pc' = [pc EXCEPT ![p] = Continues(p)]
    /\ UNCHANGED <<lost, orchestratorVars, fileVars, closes, observed>>

ParticipantReceives(p) ==
    /\ pc[p] \in Waiting
    /\ \E m \in net :
         /\ m.to = p
         /\ Take(m)
         /\ pc' = IF m.kind = Awaited(p) THEN [pc EXCEPT ![p] = Continues(p)] ELSE pc
    /\ UNCHANGED <<lost, orchestratorVars, fileVars, closes, observed>>

(* playClient opens and truncates the file and writes it, which changes    *)
(* the client's copy only.                                                 *)
Prepare(c) ==
    /\ pc[c] = "preparing"
    /\ releasing[c] = NoRelease
    /\ prepared' = [prepared EXCEPT ![c] = closes[c] + 1]
    /\ Send(c, "READY", "ready")
    /\ UNCHANGED <<repeated, lost, orchestratorVars, releasing, server, closes, observed>>

(* Mutant of Close: DONE is sent before the file is closed. *)
CloseLate(c) ==
    /\ pc[c] = "closing"
    /\ closes' = [closes EXCEPT ![c] = @ + 1]
    /\ releasing' = [releasing EXCEPT ![c] = [due |-> TRUE, read |-> None]]
    /\ Send(c, "DONE", "done")
    /\ UNCHANGED <<repeated, lost, orchestratorVars, prepared, server, observed>>

Close(c) ==
    /\ pc[c] = "closing"
    /\ server' = prepared[c]
    /\ closes' = [closes EXCEPT ![c] = @ + 1]
    /\ releasing' = [releasing EXCEPT ![c] = [due |-> TRUE, read |-> None]]
    /\ Send(c, "DONE", "done")
    /\ UNCHANGED <<repeated, lost, orchestratorVars, prepared, observed>>

(* release reads the copy and sends it once more. *)
ReleaseRead(c) ==
    /\ releasing[c].due
    /\ releasing' = [releasing EXCEPT ![c] = [due |-> FALSE, read |-> prepared[c]]]
    /\ UNCHANGED <<net, repeated, lost, orchestratorVars, pc, prepared, server, closes, observed>>

ReleaseSend(c) ==
    /\ releasing[c].read # None
    /\ server' = releasing[c].read
    /\ releasing' = [releasing EXCEPT ![c] = NoRelease]
    /\ UNCHANGED <<net, repeated, lost, orchestratorVars, pc, prepared, closes, observed>>

(* playSink: READY after the registration, and after every observation. *)
Report ==
    /\ pc[Sink] = "reporting"
    /\ Send(Sink, "READY", "ready")
    /\ UNCHANGED <<repeated, lost, orchestratorVars, fileVars, closes, observed>>

Observe ==
    /\ pc[Sink] = "observing"
    /\ observed' = observed + 1
    /\ pc' = [pc EXCEPT ![Sink] = "reporting"]
    /\ UNCHANGED <<net, repeated, lost, orchestratorVars, fileVars, closes>>

OrchestratorStep ==
    OrchestratorReceives \/ Acknowledge \/ Trigger \/ Go \/ Reset \/ Over

ClientStep(c) ==
    Prepare(c) \/ Close(c) \/ ReleaseRead(c) \/ ReleaseSend(c)

ParticipantStep(p) == Register(p) \/ ParticipantReceives(p)

Next ==
    \/ OrchestratorStep
    \/ \E p \in Participants : ParticipantStep(p)
    \/ \E c \in Clients : ClientStep(c)
    \/ Report \/ Observe
    \/ Lose

(* Every program runs on and takes what is in its socket, and a release is *)
(* called in the end.                                                      *)
Fairness ==
    /\ WF_vars(OrchestratorStep)
    /\ \A p \in Participants : WF_vars(ParticipantStep(p))
    /\ \A c \in Clients :
         WF_vars(Prepare(c) \/ Close(c)) /\ WF_vars(ReleaseRead(c) \/ ReleaseSend(c))
    /\ WF_vars(Report \/ Observe)

Spec == Init /\ [][Next]_vars /\ Fairness

-----------------------------------------------------------------------------
(* Properties. *)

(* The shape of the state. *)
TypeOK ==
    /\ net \subseteq WowPigeon
    /\ repeated \subseteq WowPigeon
    /\ lost \in 0..MaxLost
    /\ opc \in {"register", "ready", "writing", "observing", "over"}
    /\ got \subseteq WaitMask
    /\ round \in 0..Rounds
    /\ pc \in [Participants -> {"start", "registered", "preparing", "reporting", "ready",
                                "closing", "done", "observing"}]
    /\ prepared \in [Clients -> Nat]
    /\ releasing \in [Clients -> [due : BOOLEAN, read : Nat \cup {None}]]
    /\ server \in Nat
    /\ closes \in [Clients -> Nat]
    /\ observed \in Nat

(* There is never more than one message between the orchestrator and a     *)
(* participant that still counts, so no delay can bring one into a round   *)
(* it was not sent in.                                                     *)
OneOutstanding ==
    \A p \in Participants :
        Cardinality({m \in net : p \in {m.from, m.to} /\ m.kind \notin {"REGISTRATION", "ACK"}}) <= 1

(* No client is a round ahead: it closes for the n-th time when the sink   *)
(* has read n - 1 times, and the sink reads when all have closed.          *)
InStep ==
    /\ \A c \in Clients : closes[c] \in {observed, observed + 1}
    /\ pc[Sink] = "observing" => \A c \in Clients : closes[c] = observed + 1

(* "make sure, we actually read something": what the sink reads is what    *)
(* was closed in its round, whichever client was last, and a release that  *)
(* is late does not change it.                                             *)
SinkSeesRound == pc[Sink] = "observing" => server = observed + 1

(* A concert comes to its end unless a message is lost. *)
Finishes == <>(lost > 0 \/ (opc = "over" /\ observed = Rounds))

=============================================================================
