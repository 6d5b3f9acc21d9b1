-------------------------- MODULE WowConcertProofs --------------------------
(***************************************************************************)
(* The safety properties of WowConcert for any number of clients, rounds,  *)
(* lost and repeated messages.  Who may be where follows from a table: for *)
(* every state of the orchestrator it says what a participant may be doing *)
(* and which message may be between the two.                               *)
(***************************************************************************)
EXTENDS WowConcert, FiniteSetTheorems, TLAPS

(* Messages other than those that may come again. *)
Counting(m) == m.kind \notin {"REGISTRATION", "ACK"}
Of(m, p) == m.from = p \/ m.to = p

(* Between p and the orchestrator there is no message that counts, none    *)
(* but the last one p has sent, or none but the last one sent to it.       *)
Quiet(p) == \A m \in net : Of(m, p) => ~Counting(m)
Sent(p, kind) ==
    /\ \A m \in net : Of(m, p) /\ Counting(m) => m = ToOrchestrator(p, kind)
    /\ p \in got => Quiet(p)
Told(p, kind) ==
    /\ \A m \in net : Of(m, p) /\ Counting(m) =>
         m = [from |-> Orchestrator, to |-> p, kind |-> kind]
    /\ p \notin got

ClientPlace(c) ==
    \/ opc = "register" /\ pc[c] \in {"start", "registered"} /\ Quiet(c)
    \/ opc = "ready" /\ pc[c] \in {"start", "registered", "preparing"} /\ Quiet(c) /\ c \notin got
    \/ opc = "ready" /\ pc[c] = "ready" /\ Sent(c, "READY")
    \/ opc = "ready" /\ pc[c] = "done" /\ Told(c, "RESET")
    \/ opc = "writing" /\ pc[c] = "ready" /\ Told(c, "TRIGGER")
    \/ opc = "writing" /\ pc[c] = "closing" /\ Quiet(c) /\ c \notin got
    \/ opc = "writing" /\ pc[c] = "done" /\ Sent(c, "DONE")
    \/ opc = "observing" /\ pc[c] = "done" /\ Quiet(c)
    \/ opc = "over" /\ pc[c] = "ready" /\ Quiet(c)

SinkPlace(s) ==
    \/ opc = "register" /\ pc[s] \in {"start", "registered"} /\ Quiet(s) /\ observed = round
    \/ /\ opc = "ready" /\ round = 0 /\ pc[s] \in {"start", "registered", "reporting"}
       /\ Quiet(s) /\ s \notin got /\ observed = round
    \/ opc = "ready" /\ round = 0 /\ pc[s] = "ready" /\ Sent(s, "READY") /\ observed = round
    \/ opc = "ready" /\ round > 0 /\ pc[s] = "ready" /\ Quiet(s) /\ observed = round
    \/ opc = "writing" /\ pc[s] = "ready" /\ Quiet(s) /\ observed = round - 1
    \/ opc = "observing" /\ pc[s] = "ready" /\ Told(s, "GO") /\ observed = round - 1
    \/ /\ opc = "observing" /\ pc[s] = "observing" /\ Quiet(s) /\ s \notin got
       /\ observed = round - 1
    \/ /\ opc = "observing" /\ pc[s] = "reporting" /\ Quiet(s) /\ s \notin got
       /\ observed = round
    \/ opc = "observing" /\ pc[s] = "ready" /\ Sent(s, "READY") /\ observed = round
    \/ opc = "over" /\ pc[s] = "ready" /\ Quiet(s) /\ observed = round

(* How often a client has closed its file, and what is in it. *)
ClientFile(c) ==
    /\ closes[c] = IF opc = "writing" /\ pc[c] # "done" THEN round - 1 ELSE round
    /\ prepared[c] = IF pc[c] \in {"ready", "closing"} THEN closes[c] + 1 ELSE closes[c]
    /\ releasing[c] # NoRelease => pc[c] \in {"done", "preparing"}
    /\ releasing[c].read # None => releasing[c].read = prepared[c]

(* The rounds, and the file on the server once a client has closed it. *)
Orchestra ==
    /\ opc = "register" => round = 0 /\ \A m \in net : m.kind = "REGISTRATION"
    /\ opc \in {"writing", "observing"} =>
         /\ round > 0
         /\ (\E c \in Clients : pc[c] = "done") => server = round

IInv ==
    /\ TypeOK
    /\ \A c \in Clients : ClientPlace(c)
    /\ SinkPlace(Sink)
    /\ \A c \in Clients : ClientFile(c)
    /\ Orchestra

-----------------------------------------------------------------------------
USE ConcertAssumption

Places == {"start", "registered", "preparing", "reporting", "ready", "closing", "done",
           "observing"}

(* Taking a message off a socket removes it when it counts, and never      *)
(* brings another.                                                         *)
LEMMA TakeFact ==
    ASSUME NEW m, Take(m)
    PROVE  /\ net' \subseteq net
           /\ Counting(m) => net' = net \ {m}
BY DEF Take, Counting

(* The type invariant is inductive. *)
LEMMA TypeNext == TypeOK /\ [Next]_vars => TypeOK'
<1> SUFFICES ASSUME TypeOK, [Next]_vars PROVE TypeOK'
    OBVIOUS
<1> USE DEF TypeOK
<1>1. ASSUME NEW m \in net, Take(m)
      PROVE  net' \subseteq WowPigeon /\ repeated' \subseteq WowPigeon
    BY <1>1 DEF Take
<1>2. ASSUME NEW p \in Participants, NEW kind \in MessageType
      PROVE  /\ ToOrchestrator(p, kind) \in WowPigeon
             /\ \A ps \in SUBSET Participants : FromOrchestrator(ps, kind) \subseteq WowPigeon
    BY DEF ToOrchestrator, FromOrchestrator, WowPigeon
<1>3. CASE OrchestratorReceives
    <2> PICK m \in net : /\ Take(m)
                         /\ got' = IF Counts(m) THEN got \cup {m.from} ELSE got
        BY <1>3 DEF OrchestratorReceives
    <2>1. net' \subseteq WowPigeon /\ repeated' \subseteq WowPigeon
        BY <1>1
    <2>2. got' \subseteq WaitMask /\ WaitMask' = WaitMask
        BY <1>3 DEF OrchestratorReceives, Counts, WaitMask
    <2> QED BY <1>3, <2>1, <2>2 DEF OrchestratorReceives, fileVars
<1>4. CASE Acknowledge
    BY <1>4, <1>2 DEF Acknowledge, Notify, fileVars, Participants, MessageType
<1>5. CASE Trigger
    BY <1>5, <1>2 DEF Trigger, Notify, fileVars, Participants, MessageType
<1>6. CASE Go
    BY <1>6, <1>2 DEF Go, Notify, fileVars, Participants, MessageType
<1>7. CASE Reset
    BY <1>7, <1>2 DEF Reset, Notify, fileVars, Participants, MessageType
<1>8. CASE Over
    BY <1>8 DEF Over, fileVars, WaitMask, Participants
<1>9. ASSUME NEW p \in Participants, ParticipantStep(p) PROVE TypeOK'
    <2>1. WaitMask' = WaitMask
        BY <1>9 DEF ParticipantStep, Register, ParticipantReceives, orchestratorVars, WaitMask
    <2>2. CASE Register(p)
        BY <1>2, <2>1, <2>2 DEF Register, Send, MessageType, fileVars, orchestratorVars
    <2>3. CASE ParticipantReceives(p)
        <3> PICK m \in net :
               /\ Take(m)
               /\ pc' = IF m.kind = Awaited(p) THEN [pc EXCEPT ![p] = Continues(p)] ELSE pc
            BY <2>3 DEF ParticipantReceives
        <3>1. net' \subseteq WowPigeon /\ repeated' \subseteq WowPigeon
            BY <1>1
        <3>2. pc' \in [Participants -> {"start", "registered", "preparing", "reporting",
                                        "ready", "closing", "done", "observing"}]
            BY DEF Continues
        <3> QED BY <2>1, <2>3, <3>1, <3>2 DEF ParticipantReceives, fileVars, orchestratorVars
    <2> QED BY <1>9, <2>2, <2>3 DEF ParticipantStep
<1>10. ASSUME NEW c \in Clients, ClientStep(c) PROVE TypeOK'
    <2>1. WaitMask' = WaitMask
        BY <1>10 DEF ClientStep, Prepare, Close, ReleaseRead, ReleaseSend, orchestratorVars, WaitMask
    <2>2. CASE Prepare(c)
        BY <1>2, <2>1, <2>2 DEF Prepare, Send, MessageType, Participants, orchestratorVars
    <2>3. CASE Close(c)
        BY <1>2, <2>1, <2>3 DEF Close, Send, MessageType, Participants, orchestratorVars
    <2>4. CASE ReleaseRead(c)
        BY <2>1, <2>4 DEF ReleaseRead, orchestratorVars
    <2>5. CASE ReleaseSend(c)
        BY <2>1, <2>5 DEF ReleaseSend, NoRelease, orchestratorVars
    <2> QED BY <1>10, <2>2, <2>3, <2>4, <2>5 DEF ClientStep
<1>11. CASE Report
    BY <1>2, <1>11 DEF Report, Send, MessageType, Participants, fileVars, orchestratorVars, WaitMask
<1>12. CASE Observe
    BY <1>12 DEF Observe, Participants, fileVars, orchestratorVars, WaitMask
<1>13. CASE Lose
    BY <1>13 DEF Lose, fileVars, orchestratorVars, WaitMask
<1>14. CASE UNCHANGED vars
    BY <1>14 DEF vars, WaitMask
<1> QED
    BY <1>3, <1>4, <1>5, <1>6, <1>7, <1>8, <1>9, <1>10, <1>11, <1>12, <1>13, <1>14
    DEF Next, OrchestratorStep

(* A participant keeps its place when its part of the state stays, but for *)
(* messages that do not count and messages that go.                        *)
LEMMA ClientKept ==
    ASSUME NEW c \in Clients, ClientPlace(c),
           opc' = opc, pc'[c] = pc[c], c \in got' <=> c \in got,
           \A m \in net' : Of(m, c) /\ Counting(m) => m \in net
    PROVE  ClientPlace(c)'
BY DEF ClientPlace, Quiet, Sent, Told, Of, Counting, ToOrchestrator

LEMMA SinkKept ==
    ASSUME SinkPlace(Sink), opc' = opc, round' = round, observed' = observed,
           pc'[Sink] = pc[Sink], Sink \in got' <=> Sink \in got,
           \A m \in net' : Of(m, Sink) /\ Counting(m) => m \in net
    PROVE  SinkPlace(Sink)'
BY DEF SinkPlace, Quiet, Sent, Told, Of, Counting, ToOrchestrator

-----------------------------------------------------------------------------
(* The orchestrator. *)

LEMMA ReceivesNext == IInv /\ OrchestratorReceives /\ TypeOK' => IInv'
<1> SUFFICES ASSUME IInv, OrchestratorReceives, TypeOK' PROVE IInv'
    OBVIOUS
<1> USE DEF IInv, OrchestratorReceives, fileVars
<1> PICK m \in net : /\ m.to = Orchestrator
                     /\ Take(m)
                     /\ got' = IF Counts(m) THEN got \cup {m.from} ELSE got
    OBVIOUS
<1> DEFINE p == m.from
<1>1. p \in Participants /\ m = ToOrchestrator(p, m.kind) /\ m.kind \in MessageType
    BY DEF TypeOK, WowPigeon, ToOrchestrator
<1>2. net' \subseteq net /\ (Counting(m) => net' = net \ {m})
    BY TakeFact
<1>3. \A q \in Participants : q # p \/ ~Counts(m) => (q \in got' <=> q \in got)
    OBVIOUS
<1>4. \A c \in Clients : ClientPlace(c)'
    <2> SUFFICES ASSUME NEW c \in Clients PROVE ClientPlace(c)'
        OBVIOUS
    <2>1. CASE c # p \/ ~Counts(m)
        BY <2>1, <1>2, <1>3, ClientKept DEF Participants
    <2>2. CASE c = p /\ Counts(m)
        <3>1. CASE opc = "register"
            BY <3>1, <2>2, <1>2 DEF ClientPlace, Quiet
        <3>2. CASE opc # "register"
            <4>1. Counting(m) /\ m.kind = WaitKind /\ Of(m, c)
                BY <3>2, <2>2 DEF Counts, Counting, WaitKind, Of
            <4>2. opc \in {"ready", "writing"} /\ Sent(c, WaitKind) /\ (opc = "ready" => pc[c] = "ready")
                  /\ (opc = "writing" => pc[c] = "done")
                BY <4>1, <3>2, <2>2, <1>1
                DEF ClientPlace, Quiet, Sent, Told, WaitKind, ToOrchestrator, Participants
            <4>3. Quiet(c)' /\ Sent(c, WaitKind)'
                BY <4>1, <4>2, <1>1, <1>2 DEF Quiet, Sent, WaitKind, Counting
            <4> QED BY <4>2, <4>3 DEF ClientPlace, WaitKind
        <3> QED BY <3>1, <3>2
    <2> QED BY <2>1, <2>2
<1>5. SinkPlace(Sink)'
    <2>1. CASE Sink # p \/ ~Counts(m)
        BY <2>1, <1>2, <1>3, SinkKept DEF Participants
    <2>2. CASE Sink = p /\ Counts(m)
        <3>1. CASE opc = "register"
            BY <3>1, <2>2, <1>2 DEF SinkPlace, Quiet
        <3>2. CASE opc # "register"
            <4>1. Counting(m) /\ m.kind = WaitKind /\ Of(m, Sink)
                BY <3>2, <2>2 DEF Counts, Counting, WaitKind, Of
            <4>2. /\ opc \in {"ready", "observing"} /\ Sent(Sink, "READY") /\ pc[Sink] = "ready"
                  /\ observed = round /\ (opc = "ready" => round = 0) /\ WaitKind = "READY"
                BY <4>1, <3>2, <2>2, <1>1
                DEF SinkPlace, Quiet, Sent, Told, WaitKind, ToOrchestrator, Participants, Counts, WaitMask
            <4>3. Quiet(Sink)' /\ Sent(Sink, "READY")'
                BY <4>1, <4>2, <1>1, <1>2 DEF Quiet, Sent, Counting
            <4> QED BY <4>2, <4>3 DEF SinkPlace
        <3> QED BY <3>1, <3>2
    <2> QED BY <2>1, <2>2
<1>6. \A c \in Clients : ClientFile(c)'
    BY DEF ClientFile
<1>7. Orchestra'
    BY <1>2 DEF Orchestra
<1> QED BY <1>4, <1>5, <1>6, <1>7

(* A notification reaches those whom the last wait was for: nothing that   *)
(* counts is under way when cmask is complete.                             *)
LEMMA NotifyNext == IInv /\ (Acknowledge \/ Trigger \/ Go \/ Reset \/ Over) /\ TypeOK' => IInv'
<1> SUFFICES ASSUME IInv, Acknowledge \/ Trigger \/ Go \/ Reset \/ Over, TypeOK' PROVE IInv'
    OBVIOUS
<1> USE DEF IInv
<1>a. round \in Nat /\ observed \in Nat
    BY DEF TypeOK
<1>1. CASE Acknowledge
    <2>1. /\ opc = "register" /\ opc' = "ready" /\ got' = {} /\ round' = round /\ pc' = pc
          /\ observed' = observed /\ prepared' = prepared /\ closes' = closes
          /\ releasing' = releasing /\ server' = server
          /\ net' = net \cup FromOrchestrator(Participants, "ACK")
        BY <1>1 DEF Acknowledge, Complete, Notify, fileVars
    <2>2. \A p \in Participants : Quiet(p) => Quiet(p)'
        BY <2>1 DEF Quiet, FromOrchestrator, Counting
    <2>3. \A c \in Clients : ClientPlace(c)'
        BY <2>1, <2>2 DEF ClientPlace, Participants
    <2>4. SinkPlace(Sink)'
        BY <2>1, <2>2 DEF SinkPlace, Participants, Orchestra
    <2>5. (\A c \in Clients : ClientFile(c)') /\ Orchestra'
        BY <2>1 DEF ClientFile, Orchestra
    <2> QED BY <2>3, <2>4, <2>5
<1>2. CASE Trigger
    <2>1. /\ opc = "ready" /\ opc' = "writing" /\ got' = {} /\ round' = round + 1 /\ pc' = pc
          /\ observed' = observed /\ prepared' = prepared /\ closes' = closes
          /\ releasing' = releasing /\ server' = server /\ got = WaitMask
          /\ net' = net \cup FromOrchestrator(Clients, "TRIGGER")
        BY <1>2 DEF Trigger, Complete, Notify, fileVars
    <2>2. \A c \in Clients : c \in got /\ pc[c] = "ready" /\ Quiet(c)
        BY <2>1 DEF WaitMask, Participants, ClientPlace, Sent, Told
    <2>3. \A c \in Clients : Told(c, "TRIGGER")'
        BY <2>1, <2>2 DEF Told, Quiet, FromOrchestrator, Of, Participants
    <2>4. \A c \in Clients : ClientPlace(c)'
        BY <2>1, <2>2, <2>3 DEF ClientPlace
    <2>5. pc[Sink] = "ready" /\ Quiet(Sink) /\ observed = round
        BY <2>1, <1>a DEF SinkPlace, WaitMask, Participants, Sent
    <2>6. Quiet(Sink)'
        BY <2>1, <2>5 DEF Quiet, FromOrchestrator, Of, Participants
    <2>7. SinkPlace(Sink)'
        BY <2>1, <2>5, <2>6, <1>a DEF SinkPlace
    <2>8. \A c \in Clients : ClientFile(c)'
        BY <2>1, <2>2, <1>a DEF ClientFile
    <2>9. Orchestra'
        BY <2>1, <2>2, <1>a DEF Orchestra
    <2> QED BY <2>4, <2>7, <2>8, <2>9
<1>3. CASE Go
    <2>1. /\ opc = "writing" /\ opc' = "observing" /\ got' = {} /\ round' = round /\ pc' = pc
          /\ observed' = observed /\ prepared' = prepared /\ closes' = closes
          /\ releasing' = releasing /\ server' = server /\ got = Clients
          /\ net' = net \cup FromOrchestrator({Sink}, "GO")
        BY <1>3 DEF Go, Complete, Notify, fileVars, WaitMask
    <2>2. \A c \in Clients : pc[c] = "done" /\ Quiet(c)
        BY <2>1 DEF ClientPlace, Sent, Told
    <2>3. \A c \in Clients : Quiet(c)'
        BY <2>1, <2>2 DEF Quiet, FromOrchestrator, Of, Participants
    <2>4. \A c \in Clients : ClientPlace(c)'
        BY <2>1, <2>2, <2>3 DEF ClientPlace
    <2>5. Told(Sink, "GO")'
        BY <2>1 DEF SinkPlace, Told, Quiet, FromOrchestrator, Of, Participants
    <2>6. SinkPlace(Sink)'
        BY <2>1, <2>5 DEF SinkPlace
    <2>7. \A c \in Clients : ClientFile(c)'
        BY <2>1, <2>2 DEF ClientFile
    <2>8. Orchestra'
        BY <2>1 DEF Orchestra
    <2> QED BY <2>4, <2>6, <2>7, <2>8
<1>4. CASE Reset
    <2>1. /\ opc = "observing" /\ opc' = "ready" /\ got' = {} /\ round' = round /\ pc' = pc
          /\ observed' = observed /\ prepared' = prepared /\ closes' = closes
          /\ releasing' = releasing /\ server' = server /\ got = {Sink}
          /\ net' = net \cup FromOrchestrator(Clients, "RESET")
        BY <1>4 DEF Reset, Complete, Notify, fileVars, WaitMask
    <2>2. \A c \in Clients : Told(c, "RESET")'
        BY <2>1 DEF ClientPlace, Told, Quiet, FromOrchestrator, Of, Participants
    <2>3. \A c \in Clients : ClientPlace(c)'
        BY <2>1, <2>2 DEF ClientPlace
    <2>4. pc[Sink] = "ready" /\ Quiet(Sink) /\ observed = round /\ round > 0
        BY <2>1 DEF SinkPlace, Sent, Told, Orchestra
    <2>5. Quiet(Sink)'
        BY <2>1, <2>4 DEF Quiet, FromOrchestrator, Of, Participants
    <2>6. SinkPlace(Sink)'
        BY <2>1, <2>4, <2>5 DEF SinkPlace
    <2>7. (\A c \in Clients : ClientFile(c)') /\ Orchestra'
        BY <2>1 DEF ClientFile, Orchestra
    <2> QED BY <2>3, <2>6, <2>7
<1>5. CASE Over
    <2>1. /\ opc = "ready" /\ opc' = "over" /\ got' = got /\ round' = round /\ pc' = pc
          /\ observed' = observed /\ prepared' = prepared /\ closes' = closes
          /\ releasing' = releasing /\ server' = server /\ got = WaitMask /\ net' = net
        BY <1>5 DEF Over, Complete, fileVars
    <2>2. \A c \in Clients : c \in got /\ pc[c] = "ready" /\ Quiet(c)
        BY <2>1 DEF WaitMask, Participants, ClientPlace, Sent, Told
    <2>3. pc[Sink] = "ready" /\ Quiet(Sink) /\ observed = round
        BY <2>1, <1>a DEF SinkPlace, WaitMask, Participants, Sent
    <2>4. \A p \in Participants : Quiet(p) => Quiet(p)'
        BY <2>1 DEF Quiet
    <2>5. (\A c \in Clients : ClientPlace(c)') /\ SinkPlace(Sink)'
        BY <2>1, <2>2, <2>3, <2>4 DEF ClientPlace, SinkPlace, Participants
    <2>6. (\A c \in Clients : ClientFile(c)') /\ Orchestra'
        BY <2>1 DEF ClientFile, Orchestra
    <2> QED BY <2>5, <2>6
<1> QED BY <1>1, <1>2, <1>3, <1>4, <1>5

-----------------------------------------------------------------------------
(* The participants. *)

LEMMA RegisterNext ==
    ASSUME NEW p \in Participants, IInv, Register(p), TypeOK' PROVE IInv'
<1> USE DEF IInv
<1>1. /\ pc[p] = "start" /\ opc' = opc /\ got' = got /\ round' = round /\ observed' = observed
      /\ prepared' = prepared /\ closes' = closes /\ releasing' = releasing /\ server' = server
      /\ net' = net \cup {ToOrchestrator(p, "REGISTRATION")}
      /\ pc' = [pc EXCEPT ![p] = "registered"] /\ pc \in [Participants -> Places]
    BY DEF Register, Send, orchestratorVars, fileVars, TypeOK, Places
<1>2. \A m \in net' : Counting(m) => m \in net
    BY <1>1 DEF ToOrchestrator, Counting
<1>3. Quiet(p) => Quiet(p)'
    BY <1>2 DEF Quiet
<1>4. ASSUME NEW c \in Clients PROVE ClientPlace(c)'
    <2>1. CASE c # p BY <2>1, <1>1, <1>2, ClientKept DEF Participants
    <2>2. CASE c = p BY <2>2, <1>1, <1>3 DEF ClientPlace, Participants
    <2> QED BY <2>1, <2>2
<1>5. SinkPlace(Sink)'
    <2>1. CASE Sink # p BY <2>1, <1>1, <1>2, SinkKept DEF Participants
    <2>2. CASE Sink = p BY <2>2, <1>1, <1>3 DEF SinkPlace, Participants
    <2> QED BY <2>1, <2>2
<1>6. \A c \in Clients : ClientFile(c)'
    BY <1>1 DEF ClientFile, Participants
<1>7. Orchestra'
    BY <1>1 DEF Orchestra, ToOrchestrator, Participants
<1> QED BY <1>4, <1>5, <1>6, <1>7

(* A message is taken that p may or may not be waiting for; the table says *)
(* that the one it waits for brings it to where it may be.                 *)
LEMMA ParticipantReceivesNext ==
    ASSUME NEW p \in Participants, IInv, ParticipantReceives(p), TypeOK' PROVE IInv'
<1> USE DEF IInv
<1> PICK m \in net :
      /\ m.to = p
      /\ Take(m)
      /\ pc' = IF m.kind = Awaited(p) THEN [pc EXCEPT ![p] = Continues(p)] ELSE pc
    BY DEF ParticipantReceives
<1>1. /\ pc[p] \in Waiting /\ opc' = opc /\ got' = got /\ round' = round /\ observed' = observed
      /\ prepared' = prepared /\ closes' = closes /\ releasing' = releasing /\ server' = server
      /\ pc \in [Participants -> Places]
    BY DEF ParticipantReceives, orchestratorVars, fileVars, TypeOK, Places
<1>2. net' \subseteq net /\ (Counting(m) => net' = net \ {m})
    BY TakeFact
<1>3. m = [from |-> Orchestrator, to |-> p, kind |-> m.kind]
    BY DEF TypeOK, WowPigeon
<1>4. CASE m.kind # Awaited(p)
    <2>1. pc' = pc
        BY <1>4
    <2>2. \A c \in Clients : ClientPlace(c)'
        BY <2>1, <1>1, <1>2, ClientKept
    <2>3. SinkPlace(Sink)'
        BY <2>1, <1>1, <1>2, SinkKept
    <2>4. (\A c \in Clients : ClientFile(c)') /\ Orchestra'
        BY <2>1, <1>1, <1>2 DEF ClientFile, Orchestra
    <2> QED BY <2>2, <2>3, <2>4
<1>5. CASE m.kind = Awaited(p)
    <2>1. pc' = [pc EXCEPT ![p] = Continues(p)]
        BY <1>5
    <2>2. Orchestra'
        BY <2>1, <1>1, <1>2 DEF Orchestra, Continues, Participants
    <2>3. CASE pc[p] = "registered"
        <3>1. m.kind = "ACK" /\ opc # "register"
            BY <2>3, <1>5 DEF Awaited, Orchestra
        <3>2. \A q \in Participants : Quiet(q) => Quiet(q)'
            BY <1>2 DEF Quiet
        <3>3. CASE p = Sink
            <4>1. pc' = [pc EXCEPT ![p] = "reporting"]
                BY <2>1, <2>3, <3>3 DEF Continues
            <4>2. SinkPlace(Sink)'
                BY <4>1, <1>1, <2>3, <3>1, <3>2, <3>3 DEF SinkPlace
            <4>3. \A c \in Clients : ClientPlace(c)' /\ ClientFile(c)'
                BY <4>1, <1>1, <1>2, <3>3, ClientKept DEF ClientFile, Participants
            <4> QED BY <2>2, <4>2, <4>3
        <3>4. CASE p # Sink
            <4>1. pc' = [pc EXCEPT ![p] = "preparing"] /\ p \in Clients
                BY <2>1, <2>3, <3>4 DEF Continues, Participants
            <4>2. SinkPlace(Sink)'
                BY <4>1, <1>1, <1>2, <3>4, SinkKept DEF Participants
            <4>3. ASSUME NEW c \in Clients PROVE ClientPlace(c)'
                <5>1. CASE c # p BY <5>1, <4>1, <1>1, <1>2, ClientKept
                <5>2. CASE c = p BY <5>2, <4>1, <1>1, <2>3, <3>1, <3>2 DEF ClientPlace
                <5> QED BY <5>1, <5>2
            <4>4. \A c \in Clients : ClientFile(c)'
                BY <4>1, <1>1, <2>3 DEF ClientFile, Participants
            <4> QED BY <2>2, <4>2, <4>3, <4>4
        <3> QED BY <3>3, <3>4
    <2>4. CASE pc[p] # "registered"
        <3>1. Counting(m) /\ Of(m, p) /\ net' = net \ {m}
            BY <2>4, <1>1, <1>2, <1>5 DEF Awaited, Counting, Of, Waiting
        <3>2. CASE p = Sink
            <4>1. /\ pc[Sink] = "ready" /\ opc = "observing" /\ Told(Sink, "GO")
                  /\ observed = round - 1
                BY <3>1, <3>2, <2>4, <1>1, <1>3, <1>5
                DEF SinkPlace, Quiet, Sent, Told, ToOrchestrator, Waiting, Awaited, Participants
            <4>2. pc' = [pc EXCEPT ![Sink] = "observing"]
                BY <4>1, <2>1, <3>2 DEF Continues
            <4>3. Quiet(Sink)' /\ Sink \notin got
                BY <3>1, <3>2, <4>1, <1>3, <1>5 DEF Quiet, Told, Awaited
            <4>4. SinkPlace(Sink)'
                BY <4>1, <4>2, <4>3, <1>1, <3>2 DEF SinkPlace
            <4>5. \A c \in Clients : ClientPlace(c)' /\ ClientFile(c)'
                BY <4>2, <1>1, <1>2, ClientKept DEF ClientFile, Participants
            <4> QED BY <2>2, <4>4, <4>5
        <3>3. CASE p # Sink
            <4>1. /\ p \in Clients /\ p \notin got
                  /\ \/ pc[p] = "ready" /\ opc = "writing" /\ Told(p, "TRIGGER")
                     \/ pc[p] = "done" /\ opc = "ready" /\ Told(p, "RESET")
                BY <3>1, <3>3, <2>4, <1>1, <1>3, <1>5
                DEF ClientPlace, Quiet, Sent, Told, ToOrchestrator, Waiting, Awaited, Participants
            <4>2. pc' = [pc EXCEPT ![p] = IF pc[p] = "ready" THEN "closing" ELSE "preparing"]
                BY <2>1, <3>3 DEF Continues
            <4>3. Quiet(p)'
                BY <3>1, <3>3, <4>1, <1>3, <1>5 DEF Quiet, Told, Awaited
            <4>4. ASSUME NEW c \in Clients PROVE ClientPlace(c)'
                <5>1. CASE c # p BY <5>1, <4>2, <1>1, <1>2, ClientKept
                <5>2. CASE c = p BY <5>2, <4>1, <4>2, <4>3, <1>1 DEF ClientPlace
                <5> QED BY <5>1, <5>2
            <4>5. SinkPlace(Sink)'
                BY <4>2, <1>1, <1>2, <3>3, SinkKept DEF Participants
            <4>6. \A c \in Clients : ClientFile(c)'
                BY <4>1, <4>2, <1>1 DEF ClientFile, Participants
            <4> QED BY <2>2, <4>4, <4>5, <4>6
        <3> QED BY <3>2, <3>3
    <2> QED BY <2>3, <2>4
<1> QED BY <1>4, <1>5

(* A client or the sink sends the message that the table has for its new   *)
(* place; there was none that counts before.                               *)
LEMMA PrepareNext ==
    ASSUME NEW c \in Clients, IInv, Prepare(c), TypeOK' PROVE IInv'
<1> USE DEF IInv
<1>1. /\ pc[c] = "preparing" /\ opc' = opc /\ got' = got /\ round' = round /\ observed' = observed
      /\ closes' = closes /\ releasing' = releasing /\ server' = server
      /\ releasing[c] = NoRelease /\ prepared' = [prepared EXCEPT ![c] = closes[c] + 1]
      /\ net' = net \cup {ToOrchestrator(c, "READY")}
      /\ pc' = [pc EXCEPT ![c] = "ready"] /\ pc \in [Participants -> Places]
      /\ prepared \in [Clients -> Nat]
    BY DEF Prepare, Send, orchestratorVars, TypeOK, Places
<1>2. opc = "ready" /\ Quiet(c) /\ c \notin got
    BY <1>1 DEF ClientPlace
<1>3. ASSUME NEW d \in Clients PROVE ClientPlace(d)'
    <2>1. CASE d # c
        BY <2>1, <1>1, ClientKept DEF Participants, ToOrchestrator, Of
    <2>2. CASE d = c
        <3>1. Sent(c, "READY")'
            BY <1>1, <1>2 DEF Sent, Quiet
        <3> QED BY <2>2, <3>1, <1>1, <1>2 DEF ClientPlace, Participants
    <2> QED BY <2>1, <2>2
<1>4. SinkPlace(Sink)'
    BY <1>1, SinkKept DEF Participants, ToOrchestrator, Of
<1>5. \A d \in Clients : ClientFile(d)'
    <2>1. /\ NoRelease.read = None /\ releasing[c] = NoRelease
          /\ closes[c] = round
        BY <1>1, <1>2 DEF NoRelease, ClientFile
    <2> HIDE DEF NoRelease
    <2> QED BY <1>1, <1>2, <2>1 DEF ClientFile, Participants
<1>6. Orchestra'
    BY <1>1, <1>2 DEF Orchestra
<1> QED BY <1>3, <1>4, <1>5, <1>6

LEMMA CloseNext ==
    ASSUME NEW c \in Clients, IInv, Close(c), TypeOK' PROVE IInv'
<1> USE DEF IInv
<1>1. /\ pc[c] = "closing" /\ opc' = opc /\ got' = got /\ round' = round /\ observed' = observed
      /\ closes' = [closes EXCEPT ![c] = @ + 1] /\ server' = prepared[c] /\ prepared' = prepared
      /\ releasing' = [releasing EXCEPT ![c] = [due |-> TRUE, read |-> None]]
      /\ net' = net \cup {ToOrchestrator(c, "DONE")}
      /\ pc' = [pc EXCEPT ![c] = "done"] /\ pc \in [Participants -> Places]
      /\ closes \in [Clients -> Nat] /\ prepared \in [Clients -> Nat] /\ round \in Nat
      /\ releasing \in [Clients -> [due : BOOLEAN, read : Nat \cup {None}]]
    BY DEF Close, Send, orchestratorVars, TypeOK, Places
<1>2. opc = "writing" /\ Quiet(c) /\ c \notin got
    BY <1>1 DEF ClientPlace
<1>3. ASSUME NEW d \in Clients PROVE ClientPlace(d)'
    <2>1. CASE d # c
        BY <2>1, <1>1, ClientKept DEF Participants, ToOrchestrator, Of
    <2>2. CASE d = c
        <3>1. Sent(c, "DONE")'
            BY <1>1, <1>2 DEF Sent, Quiet
        <3> QED BY <2>2, <3>1, <1>1, <1>2 DEF ClientPlace, Participants
    <2> QED BY <2>1, <2>2
<1>4. SinkPlace(Sink)'
    BY <1>1, SinkKept DEF Participants, ToOrchestrator, Of
<1>5. prepared[c] = round /\ closes[c] = round - 1
    BY <1>1, <1>2 DEF ClientFile
<1>6. \A d \in Clients : ClientFile(d)'
    BY <1>1, <1>2, <1>5 DEF ClientFile, Participants
<1>7. Orchestra'
    BY <1>1, <1>2, <1>5 DEF Orchestra
<1> QED BY <1>3, <1>4, <1>6, <1>7

(* release sends the content of its own round once more. *)
LEMMA ReleaseNext ==
    ASSUME NEW c \in Clients, IInv, ReleaseRead(c) \/ ReleaseSend(c), TypeOK' PROVE IInv'
<1> USE DEF IInv
<1>1. /\ net' = net /\ opc' = opc /\ got' = got /\ round' = round /\ observed' = observed
      /\ closes' = closes /\ prepared' = prepared /\ pc' = pc
      /\ releasing \in [Clients -> [due : BOOLEAN, read : Nat \cup {None}]]
    BY DEF ReleaseRead, ReleaseSend, orchestratorVars, TypeOK, Places
<1>2. \A d \in Clients : ClientPlace(d)'
    BY <1>1, ClientKept
<1>3. SinkPlace(Sink)'
    BY <1>1, SinkKept
<1>4. releasing[c] # NoRelease
    BY DEF ReleaseRead, ReleaseSend, NoRelease
<1>5. \A d \in Clients : ClientFile(d)'
    <2>1. CASE ReleaseRead(c)
        <3>1. releasing' = [releasing EXCEPT ![c] = [due |-> FALSE, read |-> prepared[c]]]
            BY <2>1 DEF ReleaseRead
        <3> QED BY <1>1, <1>4, <3>1 DEF ClientFile
    <2>2. CASE ReleaseSend(c)
        <3>1. releasing' = [releasing EXCEPT ![c] = NoRelease] /\ NoRelease.read = None
            BY <2>2 DEF ReleaseSend, NoRelease
        <3> QED BY <1>1, <3>1 DEF ClientFile
    <2> QED BY <2>1, <2>2
<1>6. Orchestra'
    <2>1. CASE ReleaseRead(c)
        BY <2>1, <1>1 DEF ReleaseRead, Orchestra
    <2>2. CASE ReleaseSend(c)
        <3>1. /\ server' = prepared[c] /\ pc[c] \in {"done", "preparing"}
              /\ prepared[c] = closes[c]
            BY <2>2, <1>4 DEF ReleaseSend, ClientFile
        <3>2. opc \in {"writing", "observing"} => closes[c] = round
            BY <3>1 DEF ClientPlace, ClientFile
        <3> QED BY <1>1, <3>1, <3>2 DEF Orchestra
    <2> QED BY <2>1, <2>2
<1> QED BY <1>2, <1>3, <1>5, <1>6

LEMMA SinkNext == IInv /\ (Report \/ Observe) /\ TypeOK' => IInv'
<1> SUFFICES ASSUME IInv, Report \/ Observe, TypeOK' PROVE IInv'
    OBVIOUS
<1> USE DEF IInv
<1>1. /\ opc' = opc /\ got' = got /\ round' = round /\ closes' = closes
      /\ releasing' = releasing /\ server' = server /\ prepared' = prepared
      /\ pc \in [Participants -> Places] /\ Sink \in Participants
      /\ \A q \in Participants \ {Sink} : pc'[q] = pc[q]
      /\ round \in Nat /\ observed \in Nat
    BY DEF Report, Observe, Send, orchestratorVars, fileVars, TypeOK, Places, Participants
<1>2. \A m \in net' : m \in net \/ m = ToOrchestrator(Sink, "READY")
    BY DEF Report, Observe, Send
<1>3. ASSUME NEW d \in Clients PROVE ClientPlace(d)'
    BY <1>1, <1>2, ClientKept DEF Participants, ToOrchestrator, Of
<1>4. \A d \in Clients : ClientFile(d)'
    BY <1>1 DEF ClientFile, Participants
<1>5. Orchestra'
    <2>1. opc # "register"
        BY DEF SinkPlace, Report, Observe
    <2> QED BY <1>1, <2>1 DEF Orchestra, Participants
<1>6. CASE Report
    <2>1. /\ pc[Sink] = "reporting" /\ pc'[Sink] = "ready" /\ observed' = observed
          /\ net' = net \cup {ToOrchestrator(Sink, "READY")}
        BY <1>6, <1>1 DEF Report, Send
    <2>2. /\ Quiet(Sink) /\ Sink \notin got /\ observed = round
          /\ (opc = "ready" /\ round = 0) \/ opc = "observing"
        BY <2>1 DEF SinkPlace
    <2>3. Sent(Sink, "READY")'
        BY <1>1, <2>1, <2>2 DEF Sent, Quiet
    <2> QED BY <1>1, <1>3, <1>4, <1>5, <2>1, <2>2, <2>3 DEF SinkPlace
<1>7. CASE Observe
    <2>1. /\ pc[Sink] = "observing" /\ pc'[Sink] = "reporting" /\ observed' = observed + 1
          /\ net' = net
        BY <1>7, <1>1 DEF Observe
    <2>2. Quiet(Sink)' /\ Sink \notin got /\ observed = round - 1 /\ opc = "observing"
        BY <2>1 DEF SinkPlace, Quiet
    <2> QED BY <1>1, <1>3, <1>4, <1>5, <2>1, <2>2 DEF SinkPlace
<1> QED BY <1>6, <1>7

LEMMA LoseNext == IInv /\ (Lose \/ UNCHANGED vars) /\ TypeOK' => IInv'
<1> SUFFICES ASSUME IInv, Lose \/ UNCHANGED vars, TypeOK' PROVE IInv'
    OBVIOUS
<1> USE DEF IInv
<1>1. /\ net' \subseteq net /\ opc' = opc /\ got' = got /\ round' = round /\ observed' = observed
      /\ closes' = closes /\ prepared' = prepared /\ pc' = pc
      /\ releasing' = releasing /\ server' = server
    BY DEF Lose, vars, orchestratorVars, fileVars
<1>2. \A c \in Clients : ClientPlace(c)'
    BY <1>1, ClientKept
<1>3. SinkPlace(Sink)'
    BY <1>1, SinkKept
<1>4. (\A c \in Clients : ClientFile(c)') /\ Orchestra'
    BY <1>1 DEF ClientFile, Orchestra
<1> QED BY <1>2, <1>3, <1>4

-----------------------------------------------------------------------------
(* The theorems. *)

LEMMA InitInv == Init => IInv
<1> SUFFICES ASSUME Init PROVE IInv
    OBVIOUS
<1> USE DEF Init
<1>1. TypeOK
    BY DEF TypeOK, NoRelease
<1>2. \A p \in Participants : Quiet(p)
    BY DEF Quiet
<1>3. (\A c \in Clients : ClientPlace(c)) /\ SinkPlace(Sink)
    BY <1>2 DEF ClientPlace, SinkPlace, Participants
<1>4. (\A c \in Clients : ClientFile(c)) /\ Orchestra
    BY DEF ClientFile, Orchestra, Participants, NoRelease
<1> QED BY <1>1, <1>3, <1>4 DEF IInv

LEMMA InvNext == IInv /\ [Next]_vars => IInv'
<1> SUFFICES ASSUME IInv, [Next]_vars PROVE IInv'
    OBVIOUS
<1>1. TypeOK'
    BY TypeNext DEF IInv
<1>2. CASE OrchestratorStep
    BY <1>1, <1>2, ReceivesNext, NotifyNext DEF OrchestratorStep
<1>3. ASSUME NEW p \in Participants, ParticipantStep(p) PROVE IInv'
    BY <1>1, <1>3, RegisterNext, ParticipantReceivesNext DEF ParticipantStep
<1>4. ASSUME NEW c \in Clients, ClientStep(c) PROVE IInv'
    BY <1>1, <1>4, PrepareNext, CloseNext, ReleaseNext DEF ClientStep
<1>5. CASE Report \/ Observe
    BY <1>1, <1>5, SinkNext
<1>6. CASE Lose \/ UNCHANGED vars
    BY <1>1, <1>6, LoseNext
<1> QED BY <1>2, <1>3, <1>4, <1>5, <1>6 DEF Next

(* The table holds in every reachable state. *)
THEOREM Invariant == Spec => []IInv
<1>1. Init => IInv
    BY InitInv
<1>2. IInv /\ [Next]_vars => IInv'
    BY InvNext
<1> QED BY <1>1, <1>2, PTL DEF Spec

(* The type invariant of the concert, for every number of clients, rounds, *)
(* lost and repeated messages.                                             *)
THEOREM TypeCorrect == Spec => []TypeOK
<1>1. IInv => TypeOK
    BY DEF IInv
<1> QED BY <1>1, Invariant, PTL

(* notifyOne and waitFor: never more than one message that counts is       *)
(* between the orchestrator and a participant.                             *)
THEOREM OneMessage == Spec => []OneOutstanding
<1>1. IInv => OneOutstanding
    <2> SUFFICES ASSUME IInv, NEW p \in Participants
                 PROVE  Cardinality({m \in net : p \in {m.from, m.to}
                                       /\ m.kind \notin {"REGISTRATION", "ACK"}}) <= 1
        BY DEF OneOutstanding
    <2> DEFINE S == {m \in net : p \in {m.from, m.to} /\ m.kind \notin {"REGISTRATION", "ACK"}}
    <2>1. \E m : S \subseteq {m}
        BY DEF IInv, ClientPlace, SinkPlace, Quiet, Sent, Told, Of, Counting, Participants
    <2>2. PICK m : S \subseteq {m}
        BY <2>1
    <2>3. S = {} \/ S = {m}
        BY <2>2
    <2> HIDE DEF S
    <2>4. Cardinality(S) \in {0, 1}
        BY <2>3, FS_EmptySet, FS_Singleton
    <2> QED BY <2>4 DEF S
<1> QED BY <1>1, Invariant, PTL

(* perform: no client closes the file of a round before the sink has read  *)
(* that of the round before.                                               *)
THEOREM RoundsInStep == Spec => []InStep
<1>1. IInv => InStep
    BY DEF IInv, TypeOK, InStep, ClientPlace, ClientFile, SinkPlace, Participants
<1> QED BY <1>1, Invariant, PTL

(* playSink: what the sink reads is what the clients closed in its round.  *)
THEOREM ReadsItsRound == Spec => []SinkSeesRound
<1>1. IInv => SinkSeesRound
    <2> SUFFICES ASSUME IInv, pc[Sink] = "observing" PROVE server = observed + 1
        BY DEF SinkSeesRound
    <2>1. opc = "observing" /\ observed = round - 1
        BY DEF IInv, SinkPlace
    <2>2. server = round
        BY <2>1 DEF IInv, ClientPlace, Orchestra
    <2> QED BY <2>1, <2>2 DEF IInv, TypeOK
<1> QED BY <1>1, Invariant, PTL

=============================================================================
