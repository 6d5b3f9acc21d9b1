-------------------------- MODULE WowSessionProofs --------------------------
(***************************************************************************)
(* The properties of WowSession that hold, for any number of clients,      *)
(* sessions, handlers, writes and faults.                                  *)
(***************************************************************************)
EXTENDS WowSession, TLAPS

(* A session that has written has its write in the copy of its client, and *)
(* in what it sends, until another open of the client replaces the copy.   *)
OwnWrites ==
    \A h \in Handles :
        /\ wrote[h] # None =>
             /\ pc[h] \in {"open", "closed", "flushing", "releasing"}
             /\ local[Owner[h]] # Absent
             /\ h \notin overwritten => wrote[h] \in local[Owner[h]]
        /\ pc[h] \in {"flushing", "releasing"} =>
             /\ wrote[h] # None
             /\ h \notin overwritten => wrote[h] \in buf[h]

Filling(c) == \E h \in Handles : Owner[h] = c /\ pc[h] = "fill"

(* Nothing is torn but the copies that are being filled, until something   *)
(* has torn one.                                                           *)
Whole ==
    /\ Torn \notin server
    /\ \A h \in Handles : Torn \notin buf[h]
    /\ \A c \in Clients : Torn \in local[c] => Filling(c)

(* What else holds as long as nothing disturbs the sessions.  A session of *)
(* client c is going to send its copy.                                     *)
Sends(h) == wrote[h] # None /\ (pc[h] \in {"flushing", "releasing"} => buf[h] = local[Owner[h]])
Pending(c) == \E h \in Handles : Owner[h] = c /\ Sends(h)

(* A copy that the client takes for current is the server's file, or is    *)
(* going to be.                                                            *)
CopyQuiet(c) ==
    c \in current /\ local[c] \notin {Absent, server} => Filling(c) \/ Pending(c)

(* How far a handler has got. *)
HandlerQuiet(h) ==
    /\ pc[h] # "create"
    /\ pc[h] = "download" => seen[h] = server
    /\ pc[h] \in {"save", "fill"} => buf[h] = server
    /\ pc[h] = "missing" => server = Absent
    /\ pc[h] = "creating" => server = {}
    /\ pc[h] \in Opening => latest \in may[h]
    /\ pc[h] = "local" => local[Owner[h]] \in may[h] \cup {Absent} \/ Filling(Owner[h])

Undisturbed ==
    /\ server = latest
    /\ server = Absent => \A c \in Clients : local[c] = Absent
    /\ \A c \in Clients : CopyQuiet(c)
    /\ \A h \in Handles : HandlerQuiet(h)

SInv == TypeOK /\ OwnWrites /\ (tears = {} => Whole) /\ (quiet => Undisturbed)

-----------------------------------------------------------------------------
USE SessionAssumption

Places == Resting \cup Opening \cup {"missing", "creating", "flushing", "releasing"}
HandlerAct(h) == OpenStep(h) \/ Write(h) \/ CloseStep(h) \/ RpcFails(h) \/ DiskFails(h)

LEMMA ContentFacts ==
  /\ Absent \notin Contents
  /\ {} \in Contents /\ {Torn} \in Contents
  /\ \A d \in Contents : d \cup {Torn} \in Contents
  /\ Torn \notin Absent
BY DEF Contents, Absent

(* The handlers of other sessions stay where they are. *)
LEMMA Others ==
  ASSUME TypeOK, NEW h \in Handles, HandlerAct(h)
  PROVE  /\ \A g \in Handles \ {h} : /\ pc'[g] = pc[g] /\ seen'[g] = seen[g]
                                     /\ buf'[g] = buf[g] /\ wrote'[g] = wrote[g]
         /\ \A c \in Clients \ {Owner[h]} : local'[c] = local[c]
<1> USE DEF TypeOK, Goto, SetLocal, SetServer, GiveUp, ReadBack, Done, dataVars
<1>1. CASE OpenStep(h)
  BY <1>1 DEF OpenStep, ShouldFetch, OpenRPC, Download, SaveTruncate, SaveFill, OpenLocal, OpenFails,
              LookUp, CreateRPC, CreateLocal
<1>2. CASE Write(h) \/ CloseStep(h)
  BY <1>2 DEF Write, CloseStep, Flush, FlushSend, Release, ReleaseSend
<1>3. CASE RpcFails(h)
  BY <1>3 DEF RpcFails, ShouldFetchFails, OpenRpcFails, CreateFails, FlushFails, ReleaseFails
<1>4. CASE DiskFails(h)
  BY <1>4 DEF DiskFails, SaveFails, SaveShort, ReadBackFails
<1> QED BY <1>1, <1>2, <1>3, <1>4 DEF HandlerAct

(* The type invariant, but for what it says of overwritten.                *)
Shape ==
    /\ server \in Contents \cup {Absent}
    /\ local \in [Clients -> Contents \cup {Absent}]
    /\ current \subseteq Clients
    /\ tick \subseteq current
    /\ pc \in [Handles -> Places]
    /\ seen \in [Handles -> Contents \cup {Absent}]
    /\ buf \in [Handles -> Contents \cup {Absent}]
    /\ wrote \in [Handles -> Writes \cup {None}]
    /\ writes \in 0..MaxWrites
    /\ latest \in Contents \cup {Absent}
    /\ may \in [Handles -> SUBSET (Contents \cup {Absent})]
    /\ \A h \in Handles :
         pc[h] \in {"save", "fill", "flushing", "releasing"} <=> buf[h] # Absent

LEMMA MayFindType ==
  ASSUME may \in [Handles -> SUBSET (Contents \cup {Absent})],
         NEW hs, NEW d \in Contents, MayFind(hs, d)
  PROVE  may' \in [Handles -> SUBSET (Contents \cup {Absent})]
BY DEF MayFind

LEMMA ShapeNext ==
  ASSUME Shape, NEW h \in Handles, HandlerAct(h)
  PROVE  Shape'
<1> USE ContentFacts DEF Shape, Places, Resting, Opening, Goto, dataVars, historyVars
<1>0. Owner[h] \in Clients
  OBVIOUS
<1>1. CASE ShouldFetch(h) \/ ShouldFetchFails(h)
  <2>1. Unsaved(Owner[h]) \subseteq Contents \cup {Absent}
    BY <1>0 DEF Unsaved
  <2>2. may' \in [Handles -> SUBSET (Contents \cup {Absent})]
    BY <1>1, <2>1 DEF ShouldFetch, ShouldFetchFails
  <2> QED BY <1>1, <2>2 DEF ShouldFetch, ShouldFetchFails
<1>2. CASE OpenRPC(h)
  <2>1. CASE server = Absent
    <3>1. may' = [may EXCEPT ![h] = {{}}] /\ server' = {} /\ latest' = {} /\ current' = tick
      BY <1>2, <2>1 DEF OpenRPC, SetServer
    <3>2. may' \in [Handles -> SUBSET (Contents \cup {Absent})]
      BY <3>1
    <3> QED BY <1>2, <2>1, <3>1, <3>2 DEF OpenRPC, SetServer
  <2>2. CASE server # Absent
    BY <1>2, <2>2 DEF OpenRPC
  <2> QED BY <2>1, <2>2
<1>3. CASE Download(h)
  <2>1. FirstBytes(h) \subseteq Contents
    <3>1. server \in Contents /\ server \cup {Torn} \in Contents
      BY <1>3 DEF Download
    <3> QED BY <3>1 DEF FirstBytes
  <2> QED BY <1>3, <2>1 DEF Download
<1>4. CASE SaveTruncate(h)
  BY <1>0, <1>4 DEF SaveTruncate, SetLocal
<1>5. CASE SaveFill(h)
  BY <1>0, <1>5 DEF SaveFill, SetLocal
<1>6. CASE OpenLocal(h) \/ OpenFails(h) \/ OpenRpcFails(h)
  BY <1>6 DEF OpenLocal, OpenFails, OpenRpcFails, GiveUp
<1>7. CASE LookUp(h) \/ CreateFails(h)
  BY <1>7 DEF LookUp, CreateFails
<1>8. CASE CreateRPC(h)
  <2>1. may' \in [Handles -> SUBSET (Contents \cup {Absent})]
    BY <1>8, MayFindType DEF CreateRPC
  <2> QED BY <1>8, <2>1 DEF CreateRPC, SetServer
<1>9. CASE CreateLocal(h)
  BY <1>0, <1>9 DEF CreateLocal, SetLocal
<1>10. CASE Write(h)
  <2>1. writes + 1 \in Writes /\ local[Owner[h]] \cup {writes + 1} \in Contents
    BY <1>0, <1>10 DEF Write, Writes, Contents
  <2>2. may' \in [Handles -> SUBSET (Contents \cup {Absent})]
    BY <1>10, <2>1, MayFindType DEF Write
  <2>3. local' \in [Clients -> Contents \cup {Absent}] /\ writes' \in 0..MaxWrites
    BY <1>0, <1>10, <2>1 DEF Write, SetLocal, Writes
  <2> QED BY <1>0, <1>10, <2>1, <2>2, <2>3 DEF Write, SetLocal
<1>11. CASE Flush(h) \/ Release(h)
  BY <1>0, <1>11 DEF Flush, Release, ReadBack, Closed
<1>12. CASE FlushSend(h)
  BY <1>12 DEF FlushSend, SetServer, Done, Closed, MayFind
<1>13. CASE FlushFails(h) \/ ReleaseSend(h) \/ ReleaseFails(h)
  BY <1>13 DEF FlushFails, ReleaseSend, ReleaseFails, SetServer, Done, Closed
<1>14. CASE SaveFails(h) \/ ReadBackFails(h)
  BY <1>14 DEF SaveFails, ReadBackFails, Closed
<1>15. CASE SaveShort(h)
  <2>1. \A part \in {{}, buf[h]} : part \cup {Torn} \in Contents
    BY <1>15 DEF SaveShort
  <2> QED BY <1>0, <1>15, <2>1 DEF SaveShort, SetLocal
<1> QED
  BY <1>1, <1>2, <1>3, <1>4, <1>5, <1>6, <1>7, <1>8, <1>9, <1>10, <1>11, <1>12, <1>13, <1>14, <1>15
  DEF HandlerAct, OpenStep, CloseStep, RpcFails, DiskFails

LEMMA ShapeOfType == TypeOK => Shape
BY DEF TypeOK, Shape, Places

-----------------------------------------------------------------------------
(* What sessions have written.                                             *)

LEMMA OwnWritesNext ==
  ASSUME TypeOK, OwnWrites, NEW h \in Handles, HandlerAct(h), NEW disturbs, NEW cuts,
         Observe(h, disturbs, cuts)
  PROVE  /\ OwnWrites'
         /\ overwritten' \subseteq {g \in Handles : wrote'[g] # None}
<1> DEFINE c == Owner[h]
<1>0. /\ c \in Clients /\ Shape /\ Shape'
      /\ pc \in [Handles -> Places] /\ local \in [Clients -> Contents \cup {Absent}]
      /\ wrote \in [Handles -> Writes \cup {None}] /\ buf \in [Handles -> Contents \cup {Absent}]
  BY ShapeOfType, ShapeNext DEF Shape
<1>1. /\ \A g \in Handles \ {h} : pc'[g] = pc[g] /\ buf'[g] = buf[g] /\ wrote'[g] = wrote[g]
      /\ \A d \in Clients \ {c} : local'[d] = local[d]
  BY Others
<1>2. overwritten' = {g \in overwritten \cup Replaces(h) : pc'[g] # "idle"}
  BY DEF Observe
<1>3. \A g \in Handles : wrote[g] # None /\ pc'[g] # "idle" /\ g \notin overwritten'
        => g \notin overwritten
  BY <1>2
<1> HIDE DEF c
(* The copy keeps the writes of a session that is not overwritten.         *)
<1>4. ASSUME NEW g \in Handles, Owner[g] = c, wrote[g] # None, pc'[g] # "idle"
      PROVE  /\ local'[c] # Absent
             /\ g \notin overwritten' => wrote[g] \in local'[c]
  <2>1. local[c] # Absent /\ (g \notin overwritten => wrote[g] \in local[c])
    BY <1>4 DEF OwnWrites
  <2>2. CASE local' = local
    BY <1>3, <1>4, <2>1, <2>2
  <2>3. CASE Write(h)
    <3>1. local'[c] = local[c] \cup {writes + 1}
      BY <1>0, <2>3 DEF Write, SetLocal, c
    <3>2. local'[c] # Absent
      BY <1>0, <3>1, <2>1, <2>3 DEF Write, Absent, Contents, Writes, TypeOK
    <3> QED BY <1>3, <1>4, <2>1, <3>1, <3>2
  <2>4. CASE SaveTruncate(h) \/ SaveFill(h) \/ SaveShort(h)
    <3>1. (pc[h] = "fill" \/ pc'[h] = "fill") /\ g # h
      BY <1>0, <1>4, <2>4 DEF SaveTruncate, SaveFill, SaveShort, OwnWrites, Goto
    <3>2. g \in overwritten'
      BY <1>2, <1>4, <3>1 DEF Replaces, Siblings, c
    <3>3. local'[c] \in Contents
      <4>1. CASE SaveShort(h)
        <5>1. \A part \in {{}, buf[h]} : part \cup {Torn} \in Contents
          BY <1>0, <4>1, ContentFacts DEF SaveShort, Shape
        <5> QED BY <1>0, <4>1, <5>1 DEF SaveShort, SetLocal, c
      <4>2. CASE SaveTruncate(h) \/ SaveFill(h)
        BY <1>0, <4>2, ContentFacts DEF SaveTruncate, SaveFill, SetLocal, Shape, c
      <4> QED BY <2>4, <4>1, <4>2
    <3> QED BY <3>2, <3>3, ContentFacts
  <2>5. CASE CreateLocal(h)
    BY <1>3, <1>4, <2>1, <2>5 DEF CreateLocal, dataVars, c
  <2>6. \/ local' = local \/ Write(h) \/ CreateLocal(h)
        \/ SaveTruncate(h) \/ SaveFill(h) \/ SaveShort(h)
    BY DEF HandlerAct, OpenStep, CloseStep, RpcFails, ShouldFetch, OpenRPC, Download, OpenLocal,
           OpenFails, LookUp, CreateRPC, Flush, FlushSend, Release, ReleaseSend, ShouldFetchFails,
           OpenRpcFails, CreateFails, FlushFails, ReleaseFails, GiveUp, SetServer, dataVars,
           DiskFails, SaveFails, ReadBackFails
  <2> QED BY <2>2, <2>3, <2>4, <2>5, <2>6
(* The handler itself. *)
<1>5. /\ wrote'[h] # None =>
           /\ pc'[h] \in {"open", "closed", "flushing", "releasing"}
           /\ wrote'[h] = wrote[h] \/ (Write(h) /\ wrote'[h] = writes + 1)
      /\ pc'[h] \in {"flushing", "releasing"} =>
           /\ wrote'[h] # None /\ wrote'[h] = wrote[h]
           /\ buf'[h] = local[c]
           /\ local' = local
      /\ pc'[h] = "idle" => wrote'[h] = None
  <2> USE DEF Goto, Places, Resting, Opening
  <2>1. CASE Write(h)
    BY <1>0, <2>1 DEF Write, Writes, TypeOK
  <2>2. CASE Flush(h) \/ Release(h)
    BY <1>0, <2>2 DEF Flush, Release, ReadBack, Closed, OwnWrites, dataVars, c
  <2>3. CASE FlushSend(h) \/ FlushFails(h) \/ ReleaseSend(h) \/ ReleaseFails(h)
    BY <1>0, <2>3 DEF FlushSend, FlushFails, ReleaseSend, ReleaseFails, Done, Closed
  <2>4. CASE OpenStep(h)
    BY <1>0, <2>4
    DEF OpenStep, ShouldFetch, OpenRPC, Download, SaveTruncate, SaveFill, OpenLocal, OpenFails,
        LookUp, CreateRPC, CreateLocal, GiveUp, OwnWrites, historyVars
  <2>5. CASE ShouldFetchFails(h) \/ OpenRpcFails(h) \/ CreateFails(h)
    BY <1>0, <2>5 DEF ShouldFetchFails, OpenRpcFails, CreateFails, GiveUp, OwnWrites
  <2>6. CASE DiskFails(h)
    BY <1>0, <2>6 DEF DiskFails, SaveFails, SaveShort, ReadBackFails, Closed, OwnWrites
  <2> QED BY <2>1, <2>2, <2>3, <2>4, <2>5, <2>6 DEF HandlerAct, CloseStep, RpcFails
<1>6. OwnWrites'
  <2> SUFFICES ASSUME NEW g \in Handles
               PROVE  /\ wrote'[g] # None =>
                           /\ pc'[g] \in {"open", "closed", "flushing", "releasing"}
                           /\ local'[Owner[g]] # Absent
                           /\ g \notin overwritten' => wrote'[g] \in local'[Owner[g]]
                      /\ pc'[g] \in {"flushing", "releasing"} =>
                           /\ wrote'[g] # None
                           /\ g \notin overwritten' => wrote'[g] \in buf'[g]
    BY DEF OwnWrites
  <2>1. CASE g = h
    <3>1. Owner[g] = c
      BY <2>1 DEF c
    <3>2. CASE Write(h) /\ wrote'[h] = writes + 1
      <4>1. local'[c] = local[c] \cup {writes + 1} /\ local[c] \in Contents /\ pc'[h] = "open"
        BY <1>0, <3>2 DEF Write, SetLocal, c
      <4>2. local'[c] # Absent
        BY <4>1, <1>0, <3>2 DEF Absent, Contents, Write, Writes, TypeOK
      <4> QED BY <2>1, <3>1, <3>2, <4>1, <4>2
    <3>3. CASE wrote'[h] = wrote[h]
      BY <1>3, <1>4, <1>5, <2>1, <3>1, <3>3 DEF OwnWrites
    <3> QED BY <1>5, <2>1, <3>2, <3>3
  <2>2. CASE g # h
    <3>1. pc'[g] = pc[g] /\ buf'[g] = buf[g] /\ wrote'[g] = wrote[g]
      BY <1>1, <2>2
    <3>2. CASE wrote[g] = None
      BY <3>1, <3>2 DEF OwnWrites
    <3>3. CASE wrote[g] # None
      <4>1. pc[g] \in {"open", "closed", "flushing", "releasing"} /\ pc[g] # "idle"
        BY <3>3 DEF OwnWrites
      <4>2. g \notin overwritten' => g \notin overwritten
        BY <1>3, <3>1, <3>3, <4>1
      <4>3. /\ local'[Owner[g]] # Absent
            /\ g \notin overwritten' => wrote[g] \in local'[Owner[g]]
        <5>1. CASE Owner[g] = c
          BY <1>4, <3>1, <3>3, <4>1, <5>1
        <5>2. CASE Owner[g] # c
          <6>1. local'[Owner[g]] = local[Owner[g]]
            BY <1>1, <5>2
          <6> QED BY <3>3, <4>2, <6>1 DEF OwnWrites
        <5> QED BY <5>1, <5>2
      <4> QED BY <3>1, <3>3, <4>1, <4>2, <4>3 DEF OwnWrites
    <3> QED BY <3>2, <3>3
  <2> QED BY <2>1, <2>2
<1>7. overwritten' \subseteq {g \in Handles : wrote'[g] # None}
  <2> SUFFICES ASSUME NEW g \in overwritten' PROVE g \in Handles /\ wrote'[g] # None
    OBVIOUS
  <2>1. g \in Handles /\ wrote[g] # None /\ pc'[g] # "idle"
    BY <1>2 DEF TypeOK, Replaces, Siblings
  <2>2. CASE g # h
    BY <1>1, <2>1, <2>2
  <2>3. CASE g = h
    <3> USE DEF Goto, Places, Resting, Opening
    <3>1. CASE Write(h)
      BY <1>0, <2>3, <3>1 DEF Write, Writes, TypeOK
    <3>2. CASE CloseStep(h) \/ FlushFails(h) \/ ReleaseFails(h)
      BY <1>0, <2>1, <2>3, <3>2
      DEF CloseStep, Flush, Release, FlushSend, ReleaseSend, FlushFails, ReleaseFails, ReadBack, Done
    <3>3. CASE OpenStep(h) \/ ShouldFetchFails(h) \/ OpenRpcFails(h) \/ CreateFails(h)
      BY <1>0, <2>1, <2>3, <3>3
      DEF OpenStep, ShouldFetch, OpenRPC, Download, SaveTruncate, SaveFill, OpenLocal, OpenFails,
          LookUp, CreateRPC, CreateLocal, GiveUp, ShouldFetchFails, OpenRpcFails, CreateFails
    <3>4. CASE DiskFails(h)
      BY <1>0, <2>1, <2>3, <3>4 DEF DiskFails, SaveFails, SaveShort, ReadBackFails
    <3> QED BY <3>1, <3>2, <3>3, <3>4 DEF HandlerAct, RpcFails, CloseStep
  <2> QED BY <2>2, <2>3
<1> QED BY <1>6, <1>7

-----------------------------------------------------------------------------
(* What may be torn.                                                       *)

LEMMA WholeNext ==
  ASSUME TypeOK, Whole, NEW h \in Handles, Tears(h) = {},
         OpenStep(h) \/ Write(h) \/ CloseStep(h) \/ RpcFails(h) \/ SaveFails(h) \/ ReadBackFails(h)
  PROVE  Whole'
<1> DEFINE c == Owner[h]
<1> USE ContentFacts DEF Goto
<1>0. /\ c \in Clients /\ Shape
      /\ pc \in [Handles -> Places] /\ local \in [Clients -> Contents \cup {Absent}]
      /\ buf \in [Handles -> Contents \cup {Absent}] /\ writes \in 0..MaxWrites
  BY ShapeOfType DEF Shape
<1>1. /\ \A g \in Handles \ {h} : pc'[g] = pc[g] /\ buf'[g] = buf[g]
      /\ \A d \in Clients \ {c} : local'[d] = local[d]
  BY Others DEF HandlerAct, DiskFails
<1>2. /\ Torn \notin server /\ \A g \in Handles : Torn \notin buf[g]
      /\ \A d \in Clients : Torn \in local[d] => \E g \in Handles : Owner[g] = d /\ pc[g] = "fill"
  BY DEF Whole, Filling
<1>3. Torn \notin Writes
  OBVIOUS
(* It is enough to look at what the step itself makes. *)
<1>4. SUFFICES /\ server' \in {server, buf[h], {}}
               /\ Torn \notin buf'[h]
               /\ \/ /\ Torn \in local'[c] => Torn \in local[c]
                     /\ pc[h] # "fill"
                  \/ Torn \notin local'[c]
                  \/ pc'[h] = "fill"
  <2>1. Torn \notin server' /\ \A g \in Handles : Torn \notin buf'[g]
    BY <1>1, <1>2, <1>4
  <2>2. ASSUME NEW d \in Clients, Torn \in local'[d]
        PROVE  \E g \in Handles : Owner[g] = d /\ pc'[g] = "fill"
    <3>1. CASE d # c
      <4>1. PICK g \in Handles : Owner[g] = d /\ pc[g] = "fill"
        BY <1>1, <1>2, <2>2, <3>1
      <4> QED BY <1>1, <3>1, <4>1
    <3>2. CASE d = c /\ pc'[h] = "fill"
      BY <3>2
    <3>3. CASE d = c /\ Torn \in local[c] /\ pc[h] # "fill"
      <4>1. PICK g \in Handles : Owner[g] = c /\ pc[g] = "fill"
        BY <1>0, <1>2, <3>3
      <4> QED BY <1>1, <3>3, <4>1
    <3> QED BY <1>4, <2>2, <3>1, <3>2, <3>3
  <2> QED BY <2>1, <2>2 DEF Whole, Filling
<1> HIDE DEF c
<1>5. CASE ShouldFetch(h) \/ OpenLocal(h) \/ OpenFails(h) \/ LookUp(h)
  BY <1>2, <1>5 DEF ShouldFetch, OpenLocal, OpenFails, LookUp, GiveUp, dataVars
<1>6. CASE OpenRPC(h) \/ CreateRPC(h)
  BY <1>2, <1>6 DEF OpenRPC, CreateRPC, SetServer, dataVars
<1>7. CASE Download(h)
  <2>1. server = seen[h] /\ pc[h] = "download" /\ pc'[h] = "save"
    BY <1>0, <1>7 DEF Tears, Download
  <2>2. buf'[h] = server
    BY <1>0, <1>7, <2>1 DEF Download, FirstBytes
  <2> QED BY <1>2, <1>7, <2>1, <2>2 DEF Download, dataVars
<1>8. CASE SaveTruncate(h)
  BY <1>0, <1>2, <1>8 DEF SaveTruncate, SetLocal
<1>9. CASE SaveFill(h)
  BY <1>0, <1>2, <1>9 DEF SaveFill, SetLocal, c
<1>10. CASE CreateLocal(h)
  BY <1>0, <1>2, <1>10 DEF CreateLocal, SetLocal, dataVars, c
<1>11. CASE Write(h)
  <2>1. local'[c] = local[c] \cup {writes + 1} /\ writes + 1 \in Writes
    BY <1>0, <1>11 DEF Write, SetLocal, Writes, c
  <2> QED BY <1>2, <1>3, <1>11, <2>1 DEF Write, SetLocal
<1>12. CASE Flush(h) \/ Release(h)
  <2>1. UNCHANGED <<server, local>> /\ pc[h] \in {"open", "closed"}
    BY <1>12 DEF Flush, Release, dataVars
  <2>2. \/ buf'[h] = local[c] /\ pc'[h] \in {"flushing", "releasing"}
        \/ buf' = buf
    BY <1>0, <1>12 DEF Flush, Release, ReadBack, c
  <2>3. pc'[h] \in {"flushing", "releasing"} => ~\E g \in Siblings(h) : pc[g] = "fill"
    BY <2>1 DEF Tears
  <2>4. pc'[h] \in {"flushing", "releasing"} => Torn \notin local[c]
    BY <1>0, <1>2, <2>3 DEF Siblings, c
  <2> QED BY <1>2, <2>1, <2>2, <2>4
<1>13. CASE FlushSend(h) \/ ReleaseSend(h)
  BY <1>0, <1>2, <1>13 DEF FlushSend, ReleaseSend, SetServer, Done
<1>14. CASE RpcFails(h)
  BY <1>0, <1>2, <1>14
  DEF RpcFails, ShouldFetchFails, OpenRpcFails, CreateFails, FlushFails, ReleaseFails, Done, GiveUp, dataVars
<1>15. CASE SaveFails(h) \/ ReadBackFails(h)
  BY <1>0, <1>2, <1>15 DEF SaveFails, ReadBackFails, dataVars
<1> QED
  BY <1>5, <1>6, <1>7, <1>8, <1>9, <1>10, <1>11, <1>12, <1>13, <1>14, <1>15
  DEF OpenStep, CloseStep

-----------------------------------------------------------------------------
(* Undisturbed sessions. *)

(* What another handler needs to stay as it is: where the step changes the *)
(* server's file nobody is fetching it, and what the handler may find      *)
(* follows the last close and its client's copy.                           *)
LEMMA OtherQuiet ==
  ASSUME NEW g \in Handles, HandlerQuiet(g), server = latest, server' = latest',
         pc'[g] = pc[g], seen'[g] = seen[g], buf'[g] = buf[g],
         server' = server \/ pc[g] \notin Fetching,
         pc[g] \in Opening => may[g] \subseteq may'[g] /\ latest' \in may'[g],
         pc[g] = "local" =>
            \/ local'[Owner[g]] = local[Owner[g]] /\ (Filling(Owner[g]) => Filling(Owner[g])')
            \/ local'[Owner[g]] \in may'[g] \cup {Absent}
            \/ Filling(Owner[g])'
  PROVE  HandlerQuiet(g)'
<1>1. CASE server' = server
  BY <1>1 DEF HandlerQuiet, Opening
<1>2. CASE pc[g] \notin Fetching
  BY <1>2 DEF HandlerQuiet, Fetching, Opening
<1> QED BY <1>1, <1>2

(* A step that changes no file. *)
LEMMA PlainStep ==
  ASSUME Undisturbed, NEW h \in Handles, UNCHANGED <<server, local, current, latest>>,
         \A g \in Handles \ {h} : /\ pc'[g] = pc[g] /\ seen'[g] = seen[g]
                                  /\ buf'[g] = buf[g] /\ wrote'[g] = wrote[g] /\ may'[g] = may[g],
         pc[h] # "fill", pc'[h] # "fill",
         Sends(h) => Sends(h)' \/ local[Owner[h]] = server,
         HandlerQuiet(h)'
  PROVE  Undisturbed'
<1>1. \A c \in Clients : Filling(c)' <=> Filling(c)
  BY DEF Filling
<1>2. \A g \in Handles \ {h} : Sends(g) => Sends(g)'
  BY DEF Sends
<1>3. ASSUME NEW c \in Clients, CopyQuiet(c) PROVE CopyQuiet(c)'
  <2>1. Pending(c) => Pending(c)' \/ local[c] = server
    BY <1>2 DEF Pending
  <2> QED BY <1>1, <1>3, <2>1 DEF CopyQuiet
<1>4. ASSUME NEW g \in Handles, g # h PROVE HandlerQuiet(g)'
  <2>1. HandlerQuiet(g) /\ server = latest
    BY DEF Undisturbed
  <2>2. pc[g] \in Opening => latest \in may[g]
    BY <2>1 DEF HandlerQuiet
  <2>3. Filling(Owner[g]) => Filling(Owner[g])'
    BY <1>4 DEF Filling
  <2> QED BY <1>4, <2>1, <2>2, <2>3, OtherQuiet
<1> QED BY <1>3, <1>4 DEF Undisturbed

(* A step that gives the copy of its own client a content.                 *)
LEMMA LocalStep ==
  ASSUME Undisturbed, NEW h \in Handles, Owner[h] \in Clients, UNCHANGED <<server, latest>>,
         server # Absent,
         \A c \in Clients \ {Owner[h]} : local'[c] = local[c],
         current' = current \cup {Owner[h]},
         \A g \in Handles \ {h} : /\ pc'[g] = pc[g] /\ seen'[g] = seen[g]
                                  /\ buf'[g] = buf[g] /\ wrote'[g] = wrote[g]
                                  /\ pc[g] \in Opening => may[g] \subseteq may'[g],
         CopyQuiet(Owner[h])',
         HandlerQuiet(h)',
         \A g \in Handles \ {h} : Owner[g] = Owner[h] /\ pc[g] = "local" =>
            Filling(Owner[h])' \/ local'[Owner[h]] \in may'[g] \cup {Absent}
  PROVE  Undisturbed'
<1> DEFINE c == Owner[h]
<1>1. ASSUME NEW d \in Clients, d # c PROVE (Filling(d)' <=> Filling(d)) /\ (Pending(d) => Pending(d)')
  <2>1. \A g \in Handles : Owner[g] = d => g # h /\ pc'[g] = pc[g] /\ local'[Owner[g]] = local[Owner[g]]
    BY <1>1
  <2>2. \A g \in Handles : Owner[g] = d => buf'[g] = buf[g] /\ wrote'[g] = wrote[g]
    BY <2>1
  <2>3. Filling(d)' <=> Filling(d)
    BY <2>1 DEF Filling
  <2>4. \A g \in Handles : Owner[g] = d => (Sends(g) => Sends(g)')
    BY <2>1, <2>2 DEF Sends
  <2> QED BY <2>3, <2>4 DEF Pending
<1>2. ASSUME NEW d \in Clients PROVE CopyQuiet(d)'
  <2>1. CASE d # c
    <3>1. CopyQuiet(d)
      BY DEF Undisturbed
    <3> QED BY <1>1, <2>1, <3>1 DEF CopyQuiet
  <2> QED BY <2>1
<1>3. ASSUME NEW g \in Handles, g # h PROVE HandlerQuiet(g)'
  <2>1. HandlerQuiet(g) /\ server = latest
    BY DEF Undisturbed
  <2>2. pc[g] \in Opening => latest \in may[g]
    BY <2>1 DEF HandlerQuiet
  <2>3. CASE Owner[g] = c
    BY <1>3, <2>1, <2>2, <2>3, OtherQuiet
  <2>4. CASE Owner[g] # c
    <3>1. Owner[g] \in Clients
      OBVIOUS
    <3>2. Filling(Owner[g]) => Filling(Owner[g])'
      BY <1>3, <2>4 DEF Filling
    <3> QED BY <1>3, <2>1, <2>2, <2>4, <3>1, <3>2, OtherQuiet
  <2> QED BY <2>3, <2>4
<1>4. server = latest /\ server' # Absent
  BY DEF Undisturbed
<1> QED BY <1>2, <1>3, <1>4 DEF Undisturbed

(* A step that sends a content to the server. *)
LEMMA ServerStep ==
  ASSUME Undisturbed, Shape, NEW h \in Handles, UNCHANGED local, server' \in Contents, server' = latest',
         current' = tick,
         \A c \in tick : local[c] \in {Absent, server'},
         \A g \in Handles \ {h} : /\ pc'[g] = pc[g] /\ seen'[g] = seen[g]
                                  /\ buf'[g] = buf[g] /\ wrote'[g] = wrote[g]
                                  /\ pc[g] \in Opening => may[g] \subseteq may'[g] /\ latest' \in may'[g],
         server' = server \/ \A g \in Handles \ {h} : pc[g] \notin Fetching,
         pc[h] # "fill", pc'[h] # "fill",
         HandlerQuiet(h)'
  PROVE  Undisturbed'
<1>1. \A c \in Clients : CopyQuiet(c)'
  BY DEF CopyQuiet
<1>2. ASSUME NEW g \in Handles, g # h PROVE HandlerQuiet(g)'
  <2>1. HandlerQuiet(g) /\ server = latest
    BY DEF Undisturbed
  <2>2. Filling(Owner[g]) => Filling(Owner[g])'
    BY <1>2 DEF Filling
  <2> QED BY <1>2, <2>1, <2>2, OtherQuiet
<1>3. server' # Absent
  BY ContentFacts
<1> QED BY <1>1, <1>2, <1>3 DEF Undisturbed

(* The steps of a handler that do not disturb.                             *)
LEMMA OpenQuiet ==
  ASSUME TypeOK, OwnWrites, Undisturbed, NEW h \in Handles, OpenStep(h), ~Disturbs(h)
  PROVE  Undisturbed'
<1> DEFINE c == Owner[h]
<1> USE ContentFacts DEF Goto
<1>0. /\ c \in Clients /\ Shape
      /\ pc \in [Handles -> Places] /\ local \in [Clients -> Contents \cup {Absent}]
      /\ server \in Contents \cup {Absent} /\ buf \in [Handles -> Contents \cup {Absent}]
      /\ seen \in [Handles -> Contents \cup {Absent}]
      /\ may \in [Handles -> SUBSET (Contents \cup {Absent})] /\ current \subseteq Clients
  BY ShapeOfType DEF Shape
<1>1. /\ \A g \in Handles \ {h} : /\ pc'[g] = pc[g] /\ seen'[g] = seen[g]
                                  /\ buf'[g] = buf[g] /\ wrote'[g] = wrote[g]
      /\ \A d \in Clients \ {c} : local'[d] = local[d]
  BY Others DEF HandlerAct
<1>2. HandlerQuiet(h) /\ CopyQuiet(c) /\ server = latest
      /\ (server = Absent => \A d \in Clients : local[d] = Absent)
  BY <1>0 DEF Undisturbed
<1>3. wrote[h] = None
  BY DEF OpenStep, ShouldFetch, OpenRPC, Download, SaveTruncate, SaveFill, OpenLocal, OpenFails,
         LookUp, CreateRPC, CreateLocal, OwnWrites
<1>4. ~Sends(h) /\ ~OpenRPC(h)
  BY <1>2, <1>3 DEF Sends, OpenRPC, HandlerQuiet
<1>5. ~Overtakes(h) /\ ~Coincides(h)
  BY DEF Disturbs
<1> HIDE DEF c
<1>6. CASE ShouldFetch(h)
  <2>1. /\ UNCHANGED <<server, local, current, latest>> /\ pc[h] = "idle"
        /\ \A g \in Handles \ {h} : may'[g] = may[g]
        /\ may'[h] = {latest} \cup Unsaved(c)
    BY <1>0, <1>6 DEF ShouldFetch, dataVars, c
  <2>2. server # Absent
    BY <1>0, <1>2, <1>6 DEF ShouldFetch, c
  <2>3. /\ pc'[h] \in {"local", "download"}
        /\ pc'[h] = "local" => local[c] # Absent /\ c \in current
        /\ pc'[h] = "download" => seen'[h] = server
    BY <1>0, <1>6, <2>2 DEF ShouldFetch, c
  <2>4. ASSUME pc'[h] = "local", ~Filling(c) PROVE local[c] \in may'[h]
    <3>1. local[c] = server \/ Pending(c)
      BY <1>2, <2>3, <2>4 DEF CopyQuiet
    <3>2. Pending(c) => local[c] \in Unsaved(c)
      BY DEF Pending, Sends, Unsaved
    <3> QED BY <1>2, <2>1, <3>1, <3>2
  <2>5. Filling(c)' <=> Filling(c)
    BY <1>1, <2>1, <2>3 DEF Filling
  <2>6. HandlerQuiet(h)'
    BY <2>1, <2>3, <2>4, <2>5 DEF HandlerQuiet, c
  <2> QED BY <1>1, <1>4, <2>1, <2>3, <2>6, PlainStep
<1>7. CASE Download(h)
  <2>1. /\ UNCHANGED <<server, local, current, latest, may>> /\ pc[h] = "download" /\ pc'[h] = "save"
        /\ server # Absent
    BY <1>0, <1>7 DEF Download, dataVars, historyVars
  <2>2. seen[h] = server
    BY <1>2, <2>1 DEF HandlerQuiet
  <2>3. buf'[h] = server
    BY <1>0, <1>7, <2>2 DEF Download, FirstBytes
  <2>4. latest \in may[h]
    BY <1>2, <2>1 DEF HandlerQuiet, Opening
  <2>5. HandlerQuiet(h)'
    BY <2>1, <2>3, <2>4 DEF HandlerQuiet
  <2> QED BY <1>1, <1>4, <2>1, <2>5, PlainStep
<1>8. CASE OpenLocal(h) \/ OpenFails(h) \/ LookUp(h)
  <2>1. /\ UNCHANGED <<server, local, current, latest>> /\ pc[h] # "fill"
        /\ pc'[h] \in {"open", "idle", "missing"} /\ (pc'[h] = "missing" => server = Absent)
        /\ \A g \in Handles \ {h} : may'[g] = may[g]
    BY <1>0, <1>8 DEF OpenLocal, OpenFails, GiveUp, LookUp, dataVars, historyVars
  <2>2. HandlerQuiet(h)'
    BY <2>1 DEF HandlerQuiet, Opening
  <2> QED BY <1>1, <1>4, <2>1, <2>2, PlainStep
<1>9. CASE SaveTruncate(h)
  <2>1. /\ UNCHANGED <<server, latest, buf, may>> /\ pc[h] = "save" /\ pc'[h] = "fill"
        /\ current' = current \cup {c}
    BY <1>0, <1>9 DEF SaveTruncate, SetLocal, historyVars, c
  <2>2. buf[h] = server /\ latest \in may[h] /\ server # Absent
    BY <1>0, <1>2, <2>1 DEF HandlerQuiet, Shape, Opening
  <2>3. HandlerQuiet(h)'
    BY <2>1, <2>2 DEF HandlerQuiet
  <2>4. Filling(c)'
    BY <2>1 DEF Filling, c
  <2>5. CopyQuiet(c)'
    BY <2>4 DEF CopyQuiet
  <2> QED BY <1>0, <1>1, <2>1, <2>2, <2>3, <2>4, <2>5, LocalStep DEF c
<1>10. CASE SaveFill(h)
  <2>1. /\ UNCHANGED <<server, latest, may>> /\ pc[h] = "fill" /\ pc'[h] = "local"
        /\ current' = current \cup {c} /\ local'[c] = buf[h]
    BY <1>0, <1>10 DEF SaveFill, SetLocal, historyVars, c
  <2>2. buf[h] = server /\ latest \in may[h] /\ server # Absent
    BY <1>0, <1>2, <2>1 DEF HandlerQuiet, Shape, Opening
  <2>3. HandlerQuiet(h)'
    BY <1>2, <2>1, <2>2 DEF HandlerQuiet, c
  <2>4. CopyQuiet(c)'
    BY <2>1, <2>2 DEF CopyQuiet
  <2>5. \A g \in Handles \ {h} : pc[g] = "local" => local'[c] \in may'[g]
    <3>1. \A g \in Handles : pc[g] = "local" => latest \in may[g]
      BY DEF Undisturbed, HandlerQuiet, Opening
    <3> QED BY <1>2, <2>1, <2>2, <3>1
  <2> QED BY <1>0, <1>1, <2>1, <2>2, <2>3, <2>4, <2>5, LocalStep DEF c
<1>11. CASE CreateRPC(h)
  <2>1. pc[h] = "missing" /\ server = Absent
    BY <1>2, <1>11 DEF CreateRPC, HandlerQuiet
  <2>2. /\ server' = {} /\ latest' = {} /\ current' = tick /\ local' = local /\ pc'[h] = "creating"
        /\ MayFind(Handles, {})
    BY <1>0, <1>11, <2>1 DEF CreateRPC, SetServer
  <2>3. \A g \in Handles \ {h} : pc[g] \in Opening => may[g] \subseteq may'[g] /\ {} \in may'[g]
    BY <2>2 DEF MayFind
  <2>4. HandlerQuiet(h)'
    BY <2>2 DEF HandlerQuiet, Opening
  <2>5. \A g \in Handles \ {h} : pc[g] \notin Fetching
    BY <1>5, <2>1, <2>2 DEF Overtakes
  <2>6. \A d \in tick : local[d] \in {Absent, server'}
    BY <1>5, <2>1 DEF Coincides
  <2> QED BY <1>0, <1>1, <2>1, <2>2, <2>3, <2>4, <2>5, <2>6, ServerStep
<1>12. CASE CreateLocal(h)
  <2>1. pc[h] = "creating" /\ server = {} /\ pc'[h] = "open" /\ UNCHANGED <<server, latest, may>>
    BY <1>0, <1>2, <1>12 DEF CreateLocal, HandlerQuiet, historyVars, dataVars, SetLocal
  <2>2. HandlerQuiet(h)'
    BY <2>1 DEF HandlerQuiet, Opening
  <2>3. CASE local[c] = Absent
    <3>1. local'[c] = {} /\ current' = current \cup {c}
      BY <1>0, <1>12, <2>3 DEF CreateLocal, SetLocal, c
    <3>2. CopyQuiet(c)'
      BY <2>1, <3>1 DEF CopyQuiet
    <3>3. \A g \in Handles \ {h} : pc[g] = "local" => local'[c] \in may'[g]
      <4>1. \A g \in Handles : pc[g] = "local" => latest \in may[g]
        BY DEF Undisturbed, HandlerQuiet, Opening
      <4> QED BY <1>2, <2>1, <3>1, <4>1
    <3>4. server # Absent
      BY <2>1
    <3> QED BY <1>0, <1>1, <2>1, <2>2, <3>1, <3>2, <3>3, <3>4, LocalStep DEF c
  <2>4. CASE local[c] # Absent
    <3>1. UNCHANGED <<local, current>>
      BY <1>12, <2>4 DEF CreateLocal, dataVars, c
    <3> QED BY <1>1, <1>4, <2>1, <2>2, <3>1, PlainStep
  <2> QED BY <2>3, <2>4
<1> QED BY <1>4, <1>6, <1>7, <1>8, <1>9, <1>10, <1>11, <1>12 DEF OpenStep

LEMMA CloseQuiet ==
  ASSUME TypeOK, OwnWrites, Undisturbed, NEW h \in Handles, Write(h) \/ CloseStep(h), ~Disturbs(h)
  PROVE  Undisturbed'
<1> DEFINE c == Owner[h]
<1> USE ContentFacts DEF Goto
<1>0. /\ c \in Clients /\ Shape
      /\ pc \in [Handles -> Places] /\ local \in [Clients -> Contents \cup {Absent}]
      /\ server \in Contents \cup {Absent} /\ buf \in [Handles -> Contents \cup {Absent}]
      /\ wrote \in [Handles -> Writes \cup {None}] /\ writes \in 0..MaxWrites /\ None \notin Writes
      /\ may \in [Handles -> SUBSET (Contents \cup {Absent})] /\ current \subseteq Clients
  BY ShapeOfType DEF Shape
<1>1. /\ \A g \in Handles \ {h} : /\ pc'[g] = pc[g] /\ seen'[g] = seen[g]
                                  /\ buf'[g] = buf[g] /\ wrote'[g] = wrote[g]
      /\ \A d \in Clients \ {c} : local'[d] = local[d]
  BY Others DEF HandlerAct
<1>2. server = latest /\ (server = Absent => \A d \in Clients : local[d] = Absent)
  BY DEF Undisturbed
<1>3. wrote[h] # None => local[c] # Absent
  BY DEF OwnWrites, c
<1> HIDE DEF c
<1>4. CASE Write(h)
  <2>1. /\ UNCHANGED <<server, latest, pc, buf>> /\ local'[c] = local[c] \cup {writes + 1}
        /\ current' = current \cup {c} /\ wrote'[h] = writes + 1 /\ writes + 1 \in Writes
        /\ local[c] # Absent /\ pc[h] = "open"
        /\ MayFind(Siblings(h), local[c] \cup {writes + 1})
    BY <1>0, <1>4 DEF Write, SetLocal, Writes, c
  <2>2. server # Absent
    BY <1>0, <1>2, <2>1
  <2>3. CopyQuiet(c)'
    <3>1. Sends(h)'
      BY <1>0, <2>1 DEF Sends
    <3>2. Pending(c)'
      BY <3>1 DEF Pending, c
    <3> QED BY <3>2 DEF CopyQuiet
  <2>4. HandlerQuiet(h)'
    BY <2>1 DEF HandlerQuiet, Opening
  <2>5. \A g \in Handles \ {h} : pc[g] \in Opening => may[g] \subseteq may'[g]
    BY <2>1 DEF MayFind
  <2>6. \A g \in Handles \ {h} : Owner[g] = c /\ pc[g] = "local" => local'[c] \in may'[g]
    BY <2>1 DEF MayFind, Siblings, Opening, c
  <2> QED BY <1>0, <1>1, <2>1, <2>2, <2>3, <2>4, <2>5, <2>6, LocalStep DEF c
<1>5. CASE Flush(h) \/ Release(h)
  <2>1. UNCHANGED <<server, latest, local, current, may>> /\ pc[h] \in {"open", "closed"}
    BY <1>5 DEF Flush, Release, dataVars, historyVars
  <2>2. \/ /\ wrote' = wrote /\ wrote[h] # None /\ buf'[h] = local[c]
           /\ pc'[h] \in {"flushing", "releasing"}
        \/ wrote[h] = None /\ pc'[h] \in {"closed", "idle"}
    BY <1>0, <1>3, <1>5 DEF Flush, Release, ReadBack, Closed, c
  <2>3. Sends(h) => Sends(h)'
    BY <2>1, <2>2 DEF Sends, c
  <2>4. HandlerQuiet(h)'
    BY <2>2 DEF HandlerQuiet, Opening
  <2>5. pc[h] # "fill" /\ pc'[h] # "fill"
    BY <2>1, <2>2
  <2> QED BY <1>1, <2>1, <2>3, <2>4, <2>5, PlainStep
<1>6. CASE FlushSend(h) \/ ReleaseSend(h)
  <2>1. /\ pc[h] \in {"flushing", "releasing"} /\ buf[h] \in Contents
        /\ server' = buf[h] /\ local' = local /\ current' = tick /\ pc'[h] \in {"closed", "idle"}
    BY <1>0, <1>6 DEF FlushSend, ReleaseSend, SetServer, Done, Closed, Shape
  <2>2. /\ latest' = buf[h]
        /\ \A g \in Handles \ {h} : pc[g] \in Opening => may[g] \subseteq may'[g] /\ latest' \in may'[g]
    <3>1. CASE FlushSend(h)
      BY <3>1 DEF FlushSend, MayFind
    <3>2. CASE ReleaseSend(h)
      <4>1. buf[h] = server /\ UNCHANGED <<latest, may>>
        BY <3>2 DEF Disturbs, SendsAgain, ReleaseSend, historyVars
      <4>2. \A g \in Handles : pc[g] \in Opening => latest \in may[g]
        BY DEF Undisturbed, HandlerQuiet
      <4> QED BY <1>2, <4>1, <4>2
    <3> QED BY <1>6, <3>1, <3>2
  <2>3. server' = server \/ \A g \in Handles \ {h} : pc[g] \notin Fetching
    BY DEF Disturbs, Overtakes
  <2>4. \A d \in tick : local[d] \in {Absent, server'}
    BY <2>1 DEF Disturbs, Coincides
  <2>5. HandlerQuiet(h)'
    BY <2>1 DEF HandlerQuiet, Opening
  <2> QED BY <1>0, <1>1, <2>1, <2>2, <2>3, <2>4, <2>5, ServerStep
<1> QED BY <1>4, <1>5, <1>6 DEF CloseStep

LEMMA FaultQuiet ==
  ASSUME TypeOK, OwnWrites, Undisturbed, NEW h \in Handles, RpcFails(h) \/ DiskFails(h),
         ~FaultDisturbs(h)
  PROVE  Undisturbed'
<1> DEFINE c == Owner[h]
<1> USE ContentFacts DEF Goto
<1>0. /\ c \in Clients /\ Shape
      /\ pc \in [Handles -> Places] /\ wrote \in [Handles -> Writes \cup {None}]
      /\ buf \in [Handles -> Contents \cup {Absent}]
      /\ may \in [Handles -> SUBSET (Contents \cup {Absent})]
  BY ShapeOfType DEF Shape
<1>1. \A g \in Handles \ {h} : /\ pc'[g] = pc[g] /\ seen'[g] = seen[g]
                               /\ buf'[g] = buf[g] /\ wrote'[g] = wrote[g]
  BY Others DEF HandlerAct
<1>2. /\ pc[h] \notin {"idle", "fill"}
      /\ pc[h] = "save" => local[c] = Absent
      /\ pc'[h] = "idle" /\ wrote[h] # None => server = local[c]
  BY DEF FaultDisturbs, c
<1>3. HandlerQuiet(h)
  BY DEF Undisturbed
<1> HIDE DEF c
<1>4. CASE OpenRpcFails(h) \/ CreateFails(h)
  <2>1. /\ UNCHANGED <<server, local, current, latest, wrote>> /\ pc'[h] = "idle"
        /\ \A g \in Handles \ {h} : may'[g] = may[g]
    BY <1>0, <1>4 DEF OpenRpcFails, CreateFails, GiveUp, dataVars, historyVars
  <2>2. Sends(h) => local[Owner[h]] = server
    BY <1>2, <2>1 DEF Sends, c
  <2>3. HandlerQuiet(h)'
    BY <2>1 DEF HandlerQuiet, Opening
  <2> QED BY <1>1, <1>2, <2>1, <2>2, <2>3, PlainStep
<1>5. CASE SaveFails(h)
  <2>1. /\ UNCHANGED <<server, local, current, latest, wrote, may>> /\ pc[h] = "save" /\ pc'[h] = "local"
    BY <1>0, <1>5 DEF SaveFails, dataVars, historyVars
  <2>2. local[c] = Absent /\ latest \in may[h]
    BY <1>2, <1>3, <2>1 DEF HandlerQuiet, Opening
  <2>3. Sends(h) => Sends(h)'
    BY <2>1 DEF Sends
  <2>4. HandlerQuiet(h)'
    BY <2>1, <2>2 DEF HandlerQuiet, c
  <2> QED BY <1>1, <1>2, <2>1, <2>3, <2>4, PlainStep
<1>6. CASE FlushFails(h) \/ ReleaseFails(h) \/ ReadBackFails(h)
  <2>1. /\ UNCHANGED <<server, local, current, latest, may>> /\ pc'[h] \in {"closed", "idle"}
        /\ pc'[h] = "closed" => wrote'[h] = wrote[h]
    BY <1>0, <1>6 DEF FlushFails, ReleaseFails, ReadBackFails, Done, Closed, dataVars, historyVars
  <2>2. Sends(h) => Sends(h)' \/ local[Owner[h]] = server
    BY <1>2, <2>1 DEF Sends, c
  <2>3. HandlerQuiet(h)'
    BY <2>1 DEF HandlerQuiet, Opening
  <2>4. pc'[h] # "fill"
    BY <2>1
  <2> QED BY <1>1, <1>2, <2>1, <2>2, <2>3, <2>4, PlainStep
<1>7. ~ShouldFetchFails(h) /\ ~SaveShort(h)
  BY <1>2 DEF ShouldFetchFails, SaveShort
<1> QED BY <1>4, <1>5, <1>6, <1>7 DEF RpcFails, DiskFails


-----------------------------------------------------------------------------
(* The theorems. *)

LEMMA TypeOfShape ==
  ASSUME Shape, faults \in 0..MaxFaults, quiet \in BOOLEAN,
         tears \subseteq {"length", "overlap", "short"},
         overwritten \subseteq {h \in Handles : wrote[h] # None}
  PROVE  TypeOK
BY DEF TypeOK, Shape, Places

LEMMA SInit == Init => SInv
<1> SUFFICES ASSUME Init PROVE SInv
  OBVIOUS
<1> USE ContentFacts
<1>1. Shape
  BY DEF Init, Shape, Places, Resting
<1>2. TypeOK
  BY <1>1, TypeOfShape DEF Init
<1>3. OwnWrites /\ Whole /\ Undisturbed
  BY DEF Init, OwnWrites, Whole, Filling, Undisturbed, CopyQuiet, HandlerQuiet, Opening
<1> QED BY <1>2, <1>3 DEF SInv

LEMMA SNext == SInv /\ [Next]_vars => SInv'
<1> SUFFICES ASSUME SInv, [Next]_vars PROVE SInv'
  OBVIOUS
<1>0. TypeOK /\ OwnWrites /\ Shape /\ (tears = {} => Whole) /\ (quiet => Undisturbed)
  BY ShapeOfType DEF SInv
<1>1. ASSUME NEW h \in Handles, OpenStep(h) \/ Write(h) \/ CloseStep(h),
             Observe(h, Disturbs(h), Tears(h)), UNCHANGED faults
      PROVE  SInv'
  <2>1. HandlerAct(h)
    BY <1>1 DEF HandlerAct
  <2>2. OwnWrites' /\ overwritten' \subseteq {g \in Handles : wrote'[g] # None}
    BY <1>0, <1>1, <2>1, OwnWritesNext
  <2>3. TypeOK'
    <3>1. Shape' /\ faults' \in 0..MaxFaults /\ quiet' \in BOOLEAN
      BY <1>0, <1>1, <2>1, ShapeNext DEF TypeOK, Observe
    <3>2. tears' \subseteq {"length", "overlap", "short"}
      BY <1>0, <1>1 DEF TypeOK, Observe, Tears
    <3> QED BY <2>2, <3>1, <3>2 DEF TypeOK, Shape, Places
  <2>4. ASSUME quiet' PROVE Undisturbed'
    <3>1. quiet /\ ~Disturbs(h)
      BY <1>1, <2>4 DEF Observe
    <3> QED BY <1>0, <1>1, <3>1, OpenQuiet, CloseQuiet
  <2>5. ASSUME tears' = {} PROVE Whole'
    <3>1. tears = {} /\ Tears(h) = {}
      BY <1>1, <2>5 DEF Observe
    <3> QED BY <1>0, <1>1, <3>1, WholeNext
  <2> QED BY <2>2, <2>3, <2>4, <2>5 DEF SInv
<1>2. ASSUME NEW h \in Handles, faults < MaxFaults, faults' = faults + 1, RpcFails(h) \/ DiskFails(h),
             Observe(h, FaultDisturbs(h), IF pc[h] = "fill" THEN {"short"} ELSE {})
      PROVE  SInv'
  <2>1. HandlerAct(h)
    BY <1>2 DEF HandlerAct
  <2>2. OwnWrites' /\ overwritten' \subseteq {g \in Handles : wrote'[g] # None}
    BY <1>0, <1>2, <2>1, OwnWritesNext
  <2>3. Shape' /\ faults' \in 0..MaxFaults /\ quiet' \in BOOLEAN
    BY <1>0, <1>2, <2>1, ShapeNext DEF TypeOK, Observe
  <2>4. tears' \subseteq {"length", "overlap", "short"}
    BY <1>0, <1>2 DEF TypeOK, Observe
  <2>5. TypeOK'
    BY <2>2, <2>3, <2>4 DEF TypeOK, Shape, Places
  <2>6. ASSUME quiet' PROVE Undisturbed'
    <3>1. quiet /\ ~FaultDisturbs(h)
      BY <1>2, <2>6 DEF Observe
    <3> QED BY <1>0, <1>2, <3>1, FaultQuiet
  <2>7. ASSUME tears' = {} PROVE Whole'
    <3>1. tears = {} /\ pc[h] # "fill"
      BY <1>2, <2>7 DEF Observe
    <3>2. ~SaveShort(h)
      BY <3>1 DEF SaveShort
    <3>3. Tears(h) = {}
      BY <1>0, <1>2
      DEF Tears, RpcFails, DiskFails, ShouldFetchFails, OpenRpcFails, CreateFails, FlushFails,
          ReleaseFails, SaveFails, SaveShort, ReadBackFails, GiveUp, Done, Goto, Closed, Shape
    <3> QED BY <1>0, <1>2, <3>1, <3>2, <3>3, WholeNext DEF DiskFails
  <2> QED BY <2>2, <2>5, <2>6, <2>7 DEF SInv
<1>3. ASSUME NEW c \in Clients, faults < MaxFaults, faults' = faults + 1, Unlink(c),
             quiet' = (quiet /\ ~UnlinkDisturbs(c)), UNCHANGED <<tears, overwritten>>
      PROVE  SInv'
  <2>1. Shape'
    BY <1>0, <1>3 DEF Unlink, Shape
  <2>2. OwnWrites'
    <3>1. \A h \in Handles : Owner[h] \in Clients /\ (wrote[h] # None => Owner[h] # c)
      BY <1>0, <1>3 DEF Unlink, OwnWrites
    <3> QED BY <1>0, <1>3, <3>1 DEF Unlink, OwnWrites, TypeOK
  <2>3. TypeOK'
    <3>1. faults' \in 0..MaxFaults
      <4>1. faults \in 0..MaxFaults
        BY <1>0 DEF TypeOK
      <4> QED BY <1>3, <4>1
    <3>2. quiet' \in BOOLEAN
      BY <1>3
    <3>3. /\ overwritten' \subseteq {h \in Handles : wrote'[h] # None}
          /\ tears' \subseteq {"length", "overlap", "short"}
      BY <1>0, <1>3 DEF TypeOK, Unlink
    <3> QED BY <2>1, <3>1, <3>2, <3>3 DEF TypeOK, Shape, Places
  <2>4. ASSUME quiet' PROVE Undisturbed'
    <3>1. quiet /\ ~UnlinkDisturbs(c)
      BY <1>3, <2>4
    <3>2. /\ server' = Absent /\ latest' = Absent /\ local' = [local EXCEPT ![c] = Absent]
          /\ UNCHANGED <<pc, may>>
          /\ \A d \in Clients \ {c} : local[d] = Absent
          /\ \A h \in Handles : pc[h] \notin Opening \cup Fetching
      BY <1>3, <3>1 DEF Unlink, UnlinkDisturbs
    <3>3. \A d \in Clients : local'[d] = Absent
      BY <1>0, <3>2 DEF Shape
    <3> QED BY <3>2, <3>3 DEF Undisturbed, CopyQuiet, HandlerQuiet, Opening, Fetching
  <2>5. tears' = {} => Whole'
    <3>1. /\ server' = Absent /\ local' = [local EXCEPT ![c] = Absent] /\ UNCHANGED <<pc, buf, tears>>
      BY <1>3 DEF Unlink
    <3>2. \A d \in Clients : Torn \in local'[d] => Torn \in local[d]
      BY <1>0, <3>1, ContentFacts DEF Shape
    <3> QED BY <1>0, <3>1, <3>2, ContentFacts DEF Whole, Filling
  <2> QED BY <2>2, <2>3, <2>4, <2>5 DEF SInv
<1>4. CASE Tick /\ UNCHANGED <<faults, observed>>
  <2>1. TypeOK'
    BY <1>0, <1>4 DEF Tick, TypeOK, observed, historyVars
  <2>2. OwnWrites' /\ (tears' = {} => Whole')
    BY <1>0, <1>4 DEF Tick, OwnWrites, Whole, Filling, observed
  <2>3. quiet' => Undisturbed'
    BY <1>0, <1>4
    DEF Tick, Undisturbed, CopyQuiet, HandlerQuiet, Filling, Pending, Sends, observed, historyVars
  <2> QED BY <2>1, <2>2, <2>3 DEF SInv
<1>5. CASE UNCHANGED vars
  <2>1. TypeOK' /\ OwnWrites' /\ (tears' = {} => Whole')
    BY <1>0, <1>5 DEF vars, TypeOK, OwnWrites, Whole, Filling
  <2>2. quiet' => Undisturbed'
    BY <1>0, <1>5 DEF vars, Undisturbed, CopyQuiet, HandlerQuiet, Filling, Pending, Sends
  <2> QED BY <2>1, <2>2 DEF SInv
<1> QED BY <1>1, <1>2, <1>3, <1>4, <1>5 DEF Next

(* Every reachable state satisfies the inductive invariant. *)
THEOREM Invariant == Spec => []SInv
<1> QED BY SInit, SNext, PTL DEF Spec

(* The variables keep their shape. *)
THEOREM TypeCorrect == Spec => []TypeOK
<1>1. SInv => TypeOK
  BY DEF SInv
<1> QED BY Invariant, <1>1, PTL

(* What a close sends has the last write of its session in it, unless an   *)
(* open of the same client has replaced the copy meanwhile.                *)
THEOREM OwnWriteSent == Spec => []CloseSendsOwnWrite
<1>1. SInv => CloseSendsOwnWrite
  BY DEF SInv, OwnWrites, CloseSendsOwnWrite
<1> QED BY Invariant, <1>1, PTL

(* Unless something has torn a file, the one on the server is whole: with  *)
(* handlers that overlap, calls that fail, late releases and unlinks.      *)
THEOREM WholeOnServer == Spec => []ServerWhole
<1>1. SInv => ServerWhole
  BY DEF SInv, Whole, ServerWhole
<1> QED BY Invariant, <1>1, PTL

(* As long as nothing disturbs the sessions an open finds what the last    *)
(* close left, or one that ran at the same time, or what its own client    *)
(* has not closed yet.                                                     *)
THEOREM OpensFresh == Spec => FreshOpen
<1>1. SInv /\ [Next]_vars => [quiet' => FindsLatest]_vars
  <2> SUFFICES ASSUME SInv, Next, quiet' PROVE FindsLatest
    OBVIOUS
  <2> SUFFICES ASSUME NEW h \in Handles, pc[h] = "local", pc'[h] = "open"
               PROVE  local[Owner[h]] \in may[h]
    BY DEF FindsLatest
  <2>1. quiet /\ TypeOK /\ Shape
    BY ShapeOfType DEF Next, Observe, observed, SInv
  <2>2. OpenLocal(h) /\ ~OpensUnfilled(h)
    <3>1. PICK g \in Handles : \/ /\ OpenStep(g) \/ Write(g) \/ CloseStep(g)
                                 /\ ~Disturbs(g)
                              \/ RpcFails(g) \/ DiskFails(g)
      <4>1. ~ \E c \in Clients : Unlink(c)
        BY DEF Unlink
      <4>2. ~ Tick
        BY DEF Tick
      <4> QED BY <4>1, <4>2 DEF Next, Observe
    <3>2. g = h
      BY <2>1, <3>1, Others DEF HandlerAct
    <3>3. OpenLocal(h)
      <4> USE <2>1, <3>1, <3>2 DEF Goto, Shape, Places, Resting, Opening
      <4>1. OpenStep(h)
        BY DEF Write, CloseStep, Flush, FlushSend, Release, ReleaseSend, RpcFails, DiskFails,
               ShouldFetchFails, OpenRpcFails, CreateFails, FlushFails, ReleaseFails,
               SaveFails, SaveShort, ReadBackFails, GiveUp
      <4> QED BY <4>1 DEF OpenStep, ShouldFetch, OpenRPC, Download, SaveTruncate, SaveFill, OpenFails,
               GiveUp, LookUp, CreateRPC, CreateLocal
    <3>4. ~Disturbs(h)
      BY <3>1, <3>2, <3>3 DEF OpenLocal, RpcFails, DiskFails, ShouldFetchFails, OpenRpcFails, CreateFails,
         FlushFails, ReleaseFails, SaveFails, SaveShort, ReadBackFails
    <3> QED BY <3>3, <3>4 DEF Disturbs
  <2>3. ~Filling(Owner[h])
    BY <2>2 DEF OpensUnfilled, Siblings, Filling
  <2>4. HandlerQuiet(h) /\ local[Owner[h]] # Absent
    BY <2>1, <2>2 DEF SInv, Undisturbed, OpenLocal
  <2> QED BY <2>3, <2>4 DEF HandlerQuiet
<1> QED BY Invariant, <1>1, PTL DEF Spec, FreshOpen

=============================================================================
