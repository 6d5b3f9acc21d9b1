--------------------------- MODULE WowCacheProofs ---------------------------
(***************************************************************************)
(* The properties of WowCache for any number of paths, files, handles,     *)
(* descriptors, handlers and writes.                                       *)
(***************************************************************************)
EXTENDS WowCache, FiniteSetTheorems, TLAPS

(* What has befallen a file. *)
Is(f, why) == <<f, why>> \in spoiled

(* A handle has a path, a file and a descriptor, and a handler that sends  *)
(* has read something.                                                     *)
HandlesFilled ==
    \A h \in Handles :
        /\ pc[h] # "unused" => path[h] \in Paths /\ file[h] \in Files /\ fh[h] \in Fds
        /\ pc[h] = "send" => buf[h] \in [file : Files, version : Versions]

(* Paths, local files and the server's files. *)
Tree ==
    /\ \A p, q \in Paths : local[p] = local[q] /\ local[p] # None => p = q
    /\ \A p \in Paths : local[p] = None <=> server[p] = None
    /\ \A f \in Files : data[f] <= writes
    /\ \A h \in Handles : pc[h] # "unused" => local[path[h]] = file[h]

(* The entries of a path are counted; a count may be too high when an      *)
(* entry was overwritten.                                                  *)
Entries(p) == {n \in Fds : meta[n] # None /\ meta[n].path = p}
Counted == \A p \in Paths : Cardinality(Entries(p)) <= freq[p]

(* The entry of a descriptor that is in the maps. *)
Registered(h) == HasFd(h) /\ pc[h] # "opened"
EntriesOwn ==
    \A h \in Handles : Registered(h) =>
        /\ meta[fh[h]] # None /\ ~Is(file[h], "renamed") => meta[fh[h]].path = path[h]
        /\ ~Is(file[h], "reused") =>
             /\ meta[fh[h]] # None
             /\ \A g \in Handles : pc[g] = "closed" => fh[g] # fh[h]

(* What is to be sent was read from the handle's own file. *)
BufferOwn ==
    \A h \in Handles : pc[h] = "send" /\ ~Is(file[h], "renamed") =>
        buf[h].file = file[h] /\ buf[h].version <= data[file[h]]

(* Where no descriptor was reused too early: which descriptors have an     *)
(* entry, between the steps of the handlers too.                           *)
NoReuse == \A f \in Files : ~Is(f, "reused")
Opens(n) == \E h \in Handles : pc[h] = "opened" /\ fh[h] = n
Closes(n) == \E h \in Handles : pc[h] = "closed" /\ fh[h] = n
Exact ==
    NoReuse =>
        /\ \A n \in Fds : meta[n] # None <=> (open[n] # None /\ ~Opens(n)) \/ Closes(n)
        /\ \A g, h \in Handles : pc[g] = "closed" /\ pc[h] = "closed" /\ fh[g] = fh[h] => g = h
        /\ \A n \in Fds : Closes(n) /\ open[n] # None => Opens(n)
        /\ \A p \in Paths : freq[p] = Cardinality(Entries(p))

(* A handle that will bring the server up to date with file f. *)
Saves(h, f) ==
    /\ file[h] = f
    /\ \/ pc[h] = "written"
       \/ /\ pc[h] \in {"open", "check", "read", "send"}
          /\ meta[fh[h]] # None /\ meta[fh[h]].dirty
          /\ pc[h] = "send" /\ releasing[h] => buf[h].version = data[f]
CatchesUp ==
    \A p \in Paths : local[p] # None /\ Sound(local[p]) =>
        \/ server[p] = data[local[p]]
        \/ \E h \in Handles : Saves(h, local[p])

IInv ==
    /\ TypeOK
    /\ HandlesFilled
    /\ DescriptorsApart
    /\ Tree
    /\ Counted
    /\ EntriesOwn
    /\ BufferOwn
    /\ Exact
    /\ CatchesUp

-----------------------------------------------------------------------------
USE CacheAssumption

LEMMA EntriesFinite ==
    ASSUME NEW S \in SUBSET Fds
    PROVE  IsFiniteSet(S) /\ Cardinality(S) \in Nat
<1>1. 1 \in Int /\ MaxFd \in Int
    OBVIOUS
<1>2. IsFiniteSet(1..MaxFd)
    BY <1>1, FS_Interval, Zenon
<1>3. IsFiniteSet(Fds)
    BY <1>2, Zenon DEF Fds
<1>4. IsFiniteSet(S)
    BY <1>3, FS_Subset, Zenon
<1> QED BY <1>4, FS_CardinalityType, Zenon

Places == {"unused", "open", "opened", "written", "check", "read", "send", "close", "closed"}

(* What TypeOK and HandlesFilled say of a handler at work. *)
LEMMA Shape ==
    ASSUME TypeOK
    PROVE  /\ pc \in [Handles -> Places]
           /\ path \in [Handles -> Paths \cup {None}]
           /\ file \in [Handles -> Files \cup {None}]
           /\ fh \in [Handles -> Fds \cup {None}]
           /\ releasing \in [Handles -> BOOLEAN]
           /\ meta \in [Fds -> [path : Paths, dirty : BOOLEAN] \cup {None}]
           /\ open \in [Fds -> Files \cup {None}]
           /\ local \in [Paths -> Files \cup {None}]
           /\ server \in [Paths -> Versions \cup {None}]
           /\ data \in [Files -> Versions]
           /\ freq \in [Paths -> Nat]
           /\ buf \in [Handles -> [file : Files, version : Versions] \cup {None}]
           /\ writes \in Nat
BY DEF TypeOK, Places, Resting

(* The type invariant, which needs Counted: a count that is decreased is   *)
(* not zero.                                                               *)
LEMMA TypeNext == TypeOK /\ HandlesFilled /\ Counted /\ [Next]_vars => TypeOK'
<1> SUFFICES ASSUME TypeOK, HandlesFilled, Counted, [Next]_vars PROVE TypeOK'
    OBVIOUS
<1> USE DEF TypeOK, Resting
<1>1. ASSUME NEW h \in Handles, NEW p \in Paths, Open(h, p) \/ Create(h, p) PROVE TypeOK'
    <2>1. ASSUME NEW f \in Files, TakeFd(h, p, f)
          PROVE  /\ open' \in [Fds -> Files \cup {None}]
                 /\ fh' \in [Handles -> Fds \cup {None}]
                 /\ path' \in [Handles -> Paths \cup {None}]
                 /\ file' \in [Handles -> Files \cup {None}]
                 /\ pc' \in [Handles -> Resting \cup {"opened", "written", "check", "read",
                                                      "send", "close", "closed"}]
        BY <2>1 DEF TakeFd
    <2>2. CASE Open(h, p)
        <3>1. local[p] \in Files /\ TakeFd(h, p, local[p])
            BY <2>2 DEF Open
        <3> QED BY <2>1, <2>2, <3>1 DEF Open, TakeFd, mapVars
    <2>3. CASE Create(h, p)
        <3> PICK f \in Files : /\ TakeFd(h, p, f)
                               /\ local' = [local EXCEPT ![p] = f]
                               /\ data' = [data EXCEPT ![f] = 0]
                               /\ server' = [server EXCEPT ![p] = 0]
                               /\ spoiled' = {s \in spoiled : s[1] # f \/ s[2] = "reused"}
            BY <2>3 DEF Create
        <3>1. 0 \in Versions
            BY DEF Versions
        <3> QED BY <2>1, <3>1 DEF TakeFd, mapVars
    <2> QED BY <1>1, <2>2, <2>3
<1>2. ASSUME NEW h \in Handles, RegisterOpen(h) PROVE TypeOK'
    <2>1. path[h] \in Paths /\ fh[h] \in Fds /\ file[h] \in Files
        BY <1>2 DEF RegisterOpen, HandlesFilled
    <2>2. spoiled' \subseteq Files \X Reasons
        BY <1>2, <2>1 DEF RegisterOpen, Reuses, Spoil, Reasons
    <2> QED BY <1>2, <2>1, <2>2 DEF RegisterOpen
<1>3. ASSUME NEW h \in Handles, Write(h) PROVE TypeOK'
    <2>1. writes + 1 \in Versions /\ writes' \in 0..MaxWrites
        BY <1>3 DEF Write, Versions
    <2>2. data' \in [Files -> Versions]
        BY <1>3, <2>1 DEF Write
    <2> QED BY <1>3, <2>1, <2>2 DEF Write, mapVars
<1>4. ASSUME NEW h \in Handles, RegisterDirty(h) PROVE TypeOK'
    <2>1. fh[h] \in Fds
        BY <1>4 DEF RegisterDirty, HandlesFilled
    <2>2. meta' \in [Fds -> [path : Paths, dirty : BOOLEAN] \cup {None}]
        <3>1. CASE meta[fh[h]] = None
            BY <1>4, <3>1 DEF RegisterDirty
        <3>2. CASE meta[fh[h]] # None
            <4>1. meta[fh[h]] \in [path : Paths, dirty : BOOLEAN]
                BY <2>1, <3>2
            <4>2. [path |-> meta[fh[h]].path, dirty |-> TRUE] \in [path : Paths, dirty : BOOLEAN]
                BY <4>1
            <4> QED BY <1>4, <2>1, <3>2, <4>2 DEF RegisterDirty
        <3> QED BY <3>1, <3>2
    <2> QED BY <1>4, <2>2 DEF RegisterDirty, counters
<1>5. ASSUME NEW h \in Handles, StartFlush(h) \/ StartRelease(h) \/ CheckDirty(h) \/ FlushFails(h)
      PROVE  TypeOK'
    BY <1>5 DEF StartFlush, StartRelease, CheckDirty, FlushFails, WrittenBack, counters, mapVars
<1>6. ASSUME NEW h \in Handles, ReadFile(h) PROVE TypeOK'
    <2>1. fh[h] \in Fds
        BY <1>6 DEF ReadFile, HandlesFilled
    <2>2. buf' \in [Handles -> [file : Files, version : Versions] \cup {None}]
        BY <1>6, <2>1 DEF ReadFile
    <2> QED BY <1>6, <2>2 DEF ReadFile, WrittenBack, counters, mapVars
<1>7. ASSUME NEW h \in Handles, Send(h) PROVE TypeOK'
    <2>1. buf[h].version \in Versions /\ file[h] \in Files
        BY <1>7 DEF Send, HandlesFilled
    <2>2. spoiled' \subseteq Files \X Reasons
        BY <1>7, <2>1 DEF Send, Spoil, Reasons
    <2> QED BY <1>7, <2>1, <2>2 DEF Send, WrittenBack, mapVars
<1>8. ASSUME NEW h \in Handles, ReleaseFails(h) PROVE TypeOK'
    <2>1. file[h] \in Files
        BY <1>8 DEF ReleaseFails, HandlesFilled
    <2>2. spoiled' \subseteq Files \X Reasons
        BY <1>8, <2>1 DEF ReleaseFails, Spoil, Reasons
    <2> QED BY <1>8, <2>2 DEF ReleaseFails, Reset, mapVars
<1>9. ASSUME NEW h \in Handles, Close(h) PROVE TypeOK'
    BY <1>9 DEF Close, counters, mapVars
<1>10. ASSUME NEW h \in Handles, RegisterClose(h) PROVE TypeOK'
    <2>1. fh[h] \in Fds
        BY <1>10 DEF RegisterClose, HandlesFilled
    <2>2. freq' \in [Paths -> Nat]
        <3>1. CASE meta[fh[h]] = None
            BY <1>10, <3>1 DEF RegisterClose, mapVars
        <3>2. CASE meta[fh[h]] # None
            <4> DEFINE q == meta[fh[h]].path
            <4>1. q \in Paths /\ freq' = [freq EXCEPT ![q] = @ - 1]
                BY <1>10, <2>1, <3>2 DEF RegisterClose
            <4>2. fh[h] \in Entries(q) /\ Entries(q) \subseteq Fds
                BY <2>1, <3>2 DEF Entries
            <4>3. Cardinality(Entries(q)) \in Nat \ {0}
                BY <4>2, EntriesFinite, FS_EmptySet
            <4>4. freq[q] \in Nat /\ freq[q] >= 1
                BY <4>1, <4>3 DEF Counted
            <4> HIDE DEF q
            <4> QED BY <4>1, <4>4
        <3> QED BY <3>1, <3>2
    <2> QED BY <1>10, <2>1, <2>2 DEF RegisterClose, Reset, counters, mapVars
<1>11. ASSUME NEW p \in Paths, TruncatePath(p) PROVE TypeOK'
    <2>1. spoiled' \subseteq Files \X Reasons
        BY <1>11 DEF TruncatePath, Spoil, Reasons
    <2> QED BY <1>11, <2>1 DEF TruncatePath, mapVars, handleVars, Versions
<1>12. ASSUME NEW p \in Paths, Unlink(p) PROVE TypeOK'
    BY <1>12 DEF Unlink, mapVars, handleVars, counters
<1>13. ASSUME NEW p \in Paths, NEW q \in Paths, Rename(p, q) PROVE TypeOK'
    <2>1. spoiled' \subseteq Files \X Reasons
        BY <1>13 DEF Rename, Spoil, Reasons
    <2>2. path' \in [Handles -> Paths \cup {None}]
        BY <1>13 DEF Rename
    <2> QED BY <1>13, <2>1, <2>2 DEF Rename, mapVars
<1>14. CASE UNCHANGED vars
    BY <1>14 DEF vars
<1> QED
    BY <1>1, <1>2, <1>3, <1>4, <1>5, <1>6, <1>7, <1>8, <1>9, <1>10, <1>11, <1>12, <1>13, <1>14
    DEF Next, HandlerStep

-----------------------------------------------------------------------------
(* A step in which a handler goes on and no structure changes: the file is *)
(* still saved by the handle if it was.                                    *)
LEMMA Moves ==
    ASSUME NEW h \in Handles, IInv, TypeOK', Registered(h),
           NEW l \in {"open", "check", "read", "close"}, pc' = [pc EXCEPT ![h] = l],
           local' = local, data' = data, server' = server, open' = open, meta' = meta,
           freq' = freq, path' = path, file' = file, fh' = fh, writes' = writes,
           spoiled' = spoiled,
           \A g \in Handles \ {h} : releasing'[g] = releasing[g] /\ buf'[g] = buf[g],
           Sound(file[h]) /\ Saves(h, file[h]) =>
             l # "close" /\ meta[fh[h]] # None /\ meta[fh[h]].dirty
    PROVE  IInv'
<1>1. pc \in [Handles -> Places] /\ pc[h] \notin {"unused", "closed", "opened"}
    BY Shape DEF IInv, Registered, HasFd
<1>2. /\ \A g \in Handles : (HasFd(g)' <=> HasFd(g)) /\ (Registered(g)' <=> Registered(g))
      /\ \A g \in Handles : (pc'[g] = "closed" <=> pc[g] = "closed")
                            /\ (pc'[g] = "opened" <=> pc[g] = "opened")
                            /\ (pc'[g] = "unused" <=> pc[g] = "unused")
                            /\ (pc'[g] = "send" => pc[g] = "send" /\ g # h)
    BY <1>1 DEF HasFd, Registered
<1>3. HandlesFilled'
    BY <1>2 DEF IInv, HandlesFilled
<1>4. DescriptorsApart'
    BY <1>2 DEF IInv, DescriptorsApart
<1>5. Tree'
    BY <1>2 DEF IInv, Tree
<1>6. Counted'
    BY DEF IInv, Counted, Entries
<1>7. EntriesOwn'
    BY <1>2 DEF IInv, EntriesOwn, Is
<1>8. BufferOwn'
    BY <1>2 DEF IInv, BufferOwn, Is
<1>9. Exact'
    <2>1. NoReuse' <=> NoReuse
        BY DEF NoReuse, Is
    <2>2. \A n \in Fds : (Opens(n)' <=> Opens(n)) /\ (Closes(n)' <=> Closes(n))
        BY <1>2 DEF Opens, Closes
    <2>3. \A p \in Paths : Entries(p)' = Entries(p)
        BY DEF Entries
    <2> QED BY <1>2, <2>1, <2>2, <2>3 DEF IInv, Exact
<1>10. CatchesUp'
    <2> SUFFICES ASSUME NEW p \in Paths, local[p] # None, Sound(local[p]),
                        NEW g \in Handles, Saves(g, local[p])
                 PROVE  Saves(g, local[p])'
        BY DEF IInv, CatchesUp, Sound
    <2>1. CASE g # h
        BY <1>1, <2>1 DEF Saves
    <2>2. CASE g = h
        BY <1>1, <2>2 DEF Saves
    <2> QED BY <2>1, <2>2
<1> QED BY <1>3, <1>4, <1>5, <1>6, <1>7, <1>8, <1>9, <1>10 DEF IInv

LEMMA HandlerMoves ==
    ASSUME NEW h \in Handles, IInv, TypeOK',
           StartFlush(h) \/ StartRelease(h) \/ CheckDirty(h) \/ FlushFails(h)
    PROVE  IInv'
<1> DEFINE l == pc'[h]
<1>1. /\ Registered(h) /\ pc' = [pc EXCEPT ![h] = l] /\ l \in {"open", "check", "read", "close"}
      /\ Saves(h, file[h]) => l # "close" /\ meta[fh[h]] # None /\ meta[fh[h]].dirty
    BY Shape
    DEF StartFlush, StartRelease, CheckDirty, FlushFails, IInv, WrittenBack, Registered, HasFd, Saves
<1>2. /\ local' = local /\ data' = data /\ server' = server /\ open' = open /\ meta' = meta
      /\ freq' = freq /\ path' = path /\ file' = file /\ fh' = fh /\ writes' = writes
      /\ spoiled' = spoiled
      /\ \A g \in Handles \ {h} : releasing'[g] = releasing[g] /\ buf'[g] = buf[g]
    BY Shape DEF StartFlush, StartRelease, CheckDirty, FlushFails, IInv, mapVars, counters
<1> HIDE DEF l
<1> QED BY <1>1, <1>2, Moves

(* readFile goes by the path of the entry, which is the handle's own path  *)
(* unless the file was renamed.                                            *)
LEMMA ReadFileNext ==
    ASSUME NEW h \in Handles, IInv, TypeOK', ReadFile(h) PROVE IInv'
<1> DEFINE m == meta[fh[h]]
<1>1. /\ pc[h] = "read" /\ Registered(h) /\ pc \in [Handles -> Places]
      /\ path[h] \in Paths /\ file[h] \in Files /\ fh[h] \in Fds
      /\ local[path[h]] = file[h]
    BY Shape DEF ReadFile, Registered, HasFd, IInv, HandlesFilled, Tree
<1>2. /\ local' = local /\ data' = data /\ server' = server /\ open' = open /\ meta' = meta
      /\ freq' = freq /\ path' = path /\ file' = file /\ fh' = fh /\ writes' = writes
      /\ spoiled' = spoiled /\ releasing' = releasing
    BY DEF ReadFile, mapVars, counters
<1>3. m # None /\ ~Is(file[h], "renamed") => m.path = path[h]
    BY <1>1 DEF IInv, EntriesOwn
<1>4. CASE m = None \/ local[m.path] = None
    <2>1. pc' = [pc EXCEPT ![h] = WrittenBack(h)] /\ buf' = buf
        BY <1>4 DEF ReadFile
    <2>2. WrittenBack(h) \in {"open", "check", "read", "close"}
        BY DEF WrittenBack
    <2>3. ~(Sound(file[h]) /\ Saves(h, file[h]))
        BY <1>1, <1>3, <1>4 DEF Saves, Sound, Is, Reasons
    <2> HIDE DEF m
    <2> QED BY <1>1, <1>2, <2>1, <2>2, <2>3, Moves
<1>5. CASE m # None /\ local[m.path] # None
    <2>1. /\ pc' = [pc EXCEPT ![h] = "send"]
          /\ buf' = [buf EXCEPT ![h] = [file |-> local[m.path], version |-> data[local[m.path]]]]
        BY <1>5 DEF ReadFile
    <2>2. m.path \in Paths /\ local[m.path] \in Files /\ data[local[m.path]] \in Versions
        BY <1>1, <1>5, Shape DEF IInv
    <2>3. buf'[h] = [file |-> local[m.path], version |-> data[local[m.path]]]
          /\ \A g \in Handles \ {h} : buf'[g] = buf[g] /\ pc'[g] = pc[g]
        BY <2>1, <1>1, Shape DEF IInv
    <2>4. /\ \A g \in Handles : (HasFd(g)' <=> HasFd(g)) /\ (Registered(g)' <=> Registered(g))
          /\ \A g \in Handles : (pc'[g] = "closed" <=> pc[g] = "closed")
                                /\ (pc'[g] = "opened" <=> pc[g] = "opened")
                                /\ (pc'[g] = "unused" <=> pc[g] = "unused")
        BY <1>1, <2>1 DEF HasFd, Registered
    <2>5. HandlesFilled'
        BY <1>1, <1>2, <2>1, <2>2, <2>3, <2>4 DEF IInv, HandlesFilled
    <2>6. DescriptorsApart' /\ Tree'
        BY <1>2, <2>4 DEF IInv, DescriptorsApart, Tree
    <2>7. Counted'
        BY <1>2 DEF IInv, Counted, Entries
    <2>8. EntriesOwn'
        BY <1>2, <2>4 DEF IInv, EntriesOwn, Is
    <2>9. BufferOwn'
        <3> SUFFICES ASSUME NEW g \in Handles, pc'[g] = "send", ~Is(file[g], "renamed")
                     PROVE  buf'[g].file = file[g] /\ buf'[g].version <= data[file[g]]
            BY <1>2 DEF BufferOwn, Is
        <3>1. CASE g = h
            <4>1. local[m.path] = file[h]
                BY <1>1, <1>3, <1>5, <3>1
            <4>2. data[file[h]] \in Nat
                BY <2>2, <4>1 DEF Versions
            <4> QED BY <2>3, <3>1, <4>1, <4>2
        <3>2. CASE g # h
            BY <2>3, <3>2 DEF IInv, BufferOwn
        <3> QED BY <3>1, <3>2
    <2>10. Exact'
        <3>1. NoReuse' <=> NoReuse
            BY <1>2 DEF NoReuse, Is
        <3>2. \A n \in Fds : (Opens(n)' <=> Opens(n)) /\ (Closes(n)' <=> Closes(n))
            BY <1>2, <2>4 DEF Opens, Closes
        <3>3. \A p \in Paths : Entries(p)' = Entries(p)
            BY <1>2 DEF Entries
        <3> QED BY <1>2, <2>4, <3>1, <3>2, <3>3 DEF IInv, Exact
    <2>11. CatchesUp'
        <3> SUFFICES ASSUME NEW p \in Paths, local[p] # None, Sound(local[p]),
                            NEW g \in Handles, Saves(g, local[p])
                     PROVE  Saves(g, local[p])'
            BY <1>2 DEF IInv, CatchesUp, Sound
        <3>1. CASE g # h
            BY <1>2, <2>3, <3>1 DEF Saves
        <3>2. CASE g = h
            <4>1. local[m.path] = file[h] /\ file[h] = local[p]
                BY <1>1, <1>3, <1>5, <3>2 DEF Saves, Sound, Is, Reasons
            <4> QED BY <1>1, <1>2, <2>1, <2>3, <3>2, <4>1 DEF Saves
        <3> QED BY <3>1, <3>2
    <2> QED BY <2>5, <2>6, <2>7, <2>8, <2>9, <2>10, <2>11 DEF IInv
<1> QED BY <1>4, <1>5

(* A write makes its handle one that saves the file. *)
LEMMA WriteNext ==
    ASSUME NEW h \in Handles, IInv, TypeOK', Write(h) PROVE IInv'
<1> DEFINE f == file[h]
<1>1. /\ pc[h] = "open" /\ pc \in [Handles -> Places] /\ f \in Files /\ open[fh[h]] = f
      /\ data \in [Files -> Versions] /\ writes \in Nat
    BY Shape DEF Write, IInv, HandlesFilled, DescriptorsApart, HasFd
<1>2. /\ local' = local /\ server' = server /\ open' = open /\ meta' = meta
      /\ freq' = freq /\ path' = path /\ file' = file /\ fh' = fh
      /\ spoiled' = spoiled /\ releasing' = releasing /\ buf' = buf
      /\ writes' = writes + 1 /\ data' = [data EXCEPT ![f] = writes + 1]
      /\ pc' = [pc EXCEPT ![h] = "written"]
    BY <1>1 DEF Write, mapVars
<1>3. /\ \A g \in Handles : (HasFd(g)' <=> HasFd(g)) /\ (Registered(g)' <=> Registered(g))
      /\ \A g \in Handles : (pc'[g] = "closed" <=> pc[g] = "closed")
                            /\ (pc'[g] = "opened" <=> pc[g] = "opened")
                            /\ (pc'[g] = "unused" <=> pc[g] = "unused")
                            /\ (pc'[g] = "send" <=> pc[g] = "send")
    BY <1>1, <1>2 DEF HasFd, Registered
<1>4. /\ \A k \in Files : data'[k] >= data[k] /\ data'[k] <= writes'
      /\ \A k \in Files \ {f} : data'[k] = data[k]
      /\ \A k \in Files : data[k] \in Nat /\ data'[k] \in Nat
    BY <1>1, <1>2 DEF IInv, Tree, Versions
<1> HIDE DEF f
<1>5. HandlesFilled'
    BY <1>2, <1>3 DEF IInv, HandlesFilled
<1>6. DescriptorsApart'
    BY <1>2, <1>3 DEF IInv, DescriptorsApart
<1>7. Tree'
    BY <1>2, <1>3, <1>4 DEF IInv, Tree
<1>8. Counted'
    BY <1>2 DEF IInv, Counted, Entries
<1>9. EntriesOwn'
    BY <1>2, <1>3 DEF IInv, EntriesOwn, Is
<1>10. BufferOwn'
    <2> SUFFICES ASSUME NEW g \in Handles, pc[g] = "send", ~Is(file[g], "renamed")
                 PROVE  buf[g].file = file[g] /\ buf[g].version <= data'[file[g]]
        BY <1>2, <1>3 DEF BufferOwn, Is
    <2>1. /\ file[g] \in Files /\ buf[g].version \in Nat
          /\ buf[g].file = file[g] /\ buf[g].version <= data[file[g]]
        BY DEF IInv, BufferOwn, HandlesFilled, Versions
    <2> QED BY <1>4, <2>1
<1>11. Exact'
    <2>1. NoReuse' <=> NoReuse
        BY <1>2 DEF NoReuse, Is
    <2>2. \A n \in Fds : (Opens(n)' <=> Opens(n)) /\ (Closes(n)' <=> Closes(n))
        BY <1>2, <1>3 DEF Opens, Closes
    <2>3. \A p \in Paths : Entries(p)' = Entries(p)
        BY <1>2 DEF Entries
    <2> QED BY <1>2, <1>3, <2>1, <2>2, <2>3 DEF IInv, Exact
<1>12. CatchesUp'
    <2> SUFFICES ASSUME NEW p \in Paths, local[p] # None, Sound(local[p])
                 PROVE  \/ server[p] = data'[local[p]]
                        \/ \E g \in Handles : Saves(g, local[p])'
        BY <1>2 DEF CatchesUp, Sound
    <2>1. CASE local[p] = f
        <3>1. Saves(h, local[p])'
            BY <1>1, <1>2, <2>1 DEF Saves, f
        <3> QED BY <3>1
    <2>2. CASE local[p] # f
        <3>1. data'[local[p]] = data[local[p]]
            BY <1>4, <2>2, Shape DEF IInv
        <3>2. ASSUME NEW g \in Handles, Saves(g, local[p]) PROVE Saves(g, local[p])'
            <4>1. g # h
                BY <2>2, <3>2 DEF Saves, f
            <4> QED BY <1>1, <1>2, <3>1, <3>2, <4>1 DEF Saves
        <3> QED BY <3>1, <3>2 DEF IInv, CatchesUp
    <2> QED BY <2>1, <2>2
<1> QED BY <1>5, <1>6, <1>7, <1>8, <1>9, <1>10, <1>11, <1>12 DEF IInv

LEMMA RegisterDirtyNext ==
    ASSUME NEW h \in Handles, IInv, TypeOK', RegisterDirty(h) PROVE IInv'
<1> DEFINE n == fh[h]
<1>1. /\ pc[h] = "written" /\ pc \in [Handles -> Places] /\ n \in Fds /\ Registered(h)
      /\ meta \in [Fds -> [path : Paths, dirty : BOOLEAN] \cup {None}]
    BY Shape DEF RegisterDirty, IInv, HandlesFilled, HasFd, Registered
<1>2. /\ local' = local /\ server' = server /\ open' = open /\ data' = data
      /\ freq' = freq /\ path' = path /\ file' = file /\ fh' = fh /\ writes' = writes
      /\ spoiled' = spoiled /\ releasing' = releasing /\ buf' = buf
      /\ pc' = [pc EXCEPT ![h] = "open"]
    BY <1>1 DEF RegisterDirty, counters
<1>3. /\ \A g \in Handles : (HasFd(g)' <=> HasFd(g)) /\ (Registered(g)' <=> Registered(g))
      /\ \A g \in Handles : (pc'[g] = "closed" <=> pc[g] = "closed")
                            /\ (pc'[g] = "opened" <=> pc[g] = "opened")
                            /\ (pc'[g] = "unused" <=> pc[g] = "unused")
                            /\ (pc'[g] = "send" <=> pc[g] = "send")
    BY <1>1, <1>2 DEF HasFd, Registered
<1>4. /\ \A k \in Fds : (meta'[k] = None <=> meta[k] = None)
      /\ \A k \in Fds : meta[k] # None => meta'[k].path = meta[k].path
      /\ \A k \in Fds : meta[k] # None /\ meta[k].dirty => meta'[k].dirty
      /\ meta[n] # None => meta'[n].dirty
    <2>1. CASE meta[n] = None
        BY <1>1, <2>1 DEF RegisterDirty
    <2>2. CASE meta[n] # None
        <3>1. meta' = [meta EXCEPT ![n] = [path |-> meta[n].path, dirty |-> TRUE]]
            BY <2>2 DEF RegisterDirty
        <3>2. meta[n] \in [path : Paths, dirty : BOOLEAN]
            BY <1>1, <2>2
        <3>3. [path |-> meta[n].path, dirty |-> TRUE] \in [path : Paths, dirty : BOOLEAN]
            BY <3>2
        <3> HIDE DEF n
        <3> QED BY <1>1, <3>1, <3>2, <3>3
    <2> QED BY <2>1, <2>2
<1> HIDE DEF n
<1>5. HandlesFilled'
    BY <1>2, <1>3 DEF IInv, HandlesFilled
<1>6. DescriptorsApart' /\ Tree'
    BY <1>2, <1>3 DEF IInv, DescriptorsApart, Tree
<1>7. \A p \in Paths : Entries(p)' = Entries(p)
    BY <1>4 DEF Entries
<1>8. Counted'
    BY <1>2, <1>7 DEF IInv, Counted
<1>9. EntriesOwn'
    <2> SUFFICES ASSUME NEW g \in Handles, Registered(g)
                 PROVE  /\ meta'[fh[g]] # None /\ ~Is(file[g], "renamed") =>
                             meta'[fh[g]].path = path[g]
                        /\ ~Is(file[g], "reused") =>
                             /\ meta'[fh[g]] # None
                             /\ \A k \in Handles : pc[k] = "closed" => fh[k] # fh[g]
        BY <1>2, <1>3 DEF EntriesOwn, Is
    <2>1. fh[g] \in Fds
        BY DEF IInv, HandlesFilled, Registered, HasFd
    <2> QED BY <1>4, <2>1 DEF IInv, EntriesOwn
<1>10. BufferOwn'
    BY <1>2, <1>3 DEF IInv, BufferOwn, Is
<1>11. Exact'
    <2>1. NoReuse' <=> NoReuse
        BY <1>2 DEF NoReuse, Is
    <2>2. \A k \in Fds : (Opens(k)' <=> Opens(k)) /\ (Closes(k)' <=> Closes(k))
        BY <1>2, <1>3 DEF Opens, Closes
    <2> QED BY <1>2, <1>3, <1>4, <1>7, <2>1, <2>2 DEF IInv, Exact
<1>12. CatchesUp'
    <2> SUFFICES ASSUME NEW p \in Paths, local[p] # None, Sound(local[p]),
                        NEW g \in Handles, Saves(g, local[p])
                 PROVE  Saves(g, local[p])'
        BY <1>2 DEF IInv, CatchesUp, Sound
    <2>1. CASE g = h
        <3>1. meta[n] # None
            BY <1>1, <2>1 DEF IInv, EntriesOwn, Saves, Sound, Is, Reasons, n
        <3> QED BY <1>1, <1>2, <1>4, <2>1, <3>1 DEF Saves, n
    <2>2. CASE g # h
        <3>1. pc[g] # "unused" /\ fh[g] \in Fds
            BY DEF IInv, HandlesFilled, Saves
        <3> QED BY <1>1, <1>2, <1>4, <2>2, <3>1 DEF Saves
    <2> QED BY <2>1, <2>2
<1> QED BY <1>5, <1>6, <1>8, <1>9, <1>10, <1>11, <1>12 DEF IInv

(* The Writeback RPC: the server gets an older version only where that is  *)
(* recorded.                                                               *)
LEMMA SendNext ==
    ASSUME NEW h \in Handles, IInv, TypeOK', Send(h) PROVE IInv'
<1>1. /\ pc[h] = "send" /\ pc \in [Handles -> Places] /\ Registered(h)
      /\ path[h] \in Paths /\ file[h] \in Files /\ local[path[h]] = file[h]
      /\ buf[h].version \in Versions
    BY Shape DEF Send, IInv, HandlesFilled, HasFd, Registered, Tree
<1>2. /\ local' = local /\ open' = open /\ data' = data /\ meta' = meta
      /\ freq' = freq /\ path' = path /\ file' = file /\ fh' = fh /\ writes' = writes
      /\ releasing' = releasing
      /\ server' = [server EXCEPT ![path[h]] = buf[h].version]
      /\ pc' = [pc EXCEPT ![h] = WrittenBack(h)] /\ buf' = [buf EXCEPT ![h] = None]
    BY DEF Send, mapVars
<1>3. /\ WrittenBack(h) \in {"open", "close"}
      /\ \A g \in Handles : (HasFd(g)' <=> HasFd(g)) /\ (Registered(g)' <=> Registered(g))
      /\ \A g \in Handles : (pc'[g] = "closed" <=> pc[g] = "closed")
                            /\ (pc'[g] = "opened" <=> pc[g] = "opened")
                            /\ (pc'[g] = "unused" <=> pc[g] = "unused")
                            /\ (pc'[g] = "send" => pc[g] = "send" /\ g # h)
    BY <1>1, <1>2 DEF HasFd, Registered, WrittenBack
<1>4. \A f \in Files, why \in Reasons : why # "overtaken" => (Is(f, why)' <=> Is(f, why))
    BY <1>1 DEF Send, Spoil, Is
<1>5. \A f \in Files : Sound(f)' => Sound(f)
    BY <1>1 DEF Send, Spoil, Sound
<1>6. HandlesFilled'
    <2>1. \A g \in Handles \ {h} : buf'[g] = buf[g]
        BY <1>2, Shape DEF IInv
    <2> QED BY <1>2, <1>3, <2>1 DEF IInv, HandlesFilled
<1>7. DescriptorsApart'
    BY <1>2, <1>3 DEF IInv, DescriptorsApart
<1>8. Tree'
    <2>1. \A p \in Paths : local[p] = None <=> server'[p] = None
        BY <1>1, <1>2, Shape DEF IInv, Tree
    <2> QED BY <1>2, <1>3, <2>1 DEF IInv, Tree
<1>9. Counted'
    BY <1>2 DEF IInv, Counted, Entries
<1>10. EntriesOwn' /\ BufferOwn'
    <2>1. \A g \in Handles : pc[g] # "unused" => file[g] \in Files
        BY DEF IInv, HandlesFilled
    <2>2. EntriesOwn'
        BY <1>2, <1>3, <1>4, <2>1 DEF IInv, EntriesOwn, Reasons, Registered, HasFd
    <2>3. \A g \in Handles \ {h} : buf'[g] = buf[g]
        BY <1>2, Shape DEF IInv
    <2>4. BufferOwn'
        BY <1>2, <1>3, <1>4, <2>1, <2>3 DEF IInv, BufferOwn, Reasons
    <2> QED BY <2>2, <2>4
<1>11. Exact'
    <2>1. NoReuse' <=> NoReuse
        BY <1>4 DEF NoReuse, Reasons
    <2>2. \A n \in Fds : (Opens(n)' <=> Opens(n)) /\ (Closes(n)' <=> Closes(n))
        BY <1>2, <1>3 DEF Opens, Closes
    <2>3. \A p \in Paths : Entries(p)' = Entries(p)
        BY <1>2 DEF Entries
    <2> QED BY <1>2, <1>3, <2>1, <2>2, <2>3 DEF IInv, Exact
<1>12. CatchesUp'
    <2> SUFFICES ASSUME NEW p \in Paths, local[p] # None, Sound(local[p])'
                 PROVE  \/ server'[p] = data[local[p]]
                        \/ \E g \in Handles : Saves(g, local[p])'
        BY <1>2 DEF CatchesUp, Sound
    <2>1. local[p] \in Files /\ Sound(local[p])
        BY <1>2, <1>5, Shape DEF IInv, Sound
    <2>2. ASSUME NEW g \in Handles \ {h}, Saves(g, local[p]) PROVE Saves(g, local[p])'
        <3>1. pc'[g] = pc[g] /\ buf'[g] = buf[g]
            BY <1>1, <1>2, Shape DEF IInv
        <3> QED BY <1>2, <2>2, <3>1 DEF Saves
    <2>3. CASE p # path[h]
        <3>1. ~Saves(h, local[p])
            BY <1>1, <2>1, <2>3 DEF IInv, Tree, Saves
        <3>2. server'[p] = server[p]
            BY <1>2, <2>3, Shape DEF IInv
        <3> QED BY <2>1, <2>2, <3>1, <3>2 DEF IInv, CatchesUp
    <2>4. CASE p = path[h]
        <3>1. server'[p] = buf[h].version
            BY <1>1, <1>2, <2>4, Shape DEF IInv
        <3>2. CASE Saves(h, local[p])
            <4>1. CASE releasing[h]
                BY <1>1, <3>1, <3>2, <4>1 DEF Saves
            <4>2. CASE ~releasing[h]
                <5>1. pc'[h] = "open"
                    BY <1>1, <1>2, <4>2 DEF WrittenBack
                <5>2. Saves(h, local[p])'
                    BY <1>1, <1>2, <3>2, <5>1 DEF Saves
                <5> QED BY <5>2
            <4> QED BY <4>1, <4>2
        <3>3. CASE server[p] = data[local[p]]
            <4>1. buf[h].version <= data[local[p]]
                BY <1>1, <2>1, <2>4 DEF IInv, BufferOwn, Sound, Is, Reasons
            <4>2. ~(server[p] # None /\ buf[h].version < server[p])
                <5>1. ~Is(file[h], "overtaken")'
                    BY <1>1, <1>2, <2>4 DEF Sound, Is, Reasons
                <5> QED BY <1>1, <2>4, <5>1 DEF Send, Spoil, Is
            <4>3. data[local[p]] \in Versions /\ server[p] # None
                BY <2>1, <3>3, Shape DEF IInv, Tree
            <4>4. server'[p] = data[local[p]]
                BY <1>1, <3>1, <3>3, <4>1, <4>2, <4>3 DEF Versions
            <4> QED BY <4>4
        <3> QED BY <2>1, <2>2, <3>2, <3>3 DEF IInv, CatchesUp
    <2> QED BY <2>3, <2>4
<1> QED BY <1>6, <1>7, <1>8, <1>9, <1>10, <1>11, <1>12 DEF IInv

(* A release that fails gives its handle up and leaks the descriptor with  *)
(* its entry.                                                              *)
LEMMA ReleaseFailsNext ==
    ASSUME NEW h \in Handles, IInv, TypeOK', ReleaseFails(h) PROVE IInv'
<1>1. /\ pc[h] = "send" /\ pc \in [Handles -> Places] /\ Registered(h)
      /\ path[h] \in Paths /\ file[h] \in Files /\ local[path[h]] = file[h] /\ fh[h] \in Fds
    BY Shape DEF ReleaseFails, IInv, HandlesFilled, HasFd, Registered, Tree
<1>2. /\ local' = local /\ open' = open /\ data' = data /\ meta' = meta /\ server' = server
      /\ freq' = freq /\ writes' = writes
      /\ pc' = [pc EXCEPT ![h] = "unused"]
      /\ \A g \in Handles \ {h} : /\ path'[g] = path[g] /\ file'[g] = file[g] /\ fh'[g] = fh[g]
                                  /\ buf'[g] = buf[g] /\ releasing'[g] = releasing[g]
                                  /\ pc'[g] = pc[g]
    BY Shape DEF ReleaseFails, Reset, mapVars, IInv
<1>3. /\ \A g \in Handles : (HasFd(g)' <=> HasFd(g) /\ g # h)
                            /\ (Registered(g)' <=> Registered(g) /\ g # h)
      /\ \A g \in Handles : pc'[g] # "unused" => g # h
      /\ pc[h] \notin {"opened", "closed"} /\ pc'[h] = "unused"
    BY <1>1, <1>2 DEF HasFd, Registered
<1>4. \A f \in Files, why \in Reasons : why # "failed" => (Is(f, why)' <=> Is(f, why))
    BY <1>1 DEF ReleaseFails, Spoil, Is
<1>5. \A f \in Files : Sound(f)' => Sound(f) /\ f # file[h]
    <2>1. spoiled' = spoiled \cup ({file[h]} \X {"failed"})
        BY DEF ReleaseFails, Spoil
    <2> QED BY <2>1 DEF Sound, Reasons
<1>6. HandlesFilled' /\ DescriptorsApart' /\ Tree'
    <2>1. HandlesFilled'
        BY <1>2, <1>3 DEF IInv, HandlesFilled
    <2>2. DescriptorsApart'
        BY <1>2, <1>3 DEF IInv, DescriptorsApart
    <2>3. Tree'
        BY <1>2, <1>3 DEF IInv, Tree
    <2> QED BY <2>1, <2>2, <2>3
<1>7. Counted'
    BY <1>2 DEF IInv, Counted, Entries
<1>8. EntriesOwn' /\ BufferOwn'
    <2>1. \A g \in Handles : pc[g] # "unused" => file[g] \in Files
        BY DEF IInv, HandlesFilled
    <2>2. EntriesOwn'
        BY <1>2, <1>3, <1>4, <2>1 DEF IInv, EntriesOwn, Reasons, Registered, HasFd
    <2>3. BufferOwn'
        BY <1>2, <1>3, <1>4, <2>1 DEF IInv, BufferOwn, Reasons
    <2> QED BY <2>2, <2>3
<1>9. Exact'
    <2>1. NoReuse' <=> NoReuse
        BY <1>4 DEF NoReuse, Reasons
    <2>2. \A n \in Fds : (Opens(n)' <=> Opens(n)) /\ (Closes(n)' <=> Closes(n))
        BY <1>2, <1>3 DEF Opens, Closes
    <2>3. \A p \in Paths : Entries(p)' = Entries(p)
        BY <1>2 DEF Entries
    <2> QED BY <1>2, <1>3, <2>1, <2>2, <2>3 DEF IInv, Exact
<1>10. CatchesUp'
    <2> SUFFICES ASSUME NEW p \in Paths, local[p] # None, Sound(local[p])'
                 PROVE  \/ server[p] = data[local[p]]
                        \/ \E g \in Handles : Saves(g, local[p])'
        BY <1>2 DEF CatchesUp, Sound
    <2>1. local[p] \in Files /\ Sound(local[p]) /\ local[p] # file[h]
        BY <1>2, <1>5, Shape DEF IInv, Sound
    <2>2. ASSUME NEW g \in Handles, Saves(g, local[p]) PROVE Saves(g, local[p])'
        <3>1. g # h
            BY <2>1, <2>2 DEF Saves
        <3> QED BY <1>2, <2>2, <3>1 DEF Saves
    <2> QED BY <2>1, <2>2 DEF IInv, CatchesUp
<1> QED BY <1>6, <1>7, <1>8, <1>9, <1>10 DEF IInv

-----------------------------------------------------------------------------
(* Descriptors are given out and taken back. *)

LEMMA CloseNext ==
    ASSUME NEW h \in Handles, IInv, TypeOK', Close(h) PROVE IInv'
<1> DEFINE n == fh[h]
<1>1. /\ pc[h] = "close" /\ pc \in [Handles -> Places] /\ Registered(h) /\ HasFd(h)
      /\ n \in Fds /\ file[h] \in Files
    BY Shape DEF Close, IInv, HandlesFilled, HasFd, Registered
<1>2. /\ local' = local /\ data' = data /\ meta' = meta /\ server' = server
      /\ freq' = freq /\ path' = path /\ file' = file /\ fh' = fh /\ writes' = writes
      /\ releasing' = releasing /\ buf' = buf /\ spoiled' = spoiled
      /\ pc' = [pc EXCEPT ![h] = "closed"]
      /\ open'[n] = None /\ \A k \in Fds \ {n} : open'[k] = open[k]
    BY <1>1, Shape DEF Close, mapVars, counters, IInv
<1> HIDE DEF n
<1>3. /\ \A g \in Handles : (HasFd(g)' <=> HasFd(g) /\ g # h)
                            /\ (Registered(g)' <=> Registered(g) /\ g # h)
      /\ \A g \in Handles : (pc'[g] = "closed" <=> pc[g] = "closed" \/ g = h)
                            /\ (pc'[g] = "opened" <=> pc[g] = "opened")
                            /\ (pc'[g] = "unused" <=> pc[g] = "unused")
                            /\ (pc'[g] = "send" <=> pc[g] = "send")
    BY <1>1, <1>2 DEF HasFd, Registered
<1>4. \A g \in Handles : HasFd(g) /\ g # h => fh[g] # n /\ fh[g] \in Fds
    BY <1>1 DEF IInv, DescriptorsApart, HandlesFilled, HasFd, n
<1>5. HandlesFilled' /\ Tree' /\ BufferOwn'
    BY <1>2, <1>3 DEF IInv, HandlesFilled, Tree, BufferOwn, Is
<1>6. DescriptorsApart'
    BY <1>2, <1>3, <1>4 DEF IInv, DescriptorsApart
<1>7. Counted'
    BY <1>2 DEF IInv, Counted, Entries
<1>8. EntriesOwn'
    <2>1. \A g \in Handles : Registered(g) => HasFd(g)
        BY DEF Registered
    <2> QED BY <1>2, <1>3, <1>4, <2>1 DEF IInv, EntriesOwn, Is, n
<1>9. Exact'
    <2> SUFFICES ASSUME NoReuse
                 PROVE  /\ \A k \in Fds : meta[k] # None <=> (open'[k] # None /\ ~Opens(k)') \/ Closes(k)'
                        /\ \A g, k \in Handles : pc'[g] = "closed" /\ pc'[k] = "closed" /\ fh[g] = fh[k]
                                                 => g = k
                        /\ \A k \in Fds : Closes(k)' /\ open'[k] # None => Opens(k)'
                        /\ \A p \in Paths : freq[p] = Cardinality(Entries(p)')
        BY <1>2 DEF Exact, NoReuse, Is
    <2>1. meta[n] # None /\ \A g \in Handles : pc[g] = "closed" => fh[g] # n
        BY <1>1 DEF IInv, EntriesOwn, NoReuse, n
    <2>2. \A k \in Fds : (Opens(k)' <=> Opens(k)) /\ (Closes(k)' <=> Closes(k) \/ k = n)
        BY <1>2, <1>3 DEF Opens, Closes, n
    <2>3. \A p \in Paths : Entries(p)' = Entries(p)
        BY <1>2 DEF Entries
    <2>4. \A k \in Fds : meta[k] # None <=> (open'[k] # None /\ ~Opens(k)') \/ Closes(k)'
        BY <1>2, <2>1, <2>2 DEF IInv, Exact
    <2>5. \A g, k \in Handles : pc'[g] = "closed" /\ pc'[k] = "closed" /\ fh[g] = fh[k] => g = k
        BY <1>3, <2>1 DEF IInv, Exact, n
    <2>6. \A k \in Fds : Closes(k)' /\ open'[k] # None => Opens(k)'
        BY <1>2, <2>2 DEF IInv, Exact
    <2> QED BY <2>3, <2>4, <2>5, <2>6 DEF IInv, Exact
<1>10. CatchesUp'
    <2> SUFFICES ASSUME NEW p \in Paths, local[p] # None, Sound(local[p]),
                        NEW g \in Handles, Saves(g, local[p])
                 PROVE  Saves(g, local[p])'
        BY <1>2 DEF IInv, CatchesUp, Sound
    <2> QED BY <1>1, <1>2 DEF Saves
<1> QED BY <1>5, <1>6, <1>7, <1>8, <1>9, <1>10 DEF IInv

LEMMA RegisterCloseNext ==
    ASSUME NEW h \in Handles, IInv, TypeOK', RegisterClose(h) PROVE IInv'
<1> DEFINE n == fh[h]
<1>1. /\ pc[h] = "closed" /\ pc \in [Handles -> Places] /\ n \in Fds
      /\ freq \in [Paths -> Nat]
      /\ meta[n] # None => meta[n].path \in Paths
    BY Shape DEF RegisterClose, IInv, HandlesFilled
<1>2. /\ local' = local /\ data' = data /\ server' = server /\ open' = open
      /\ writes' = writes /\ buf' = buf /\ spoiled' = spoiled
      /\ pc' = [pc EXCEPT ![h] = "unused"]
      /\ \A g \in Handles \ {h} : /\ path'[g] = path[g] /\ file'[g] = file[g] /\ fh'[g] = fh[g]
                                  /\ releasing'[g] = releasing[g] /\ pc'[g] = pc[g]
      /\ meta'[n] = None /\ \A k \in Fds \ {n} : meta'[k] = meta[k]
    BY <1>1, Shape DEF RegisterClose, Reset, mapVars, counters, IInv
<1>3. freq' = IF meta[n] = None THEN freq ELSE [freq EXCEPT ![meta[n].path] = @ - 1]
    BY DEF RegisterClose, mapVars
<1> HIDE DEF n
<1>4. /\ \A g \in Handles : (HasFd(g)' <=> HasFd(g)) /\ (Registered(g)' <=> Registered(g))
      /\ \A g \in Handles : pc'[g] # "unused" => g # h
      /\ ~HasFd(h) /\ ~Registered(h) /\ pc'[h] = "unused"
    BY <1>1, <1>2 DEF HasFd, Registered
<1>5. \A p \in Paths : /\ IsFiniteSet(Entries(p)) /\ Cardinality(Entries(p)) \in Nat
                       /\ Entries(p)' = Entries(p) \ {n}
    <2>1. \A p \in Paths : Entries(p) \subseteq Fds /\ Entries(p)' = Entries(p) \ {n}
        BY <1>1, <1>2 DEF Entries
    <2> QED BY <2>1, EntriesFinite
<1>6. \A p \in Paths :
        /\ n \in Entries(p) <=> meta[n] # None /\ p = meta[n].path
        /\ n \in Entries(p) => /\ freq'[p] = freq[p] - 1
                               /\ Cardinality(Entries(p)') = Cardinality(Entries(p)) - 1
        /\ n \notin Entries(p) => freq'[p] = freq[p] /\ Entries(p)' = Entries(p)
    <2> SUFFICES ASSUME NEW p \in Paths
                 PROVE  /\ n \in Entries(p) <=> meta[n] # None /\ p = meta[n].path
                        /\ n \in Entries(p) =>
                             /\ freq'[p] = freq[p] - 1
                             /\ Cardinality(Entries(p)') = Cardinality(Entries(p)) - 1
                        /\ n \notin Entries(p) => freq'[p] = freq[p] /\ Entries(p)' = Entries(p)
        OBVIOUS
    <2>1. n \in Entries(p) <=> meta[n] # None /\ p = meta[n].path
        BY <1>1 DEF Entries
    <2>2. n \in Entries(p) => Cardinality(Entries(p) \ {n}) = Cardinality(Entries(p)) - 1
        BY <1>5, FS_RemoveElement
    <2>3. ASSUME n \in Entries(p) PROVE freq'[p] = freq[p] - 1
        <3>1. freq' = [freq EXCEPT ![p] = @ - 1]
            BY <1>3, <2>1, <2>3
        <3> QED BY <1>1, <3>1
    <2>4. n \notin Entries(p) => freq'[p] = freq[p]
        BY <1>1, <1>3, <2>1
    <2>5. n \notin Entries(p) => Entries(p)' = Entries(p)
        BY <1>5
    <2> QED BY <1>5, <2>1, <2>2, <2>3, <2>4, <2>5
<1>7. HandlesFilled' /\ DescriptorsApart' /\ Tree' /\ BufferOwn'
    <2>1. HandlesFilled'
        BY <1>2, <1>4 DEF IInv, HandlesFilled
    <2>2. DescriptorsApart'
        BY <1>2, <1>4 DEF IInv, DescriptorsApart
    <2>3. Tree'
        BY <1>2, <1>4 DEF IInv, Tree
    <2>4. BufferOwn'
        BY <1>2, <1>4 DEF IInv, BufferOwn, Is
    <2> QED BY <2>1, <2>2, <2>3, <2>4
<1>8. Counted'
    <2> SUFFICES ASSUME NEW p \in Paths PROVE Cardinality(Entries(p)') <= freq'[p]
        BY DEF Counted
    <2>1. Cardinality(Entries(p)) \in Nat /\ freq[p] \in Nat /\ Cardinality(Entries(p)) <= freq[p]
        BY <1>1, <1>5 DEF IInv, Counted
    <2>2. CASE n \in Entries(p)
        <3>1. freq'[p] = freq[p] - 1 /\ Cardinality(Entries(p)') = Cardinality(Entries(p)) - 1
            BY <1>6, <2>2
        <3> QED BY <2>1, <3>1
    <2>3. CASE n \notin Entries(p)
        BY <1>6, <2>1, <2>3
    <2> QED BY <2>2, <2>3
<1>9. EntriesOwn'
    <2> SUFFICES ASSUME NEW g \in Handles, Registered(g), g # h
                 PROVE  /\ meta'[fh[g]] # None /\ ~Is(file[g], "renamed") =>
                             meta'[fh[g]].path = path[g]
                        /\ ~Is(file[g], "reused") =>
                             /\ meta'[fh[g]] # None
                             /\ \A k \in Handles : pc'[k] = "closed" => fh'[k] # fh[g]
        BY <1>2, <1>4 DEF EntriesOwn, Is
    <2>1. fh[g] \in Fds
        BY DEF IInv, HandlesFilled, Registered, HasFd
    <2>2. ~Is(file[g], "reused") => fh[g] # n
        BY <1>1 DEF IInv, EntriesOwn, n
    <2> QED BY <1>2, <1>4, <2>1, <2>2 DEF IInv, EntriesOwn
<1>10. Exact'
    <2> SUFFICES ASSUME NoReuse
                 PROVE  /\ \A k \in Fds : meta'[k] # None <=> (open[k] # None /\ ~Opens(k)') \/ Closes(k)'
                        /\ \A g, k \in Handles : pc'[g] = "closed" /\ pc'[k] = "closed" /\ fh'[g] = fh'[k]
                                                 => g = k
                        /\ \A k \in Fds : Closes(k)' /\ open[k] # None => Opens(k)'
                        /\ \A p \in Paths : freq'[p] = Cardinality(Entries(p)')
        BY <1>2 DEF Exact, NoReuse, Is
    <2>1. \A g \in Handles : pc[g] = "closed" /\ g # h => fh[g] # n
        BY <1>1 DEF IInv, Exact, n
    <2>2. \A k \in Fds : (Opens(k)' <=> Opens(k))
        BY <1>1, <1>2, <1>4 DEF Opens
    <2>3. \A k \in Fds : Closes(k)' <=> Closes(k) /\ k # n
        BY <1>1, <1>2, <1>4, <2>1 DEF Closes, n
    <2>4. Closes(n)
        BY <1>1 DEF Closes, n
    <2>5. \A k \in Fds : meta'[k] # None <=> (open[k] # None /\ ~Opens(k)') \/ Closes(k)'
        BY <1>1, <1>2, <2>2, <2>3, <2>4 DEF IInv, Exact
    <2>6. \A g, k \in Handles : pc'[g] = "closed" /\ pc'[k] = "closed" /\ fh'[g] = fh'[k] => g = k
        BY <1>2, <1>4 DEF IInv, Exact
    <2>7. \A k \in Fds : Closes(k)' /\ open[k] # None => Opens(k)'
        BY <2>2, <2>3 DEF IInv, Exact
    <2>8. \A p \in Paths : freq'[p] = Cardinality(Entries(p)')
        BY <1>6 DEF IInv, Exact
    <2> QED BY <2>5, <2>6, <2>7, <2>8
<1>11. CatchesUp'
    <2> SUFFICES ASSUME NEW p \in Paths, local[p] # None, Sound(local[p]),
                        NEW g \in Handles, Saves(g, local[p])
                 PROVE  Saves(g, local[p])'
        BY <1>2 DEF IInv, CatchesUp, Sound
    <2>1. g # h /\ Registered(g) /\ fh[g] \in Fds
        BY <1>1 DEF Saves, IInv, HandlesFilled, Registered, HasFd
    <2>2. fh[g] # n
        BY <1>1, <2>1 DEF IInv, EntriesOwn, Saves, Sound, Is, Reasons, n
    <2> QED BY <1>2, <2>1, <2>2 DEF Saves
<1> QED BY <1>7, <1>8, <1>9, <1>10, <1>11 DEF IInv

(* open and create, of a path p with the file f: what they leave of the    *)
(* tree is enough.                                                         *)
LEMMA TakeFdNext ==
    ASSUME NEW h \in Handles, NEW p \in Paths, NEW f \in Files, IInv, TypeOK', TakeFd(h, p, f),
           Tree', local'[p] = f,
           \A g \in Handles \ {h} : pc[g] # "unused" =>
               /\ data'[file[g]] = data[file[g]]
               /\ \A why \in Reasons : Is(file[g], why)' <=> <<file[g], why>> \in spoiled,
           \A k \in Files : <<k, "reused">> \in spoiled' <=> <<k, "reused">> \in spoiled,
           \A q \in Paths : local'[q] # None /\ Sound(local[q])' =>
               \/ server'[q] = data'[local'[q]]
               \/ /\ server'[q] = server[q] /\ local'[q] = local[q] /\ Sound(local[q])
                  /\ data'[local[q]] = data[local[q]]
    PROVE  IInv'
<1> PICK n \in Fds : /\ LowestFd(n)
                     /\ open' = [open EXCEPT ![n] = f]
                     /\ fh' = [fh EXCEPT ![h] = n]
    BY DEF TakeFd
<1>1. /\ pc[h] = "unused" /\ pc \in [Handles -> Places] /\ open[n] = None /\ f # None
    BY Shape DEF TakeFd, IInv, LowestFd, FreeFds
<1>2. /\ freq' = freq /\ meta' = meta /\ writes' = writes /\ buf' = buf /\ releasing' = releasing
      /\ pc' = [pc EXCEPT ![h] = "opened"]
      /\ open'[n] = f /\ \A k \in Fds \ {n} : open'[k] = open[k]
      /\ path'[h] = p /\ file'[h] = f /\ fh'[h] = n
      /\ \A g \in Handles \ {h} : /\ path'[g] = path[g] /\ file'[g] = file[g] /\ fh'[g] = fh[g]
                                  /\ pc'[g] = pc[g]
    BY <1>1, Shape DEF TakeFd, mapVars, IInv
<1>3. /\ \A g \in Handles \ {h} : (HasFd(g)' <=> HasFd(g)) /\ (Registered(g)' <=> Registered(g))
      /\ HasFd(h)' /\ ~Registered(h)' /\ pc'[h] = "opened"
    BY <1>1, <1>2 DEF HasFd, Registered
<1>4. \A g \in Handles \ {h} : HasFd(g) => fh[g] # n /\ fh[g] \in Fds
    BY <1>1 DEF IInv, DescriptorsApart, HandlesFilled, HasFd
<1>5. HandlesFilled' /\ DescriptorsApart'
    <2>1. HandlesFilled'
        BY <1>2, <1>3 DEF IInv, HandlesFilled
    <2>2. DescriptorsApart'
        BY <1>2, <1>3, <1>4 DEF IInv, DescriptorsApart
    <2> QED BY <2>1, <2>2
<1>6. Counted'
    BY <1>2 DEF IInv, Counted, Entries
<1>7. EntriesOwn'
    <2> SUFFICES ASSUME NEW g \in Handles, Registered(g), g # h
                 PROVE  /\ meta[fh[g]] # None /\ ~Is(file[g], "renamed")' =>
                             meta[fh[g]].path = path[g]
                        /\ ~Is(file[g], "reused")' =>
                             /\ meta[fh[g]] # None
                             /\ \A k \in Handles : pc'[k] = "closed" => fh'[k] # fh[g]
        BY <1>2, <1>3 DEF EntriesOwn, Is
    <2>1. pc[g] # "unused"
        BY DEF Registered, HasFd
    <2>2. /\ Is(file[g], "renamed")' <=> <<file[g], "renamed">> \in spoiled
          /\ Is(file[g], "reused")' <=> <<file[g], "reused">> \in spoiled
        BY <2>1 DEF Reasons
    <2>3. \A k \in Handles : pc'[k] = "closed" => pc[k] = "closed" /\ fh'[k] = fh[k]
        BY <1>1, <1>2
    <2> QED BY <2>2, <2>3 DEF IInv, EntriesOwn, Is
<1>8. BufferOwn'
    BY <1>1, <1>2, <1>3 DEF IInv, BufferOwn, Is, Reasons
<1>9. Exact'
    <2>1. NoReuse' <=> NoReuse
        BY DEF NoReuse, Is
    <2>2. \A k \in Fds : (Opens(k)' <=> Opens(k) \/ k = n) /\ (Closes(k)' <=> Closes(k))
        BY <1>1, <1>2, <1>3 DEF Opens, Closes
    <2>3. \A q \in Paths : Entries(q)' = Entries(q)
        BY <1>2 DEF Entries
    <2>4. \A g \in Handles : pc'[g] = "closed" <=> pc[g] = "closed"
        BY <1>1, <1>2, <1>3
    <2>5. \A g \in Handles : pc[g] = "closed" => fh'[g] = fh[g]
        BY <1>1, <1>2
    <2> QED BY <1>1, <1>2, <2>1, <2>2, <2>3, <2>4, <2>5 DEF IInv, Exact
<1>10. CatchesUp'
    <2> SUFFICES ASSUME NEW q \in Paths, local'[q] # None, Sound(local[q])',
                        server'[q] = server[q], local'[q] = local[q], Sound(local[q]),
                        data'[local[q]] = data[local[q]],
                        NEW g \in Handles, Saves(g, local[q])
                 PROVE  Saves(g, local[q])'
        BY DEF IInv, CatchesUp
    <2>1. g # h
        BY <1>1 DEF Saves
    <2> QED BY <1>2, <2>1 DEF Saves
<1> QED BY <1>5, <1>6, <1>7, <1>8, <1>9, <1>10 DEF IInv

LEMMA OpenNext ==
    ASSUME NEW h \in Handles, NEW p \in Paths, IInv, TypeOK', Open(h, p) PROVE IInv'
<1>1. local[p] \in Files /\ TakeFd(h, p, local[p])
    BY Shape DEF Open, IInv
<1>2. /\ local' = local /\ data' = data /\ server' = server /\ spoiled' = spoiled
      /\ writes' = writes
    BY <1>1 DEF Open, TakeFd
<1>3. /\ pc[h] = "unused" /\ path'[h] = p /\ file'[h] = local[p]
      /\ \A g \in Handles \ {h} : path'[g] = path[g] /\ file'[g] = file[g] /\ pc'[g] = pc[g]
    BY <1>1, Shape DEF TakeFd, IInv
<1>4. Tree'
    BY <1>2, <1>3 DEF IInv, Tree
<1>5. \A g \in Handles \ {h}, why \in Reasons : Is(file[g], why)' <=> <<file[g], why>> \in spoiled
    BY <1>2, <1>3 DEF Is
<1>6. \A q \in Paths : Sound(local[q])' <=> Sound(local[q])
    BY <1>2 DEF Sound
<1> QED BY <1>1, <1>2, <1>4, <1>5, <1>6, TakeFdNext

LEMMA CreateNext ==
    ASSUME NEW h \in Handles, NEW p \in Paths, IInv, TypeOK', Create(h, p) PROVE IInv'
<1> PICK f \in Files : /\ \A q \in Paths : local[q] # f
                       /\ TakeFd(h, p, f)
                       /\ local' = [local EXCEPT ![p] = f]
                       /\ data' = [data EXCEPT ![f] = 0]
                       /\ server' = [server EXCEPT ![p] = 0]
                       /\ spoiled' = {s \in spoiled : s[1] # f \/ s[2] = "reused"}
    BY DEF Create
<1>1. /\ local[p] = None /\ local'[p] = f /\ server'[p] = 0 /\ data'[f] = 0 /\ f # None /\ 0 # None
      /\ \A q \in Paths \ {p} : local'[q] = local[q] /\ server'[q] = server[q]
      /\ \A k \in Files \ {f} : data'[k] = data[k]
    BY Shape DEF Create, IInv, Versions
<1>2. /\ pc[h] = "unused" /\ path'[h] = p /\ file'[h] = f /\ writes' = writes
      /\ \A g \in Handles \ {h} : path'[g] = path[g] /\ file'[g] = file[g] /\ pc'[g] = pc[g]
    BY Shape DEF TakeFd, IInv
<1>3. \A g \in Handles : pc[g] # "unused" =>
        /\ path[g] \in Paths \ {p} /\ file[g] \in Files \ {f}
        /\ local[path[g]] = file[g]
    BY <1>1 DEF IInv, HandlesFilled, Tree
<1>4. Tree'
    <2>1. \A q, r \in Paths : local'[q] = local'[r] /\ local'[q] # None => q = r
        BY <1>1 DEF IInv, Tree
    <2>2. \A q \in Paths : local'[q] = None <=> server'[q] = None
        BY <1>1 DEF IInv, Tree
    <2>3. \A k \in Files : data'[k] <= writes
        BY <1>1, Shape DEF IInv, Tree
    <2>4. \A g \in Handles : pc'[g] # "unused" => local'[path'[g]] = file'[g]
        BY <1>1, <1>2, <1>3
    <2> QED BY <1>2, <2>1, <2>2, <2>3, <2>4 DEF Tree
<1>5. \A k, why : k # f => (<<k, why>> \in spoiled' <=> <<k, why>> \in spoiled)
    OBVIOUS
<1>6. \A g \in Handles \ {h} : pc[g] # "unused" =>
        /\ data'[file[g]] = data[file[g]]
        /\ \A why \in Reasons : Is(file[g], why)' <=> <<file[g], why>> \in spoiled
    BY <1>1, <1>2, <1>3, <1>5 DEF Is
<1>7. \A k \in Files : <<k, "reused">> \in spoiled' <=> <<k, "reused">> \in spoiled
    OBVIOUS
<1>8. ASSUME NEW q \in Paths, local'[q] # None, Sound(local[q])'
      PROVE  \/ server'[q] = data'[local'[q]]
             \/ /\ server'[q] = server[q] /\ local'[q] = local[q] /\ Sound(local[q])
                /\ data'[local[q]] = data[local[q]]
    <2>1. CASE q = p
        BY <1>1, <2>1
    <2>2. CASE q # p
        <3>1. local'[q] = local[q] /\ local[q] \in Files \ {f}
            BY <1>1, <1>8, <2>2, Shape DEF IInv
        <3>2. Sound(local[q])
            BY <1>5, <1>8, <3>1 DEF Sound
        <3> QED BY <1>1, <2>2, <3>1, <3>2
    <2> QED BY <2>1, <2>2
<1> QED BY <1>1, <1>4, <1>6, <1>7, <1>8, TakeFdNext

(* registerFileOpen overwrites the entry of an earlier owner, if that is   *)
(* still there.                                                            *)
LEMMA RegisterOpenNext ==
    ASSUME NEW h \in Handles, IInv, TypeOK', RegisterOpen(h) PROVE IInv'
<1> DEFINE n == fh[h]
           p == path[h]
<1>1. /\ pc[h] = "opened" /\ pc \in [Handles -> Places] /\ HasFd(h) /\ ~Registered(h)
      /\ n \in Fds /\ p \in Paths /\ file[h] \in Files /\ open[n] = file[h] /\ open[n] # None
      /\ freq \in [Paths -> Nat]
    BY Shape DEF RegisterOpen, IInv, HandlesFilled, HasFd, Registered, DescriptorsApart
<1>2. /\ local' = local /\ data' = data /\ server' = server /\ open' = open
      /\ path' = path /\ file' = file /\ fh' = fh /\ writes' = writes
      /\ releasing' = releasing /\ buf' = buf
      /\ pc' = [pc EXCEPT ![h] = "open"]
      /\ meta'[n] = [path |-> p, dirty |-> FALSE]
      /\ \A k \in Fds \ {n} : meta'[k] = meta[k]
      /\ freq'[p] = freq[p] + 1
      /\ \A q \in Paths \ {p} : freq'[q] = freq[q]
    BY <1>1, Shape DEF RegisterOpen, IInv
<1>3. /\ \A k : Is(k, "reused")' <=> Is(k, "reused") \/ (k = file[h] /\ Closes(n))
      /\ \A k, why : why # "reused" => (<<k, why>> \in spoiled' <=> <<k, why>> \in spoiled)
      /\ \A k : Sound(k)' => Sound(k)
    <2>1. spoiled' = spoiled \cup ({file[h] : g \in {g \in Handles : pc[g] = "closed" /\ fh[g] = fh[h]}}
                                   \X {"reused"})
        BY DEF RegisterOpen, Reuses, Spoil
    <2> QED BY <1>2, <2>1 DEF Is, Closes, Sound
<1> HIDE DEF n, p
<1>0. meta'[n] # None /\ meta'[n].path = p
    <2>1. [path |-> p, dirty |-> FALSE] \in [path : Paths, dirty : BOOLEAN]
        BY <1>1
    <2>2. [path |-> p, dirty |-> FALSE] # None
        BY <2>1
    <2>3. [path |-> p, dirty |-> FALSE].path = p
        OBVIOUS
    <2>4. meta'[n] = [path |-> p, dirty |-> FALSE]
        BY <1>2
    <2> QED BY <2>2, <2>3, <2>4
<1>4. /\ \A g \in Handles : (HasFd(g)' <=> HasFd(g)) /\ (Registered(g)' <=> Registered(g) \/ g = h)
      /\ \A g \in Handles : (pc'[g] = "closed" <=> pc[g] = "closed")
                            /\ (pc'[g] = "opened" <=> pc[g] = "opened" /\ g # h)
                            /\ (pc'[g] = "unused" <=> pc[g] = "unused")
                            /\ (pc'[g] = "send" <=> pc[g] = "send")
    BY <1>1, <1>2 DEF HasFd, Registered
<1>5. \A g \in Handles : HasFd(g) /\ g # h => fh[g] # n /\ fh[g] \in Fds
    BY <1>1 DEF IInv, DescriptorsApart, HandlesFilled, HasFd, n
<1>6. \A q \in Paths :
        /\ IsFiniteSet(Entries(q)) /\ Cardinality(Entries(q)) \in Nat
        /\ Entries(q)' = IF q = p THEN Entries(q) \cup {n} ELSE Entries(q) \ {n}
    <2>2. \A q \in Paths : Entries(q) \subseteq Fds
        BY DEF Entries
    <2>3. \A q \in Paths : Entries(q)' = IF q = p THEN Entries(q) \cup {n} ELSE Entries(q) \ {n}
        BY <1>0, <1>1, <1>2 DEF Entries
    <2> QED BY <2>2, <2>3, EntriesFinite
<1>7. HandlesFilled' /\ DescriptorsApart' /\ Tree' /\ BufferOwn'
    <2>1. HandlesFilled'
        BY <1>2, <1>4 DEF IInv, HandlesFilled
    <2>2. DescriptorsApart'
        BY <1>2, <1>4 DEF IInv, DescriptorsApart
    <2>3. Tree'
        BY <1>2, <1>4 DEF IInv, Tree
    <2>4. BufferOwn'
        BY <1>2, <1>3, <1>4 DEF IInv, BufferOwn, Is
    <2> QED BY <2>1, <2>2, <2>3, <2>4
<1>8. Counted'
    <2> SUFFICES ASSUME NEW q \in Paths PROVE Cardinality(Entries(q)') <= freq'[q]
        BY DEF Counted
    <2>1. Cardinality(Entries(q)) \in Nat /\ freq[q] \in Nat /\ Cardinality(Entries(q)) <= freq[q]
        BY <1>1, <1>6 DEF IInv, Counted
    <2>2. CASE q = p
        <3>1. Cardinality(Entries(q) \cup {n}) \in {Cardinality(Entries(q)), Cardinality(Entries(q)) + 1}
            BY <1>6, FS_AddElement
        <3>2. Entries(q)' = Entries(q) \cup {n} /\ freq'[q] = freq[q] + 1
            BY <1>2, <1>6, <2>2
        <3> QED BY <2>1, <3>1, <3>2
    <2>3. CASE q # p
        <3>1. Cardinality(Entries(q) \ {n}) \in {Cardinality(Entries(q)), Cardinality(Entries(q)) - 1}
            BY <1>6, FS_RemoveElement
        <3>2. Entries(q)' = Entries(q) \ {n} /\ freq'[q] = freq[q]
            BY <1>2, <1>6, <2>3
        <3> QED BY <2>1, <3>1, <3>2
    <2> QED BY <2>2, <2>3
<1>9. EntriesOwn'
    <2> SUFFICES ASSUME NEW g \in Handles, Registered(g) \/ g = h
                 PROVE  /\ meta'[fh[g]] # None /\ ~Is(file[g], "renamed")' =>
                             meta'[fh[g]].path = path[g]
                        /\ ~Is(file[g], "reused")' =>
                             /\ meta'[fh[g]] # None
                             /\ \A k \in Handles : pc[k] = "closed" => fh[k] # fh[g]
        BY <1>2, <1>4 DEF EntriesOwn, Is
    <2>1. CASE g = h
        <3>2. ~Is(file[h], "reused")' => \A k \in Handles : pc[k] = "closed" => fh[k] # n
            BY <1>2, <1>3 DEF Closes, Is
        <3> QED BY <1>0, <2>1, <3>2 DEF n, p
    <2>2. CASE g # h
        <3>1. Registered(g) /\ fh[g] \in Fds \ {n}
            BY <1>5, <2>2 DEF Registered
        <3>2. /\ Is(file[g], "renamed")' <=> Is(file[g], "renamed")
              /\ Is(file[g], "reused") => Is(file[g], "reused")'
            BY <1>2, <1>3 DEF Is
        <3> QED BY <1>2, <3>1, <3>2 DEF IInv, EntriesOwn
    <2> QED BY <2>1, <2>2
<1>10. Exact'
    <2> SUFFICES ASSUME NoReuse, ~Closes(n)
                 PROVE  /\ \A k \in Fds : meta'[k] # None <=> (open[k] # None /\ ~Opens(k)') \/ Closes(k)'
                        /\ \A g, k \in Handles : pc'[g] = "closed" /\ pc'[k] = "closed" /\ fh[g] = fh[k]
                                                 => g = k
                        /\ \A k \in Fds : Closes(k)' /\ open[k] # None => Opens(k)'
                        /\ \A q \in Paths : freq'[q] = Cardinality(Entries(q)')
        BY <1>1, <1>2, <1>3 DEF Exact, NoReuse, Is
    <2>1. \A k \in Fds : (Opens(k)' <=> Opens(k) /\ k # n) /\ (Closes(k)' <=> Closes(k))
        <3>1. \A k \in Fds : Closes(k)' <=> Closes(k)
            BY <1>2, <1>4 DEF Closes
        <3>2. ~Opens(n)'
            <4>1. \A g \in Handles : pc'[g] = "opened" => HasFd(g) /\ g # h
                BY <1>4 DEF HasFd
            <4> QED BY <1>2, <1>5, <4>1 DEF Opens, n
        <3>3. \A k \in Fds \ {n} : Opens(k)' <=> Opens(k)
            BY <1>2, <1>4 DEF Opens, n
        <3> QED BY <1>2, <3>1, <3>2, <3>3 DEF n
    <2>2. Opens(n) /\ meta[n] = None
        <3>1. Opens(n)
            BY <1>1 DEF Opens, n
        <3> QED BY <1>1, <3>1 DEF IInv, Exact
    <2>4. \A k \in Fds : meta'[k] # None <=> (open[k] # None /\ ~Opens(k)') \/ Closes(k)'
        BY <1>0, <1>1, <1>2, <2>1 DEF IInv, Exact
    <2>5. \A g, k \in Handles : pc'[g] = "closed" /\ pc'[k] = "closed" /\ fh[g] = fh[k] => g = k
        BY <1>4 DEF IInv, Exact
    <2>6. \A k \in Fds : Closes(k)' /\ open[k] # None => Opens(k)'
        BY <2>1 DEF IInv, Exact
    <2>7. ASSUME NEW q \in Paths PROVE freq'[q] = Cardinality(Entries(q)')
        <3>1. n \notin Entries(q) /\ freq[q] = Cardinality(Entries(q))
            BY <2>2 DEF IInv, Exact, Entries
        <3>2. CASE q = p
            <4>1. Cardinality(Entries(q) \cup {n}) = Cardinality(Entries(q)) + 1
                BY <1>6, <3>1, FS_AddElement
            <4> QED BY <1>2, <1>6, <3>1, <3>2, <4>1
        <3>3. CASE q # p
            <4>1. Entries(q)' = Entries(q)
                BY <1>6, <3>1, <3>3
            <4> QED BY <1>2, <3>1, <3>3, <4>1
        <3> QED BY <3>2, <3>3
    <2> QED BY <2>4, <2>5, <2>6, <2>7
<1>11. CatchesUp'
    <2> SUFFICES ASSUME NEW q \in Paths, local[q] # None, Sound(local[q]),
                        NEW g \in Handles, Saves(g, local[q])
                 PROVE  Saves(g, local[q])'
        BY <1>2, <1>3 DEF IInv, CatchesUp, Sound
    <2>1. g # h /\ HasFd(g)
        BY <1>1 DEF Saves, HasFd
    <2>2. fh[g] \in Fds \ {n}
        BY <1>5, <2>1
    <2> QED BY <1>2, <2>1, <2>2 DEF Saves
<1> QED BY <1>7, <1>8, <1>9, <1>10, <1>11 DEF IInv

-----------------------------------------------------------------------------
(* Operations on names. *)

(* No handler is anywhere else, and no descriptor or entry changes.        *)
LEMMA NamesKeep ==
    ASSUME IInv, open' = open, meta' = meta, freq' = freq, pc' = pc, file' = file, fh' = fh,
           \A f \in Files : Is(f, "reused")' <=> Is(f, "reused")
    PROVE  /\ DescriptorsApart' /\ Counted' /\ Exact'
           /\ \A h \in Handles : (HasFd(h)' <=> HasFd(h)) /\ (Registered(h)' <=> Registered(h))
<1>1. \A h \in Handles : (HasFd(h)' <=> HasFd(h)) /\ (Registered(h)' <=> Registered(h))
    BY DEF HasFd, Registered
<1>2. DescriptorsApart'
    BY <1>1 DEF IInv, DescriptorsApart
<1>3. \A p \in Paths : Entries(p)' = Entries(p)
    BY DEF Entries
<1>4. Counted'
    BY <1>3 DEF IInv, Counted
<1>5. \A n \in Fds : (Opens(n)' <=> Opens(n)) /\ (Closes(n)' <=> Closes(n))
    BY DEF Opens, Closes
<1>6. Exact'
    BY <1>3, <1>5 DEF IInv, Exact, NoReuse
<1> QED BY <1>1, <1>2, <1>4, <1>6

LEMMA TruncatePathNext ==
    ASSUME NEW p \in Paths, IInv, TypeOK', TruncatePath(p) PROVE IInv'
<1> DEFINE t == local[p]
<1>1. /\ t \in Files /\ local \in [Paths -> Files \cup {None}] /\ data \in [Files -> Versions]
      /\ writes \in Nat
    BY Shape DEF TruncatePath, IInv
<1>2. /\ local' = local /\ server' = server /\ open' = open /\ meta' = meta /\ freq' = freq
      /\ pc' = pc /\ releasing' = releasing /\ path' = path /\ file' = file /\ fh' = fh
      /\ buf' = buf /\ writes' = writes + 1
      /\ data'[t] = writes + 1 /\ \A f \in Files \ {t} : data'[f] = data[f]
    BY <1>1 DEF TruncatePath, mapVars, handleVars
<1>3. /\ \A f, why : why # "truncated" => (<<f, why>> \in spoiled' <=> <<f, why>> \in spoiled)
      /\ \A f : Sound(f)' => Sound(f) /\ f # t
    <2>1. spoiled' = spoiled \cup ({t} \X {"truncated"})
        BY DEF TruncatePath, Spoil
    <2> QED BY <2>1 DEF Sound, Reasons
<1> HIDE DEF t
<1>4. \A f \in Files : /\ data[f] \in Nat /\ data[f] <= writes
                         /\ data'[f] \in Nat /\ data[f] <= data'[f] /\ data'[f] <= writes + 1
    BY <1>1, <1>2 DEF IInv, Tree, Versions
<1>5. /\ DescriptorsApart' /\ Counted' /\ Exact'
      /\ \A h \in Handles : (HasFd(h)' <=> HasFd(h)) /\ (Registered(h)' <=> Registered(h))
    BY <1>2, <1>3, NamesKeep DEF Is
<1>6. HandlesFilled'
    BY <1>2 DEF IInv, HandlesFilled
<1>7. Tree'
    BY <1>2, <1>4 DEF IInv, Tree
<1>8. EntriesOwn'
    BY <1>2, <1>3, <1>5 DEF IInv, EntriesOwn, Is
<1>9. BufferOwn'
    <2> SUFFICES ASSUME NEW h \in Handles, pc[h] = "send", ~Is(file[h], "renamed")
                 PROVE  buf[h].file = file[h] /\ buf[h].version <= data'[file[h]]
        BY <1>2, <1>3 DEF BufferOwn, Is
    <2>1. file[h] \in Files /\ buf[h].version \in Nat
        BY DEF IInv, HandlesFilled, Versions
    <2> QED BY <1>4, <2>1 DEF IInv, BufferOwn, Versions
<1>10. CatchesUp'
    <2> SUFFICES ASSUME NEW q \in Paths, local[q] # None, Sound(local[q])'
                 PROVE  \/ server[q] = data'[local[q]]
                        \/ \E h \in Handles : Saves(h, local[q])'
        BY <1>2 DEF CatchesUp, Sound
    <2>1. local[q] \in Files \ {t} /\ Sound(local[q]) /\ data'[local[q]] = data[local[q]]
        BY <1>1, <1>2, <1>3 DEF Sound
    <2>2. \A h \in Handles : Saves(h, local[q]) => Saves(h, local[q])'
        BY <1>2, <2>1 DEF Saves
    <2> QED BY <2>1, <2>2 DEF IInv, CatchesUp
<1> QED BY <1>5, <1>6, <1>7, <1>8, <1>9, <1>10 DEF IInv

LEMMA UnlinkNext ==
    ASSUME NEW p \in Paths, IInv, TypeOK', Unlink(p) PROVE IInv'
<1>1. /\ data' = data /\ open' = open /\ meta' = meta /\ freq' = freq
      /\ pc' = pc /\ releasing' = releasing /\ path' = path /\ file' = file /\ fh' = fh
      /\ buf' = buf /\ writes' = writes /\ spoiled' = spoiled
      /\ local'[p] = None /\ server'[p] = None
      /\ \A q \in Paths \ {p} : local'[q] = local[q] /\ server'[q] = server[q]
    BY Shape DEF Unlink, mapVars, handleVars, counters, IInv
<1>2. \A h \in Handles : pc[h] # "unused" => path[h] \in Paths \ {p}
    BY DEF Unlink, OnPath, IInv, HandlesFilled
<1>3. /\ DescriptorsApart' /\ Counted' /\ Exact'
      /\ \A h \in Handles : (HasFd(h)' <=> HasFd(h)) /\ (Registered(h)' <=> Registered(h))
    BY <1>1, NamesKeep DEF Is
<1>4. HandlesFilled' /\ EntriesOwn' /\ BufferOwn'
    BY <1>1, <1>3 DEF IInv, HandlesFilled, EntriesOwn, BufferOwn, Is
<1>5. Tree'
    BY <1>1, <1>2 DEF IInv, Tree
<1>6. CatchesUp'
    BY <1>1 DEF IInv, CatchesUp, Sound, Saves
<1> QED BY <1>3, <1>4, <1>5, <1>6 DEF IInv

LEMMA RenameNext ==
    ASSUME NEW p \in Paths, NEW q \in Paths, IInv, TypeOK', Rename(p, q) PROVE IInv'
<1>1. /\ data' = data /\ open' = open /\ meta' = meta /\ freq' = freq
      /\ pc' = pc /\ releasing' = releasing /\ file' = file /\ fh' = fh
      /\ buf' = buf /\ writes' = writes
      /\ p # q /\ local[p] # None
      /\ local'[p] = None /\ server'[p] = None
      /\ local'[q] = local[p] /\ server'[q] = server[p]
      /\ \A r \in Paths \ {p, q} : local'[r] = local[r] /\ server'[r] = server[r]
    BY Shape DEF Rename, mapVars, IInv
<1>2. \A h \in Handles : pc[h] # "unused" =>
        \/ path[h] = p /\ path'[h] = q /\ file[h] = local[p] /\ file[h] \in Files
        \/ path[h] \in Paths \ {p, q} /\ path'[h] = path[h]
    BY DEF Rename, OnPath, IInv, HandlesFilled, Tree
<1>3. /\ \A f, why : why # "renamed" => (<<f, why>> \in spoiled' <=> <<f, why>> \in spoiled)
      /\ \A f : Is(f, "renamed") => Is(f, "renamed")'
      /\ \A h \in Handles : pc[h] # "unused" /\ path[h] = p => <<local[p], "renamed">> \in spoiled'
    <2>1. spoiled' = spoiled \cup ({local[p] : h \in OnPath(p)} \X {"renamed"})
        BY DEF Rename, Spoil
    <2> QED BY <2>1 DEF Is, OnPath
<1>4. /\ DescriptorsApart' /\ Counted' /\ Exact'
      /\ \A h \in Handles : (HasFd(h)' <=> HasFd(h)) /\ (Registered(h)' <=> Registered(h))
    BY <1>1, <1>3, NamesKeep DEF Is
<1>5. HandlesFilled'
    BY <1>1, <1>2 DEF IInv, HandlesFilled
<1>6. Tree'
    <2>1. \A r, s \in Paths : local'[r] = local'[s] /\ local'[r] # None => r = s
        BY <1>1 DEF IInv, Tree
    <2>2. \A r \in Paths : local'[r] = None <=> server'[r] = None
        BY <1>1 DEF IInv, Tree
    <2>3. \A h \in Handles : pc[h] # "unused" => local'[path'[h]] = file[h]
        BY <1>1, <1>2 DEF IInv, Tree
    <2> QED BY <1>1, <2>1, <2>2, <2>3 DEF IInv, Tree
<1>7. EntriesOwn'
    <2> SUFFICES ASSUME NEW h \in Handles, Registered(h)
                 PROVE  /\ meta[fh[h]] # None /\ <<file[h], "renamed">> \notin spoiled' =>
                             meta[fh[h]].path = path'[h]
                        /\ <<file[h], "reused">> \notin spoiled =>
                             /\ meta[fh[h]] # None
                             /\ \A g \in Handles : pc[g] = "closed" => fh[g] # fh[h]
        BY <1>1, <1>3, <1>4 DEF EntriesOwn, Is
    <2>1. pc[h] # "unused"
        BY DEF Registered, HasFd
    <2> QED BY <1>2, <1>3, <2>1 DEF IInv, EntriesOwn, Is
<1>8. BufferOwn'
    BY <1>1, <1>3 DEF IInv, BufferOwn, Is
<1>9. CatchesUp'
    <2> SUFFICES ASSUME NEW r \in Paths, local'[r] # None, Sound(local[r])'
                 PROVE  \/ server'[r] = data[local'[r]]
                        \/ \E h \in Handles : Saves(h, local'[r])
        BY <1>1 DEF CatchesUp, Saves
    <2>1. \A f : (\A why \in Reasons : <<f, why>> \notin spoiled') => Sound(f)
        BY <1>3 DEF Sound, Is
    <2>2. Sound(local'[r])
        BY <2>1 DEF Sound
    <2>3. CASE r = q
        BY <1>1, <2>2, <2>3 DEF IInv, CatchesUp
    <2>4. CASE r # q
        BY <1>1, <2>2, <2>4 DEF IInv, CatchesUp
    <2> QED BY <2>3, <2>4
<1> QED BY <1>4, <1>5, <1>6, <1>7, <1>8, <1>9 DEF IInv

-----------------------------------------------------------------------------
(* The theorems. *)

LEMMA InitInv == Init => IInv
<1> SUFFICES ASSUME Init PROVE IInv
    OBVIOUS
<1>1. TypeOK
    BY DEF Init, TypeOK, Resting, Versions
<1>2. HandlesFilled /\ DescriptorsApart /\ Tree /\ EntriesOwn /\ BufferOwn /\ CatchesUp
    BY DEF Init, HandlesFilled, DescriptorsApart, HasFd, Tree, EntriesOwn, Registered, BufferOwn,
           CatchesUp, Versions
<1>3. \A p \in Paths : Entries(p) = {}
    BY DEF Init, Entries
<1>4. Counted /\ Exact
    <2>1. \A p \in Paths : Cardinality(Entries(p)) = 0 /\ freq[p] = 0
        BY <1>3, FS_EmptySet DEF Init
    <2>2. \A n \in Fds : ~Opens(n) /\ ~Closes(n) /\ meta[n] = None /\ open[n] = None
        BY DEF Init, Opens, Closes
    <2>3. \A h \in Handles : pc[h] # "closed"
        BY DEF Init
    <2> QED BY <2>1, <2>2, <2>3 DEF Counted, Exact
<1> QED BY <1>1, <1>2, <1>4 DEF IInv

LEMMA InvNext == IInv /\ [Next]_vars => IInv'
<1> SUFFICES ASSUME IInv, [Next]_vars PROVE IInv'
    OBVIOUS
<1>1. TypeOK'
    BY TypeNext DEF IInv
<1>2. CASE UNCHANGED vars
    <2>1. /\ (DescriptorsApart <=> DescriptorsApart') /\ (HandlesFilled <=> HandlesFilled')
          /\ (Tree <=> Tree') /\ (BufferOwn <=> BufferOwn') /\ (CatchesUp <=> CatchesUp')
          /\ (EntriesOwn <=> EntriesOwn')
        BY <1>2 DEF vars, DescriptorsApart, HasFd, HandlesFilled, Tree, BufferOwn, Is, CatchesUp,
                    Sound, Saves, EntriesOwn, Registered
    <2>2. Counted' /\ Exact'
        BY <1>2, NamesKeep DEF vars, Is
    <2> QED BY <1>1, <2>1, <2>2 DEF IInv
<1>3. ASSUME NEW h \in Handles, NEW p \in Paths, Open(h, p) \/ Create(h, p) PROVE IInv'
    BY <1>1, <1>3, OpenNext, CreateNext
<1>4. ASSUME NEW h \in Handles, Write(h) \/ StartFlush(h) \/ StartRelease(h) \/ HandlerStep(h)
      PROVE  IInv'
    BY <1>1, <1>4, WriteNext, HandlerMoves, RegisterOpenNext, RegisterDirtyNext, ReadFileNext,
       SendNext, ReleaseFailsNext, CloseNext, RegisterCloseNext DEF HandlerStep
<1>5. ASSUME NEW p \in Paths, TruncatePath(p) \/ Unlink(p) PROVE IInv'
    BY <1>1, <1>5, TruncatePathNext, UnlinkNext
<1>6. ASSUME NEW p \in Paths, NEW q \in Paths, Rename(p, q) PROVE IInv'
    BY <1>1, <1>6, RenameNext
<1> QED BY <1>2, <1>3, <1>4, <1>5, <1>6 DEF Next

(* Every reachable state satisfies the inductive invariant. *)
THEOREM Invariant == Spec => []IInv
<1> QED BY InitInv, InvNext, PTL DEF Spec

(* The variables keep their shape and no count of a path falls below zero. *)
THEOREM TypeCorrect == Spec => []TypeOK
<1>1. IInv => TypeOK
    BY DEF IInv
<1> QED BY Invariant, <1>1, PTL

(* registerFileDirty finds its descriptor in the map, unless the number    *)
(* was given out before its last close was registered.                     *)
THEOREM DirtyKnown == Spec => []DirtyFindsMeta
<1>1. IInv => DirtyFindsMeta
    BY DEF IInv, EntriesOwn, DirtyFindsMeta, Registered, HasFd, Is
<1> QED BY Invariant, <1>1, PTL

(* Between handlers the two maps of WowCacheManager are what the open      *)
(* files are, as long as no number was given out too early.                *)
THEOREM MapsAgree == Spec => []MapsMatch
<1>1. IInv => MapsMatch
    <2> SUFFICES ASSUME IInv, Busy = {}, NoReuse
                 PROVE  /\ \A n \in Fds : meta[n] # None <=> open[n] # None
                        /\ \A p \in Paths : freq[p] = Cardinality(Entries(p))
        BY DEF MapsMatch, NoReuse, Is, Entries
    <2>1. \A n \in Fds : ~Opens(n) /\ ~Closes(n)
        BY DEF Busy, Resting, Opens, Closes
    <2> QED BY <2>1 DEF IInv, Exact
<1> QED BY Invariant, <1>1, PTL

(* What a handler is about to send was read from its own file, unless that *)
(* was renamed while it was open.                                          *)
THEOREM SendsOwnFile == Spec => []ReadsOwnFile
<1>1. IInv => ReadsOwnFile
    BY DEF IInv, BufferOwn, ReadsOwnFile, Is
<1> QED BY Invariant, <1>1, PTL

(* When every handle has been released, the server has the last version of *)
(* each file that none of the five reasons has spoiled.                    *)
THEOREM NothingUnsent == Spec => []ServerCatchesUp
<1>1. IInv => ServerCatchesUp
    BY DEF IInv, CatchesUp, ServerCatchesUp, Saves
<1> QED BY Invariant, <1>1, PTL

=============================================================================
