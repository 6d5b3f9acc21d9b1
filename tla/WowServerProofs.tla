-------------------------- MODULE WowServerProofs --------------------------
(***************************************************************************)
(* Proofs about WowServer for every number of paths, inodes, Writebacks    *)
(* and readers and every length of file.                                   *)
(***************************************************************************)
EXTENDS WowServerInv, TLAPS

-----------------------------------------------------------------------------
(* What the operators on contents return. *)

LEMMA PrefixType ==
  ASSUME NEW c \in Calls, NEW n \in Int
  PROVE  Prefix(c, n) \in Contents
BY DEF Prefix, Contents

LEMMA BlankType == Blank \in Contents
BY DEF Blank, Contents

(* Before its first chunk a stream has brought nothing. *)
LEMMA PrefixZero ==
  ASSUME NEW c \in Calls
  PROVE  Prefix(c, 0) = Blank
BY ConstantsAssumption DEF Prefix, Blank, Pos

(* The next chunk makes the next prefix. *)
LEMMA PrefixNext ==
  ASSUME NEW c \in Calls, NEW n \in 0..MaxLen, n < MaxLen
  PROVE  [Prefix(c, n) EXCEPT ![n + 1] = c] = Prefix(c, n + 1)
<1> DEFINE f == [Prefix(c, n) EXCEPT ![n + 1] = c]
<1>1. f = [k \in Pos |-> IF k = n + 1 THEN c ELSE Prefix(c, n)[k]]
  BY DEF Prefix
<1>2. ASSUME NEW k \in Pos
      PROVE  (IF k = n + 1 THEN c ELSE Prefix(c, n)[k])
                = (IF k <= n + 1 THEN c ELSE NoData)
  BY ConstantsAssumption DEF Prefix, Pos
<1> QED BY <1>1, <1>2 DEF Prefix

(* What a pread of n bytes sends of whole contents is one prefix of them. *)
LEMMA PrefixOfWhole ==
  ASSUME TypeOK, NEW d, Whole(d), NEW n \in 0..MaxLen
  PROVE  \/ FirstOf(d, n) = Blank
         \/ \E c \in Calls : \E m \in 0..req[c].len : FirstOf(d, n) = Prefix(c, m)
<1>1. CASE d = Blank
  BY <1>1 DEF FirstOf, Blank
<1>2. CASE \E c \in Calls : d = Version(c)
  <2>1. PICK c \in Calls : d = Version(c)
    BY <1>2
  <2>2. req[c].len \in 0..MaxLen
    BY DEF TypeOK
  <2> DEFINE m == IF n <= req[c].len THEN n ELSE req[c].len
  <2>3. m \in 0..req[c].len
    BY <2>2, ConstantsAssumption
  <2>4. FirstOf(d, n) = Prefix(c, m)
    BY <2>1, <2>2, ConstantsAssumption DEF FirstOf, Version, Prefix, Pos
  <2> QED BY <2>3, <2>4
<1> QED BY <1>1, <1>2 DEF Whole

-----------------------------------------------------------------------------
(* Type correctness. *)

LEMMA TypeInit == Init => TypeOK
BY ConstantsAssumption, BlankType
DEF Init, TypeOK, Running, Ended, Active

(* What is left of the handlers when the process ends. *)
LEMMA ProcessEndsType ==
  ASSUME TypeOK, ProcessEnds
  PROVE  /\ up' \in BOOLEAN
         /\ crashOnWrite' \in BOOLEAN
         /\ req' \in [Calls -> [path : Paths, len : 0..MaxLen]]
         /\ pc' \in [Calls -> {"idle"} \cup Running \cup Ended]
         /\ pos' \in [Calls -> 0..MaxLen]
         /\ fd' \in [Calls -> Inodes \cup {None}]
         /\ rfd' \in [Readers -> Inodes \cup {None}]
         /\ rsize' \in [Readers -> 0..MaxLen]
         /\ got' \in [Readers -> Contents]
         /\ \A c \in Calls : ~Active(c)' /\ fd'[c] = None
         /\ \A r \in Readers : rfd'[r] = None
<1>1. pc' \in [Calls -> {"idle"} \cup Running \cup Ended]
  BY DEF ProcessEnds, TypeOK, Ended
<1>2. rsize' \in [Readers -> 0..MaxLen]
  BY ConstantsAssumption DEF ProcessEnds
<1>3. fd' \in [Calls -> Inodes \cup {None}] /\ rfd' \in [Readers -> Inodes \cup {None}]
  BY DEF ProcessEnds
<1>4. ASSUME NEW c \in Calls PROVE ~Active(c)' /\ fd'[c] = None
  BY DEF ProcessEnds, Active, Running
<1>5. \A r \in Readers : rfd'[r] = None
  BY DEF ProcessEnds
<1>6. up' \in BOOLEAN /\ UNCHANGED <<crashOnWrite, req, pos, got>>
  BY DEF ProcessEnds
<1> QED BY <1>1, <1>2, <1>3, <1>4, <1>5, <1>6 DEF TypeOK

(* A step of the whole system is a step of one of the actions; the proofs  *)
(* below go through them in the order of WowServer.                        *)
LEMMA TypeNext ==
  ASSUME TypeOK, [Next]_vars
  PROVE  TypeOK'
<1> USE ConstantsAssumption, BlankType
<1>1. CASE UNCHANGED vars
  BY <1>1 DEF TypeOK, vars, Active
<1>2. ASSUME NEW c \in Calls, StartWriteback(c) PROVE TypeOK'
  BY <1>2 DEF StartWriteback, TypeOK, Running, Ended, Active, fsVars, callVars, readVars
<1>3. ASSUME NEW c \in Calls, OpenTmp(c) PROVE TypeOK'
  BY <1>3 DEF OpenTmp, TypeOK, Running, Ended, Active, fsVars, callVars, readVars, Tmp
<1>4. ASSUME NEW c \in Calls, OpenTmpFails(c) PROVE TypeOK'
  BY <1>4 DEF OpenTmpFails, TypeOK, Running, Ended, Active, fsVars, callVars, readVars
<1>5. ASSUME NEW c \in Calls, WriteChunk(c) PROVE TypeOK'
  BY <1>5 DEF WriteChunk, TypeOK, Running, Ended, Active, fsVars, callVars, readVars, Contents, Pos
<1>6. ASSUME NEW c \in Calls, ShortWrite(c) PROVE TypeOK'
  BY <1>6 DEF ShortWrite, TypeOK, Running, Ended, Active, fsVars, callVars, readVars
<1>7. ASSUME NEW c \in Calls, WriteFails(c) PROVE TypeOK'
  BY <1>7 DEF WriteFails, TypeOK, Running, Ended, Active, fsVars, callVars, readVars
<1>8. ASSUME NEW c \in Calls, EndOfStream(c) PROVE TypeOK'
  BY <1>8 DEF EndOfStream, TypeOK, Running, Ended, Active, fsVars, callVars, readVars
<1>9. ASSUME NEW c \in Calls, BreakStream(c) PROVE TypeOK'
  BY <1>9 DEF BreakStream, TypeOK, Running, Ended, Active, fsVars, callVars, readVars
<1>10. ASSUME NEW c \in Calls, BreakBeforeFirst(c) PROVE TypeOK'
  BY <1>10 DEF BreakBeforeFirst, TypeOK, Running, Ended, Active, fsVars, callVars, readVars
<1>11. ASSUME NEW c \in Calls, FsyncClose(c) PROVE TypeOK'
  BY <1>11 DEF FsyncClose, TypeOK, Running, Ended, Active, fsVars, callVars, readVars
<1>12. ASSUME NEW c \in Calls, FsyncFails(c) PROVE TypeOK'
  BY <1>12 DEF FsyncFails, TypeOK, Running, Ended, Active, fsVars, callVars, readVars
<1>13. ASSUME NEW c \in Calls, RenameFinal(c) PROVE TypeOK'
  BY <1>13 DEF RenameFinal, TypeOK, Running, Ended, Active, fsVars, callVars, readVars, Tmp, Moved
<1>14. ASSUME NEW c \in Calls, RenameFails(c) PROVE TypeOK'
  BY <1>14 DEF RenameFails, TypeOK, Running, Ended, Active, fsVars, callVars, readVars
<1>15. ASSUME NEW c \in Calls, TerminateOnWrite(c) PROVE TypeOK'
  BY <1>15, ProcessEndsType DEF TerminateOnWrite, TypeOK, fsVars
<1>16. ASSUME NEW p \in Paths, CreateFile(p) PROVE TypeOK'
  BY <1>16 DEF CreateFile, TypeOK, Running, Ended, Active, fsVars, callVars, readVars
<1>17. ASSUME NEW p \in Paths, TruncateFile(p) PROVE TypeOK'
  BY <1>17 DEF TruncateFile, TypeOK, Running, Ended, Active, fsVars, callVars, readVars
<1>18. ASSUME NEW p \in Paths, Unlink(p) PROVE TypeOK'
  BY <1>18 DEF Unlink, TypeOK, Running, Ended, Active, fsVars, callVars, readVars
<1>19. ASSUME NEW p \in Paths, NEW q \in Paths, Rename(p, q) PROVE TypeOK'
  BY <1>19 DEF Rename, TypeOK, Running, Ended, Active, fsVars, callVars, readVars, Moved
<1>20. ASSUME NEW p \in Paths, NEW q \in Paths, Link(p, q) PROVE TypeOK'
  BY <1>20 DEF Link, TypeOK, Running, Ended, Active, fsVars, callVars, readVars
<1>21. ASSUME NEW r \in Readers, NEW p \in Paths, NEW n \in 0..MaxLen, ReadOpen(r, p, n) PROVE TypeOK'
  BY <1>21 DEF ReadOpen, TypeOK, Running, Ended, Active, fsVars, callVars, readVars
<1>22. ASSUME NEW r \in Readers, ReadPread(r) PROVE TypeOK'
  BY <1>22 DEF ReadPread, TypeOK, Running, Ended, Active, fsVars, callVars, readVars, Contents, FirstOf, Pos
<1>23. CASE Crash
  BY <1>23, ProcessEndsType DEF Crash, TypeOK, fsVars
<1>24. CASE PowerLoss
  <2>1. data' \in [Inodes -> Contents]
    BY <1>24 DEF PowerLoss, TypeOK, Contents
  <2> QED BY <1>24, <2>1, ProcessEndsType DEF PowerLoss, TypeOK
<1>25. CASE Restart
  BY <1>25 DEF Restart, TypeOK, Running, Ended, Active, fsVars, callVars, readVars, TmpNames
<1>26. CASE SyncDir
  BY <1>26 DEF SyncDir, TypeOK, Running, Ended, Active, fsVars, callVars, readVars
<1> QED
  BY <1>1, <1>2, <1>3, <1>4, <1>5, <1>6, <1>7, <1>8, <1>9, <1>10,
     <1>11, <1>12, <1>13, <1>14, <1>15, <1>16, <1>17, <1>18, <1>19,
     <1>20, <1>21, <1>22, <1>23, <1>24, <1>25, <1>26
  DEF Next, HandlerStep, HandlerFault, PathOp

THEOREM TypeCorrect == Spec => []TypeOK
<1>1. Init => TypeOK
  BY TypeInit
<1>2. TypeOK /\ [Next]_vars => TypeOK'
  BY TypeNext
<1> QED BY <1>1, <1>2, PTL DEF Spec

-----------------------------------------------------------------------------
(* The inductive invariant. *)

LEMMA InvInit == Init => IInv
<1> SUFFICES ASSUME Init PROVE IInv
  OBVIOUS
<1>1. TypeOK
  BY TypeInit
<1>2. \A n \in Names : dir[n] = None /\ pdir[n] = None
  BY DEF Init
<1>3. \A p \in Paths : p \in Names /\ TmpOf[p] \in Names
  BY ConstantsAssumption
<1>4. FilesWhole /\ TmpApart /\ DiskApart
  BY <1>2, <1>3 DEF Init, FilesWhole, TmpApart, DiskApart
<1>5. ReadsOneVersion /\ OneWriter /\ HandlersInStep
  BY DEF Init, ReadsOneVersion, OneWriter, HandlersInStep, HandlerInStep, Active, Running
<1> QED BY <1>1, <1>4, <1>5 DEF IInv

(* Every path has a name and a temporary name, each bound to an inode or   *)
(* to none; where Sound holds the two kinds of names differ.               *)
LEMMA NameTypes ==
  ASSUME TypeOK, NEW p \in Paths
  PROVE  /\ p \in Names /\ TmpOf[p] \in Names /\ TmpOf[p] \in TmpNames
         /\ dir[p] \in Inodes \cup {None} /\ pdir[p] \in Inodes \cup {None}
         /\ dir[TmpOf[p]] \in Inodes \cup {None}
         /\ pdir[TmpOf[p]] \in Inodes \cup {None}
         /\ \A q \in Paths : TmpOf[p] = TmpOf[q] => p = q
         /\ Sound => p \notin TmpNames /\ \A q \in Paths : TmpOf[p] # q
BY ConstantsAssumption DEF TypeOK, TmpNames, Sound

(* A step that leaves files, directory and readers alone, and takes no     *)
(* answer back, disturbs only what is said of the handlers.                *)
LEMMA FilesStable ==
  ASSUME IInv, UNCHANGED <<fsVars, req, rfd, got>>,
         \A c \in Calls : pc[c] = "ok" => pc'[c] = "ok"
  PROVE  FilesWhole' /\ ReadsOneVersion' /\ TmpApart' /\ DiskApart'
<1>1. FilesWhole'
  BY DEF IInv, FilesWhole, fsVars, Whole, Version, Blank
<1>2. ReadsOneVersion'
  BY DEF IInv, ReadsOneVersion, Blank
<1>3. TmpApart' /\ DiskApart'
  BY DEF IInv, TmpApart, DiskApart, fsVars
<1> QED BY <1>1, <1>2, <1>3

(* A handler that does not start keeps the handlers of one path apart. *)
LEMMA WritersStable ==
  ASSUME IInv, req' = req, \A c \in Calls : Active(c)' => Active(c)
  PROVE  OneWriter'
BY DEF IInv, OneWriter

LEMMA StartWritebackInv ==
  ASSUME IInv, Sound, NEW c \in Calls, StartWriteback(c)
  PROVE  FilesWhole' /\ ReadsOneVersion' /\ TmpApart' /\ DiskApart'
         /\ OneWriter' /\ HandlersInStep'
<1>1. \A d \in Calls : pc'[d] = (IF d = c THEN "reading" ELSE pc[d])
  BY DEF StartWriteback, IInv, TypeOK
<1>2. FilesWhole' /\ ReadsOneVersion' /\ TmpApart' /\ DiskApart'
  BY <1>1, FilesStable DEF StartWriteback, readVars
<1>3. OneWriter'
  BY <1>1 DEF StartWriteback, IInv, OneWriter, Sound, Active, Running
<1>4. HandlersInStep'
  BY <1>1 DEF StartWriteback, IInv, HandlersInStep, HandlerInStep, fsVars, Tmp, Version
<1> QED BY <1>2, <1>3, <1>4

(* The handler returns, or goes on, without a system call that changes     *)
(* anything: a failed open or pwrite, the end of the stream, a failed      *)
(* rename.                                                                 *)
LEMMA QuietStepInv ==
  ASSUME IInv, NEW c \in Calls,
         \/ OpenTmpFails(c) \/ WriteFails(c) \/ EndOfStream(c)
         \/ BreakBeforeFirst(c) \/ RenameFails(c)
  PROVE  FilesWhole' /\ ReadsOneVersion' /\ TmpApart' /\ DiskApart'
         /\ OneWriter' /\ HandlersInStep'
<1> USE DEF OpenTmpFails, WriteFails, EndOfStream, BreakBeforeFirst, RenameFails
<1>1. PICK s \in {"ended"} \cup Ended : pc' = [pc EXCEPT ![c] = s]
  BY DEF Ended
<1>2. UNCHANGED <<fsVars, req, pos, fd, rfd, got>>
  BY DEF readVars
<1>3. /\ pc[c] \in {"reading", "synced"}
      /\ s = "ended" => pc[c] = "reading" /\ pos[c] = req[c].len /\ fd[c] # None
  BY <1>1 DEF IInv, TypeOK, Ended
<1>4. \A d \in Calls : pc'[d] = (IF d = c THEN s ELSE pc[d])
  BY <1>1 DEF IInv, TypeOK
<1> USE DEF Ended
<1>5. FilesWhole' /\ ReadsOneVersion' /\ TmpApart' /\ DiskApart'
  BY <1>2, <1>3, <1>4, FilesStable
<1>6. OneWriter'
  BY <1>2, <1>3, <1>4, WritersStable DEF Active, Running
<1>7. HandlersInStep'
  <2>1. ASSUME NEW d \in Calls, d # c PROVE HandlerInStep(d)'
    BY <1>2, <1>4, <2>1 DEF IInv, HandlersInStep, HandlerInStep, fsVars, Tmp, Version
  <2>2. HandlerInStep(c)'
    BY <1>2, <1>3, <1>4 DEF IInv, HandlersInStep, HandlerInStep, fsVars, Tmp, Version
  <2> QED BY <2>1, <2>2 DEF HandlersInStep
<1> QED BY <1>5, <1>6, <1>7

(* The temporary file is made or emptied: its inode is no file's.          *)
LEMMA OpenTmpInv ==
  ASSUME IInv, Sound, NEW c \in Calls, OpenTmp(c)
  PROVE  FilesWhole' /\ ReadsOneVersion' /\ TmpApart' /\ DiskApart'
         /\ OneWriter' /\ HandlersInStep'
<1> USE ConstantsAssumption
<1>1. PICK i \in Inodes :
         /\ IF dir[Tmp(c)] = None THEN Free(i) ELSE i = dir[Tmp(c)]
         /\ dir' = [dir EXCEPT ![Tmp(c)] = i]
         /\ data' = [data EXCEPT ![i] = Blank]
         /\ synced' = [synced EXCEPT ![i] = TRUE]
         /\ fd' = [fd EXCEPT ![c] = i]
  BY DEF OpenTmp
<1>2. pc[c] = "reading" /\ fd[c] = None /\ UNCHANGED <<pdir, req, pc, pos, rfd, rsize, got>>
  BY DEF OpenTmp, readVars
<1>3. TypeOK
  BY DEF IInv
<1>4. req[c].path \in Paths /\ Tmp(c) \in Names /\ i # None
  BY <1>3 DEF TypeOK, Tmp
<1>15. \A p \in Paths : p # Tmp(c)
  BY <1>3, <1>4, NameTypes DEF Tmp
<1>5. \A n \in Names : dir'[n] = IF n = Tmp(c) THEN i ELSE dir[n]
  BY <1>1, <1>3 DEF TypeOK
<1>6. \A j \in Inodes : /\ data'[j] = (IF j = i THEN Blank ELSE data[j])
                        /\ synced'[j] = (IF j = i THEN TRUE ELSE synced[j])
  BY <1>1, <1>3 DEF TypeOK
<1>7. \A d \in Calls : fd'[d] = IF d = c THEN i ELSE fd[d]
  BY <1>1, <1>3 DEF TypeOK
(* The inode is apart from every file, on disk and in memory, from every   *)
(* reader and from the other temporary files.                              *)
<1>8. /\ \A q \in Paths : dir[q] # i /\ pdir[q] # i
      /\ \A q \in Paths : q # req[c].path => dir[TmpOf[q]] # i
      /\ \A r \in Readers : rfd[r] # i
  <2>1. CASE dir[Tmp(c)] = None
    BY <1>1, <2>1 DEF Free, Linked, Opened
  <2>2. CASE dir[Tmp(c)] # None
    BY <1>1, <1>4, <2>2 DEF IInv, TmpApart, Tmp
  <2> QED BY <2>1, <2>2
<1>9. FilesWhole'
  <2>1. ASSUME NEW j \in Inodes, Whole(data[j]), j # i
        PROVE  Whole(data[j])' 
    BY <1>2, <1>6, <2>1 DEF Whole, Version, Blank
  <2>2. ASSUME NEW p \in Paths
        PROVE  /\ dir'[p] # None => Whole(data[dir[p]])' /\ synced'[dir'[p]]
               /\ pdir'[p] # None => Whole(data[pdir[p]])' /\ synced'[pdir'[p]]
    <3>1. dir'[p] = dir[p] /\ dir[p] # i
      BY <1>3, <1>5, <1>8, <1>15, NameTypes
    <3>2. pdir'[p] = pdir[p] /\ pdir[p] # i
      BY <1>2, <1>8
    <3> QED BY <1>3, <1>6, <3>1, <3>2, <2>1, NameTypes DEF IInv, FilesWhole
  <2>3. ASSUME NEW r \in Readers
        PROVE  rfd'[r] # None => Whole(data[rfd[r]])'
    BY <1>2, <1>3, <1>8, <2>1 DEF IInv, FilesWhole, TypeOK
  <2> QED BY <2>2, <2>3 DEF FilesWhole
<1>10. ReadsOneVersion'
  BY <1>2 DEF IInv, ReadsOneVersion, Blank
<1>11. TmpApart'
  BY <1>2, <1>3, <1>4, <1>5, <1>8, <1>15, NameTypes DEF IInv, TmpApart, Tmp
<1>12. DiskApart'
  BY <1>2 DEF IInv, DiskApart
<1>13. OneWriter'
  BY <1>2, WritersStable DEF Active
<1>14. HandlersInStep'
  <2>1. HandlerInStep(c)'
    BY <1>2, <1>4, <1>5, <1>6, <1>7, PrefixZero
    DEF IInv, HandlersInStep, HandlerInStep, Tmp, Version
  <2>2. ASSUME NEW d \in Calls, d # c PROVE HandlerInStep(d)'
    <3>1. CASE ~Active(d)
      BY <1>2, <1>7, <2>2, <3>1 DEF IInv, HandlersInStep, HandlerInStep, Active, Running
    <3>2. CASE Active(d)
      <4>1. req[d].path \in Paths /\ req[d].path # req[c].path
        BY <1>2, <1>3, <2>2, <3>2 DEF IInv, OneWriter, TypeOK, Active, Running
      <4>2. dir'[Tmp(d)] = dir[Tmp(d)] /\ dir[Tmp(d)] # i
        BY <1>4, <1>5, <1>8, <4>1 DEF Tmp
      <4>3. HandlerInStep(d) /\ fd'[d] = fd[d] /\ fd[d] \in Inodes \cup {None}
            /\ dir[Tmp(d)] \in Inodes \cup {None}
        BY <1>3, <1>7, <2>2, <4>1 DEF IInv, HandlersInStep, TypeOK, Tmp
      <4> QED BY <1>2, <1>6, <4>2, <4>3 DEF HandlerInStep, Tmp, Version
    <3> QED BY <3>1, <3>2
  <2> QED BY <2>1, <2>2 DEF HandlersInStep
<1> QED BY <1>9, <1>10, <1>11, <1>12, <1>13, <1>14

(* A handler that another handler's step leaves alone: its descriptor and  *)
(* temporary name stay, and the inode behind them keeps its contents.      *)
LEMMA OtherHandler ==
  ASSUME IInv, NEW d \in Calls, UNCHANGED req,
         pc'[d] = pc[d], pos'[d] = pos[d], fd'[d] = fd[d],
         Active(d) => /\ dir'[Tmp(d)] = dir[Tmp(d)]
                      /\ \A i \in Inodes : i = dir[Tmp(d)] =>
                            data'[i] = data[i] /\ (synced[i] => synced'[i])
  PROVE  HandlerInStep(d)'
<1>1. HandlerInStep(d) /\ TypeOK
  BY DEF IInv, HandlersInStep
<1>2. dir[Tmp(d)] \in Inodes \cup {None} /\ fd[d] \in Inodes \cup {None}
  BY <1>1, NameTypes DEF TypeOK, Tmp
<1>3. Active(d) \/ pc[d] \notin Running
  BY DEF Active
<1> QED BY <1>1, <1>2, <1>3 DEF HandlerInStep, Tmp, Version, Running

(* The temporary inodes of two running handlers differ, and are no file's. *)
LEMMA HandlersApart ==
  ASSUME IInv, NEW c \in Calls, Active(c), NEW i \in Inodes, i = dir[Tmp(c)]
  PROVE  /\ \A q \in Paths : dir[q] # i /\ pdir[q] # i
         /\ \A q \in Paths : q # req[c].path => dir[TmpOf[q]] # i
         /\ \A r \in Readers : rfd[r] # i
         /\ \A d \in Calls : Active(d) /\ d # c => dir[Tmp(d)] # i
<1>1. TypeOK /\ \A d \in Calls : req[d].path \in Paths
  BY DEF IInv, TypeOK
<1>2. i # None
  BY ConstantsAssumption
<1>3. /\ \A q \in Paths : dir[q] # i /\ pdir[q] # i
      /\ \A q \in Paths : q # req[c].path => dir[TmpOf[q]] # i
      /\ \A r \in Readers : rfd[r] # i
  BY <1>1, <1>2 DEF IInv, TmpApart, Tmp
<1>4. \A d \in Calls : Active(d) /\ d # c => req[d].path # req[c].path
  BY DEF IInv, OneWriter
<1>5. ASSUME NEW d \in Calls, Active(d), d # c PROVE dir[Tmp(d)] # i
  <2>1. req[d].path \in Paths /\ req[d].path # req[c].path
    BY <1>1, <1>4, <1>5
  <2> QED BY <1>3, <2>1 DEF Tmp
<1> QED BY <1>3, <1>5

(* A chunk goes to the temporary inode and makes it the next prefix.       *)
LEMMA WriteChunkInv ==
  ASSUME IInv, Sound, NEW c \in Calls, WriteChunk(c)
  PROVE  FilesWhole' /\ ReadsOneVersion' /\ TmpApart' /\ DiskApart'
         /\ OneWriter' /\ HandlersInStep'
<1> DEFINE i == fd[c]
<1>1. /\ pc[c] = "reading" /\ fd[c] # None /\ pos[c] < req[c].len
      /\ pos' = [pos EXCEPT ![c] = @ + 1]
      /\ data' = [data EXCEPT ![i] = [data[i] EXCEPT ![pos[c] + 1] = c]]
      /\ synced' = [synced EXCEPT ![i] = FALSE]
      /\ UNCHANGED <<dir, pdir, req, pc, fd, rfd, rsize, got>>
  BY DEF WriteChunk, readVars
<1>2. TypeOK /\ Active(c)
  BY <1>1 DEF IInv, Active, Running
<1>3. i \in Inodes /\ req[c].len \in 0..MaxLen /\ pos[c] \in 0..MaxLen
  BY <1>1, <1>2 DEF TypeOK
<1>4. dir[Tmp(c)] = i /\ data[i] = Prefix(c, pos[c])
  BY <1>1 DEF IInv, HandlersInStep, HandlerInStep
<1>5. \A j \in Inodes : j # i => data'[j] = data[j] /\ synced'[j] = synced[j]
  BY <1>1, <1>2 DEF TypeOK
<1>6. data'[i] = Prefix(c, pos[c] + 1)
  <2>1. pos[c] < MaxLen
    BY <1>1, <1>3, ConstantsAssumption
  <2>2. data'[i] = [Prefix(c, pos[c]) EXCEPT ![pos[c] + 1] = c]
    BY <1>1, <1>2, <1>3, <1>4 DEF TypeOK
  <2> QED BY <1>3, <2>1, <2>2, PrefixNext
<1>7. FilesWhole'
  <2>1. ASSUME NEW j \in Inodes, Whole(data[j]), j # i
        PROVE  Whole(data[j])'
    BY <1>1, <1>5, <2>1 DEF Whole, Version, Blank
  <2>2. ASSUME NEW p \in Paths
        PROVE  /\ dir'[p] # None => Whole(data[dir[p]])' /\ synced'[dir'[p]]
               /\ pdir'[p] # None => Whole(data[pdir[p]])' /\ synced'[pdir'[p]]
    BY <1>1, <1>2, <1>3, <1>4, <1>5, <2>1, HandlersApart, NameTypes DEF IInv, FilesWhole
  <2>3. ASSUME NEW r \in Readers
        PROVE  rfd'[r] # None => Whole(data[rfd[r]])'
    BY <1>1, <1>2, <1>3, <1>4, <2>1, HandlersApart DEF IInv, FilesWhole, TypeOK
  <2> QED BY <2>2, <2>3 DEF FilesWhole
<1>8. ReadsOneVersion'
  BY <1>1 DEF IInv, ReadsOneVersion, Blank
<1>9. TmpApart' /\ DiskApart'
  BY <1>1 DEF IInv, TmpApart, DiskApart
<1>10. OneWriter'
  BY <1>1, WritersStable DEF Active
<1>11. HandlersInStep'
  <2>1. HandlerInStep(c)'
    BY <1>1, <1>2, <1>4, <1>6 DEF HandlerInStep, Tmp, TypeOK
  <2>2. ASSUME NEW d \in Calls, d # c PROVE HandlerInStep(d)'
    <3>1. pos'[d] = pos[d]
      BY <1>1, <1>2, <2>2 DEF TypeOK
    <3>2. Active(d) => dir[Tmp(d)] # i
      BY <1>2, <1>3, <1>4, <2>2, HandlersApart
    <3> QED BY <1>1, <1>5, <3>1, <3>2, OtherHandler DEF Tmp
  <2> QED BY <2>1, <2>2 DEF HandlersInStep
<1> QED BY <1>7, <1>8, <1>9, <1>10, <1>11

(* fsync puts the temporary inode, whole by now, on disk.                  *)
LEMMA FsyncCloseInv ==
  ASSUME IInv, Sound, NEW c \in Calls, FsyncClose(c)
  PROVE  FilesWhole' /\ ReadsOneVersion' /\ TmpApart' /\ DiskApart'
         /\ OneWriter' /\ HandlersInStep'
<1> DEFINE i == fd[c]
<1>1. /\ pc[c] = "ended"
      /\ synced' = [synced EXCEPT ![i] = TRUE]
      /\ fd' = [fd EXCEPT ![c] = None]
      /\ pc' = [pc EXCEPT ![c] = "synced"]
      /\ UNCHANGED <<dir, pdir, data, req, pos, rfd, got>>
  BY DEF FsyncClose, readVars
<1>2. TypeOK
  BY DEF IInv
<1>3. dir[Tmp(c)] = i /\ data[i] = Version(c) /\ i # None
  BY <1>1 DEF IInv, HandlersInStep, HandlerInStep
<1>4. i \in Inodes
  BY <1>2, <1>3 DEF TypeOK
<1>5. \A j \in Inodes : synced[j] => synced'[j]
  BY <1>1, <1>2 DEF TypeOK
<1>6. \A d \in Calls : /\ pc'[d] = (IF d = c THEN "synced" ELSE pc[d])
                       /\ fd'[d] = (IF d = c THEN None ELSE fd[d])
  BY <1>1, <1>2 DEF TypeOK
<1>7. FilesWhole'
  <2>1. ASSUME NEW j \in Inodes, Whole(data[j])
        PROVE  Whole(data[j])'
    BY <1>1, <1>6, <2>1 DEF Whole, Version, Blank
  <2>2. ASSUME NEW p \in Paths
        PROVE  /\ dir'[p] # None => Whole(data[dir[p]])' /\ synced'[dir'[p]]
               /\ pdir'[p] # None => Whole(data[pdir[p]])' /\ synced'[pdir'[p]]
    BY <1>1, <1>2, <1>5, <2>1, NameTypes DEF IInv, FilesWhole
  <2>3. ASSUME NEW r \in Readers
        PROVE  rfd'[r] # None => Whole(data[rfd[r]])'
    BY <1>1, <1>2, <2>1 DEF IInv, FilesWhole, TypeOK
  <2> QED BY <2>2, <2>3 DEF FilesWhole
<1>8. ReadsOneVersion'
  BY <1>1 DEF IInv, ReadsOneVersion, Blank
<1>9. TmpApart' /\ DiskApart'
  BY <1>1 DEF IInv, TmpApart, DiskApart
<1>10. OneWriter'
  BY <1>1, <1>6, WritersStable DEF Active, Running
<1>11. HandlersInStep'
  <2>1. HandlerInStep(c)'
    BY <1>1, <1>2, <1>3, <1>4, <1>6 DEF HandlerInStep, Tmp, Version, TypeOK
  <2>2. ASSUME NEW d \in Calls, d # c PROVE HandlerInStep(d)'
    BY <1>1, <1>5, <1>6, <2>2, OtherHandler DEF Tmp
  <2> QED BY <2>1, <2>2 DEF HandlersInStep
<1> QED BY <1>7, <1>8, <1>9, <1>10, <1>11

(* The rename gives the temporary inode to the path: by now it holds all   *)
(* of the stream and is on disk.                                           *)
LEMMA RenameFinalInv ==
  ASSUME IInv, Sound, NEW c \in Calls, RenameFinal(c)
  PROVE  FilesWhole' /\ ReadsOneVersion' /\ TmpApart' /\ DiskApart'
         /\ OneWriter' /\ HandlersInStep'
<1> DEFINE p == req[c].path
           t == TmpOf[p]
<1>1. TypeOK /\ pc[c] = "synced" /\ Active(c) /\ p \in Paths
  BY DEF RenameFinal, IInv, Active, Running, TypeOK
<1>2. PICK i \in Inodes : i = dir[t] /\ i # None /\ data[i] = Version(c) /\ synced[i]
  BY <1>1, NameTypes DEF IInv, HandlersInStep, HandlerInStep, Tmp
<1>3. \A q \in Paths : q # t /\ (q # p => TmpOf[q] # t)
  BY <1>1, NameTypes
<1>4. /\ \A q \in Paths : dir[q] # i /\ pdir[q] # i
      /\ \A q \in Paths : q # p => dir[TmpOf[q]] # i
      /\ \A r \in Readers : rfd[r] # i
  BY <1>1, <1>2, HandlersApart DEF Tmp
<1>5. dir' = [dir EXCEPT ![p] = i, ![t] = None]
  BY <1>1, <1>2, <1>4 DEF RenameFinal, Moved, Tmp
<1>6. \A n \in Names : dir'[n] = IF n = t THEN None ELSE IF n = p THEN i ELSE dir[n]
  BY <1>1, <1>3, <1>5, NameTypes DEF TypeOK
<1>7. /\ pc' = [pc EXCEPT ![c] = "ok"]
      /\ UNCHANGED <<pdir, data, synced, req, pos, fd, rfd, got>>
  BY DEF RenameFinal, readVars
<1>8. \A d \in Calls : pc'[d] = IF d = c THEN "ok" ELSE pc[d]
  BY <1>1, <1>7 DEF TypeOK
<1>9. FilesWhole'
  <2>1. ASSUME NEW j \in Inodes, Whole(data[j])
        PROVE  Whole(data[j])'
    BY <1>7, <1>8, <2>1 DEF Whole, Version, Blank
  <2>2. Whole(data[i])'
    BY <1>2, <1>7, <1>8 DEF Whole, Version
  <2>3. ASSUME NEW q \in Paths
        PROVE  /\ dir'[q] # None => Whole(data[dir[q]])' /\ synced'[dir'[q]]
               /\ pdir'[q] # None => Whole(data[pdir[q]])' /\ synced'[pdir'[q]]
    <3>1. dir'[q] = IF q = p THEN i ELSE dir[q]
      BY <1>1, <1>3, <1>6, NameTypes
    <3> QED BY <1>1, <1>2, <1>7, <2>1, <2>2, <3>1, NameTypes DEF IInv, FilesWhole
  <2>4. ASSUME NEW r \in Readers
        PROVE  rfd'[r] # None => Whole(data[rfd[r]])'
    BY <1>1, <1>7, <2>1 DEF IInv, FilesWhole, TypeOK
  <2> QED BY <2>3, <2>4 DEF FilesWhole
<1>10. ReadsOneVersion'
  BY <1>7 DEF IInv, ReadsOneVersion, Blank
<1>11. TmpApart'
  <2>1. ASSUME NEW q \in Paths
        PROVE  /\ dir'[q] = (IF q = p THEN i ELSE dir[q])
               /\ dir'[TmpOf[q]] = (IF q = p THEN None ELSE dir[TmpOf[q]])
    BY <1>1, <1>3, <1>6, NameTypes
  <2> QED BY <1>4, <1>7, <2>1 DEF IInv, TmpApart
<1>12. DiskApart'
  BY <1>7 DEF IInv, DiskApart
<1>13. OneWriter'
  BY <1>7, <1>8, WritersStable DEF Active, Running
<1>14. HandlersInStep'
  <2>1. HandlerInStep(c)'
    BY <1>8 DEF HandlerInStep
  <2>2. ASSUME NEW d \in Calls, d # c PROVE HandlerInStep(d)'
    <3>1. Active(d) => dir'[Tmp(d)] = dir[Tmp(d)]
      <4> SUFFICES ASSUME Active(d) PROVE dir'[Tmp(d)] = dir[Tmp(d)]
        OBVIOUS
      <4>1. req[d].path \in Paths /\ req[d].path # p
        BY <1>1, <2>2 DEF IInv, OneWriter, TypeOK
      <4>2. Tmp(d) \in Names /\ Tmp(d) # t /\ Tmp(d) # p
        BY <1>1, <1>3, <4>1, NameTypes DEF Tmp
      <4> QED BY <1>6, <4>2
    <3> QED BY <1>7, <1>8, <2>2, <3>1, OtherHandler
  <2> QED BY <2>1, <2>2 DEF HandlersInStep
<1> QED BY <1>9, <1>10, <1>11, <1>12, <1>13, <1>14

(* Open and Create make an empty file on a free inode.                     *)
LEMMA CreateFileInv ==
  ASSUME IInv, Sound, NEW p \in Paths, CreateFile(p)
  PROVE  FilesWhole' /\ ReadsOneVersion' /\ TmpApart' /\ DiskApart'
         /\ OneWriter' /\ HandlersInStep'
<1>1. PICK i \in Inodes :
         /\ Free(i)
         /\ dir' = [dir EXCEPT ![p] = i]
         /\ data' = [data EXCEPT ![i] = Blank]
         /\ synced' = [synced EXCEPT ![i] = TRUE]
  BY DEF CreateFile
<1>2. TypeOK /\ UNCHANGED <<pdir, req, pc, pos, fd, rfd, got>> /\ i # None
  BY ConstantsAssumption DEF CreateFile, IInv, callVars, readVars
<1>3. \A n \in Names : dir'[n] = (IF n = p THEN i ELSE dir[n]) /\ dir[n] # i /\ pdir[n] # i
  BY <1>1, <1>2 DEF TypeOK, Free, Linked
<1>4. \A j \in Inodes : /\ data'[j] = (IF j = i THEN Blank ELSE data[j])
                        /\ synced'[j] = (IF j = i THEN TRUE ELSE synced[j])
  BY <1>1, <1>2 DEF TypeOK
<1>5. \A r \in Readers : rfd[r] # i
  BY <1>1 DEF Free, Opened
<1>6. FilesWhole'
  <2>1. ASSUME NEW j \in Inodes, Whole(data[j])
        PROVE  Whole(data[j])'
    BY <1>2, <1>4, <2>1 DEF Whole, Version, Blank
  <2>2. Whole(data[i])'
    BY <1>4 DEF Whole, Blank
  <2>3. ASSUME NEW q \in Paths
        PROVE  /\ dir'[q] # None => Whole(data[dir[q]])' /\ synced'[dir'[q]]
               /\ pdir'[q] # None => Whole(data[pdir[q]])' /\ synced'[pdir'[q]]
    <3>1. dir'[q] = IF q = p THEN i ELSE dir[q]
      BY <1>2, <1>3, NameTypes
    <3> QED BY <1>2, <1>4, <2>1, <2>2, <3>1, NameTypes DEF IInv, FilesWhole
  <2>4. ASSUME NEW r \in Readers
        PROVE  rfd'[r] # None => Whole(data[rfd[r]])'
    BY <1>2, <2>1 DEF IInv, FilesWhole, TypeOK
  <2> QED BY <2>3, <2>4 DEF FilesWhole
<1>7. ReadsOneVersion'
  BY <1>2 DEF IInv, ReadsOneVersion, Blank
<1>8. TmpApart'
  <2>1. ASSUME NEW q \in Paths
        PROVE  /\ dir'[q] = (IF q = p THEN i ELSE dir[q])
               /\ dir'[TmpOf[q]] = dir[TmpOf[q]] /\ dir[TmpOf[q]] # i
    BY <1>2, <1>3, NameTypes
  <2> QED BY <1>2, <2>1 DEF IInv, TmpApart
<1>9. DiskApart'
  BY <1>2 DEF IInv, DiskApart
<1>10. OneWriter'
  BY <1>2, WritersStable DEF Active
<1>11. HandlersInStep'
  <2>1. ASSUME NEW d \in Calls PROVE HandlerInStep(d)'
    <3>1. Tmp(d) \in Names /\ Tmp(d) # p
      BY <1>2, NameTypes DEF TypeOK, Tmp
    <3>2. dir'[Tmp(d)] = dir[Tmp(d)] /\ dir[Tmp(d)] # i
      BY <1>3, <3>1
    <3> QED BY <1>2, <1>4, <3>2, OtherHandler
  <2> QED BY <2>1 DEF HandlersInStep
<1> QED BY <1>6, <1>7, <1>8, <1>9, <1>10, <1>11

(* O_TRUNC on a file: no temporary inode is touched.                       *)
LEMMA TruncateFileInv ==
  ASSUME IInv, Sound, NEW p \in Paths, TruncateFile(p)
  PROVE  FilesWhole' /\ ReadsOneVersion' /\ TmpApart' /\ DiskApart'
         /\ OneWriter' /\ HandlersInStep'
<1>1. TypeOK
  BY DEF IInv
<1>2. PICK i \in Inodes : i = dir[p] /\ i # None
  BY <1>1, NameTypes DEF TruncateFile
<1>3. /\ data' = [data EXCEPT ![i] = Blank]
      /\ synced' = [synced EXCEPT ![i] = TRUE]
      /\ UNCHANGED <<dir, pdir, req, pc, pos, fd, rfd, got>>
  BY <1>2 DEF TruncateFile, callVars, readVars
<1>4. \A j \in Inodes : /\ data'[j] = (IF j = i THEN Blank ELSE data[j])
                        /\ synced'[j] = (IF j = i THEN TRUE ELSE synced[j])
  BY <1>1, <1>3 DEF TypeOK
<1>5. FilesWhole'
  <2>1. ASSUME NEW j \in Inodes, Whole(data[j])
        PROVE  Whole(data[j])'
    BY <1>3, <1>4, <2>1 DEF Whole, Version, Blank
  <2>2. ASSUME NEW q \in Paths
        PROVE  /\ dir'[q] # None => Whole(data[dir[q]])' /\ synced'[dir'[q]]
               /\ pdir'[q] # None => Whole(data[pdir[q]])' /\ synced'[pdir'[q]]
    BY <1>1, <1>3, <1>4, <2>1, NameTypes DEF IInv, FilesWhole
  <2>3. ASSUME NEW r \in Readers
        PROVE  rfd'[r] # None => Whole(data[rfd[r]])'
    BY <1>1, <1>3, <2>1 DEF IInv, FilesWhole, TypeOK
  <2> QED BY <2>2, <2>3 DEF FilesWhole
<1>6. ReadsOneVersion'
  BY <1>3 DEF IInv, ReadsOneVersion, Blank
<1>7. TmpApart' /\ DiskApart'
  BY <1>3 DEF IInv, TmpApart, DiskApart
<1>8. OneWriter'
  BY <1>3, WritersStable DEF Active
<1>9. HandlersInStep'
  <2>1. ASSUME NEW d \in Calls PROVE HandlerInStep(d)'
    <3>1. Active(d) => dir[Tmp(d)] # i
      BY <1>2, HandlersApart DEF IInv, TypeOK, HandlersInStep, Tmp, TmpApart
    <3> QED BY <1>3, <1>4, <3>1, OtherHandler DEF Tmp
  <2> QED BY <2>1 DEF HandlersInStep
<1> QED BY <1>5, <1>6, <1>7, <1>8, <1>9

(* Unlink, Rename and Link only rearrange the inodes under the paths.      *)
LEMMA PathsRearrangedInv ==
  ASSUME IInv, Sound, UNCHANGED <<pdir, data, synced, req, pc, pos, fd, rfd, got>>,
         \A q \in Paths : \/ dir'[q] = None
                          \/ \E s \in Paths : dir'[q] = dir[s],
         \A q \in Paths : dir'[TmpOf[q]] = dir[TmpOf[q]]
  PROVE  FilesWhole' /\ ReadsOneVersion' /\ TmpApart' /\ DiskApart'
         /\ OneWriter' /\ HandlersInStep'
<1>1. TypeOK
  BY DEF IInv
<1>2. FilesWhole'
  <2>1. ASSUME NEW j \in Inodes, Whole(data[j])
        PROVE  Whole(data[j])'
    BY <2>1 DEF Whole, Version, Blank
  <2>2. ASSUME NEW q \in Paths
        PROVE  /\ dir'[q] # None => Whole(data[dir[q]])' /\ synced'[dir'[q]]
               /\ pdir'[q] # None => Whole(data[pdir[q]])' /\ synced'[pdir'[q]]
    BY <1>1, <2>1, NameTypes DEF IInv, FilesWhole
  <2>3. ASSUME NEW r \in Readers
        PROVE  rfd'[r] # None => Whole(data[rfd[r]])'
    BY <1>1, <2>1 DEF IInv, FilesWhole, TypeOK
  <2> QED BY <2>2, <2>3 DEF FilesWhole
<1>3. ReadsOneVersion'
  BY DEF IInv, ReadsOneVersion, Blank
<1>4. TmpApart' /\ DiskApart'
  BY DEF IInv, TmpApart, DiskApart
<1>5. OneWriter'
  BY WritersStable DEF Active
<1>6. HandlersInStep'
  <2>1. ASSUME NEW d \in Calls PROVE HandlerInStep(d)'
    <3>1. dir'[Tmp(d)] = dir[Tmp(d)]
      BY <1>1 DEF TypeOK, Tmp
    <3> QED BY <3>1, OtherHandler
  <2> QED BY <2>1 DEF HandlersInStep
<1> QED BY <1>2, <1>3, <1>4, <1>5, <1>6

LEMMA DirectoryInv ==
  ASSUME IInv, Sound, NEW p \in Paths, NEW q \in Paths,
         Unlink(p) \/ Rename(p, q) \/ Link(p, q)
  PROVE  FilesWhole' /\ ReadsOneVersion' /\ TmpApart' /\ DiskApart'
         /\ OneWriter' /\ HandlersInStep'
<1>1. TypeOK
  BY DEF IInv
<1>2. UNCHANGED <<pdir, data, synced, req, pc, pos, fd, rfd, got>>
  BY DEF Unlink, Rename, Link, callVars, readVars
<1>3. \/ dir' = dir
      \/ dir' = [dir EXCEPT ![p] = None]
      \/ dir' = [dir EXCEPT ![q] = dir[p], ![p] = None]
      \/ dir' = [dir EXCEPT ![q] = dir[p]]
  BY DEF Unlink, Rename, Link, Moved
<1>4. \A s \in Paths : dir'[s] \in {None, dir[s], dir[p]}
  BY <1>1, <1>3, NameTypes DEF TypeOK
<1>5. \A s \in Paths : dir'[TmpOf[s]] = dir[TmpOf[s]]
  BY <1>1, <1>3, NameTypes DEF TypeOK
<1> QED BY <1>2, <1>4, <1>5, PathsRearrangedInv

(* A reader opens what a path names, and sends a prefix of it.             *)
LEMMA ReadInv ==
  ASSUME IInv, Sound, NEW r \in Readers,
         \/ ReadPread(r)
         \/ \E p \in Paths, n \in 0..MaxLen : ReadOpen(r, p, n)
  PROVE  FilesWhole' /\ ReadsOneVersion' /\ TmpApart' /\ DiskApart'
         /\ OneWriter' /\ HandlersInStep'
<1>1. TypeOK /\ UNCHANGED <<dir, pdir, data, synced, req, pc, pos, fd>>
  BY DEF IInv, ReadPread, ReadOpen, fsVars, callVars
<1>2. \/ rfd' = [rfd EXCEPT ![r] = None]
      \/ \E p \in Paths : dir[p] # None /\ rfd' = [rfd EXCEPT ![r] = dir[p]]
  BY DEF ReadPread, ReadOpen
<1>3. \A s \in Readers : \/ rfd'[s] \in {rfd[s], None}
                         \/ \E p \in Paths : dir[p] # None /\ rfd'[s] = dir[p]
  BY <1>1, <1>2 DEF TypeOK
<1>4. FilesWhole'
  <2>1. ASSUME NEW j \in Inodes, Whole(data[j])
        PROVE  Whole(data[j])'
    BY <1>1, <2>1 DEF Whole, Version, Blank
  <2>2. ASSUME NEW q \in Paths
        PROVE  /\ dir'[q] # None => Whole(data[dir[q]])' /\ synced'[dir'[q]]
               /\ pdir'[q] # None => Whole(data[pdir[q]])' /\ synced'[pdir'[q]]
    BY <1>1, <2>1, NameTypes DEF IInv, FilesWhole
  <2>3. ASSUME NEW s \in Readers
        PROVE  rfd'[s] # None => Whole(data[rfd[s]])'
    BY <1>1, <1>3, <2>1, NameTypes DEF IInv, FilesWhole, TypeOK
  <2> QED BY <2>2, <2>3 DEF FilesWhole
<1>5. ReadsOneVersion'
  <2>1. CASE ReadPread(r)
    <3> DEFINE g == FirstOf(data[rfd[r]], rsize[r])
    <3>1. rfd[r] # None /\ got' = [got EXCEPT ![r] = g] /\ rsize[r] \in 0..MaxLen
      BY <1>1, <2>1 DEF ReadPread, TypeOK
    <3>4. Whole(data[rfd[r]])
      BY <3>1 DEF IInv, FilesWhole
    <3>2. g = Blank \/ \E c \in Calls : \E m \in 0..req[c].len : g = Prefix(c, m)
      BY <1>1, <3>1, <3>4, PrefixOfWhole
    <3>3. \A s \in Readers : got'[s] = IF s = r THEN g ELSE got[s]
      BY <1>1, <3>1 DEF TypeOK
    <3> HIDE DEF g
    <3> QED BY <1>1, <3>2, <3>3 DEF IInv, ReadsOneVersion, Blank
  <2>2. CASE \E p \in Paths, n \in 0..MaxLen : ReadOpen(r, p, n)
    <3>1. got' = got
      BY <2>2 DEF ReadOpen
    <3> QED BY <1>1, <3>1 DEF IInv, ReadsOneVersion, Blank
  <2> QED BY <2>1, <2>2
<1>6. TmpApart' /\ DiskApart'
  BY <1>1, <1>3 DEF IInv, TmpApart, DiskApart
<1>7. OneWriter'
  BY <1>1, WritersStable DEF Active
<1>8. HandlersInStep'
  BY <1>1, OtherHandler DEF HandlersInStep, Tmp
<1> QED BY <1>4, <1>5, <1>6, <1>7, <1>8

(* The process ends: the files stay, or fall back to what the disk has,    *)
(* and nothing is open any more.                                           *)
LEMMA ProcessEndsInv ==
  ASSUME IInv, Sound, Crash \/ PowerLoss \/ \E c \in Calls : TerminateOnWrite(c)
  PROVE  FilesWhole' /\ ReadsOneVersion' /\ TmpApart' /\ DiskApart'
         /\ OneWriter' /\ HandlersInStep'
<1>1. TypeOK /\ ProcessEnds /\ UNCHANGED <<pdir, req, got>>
  BY DEF IInv, Crash, PowerLoss, TerminateOnWrite, ProcessEnds, fsVars
<1>2. /\ \A d \in Calls : ~Active(d)' /\ fd'[d] = None
      /\ \A r \in Readers : rfd'[r] = None
  BY <1>1, ProcessEndsType
<1>3. \A d \in Calls : /\ pc[d] = "ok" => pc'[d] = "ok"
                       /\ pc'[d] = "idle" => pc[d] = "idle"
  BY <1>1 DEF ProcessEnds, Active, Running
<1>4. dir' = dir \/ dir' = pdir
  BY DEF Crash, PowerLoss, TerminateOnWrite, fsVars
<1>5. \A j \in Inodes : synced[j] => data'[j] = data[j] /\ synced'[j]
  <2>1. CASE PowerLoss
    BY <1>1, <2>1 DEF PowerLoss, TypeOK, Contents
  <2>2. CASE ~PowerLoss
    BY <2>2 DEF Crash, TerminateOnWrite, fsVars
  <2> QED BY <2>1, <2>2
<1>6. FilesWhole'
  <2>1. ASSUME NEW j \in Inodes, Whole(data[j]), synced[j]
        PROVE  Whole(data[j])' /\ synced'[j]
    BY <1>1, <1>3, <1>5, <2>1 DEF Whole, Version, Blank
  <2>2. ASSUME NEW q \in Paths, NEW j \in Inodes, j \in {dir'[q], pdir'[q]}
        PROVE  Whole(data[j]) /\ synced[j]
    BY <1>1, <1>4, <2>2, ConstantsAssumption DEF IInv, FilesWhole
  <2>3. \A q \in Paths : dir'[q] \in Inodes \cup {None} /\ pdir'[q] \in Inodes \cup {None}
    BY <1>1, <1>4, NameTypes
  <2>4. ASSUME NEW q \in Paths, dir'[q] # None
        PROVE  Whole(data[dir[q]])' /\ synced'[dir'[q]]
    <3>1. PICK j \in Inodes : j = dir'[q]
      BY <2>3, <2>4
    <3> QED BY <2>1, <2>2, <3>1
  <2>5. ASSUME NEW q \in Paths, pdir'[q] # None
        PROVE  Whole(data[pdir[q]])' /\ synced'[pdir'[q]]
    <3>1. PICK j \in Inodes : j = pdir'[q]
      BY <2>3, <2>5
    <3> QED BY <2>1, <2>2, <3>1
  <2> QED BY <1>2, <2>4, <2>5 DEF FilesWhole
<1>7. ReadsOneVersion'
  BY <1>1 DEF IInv, ReadsOneVersion, Blank
<1>8. TmpApart' /\ DiskApart'
  BY <1>1, <1>2, <1>4 DEF IInv, TmpApart, DiskApart
<1>9. OneWriter'
  BY <1>2 DEF OneWriter
<1>10. HandlersInStep'
  <2>1. ASSUME NEW d \in Calls PROVE HandlerInStep(d)'
    <3>1. pc'[d] \notin Running
      BY <1>2 DEF Active
    <3>2. pc'[d] = "idle" => fd'[d] = None /\ pos'[d] = 0
      BY <1>1, <1>2, <1>3 DEF IInv, HandlersInStep, HandlerInStep, ProcessEnds
    <3> QED BY <3>1, <3>2 DEF HandlerInStep, Running
  <2> QED BY <2>1 DEF HandlersInStep
<1> QED BY <1>6, <1>7, <1>8, <1>9, <1>10

(* Start-up takes the temporary names out of the directory. *)
LEMMA RestartInv ==
  ASSUME IInv, Sound, Restart
  PROVE  FilesWhole' /\ ReadsOneVersion' /\ TmpApart' /\ DiskApart'
         /\ OneWriter' /\ HandlersInStep'
<1>1. /\ TypeOK
      /\ UNCHANGED <<pdir, data, synced, req, pc, pos, fd, rfd, got>>
      /\ \A n \in Names : dir'[n] = IF n \in TmpNames THEN None ELSE dir[n]
  BY DEF IInv, Restart, callVars, readVars
<1>2. \A p \in Paths : dir'[p] = dir[p] /\ dir'[TmpOf[p]] = None
  BY <1>1, NameTypes
<1>3. \A d \in Calls : ~Active(d)
  BY <1>1 DEF Restart, TypeOK
<1>4. FilesWhole'
  <2>1. ASSUME NEW j \in Inodes, Whole(data[j])
        PROVE  Whole(data[j])'
    BY <1>1, <2>1 DEF Whole, Version, Blank
  <2>2. ASSUME NEW q \in Paths
        PROVE  /\ dir'[q] # None => Whole(data[dir[q]])' /\ synced'[dir'[q]]
               /\ pdir'[q] # None => Whole(data[pdir[q]])' /\ synced'[pdir'[q]]
    BY <1>1, <1>2, <2>1, NameTypes DEF IInv, FilesWhole
  <2>3. ASSUME NEW r \in Readers
        PROVE  rfd'[r] # None => Whole(data[rfd[r]])'
    BY <1>1, <2>1 DEF IInv, FilesWhole, TypeOK
  <2> QED BY <2>2, <2>3 DEF FilesWhole
<1>5. ReadsOneVersion'
  BY <1>1 DEF IInv, ReadsOneVersion, Blank
<1>6. TmpApart' /\ DiskApart'
  BY <1>1, <1>2 DEF IInv, TmpApart, DiskApart
<1>7. OneWriter'
  BY <1>1, WritersStable DEF Active
<1>8. HandlersInStep'
  BY <1>1, <1>3, OtherHandler DEF HandlersInStep
<1> QED BY <1>4, <1>5, <1>6, <1>7, <1>8

(* The disk takes over the directory, which is apart already. *)
LEMMA SyncDirInv ==
  ASSUME IInv, Sound, SyncDir
  PROVE  FilesWhole' /\ ReadsOneVersion' /\ TmpApart' /\ DiskApart'
         /\ OneWriter' /\ HandlersInStep'
<1>1. TypeOK /\ pdir' = dir /\ UNCHANGED <<dir, data, synced, req, pc, pos, fd, rfd, got>>
  BY DEF IInv, SyncDir, callVars, readVars
<1>2. FilesWhole'
  BY <1>1 DEF IInv, FilesWhole, Whole, Version, Blank
<1>3. ReadsOneVersion'
  BY <1>1 DEF IInv, ReadsOneVersion, Blank
<1>4. TmpApart' /\ DiskApart'
  BY <1>1 DEF IInv, TmpApart, DiskApart
<1>5. OneWriter'
  BY <1>1, WritersStable DEF Active
<1>6. HandlersInStep'
  BY <1>1, OtherHandler DEF HandlersInStep, Tmp
<1> QED BY <1>2, <1>3, <1>4, <1>5, <1>6

LEMMA InvNext ==
  ASSUME IInv, Sound, [Next]_vars
  PROVE  IInv'
<1> DEFINE Rest == /\ FilesWhole /\ ReadsOneVersion /\ TmpApart /\ DiskApart
                   /\ OneWriter /\ HandlersInStep
<1>1. TypeOK'
  BY TypeNext DEF IInv
<1>2. CASE UNCHANGED vars
  <2>1. UNCHANGED <<dir, pdir, data, synced, req, pc, pos, fd, rfd, got>>
    BY <1>2 DEF vars
  <2>2. Rest'
    BY <2>1, FilesStable, WritersStable, OtherHandler DEF fsVars, Active, HandlersInStep, Tmp
  <2> QED BY <1>1, <2>2 DEF IInv
<1>3. ASSUME NEW c \in Calls, StartWriteback(c) PROVE Rest'
  BY <1>3, StartWritebackInv
<1>4. ASSUME NEW c \in Calls, HandlerStep(c) PROVE Rest'
  BY <1>4, OpenTmpInv, WriteChunkInv, QuietStepInv, FsyncCloseInv, RenameFinalInv,
     ProcessEndsInv DEF HandlerStep
<1>5. ASSUME NEW c \in Calls, HandlerFault(c) PROVE Rest'
  <2>1. ~ShortWrite(c) /\ ~BreakStream(c) /\ ~FsyncFails(c)
    BY DEF Sound, ShortWrite, BreakStream, FsyncFails
  <2> QED BY <1>5, <2>1, QuietStepInv DEF HandlerFault
<1>6. ASSUME NEW p \in Paths, PathOp(p) PROVE Rest'
  <2>1. CASE CreateFile(p) \/ TruncateFile(p)
    BY <2>1, CreateFileInv, TruncateFileInv
  <2>2. CASE Unlink(p) \/ \E q \in Paths : Rename(p, q) \/ Link(p, q)
    BY <2>2, DirectoryInv
  <2>3. CASE \E r \in Readers, n \in 0..MaxLen : ReadOpen(r, p, n)
    BY <2>3, ReadInv
  <2> QED BY <1>6, <2>1, <2>2, <2>3 DEF PathOp
<1>7. ASSUME NEW r \in Readers, ReadPread(r) PROVE Rest'
  BY <1>7, ReadInv
<1>8. ASSUME Crash \/ PowerLoss PROVE Rest'
  BY <1>8, ProcessEndsInv
<1>9. ASSUME Restart \/ SyncDir PROVE Rest'
  BY <1>9, RestartInv, SyncDirInv
<1> QED BY <1>1, <1>2, <1>3, <1>4, <1>5, <1>6, <1>7, <1>8, <1>9 DEF Next, IInv

(* Where no failure passes the handler unnoticed, the files and the reads  *)
(* are whole in every state.                                               *)
THEOREM Invariant == Sound => (Spec => []IInv)
<1> SUFFICES ASSUME Sound PROVE Spec => []IInv
  OBVIOUS
<1>1. Init => IInv
  BY InvInit
<1>2. IInv /\ [Next]_vars => IInv'
  BY InvNext
<1> QED BY <1>1, <1>2, PTL DEF Spec

-----------------------------------------------------------------------------
(* What the server promises. *)

(* No path ever names a file that is cut short or mixed, whatever handlers *)
(* are under way and wherever a crash or a power loss falls.               *)
THEOREM FilesAreWhole == Sound => (Spec => []FinalWhole)
<1> SUFFICES ASSUME Sound PROVE Spec => []FinalWhole
  OBVIOUS
<1>1. Spec => []IInv
  BY Invariant
<1>2. IInv => FinalWhole
  BY DEF IInv, FilesWhole, FinalWhole
<1> QED BY <1>1, <1>2, PTL

(* No ReadFile sends parts of two versions, whatever replaces, moves or    *)
(* removes the file between its open and its pread.                        *)
THEOREM ReadsAreConsistent == Sound => (Spec => []ReadsOneVersion)
<1> SUFFICES ASSUME Sound PROVE Spec => []ReadsOneVersion
  OBVIOUS
<1>1. Spec => []IInv
  BY Invariant
<1>2. IInv => ReadsOneVersion
  BY DEF IInv
<1> QED BY <1>1, <1>2, PTL

(* A step that answers a Writeback ok is its rename, and gives the path    *)
(* the whole of what was sent.                                             *)
LEMMA AckIsCommit ==
  ASSUME IInv, Sound, "rename" \notin Faults, Next,
         NEW c \in Calls, pc[c] # "ok", pc'[c] = "ok"
  PROVE  /\ dir'[req[c].path] # None
         /\ data'[dir'[req[c].path]] = Version(c)
<1>1. TypeOK
  BY DEF IInv
<1>2. ASSUME NEW d \in Calls, StartWriteback(d) \/ HandlerStep(d) \/ HandlerFault(d)
      PROVE  RenameFinal(c)
  <2>1. CASE RenameFinal(d)
    <3>1. d = c
      BY <1>1, <2>1 DEF RenameFinal, TypeOK
    <3> QED BY <2>1, <3>1
  <2>2. CASE TerminateOnWrite(d)
    BY <2>2 DEF TerminateOnWrite, ProcessEnds, Active
  <2>3. CASE RenameFails(d)
    BY <2>3 DEF RenameFails
  <2>4. CASE OpenTmp(d) \/ WriteChunk(d) \/ ShortWrite(d)
    BY <2>4 DEF OpenTmp, WriteChunk, ShortWrite
  <2>5. CASE \/ StartWriteback(d) \/ EndOfStream(d) \/ FsyncClose(d) \/ OpenTmpFails(d)
             \/ WriteFails(d) \/ BreakStream(d) \/ BreakBeforeFirst(d) \/ FsyncFails(d)
    BY <1>1, <2>5 DEF StartWriteback, EndOfStream, FsyncClose, OpenTmpFails, WriteFails,
       BreakStream, BreakBeforeFirst, FsyncFails, TypeOK
  <2> QED BY <1>2, <2>1, <2>2, <2>3, <2>4, <2>5 DEF HandlerStep, HandlerFault
<1>3. ~(\E p \in Paths : PathOp(p)) /\ ~(\E r \in Readers : ReadPread(r))
  BY DEF PathOp, CreateFile, TruncateFile, Unlink, Rename, Link, ReadOpen, ReadPread, callVars
<1>4. ~Crash /\ ~PowerLoss /\ ~Restart /\ ~SyncDir
  BY DEF Crash, PowerLoss, Restart, SyncDir, ProcessEnds, Active, callVars
<1>5. RenameFinal(c)
  BY <1>2, <1>3, <1>4 DEF Next
<1> DEFINE p == req[c].path
<1>6. Active(c) /\ p \in Paths /\ p \in Names
  BY <1>1, <1>5, NameTypes DEF RenameFinal, Active, Running, TypeOK
<1>7. PICK i \in Inodes : i = dir[Tmp(c)] /\ i # None /\ data[i] = Version(c)
  BY <1>1, <1>5, <1>6, NameTypes
  DEF RenameFinal, IInv, HandlersInStep, HandlerInStep, Tmp
<1>8. dir[p] # i /\ Tmp(c) # p
  BY <1>1, <1>6, <1>7, HandlersApart, NameTypes DEF Tmp
<1>9. dir' = [dir EXCEPT ![p] = i, ![Tmp(c)] = None] /\ data' = data
  BY <1>5, <1>7, <1>8 DEF RenameFinal, Moved
<1>10. dir'[p] = i
  BY <1>1, <1>6, <1>8, <1>9 DEF TypeOK
<1> QED BY <1>7, <1>9, <1>10

(* If the rename itself does not fail, ok means that the file is there. *)
THEOREM AnswersAreHonest ==
  Sound /\ "rename" \notin Faults => (Spec => AckedCommitted)
<1> SUFFICES ASSUME Sound, "rename" \notin Faults PROVE Spec => AckedCommitted
  OBVIOUS
<1>1. Spec => []IInv
  BY Invariant
<1>2. IInv /\ [Next]_vars =>
        [\A c \in Calls : pc[c] # "ok" /\ pc'[c] = "ok" =>
           /\ dir'[req[c].path] # None
           /\ data'[dir'[req[c].path]] = Version(c)]_vars
  BY AckIsCommit
<1> QED BY <1>1, <1>2, PTL DEF Spec, AckedCommitted

-----------------------------------------------------------------------------
(***************************************************************************)
(* The server implements the store of whole files of AtomicFiles, for      *)
(* every number of paths, calls, readers, inodes and chunks, through       *)
(* crashes and power losses, when no failure passes the handler unnoticed. *)
(***************************************************************************)

(* What a file with contents x shows, when the calls are those of r. *)
View(x, r) ==
    IF x = Blank THEN NoData
    ELSE IF \E c \in Calls : x = Prefix(c, r[c].len)
         THEN CHOOSE c \in Calls : x = Prefix(c, r[c].len)
    ELSE x

(* What a name bound to inode i shows; and so the state of AtomicFiles. *)
Face(i) == IF i = None THEN None ELSE View(data[i], req)

FileView == [p \in Paths |-> Face(dir[p])]
DiskView == [p \in Paths |-> Face(pdir[p])]
DoneView == {c \in Calls : pc[c] = "ok"}
TargetView == [c \in Calls |-> req[c].path]
ValueView == [c \in Calls |-> IF req[c].len = 0 THEN NoData ELSE c]

LEMMA Faces ==
  \A p \in Paths : Shown(dir, p) = Face(dir[p]) /\ Shown(pdir, p) = Face(pdir[p])
BY Zenon DEF Shown, Face, View, Version

LEMMA FacesNext ==
  \A p \in Paths : Shown(dir, p)' = Face(dir[p])' /\ Shown(pdir, p)' = Face(pdir[p])'
BY Zenon DEF Shown, Face, View, Version, Blank, Prefix

LEMMA Views ==
  /\ [p \in Paths |-> Shown(dir, p)] = FileView
  /\ [p \in Paths |-> Shown(pdir, p)] = DiskView
  /\ [p \in Paths |-> Shown(dir, p)]' = FileView'
  /\ [p \in Paths |-> Shown(pdir, p)]' = DiskView'
BY Faces, FacesNext DEF FileView, DiskView

Requests == [Calls -> [path : Paths, len : 0..MaxLen]]

LEMMA ViewOfBlank == ASSUME NEW r PROVE View(Blank, r) = NoData
BY DEF View

(* The contents tell which Writeback sent them, unless it sent nothing. *)
LEMMA ViewOfVersion ==
  ASSUME NEW r \in Requests, NEW c \in Calls
  PROVE  View(Prefix(c, r[c].len), r) = IF r[c].len = 0 THEN NoData ELSE c
<1> USE ConstantsAssumption
<1> DEFINE x == Prefix(c, r[c].len)
<1>1. r[c].len \in 0..MaxLen /\ \A d \in Calls : r[d].len \in 0..MaxLen
  BY DEF Requests
<1>2. CASE r[c].len = 0
  BY <1>2, PrefixZero, ViewOfBlank
<1>3. CASE r[c].len # 0
  <2>1. 1 \in Pos /\ x[1] = c
    BY <1>1, <1>3 DEF Prefix, Pos
  <2>2. x # Blank
    BY <2>1 DEF Blank
  <2>3. \A d \in Calls : x = Prefix(d, r[d].len) => d = c
    <3> SUFFICES ASSUME NEW d \in Calls, x = Prefix(d, r[d].len) PROVE d = c
      OBVIOUS
    <3>1. Prefix(d, r[d].len)[1] \in {d, NoData}
      BY <2>1 DEF Prefix
    <3> QED BY <2>1, <3>1
  <2>4. (CHOOSE d \in Calls : x = Prefix(d, r[d].len)) = c
    <3> HIDE DEF x
    <3>1. c \in Calls /\ x = Prefix(c, r[c].len)
      BY DEF x
    <3> QED BY <2>3, <3>1
  <2> QED BY <1>3, <2>2, <2>4 DEF View
<1> QED BY <1>2, <1>3

LEMMA ViewOfWhole ==
  ASSUME TypeOK, NEW x, Whole(x)
  PROVE  View(x, req) # None
<1>1. req \in Requests
  BY DEF TypeOK, Requests
<1>2. CASE x = Blank
  BY <1>2, ViewOfBlank, ConstantsAssumption
<1>3. CASE \E c \in Calls : x = Version(c)
  BY <1>1, <1>3, ViewOfVersion, ConstantsAssumption DEF Version
<1> QED BY <1>2, <1>3 DEF Whole

(* A path shows something exactly if it names a file. *)
LEMMA Present ==
  ASSUME IInv
  PROVE  /\ \A p \in Paths : Face(dir[p]) = None <=> dir[p] = None
         /\ \A p \in Paths : Face(pdir[p]) = None <=> pdir[p] = None
BY ViewOfWhole DEF Face, IInv, FilesWhole

-----------------------------------------------------------------------------
(* The actions of AtomicFiles in terms of the views. *)

AbstractStep == [Abstract!Next]_(Abstract!vars)

LEMMA AStutter ==
  ASSUME UNCHANGED <<FileView, DiskView, DoneView, req>>
  PROVE  AbstractStep
<1>1. UNCHANGED <<TargetView, ValueView>>
  BY DEF TargetView, ValueView
<1> QED BY <1>1, Views DEF AbstractStep, Abstract!vars, DoneView, TargetView, ValueView

LEMMA APut ==
  ASSUME NEW c \in Calls, c \notin DoneView, DoneView' = DoneView \cup {c},
         FileView' = [FileView EXCEPT ![req[c].path] = IF req[c].len = 0 THEN NoData ELSE c],
         UNCHANGED <<DiskView, req>>
  PROVE  AbstractStep
<1>1. UNCHANGED <<TargetView, ValueView>> /\ TargetView[c] = req[c].path
      /\ ValueView[c] = IF req[c].len = 0 THEN NoData ELSE c
  BY DEF TargetView, ValueView
<1>2. Abstract!Put(c)
  BY <1>1, Views DEF Abstract!Put, DoneView, TargetView, ValueView
<1> QED BY <1>2 DEF AbstractStep, Abstract!Next

LEMMA APathStep ==
  ASSUME NEW p \in Paths, NEW q \in Paths,
         \/ FileView[p] = None /\ FileView' = [FileView EXCEPT ![p] = NoData]
         \/ FileView' = [FileView EXCEPT ![p] = None]
         \/ FileView[p] # None /\ FileView' = [FileView EXCEPT ![q] = FileView[p], ![p] = None]
         \/ FileView[p] # None /\ FileView[q] = None
              /\ FileView' = [FileView EXCEPT ![q] = FileView[p]],
         UNCHANGED <<DiskView, DoneView, req>>
  PROVE  AbstractStep
<1>1. UNCHANGED <<TargetView, ValueView>>
  BY DEF TargetView, ValueView
<1>2. Abstract!Create(p) \/ Abstract!Unlink(p) \/ Abstract!Rename(p, q) \/ Abstract!Link(p, q)
  BY <1>1, Views DEF Abstract!Create, Abstract!Unlink, Abstract!Rename, Abstract!Link,
                     DoneView, TargetView, ValueView
<1> QED BY <1>2 DEF AbstractStep, Abstract!Next

LEMMA ATruncate ==
  ASSUME NEW S \in SUBSET Paths, NEW T \in SUBSET Paths,
         \A p, q \in S : FileView[p] = FileView[q] /\ FileView[p] # None,
         \A p \in T : DiskView[p] # None,
         FileView' = [p \in Paths |-> IF p \in S THEN NoData ELSE FileView[p]],
         DiskView' = [p \in Paths |-> IF p \in T THEN NoData ELSE DiskView[p]],
         UNCHANGED <<DoneView, req>>
  PROVE  AbstractStep
<1>1. UNCHANGED <<TargetView, ValueView>>
  BY DEF TargetView, ValueView
<1>2. Abstract!Truncate(S, T)
  BY <1>1, Views DEF Abstract!Truncate, DoneView, TargetView, ValueView
<1> QED BY <1>2 DEF AbstractStep, Abstract!Next

LEMMA ADisk ==
  ASSUME \/ DiskView' = FileView /\ FileView' = FileView
         \/ FileView' = DiskView /\ DiskView' = DiskView,
         UNCHANGED <<DoneView, req>>
  PROVE  AbstractStep
<1>1. UNCHANGED <<TargetView, ValueView>>
  BY DEF TargetView, ValueView
<1>2. Abstract!Sync \/ Abstract!PowerLoss
  BY <1>1, Views DEF Abstract!Sync, Abstract!PowerLoss, DoneView, TargetView, ValueView
<1> QED BY <1>2 DEF AbstractStep, Abstract!Next

-----------------------------------------------------------------------------
(* Every step of the server is a step of AtomicFiles or none. *)

(* Neither the names of the paths nor what is in their files changes. *)
LEMMA FilesKept ==
  ASSUME req' = req, DoneView' = DoneView,
         \A p \in Paths : /\ dir'[p] = dir[p] /\ pdir'[p] = pdir[p]
                          /\ dir[p] # None => data'[dir[p]] = data[dir[p]]
                          /\ pdir[p] # None => data'[pdir[p]] = data[pdir[p]]
  PROVE  AbstractStep
<1>1. \A p \in Paths : Face(dir[p])' = Face(dir[p]) /\ Face(pdir[p])' = Face(pdir[p])
  BY DEF Face
<1>2. UNCHANGED <<FileView, DiskView>>
  BY <1>1 DEF FileView, DiskView
<1> QED BY <1>2, AStutter

LEMMA ServerStill ==
  ASSUME IInv, Sound, UNCHANGED <<fsVars, req>>,
         \/ \E c \in Calls : pc[c] # "ok" /\ pc' = [pc EXCEPT ![c] = pc'[c]] /\ pc'[c] # "ok"
         \/ ProcessEnds
         \/ pc' = pc
  PROVE  AbstractStep
<1>1. DoneView' = DoneView
  BY DEF DoneView, ProcessEnds, Active, Running, IInv, TypeOK
<1> QED BY <1>1, FilesKept DEF fsVars

LEMMA TmpStep ==
  ASSUME IInv, Sound, NEW c \in Calls, OpenTmp(c) \/ WriteChunk(c) \/ FsyncClose(c)
  PROVE  AbstractStep
<1>1. TypeOK /\ Active(c) /\ pc[c] # "ok"
  BY DEF IInv, OpenTmp, WriteChunk, FsyncClose, Active, Running
<1>2. req' = req /\ pdir' = pdir /\ DoneView' = DoneView
  BY <1>1 DEF OpenTmp, WriteChunk, FsyncClose, DoneView, TypeOK
<1>3. req[c].path \in Paths /\ Tmp(c) \in TmpNames
  BY <1>1, NameTypes DEF TypeOK, Tmp
<1>4. \A p \in Paths : p # Tmp(c) /\ p \in Names
  BY <1>3, ConstantsAssumption DEF Sound
<1>5. \A p \in Paths : dir'[p] = dir[p]
  BY <1>1, <1>4 DEF OpenTmp, WriteChunk, FsyncClose, TypeOK
<1>6. PICK i \in Inodes : /\ i = dir[Tmp(c)] \/ Free(i)
                          /\ \A j \in Inodes : j # i => data'[j] = data[j]
  <2>1. CASE OpenTmp(c)
    BY <1>1, <2>1 DEF OpenTmp, TypeOK
  <2>2. CASE WriteChunk(c) \/ FsyncClose(c)
    <3>1. fd[c] \in Inodes /\ fd[c] = dir[Tmp(c)]
      BY <1>1, <2>2 DEF WriteChunk, FsyncClose, IInv, HandlersInStep, HandlerInStep, TypeOK
    <3> QED BY <1>1, <2>2, <3>1 DEF WriteChunk, FsyncClose, TypeOK
  <2> QED BY <2>1, <2>2
<1>7. \A p \in Paths : dir[p] # i /\ pdir[p] # i
  <2>1. CASE i = dir[Tmp(c)]
    BY <1>1, <2>1, HandlersApart
  <2>2. CASE Free(i)
    BY <1>4, <2>2 DEF Free, Linked
  <2> QED BY <1>6, <2>1, <2>2
<1>8. \A p \in Paths : /\ dir[p] # None => data'[dir[p]] = data[dir[p]]
                       /\ pdir[p] # None => data'[pdir[p]] = data[pdir[p]]
  BY <1>1, <1>6, <1>7, NameTypes
<1> QED BY <1>2, <1>5, <1>8, FilesKept

(* The rename of the temporary file is where a Writeback takes effect. *)
LEMMA RenameStep ==
  ASSUME IInv, Sound, NEW c \in Calls, RenameFinal(c)
  PROVE  AbstractStep
<1> DEFINE p == req[c].path
<1>1. TypeOK /\ pc[c] = "synced" /\ Active(c) /\ p \in Paths
  BY DEF RenameFinal, IInv, Active, Running, TypeOK
<1>2. PICK i \in Inodes : i = dir[Tmp(c)] /\ i # None /\ data[i] = Version(c)
  BY <1>1, NameTypes DEF IInv, HandlersInStep, HandlerInStep, Tmp
<1>3. Tmp(c) \in Names /\ p \in Names /\ \A q \in Paths : q # Tmp(c) /\ q \in Names
  BY <1>1, NameTypes, ConstantsAssumption DEF Tmp, Sound
<1>4. dir[p] # i
  BY <1>1, <1>2, HandlersApart
<1>5. \A q \in Paths : dir'[q] = IF q = p THEN i ELSE dir[q]
  BY <1>1, <1>2, <1>3, <1>4 DEF RenameFinal, Moved, TypeOK
<1>6. UNCHANGED <<pdir, data, req>>
  BY DEF RenameFinal
<1>7. Face(i) = IF req[c].len = 0 THEN NoData ELSE c
  BY <1>1, <1>2, ViewOfVersion DEF Face, Version, TypeOK, Requests
<1>8. FileView' = [FileView EXCEPT ![p] = IF req[c].len = 0 THEN NoData ELSE c]
  <2>1. \A q \in Paths : Face(dir[q])' = IF q = p THEN Face(i) ELSE Face(dir[q])
    BY <1>5, <1>6 DEF Face
  <2> QED BY <1>1, <1>7, <2>1 DEF FileView
<1>9. DiskView' = DiskView
  BY <1>6 DEF DiskView, Face
<1>10. c \notin DoneView /\ DoneView' = DoneView \cup {c}
  BY <1>1 DEF DoneView, RenameFinal, TypeOK
<1> QED BY <1>6, <1>8, <1>9, <1>10, APut

LEMMA CreateStep ==
  ASSUME IInv, Sound, NEW p \in Paths, CreateFile(p)
  PROVE  AbstractStep
<1>1. TypeOK /\ UNCHANGED <<pdir, req>> /\ DoneView' = DoneView /\ dir[p] = None
  BY DEF IInv, CreateFile, callVars, DoneView
<1>2. PICK i \in Inodes : /\ Free(i) /\ dir' = [dir EXCEPT ![p] = i]
                          /\ data' = [data EXCEPT ![i] = Blank]
  BY DEF CreateFile
<1>3. i # None /\ \A q \in Paths : q \in Names /\ dir[q] # i /\ pdir[q] # i
  BY <1>2, ConstantsAssumption DEF Free, Linked
<1>4. \A q \in Paths : /\ Face(dir[q])' = IF q = p THEN NoData ELSE Face(dir[q])
                       /\ Face(pdir[q])' = Face(pdir[q])
  BY <1>1, <1>2, <1>3, ViewOfBlank, NameTypes DEF Face, TypeOK
<1>5. FileView[p] = None /\ FileView' = [FileView EXCEPT ![p] = NoData] /\ DiskView' = DiskView
  BY <1>1, <1>4 DEF FileView, DiskView, Face
<1> QED BY <1>1, <1>5, APathStep

LEMMA TruncateStep ==
  ASSUME IInv, Sound, NEW p \in Paths, TruncateFile(p)
  PROVE  AbstractStep
<1> DEFINE S == {q \in Paths : dir[q] = dir[p]}
           T == {q \in Paths : pdir[q] = dir[p]}
<1>1. TypeOK /\ UNCHANGED <<dir, pdir, req>> /\ DoneView' = DoneView /\ dir[p] # None
      /\ data' = [data EXCEPT ![dir[p]] = Blank] /\ dir[p] \in Inodes
  BY NameTypes DEF IInv, TruncateFile, callVars, DoneView
<1>2. \A q \in Paths : /\ Face(dir[q])' = IF q \in S THEN NoData ELSE Face(dir[q])
                       /\ Face(pdir[q])' = IF q \in T THEN NoData ELSE Face(pdir[q])
  BY <1>1, ViewOfBlank, NameTypes DEF Face, TypeOK
<1>3. /\ \A q, r \in S : FileView[q] = FileView[r] /\ FileView[q] # None
      /\ \A q \in T : DiskView[q] # None
  BY <1>1, Present DEF FileView, DiskView
<1>4. /\ FileView' = [q \in Paths |-> IF q \in S THEN NoData ELSE FileView[q]]
      /\ DiskView' = [q \in Paths |-> IF q \in T THEN NoData ELSE DiskView[q]]
  BY <1>2 DEF FileView, DiskView
<1> HIDE DEF S, T
<1>5. S \in SUBSET Paths /\ T \in SUBSET Paths
  BY DEF S, T
<1> QED BY <1>1, <1>3, <1>4, <1>5, ATruncate

LEMMA NameStep ==
  ASSUME IInv, Sound, NEW p \in Paths, NEW q \in Paths,
         Unlink(p) \/ Rename(p, q) \/ Link(p, q)
  PROVE  AbstractStep
<1>1. TypeOK /\ UNCHANGED <<pdir, data, req>> /\ DoneView' = DoneView /\ dir[p] # None
      /\ p \in Names /\ q \in Names /\ DiskView' = DiskView
  BY NameTypes DEF IInv, Unlink, Rename, Link, callVars, DoneView, DiskView, Face
<1>2. FileView' = [s \in Paths |-> Face(dir'[s])] /\ Face(None) = None
  BY <1>1 DEF FileView, Face
<1>3. FileView[p] # None
  BY <1>1, Present DEF FileView
<1>4. CASE dir' = dir
  BY <1>1, <1>4, FilesKept
<1>5. CASE dir' = [dir EXCEPT ![p] = None]
  <2>1. FileView' = [FileView EXCEPT ![p] = None]
    BY <1>1, <1>2, <1>5, ConstantsAssumption DEF FileView, TypeOK
  <2> QED BY <1>1, <2>1, APathStep
<1>6. CASE dir' = [dir EXCEPT ![q] = dir[p], ![p] = None]
  <2>1. FileView' = [FileView EXCEPT ![q] = FileView[p], ![p] = None]
    <3>1. \A s \in Paths : dir'[s] = IF s = p THEN None ELSE IF s = q THEN dir[p] ELSE dir[s]
      BY <1>1, <1>6, ConstantsAssumption DEF TypeOK
    <3>2. FileView' = [s \in Paths |-> IF s = p THEN None ELSE IF s = q THEN FileView[p] ELSE FileView[s]]
      BY <1>2, <3>1 DEF FileView
    <3> QED BY <3>2 DEF FileView
  <2> QED BY <1>1, <1>3, <2>1, APathStep
<1>7. CASE dir[q] = None /\ dir' = [dir EXCEPT ![q] = dir[p]]
  <2>1. FileView' = [FileView EXCEPT ![q] = FileView[p]] /\ FileView[q] = None
    <3>1. \A s \in Paths : dir'[s] = IF s = q THEN dir[p] ELSE dir[s]
      BY <1>1, <1>7, ConstantsAssumption DEF TypeOK
    <3>2. FileView' = [s \in Paths |-> IF s = q THEN FileView[p] ELSE FileView[s]]
      BY <1>2, <3>1 DEF FileView
    <3>3. FileView[q] = None
      BY <1>2, <1>7 DEF FileView
    <3> QED BY <3>2, <3>3 DEF FileView
  <2> QED BY <1>1, <1>3, <2>1, APathStep
<1> QED BY <1>4, <1>5, <1>6, <1>7 DEF Unlink, Rename, Link, Moved

(* What paths name on disk is synced, so that a power loss leaves it. *)
LEMMA PowerStep == ASSUME IInv, Sound, PowerLoss PROVE AbstractStep
<1>1. TypeOK /\ UNCHANGED <<pdir, req>> /\ dir' = pdir
  BY DEF IInv, PowerLoss, ProcessEnds
<1>2. DoneView' = DoneView
  BY <1>1 DEF PowerLoss, ProcessEnds, DoneView, Active, Running, TypeOK
<1>3. PICK torn \in SUBSET {x \in Inodes \X Pos : ~synced[x[1]]} :
         data' = [i \in Inodes |-> [k \in Pos |->
                    IF <<i, k>> \in torn THEN NoData ELSE data[i][k]]]
  BY DEF PowerLoss
<1>4. \A i \in Inodes : synced[i] => data'[i] = data[i]
  <2> SUFFICES ASSUME NEW i \in Inodes, synced[i] PROVE data'[i] = data[i]
    OBVIOUS
  <2>1. \A k \in Pos : <<i, k>> \notin torn
    BY <1>3
  <2>2. data'[i] = [k \in Pos |-> data[i][k]]
    BY <1>3, <2>1
  <2> QED BY <1>1, <2>2 DEF TypeOK, Contents
<1>5. \A p \in Paths : /\ Face(dir[p])' = Face(pdir[p])
                       /\ Face(pdir[p])' = Face(pdir[p])
  BY <1>1, <1>4, NameTypes DEF Face, IInv, FilesWhole
<1>6. FileView' = DiskView /\ DiskView' = DiskView
  BY <1>5 DEF FileView, DiskView
<1> QED BY <1>1, <1>2, <1>6, ADisk

LEMMA RestartStep == ASSUME IInv, Sound, Restart PROVE AbstractStep
<1>1. \A p \in Paths : dir'[p] = dir[p]
  BY ConstantsAssumption DEF Restart, Sound
<1>2. UNCHANGED <<pdir, data, req>> /\ DoneView' = DoneView
  BY DEF Restart, callVars, DoneView
<1> QED BY <1>1, <1>2, FilesKept

LEMMA SyncStep == ASSUME IInv, Sound, SyncDir PROVE AbstractStep
<1>1. UNCHANGED <<dir, data, req>> /\ DoneView' = DoneView /\ pdir' = dir
  BY DEF SyncDir, callVars, DoneView
<1>2. DiskView' = FileView /\ FileView' = FileView
  BY <1>1 DEF DiskView, FileView, Face
<1> QED BY <1>1, <1>2, ADisk

LEMMA StepImplements ==
  ASSUME IInv, Sound, "rename" \notin Faults, [Next]_vars
  PROVE  AbstractStep
<1>0. TypeOK
  BY DEF IInv
<1>1. CASE UNCHANGED vars
  BY <1>1, ServerStill DEF vars, fsVars
<1>2. ASSUME NEW c \in Calls, StartWriteback(c) \/ EndOfStream(c) PROVE AbstractStep
  <2>1. UNCHANGED <<fsVars, req>> /\ pc[c] # "ok" /\ pc'[c] # "ok"
        /\ pc' = [pc EXCEPT ![c] = pc'[c]]
    BY <1>0, <1>2 DEF StartWriteback, EndOfStream, TypeOK
  <2> QED BY <2>1, ServerStill
<1>3. ASSUME NEW c \in Calls, HandlerFault(c) PROVE AbstractStep
  <2>1. OpenTmpFails(c) \/ WriteFails(c)
    BY <1>3 DEF HandlerFault, Sound, ShortWrite, BreakStream, BreakBeforeFirst, FsyncFails, RenameFails
  <2>2. UNCHANGED <<fsVars, req>> /\ pc[c] # "ok" /\ pc'[c] # "ok"
        /\ pc' = [pc EXCEPT ![c] = pc'[c]]
    BY <1>0, <2>1 DEF OpenTmpFails, WriteFails, TypeOK
  <2> QED BY <2>2, ServerStill
<1>4. ASSUME NEW c \in Calls, TerminateOnWrite(c) PROVE AbstractStep
  <2>1. UNCHANGED <<fsVars, req>> /\ ProcessEnds
    BY <1>4 DEF TerminateOnWrite, ProcessEnds
  <2> QED BY <2>1, ServerStill
<1>5. ASSUME NEW p \in Paths, PathOp(p) PROVE AbstractStep
  <2>1. ASSUME NEW r \in Readers, NEW n \in 0..MaxLen, ReadOpen(r, p, n) PROVE AbstractStep
    BY <2>1, ServerStill DEF ReadOpen, callVars
  <2> QED BY <1>5, <2>1, CreateStep, TruncateStep, NameStep DEF PathOp
<1>6. ASSUME NEW r \in Readers, ReadPread(r) PROVE AbstractStep
  BY <1>6, ServerStill DEF ReadPread, callVars
<1>7. CASE Crash
  <2>1. UNCHANGED <<fsVars, req>> /\ ProcessEnds
    BY <1>7 DEF Crash, ProcessEnds
  <2> QED BY <2>1, ServerStill
<1> QED BY <1>1, <1>2, <1>3, <1>4, <1>5, <1>6, <1>7, TmpStep, RenameStep, PowerStep,
           RestartStep, SyncStep DEF Next, HandlerStep

LEMMA InitImplements == ASSUME Init PROVE Abstract!Init
<1>1. /\ FileView = [p \in Paths |-> None] /\ DiskView = [p \in Paths |-> None]
      /\ DoneView = {}
  BY ConstantsAssumption DEF Init, FileView, DiskView, DoneView, Face
<1>2. /\ TargetView \in [Calls -> Paths]
      /\ ValueView \in [Calls -> Calls \cup {NoData}]
      /\ \A c \in Calls : ValueView[c] \in {c, NoData}
  BY DEF Init, TargetView, ValueView
<1> QED BY <1>1, <1>2, Views DEF Abstract!Init, DoneView, TargetView, ValueView

(* The server is a store of whole files: each call takes effect at once or *)
(* not at all, a crash changes no file, and a power loss takes every file  *)
(* back to a version the disk had.                                         *)
THEOREM ImplementsAtomicFiles ==
  Sound /\ "rename" \notin Faults => (Spec => AtomicStore)
<1> SUFFICES ASSUME Sound, "rename" \notin Faults PROVE Spec => AtomicStore
  OBVIOUS
<1>1. Spec => []IInv
  BY Invariant
<1>2. Init => Abstract!Init
  BY InitImplements
<1>3. IInv /\ [Next]_vars => [Abstract!Next]_(Abstract!vars)
  BY StepImplements DEF AbstractStep
<1> QED BY <1>1, <1>2, <1>3, PTL DEF Spec, AtomicStore, Abstract!Spec

-----------------------------------------------------------------------------
(***************************************************************************)
(* What WowServer keeps of its promises when failures pass the Writeback   *)
(* handler unnoticed: broken streams, short writes, failed fsyncs and      *)
(* renames.  And, where none does, that no temporary file is left over.    *)
(***************************************************************************)

(* What is assumed of the faults and the names: one Writeback of a path at *)
(* a time, and no user's file has a name that ends in ".wow".              *)
Loose == "overlap" \notin Faults /\ Paths \cap TmpNames = {}

(* A handler that has its temporary file open. *)
Writing(c) == pc[c] \in {"reading", "ended"} /\ fd[c] # None

(* Contents of one Writeback only. *)
Unmixed(d) == \A j, k \in Pos : d[j] = d[k] \/ NoData \in {d[j], d[k]}
OwnChunks(c, d) == \A k \in Pos : d[k] \in {c, NoData}

(* A handler writes to the inode under its temporary name, where there is  *)
(* nothing but its own.                                                    *)
WritersInStep ==
    \A c \in Calls :
        /\ pc[c] = "idle" => fd[c] = None
        /\ Writing(c) => dir[Tmp(c)] = fd[c] /\ OwnChunks(c, data[fd[c]])

(* No inode is under two temporary names. *)
TmpsApart ==
    \A p, q \in Paths : p # q =>
        /\ dir[TmpOf[p]] # None => dir[TmpOf[q]] # dir[TmpOf[p]]
        /\ pdir[TmpOf[p]] # None => pdir[TmpOf[q]] # pdir[TmpOf[p]]

(* Where every rename is forestalled, users' files are never written.      *)
Unwritten ==
    \A p \in Paths :
        /\ dir[p] # None => data[dir[p]] = Blank
        /\ pdir[p] # None => data[pdir[p]] = Blank
        /\ \A q \in Paths :
             /\ dir[TmpOf[q]] # None => dir[TmpOf[q]] # dir[p] /\ dir[TmpOf[q]] # pdir[p]
             /\ pdir[TmpOf[q]] # None => pdir[TmpOf[q]] # pdir[p]

UInv ==
    /\ TypeOK
    /\ OneWriter
    /\ WritersInStep
    /\ TmpsApart
    /\ \A i \in Inodes : Unmixed(data[i])
    /\ crashOnWrite => Unwritten

Rest ==
    /\ OneWriter /\ WritersInStep /\ TmpsApart
    /\ \A i \in Inodes : Unmixed(data[i])
    /\ crashOnWrite => Unwritten

LEMMA BlankUnmixed ==
  /\ Unmixed(Blank)
  /\ \A c \in Calls : OwnChunks(c, Blank)
BY DEF Unmixed, OwnChunks, Blank

(* Handlers may end and descriptors be closed, or nothing happens to them. *)
LEMMA FilesStay ==
  ASSUME UInv, UNCHANGED <<dir, pdir, data, req, crashOnWrite>>,
         \A c \in Calls : /\ pc'[c] = pc[c] \/ pc'[c] \in Ended
                             \/ (Active(c) /\ pc'[c] = "synced")
                             \/ (pc[c] = "reading" /\ pc'[c] = "ended")
                          /\ fd'[c] \in {fd[c], None}
  PROVE  Rest'
<1>1. OneWriter'
  BY DEF UInv, OneWriter, Active, Running, Ended
<1>2. WritersInStep'
  BY DEF UInv, WritersInStep, Writing, Tmp, OwnChunks, Running, Ended
<1>3. TmpsApart'
  BY DEF UInv, TmpsApart
<1>4. (\A i \in Inodes : Unmixed(data[i]))' /\ (crashOnWrite => Unwritten)'
  BY DEF UInv, Unmixed, Unwritten
<1> QED BY <1>1, <1>2, <1>3, <1>4 DEF Rest

LEMMA QuietHandler ==
  ASSUME UInv, NEW c \in Calls,
         \/ OpenTmpFails(c) \/ ShortWrite(c) \/ WriteFails(c) \/ EndOfStream(c) \/ BreakStream(c)
         \/ BreakBeforeFirst(c) \/ FsyncClose(c) \/ FsyncFails(c) \/ RenameFails(c)
  PROVE  Rest'
<1> USE DEF OpenTmpFails, ShortWrite, WriteFails, EndOfStream, BreakStream, BreakBeforeFirst,
            FsyncClose, FsyncFails, RenameFails, fsVars
<1>1. UNCHANGED <<dir, pdir, data, req, crashOnWrite>>
  OBVIOUS
<1>2. pc \in [Calls -> {"idle"} \cup Running \cup Ended] /\ fd \in [Calls -> Inodes \cup {None}]
  BY DEF UInv, TypeOK
<1>3. \A d \in Calls : /\ pc'[d] = pc[d] \/ pc'[d] \in Ended
                          \/ (Active(d) /\ pc'[d] = "synced")
                          \/ (pc[d] = "reading" /\ pc'[d] = "ended")
                       /\ fd'[d] \in {fd[d], None}
  BY <1>2 DEF Running, Ended, Active
<1> QED BY <1>1, <1>3, FilesStay

LEMMA Ends ==
  ASSUME UInv, ProcessEnds, UNCHANGED <<dir, pdir, data>>
  PROVE  Rest'
BY FilesStay DEF ProcessEnds, Ended

LEMMA StartWritebackRest ==
  ASSUME UInv, Loose, NEW c \in Calls, StartWriteback(c)
  PROVE  Rest'
<1>1. /\ UNCHANGED <<dir, pdir, data, req, crashOnWrite, fd>> /\ pc[c] = "idle"
      /\ pc'[c] = "reading" /\ \A d \in Calls \ {c} : pc'[d] = pc[d]
      /\ \A d \in Calls : Active(d) => req[d].path # req[c].path
  BY DEF StartWriteback, Loose, UInv, TypeOK, fsVars
<1>2. OneWriter'
  BY <1>1 DEF UInv, OneWriter, Active
<1>3. WritersInStep'
  BY <1>1 DEF UInv, WritersInStep, Writing, Tmp, OwnChunks
<1>4. TmpsApart' /\ (\A i \in Inodes : Unmixed(data[i]))' /\ (crashOnWrite => Unwritten)'
  BY <1>1 DEF UInv, Unmixed, Unwritten, TmpsApart
<1> QED BY <1>2, <1>3, <1>4 DEF Rest

(* Another handler's temporary name is not this one's. *)
LEMMA TmpsDiffer ==
  ASSUME UInv, NEW c \in Calls, NEW d \in Calls, c # d, Active(c), Active(d)
  PROVE  Tmp(c) # Tmp(d) /\ req[c].path \in Paths /\ req[d].path \in Paths
BY ConstantsAssumption DEF UInv, TypeOK, OneWriter, Tmp

LEMMA OpenTmpRest ==
  ASSUME UInv, Loose, NEW c \in Calls, OpenTmp(c)
  PROVE  Rest'
<1> DEFINE p == req[c].path
           t == TmpOf[p]
<1>0. /\ p \in Paths /\ t \in Names /\ Active(c) /\ t = Tmp(c) /\ pc[c] = "reading"
      /\ \A q \in Paths : q # t
      /\ \A q \in Paths \ {p} : TmpOf[q] # t
  BY NameTypes, ConstantsAssumption
  DEF UInv, TypeOK, OpenTmp, Active, Running, Tmp, Loose, TmpNames
<1> PICK i \in Inodes : /\ IF dir[t] = None THEN Free(i) ELSE i = dir[t]
                        /\ dir' = [dir EXCEPT ![t] = i]
                        /\ data' = [data EXCEPT ![i] = Blank]
                        /\ fd' = [fd EXCEPT ![c] = i]
  BY DEF OpenTmp, Tmp
<1>1. /\ UNCHANGED <<pdir, req, crashOnWrite, pc>>
      /\ dir'[t] = i /\ \A n \in Names \ {t} : dir'[n] = dir[n]
      /\ data'[i] = Blank /\ \A j \in Inodes \ {i} : data'[j] = data[j]
      /\ fd'[c] = i /\ \A d \in Calls \ {c} : fd'[d] = fd[d]
      /\ i # None
  BY <1>0, ConstantsAssumption DEF UInv, TypeOK, OpenTmp
<1>2. dir[t] = i \/ \A n \in Names : dir[n] # i /\ pdir[n] # i
  BY DEF Free, Linked
<1> HIDE DEF p, t
<1>3. OneWriter'
  BY <1>1 DEF UInv, OneWriter, Active
<1>4. WritersInStep'
  <2> SUFFICES ASSUME NEW d \in Calls
               PROVE  /\ pc[d] = "idle" => fd'[d] = None
                      /\ Writing(d)' => dir'[Tmp(d)] = fd'[d] /\ OwnChunks(d, data'[fd'[d]])
    BY <1>1 DEF WritersInStep, Tmp
  <2>1. CASE d = c
    BY <1>0, <1>1, <2>1, BlankUnmixed
  <2>2. CASE d # c
    <3>1. pc[d] = "idle" => fd'[d] = None
      BY <1>1, <2>2 DEF UInv, WritersInStep
    <3>2. ASSUME Writing(d)'
          PROVE  dir'[Tmp(d)] = fd'[d] /\ OwnChunks(d, data'[fd'[d]])
      <4>1. Writing(d) /\ Active(d) /\ fd'[d] = fd[d]
        BY <1>1, <2>2, <3>2 DEF Writing, Active, Running
      <4>2. Tmp(d) # t /\ Tmp(d) \in Names
        BY <1>0, <2>2, <4>1, TmpsDiffer, NameTypes DEF Tmp, UInv
      <4>3. dir[Tmp(d)] = fd[d] /\ OwnChunks(d, data[fd[d]]) /\ fd[d] \in Inodes
        BY <4>1 DEF UInv, TypeOK, WritersInStep, Writing
      <4>4. OwnChunks(d, data'[fd[d]])
        <5>1. CASE fd[d] = i
          BY <1>1, <5>1, BlankUnmixed
        <5>2. CASE fd[d] # i
          <6>1. data'[fd[d]] = data[fd[d]]
            BY <1>1, <4>3, <5>2
          <6> QED BY <4>3, <6>1
        <5> QED BY <5>1, <5>2
      <4> QED BY <1>1, <4>1, <4>2, <4>3, <4>4
    <3> QED BY <3>1, <3>2
  <2> QED BY <2>1, <2>2
<1>5. TmpsApart'
  <2> SUFFICES ASSUME NEW q \in Paths, NEW r \in Paths, q # r
               PROVE  /\ dir'[TmpOf[q]] # None => dir'[TmpOf[r]] # dir'[TmpOf[q]]
                      /\ pdir[TmpOf[q]] # None => pdir[TmpOf[r]] # pdir[TmpOf[q]]
    BY <1>1 DEF TmpsApart
  <2>1. /\ TmpOf[q] \in Names /\ TmpOf[r] \in Names
        /\ dir[TmpOf[q]] # None => dir[TmpOf[r]] # dir[TmpOf[q]]
        /\ dir[TmpOf[r]] # None => dir[TmpOf[q]] # dir[TmpOf[r]]
        /\ pdir[TmpOf[q]] # None => pdir[TmpOf[r]] # pdir[TmpOf[q]]
    BY NameTypes DEF UInv, TmpsApart
  <2>2. CASE q = p
    BY <1>0, <1>1, <1>2, <2>1, <2>2 DEF t
  <2>3. CASE r = p
    BY <1>0, <1>1, <1>2, <2>1, <2>3 DEF t
  <2>4. CASE q # p /\ r # p
    BY <1>0, <1>1, <2>1, <2>4
  <2> QED BY <2>2, <2>3, <2>4
<1>6. (\A j \in Inodes : Unmixed(data[j]))'
  BY <1>1, BlankUnmixed DEF UInv
<1>7. (crashOnWrite => Unwritten)'
  <2> SUFFICES ASSUME Unwritten, NEW q \in Paths
               PROVE  /\ dir'[q] # None => data'[dir'[q]] = Blank
                      /\ pdir[q] # None => data'[pdir[q]] = Blank
                      /\ \A r \in Paths :
                           /\ dir'[TmpOf[r]] # None =>
                                dir'[TmpOf[r]] # dir'[q] /\ dir'[TmpOf[r]] # pdir[q]
                           /\ pdir[TmpOf[r]] # None => pdir[TmpOf[r]] # pdir[q]
    BY <1>1 DEF UInv, Unwritten
  <2>1. q \in Names /\ dir'[q] = dir[q] /\ dir[q] \in Inodes \cup {None} /\ pdir[q] \in Inodes \cup {None}
    BY <1>0, <1>1, NameTypes DEF UInv
  <2>2. (dir[q] # None => data'[dir[q]] = Blank) /\ (pdir[q] # None => data'[pdir[q]] = Blank)
    BY <1>1, <2>1 DEF Unwritten
  <2>3. dir[t] # None => dir[t] # dir[q] /\ dir[t] # pdir[q]
    BY <1>0 DEF Unwritten, t
  <2>4. i # dir[q] /\ i # pdir[q]
    BY <1>1, <1>2, <2>1, <2>3
  <2>5. ASSUME NEW r \in Paths
        PROVE  dir'[TmpOf[r]] # None => dir'[TmpOf[r]] # dir'[q] /\ dir'[TmpOf[r]] # pdir[q]
    <3>1. CASE r = p
      BY <1>1, <2>1, <2>4, <3>1 DEF t
    <3>2. CASE r # p
      <4>1. dir'[TmpOf[r]] = dir[TmpOf[r]]
        BY <1>0, <1>1, <3>2, NameTypes DEF UInv
      <4> QED BY <2>1, <4>1 DEF Unwritten
    <3> QED BY <3>1, <3>2
  <2> QED BY <2>1, <2>2, <2>5 DEF Unwritten
<1> QED BY <1>3, <1>4, <1>5, <1>6, <1>7 DEF Rest

LEMMA WriteChunkRest ==
  ASSUME UInv, Loose, NEW c \in Calls, WriteChunk(c)
  PROVE  Rest'
<1> DEFINE i == fd[c]
           k == pos[c] + 1
<1>1. /\ Writing(c) /\ Active(c) /\ i \in Inodes /\ i = dir[Tmp(c)] /\ OwnChunks(c, data[i])
      /\ i # None /\ Tmp(c) = TmpOf[req[c].path] /\ req[c].path \in Paths /\ data[i] \in Contents
  BY ConstantsAssumption
  DEF WriteChunk, UInv, TypeOK, WritersInStep, Writing, Active, Running, Tmp
<1>2. /\ UNCHANGED <<dir, pdir, req, crashOnWrite, pc, fd>>
      /\ data' = [data EXCEPT ![i] = [data[i] EXCEPT ![k] = c]]
  BY DEF WriteChunk
<1> HIDE DEF i, k
<1>3. data'[i] = [data[i] EXCEPT ![k] = c] /\ \A j \in Inodes \ {i} : data'[j] = data[j]
  BY <1>1, <1>2 DEF UInv, TypeOK
<1>4. OwnChunks(c, data'[i])
  BY <1>1, <1>3 DEF OwnChunks, Contents
<1>5. OneWriter'
  BY <1>2 DEF UInv, OneWriter, Active
<1>6. WritersInStep'
  <2> SUFFICES ASSUME NEW d \in Calls, Writing(d)
               PROVE  OwnChunks(d, data'[fd[d]])
    BY <1>2 DEF UInv, WritersInStep, Writing, Tmp
  <2>1. CASE d = c
    BY <1>4, <2>1 DEF i
  <2>2. CASE d # c
    <3>1. Active(d) /\ dir[Tmp(d)] = fd[d] /\ OwnChunks(d, data[fd[d]]) /\ fd[d] \in Inodes
      BY DEF UInv, TypeOK, WritersInStep, Writing, Active, Running
    <3>2. req[d].path \in Paths /\ req[d].path # req[c].path /\ Tmp(d) = TmpOf[req[d].path]
      BY <1>1, <2>2, <3>1 DEF UInv, TypeOK, OneWriter, Tmp
    <3>3. fd[d] # i
      BY <1>1, <3>1, <3>2 DEF UInv, TmpsApart
    <3>4. data'[fd[d]] = data[fd[d]]
      BY <1>3, <3>1, <3>3
    <3> QED BY <3>1, <3>4
  <2> QED BY <2>1, <2>2
<1>7. TmpsApart'
  BY <1>2 DEF UInv, TmpsApart
<1>8. (\A j \in Inodes : Unmixed(data[j]))'
  <2>1. Unmixed(data'[i])
    BY <1>4 DEF OwnChunks, Unmixed
  <2> QED BY <1>3, <2>1 DEF UInv
<1>9. (crashOnWrite => Unwritten)'
  <2> SUFFICES ASSUME Unwritten, NEW q \in Paths
               PROVE  /\ dir[q] # None => data'[dir[q]] = Blank
                      /\ pdir[q] # None => data'[pdir[q]] = Blank
    BY <1>2 DEF UInv, Unwritten
  <2>1. i # dir[q] /\ i # pdir[q]
    BY <1>1 DEF Unwritten
  <2>2. dir[q] \in Inodes \cup {None} /\ pdir[q] \in Inodes \cup {None}
    BY NameTypes DEF UInv
  <2> QED BY <1>3, <2>1, <2>2 DEF Unwritten
<1> QED BY <1>5, <1>6, <1>7, <1>8, <1>9 DEF Rest

LEMMA RenameFinalRest ==
  ASSUME UInv, Loose, NEW c \in Calls, RenameFinal(c)
  PROVE  Rest'
<1> DEFINE p == req[c].path
           t == TmpOf[p]
<1>1. /\ p \in Paths /\ p \in Names /\ t \in Names /\ t = Tmp(c) /\ Active(c) /\ pc[c] = "synced"
      /\ \A q \in Paths : TmpOf[q] # p
      /\ \A q \in Paths \ {p} : TmpOf[q] # t
  BY NameTypes, ConstantsAssumption
  DEF UInv, TypeOK, RenameFinal, Active, Running, Tmp, Loose, TmpNames
<1>2. /\ UNCHANGED <<pdir, data, req, crashOnWrite, fd>>
      /\ pc'[c] = "ok" /\ \A d \in Calls \ {c} : pc'[d] = pc[d]
      /\ ~crashOnWrite
  BY DEF RenameFinal, UInv, TypeOK
<1>3. dir' = dir \/ dir' = [dir EXCEPT ![p] = dir[t], ![t] = None]
  BY <1>1 DEF RenameFinal, Moved
<1>4. \A n \in Names \ {p, t} : dir'[n] = dir[n]
  BY <1>3 DEF UInv, TypeOK
<1>5. dir'[t] \in {dir[t], None}
  BY <1>1, <1>3 DEF UInv, TypeOK
<1> HIDE DEF p, t
<1>6. OneWriter'
  BY <1>2 DEF UInv, OneWriter, Active, Running
<1>7. WritersInStep'
  <2> SUFFICES ASSUME NEW d \in Calls, d # c, Writing(d)
               PROVE  dir'[Tmp(d)] = fd[d]
    BY <1>1, <1>2 DEF UInv, WritersInStep, Writing, Tmp, OwnChunks
  <2>1. Active(d) /\ dir[Tmp(d)] = fd[d]
    BY DEF UInv, WritersInStep, Writing, Active, Running
  <2>2. Tmp(d) # t /\ Tmp(d) # p /\ Tmp(d) \in Names
    BY <1>1, <2>1, TmpsDiffer, NameTypes DEF Tmp, UInv
  <2> QED BY <1>4, <2>1, <2>2
<1>8. TmpsApart'
  <2>1. \A q \in Paths : dir'[TmpOf[q]] \in {dir[TmpOf[q]], None}
    BY <1>1, <1>4, <1>5, NameTypes DEF UInv, t
  <2> QED BY <1>2, <2>1 DEF UInv, TmpsApart
<1>9. (\A j \in Inodes : Unmixed(data[j]))' /\ (crashOnWrite => Unwritten)'
  BY <1>2 DEF UInv
<1> QED BY <1>6, <1>7, <1>8, <1>9 DEF Rest

LEMMA CreateFileRest ==
  ASSUME UInv, Loose, NEW p \in Paths, CreateFile(p)
  PROVE  Rest'
<1> PICK i \in Inodes : /\ Free(i)
                        /\ dir' = [dir EXCEPT ![p] = i]
                        /\ data' = [data EXCEPT ![i] = Blank]
  BY DEF CreateFile
<1>1. /\ UNCHANGED <<pdir, req, crashOnWrite, pc, fd>>
      /\ dir'[p] = i /\ \A n \in Names \ {p} : dir'[n] = dir[n]
      /\ data'[i] = Blank /\ \A j \in Inodes \ {i} : data'[j] = data[j]
      /\ p \in Names
  BY NameTypes DEF CreateFile, callVars, UInv, TypeOK
<1>2. /\ \A n \in Names : dir[n] # i /\ pdir[n] # i
      /\ \A c \in Calls : fd[c] # i
  BY DEF Free, Linked, Opened
<1>3. \A q \in Paths : dir'[TmpOf[q]] = dir[TmpOf[q]] /\ TmpOf[q] \in Names
  BY <1>1, NameTypes DEF Loose, UInv
<1>4. OneWriter'
  BY <1>1 DEF UInv, OneWriter, Active
<1>5. WritersInStep'
  <2> SUFFICES ASSUME NEW d \in Calls, Writing(d)
               PROVE  dir'[Tmp(d)] = fd[d] /\ OwnChunks(d, data'[fd[d]])
    BY <1>1 DEF UInv, WritersInStep, Writing, Tmp
  <2>1. dir[Tmp(d)] = fd[d] /\ OwnChunks(d, data[fd[d]]) /\ fd[d] \in Inodes
    BY DEF UInv, TypeOK, WritersInStep, Writing
  <2>2. req[d].path \in Paths
    BY DEF UInv, TypeOK
  <2>3. data'[fd[d]] = data[fd[d]]
    BY <1>1, <1>2, <2>1
  <2> QED BY <1>3, <2>1, <2>2, <2>3 DEF Tmp
<1>6. TmpsApart'
  BY <1>1, <1>3 DEF UInv, TmpsApart
<1>7. (\A j \in Inodes : Unmixed(data[j]))'
  BY <1>1, BlankUnmixed DEF UInv
<1>8. (crashOnWrite => Unwritten)'
  <2> SUFFICES ASSUME Unwritten, NEW q \in Paths
               PROVE  /\ dir'[q] # None => data'[dir'[q]] = Blank
                      /\ pdir[q] # None => data'[pdir[q]] = Blank
                      /\ \A r \in Paths :
                           dir[TmpOf[r]] # None => dir[TmpOf[r]] # dir'[q]
    BY <1>1, <1>3 DEF UInv, Unwritten
  <2>1. q \in Names /\ dir[q] \in Inodes \cup {None} /\ pdir[q] \in Inodes \cup {None}
    BY NameTypes DEF UInv
  <2>2. pdir[q] # None => data'[pdir[q]] = Blank
    BY <1>1, <1>2, <2>1 DEF Unwritten
  <2>3. CASE q = p
    BY <1>1, <1>2, <1>3, <2>2, <2>3
  <2>4. CASE q # p
    BY <1>1, <1>2, <2>1, <2>2, <2>4 DEF Unwritten
  <2> QED BY <2>3, <2>4
<1> QED BY <1>4, <1>5, <1>6, <1>7, <1>8 DEF Rest

LEMMA TruncateFileRest ==
  ASSUME UInv, NEW p \in Paths, TruncateFile(p)
  PROVE  Rest'
<1>1. /\ UNCHANGED <<dir, pdir, req, crashOnWrite, pc, fd>>
      /\ \A j \in Inodes : data'[j] \in {data[j], Blank}
  BY DEF TruncateFile, callVars, UInv, TypeOK
<1>2. OneWriter' /\ TmpsApart'
  BY <1>1 DEF UInv, OneWriter, Active, TmpsApart
<1>3. WritersInStep'
  <2> SUFFICES ASSUME NEW d \in Calls, Writing(d) PROVE OwnChunks(d, data'[fd[d]])
    BY <1>1 DEF UInv, WritersInStep, Writing, Tmp
  <2>1. OwnChunks(d, data[fd[d]]) /\ fd[d] \in Inodes
    BY DEF UInv, TypeOK, WritersInStep, Writing
  <2> QED BY <1>1, <2>1, BlankUnmixed
<1>4. (\A j \in Inodes : Unmixed(data[j]))'
  BY <1>1, BlankUnmixed DEF UInv
<1>5. (crashOnWrite => Unwritten)'
  <2> SUFFICES ASSUME Unwritten, NEW q \in Paths
               PROVE  /\ dir[q] # None => data'[dir[q]] = Blank
                      /\ pdir[q] # None => data'[pdir[q]] = Blank
    BY <1>1 DEF UInv, Unwritten
  <2>1. dir[q] \in Inodes \cup {None} /\ pdir[q] \in Inodes \cup {None}
    BY NameTypes DEF UInv
  <2> QED BY <1>1, <2>1 DEF Unwritten
<1> QED BY <1>2, <1>3, <1>4, <1>5 DEF Rest

LEMMA DirectoryRest ==
  ASSUME UInv, Loose, NEW p \in Paths, NEW q \in Paths,
         Unlink(p) \/ Rename(p, q) \/ Link(p, q)
  PROVE  Rest'
<1>1. UNCHANGED <<pdir, data, req, crashOnWrite, pc, fd>>
  BY DEF Unlink, Rename, Link, callVars, readVars
<1>2. \/ dir' = dir
      \/ dir' = [dir EXCEPT ![p] = None]
      \/ dir' = [dir EXCEPT ![q] = dir[p], ![p] = None]
      \/ dir' = [dir EXCEPT ![q] = dir[p]]
  BY DEF Unlink, Rename, Link, Moved
<1>3. \A s \in Paths : dir'[s] \in {None, dir[s], dir[p]}
  BY <1>2, NameTypes DEF UInv, TypeOK
<1>4. \A s \in Paths : TmpOf[s] \in Names \ {p, q}
  BY NameTypes DEF UInv, Loose
<1>5. \A s \in Paths : dir'[TmpOf[s]] = dir[TmpOf[s]]
  BY <1>2, <1>4 DEF UInv, TypeOK
<1>6. OneWriter' /\ TmpsApart'
  BY <1>1, <1>5 DEF UInv, OneWriter, Active, TmpsApart
<1>7. WritersInStep'
  <2>1. \A c \in Calls : req[c].path \in Paths
    BY DEF UInv, TypeOK
  <2> QED BY <1>1, <1>5, <2>1 DEF UInv, WritersInStep, Writing, Tmp, OwnChunks
<1>8. (\A j \in Inodes : Unmixed(data[j]))'
  BY <1>1 DEF UInv
<1>9. (crashOnWrite => Unwritten)'
  BY <1>1, <1>3, <1>5 DEF UInv, Unwritten
<1> QED BY <1>6, <1>7, <1>8, <1>9 DEF Rest

(* The parts that a power loss leaves of an unmixed file are unmixed.      *)
LEMMA PowerLossRest ==
  ASSUME UInv, PowerLoss
  PROVE  Rest'
<1> PICK torn \in SUBSET {x \in Inodes \X Pos : ~synced[x[1]]} :
      data' = [i \in Inodes |-> [k \in Pos |->
                 IF <<i, k>> \in torn THEN NoData ELSE data[i][k]]]
  BY DEF PowerLoss
<1>1. /\ UNCHANGED <<pdir, req, crashOnWrite>> /\ dir' = pdir
      /\ \A c \in Calls : ~Active(c)' /\ pc'[c] \notin {"reading", "ended"} /\ fd'[c] = None
  BY DEF PowerLoss, ProcessEnds, Active, Running
<1>2. \A i \in Inodes, k \in Pos : data'[i][k] \in {NoData, data[i][k]}
  OBVIOUS
<1>3. OneWriter' /\ WritersInStep' /\ TmpsApart'
  BY <1>1 DEF UInv, OneWriter, WritersInStep, Writing, TmpsApart
<1>4. (\A j \in Inodes : Unmixed(data[j]))'
  BY <1>2 DEF UInv, Unmixed
<1>5. \A i \in Inodes : data[i] = Blank => data'[i] = Blank
  BY DEF Blank
<1>6. (crashOnWrite => Unwritten)'
  <2> SUFFICES ASSUME Unwritten, NEW q \in Paths
               PROVE  pdir[q] # None => data'[pdir[q]] = Blank
    BY <1>1 DEF UInv, Unwritten
  <2>1. pdir[q] \in Inodes \cup {None}
    BY NameTypes DEF UInv
  <2> QED BY <1>5, <2>1 DEF Unwritten
<1> QED BY <1>3, <1>4, <1>6 DEF Rest

LEMMA RestartRest ==
  ASSUME UInv, Loose, Restart
  PROVE  Rest'
<1>1. /\ UNCHANGED <<pdir, data, req, crashOnWrite, pc, fd>>
      /\ \A c \in Calls : fd[c] = None /\ ~Active(c)
  BY DEF Restart, callVars, fsVars, UInv, TypeOK
<1>2. \A q \in Paths : dir'[TmpOf[q]] = None /\ dir'[q] = dir[q]
  BY NameTypes DEF Restart, Loose, UInv
<1>3. OneWriter' /\ WritersInStep' /\ TmpsApart'
  BY <1>1, <1>2 DEF UInv, OneWriter, Active, WritersInStep, Writing, TmpsApart
<1>4. (\A j \in Inodes : Unmixed(data[j]))' /\ (crashOnWrite => Unwritten)'
  BY <1>1, <1>2 DEF UInv, Unwritten
<1> QED BY <1>3, <1>4 DEF Rest

LEMMA SyncDirRest ==
  ASSUME UInv, SyncDir
  PROVE  Rest'
<1>1. UNCHANGED <<dir, data, req, crashOnWrite, pc, fd>> /\ pdir' = dir
  BY DEF SyncDir, callVars
<1>2. OneWriter' /\ WritersInStep' /\ TmpsApart'
  BY <1>1 DEF UInv, OneWriter, Active, WritersInStep, Writing, TmpsApart, Tmp, OwnChunks
<1>3. (\A j \in Inodes : Unmixed(data[j]))' /\ (crashOnWrite => Unwritten)'
  BY <1>1 DEF UInv, Unwritten
<1> QED BY <1>2, <1>3 DEF Rest

LEMMA UInit == Init => UInv
<1> SUFFICES ASSUME Init PROVE UInv
  OBVIOUS
<1>1. TypeOK
  BY TypeInit
<1>2. OneWriter /\ WritersInStep
  BY DEF Init, OneWriter, Active, Running, WritersInStep, Writing
<1>3. \A p \in Paths : /\ dir[p] = None /\ pdir[p] = None
                       /\ dir[TmpOf[p]] = None /\ pdir[TmpOf[p]] = None
  BY <1>1, NameTypes DEF Init
<1>4. TmpsApart /\ Unwritten /\ \A i \in Inodes : Unmixed(data[i])
  BY <1>3, BlankUnmixed DEF Init, TmpsApart, Unwritten
<1> QED BY <1>1, <1>2, <1>4 DEF UInv

LEMMA UNext == UInv /\ Loose /\ [Next]_vars => UInv'
<1> SUFFICES ASSUME UInv, Loose, [Next]_vars PROVE UInv'
  OBVIOUS
<1>1. TypeOK'
  BY TypeNext DEF UInv
<1>2. CASE UNCHANGED vars
  <2>1. Rest'
    BY <1>2, FilesStay DEF vars
  <2> QED BY <1>1, <2>1 DEF Rest, UInv
<1>3. ASSUME NEW c \in Calls, StartWriteback(c) \/ HandlerStep(c) \/ HandlerFault(c) PROVE Rest'
  <2>1. CASE TerminateOnWrite(c)
    BY <2>1, Ends DEF TerminateOnWrite, fsVars
  <2> QED BY <1>3, <2>1, StartWritebackRest, OpenTmpRest, WriteChunkRest, RenameFinalRest, QuietHandler
          DEF HandlerStep, HandlerFault
<1>4. ASSUME NEW p \in Paths, PathOp(p) PROVE Rest'
  <2>1. CASE \E r \in Readers, n \in 0..MaxLen : ReadOpen(r, p, n)
    BY <2>1, FilesStay DEF ReadOpen, fsVars, callVars
  <2>2. CASE Unlink(p) \/ \E q \in Paths : Rename(p, q) \/ Link(p, q)
    BY <2>2, DirectoryRest
  <2> QED BY <1>4, <2>1, <2>2, CreateFileRest, TruncateFileRest DEF PathOp
<1>5. ASSUME NEW r \in Readers, ReadPread(r) PROVE Rest'
  BY <1>5, FilesStay DEF ReadPread, fsVars, callVars
<1>6. CASE Crash \/ PowerLoss \/ Restart \/ SyncDir
  <2>1. Rest'
    BY <1>6, Ends, PowerLossRest, RestartRest, SyncDirRest DEF Crash, fsVars
  <2> QED BY <1>1, <2>1 DEF Rest, UInv
<1> QED BY <1>1, <1>2, <1>3, <1>4, <1>5, <1>6 DEF Next, Rest, UInv

(* The invariant of the server under any failures.                         *)
THEOREM LooseInvariant == Loose => (Spec => []UInv)
<1> SUFFICES ASSUME Loose PROVE Spec => []UInv
  OBVIOUS
<1>1. UInv /\ [Next]_vars => UInv'
  BY UNext
<1> QED BY <1>1, UInit, PTL DEF Spec

(* Whatever failure the handler takes for success, a user's file never has *)
(* chunks of two Writebacks.                                               *)
THEOREM FilesUnmixed == Loose => (Spec => []FinalUnmixed)
<1> SUFFICES ASSUME Loose PROVE Spec => []FinalUnmixed
  OBVIOUS
<1>1. Spec => []UInv
  BY LooseInvariant
<1>2. UInv => FinalUnmixed
  <2> SUFFICES ASSUME UInv, NEW p \in Paths, dir[p] # None PROVE Unmixed(data[dir[p]])
    BY DEF FinalUnmixed, Unmixed
  <2>1. dir[p] \in Inodes
    BY NameTypes DEF UInv
  <2> QED BY <2>1 DEF UInv
<1> QED BY <1>1, <1>2, PTL

(* A server with --withCrashOnWrite never shows a write.                   *)
THEOREM NothingWritten == Loose => (Spec => []CrashLosesWrite)
<1> SUFFICES ASSUME Loose PROVE Spec => []CrashLosesWrite
  OBVIOUS
<1>1. Spec => []UInv
  BY LooseInvariant
<1>2. UInv => CrashLosesWrite
  BY DEF UInv, Unwritten, CrashLosesWrite
<1> QED BY <1>1, <1>2, PTL

-----------------------------------------------------------------------------
(* Temporary files, where the handler is told of no failure.               *)

(* None is left over by a pwrite or a rename that fails. *)
Tidy == Sound /\ Faults \cap {"pwrite", "rename"} = {}

(* The handler that a temporary file belongs to has opened it.             *)
Owns(c, t) == Active(c) /\ Tmp(c) = t /\ (pc[c] = "reading" => fd[c] # None)
TmpInUse == up => \A t \in TmpNames : dir[t] # None => \E c \in Calls : Owns(c, t)

(* A step that creates no temporary file and after which every handler     *)
(* that owned one still does.                                              *)
LEMMA OwnersStay ==
  ASSUME TmpInUse, up' => up,
         \A t \in TmpNames : dir'[t] # None =>
           /\ dir[t] # None
           /\ \A c \in Calls : Owns(c, t) => Owns(c, t)'
  PROVE  TmpInUse'
BY DEF TmpInUse

LEMMA TmpInUseNext ==
  ASSUME IInv, Tidy, TmpInUse, [Next]_vars
  PROVE  TmpInUse'
<1>1. /\ TypeOK /\ OneWriter /\ Paths \cap TmpNames = {}
      /\ pc \in [Calls -> {"idle"} \cup Running \cup Ended] /\ fd \in [Calls -> Inodes \cup {None}]
      /\ dir \in [Names -> Inodes \cup {None}]
  BY DEF IInv, TypeOK, Tidy, Sound
<1>2. CASE UNCHANGED vars
  BY <1>2, OwnersStay DEF vars, Owns, Active, Tmp
<1>3. ASSUME NEW c \in Calls,
             \/ StartWriteback(c) \/ OpenTmpFails(c) \/ WriteChunk(c) \/ EndOfStream(c)
             \/ BreakBeforeFirst(c) \/ FsyncClose(c)
      PROVE  TmpInUse'
  <2> USE DEF StartWriteback, OpenTmpFails, WriteChunk, EndOfStream, BreakBeforeFirst, FsyncClose,
              fsVars
  <2>1. UNCHANGED <<dir, up, req>> /\ \A d \in Calls \ {c} : pc'[d] = pc[d] /\ fd'[d] = fd[d]
    BY <1>1, <1>3
  <2>2. ASSUME NEW t \in TmpNames, Owns(c, t) PROVE Owns(c, t)'
    BY <1>1, <1>3, <2>2 DEF Owns, Active, Running, Tmp
  <2>3. \A t \in TmpNames, d \in Calls : Owns(d, t) => Owns(d, t)'
    BY <2>1, <2>2 DEF Owns, Active, Tmp
  <2> QED BY <2>1, <2>3, OwnersStay
<1>4. ASSUME NEW c \in Calls, OpenTmp(c) PROVE TmpInUse'
  <2>1. PICK i \in Inodes : dir' = [dir EXCEPT ![Tmp(c)] = i] /\ fd' = [fd EXCEPT ![c] = i]
    BY <1>4 DEF OpenTmp
  <2>2. /\ UNCHANGED <<up, req, pc>> /\ pc[c] = "reading" /\ i # None
        /\ fd'[c] = i /\ \A d \in Calls \ {c} : fd'[d] = fd[d]
    BY <1>1, <1>4, <2>1, ConstantsAssumption DEF OpenTmp
  <2>3. Owns(c, Tmp(c))'
    BY <2>2 DEF Owns, Active, Running, Tmp
  <2>4. \A t \in TmpNames \ {Tmp(c)} : dir'[t] = dir[t]
    BY <1>1, <2>1, ConstantsAssumption DEF TmpNames
  <2>5. \A t \in TmpNames, d \in Calls : Owns(d, t) => Owns(d, t)'
    BY <2>2 DEF Owns, Active, Tmp
  <2> QED BY <2>2, <2>3, <2>4, <2>5 DEF TmpInUse, Tmp
<1>5. ASSUME NEW c \in Calls, RenameFinal(c) PROVE TmpInUse'
  <2> DEFINE p == req[c].path
             t == TmpOf[p]
  <2>1. /\ p \in Paths /\ p \in Names /\ t \in Names /\ t \in TmpNames /\ t = Tmp(c) /\ t # p
        /\ dir[t] # None => dir[p] # dir[t]
    BY <1>1, NameTypes DEF TypeOK, Tmp, IInv, TmpApart
  <2>2. /\ UNCHANGED <<up, req, fd>> /\ \A d \in Calls \ {c} : pc'[d] = pc[d]
        /\ dir' = IF dir[t] = None THEN dir ELSE [dir EXCEPT ![p] = dir[t], ![t] = None]
    BY <1>1, <1>5, <2>1 DEF RenameFinal, Moved
  <2> HIDE DEF p, t
  <2>3. dir'[t] = None /\ \A u \in TmpNames \ {t} : dir'[u] = dir[u]
    BY <1>1, <2>1, <2>2, ConstantsAssumption DEF TmpNames
  <2>4. \A u \in TmpNames \ {t}, d \in Calls : Owns(d, u) => Owns(d, u)'
    BY <2>1, <2>2 DEF Owns, Active, Tmp
  <2> QED BY <2>2, <2>3, <2>4, OwnersStay
<1>6. ASSUME NEW c \in Calls,
             ShortWrite(c) \/ WriteFails(c) \/ BreakStream(c) \/ FsyncFails(c) \/ RenameFails(c)
      PROVE  FALSE
  BY <1>6 DEF Tidy, Sound, ShortWrite, WriteFails, BreakStream, FsyncFails, RenameFails
<1>7. ASSUME NEW p \in Paths, PathOp(p) PROVE TmpInUse'
  <2>1. UNCHANGED <<up, req, pc, fd>>
    BY <1>7 DEF PathOp, CreateFile, TruncateFile, Unlink, Rename, Link, ReadOpen, callVars
  <2>2. \A t \in TmpNames : t \in Names /\ t \notin Paths
    BY <1>1, ConstantsAssumption DEF TmpNames
  <2>3. \A t \in TmpNames : dir'[t] = dir[t]
    BY <1>1, <1>7, <2>2
    DEF PathOp, CreateFile, TruncateFile, Unlink, Rename, Link, Moved, ReadOpen, fsVars
  <2> QED BY <2>1, <2>3, OwnersStay DEF Owns, Active, Tmp
<1>8. ASSUME NEW r \in Readers, ReadPread(r) PROVE TmpInUse'
  BY <1>8, OwnersStay DEF ReadPread, fsVars, callVars, Owns, Active, Tmp
<1>9. CASE Crash \/ PowerLoss \/ \E c \in Calls : TerminateOnWrite(c)
  BY <1>9 DEF Crash, PowerLoss, TerminateOnWrite, ProcessEnds, TmpInUse
<1>10. CASE Restart
  <2>1. \A t \in TmpNames : dir'[t] = None
    BY <1>10, ConstantsAssumption DEF Restart, TmpNames
  <2> QED BY <2>1 DEF TmpInUse
<1>11. CASE SyncDir
  BY <1>11, OwnersStay DEF SyncDir, callVars, Owns, Active, Tmp
<1> QED BY <1>2, <1>3, <1>4, <1>5, <1>6, <1>7, <1>8, <1>9, <1>10, <1>11
        DEF Next, HandlerStep, HandlerFault

(* A running server has no temporary files but those of the Writebacks in  *)
(* flight, whenever it was last killed.                                    *)
THEOREM NoLeftovers == Tidy => (Spec => []TmpOwned)
<1> SUFFICES ASSUME Tidy PROVE Spec => []TmpOwned
  OBVIOUS
<1>1. Sound /\ Spec => []IInv
  BY Invariant
<1>2. Init => TmpInUse
  BY ConstantsAssumption DEF Init, TmpInUse, TmpNames
<1>3. IInv /\ TmpInUse /\ [Next]_vars => TmpInUse'
  BY TmpInUseNext
<1>4. TmpInUse => TmpOwned
  BY DEF TmpInUse, TmpOwned, Owns
<1>5. Sound
  BY DEF Tidy
<1> QED BY <1>1, <1>2, <1>3, <1>4, <1>5, PTL DEF Spec

=============================================================================
