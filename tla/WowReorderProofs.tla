-------------------------- MODULE WowReorderProofs --------------------------
(* Theorems about WowReorder. *)
EXTENDS WowReorder, TLAPS, SequenceTheorems, FiniteSetTheorems, WellFoundedInduction

-----------------------------------------------------------------------------
(* The inductive invariant. *)

Session(h) == pc[h] \in {"open", "closed"}

(* The operations of the list that nobody has taken yet: an open that      *)
(* holds the mutex applies those of its path, which leave the list last.   *)
Waiting == {i \in DOMAIN pendingOps :
              \/ lock \in {None, Dog}
              \/ lock \in Handles /\ pendingOps[i].path # path[lock]}

(* The operations taken whose descriptor is still open. *)
Live == {i \in DOMAIN work : i # 1 \/ step # "unmap"}

LockOK ==
    /\ lock = None => work = <<>>
    /\ lock = Dog => Len(work) = 1
    /\ lock \in Handles =>
         /\ pc[lock] = "opening"
         /\ \A i \in DOMAIN work : work[i].path = path[lock]
    /\ lock = Main <=> phase = "draining"
    /\ phase # "running" => \A h \in Handles : pc[h] = "idle"
    /\ phase = "ended" => pendingOps = <<>> /\ lock = None

StepOK ==
    /\ work = <<>> => step = "read"
    /\ step \in {"close", "unmap"} => work[1].kind = "CLOSE"
    /\ step = "send" => buf # None

SessionOK ==
    /\ \A h \in Handles : pc[h] # "idle" => path[h] \in Paths /\ local[path[h]] # None
    /\ \A h \in Handles : Session(h) => fh[h] \in Fds /\ open[fh[h]] = path[h]
    /\ \A g, h \in Handles : Session(g) /\ Session(h) /\ fh[g] = fh[h] => g = h
    /\ \A g, h \in Handles :
         g # h /\ pc[g] # "idle" /\ pc[h] # "idle" /\ path[g] = path[h] =>
             pc[g] = "closed" \/ pc[h] = "closed"

(* An operation's descriptor is open for its path until the operation      *)
(* closes it, and nothing is to use it after that.                         *)
FdOK ==
    /\ \A i \in Live : open[work[i].fd] = work[i].path
    /\ \A i \in Waiting : open[pendingOps[i].fd] = pendingOps[i].path
    /\ \A i, j \in DOMAIN work :
         i < j /\ work[i].fd = work[j].fd => work[i].kind = "FLUSH"
    /\ \A i, j \in Waiting :
         i < j /\ pendingOps[i].fd = pendingOps[j].fd => pendingOps[i].kind = "FLUSH"
    /\ \A i \in DOMAIN work : \A j \in Waiting :
         work[i].fd = pendingOps[j].fd => work[i].kind = "FLUSH"
    /\ \A h \in Handles : Session(h) =>
         /\ \A i \in Live : work[i].fd = fh[h] => work[i].kind = "FLUSH"
         /\ \A i \in Waiting : pendingOps[i].fd = fh[h] => pendingOps[i].kind = "FLUSH"

MetaOK ==
    /\ \A n \in Fds : open[n] # None /\ meta[n] # None => meta[n].path = open[n]
    /\ \A h \in Handles : Session(h) /\ path[h] \notin spoiled => meta[fh[h]] # None

Bounded ==
    /\ local \in [Paths -> (0..writes) \cup {None}]
    /\ server \in [Paths -> (0..writes) \cup {None}]
    /\ buf # None => buf.version \in 0..writes

Ordered ==
    /\ \A p \in Paths \ spoiled :
         /\ server[p] = None <=> local[p] = None
         /\ local[p] # None => server[p] <= local[p]
    /\ step = "send" /\ work[1].path \notin spoiled =>
         /\ local[work[1].path] # None
         /\ server[work[1].path] <= buf.version
         /\ buf.version <= local[work[1].path]

Dirty(n) == meta[n] # None /\ meta[n].dirty

(* Somebody is still to bring the content of p to the server. *)
Owed(p) ==
    \/ \E h \in Handles : pc[h] = "open" /\ path[h] = p /\ Dirty(fh[h])
    \/ \E i \in Waiting : pendingOps[i].path = p /\ Dirty(pendingOps[i].fd)
    \/ \E i \in DOMAIN work :
         work[i].path = p /\ (i # 1 \/ step = "read") /\ Dirty(work[i].fd)
    \/ step = "send" /\ work[1].path = p /\ buf.version = local[p]

Covered == \A p \in Paths \ spoiled : server[p] # local[p] => Owed(p)

IInv ==
    /\ TypeOK /\ LockOK /\ StepOK /\ SessionOK /\ FdOK /\ MetaOK
    /\ Bounded /\ Ordered /\ Covered /\ OpenSeesClosed

-----------------------------------------------------------------------------
(* Induction over data, with a set where the library has an operator. *)

LEMMA LeastOf ==
    ASSUME NEW T \in SUBSET Nat, T # {}
    PROVE  \E x \in T : \A y \in T : x <= y
<1> DEFINE R == {ss \in Nat \X Nat : ss[1] < ss[2]}
<1>1. IsWellFoundedOn(R, Nat)
  BY NatLessThanWellFounded DEF OpToRel
<1>2. \A x, y \in Nat : <<x, y>> \in R <=> x < y
  OBVIOUS
<1> HIDE DEF R
<1>3. \E x \in T : \A y \in T : ~ (<<y, x>> \in R)
  BY <1>1, WFMin
<1>4. \A x, y \in T : ~ (<<y, x>> \in R) => x <= y
  BY <1>2
<1> QED BY <1>3, <1>4

LEMMA SetInduction ==
    ASSUME NEW S, 0 \in S, \A n \in Nat : n \in S => n + 1 \in S
    PROVE  Nat \subseteq S
<1> SUFFICES ASSUME ~ (Nat \subseteq S) PROVE FALSE
  OBVIOUS
<1> DEFINE T == {n \in Nat : n \notin S}
<1>1. PICK x \in T : \A y \in T : x <= y
  <2>1. T \in SUBSET Nat /\ T # {}
    OBVIOUS
  <2> HIDE DEF T
  <2> QED BY <2>1, LeastOf
<1>2. x # 0 /\ x \in Nat /\ x - 1 \in Nat
  BY <1>1
<1>3. x - 1 \in S
  BY <1>1, <1>2
<1> QED BY <1>1, <1>2, <1>3

-----------------------------------------------------------------------------
(* OpsOf *)

KeptBy(list, P, f, n) ==
    f = [i \in 0..n |->
            IF i = 0 THEN <<>>
            ELSE IF list[i].path \in P THEN Append(f[i - 1], list[i])
            ELSE f[i - 1]]

(* The recursive function inside OpsOf exists, for a list of any length. *)
LEMMA KeptExists ==
    ASSUME NEW list, NEW P
    PROVE  \A n \in Nat : \E f : KeptBy(list, P, f, n)
<1> DEFINE S == {n \in Nat : \E f : KeptBy(list, P, f, n)}
<1>1. 0 \in S
  <2>1. KeptBy(list, P, [i \in 0..0 |-> <<>>], 0)
    BY DEF KeptBy
  <2> QED BY <2>1
<1>2. \A n \in Nat : n \in S => n + 1 \in S
  <2> SUFFICES ASSUME NEW n \in Nat, NEW f, KeptBy(list, P, f, n)
               PROVE  \E g : KeptBy(list, P, g, n + 1)
    OBVIOUS
  <2> DEFINE Next1(x, i) == IF list[i].path \in P THEN Append(x, list[i]) ELSE x
             g == [i \in 0..(n + 1) |-> IF i <= n THEN f[i] ELSE Next1(f[n], i)]
  <2>1. \A i \in 0..n : f[i] = IF i = 0 THEN <<>> ELSE Next1(f[i - 1], i)
    BY DEF KeptBy
  <2>2. \A i \in 0..(n + 1) : g[i] = IF i = 0 THEN <<>> ELSE Next1(g[i - 1], i)
    <3> SUFFICES ASSUME NEW i \in 0..(n + 1)
                 PROVE  g[i] = IF i = 0 THEN <<>> ELSE Next1(g[i - 1], i)
      OBVIOUS
    <3>1. CASE i <= n
      <4>1. i = 0 \/ g[i - 1] = f[i - 1]
        BY <3>1
      <4>2. g[i] = f[i]
        BY <3>1
      <4> QED BY <2>1, <4>1, <4>2, <3>1
    <3>2. CASE i = n + 1
      <4>1. g[i - 1] = f[n]
        BY <3>2
      <4> QED BY <4>1, <3>2
    <3> QED BY <3>1, <3>2
  <2>3. KeptBy(list, P, g, n + 1)
    <3>1. g = [i \in 0..(n + 1) |-> g[i]]
      OBVIOUS
    <3> HIDE DEF g
    <3> QED BY <2>2, <3>1, Zenon DEF KeptBy
  <2> QED BY <2>3
<1>3. Nat \subseteq S
  <2> HIDE DEF S
  <2> QED BY <1>1, <1>2, SetInduction
<1> QED BY <1>3

LEMMA OpsOfDef ==
    ASSUME NEW list, NEW P, Len(list) \in Nat
    PROVE  \E f : KeptBy(list, P, f, Len(list)) /\ OpsOf(list, P) = f[Len(list)]
<1> DEFINE g == CHOOSE h : KeptBy(list, P, h, Len(list))
<1>1. KeptBy(list, P, g, Len(list))
  BY KeptExists
<1>2. OpsOf(list, P) = g[Len(list)]
  BY Zenon DEF OpsOf, KeptBy
<1> QED BY <1>1, <1>2

(* out is the part of the first n of list whose path is in P, in order. *)
PartOf(list, P, n, out) ==
    /\ out \in Seq(WritebackOps)
    /\ \A i \in 1..Len(out) : out[i].path \in P /\ \E k \in 1..n : list[k] = out[i]
    /\ \A i, j \in 1..Len(out) :
         i < j => \E k, l \in 1..n : k < l /\ list[k] = out[i] /\ list[l] = out[j]
    /\ \A k \in 1..n : list[k].path \in P => \E i \in 1..Len(out) : out[i] = list[k]

(* OpsOf keeps the operations of P, all of them, in their order. *)
LEMMA OpsOfIsPart ==
    ASSUME NEW list \in Seq(WritebackOps), NEW P
    PROVE  PartOf(list, P, Len(list), OpsOf(list, P))
<1> DEFINE N == Len(list)
<1>1. N \in Nat /\ \A k \in 1..N : list[k] \in WritebackOps
  OBVIOUS
<1>2. PICK f : KeptBy(list, P, f, N) /\ OpsOf(list, P) = f[N]
  BY <1>1, OpsOfDef
<1>3. \A i \in 0..N : f[i] = IF i = 0 THEN <<>>
                             ELSE IF list[i].path \in P THEN Append(f[i - 1], list[i])
                             ELSE f[i - 1]
  BY <1>2 DEF KeptBy
<1> DEFINE S == {n \in Nat : n <= N => PartOf(list, P, n, f[n])}
<1>4. 0 \in S
  <2>1. f[0] = <<>>
    BY <1>1, <1>3
  <2>2. <<>> \in Seq(WritebackOps) /\ Len(<<>>) = 0
    BY EmptySeq
  <2>3. PartOf(list, P, 0, <<>>)
    BY <2>2 DEF PartOf
  <2> QED BY <2>1, <2>3
<1>5. \A n \in Nat : n \in S => n + 1 \in S
  <2> SUFFICES ASSUME NEW n \in Nat, n + 1 <= N, PartOf(list, P, n, f[n])
               PROVE  PartOf(list, P, n + 1, f[n + 1])
    BY <1>1
  <2> DEFINE old == f[n]
             new == f[n + 1]
             op == list[n + 1]
  <2>0. op \in WritebackOps /\ old \in Seq(WritebackOps) /\ Len(old) \in Nat
    BY <1>1 DEF PartOf
  <2>1. CASE op.path \notin P
    <3>1. new = old
      BY <1>1, <1>3, <2>1
    <3> HIDE DEF new, old
    <3> QED BY <2>0, <2>1, <3>1 DEF PartOf, old, new
  <2>2. CASE op.path \in P
    <3>1. new = Append(old, op)
      <4>1. n + 1 \in 0..N /\ n + 1 # 0 /\ (n + 1) - 1 = n
        BY <1>1
      <4> QED BY <1>3, <2>2, <4>1
    <3>2. /\ new \in Seq(WritebackOps)
          /\ Len(new) = Len(old) + 1
          /\ \A i \in 1..Len(old) : new[i] = old[i]
          /\ new[Len(old) + 1] = op
      BY <2>0, <3>1, AppendProperties
    <3>3. PartOf(list, P, n, old)
      OBVIOUS
    <3> HIDE DEF new, old
    <3>4. \A i \in 1..Len(new) :
            new[i].path \in P /\ \E k \in 1..(n + 1) : list[k] = new[i]
      <4> SUFFICES ASSUME NEW i \in 1..Len(new)
                   PROVE  new[i].path \in P /\ \E k \in 1..(n + 1) : list[k] = new[i]
        OBVIOUS
      <4>1. CASE i = Len(old) + 1
        BY <4>1, <2>2, <3>2
      <4>2. CASE i # Len(old) + 1
        <5>1. i \in 1..Len(old) /\ new[i] = old[i]
          BY <4>2, <2>0, <3>2
        <5>2. PICK k \in 1..n : list[k] = old[i]
          BY <5>1, <3>3 DEF PartOf
        <5>3. old[i].path \in P
          BY <5>1, <3>3 DEF PartOf
        <5> QED BY <5>1, <5>2, <5>3
      <4> QED BY <4>1, <4>2
    <3>5. ASSUME NEW i \in 1..Len(new), NEW j \in 1..Len(new), i < j
          PROVE  \E k, l \in 1..(n + 1) : k < l /\ list[k] = new[i] /\ list[l] = new[j]
      <4>1. i \in 1..Len(old) /\ new[i] = old[i]
        BY <2>0, <3>2, <3>5
      <4>2. CASE j = Len(old) + 1
        <5>1. PICK k \in 1..n : list[k] = old[i]
          BY <3>3, <4>1 DEF PartOf
        <5> QED BY <5>1, <4>1, <4>2, <3>2
      <4>3. CASE j # Len(old) + 1
        <5>1. j \in 1..Len(old) /\ new[j] = old[j]
          BY <4>3, <2>0, <3>2
        <5>2. PICK k \in 1..n, l \in 1..n : k < l /\ list[k] = old[i] /\ list[l] = old[j]
          BY <5>1, <4>1, <3>3, <3>5 DEF PartOf
        <5> QED BY <5>1, <5>2, <4>1
      <4> QED BY <4>2, <4>3
    <3>6. \A k \in 1..(n + 1) : list[k].path \in P => \E i \in 1..Len(new) : new[i] = list[k]
      <4> SUFFICES ASSUME NEW k \in 1..(n + 1), list[k].path \in P
                   PROVE  \E i \in 1..Len(new) : new[i] = list[k]
        OBVIOUS
      <4>1. CASE k = n + 1
        BY <4>1, <2>0, <3>2
      <4>2. CASE k # n + 1
        <5>1. PICK i \in 1..Len(old) : old[i] = list[k]
          BY <4>2, <3>3 DEF PartOf
        <5> QED BY <5>1, <2>0, <3>2
      <4> QED BY <4>1, <4>2
    <3> QED BY <3>2, <3>4, <3>5, <3>6 DEF PartOf, new
  <2> QED BY <2>1, <2>2
<1>6. Nat \subseteq S
  <2> HIDE DEF S
  <2> QED BY <1>4, <1>5, SetInduction
<1> QED BY <1>1, <1>2, <1>6

-----------------------------------------------------------------------------
(* Constants, lists and descriptors. *)

LEMMA TwoAtMost == \A a, b : Cardinality({a, b}) # 3
<1> TAKE a, b
<1>1. Cardinality({}) = 0 /\ IsFiniteSet({})
  BY FS_EmptySet
<1>2. IsFiniteSet({a}) /\ Cardinality({a}) = 1
  BY FS_Singleton
<1>3. IsFiniteSet({a} \cup {b}) /\ Cardinality({a} \cup {b}) \in {1, 2}
  BY <1>2, FS_AddElement
<1>4. {a} \cup {b} = {a, b}
  OBVIOUS
<1> QED BY <1>3, <1>4

LEMMA Constants ==
    /\ MaxFd \in Nat /\ MaxWrites \in Nat /\ MaxHandles \in Nat
    /\ None \notin Paths /\ None \notin Fds /\ None \notin Versions
    /\ None \notin [path : Paths, dirty : BOOLEAN]
    /\ None \notin [path : Paths, version : Versions]
    /\ Dog # Main /\ Dog # None /\ Main # None
    /\ Dog \notin Handles /\ Main \notin Handles /\ None \notin Handles
<1>1. Dog # Main /\ Dog # None /\ Main # None
  <2>1. Dog = Main => {Dog, Main, None} = {Dog, None}
    OBVIOUS
  <2>2. Dog = None => {Dog, Main, None} = {Dog, Main}
    OBVIOUS
  <2>3. Main = None => {Dog, Main, None} = {Dog, Main}
    OBVIOUS
  <2> QED BY <2>1, <2>2, <2>3, TwoAtMost, ReorderAssumption
<1> QED BY <1>1, ReorderAssumption

LEMMA LowestFdIsFree ==
    ASSUME FreeFds # {}
    PROVE  LowestFd \in FreeFds
<1>1. FreeFds \in SUBSET Nat
  BY Constants DEF FreeFds, Fds
<1>2. \E n \in FreeFds : \A m \in FreeFds : n <= m
  BY <1>1, LeastOf
<1> QED BY <1>2 DEF LowestFd

LEMMA Lists ==
    ASSUME TypeOK
    PROVE  /\ Len(work) \in Nat /\ DOMAIN work = 1..Len(work)
           /\ Len(pendingOps) \in Nat /\ DOMAIN pendingOps = 1..Len(pendingOps)
           /\ \A i \in DOMAIN work : /\ work[i] \in WritebackOps
                                     /\ work[i].path \in Paths
                                     /\ work[i].fd \in Fds
                                     /\ work[i].kind \in Kinds
           /\ \A i \in DOMAIN pendingOps : /\ pendingOps[i] \in WritebackOps
                                           /\ pendingOps[i].path \in Paths
                                           /\ pendingOps[i].fd \in Fds
                                           /\ pendingOps[i].kind \in Kinds
           /\ work # <<>> => /\ 1 \in DOMAIN work
                             /\ Head(work) = work[1]
                             /\ Tail(work) \in Seq(WritebackOps)
                             /\ DOMAIN Tail(work) = 1..(Len(work) - 1)
                             /\ Len(Tail(work)) = Len(work) - 1
                             /\ \A i \in 1..(Len(work) - 1) : Tail(work)[i] = work[i + 1]
           /\ pendingOps # <<>> =>
                /\ 1 \in DOMAIN pendingOps
                /\ Head(pendingOps) = pendingOps[1]
                /\ Tail(pendingOps) \in Seq(WritebackOps)
                /\ DOMAIN Tail(pendingOps) = 1..(Len(pendingOps) - 1)
                /\ \A i \in 1..(Len(pendingOps) - 1) :
                     Tail(pendingOps)[i] = pendingOps[i + 1]
<1> DEFINE Facts(s) ==
             /\ Len(s) \in Nat /\ DOMAIN s = 1..Len(s)
             /\ \A i \in DOMAIN s : /\ s[i] \in WritebackOps
                                    /\ s[i].path \in Paths
                                    /\ s[i].fd \in Fds
                                    /\ s[i].kind \in Kinds
           Split(s) ==
             /\ 1 \in DOMAIN s
             /\ Head(s) = s[1]
             /\ Tail(s) \in Seq(WritebackOps)
             /\ DOMAIN Tail(s) = 1..(Len(s) - 1)
             /\ Len(Tail(s)) = Len(s) - 1
             /\ \A i \in 1..(Len(s) - 1) : Tail(s)[i] = s[i + 1]
<1>1. ASSUME NEW s \in Seq(WritebackOps)
      PROVE  Facts(s)
  <2>1. Len(s) \in Nat /\ DOMAIN s = 1..Len(s)
    BY LenProperties
  <2>2. \A i \in 1..Len(s) : s[i] \in WritebackOps
    BY ElementOfSeq
  <2>3. \A op \in WritebackOps : op.path \in Paths /\ op.fd \in Fds /\ op.kind \in Kinds
    BY DEF WritebackOps
  <2> QED BY <2>1, <2>2, <2>3
<1>2. ASSUME NEW s \in Seq(WritebackOps), s # <<>>
      PROVE  Split(s)
  <2>1. Len(s) \in Nat \ {0} /\ DOMAIN s = 1..Len(s)
    BY EmptySeq, LenProperties, <1>2
  <2>2. /\ Tail(s) \in Seq(WritebackOps)
        /\ Len(Tail(s)) = Len(s) - 1
        /\ \A i \in 1 .. Len(Tail(s)) : Tail(s)[i] = s[i+1]
    BY HeadTailProperties, <1>2
  <2>3. Head(s) = s[1]
    BY <1>2
  <2>4. DOMAIN Tail(s) = 1..Len(Tail(s))
    BY <2>2, LenProperties
  <2> QED BY <2>1, <2>2, <2>3, <2>4
<1>3. work \in Seq(WritebackOps) /\ pendingOps \in Seq(WritebackOps)
  BY DEF TypeOK
<1>4. Facts(work) /\ Facts(pendingOps)
  BY <1>1, <1>3
<1>5. work # <<>> => Split(work)
  BY <1>2, <1>3
<1>6. pendingOps # <<>> => Split(pendingOps)
  BY <1>2, <1>3
<1> QED BY <1>4, <1>5, <1>6

-----------------------------------------------------------------------------
(* The parts of the invariant one by one. *)

LEMMA InitIInv == Init => IInv
<1> SUFFICES ASSUME Init PROVE IInv
  OBVIOUS
<1> USE Constants
<1>1. TypeOK
  <2>1. <<>> \in Seq(WritebackOps)
    BY EmptySeq
  <2>2. 0 \in Versions
    BY DEF Versions
  <2> QED BY <2>1, <2>2 DEF Init, TypeOK, Steps
<1>2. LockOK /\ StepOK /\ SessionOK
  BY DEF Init, LockOK, StepOK, SessionOK, Session
<1>3. Waiting = {} /\ Live = {} /\ DOMAIN work = {} /\ DOMAIN pendingOps = {}
  BY DEF Init, Waiting, Live
<1>4. FdOK
  BY <1>3 DEF Init, FdOK, Session
<1>5. MetaOK
  BY DEF Init, MetaOK, Session
<1>6. Bounded /\ Ordered /\ Covered /\ OpenSeesClosed
  <2>1. local \in [Paths -> {0, None}] /\ server = local /\ writes = 0 /\ buf = None
    BY DEF Init
  <2>2. \A p \in Paths : local[p] # None => local[p] = 0
    BY <2>1
  <2>3. 0..writes = {0}
    BY <2>1
  <2>4. Bounded
    BY <2>1, <2>3 DEF Bounded
  <2>5. Ordered
    BY <2>1, <2>2 DEF Ordered, Init
  <2> QED BY <2>1, <2>4, <2>5 DEF Covered, OpenSeesClosed
<1> QED BY <1>1, <1>2, <1>4, <1>5, <1>6 DEF IInv

-----------------------------------------------------------------------------
(* The type invariant. *)

LEMMA TakeFdType ==
    ASSUME TypeOK, NEW h \in Handles, NEW p \in Paths, TakeFd(h, p)
    PROVE  /\ open' \in [Fds -> Paths \cup {None}]
           /\ meta' \in [Fds -> [path : Paths, dirty : BOOLEAN] \cup {None}]
           /\ pc' \in [Handles -> {"idle", "opening", "fetching", "open", "closed"}]
           /\ fh' \in [Handles -> Fds \cup {None}]
<1>1. LowestFd \in Fds
  BY LowestFdIsFree DEF TakeFd, FreeFds
<1>2. [path |-> p, dirty |-> FALSE] \in [path : Paths, dirty : BOOLEAN]
  OBVIOUS
<1> QED BY <1>1, <1>2 DEF TakeFd, TypeOK

LEMMA AddType ==
    ASSUME TypeOK, NEW h \in Handles, NEW kind \in Kinds, AddNewWriteback(h, kind),
           path[h] \in Paths, fh[h] \in Fds
    PROVE  /\ [path |-> path[h], fd |-> fh[h], kind |-> kind] \in WritebackOps
           /\ pendingOps' \in Seq(WritebackOps)
           /\ Len(pendingOps') = Len(pendingOps) + 1
           /\ DOMAIN pendingOps' = 1..(Len(pendingOps) + 1)
           /\ \A i \in DOMAIN pendingOps : pendingOps'[i] = pendingOps[i]
           /\ pendingOps'[Len(pendingOps) + 1] =
                [path |-> path[h], fd |-> fh[h], kind |-> kind]
<1> DEFINE op == [path |-> path[h], fd |-> fh[h], kind |-> kind]
<1>1. op \in WritebackOps
  BY DEF WritebackOps
<1>2. pendingOps \in Seq(WritebackOps) /\ pendingOps' = Append(pendingOps, op)
  BY DEF TypeOK, AddNewWriteback
<1> HIDE DEF op
<1>3. /\ pendingOps' \in Seq(WritebackOps)
      /\ Len(pendingOps') = Len(pendingOps) + 1
      /\ \A i \in 1..Len(pendingOps) : pendingOps'[i] = pendingOps[i]
      /\ pendingOps'[Len(pendingOps) + 1] = op
  BY <1>1, <1>2, AppendProperties
<1>4. DOMAIN pendingOps' = 1..Len(pendingOps') /\ DOMAIN pendingOps = 1..Len(pendingOps)
  BY <1>2, <1>3, LenProperties
<1> QED BY <1>1, <1>3, <1>4 DEF op

LEMMA NextOpType ==
    ASSUME TypeOK, LockOK, work # <<>>, NextOp
    PROVE  /\ work' \in Seq(WritebackOps)
           /\ step' \in Steps
           /\ buf' = None
           /\ lock' \in Handles \cup {Dog, Main, None}
           /\ work' # <<>> => lock' # None
<1>1. work' \in Seq(WritebackOps) /\ Len(work') = Len(work) - 1 /\ Len(work) \in Nat
  BY Lists DEF NextOp
<1>2. lock # None
  BY DEF TypeOK
<1>3. work' # <<>> => lock' # None
  <2>1. lock = Dog => Len(work') = 0
    BY <1>1 DEF LockOK
  <2>2. work' # <<>> => Len(work') # 0
    BY <1>1, EmptySeq
  <2> QED BY <2>1, <2>2, <1>2 DEF NextOp
<1> QED BY <1>1, <1>3, Constants DEF NextOp, TypeOK, Steps

LEMMA WrittenBackType ==
    ASSUME TypeOK, LockOK, work # <<>>, NEW op, WrittenBack(op)
    PROVE  /\ work' \in Seq(WritebackOps)
           /\ step' \in Steps
           /\ buf' = None
           /\ lock' \in Handles \cup {Dog, Main, None}
           /\ work' # <<>> => lock' # None
<1>1. CASE op.kind = "CLOSE"
  BY <1>1 DEF WrittenBack, TypeOK, Steps
<1>2. CASE op.kind # "CLOSE"
  BY <1>2, NextOpType DEF WrittenBack
<1> QED BY <1>1, <1>2

LEMMA OpenDescriptor ==
    ASSUME SessionOK, NEW h \in Handles, Session(h)
    PROVE  path[h] \in Paths /\ fh[h] \in Fds
BY DEF SessionOK, Session

LEMMA HandleStepType ==
    ASSUME TypeOK, LockOK, SessionOK, NEW h \in Handles, HandleStep(h)
    PROVE  TypeOK'
<1> USE Constants
<1>1. ASSUME NEW p \in Paths, Open(h, p)
      PROVE  TypeOK'
  BY <1>1 DEF Open, Starts, TypeOK, fileVars, fdVars, listVars
<1>2. ASSUME NEW p \in Paths, Create(h, p)
      PROVE  TypeOK'
  <2>1. writes + 1 \in Versions /\ writes + 1 \in 0..MaxWrites
    BY <1>2 DEF Create, TypeOK, Versions
  <2>2. TakeFd(h, p)
    BY <1>2 DEF Create
  <2>3. /\ open' \in [Fds -> Paths \cup {None}]
        /\ meta' \in [Fds -> [path : Paths, dirty : BOOLEAN] \cup {None}]
        /\ pc' \in [Handles -> {"idle", "opening", "fetching", "open", "closed"}]
        /\ fh' \in [Handles -> Fds \cup {None}]
    BY <2>2, TakeFdType
  <2> QED BY <1>2, <2>1, <2>3 DEF Create, TypeOK, listVars
<1>3. ASSUME OnFileOp(h) PROVE TypeOK'
  <2>1. OpsOf(pendingOps, {path[h]}) \in Seq(WritebackOps)
    BY OpsOfIsPart DEF PartOf, TypeOK
  <2> QED BY <1>3, <2>1 DEF OnFileOp, TypeOK, fileVars, fdVars, handleVars
<1>4. ASSUME OnFileOpEnds(h) PROVE TypeOK'
  <2>1. OpsOf(pendingOps, Paths \ {path[h]}) \in Seq(WritebackOps)
    BY OpsOfIsPart DEF PartOf, TypeOK
  <2> QED BY <1>4, <2>1 DEF OnFileOpEnds, TypeOK, fileVars, fdVars
<1>5. ASSUME Fetch(h) PROVE TypeOK'
  <2>1. path[h] \in Paths
    BY <1>5 DEF Fetch, SessionOK
  <2>2. TakeFd(h, path[h])
    BY <1>5 DEF Fetch
  <2>3. /\ open' \in [Fds -> Paths \cup {None}]
        /\ meta' \in [Fds -> [path : Paths, dirty : BOOLEAN] \cup {None}]
        /\ pc' \in [Handles -> {"idle", "opening", "fetching", "open", "closed"}]
        /\ fh' \in [Handles -> Fds \cup {None}]
    BY <2>1, <2>2, TakeFdType
  <2> QED BY <1>5, <2>1, <2>3 DEF Fetch, TypeOK, listVars
<1>6. ASSUME Write(h) PROVE TypeOK'
  <2>1. path[h] \in Paths /\ fh[h] \in Fds
    BY <1>6, OpenDescriptor DEF Write, Session
  <2>2. writes + 1 \in Versions /\ writes + 1 \in 0..MaxWrites
    BY <1>6 DEF Write, TypeOK, Versions
  <2>3. meta' \in [Fds -> [path : Paths, dirty : BOOLEAN] \cup {None}]
    <3>1. CASE meta[fh[h]] = None
      BY <3>1, <1>6 DEF Write, TypeOK
    <3>2. CASE meta[fh[h]] # None
      <4>1. meta[fh[h]] \in [path : Paths, dirty : BOOLEAN]
        BY <3>2, <2>1 DEF TypeOK
      <4>2. [meta[fh[h]] EXCEPT !.dirty = TRUE] \in [path : Paths, dirty : BOOLEAN]
        BY <4>1
      <4>3. meta' = [meta EXCEPT ![fh[h]] = [meta[fh[h]] EXCEPT !.dirty = TRUE]]
        BY <3>2, <1>6 DEF Write
      <4> QED BY <4>2, <4>3 DEF TypeOK
    <3> QED BY <3>1, <3>2
  <2> QED BY <1>6, <2>1, <2>2, <2>3 DEF Write, TypeOK, handleVars, listVars
<1>7. ASSUME Flush(h) PROVE TypeOK'
  <2>1. AddNewWriteback(h, "FLUSH") /\ path[h] \in Paths /\ fh[h] \in Fds /\ lock = None
    BY <1>7, OpenDescriptor DEF Flush, Session, AddNewWriteback
  <2>2. pendingOps' \in Seq(WritebackOps)
    BY <2>1, AddType DEF Kinds
  <2> QED BY <1>7, <2>1, <2>2 DEF Flush, AddNewWriteback, TypeOK, fileVars, fdVars
<1>8. ASSUME Release(h) PROVE TypeOK'
  <2>1. AddNewWriteback(h, "CLOSE") /\ path[h] \in Paths /\ fh[h] \in Fds
    BY <1>8, OpenDescriptor DEF Release, Session
  <2>2. pendingOps' \in Seq(WritebackOps)
    BY <2>1, AddType DEF Kinds
  <2> QED BY <1>8, <2>1, <2>2 DEF Release, AddNewWriteback, TypeOK, fileVars, fdVars
<1> QED BY <1>1, <1>2, <1>3, <1>4, <1>5, <1>6, <1>7, <1>8 DEF HandleStep

LEMMA ApplyType ==
    ASSUME TypeOK, LockOK, StepOK, Apply
    PROVE  TypeOK'
<1> USE Constants
<1> DEFINE op == Head(work)
<1>1. /\ work # <<>> /\ op.path \in Paths /\ op.fd \in Fds
      /\ UNCHANGED <<pc, path, fh, pendingOps, phase, writes>>
  BY Lists DEF Apply, handleVars
<1> HIDE DEF op
<1>2. CASE ReadBack(op)
  <2>1. CASE meta[op.fd] # None /\ meta[op.fd].dirty /\ local[meta[op.fd].path] # None
    <3>1. meta[op.fd].path \in Paths
      BY <1>1, <2>1 DEF TypeOK
    <3>2. local[meta[op.fd].path] \in Versions
      BY <2>1, <3>1 DEF TypeOK
    <3>3. buf' \in [path : Paths, version : Versions]
      BY <1>2, <2>1, <3>1, <3>2 DEF ReadBack
    <3> QED BY <1>1, <1>2, <2>1, <3>3 DEF ReadBack, TypeOK, Steps, fileVars, fdVars
  <2>2. CASE ~ (meta[op.fd] # None /\ meta[op.fd].dirty /\ local[meta[op.fd].path] # None)
    <3>1. WrittenBack(op)
      BY <1>2, <2>2 DEF ReadBack
    <3>2. /\ work' \in Seq(WritebackOps) /\ step' \in Steps /\ buf' = None
          /\ lock' \in Handles \cup {Dog, Main, None} /\ (work' # <<>> => lock' # None)
      BY <1>1, <3>1, WrittenBackType
    <3> QED BY <1>1, <1>2, <3>2 DEF ReadBack, TypeOK, fileVars, fdVars
  <2> QED BY <2>1, <2>2
<1>3. CASE Send(op)
  <2>1. buf \in [path : Paths, version : Versions]
    BY <1>3 DEF Send, StepOK, TypeOK
  <2>2. /\ work' \in Seq(WritebackOps) /\ step' \in Steps /\ buf' = None
        /\ lock' \in Handles \cup {Dog, Main, None} /\ (work' # <<>> => lock' # None)
    BY <1>1, <1>3, WrittenBackType DEF Send
  <2> QED BY <1>1, <1>3, <2>1, <2>2 DEF Send, TypeOK, fdVars
<1>4. CASE SendFails(op)
  <2>1. /\ work' \in Seq(WritebackOps) /\ step' \in Steps /\ buf' = None
        /\ lock' \in Handles \cup {Dog, Main, None} /\ (work' # <<>> => lock' # None)
    BY <1>1, <1>4, NextOpType DEF SendFails
  <2> QED BY <1>1, <1>4, <2>1 DEF SendFails, TypeOK, fileVars, fdVars
<1>5. CASE CloseFd(op)
  BY <1>1, <1>5 DEF CloseFd, TypeOK, Steps, fileVars
<1>6. CASE Unmap(op)
  <2>1. /\ work' \in Seq(WritebackOps) /\ step' \in Steps /\ buf' = None
        /\ lock' \in Handles \cup {Dog, Main, None} /\ (work' # <<>> => lock' # None)
    BY <1>1, <1>6, NextOpType DEF Unmap
  <2>2. spoiled' \subseteq Paths
    BY <1>1, <1>6 DEF Unmap, TypeOK
  <2> QED BY <1>1, <1>6, <2>1, <2>2 DEF Unmap, TypeOK, fileVars
<1> QED BY <1>2, <1>3, <1>4, <1>5, <1>6 DEF Apply, op

LEMMA NextType ==
    ASSUME TypeOK, LockOK, StepOK, SessionOK, [Next]_vars
    PROVE  TypeOK'
<1> USE Constants
<1>1. ASSUME NEW h \in Handles, HandleStep(h)
      PROVE  TypeOK'
  BY <1>1, HandleStepType
<1>2. CASE DogPop
  <2>1. CASE pendingOps = <<>>
    BY <1>2, <2>1 DEF DogPop, TypeOK, fileVars, fdVars, handleVars, listVars
  <2>2. CASE pendingOps # <<>>
    <3>1. Tail(pendingOps) \in Seq(WritebackOps) /\ Head(pendingOps) \in WritebackOps
      BY <2>2, Lists
    <3>2. <<Head(pendingOps)>> \in Seq(WritebackOps)
      BY <3>1
    <3> QED BY <1>2, <2>2, <3>1, <3>2 DEF DogPop, TypeOK, fileVars, fdVars, handleVars
  <2> QED BY <2>1, <2>2
<1>3. CASE Apply
  BY <1>3, ApplyType
<1>4. CASE Exit
  BY <1>4 DEF Exit, TypeOK, fileVars, fdVars, handleVars, listVars
<1>5. CASE Join
  BY <1>5 DEF Join, TypeOK, fileVars, fdVars, handleVars
<1>6. CASE DestructorEnds
  <2>1. <<>> \in Seq(WritebackOps)
    BY EmptySeq
  <2> QED BY <1>6, <2>1 DEF DestructorEnds, TypeOK, fileVars, fdVars, handleVars
<1>7. ASSUME NEW p \in Paths, Unlink(p)
      PROVE  TypeOK'
  BY <1>7 DEF Unlink, TypeOK, fdVars, handleVars, listVars
<1>8. ASSUME NEW p \in Paths, NEW q \in Paths, Rename(p, q)
      PROVE  TypeOK'
  BY <1>8 DEF Rename, TypeOK, fdVars, handleVars, listVars
<1>9. CASE UNCHANGED vars
  BY <1>9 DEF vars, TypeOK
<1> QED BY <1>1, <1>2, <1>3, <1>4, <1>5, <1>6, <1>7, <1>8, <1>9 DEF Next

-----------------------------------------------------------------------------
(* Who holds the mutex, and which operations have been taken. *)

LEMMA OpenStep ==
    ASSUME IInv, TypeOK', NEW h \in Handles, NEW p \in Paths, Open(h, p)
    PROVE  IInv'
<1> USE Constants DEF IInv
<1>1. /\ phase = "running" /\ pc[h] = "idle" /\ local[p] # None
      /\ \A g \in Handles : pc[g] # "idle" /\ path[g] = p => pc[g] = "closed"
      /\ pc' = [pc EXCEPT ![h] = "opening"]
      /\ path' = [path EXCEPT ![h] = p]
      /\ UNCHANGED <<fileVars, fdVars, fh, listVars, phase, writes, spoiled>>
  BY DEF Open, Starts, OnPath
<1>2. /\ \A g \in Handles \ {h} : pc'[g] = pc[g] /\ path'[g] = path[g]
      /\ pc'[h] = "opening" /\ path'[h] = p
  BY <1>1 DEF TypeOK
<1>3. lock # h
  BY <1>1 DEF LockOK
<1>4. LockOK'
  BY <1>1, <1>2, <1>3 DEF LockOK, TypeOK, listVars
<1>5. StepOK' /\ Bounded' /\ Ordered'
  BY <1>1 DEF StepOK, Bounded, Ordered, listVars, fileVars
<1>6. SessionOK'
  BY <1>1, <1>2 DEF SessionOK, Session, fileVars, fdVars
<1>7. Waiting' = Waiting /\ Live' = Live
  BY <1>1, <1>2, <1>3 DEF Waiting, Live, listVars, TypeOK
<1>8. \A g \in Handles : Session(g)' <=> Session(g)
  BY <1>1, <1>2 DEF Session
<1>9. FdOK'
  BY <1>1, <1>7, <1>8 DEF FdOK, listVars, fdVars
<1>10. MetaOK'
  BY <1>1, <1>2, <1>8 DEF MetaOK, Session, fdVars
<1>11. Covered'
  <2>1. \A q \in Paths : Owed(q) => Owed(q)'
    BY <1>1, <1>2, <1>7 DEF Owed, Dirty, listVars, fdVars, fileVars
  <2> QED BY <2>1, <1>1 DEF Covered, fileVars
<1>12. OpenSeesClosed'
  BY <1>1, <1>2 DEF OpenSeesClosed, fileVars
<1> QED BY <1>4, <1>5, <1>6, <1>9, <1>10, <1>11, <1>12

LEMMA ExitStep ==
    ASSUME IInv, TypeOK', Exit
    PROVE  IInv'
<1> USE Constants DEF IInv
<1>1. LockOK'
  BY DEF Exit, LockOK, listVars, handleVars
<1>2. /\ StepOK' /\ Bounded' /\ Ordered' /\ SessionOK' /\ FdOK' /\ MetaOK'
      /\ Covered' /\ OpenSeesClosed'
  BY DEF Exit, StepOK, Bounded, Ordered, SessionOK, FdOK, MetaOK, Covered, OpenSeesClosed,
         Session, Waiting, Live, Owed, Dirty, listVars, handleVars, fileVars, fdVars
<1> QED BY <1>1, <1>2

LEMMA StutterStep ==
    ASSUME IInv, TypeOK', UNCHANGED vars
    PROVE  IInv'
BY DEF IInv, vars, LockOK, StepOK, Bounded, Ordered, SessionOK, FdOK, MetaOK, Covered,
       OpenSeesClosed, Session, Waiting, Live, Owed, Dirty

(* The destructor takes the whole list. *)
LEMMA JoinStep ==
    ASSUME IInv, TypeOK', Join
    PROVE  IInv'
<1> USE Constants DEF IInv
<1>1. /\ lock = None /\ work = <<>> /\ step = "read" /\ phase \in {"stopping", "last"}
      /\ lock' = Main /\ work' = pendingOps /\ phase' = "draining" /\ step' = step
      /\ UNCHANGED <<fileVars, fdVars, handleVars, pendingOps, buf, writes, spoiled>>
  BY DEF Join, LockOK, StepOK
<1>2. LockOK' /\ StepOK' /\ Bounded'
  BY <1>1 DEF LockOK, StepOK, Bounded, fileVars, handleVars
<1>3. SessionOK' /\ MetaOK' /\ OpenSeesClosed' /\ Ordered'
  BY <1>1 DEF SessionOK, Session, MetaOK, OpenSeesClosed, Ordered, fileVars, fdVars,
              handleVars
<1>4. Waiting = DOMAIN pendingOps /\ Waiting' = {} /\ Live' = Waiting /\ work' = pendingOps
  BY <1>1 DEF Waiting, Live
<1>5. FdOK'
  BY <1>1, <1>4 DEF FdOK, fdVars, handleVars, Session
<1>6. \A p \in Paths : Owed(p) => Owed(p)'
  BY <1>1, <1>4 DEF Owed, Dirty, fdVars, fileVars, handleVars
<1>7. Covered'
  BY <1>6, <1>1 DEF Covered, fileVars
<1> QED BY <1>2, <1>3, <1>5, <1>7

LEMMA DestructorEndsStep ==
    ASSUME IInv, TypeOK', DestructorEnds
    PROVE  IInv'
<1> USE Constants DEF IInv
<1>1. /\ lock = Main /\ work = <<>> /\ step = "read" /\ phase = "draining"
      /\ lock' = None /\ phase' = "ended" /\ pendingOps' = <<>>
      /\ UNCHANGED <<fileVars, fdVars, handleVars, work, step, buf, writes, spoiled>>
  BY DEF DestructorEnds, LockOK, StepOK
<1>2. LockOK' /\ StepOK' /\ Bounded'
  BY <1>1 DEF LockOK, StepOK, Bounded, fileVars, handleVars
<1>3. SessionOK' /\ MetaOK' /\ OpenSeesClosed' /\ Ordered'
  BY <1>1 DEF SessionOK, Session, MetaOK, OpenSeesClosed, Ordered, fileVars, fdVars,
              handleVars
<1>4. Waiting = {} /\ Waiting' = {} /\ Live = {} /\ Live' = {} /\ DOMAIN work = {}
  BY <1>1 DEF Waiting, Live
<1>5. FdOK'
  BY <1>1, <1>4 DEF FdOK, fdVars, handleVars, Session
<1>6. \A p \in Paths : Owed(p) => Owed(p)'
  BY <1>1, <1>4 DEF Owed, Dirty, fdVars, fileVars, handleVars
<1>7. Covered'
  BY <1>6, <1>1 DEF Covered, fileVars
<1> QED BY <1>2, <1>3, <1>5, <1>7

(* The watchdog takes the first operation. *)
LEMMA DogPopStep ==
    ASSUME IInv, TypeOK', DogPop
    PROVE  IInv'
<1> USE Constants DEF IInv
<1>1. /\ lock = None /\ work = <<>> /\ step = "read" /\ phase \in {"running", "stopping"}
      /\ phase' \in {phase, "last"} /\ (phase = "running" => phase' = phase)
      /\ UNCHANGED <<fileVars, fdVars, handleVars, step, buf, writes, spoiled>>
  BY DEF DogPop, LockOK, StepOK, listVars
<1>2. CASE pendingOps = <<>>
  <2>1. UNCHANGED listVars
    BY <1>2 DEF DogPop
  <2>2. LockOK'
    BY <1>1, <2>1 DEF LockOK, listVars, handleVars
  <2>3. /\ StepOK' /\ Bounded' /\ Ordered' /\ SessionOK' /\ FdOK' /\ MetaOK'
        /\ Covered' /\ OpenSeesClosed'
    BY <1>1, <2>1 DEF StepOK, Bounded, Ordered, SessionOK, FdOK, MetaOK, Covered,
         OpenSeesClosed, Session, Waiting, Live, Owed, Dirty, listVars, handleVars,
         fileVars, fdVars
  <2> QED BY <2>2, <2>3
<1>3. CASE pendingOps # <<>>
  <2>1. /\ lock' = Dog /\ work' = <<pendingOps[1]>> /\ pendingOps' = Tail(pendingOps)
        /\ 1 \in DOMAIN pendingOps
        /\ Len(pendingOps) \in Nat
        /\ DOMAIN pendingOps = 1..Len(pendingOps)
        /\ DOMAIN pendingOps' = 1..(Len(pendingOps) - 1)
        /\ \A i \in DOMAIN pendingOps' : pendingOps'[i] = pendingOps[i + 1]
    BY <1>3, Lists DEF DogPop
  <2>2. /\ DOMAIN work' = {1} /\ Len(work') = 1 /\ work'[1] = pendingOps[1]
        /\ work' # <<>>
    BY <2>1
  <2>3. Waiting = DOMAIN pendingOps /\ Waiting' = DOMAIN pendingOps' /\ Live' = {1}
    BY <1>1, <2>1, <2>2 DEF Waiting, Live
  <2>4. /\ \A i \in DOMAIN pendingOps' : i + 1 \in DOMAIN pendingOps /\ i + 1 > 1
        /\ \A i \in DOMAIN pendingOps : i = 1 \/ i - 1 \in DOMAIN pendingOps'
    BY <2>1
  <2>5. LockOK' /\ StepOK' /\ Bounded'
    BY <1>1, <2>1, <2>2 DEF LockOK, StepOK, Bounded, fileVars, handleVars
  <2>6. SessionOK' /\ MetaOK' /\ OpenSeesClosed' /\ Ordered'
    BY <1>1 DEF SessionOK, Session, MetaOK, OpenSeesClosed, Ordered, fileVars, fdVars,
                handleVars
  <2>7. FdOK'
    <3>1. /\ \A i \in Live' : open'[work'[i].fd] = work'[i].path
          /\ \A i \in Waiting' : open'[pendingOps'[i].fd] = pendingOps'[i].path
      BY <1>1, <2>1, <2>2, <2>3, <2>4 DEF FdOK, fdVars
    <3>2. \A i, j \in Waiting' :
            i < j /\ pendingOps'[i].fd = pendingOps'[j].fd => pendingOps'[i].kind = "FLUSH"
      <4> TAKE i, j \in Waiting'
      <4>1. i + 1 \in Waiting /\ j + 1 \in Waiting /\ (i < j => i + 1 < j + 1)
        BY <2>1, <2>3, <2>4
      <4> QED BY <4>1, <2>1, <2>3 DEF FdOK
    <3>3. \A i \in DOMAIN work' : \A j \in Waiting' :
            work'[i].fd = pendingOps'[j].fd => work'[i].kind = "FLUSH"
      <4> TAKE i \in DOMAIN work'
      <4> TAKE j \in Waiting'
      <4>1. j + 1 \in Waiting /\ 1 \in Waiting /\ 1 < j + 1 /\ i = 1
        BY <2>1, <2>2, <2>3, <2>4
      <4> QED BY <4>1, <2>1, <2>2, <2>3 DEF FdOK
    <3>4. \A h \in Handles : Session(h)' =>
            /\ \A i \in Live' : work'[i].fd = fh'[h] => work'[i].kind = "FLUSH"
            /\ \A i \in Waiting' : pendingOps'[i].fd = fh'[h] => pendingOps'[i].kind = "FLUSH"
      BY <1>1, <2>1, <2>2, <2>3, <2>4 DEF FdOK, Session, handleVars
    <3>5. \A i, j \in DOMAIN work' :
            i < j /\ work'[i].fd = work'[j].fd => work'[i].kind = "FLUSH"
      BY <2>2
    <3> QED BY <3>1, <3>2, <3>3, <3>4, <3>5 DEF FdOK
  <2>8. \A p \in Paths : Owed(p) => Owed(p)'
    <3> SUFFICES ASSUME NEW p \in Paths, Owed(p)
                 PROVE  Owed(p)'
      OBVIOUS
    <3>1. CASE \E h \in Handles : pc[h] = "open" /\ path[h] = p /\ Dirty(fh[h])
      BY <3>1, <1>1 DEF Owed, Dirty, fdVars, handleVars
    <3>2. ASSUME NEW i \in Waiting, pendingOps[i].path = p, Dirty(pendingOps[i].fd)
          PROVE  Owed(p)'
      <4>1. CASE i = 1
        BY <4>1, <3>2, <1>1, <2>2 DEF Owed, Dirty, fdVars
      <4>2. CASE i # 1
        <5>1. /\ i - 1 \in Waiting'
              /\ pendingOps'[i - 1] = pendingOps[i]
          BY <4>2, <2>1, <2>3, <2>4
        <5> QED BY <5>1, <3>2, <1>1 DEF Owed, Dirty, fdVars
      <4> QED BY <4>1, <4>2
    <3> QED BY <3>1, <3>2, <1>1 DEF Owed
  <2>9. Covered'
    BY <2>8, <1>1 DEF Covered, fileVars
  <2> QED BY <2>5, <2>6, <2>7, <2>9
<1> QED BY <1>2, <1>3

LEMMA OnFileOpStep ==
    ASSUME IInv, TypeOK', NEW h \in Handles, OnFileOp(h)
    PROVE  IInv'
<1> USE Constants DEF IInv
<1>1. /\ lock = None /\ work = <<>> /\ step = "read" /\ pc[h] = "opening"
      /\ path[h] \in Paths
      /\ lock' = h /\ work' = OpsOf(pendingOps, {path[h]})
      /\ UNCHANGED <<fileVars, fdVars, handleVars, pendingOps, step, buf, phase, writes, spoiled>>
  BY DEF OnFileOp, LockOK, StepOK, SessionOK
<1>2. PartOf(pendingOps, {path[h]}, Len(pendingOps), work')
  BY <1>1, OpsOfIsPart DEF TypeOK
<1>3. /\ DOMAIN work' = 1..Len(work') /\ DOMAIN pendingOps = 1..Len(pendingOps)
      /\ Len(pendingOps) \in Nat /\ Len(work') \in Nat
  BY <1>2, LenProperties DEF PartOf, TypeOK
<1>4. /\ \A i \in DOMAIN work' :
           work'[i].path = path[h] /\ \E k \in DOMAIN pendingOps : pendingOps[k] = work'[i]
      /\ \A i, j \in DOMAIN work' : i < j =>
           \E k, l \in DOMAIN pendingOps :
             k < l /\ pendingOps[k] = work'[i] /\ pendingOps[l] = work'[j]
      /\ \A k \in DOMAIN pendingOps :
           pendingOps[k].path = path[h] => \E i \in DOMAIN work' : work'[i] = pendingOps[k]
  BY <1>2, <1>3 DEF PartOf
<1>5. /\ Waiting = DOMAIN pendingOps
      /\ Waiting' = {i \in DOMAIN pendingOps : pendingOps[i].path # path[h]}
      /\ Live' = DOMAIN work'
  BY <1>1 DEF Waiting, Live, handleVars
<1>6. LockOK' /\ StepOK' /\ Bounded'
  BY <1>1, <1>4 DEF LockOK, StepOK, Bounded, fileVars, handleVars
<1>7. SessionOK' /\ MetaOK' /\ OpenSeesClosed' /\ Ordered'
  BY <1>1 DEF SessionOK, Session, MetaOK, OpenSeesClosed, Ordered, fileVars, fdVars,
              handleVars
<1>8. FdOK'
  <2>1. /\ \A i \in Live' : open'[work'[i].fd] = work'[i].path
        /\ \A i \in Waiting' : open'[pendingOps'[i].fd] = pendingOps'[i].path
    <3>1. ASSUME NEW i \in Live'
          PROVE  open'[work'[i].fd] = work'[i].path
      <4>1. PICK k \in Waiting : pendingOps[k] = work'[i]
        BY <1>4, <1>5
      <4>2. open[pendingOps[k].fd] = pendingOps[k].path
        BY DEF FdOK
      <4> QED BY <4>1, <4>2, <1>1 DEF fdVars
    <3>2. ASSUME NEW i \in Waiting'
          PROVE  open'[pendingOps'[i].fd] = pendingOps'[i].path
      <4>1. i \in Waiting
        BY <1>5
      <4>2. open[pendingOps[i].fd] = pendingOps[i].path
        BY <4>1 DEF FdOK
      <4> QED BY <4>2, <1>1 DEF fdVars
    <3> QED BY <3>1, <3>2
  <2>2. ASSUME NEW i \in DOMAIN work', NEW j \in DOMAIN work', i < j,
               work'[i].fd = work'[j].fd
        PROVE  work'[i].kind = "FLUSH"
    <3>1. PICK k \in DOMAIN pendingOps, l \in DOMAIN pendingOps :
            k < l /\ pendingOps[k] = work'[i] /\ pendingOps[l] = work'[j]
      BY <2>2, <1>4
    <3> QED BY <3>1, <2>2, <1>5 DEF FdOK
  <2>3. \A i, j \in Waiting' :
          i < j /\ pendingOps'[i].fd = pendingOps'[j].fd => pendingOps'[i].kind = "FLUSH"
    BY <1>1, <1>5 DEF FdOK
  <2>4. ASSUME NEW i \in DOMAIN work', NEW j \in Waiting'
        PROVE  work'[i].fd # pendingOps'[j].fd
    <3>1. open'[work'[i].fd] = path[h]
      BY <2>1, <1>4, <1>5
    <3>2. open'[pendingOps'[j].fd] # path[h]
      BY <2>1, <1>1, <1>5
    <3> QED BY <3>1, <3>2
  <2>5. ASSUME NEW g \in Handles, Session(g)'
        PROVE  /\ \A i \in Live' : work'[i].fd = fh'[g] => work'[i].kind = "FLUSH"
               /\ \A i \in Waiting' :
                    pendingOps'[i].fd = fh'[g] => pendingOps'[i].kind = "FLUSH"
    <3>1. Session(g) /\ fh'[g] = fh[g]
      BY <2>5, <1>1 DEF Session, handleVars
    <3>2. \A i \in Waiting : pendingOps[i].fd = fh[g] => pendingOps[i].kind = "FLUSH"
      BY <3>1 DEF FdOK
    <3>3. ASSUME NEW i \in Live', work'[i].fd = fh'[g]
          PROVE  work'[i].kind = "FLUSH"
      <4>1. PICK k \in Waiting : pendingOps[k] = work'[i]
        BY <1>4, <1>5
      <4> QED BY <4>1, <3>1, <3>2, <3>3
    <3>4. \A i \in Waiting' : i \in Waiting /\ pendingOps'[i] = pendingOps[i]
      BY <1>1, <1>5
    <3> QED BY <3>1, <3>2, <3>3, <3>4
  <2> QED BY <2>1, <2>2, <2>3, <2>4, <2>5 DEF FdOK
<1>9. \A p \in Paths : Owed(p) => Owed(p)'
  <2> SUFFICES ASSUME NEW p \in Paths, Owed(p)
               PROVE  Owed(p)'
    OBVIOUS
  <2>1. CASE \E g \in Handles : pc[g] = "open" /\ path[g] = p /\ Dirty(fh[g])
    BY <2>1, <1>1 DEF Owed, Dirty, fdVars, handleVars
  <2>2. ASSUME NEW k \in Waiting, pendingOps[k].path = p, Dirty(pendingOps[k].fd)
        PROVE  Owed(p)'
    <3>1. CASE p = path[h]
      <4>1. PICK i \in DOMAIN work' : work'[i] = pendingOps[k]
        BY <3>1, <2>2, <1>4, <1>5
      <4> QED BY <4>1, <2>2, <1>1 DEF Owed, Dirty, fdVars
    <3>2. CASE p # path[h]
      <4>1. k \in Waiting'
        BY <3>2, <2>2, <1>5
      <4> QED BY <4>1, <2>2, <1>1 DEF Owed, Dirty, fdVars
    <3> QED BY <3>1, <3>2
  <2>3. DOMAIN work = {} /\ step # "send"
    BY <1>1
  <2> QED BY <2>1, <2>2, <2>3 DEF Owed
<1>10. Covered'
  BY <1>9, <1>1 DEF Covered, fileVars
<1> QED BY <1>6, <1>7, <1>8, <1>10

(* All that was left of the path has been applied: the server has what the *)
(* copy has.                                                               *)
LEMMA OnFileOpEndsStep ==
    ASSUME IInv, TypeOK', NEW h \in Handles, OnFileOpEnds(h)
    PROVE  IInv'
<1> USE Constants DEF IInv
<1>1. /\ lock = h /\ work = <<>> /\ step = "read" /\ pc[h] = "opening"
      /\ path[h] \in Paths /\ lock' = None /\ phase = "running"
      /\ pendingOps' = OpsOf(pendingOps, Paths \ {path[h]})
      /\ pc' = [pc EXCEPT ![h] = "fetching"]
      /\ UNCHANGED <<fileVars, fdVars, path, fh, work, step, buf, phase, writes, spoiled>>
  BY DEF OnFileOpEnds, LockOK, StepOK, SessionOK
<1>2. PartOf(pendingOps, Paths \ {path[h]}, Len(pendingOps), pendingOps')
  BY <1>1, OpsOfIsPart DEF TypeOK
<1>3. /\ DOMAIN pendingOps' = 1..Len(pendingOps')
      /\ DOMAIN pendingOps = 1..Len(pendingOps)
      /\ Len(pendingOps) \in Nat /\ Len(pendingOps') \in Nat
  BY <1>2, LenProperties DEF PartOf, TypeOK
<1>4. /\ Waiting = {i \in DOMAIN pendingOps : pendingOps[i].path # path[h]}
      /\ Waiting' = DOMAIN pendingOps'
      /\ Live = {} /\ Live' = {} /\ DOMAIN work = {}
  <2>1. DOMAIN work = {} /\ work' = work /\ lock \notin {None, Dog} /\ lock \in Handles
    BY <1>1
  <2> QED BY <2>1, <1>1 DEF Waiting, Live
<1>5. \A k \in DOMAIN pendingOps :
        pendingOps[k].path \in Paths \ {path[h]} <=> k \in Waiting
  BY <1>4, Lists
<1>6. /\ \A i \in Waiting' : \E k \in Waiting : pendingOps[k] = pendingOps'[i]
      /\ \A i, j \in Waiting' : i < j =>
           \E k, l \in Waiting :
             k < l /\ pendingOps[k] = pendingOps'[i] /\ pendingOps[l] = pendingOps'[j]
      /\ \A k \in Waiting : \E i \in Waiting' : pendingOps'[i] = pendingOps[k]
  <2>1. \A i \in Waiting' : /\ pendingOps'[i].path \in Paths \ {path[h]}
                            /\ \E k \in DOMAIN pendingOps : pendingOps[k] = pendingOps'[i]
    BY <1>2, <1>3, <1>4 DEF PartOf
  <2>2. \A i, j \in Waiting' : i < j =>
           \E k, l \in DOMAIN pendingOps :
             k < l /\ pendingOps[k] = pendingOps'[i] /\ pendingOps[l] = pendingOps'[j]
    <3> TAKE i, j \in Waiting'
    <3>1. i \in 1..Len(pendingOps') /\ j \in 1..Len(pendingOps')
      BY <1>3, <1>4
    <3>2. i < j => \E k, l \in 1..Len(pendingOps) :
             k < l /\ pendingOps[k] = pendingOps'[i] /\ pendingOps[l] = pendingOps'[j]
      BY <3>1, <1>2 DEF PartOf
    <3> QED BY <3>2, <1>3
  <2>3. \A k \in DOMAIN pendingOps :
          pendingOps[k].path \in Paths \ {path[h]} =>
             \E i \in Waiting' : pendingOps'[i] = pendingOps[k]
    BY <1>2, <1>3, <1>4 DEF PartOf
  <2>4. \A i \in Waiting' : \E k \in Waiting : pendingOps[k] = pendingOps'[i]
    BY <2>1, <1>5
  <2>5. \A k \in Waiting : \E i \in Waiting' : pendingOps'[i] = pendingOps[k]
    BY <2>3, <1>4, <1>5
  <2>6. ASSUME NEW i \in Waiting', NEW j \in Waiting', i < j
        PROVE  \E k, l \in Waiting :
                 k < l /\ pendingOps[k] = pendingOps'[i] /\ pendingOps[l] = pendingOps'[j]
    <3>1. PICK k \in DOMAIN pendingOps, l \in DOMAIN pendingOps :
            k < l /\ pendingOps[k] = pendingOps'[i] /\ pendingOps[l] = pendingOps'[j]
      BY <2>2, <2>6
    <3>2. k \in Waiting /\ l \in Waiting
      BY <3>1, <2>1, <1>5
    <3> QED BY <3>1, <3>2
  <2> QED BY <2>4, <2>5, <2>6
<1>7. /\ pc'[h] = "fetching" /\ \A g \in Handles \ {h} : pc'[g] = pc[g]
      /\ \A g \in Handles : Session(g)' <=> Session(g)
      /\ \A g \in Handles : pc'[g] = "idle" <=> pc[g] = "idle"
  BY <1>1 DEF TypeOK, Session
<1>8. LockOK' /\ StepOK' /\ Bounded'
  BY <1>1 DEF LockOK, StepOK, Bounded, fileVars
<1>9. SessionOK'
  BY <1>1, <1>7 DEF SessionOK, fileVars, fdVars
<1>10. MetaOK'
  BY <1>1, <1>7 DEF MetaOK, fdVars
<1>11. Ordered'
  BY <1>1 DEF Ordered, fileVars
<1>12. FdOK'
  <2>1. \A i \in Waiting' : open'[pendingOps'[i].fd] = pendingOps'[i].path
    <3> TAKE i \in Waiting'
    <3>1. PICK k \in Waiting : pendingOps[k] = pendingOps'[i]
      BY <1>6
    <3>2. open[pendingOps[k].fd] = pendingOps[k].path
      BY DEF FdOK
    <3> QED BY <3>1, <3>2, <1>1 DEF fdVars
  <2>2. ASSUME NEW i \in Waiting', NEW j \in Waiting', i < j,
               pendingOps'[i].fd = pendingOps'[j].fd
        PROVE  pendingOps'[i].kind = "FLUSH"
    <3>1. PICK k \in Waiting, l \in Waiting :
            k < l /\ pendingOps[k] = pendingOps'[i] /\ pendingOps[l] = pendingOps'[j]
      BY <2>2, <1>6
    <3> QED BY <3>1, <2>2 DEF FdOK
  <2>3. ASSUME NEW g \in Handles, Session(g)'
        PROVE  \A i \in Waiting' :
                 pendingOps'[i].fd = fh'[g] => pendingOps'[i].kind = "FLUSH"
    <3>1. Session(g) /\ fh'[g] = fh[g]
      BY <2>3, <1>1, <1>7
    <3>2. \A i \in Waiting : pendingOps[i].fd = fh[g] => pendingOps[i].kind = "FLUSH"
      BY <3>1 DEF FdOK
    <3> TAKE i \in Waiting'
    <3>3. PICK k \in Waiting : pendingOps[k] = pendingOps'[i]
      BY <1>6
    <3> QED BY <3>1, <3>2, <3>3
  <2> QED BY <2>1, <2>2, <2>3, <1>1, <1>4 DEF FdOK
<1>13. \A p \in Paths : Owed(p) => Owed(p)'
  <2> SUFFICES ASSUME NEW p \in Paths, Owed(p)
               PROVE  Owed(p)'
    OBVIOUS
  <2>1. ASSUME NEW g \in Handles, pc[g] = "open", path[g] = p, Dirty(fh[g])
        PROVE  Owed(p)'
    BY <2>1, <1>1, <1>7 DEF Owed, Dirty, fdVars
  <2>2. ASSUME NEW k \in Waiting, pendingOps[k].path = p, Dirty(pendingOps[k].fd)
        PROVE  Owed(p)'
    <3>1. PICK i \in Waiting' : pendingOps'[i] = pendingOps[k]
      BY <2>2, <1>6
    <3> QED BY <3>1, <2>2, <1>1 DEF Owed, Dirty, fdVars
  <2> QED BY <2>1, <2>2, <1>1, <1>4 DEF Owed
<1>14. Covered'
  BY <1>13, <1>1 DEF Covered, fileVars
<1>15. ~ Owed(path[h])
  <2>1. ~ \E g \in Handles : pc[g] = "open" /\ path[g] = path[h]
    BY <1>1 DEF SessionOK
  <2> QED BY <2>1, <1>1, <1>4 DEF Owed
<1>16. OpenSeesClosed'
  BY <1>1, <1>7, <1>15 DEF OpenSeesClosed, Covered, fileVars
<1> QED BY <1>8, <1>9, <1>10, <1>11, <1>12, <1>14, <1>16

-----------------------------------------------------------------------------
(* Sessions. *)

(* A new session gets a descriptor that nobody is using. *)
LEMMA NewSession ==
    ASSUME IInv, TypeOK', NEW h \in Handles, NEW p \in Paths,
           TakeFd(h, p), pc[h] \in {"idle", "fetching"}, phase = "running",
           \A g \in Handles \ {h} : pc[g] # "idle" /\ path[g] = p => pc[g] = "closed",
           path' = [path EXCEPT ![h] = p],
           local'[p] # None, \A q \in Paths \ {p} : local'[q] = local[q],
           spoiled \subseteq spoiled',
           UNCHANGED <<listVars, phase>>
    PROVE  /\ LockOK' /\ StepOK' /\ SessionOK' /\ FdOK' /\ MetaOK'
           /\ \A q \in Paths : Owed(q) /\ local'[q] = local[q] => Owed(q)'
<1> USE Constants DEF IInv
<1> DEFINE n == LowestFd
<1>1. /\ n \in Fds /\ open[n] = None
      /\ open' = [open EXCEPT ![n] = p]
      /\ meta' = [meta EXCEPT ![n] = [path |-> p, dirty |-> FALSE]]
      /\ fh' = [fh EXCEPT ![h] = n]
      /\ pc' = [pc EXCEPT ![h] = "open"]
  BY LowestFdIsFree DEF TakeFd, FreeFds
<1> HIDE DEF n
<1>2. /\ pc'[h] = "open" /\ path'[h] = p /\ fh'[h] = n
      /\ \A g \in Handles \ {h} : pc'[g] = pc[g] /\ path'[g] = path[g] /\ fh'[g] = fh[g]
      /\ open'[n] = p /\ meta'[n] = [path |-> p, dirty |-> FALSE]
      /\ \A m \in Fds \ {n} : open'[m] = open[m] /\ meta'[m] = meta[m]
  BY <1>1 DEF TypeOK
<1>3. ~ Session(h) /\ lock # h /\ Session(h)' /\ \A g \in Handles \ {h} : Session(g)' <=> Session(g)
  BY <1>2 DEF Session, LockOK
<1>4. Waiting' = Waiting /\ Live' = Live /\ UNCHANGED <<pendingOps, lock, work, step, buf>>
  BY <1>2, <1>3 DEF Waiting, Live, listVars
<1>5. /\ \A i \in Live : work[i].fd # n /\ work[i].fd \in Fds
      /\ \A i \in Waiting : pendingOps[i].fd # n /\ pendingOps[i].fd \in Fds
      /\ \A g \in Handles : Session(g) => fh[g] # n /\ fh[g] \in Fds /\ path[g] \in Paths
  <2>1. \A i \in Live : open[work[i].fd] # None /\ work[i].fd \in Fds
    BY Lists DEF FdOK, Live
  <2>2. \A i \in Waiting : open[pendingOps[i].fd] # None /\ pendingOps[i].fd \in Fds
    BY Lists DEF FdOK, Waiting
  <2>3. \A g \in Handles : Session(g) => open[fh[g]] # None /\ fh[g] \in Fds /\ path[g] \in Paths
    BY DEF SessionOK, Session
  <2> QED BY <2>1, <2>2, <2>3, <1>1
<1>6. LockOK'
  BY <1>2, <1>3, <1>4 DEF LockOK
<1>7. StepOK'
  BY <1>4 DEF StepOK
<1>8. SessionOK'
  <2>1. \A g \in Handles : pc'[g] # "idle" => path'[g] \in Paths /\ local'[path'[g]] # None
    BY <1>2 DEF SessionOK
  <2>2. \A g \in Handles : Session(g)' => fh'[g] \in Fds /\ open'[fh'[g]] = path'[g]
    BY <1>1, <1>2, <1>3, <1>5 DEF SessionOK
  <2>3. \A f, g \in Handles : Session(f)' /\ Session(g)' /\ fh'[f] = fh'[g] => f = g
    BY <1>2, <1>3, <1>5 DEF SessionOK
  <2>4. \A f, g \in Handles :
          f # g /\ pc'[f] # "idle" /\ pc'[g] # "idle" /\ path'[f] = path'[g] =>
             pc'[f] = "closed" \/ pc'[g] = "closed"
    BY <1>2 DEF SessionOK
  <2> QED BY <2>1, <2>2, <2>3, <2>4 DEF SessionOK
<1>9. FdOK'
  <2>1. /\ \A i \in Live' : open'[work'[i].fd] = work'[i].path
        /\ \A i \in Waiting' : open'[pendingOps'[i].fd] = pendingOps'[i].path
    BY <1>2, <1>4, <1>5 DEF FdOK
  <2>2. \A g \in Handles : Session(g)' =>
         /\ \A i \in Live' : work'[i].fd = fh'[g] => work'[i].kind = "FLUSH"
         /\ \A i \in Waiting' : pendingOps'[i].fd = fh'[g] => pendingOps'[i].kind = "FLUSH"
    BY <1>2, <1>3, <1>4, <1>5 DEF FdOK
  <2> QED BY <2>1, <2>2, <1>4 DEF FdOK
<1>10. MetaOK'
  <2>1. \A m \in Fds : open'[m] # None /\ meta'[m] # None => meta'[m].path = open'[m]
    BY <1>2 DEF MetaOK
  <2>2. \A g \in Handles : Session(g)' /\ path'[g] \notin spoiled' => meta'[fh'[g]] # None
    <3> SUFFICES ASSUME NEW g \in Handles, Session(g)', path'[g] \notin spoiled'
                 PROVE  meta'[fh'[g]] # None
      OBVIOUS
    <3>1. CASE g = h
      <4>1. [path |-> p, dirty |-> FALSE] # None
        <5>1. [path |-> p, dirty |-> FALSE] \in [path : Paths, dirty : BOOLEAN]
          OBVIOUS
        <5> QED BY <5>1
      <4> QED BY <3>1, <4>1, <1>2
    <3>2. CASE g # h
      BY <3>2, <1>2, <1>3, <1>5 DEF MetaOK
    <3> QED BY <3>1, <3>2
  <2> QED BY <2>1, <2>2 DEF MetaOK
<1>11. ASSUME NEW q \in Paths, Owed(q), local'[q] = local[q]
       PROVE  Owed(q)'
  <2>1. ASSUME NEW g \in Handles, pc[g] = "open", path[g] = q, Dirty(fh[g])
        PROVE  Owed(q)'
    <3>1. g # h /\ fh[g] \in Fds \ {n}
      BY <2>1, <1>5 DEF Session
    <3> QED BY <3>1, <2>1, <1>2 DEF Owed, Dirty
  <2>2. ASSUME NEW i \in Waiting, pendingOps[i].path = q, Dirty(pendingOps[i].fd)
        PROVE  Owed(q)'
    BY <2>2, <1>2, <1>4, <1>5 DEF Owed, Dirty
  <2>3. ASSUME NEW i \in DOMAIN work, work[i].path = q, i # 1 \/ step = "read",
               Dirty(work[i].fd)
        PROVE  Owed(q)'
    <3>1. work[i].fd \in Fds \ {n}
      BY <2>3, <1>5 DEF Live
    <3> QED BY <3>1, <2>3, <1>2, <1>4 DEF Owed, Dirty
  <2>4. ASSUME step = "send", work[1].path = q, buf.version = local[q]
        PROVE  Owed(q)'
    BY <2>4, <1>11, <1>4 DEF Owed
  <2> QED BY <2>1, <2>2, <2>3, <2>4, <1>11 DEF Owed
<1> QED BY <1>6, <1>7, <1>8, <1>9, <1>10, <1>11

LEMMA NoneIsNoVersion ==
    ASSUME TypeOK
    PROVE  None \notin 0..writes /\ writes \in Nat /\ 0..writes \subseteq Versions
BY Constants DEF TypeOK, Versions

(* The server's file is the copy, so that the download changes nothing. *)
LEMMA FetchStep ==
    ASSUME IInv, TypeOK', NEW h \in Handles, Fetch(h)
    PROVE  /\ IInv'
           /\ path[h] \notin spoiled => local' = local
<1> USE Constants DEF IInv
<1> DEFINE p == path[h]
<1>1. /\ pc[h] = "fetching" /\ p \in Paths /\ local[p] # None /\ phase = "running"
      /\ local' = IF p \in newer /\ server[p] # None
                  THEN [local EXCEPT ![p] = server[p]] ELSE local
      /\ TakeFd(h, p)
      /\ path' = [path EXCEPT ![h] = p]
      /\ UNCHANGED <<server, listVars, phase, writes, spoiled>>
  <2>1. path' = path /\ path = [path EXCEPT ![h] = path[h]]
    BY DEF Fetch, TypeOK
  <2> QED BY <2>1 DEF Fetch, SessionOK, LockOK
<1> HIDE DEF p
<1>2. local'[p] # None /\ \A q \in Paths \ {p} : local'[q] = local[q]
  BY <1>1 DEF TypeOK
<1>3. p \notin spoiled => local'[p] = local[p]
  <2>1. p \notin spoiled => server[p] = local[p]
    BY <1>1 DEF OpenSeesClosed, p
  <2> QED BY <2>1, <1>1 DEF TypeOK
<1>4. \A g \in Handles \ {h} : pc[g] # "idle" /\ path[g] = p => pc[g] = "closed"
  BY <1>1 DEF SessionOK, p
<1>5. /\ LockOK' /\ StepOK' /\ SessionOK' /\ FdOK' /\ MetaOK'
      /\ \A q \in Paths : Owed(q) /\ local'[q] = local[q] => Owed(q)'
  BY <1>1, <1>2, <1>4, NewSession
<1>6. Bounded'
  <2>1. local' \in [Paths -> (0..writes) \cup {None}]
    BY <1>1 DEF Bounded
  <2> QED BY <2>1, <1>1 DEF Bounded, listVars
<1>7. \A q \in Paths \ spoiled : local'[q] = local[q]
  BY <1>2, <1>3
<1>8. Ordered'
  <2>1. step = "send" => work[1].path \in Paths
    BY Lists DEF StepOK
  <2> QED BY <2>1, <1>1, <1>7 DEF Ordered, listVars
<1>9. Covered'
  BY <1>1, <1>5, <1>7 DEF Covered
<1>10. pc' = [pc EXCEPT ![h] = "open"]
  BY <1>1 DEF TakeFd
<1>11. OpenSeesClosed'
  <2> SUFFICES ASSUME NEW g \in Handles, pc'[g] = "fetching", path'[g] \notin spoiled'
               PROVE  server'[path'[g]] = local'[path'[g]]
    BY DEF OpenSeesClosed
  <2>1. g # h /\ pc[g] = "fetching" /\ path'[g] = path[g] /\ path[g] \in Paths
    BY <1>1, <1>10 DEF TypeOK, SessionOK
  <2> QED BY <2>1, <1>1, <1>7 DEF OpenSeesClosed
<1>12. p \notin spoiled => local' = local
  BY <1>1, <1>2, <1>3 DEF TypeOK
<1> QED BY <1>5, <1>6, <1>8, <1>9, <1>11, <1>12 DEF p

(* A path that is created is up to date, unless operations from before the *)
(* file was removed are still to come.                                     *)
LEMMA CreateStep ==
    ASSUME IInv, TypeOK', NEW h \in Handles, NEW p \in Paths, Create(h, p)
    PROVE  IInv'
<1> USE Constants DEF IInv
<1>1. /\ pc[h] = "idle" /\ local[p] = None /\ server[p] = None /\ phase = "running"
      /\ writes' = writes + 1
      /\ local' = [local EXCEPT ![p] = writes + 1]
      /\ server' = [server EXCEPT ![p] = writes + 1]
      /\ TakeFd(h, p)
      /\ path' = [path EXCEPT ![h] = p]
      /\ UNCHANGED <<listVars, phase>>
      /\ \A g \in Handles \ {h} : pc[g] # "idle" /\ path[g] = p => pc[g] = "closed"
      /\ spoiled \subseteq spoiled'
      /\ p \notin spoiled' => ~ Applied(p)
  BY DEF Create, Starts, OnPath
<1>2. /\ local'[p] = writes + 1 /\ server'[p] = writes + 1
      /\ \A q \in Paths \ {p} : local'[q] = local[q] /\ server'[q] = server[q]
  BY <1>1 DEF TypeOK
<1>3. None \notin 0..(writes + 1) /\ writes \in Nat
  <2>1. writes' \in 0..MaxWrites
    BY DEF TypeOK
  <2> QED BY <2>1, <1>1, NoneIsNoVersion DEF Versions
<1>4. local'[p] # None
  BY <1>2, <1>3
<1>5. /\ LockOK' /\ StepOK' /\ SessionOK' /\ FdOK' /\ MetaOK'
      /\ \A q \in Paths : Owed(q) /\ local'[q] = local[q] => Owed(q)'
  BY <1>1, <1>2, <1>4, NewSession
<1>6. Bounded'
  <2>1. 0..writes \subseteq 0..(writes + 1) /\ writes + 1 \in 0..(writes + 1)
    BY <1>3
  <2>2. /\ local' \in [Paths -> 0..(writes + 1) \cup {None}]
        /\ server' \in [Paths -> 0..(writes + 1) \cup {None}]
    BY <1>1, <2>1 DEF Bounded
  <2> QED BY <2>1, <2>2, <1>1 DEF Bounded, listVars
<1>7. Ordered'
  <2>1. \A q \in Paths \ spoiled' :
          /\ server'[q] = None <=> local'[q] = None
          /\ local'[q] # None => server'[q] <= local'[q]
    BY <1>1, <1>2, <1>3 DEF Ordered
  <2>2. step = "send" => work[1].path \in Paths /\ (Applied(work[1].path))
    BY Lists DEF StepOK, Applied
  <2>3. step = "send" /\ work[1].path \notin spoiled' => work[1].path # p
    BY <2>2, <1>1
  <2>4. UNCHANGED <<step, work, buf>>
    BY <1>1 DEF listVars
  <2> QED BY <2>1, <2>2, <2>3, <2>4, <1>1, <1>2 DEF Ordered
<1>8. Covered'
  BY <1>1, <1>2, <1>5 DEF Covered
<1>9. pc' = [pc EXCEPT ![h] = "open"]
  BY <1>1 DEF TakeFd
<1>10. OpenSeesClosed'
  <2> SUFFICES ASSUME NEW g \in Handles, pc'[g] = "fetching", path'[g] \notin spoiled'
               PROVE  server'[path'[g]] = local'[path'[g]]
    BY DEF OpenSeesClosed
  <2>1. g # h /\ pc[g] = "fetching" /\ path'[g] = path[g] /\ path[g] \in Paths
    BY <1>1, <1>9 DEF TypeOK, SessionOK
  <2> QED BY <2>1, <1>1, <1>2 DEF OpenSeesClosed
<1> QED BY <1>5, <1>6, <1>7, <1>8, <1>10

LEMMA WriteStep ==
    ASSUME IInv, TypeOK', NEW h \in Handles, Write(h)
    PROVE  /\ IInv'
           /\ local'[path[h]] = writes + 1
           /\ \A q \in Paths \ {path[h]} : local'[q] = local[q]
<1> USE Constants DEF IInv
<1> DEFINE p == path[h]
           n == fh[h]
<1>1. /\ pc[h] = "open" /\ p \in Paths /\ n \in Fds /\ local[p] # None /\ Session(h)
      /\ writes' = writes + 1
      /\ local' = [local EXCEPT ![p] = writes + 1]
      /\ UNCHANGED <<server, open, handleVars, listVars, phase, spoiled>>
  BY DEF Write, SessionOK, Session
<1>2. /\ \A m \in Fds \ {n} : meta'[m] = meta[m]
      /\ meta[n] = None => meta'[n] = None
      /\ meta[n] # None => /\ meta'[n] # None /\ meta'[n].dirty = TRUE
                           /\ meta'[n].path = meta[n].path
  <2>1. CASE meta[n] = None
    BY <2>1 DEF Write
  <2>2. CASE meta[n] # None
    <3>1. meta' = [meta EXCEPT ![n] = [meta[n] EXCEPT !.dirty = TRUE]]
      BY <2>2 DEF Write
    <3>2. meta[n] \in [path : Paths, dirty : BOOLEAN]
      BY <2>2, <1>1 DEF TypeOK
    <3>3. [meta[n] EXCEPT !.dirty = TRUE] \in [path : Paths, dirty : BOOLEAN]
      BY <3>2
    <3>4. meta'[n] = [meta[n] EXCEPT !.dirty = TRUE] /\ \A m \in Fds \ {n} : meta'[m] = meta[m]
      BY <1>1, <3>1 DEF TypeOK
    <3>5. meta'[n] # None
      BY <3>3, <3>4
    <3>6. meta'[n].dirty = TRUE /\ meta'[n].path = meta[n].path
      BY <3>2, <3>4
    <3> QED BY <2>2, <3>4, <3>5, <3>6
  <2> QED BY <2>1, <2>2
<1> HIDE DEF p, n
<1>3. local'[p] = writes + 1 /\ \A q \in Paths \ {p} : local'[q] = local[q]
  BY <1>1 DEF TypeOK
<1>4. None \notin 0..(writes + 1) /\ writes \in Nat /\ writes + 1 # None
  <2>1. writes' \in 0..MaxWrites
    BY DEF TypeOK
  <2> QED BY <2>1, <1>1, NoneIsNoVersion DEF Versions
<1>5. UNCHANGED <<pc, path, fh, pendingOps, lock, work, step, buf, phase, open, server, spoiled>>
  BY <1>1 DEF handleVars, listVars
<1>6. LockOK' /\ StepOK'
  BY <1>5 DEF LockOK, StepOK
<1>7. SessionOK'
  BY <1>3, <1>4, <1>5 DEF SessionOK, Session
<1>8. FdOK'
  BY <1>5 DEF FdOK, Session, Waiting, Live
<1>9. MetaOK'
  <2>1. \A m \in Fds : open'[m] # None /\ meta'[m] # None => meta'[m].path = open'[m]
    BY <1>2, <1>5 DEF MetaOK
  <2>2. \A g \in Handles : Session(g)' /\ path'[g] \notin spoiled' => meta'[fh'[g]] # None
    BY <1>2, <1>5 DEF MetaOK, Session, SessionOK
  <2> QED BY <2>1, <2>2 DEF MetaOK
<1>10. Bounded'
  <2>1. 0..writes \subseteq 0..(writes + 1) /\ writes + 1 \in 0..(writes + 1)
    BY <1>4
  <2>2. /\ local' \in [Paths -> 0..(writes + 1) \cup {None}]
        /\ server' \in [Paths -> 0..(writes + 1) \cup {None}]
    BY <1>1, <2>1 DEF Bounded
  <2> QED BY <2>1, <2>2, <1>1, <1>5 DEF Bounded
<1>11. Ordered'
  <2>1. ASSUME NEW q \in Paths \ spoiled'
        PROVE  /\ server'[q] = None <=> local'[q] = None
               /\ local'[q] # None => server'[q] <= local'[q]
    <3>1. CASE q = p
      <4>1. server[p] # None
        BY <3>1, <2>1, <1>1, <1>5 DEF Ordered
      <4>2. server[p] \in 0..writes
        BY <4>1, <1>1 DEF Bounded
      <4> QED BY <3>1, <4>1, <4>2, <1>3, <1>4, <1>5
    <3>2. CASE q # p
      BY <3>2, <2>1, <1>3, <1>5 DEF Ordered
    <3> QED BY <3>1, <3>2
  <2>2. ASSUME step = "send", work[1].path \notin spoiled
        PROVE  /\ local'[work[1].path] # None
               /\ server[work[1].path] <= buf.version
               /\ buf.version <= local'[work[1].path]
    <3>1. /\ local[work[1].path] # None
          /\ server[work[1].path] <= buf.version
          /\ buf.version <= local[work[1].path]
      BY <2>2 DEF Ordered
    <3>2. buf.version \in 0..writes /\ work[1].path \in Paths
      BY <2>2, Lists DEF Bounded, StepOK
    <3> QED BY <3>1, <3>2, <1>3, <1>4
  <2> QED BY <2>1, <2>2, <1>5 DEF Ordered
<1>12. Covered'
  <2> SUFFICES ASSUME NEW q \in Paths, q \notin spoiled', server'[q] # local'[q]
               PROVE  Owed(q)'
    BY DEF Covered
  <2>1. CASE q = p
    <3>1. meta[n] # None
      BY <2>1, <1>1, <1>5 DEF MetaOK, p, n
    <3> QED BY <2>1, <3>1, <1>1, <1>2, <1>5 DEF Owed, Dirty, p, n
  <2>2. CASE q # p
    <3>1. Owed(q)
      BY <2>2, <1>3, <1>5 DEF Covered
    <3>2. \A m \in Fds : Dirty(m) => Dirty(m)'
      BY <1>2 DEF Dirty
    <3>3. ASSUME NEW g \in Handles, pc[g] = "open", path[g] = q, Dirty(fh[g])
          PROVE  Owed(q)'
      BY <3>2, <3>3, <1>5 DEF Owed, SessionOK, Session, Dirty
    <3>4. ASSUME NEW i \in Waiting, pendingOps[i].path = q, Dirty(pendingOps[i].fd)
          PROVE  Owed(q)'
      <4>1. Dirty(pendingOps[i].fd)' /\ i \in Waiting'
        BY <3>2, <3>4, <1>5, Lists DEF Waiting, Dirty
      <4> QED BY <4>1, <3>4, <1>5 DEF Owed
    <3>5. ASSUME NEW i \in DOMAIN work, work[i].path = q, i # 1 \/ step = "read",
                 Dirty(work[i].fd)
          PROVE  Owed(q)'
      <4>1. Dirty(work[i].fd)'
        BY <3>2, <3>5, <1>5, Lists DEF Dirty
      <4> QED BY <4>1, <3>5, <1>5 DEF Owed
    <3>6. ASSUME step = "send", work[1].path = q, buf.version = local[q]
          PROVE  Owed(q)'
      BY <3>6, <2>2, <1>3, <1>5 DEF Owed
    <3> QED BY <3>1, <3>3, <3>4, <3>5, <3>6 DEF Owed
  <2> QED BY <2>1, <2>2
<1>13. OpenSeesClosed'
  <2> SUFFICES ASSUME NEW g \in Handles, pc[g] = "fetching", path[g] \notin spoiled
               PROVE  server[path[g]] = local'[path[g]]
    BY <1>5 DEF OpenSeesClosed
  <2>1. path[g] \in Paths /\ path[g] # p
    BY <1>1 DEF SessionOK, p
  <2> QED BY <2>1, <1>3 DEF OpenSeesClosed
<1>14. IInv'
  BY <1>6, <1>7, <1>8, <1>9, <1>10, <1>11, <1>12, <1>13
<1> QED BY <1>3, <1>14 DEF p

(* An operation is added behind those that are to use its descriptor       *)
(* before it.                                                              *)
LEMMA NewOperation ==
    ASSUME IInv, TypeOK', NEW h \in Handles, NEW kind \in Kinds,
           Session(h), AddNewWriteback(h, kind), phase = "running",
           kind = "CLOSE" => pc'[h] = "idle",
           pc'[h] \in {"closed", "idle"},
           \A g \in Handles \ {h} : pc'[g] = pc[g] /\ path'[g] = path[g] /\ fh'[g] = fh[g],
           pc'[h] = "closed" => path'[h] = path[h] /\ fh'[h] = fh[h],
           UNCHANGED <<fileVars, fdVars, phase, writes, spoiled>>,
           pc[h] = "open" => kind = "FLUSH"
    PROVE  IInv'
<1> USE Constants DEF IInv
<1> DEFINE N == Len(pendingOps) + 1
<1>1. /\ path[h] \in Paths /\ fh[h] \in Fds /\ open[fh[h]] = path[h] /\ pc[h] # "idle"
  BY OpenDescriptor DEF SessionOK, Session
<1>2. /\ lock = None /\ work = <<>> /\ step = "read" /\ Len(pendingOps) \in Nat
      /\ UNCHANGED <<lock, work, step, buf>>
      /\ DOMAIN pendingOps = 1..Len(pendingOps)
      /\ DOMAIN pendingOps' = 1..N
      /\ \A i \in DOMAIN pendingOps : pendingOps'[i] = pendingOps[i]
      /\ pendingOps'[N] = [path |-> path[h], fd |-> fh[h], kind |-> kind]
  BY <1>1, AddType, Lists DEF AddNewWriteback, LockOK, StepOK
<1>3. Waiting = DOMAIN pendingOps /\ Waiting' = 1..N /\ Live = {} /\ Live' = {} /\ DOMAIN work = {}
  BY <1>2 DEF Waiting, Live
<1>4. /\ pendingOps'[N].path = path[h] /\ pendingOps'[N].fd = fh[h]
      /\ pendingOps'[N].kind = kind /\ N \in Waiting'
      /\ \A i \in Waiting' : i = N \/ (i \in Waiting /\ pendingOps'[i] = pendingOps[i] /\ i < N)
      /\ \A i \in Waiting : i \in Waiting'
  <2>1. /\ pendingOps'[N].path = path[h] /\ pendingOps'[N].fd = fh[h]
        /\ pendingOps'[N].kind = kind
    BY <1>2
  <2>2. /\ N \in Waiting'
        /\ \A i \in Waiting' : i = N \/ (i \in Waiting /\ i < N)
        /\ \A i \in Waiting : i \in Waiting'
    BY <1>2, <1>3
  <2>3. \A i \in DOMAIN pendingOps : pendingOps'[i] = pendingOps[i]
    BY <1>2
  <2>4. \A i \in Waiting : pendingOps'[i] = pendingOps[i]
    BY <2>3, <1>3, Zenon
  <2> QED BY <2>1, <2>2, <2>4
<1> HIDE DEF N
<1>5. LockOK' /\ StepOK' /\ Bounded' /\ Ordered'
  <2>1. step' = "read"
    BY <1>2
  <2> QED BY <1>2, <2>1 DEF LockOK, StepOK, Bounded, Ordered, fileVars
<1>6. \A g \in Handles : Session(g)' => Session(g) /\ path'[g] = path[g] /\ fh'[g] = fh[g]
  BY DEF Session
<1>7. \A g \in Handles : pc'[g] # "idle" =>
         /\ pc[g] # "idle" /\ path'[g] = path[g]
         /\ pc'[g] # "closed" => pc'[g] = pc[g]
         /\ pc[g] = "closed" => pc'[g] = "closed"
  BY <1>1
<1>8. SessionOK'
  <2>1. UNCHANGED <<local, open>>
    BY DEF fileVars, fdVars
  <2>2. /\ \A g \in Handles : pc'[g] # "idle" => path'[g] \in Paths /\ local'[path'[g]] # None
        /\ \A f, g \in Handles :
             f # g /\ pc'[f] # "idle" /\ pc'[g] # "idle" /\ path'[f] = path'[g] =>
                 pc'[f] = "closed" \/ pc'[g] = "closed"
    BY <1>7, <2>1 DEF SessionOK
  <2>3. /\ \A g \in Handles : Session(g)' => fh'[g] \in Fds /\ open'[fh'[g]] = path'[g]
        /\ \A f, g \in Handles : Session(f)' /\ Session(g)' /\ fh'[f] = fh'[g] => f = g
    BY <1>6, <2>1 DEF SessionOK
  <2> QED BY <2>2, <2>3 DEF SessionOK
<1>9. MetaOK'
  BY <1>6 DEF MetaOK, fdVars
<1>10. FdOK'
  <2>1. \A i \in Waiting' : open'[pendingOps'[i].fd] = pendingOps'[i].path
    BY <1>1, <1>4 DEF FdOK, fdVars
  <2>2. ASSUME NEW i \in Waiting', NEW j \in Waiting', i < j,
               pendingOps'[i].fd = pendingOps'[j].fd
        PROVE  pendingOps'[i].kind = "FLUSH"
    <3>1. i \in Waiting /\ pendingOps'[i] = pendingOps[i]
      BY <2>2, <1>2, <1>3, <1>4
    <3>2. CASE j = N
      BY <3>1, <3>2, <2>2, <1>4 DEF FdOK
    <3>3. CASE j # N
      <4>1. j \in Waiting /\ pendingOps'[j] = pendingOps[j]
        BY <3>3, <1>4
      <4> QED BY <3>1, <4>1, <2>2 DEF FdOK
    <3> QED BY <3>2, <3>3
  <2>3. ASSUME NEW g \in Handles, Session(g)', NEW i \in Waiting',
               pendingOps'[i].fd = fh'[g]
        PROVE  pendingOps'[i].kind = "FLUSH"
    <3>1. Session(g) /\ fh'[g] = fh[g]
      BY <2>3, <1>6
    <3>2. CASE i = N
      <4>1. fh[g] = fh[h]
        BY <3>1, <3>2, <2>3, <1>4
      <4>2. g = h
        BY <4>1, <3>1 DEF SessionOK
      <4>3. kind # "CLOSE"
        BY <4>2, <2>3 DEF Session
      <4> QED BY <4>3, <3>2, <1>4 DEF Kinds
    <3>3. CASE i # N
      <4>1. i \in Waiting /\ pendingOps'[i] = pendingOps[i]
        BY <3>3, <1>4
      <4> QED BY <3>1, <4>1, <2>3 DEF FdOK
    <3> QED BY <3>2, <3>3
  <2> QED BY <2>1, <2>2, <2>3, <1>2, <1>3 DEF FdOK
<1>11. \A q \in Paths : Owed(q) => Owed(q)'
  <2> SUFFICES ASSUME NEW q \in Paths, Owed(q)
               PROVE  Owed(q)'
    OBVIOUS
  <2>1. ASSUME NEW g \in Handles, pc[g] = "open", path[g] = q, Dirty(fh[g])
        PROVE  Owed(q)'
    <3>1. CASE g = h
      BY <2>1, <3>1, <1>4 DEF Owed, Dirty, fdVars
    <3>2. CASE g # h
      BY <2>1, <3>2 DEF Owed, Dirty, fdVars
    <3> QED BY <3>1, <3>2
  <2>2. ASSUME NEW i \in Waiting, pendingOps[i].path = q, Dirty(pendingOps[i].fd)
        PROVE  Owed(q)'
    <3>1. i \in Waiting' /\ pendingOps'[i] = pendingOps[i]
      BY <1>2, <1>3, <1>4
    <3> QED BY <3>1, <2>2 DEF Owed, Dirty, fdVars
  <2> QED BY <2>1, <2>2, <1>2, <1>3 DEF Owed
<1>12. Covered'
  BY <1>11 DEF Covered, fileVars
<1>13. OpenSeesClosed'
  BY <1>7 DEF OpenSeesClosed, fileVars
<1> QED BY <1>5, <1>8, <1>9, <1>10, <1>12, <1>13

LEMMA FlushStep ==
    ASSUME IInv, TypeOK', NEW h \in Handles, Flush(h)
    PROVE  IInv'
<1>1. /\ pc[h] = "open" /\ Session(h) /\ AddNewWriteback(h, "FLUSH")
      /\ pc' = [pc EXCEPT ![h] = "closed"]
      /\ UNCHANGED <<fileVars, fdVars, path, fh, phase, writes, spoiled>>
  BY DEF Flush, Session
<1>2. phase = "running"
  BY <1>1 DEF IInv, LockOK
<1>3. pc'[h] = "closed" /\ \A g \in Handles \ {h} : pc'[g] = pc[g]
  BY <1>1 DEF IInv, TypeOK
<1> QED BY <1>1, <1>2, <1>3, NewOperation DEF Kinds

LEMMA ReleaseStep ==
    ASSUME IInv, TypeOK', NEW h \in Handles, Release(h)
    PROVE  IInv'
<1>1. /\ pc[h] = "closed" /\ Session(h) /\ AddNewWriteback(h, "CLOSE")
      /\ pc' = [pc EXCEPT ![h] = "idle"]
      /\ path' = [path EXCEPT ![h] = None]
      /\ fh' = [fh EXCEPT ![h] = None]
      /\ UNCHANGED <<fileVars, fdVars, phase, writes, spoiled>>
  BY DEF Release, Session
<1>2. phase = "running"
  BY <1>1 DEF IInv, LockOK
<1>3. /\ pc'[h] = "idle"
      /\ \A g \in Handles \ {h} : pc'[g] = pc[g] /\ path'[g] = path[g] /\ fh'[g] = fh[g]
  BY <1>1 DEF IInv, TypeOK
<1> QED BY <1>1, <1>2, <1>3, NewOperation DEF Kinds

-----------------------------------------------------------------------------
(* unlink and rename. *)

(* A step that changes the files of paths without a session keeps the      *)
(* invariant if it leaves the two sides of each of them equal, or the path *)
(* spoiled.                                                                *)
LEMMA FilesOnly ==
    ASSUME IInv, TypeOK', NEW P \in SUBSET Paths,
           UNCHANGED <<fdVars, handleVars, listVars, phase, writes>>,
           spoiled \subseteq spoiled',
           \A q \in Paths \ P : local'[q] = local[q] /\ server'[q] = server[q],
           \A h \in Handles : pc[h] # "idle" => path[h] \notin P,
           \A q \in P \ spoiled' : server'[q] = local'[q] /\ ~ Applied(q),
           local' \in [Paths -> (0..writes) \cup {None}],
           server' \in [Paths -> (0..writes) \cup {None}]
    PROVE  IInv'
<1> USE Constants DEF IInv
<1>1. LockOK' /\ StepOK' /\ FdOK'
  BY DEF LockOK, StepOK, FdOK, Session, Waiting, Live, fdVars, handleVars, listVars
<1>2. MetaOK'
  BY DEF MetaOK, Session, fdVars, handleVars
<1>3. SessionOK'
  <2>1. \A h \in Handles : pc[h] # "idle" => path[h] \in Paths /\ local'[path[h]] = local[path[h]]
    BY DEF SessionOK
  <2> QED BY <2>1 DEF SessionOK, Session, fdVars, handleVars
<1>4. Bounded'
  BY DEF Bounded, listVars
<1>5. Ordered'
  <2>1. ASSUME NEW q \in Paths \ spoiled'
        PROVE  /\ server'[q] = None <=> local'[q] = None
               /\ local'[q] # None => server'[q] <= local'[q]
    <3>1. CASE q \in P
      <4>1. server'[q] = local'[q]
        BY <3>1, <2>1
      <4>2. local'[q] # None => local'[q] \in 0..writes
        OBVIOUS
      <4> QED BY <4>1, <4>2, NoneIsNoVersion
    <3>2. CASE q \notin P
      BY <3>2, <2>1 DEF Ordered
    <3> QED BY <3>1, <3>2
  <2>2. step = "send" => work[1].path \in Paths /\ Applied(work[1].path)
    BY Lists DEF StepOK, Applied
  <2>3. step = "send" /\ work[1].path \notin spoiled' =>
          work[1].path \notin P /\ work[1].path \notin spoiled
    BY <2>2
  <2> QED BY <2>1, <2>2, <2>3 DEF Ordered, listVars
<1>5a. ASSUME NEW q \in Paths, q \notin P, Owed(q)
       PROVE  Owed(q)'
  BY <1>5a DEF Owed, Waiting, Dirty, fdVars, handleVars, listVars
<1>6. Covered'
  BY <1>5a DEF Covered
<1>7. OpenSeesClosed'
  BY DEF OpenSeesClosed, SessionOK, handleVars
<1> QED BY <1>1, <1>2, <1>3, <1>4, <1>5, <1>6, <1>7

LEMMA UnlinkStep ==
    ASSUME IInv, TypeOK', NEW p \in Paths, Unlink(p)
    PROVE  IInv'
<1>1. /\ server' = [server EXCEPT ![p] = None]
      /\ local' = [local EXCEPT ![p] = None]
      /\ UNCHANGED <<fdVars, handleVars, listVars, phase, writes>>
      /\ spoiled \subseteq spoiled'
      /\ p \notin spoiled' => ~ Applied(p)
  BY DEF Unlink
<1>2. /\ local \in [Paths -> (0..writes) \cup {None}]
      /\ server \in [Paths -> (0..writes) \cup {None}]
  BY DEF IInv, Bounded
<1>3. /\ local' \in [Paths -> (0..writes) \cup {None}]
      /\ server' \in [Paths -> (0..writes) \cup {None}]
  BY <1>1, <1>2
<1>4. /\ \A q \in Paths \ {p} : local'[q] = local[q] /\ server'[q] = server[q]
      /\ server'[p] = local'[p]
  BY <1>1, <1>2
<1>5. \A h \in Handles : pc[h] # "idle" => path[h] \notin {p}
  BY DEF Unlink, OnPath
<1>6. /\ {p} \in SUBSET Paths
      /\ \A q \in {p} \ spoiled' : server'[q] = local'[q] /\ ~ Applied(q)
  BY <1>1, <1>4
<1> QED BY <1>1, <1>3, <1>4, <1>5, <1>6, FilesOnly

LEMMA RenameStep ==
    ASSUME IInv, TypeOK', NEW p \in Paths, NEW q \in Paths, Rename(p, q)
    PROVE  IInv'
<1> USE DEF IInv
<1>1. /\ server' = [server EXCEPT ![q] = server[p], ![p] = None]
      /\ local' = [local EXCEPT ![q] = local[p], ![p] = None]
      /\ UNCHANGED <<fdVars, handleVars, listVars, phase, writes>>
      /\ spoiled \subseteq spoiled'
      /\ phase = "running" /\ p # q
      /\ \A r \in {p, q} \ spoiled' : ~ Applied(r)
      /\ p \notin spoiled' \/ q \notin spoiled' =>
           p \notin spoiled /\ ~ Applied(p) /\ ~ Pending(p)
  BY DEF Rename
<1>2. /\ local \in [Paths -> (0..writes) \cup {None}]
      /\ server \in [Paths -> (0..writes) \cup {None}]
  BY DEF Bounded
<1>3. /\ local' \in [Paths -> (0..writes) \cup {None}]
      /\ server' \in [Paths -> (0..writes) \cup {None}]
  BY <1>1, <1>2
<1>4. /\ \A r \in Paths \ {p, q} : local'[r] = local[r] /\ server'[r] = server[r]
      /\ server'[p] = local'[p]
      /\ server'[q] = server[p] /\ local'[q] = local[p]
  BY <1>1, <1>2
<1>5. \A h \in Handles : pc[h] # "idle" => path[h] \notin {p, q}
  BY DEF Rename, OnPath
<1>6. q \notin spoiled' => server[p] = local[p]
  <2> SUFFICES ASSUME q \notin spoiled', server[p] # local[p]
               PROVE  FALSE
    OBVIOUS
  <2>1. p \notin spoiled /\ ~ Applied(p) /\ ~ Pending(p)
    BY <1>1
  <2>2. Owed(p)
    BY <2>1 DEF Covered
  <2>3. ~ \E h \in Handles : pc[h] = "open" /\ path[h] = p
    BY <1>5
  <2>4. ~ \E i \in Waiting : pendingOps[i].path = p
    BY <2>1 DEF Pending, Waiting
  <2>5. ~ \E i \in DOMAIN work : work[i].path = p
    <3> SUFFICES ASSUME NEW i \in DOMAIN work, work[i].path = p
                 PROVE  FALSE
      OBVIOUS
    <3>1. work # <<>> /\ work[1].path # p /\ 1 \in DOMAIN work
      BY <2>1, Lists DEF Applied
    <3>2. lock \in Handles \cup {Dog}
      BY <1>1, <3>1, Constants DEF LockOK, TypeOK
    <3>3. CASE lock \in Handles
      BY <3>1, <3>3 DEF LockOK
    <3>4. CASE lock = Dog
      BY <3>1, <3>4, Lists DEF LockOK
    <3> QED BY <3>2, <3>3, <3>4
  <2>6. step = "send" => 1 \in DOMAIN work
    BY Lists DEF StepOK
  <2> QED BY <2>2, <2>3, <2>4, <2>5, <2>6 DEF Owed
<1>7. \A r \in {p, q} \ spoiled' : server'[r] = local'[r] /\ ~ Applied(r)
  BY <1>1, <1>4, <1>6
<1>8. {p, q} \in SUBSET Paths
  OBVIOUS
<1> QED BY <1>1, <1>3, <1>4, <1>5, <1>7, <1>8, FilesOnly

-----------------------------------------------------------------------------
(* One operation is applied. *)

(* What giving an operation up, or having done it, does to the list.       *)
LEMMA NextOpTaken ==
    ASSUME IInv, TypeOK', work # <<>>, NextOp, UNCHANGED <<handleVars, pendingOps, phase>>
    PROVE  /\ LockOK' /\ StepOK'
           /\ Waiting' = Waiting
           /\ Live' = DOMAIN work'
           /\ DOMAIN work' = 1..(Len(work) - 1)
           /\ \A i \in DOMAIN work' : i + 1 \in Live /\ work'[i] = work[i + 1]
           /\ \A i \in DOMAIN work : i = 1 \/ (i - 1 \in DOMAIN work' /\ work'[i - 1] = work[i])
<1> USE Constants DEF IInv
<1>1. /\ Len(work) \in Nat /\ DOMAIN work = 1..Len(work)
      /\ DOMAIN work' = 1..(Len(work) - 1)
      /\ Len(work') = Len(work) - 1
      /\ \A i \in 1..(Len(work) - 1) : work'[i] = work[i + 1]
      /\ step' = "read" /\ lock' = IF lock = Dog THEN None ELSE lock
  BY Lists DEF NextOp
<1>2. lock # None
  BY DEF LockOK
<1>3. Waiting' = Waiting
  BY <1>1, <1>2 DEF Waiting, handleVars, TypeOK
<1>4. Live' = DOMAIN work'
  BY <1>1 DEF Live
<1>5. /\ \A i \in DOMAIN work' : i + 1 \in Live /\ work'[i] = work[i + 1]
      /\ \A i \in DOMAIN work : i = 1 \/ (i - 1 \in DOMAIN work' /\ work'[i - 1] = work[i])
  BY <1>1 DEF Live
<1>6. StepOK'
  BY <1>1 DEF StepOK
<1>7. LockOK'
  <2>1. lock' = None => work' = <<>>
    <3>1. lock' = None => lock = Dog
      BY <1>1, <1>2
    <3>2. lock = Dog => Len(work') = 0
      BY <1>1 DEF LockOK
    <3>3. Len(work') = 0 => work' = <<>>
      BY EmptySeq DEF TypeOK
    <3> QED BY <3>1, <3>2, <3>3
  <2>2. lock' # Dog
    BY <1>1
  <2>3. lock' \in Handles => /\ pc'[lock'] = "opening"
                             /\ \A i \in DOMAIN work' : work'[i].path = path'[lock']
    BY <1>1, <1>5 DEF LockOK, handleVars, Live
  <2>4. lock' = Main <=> phase' = "draining"
    BY <1>1 DEF LockOK
  <2>5. /\ phase' # "running" => \A h \in Handles : pc'[h] = "idle"
        /\ phase' = "ended" => pendingOps' = <<>> /\ lock' = None
    BY <1>2 DEF LockOK, handleVars
  <2> QED BY <2>1, <2>2, <2>3, <2>4, <2>5 DEF LockOK
<1> QED BY <1>1, <1>3, <1>4, <1>5, <1>6, <1>7

LEMMA NextOpFd ==
    ASSUME IInv, TypeOK', work # <<>>, NextOp,
           UNCHANGED <<handleVars, pendingOps, phase, open>>
    PROVE  FdOK'
<1> USE DEF IInv
<1>1. /\ Waiting' = Waiting /\ Live' = DOMAIN work'
      /\ DOMAIN work' = 1..(Len(work) - 1)
      /\ \A i \in DOMAIN work' : i + 1 \in Live /\ work'[i] = work[i + 1]
  BY NextOpTaken
<1>2. \A g \in Handles : Session(g)' <=> Session(g)
  BY DEF Session, handleVars
<1>3. \A i \in DOMAIN work' : open'[work'[i].fd] = work'[i].path
  BY <1>1 DEF FdOK
<1>4. ASSUME NEW i \in DOMAIN work', NEW j \in DOMAIN work', i < j, work'[i].fd = work'[j].fd
      PROVE  work'[i].kind = "FLUSH"
  <2>1. i + 1 < j + 1 /\ i + 1 \in DOMAIN work /\ j + 1 \in DOMAIN work
    BY <1>1, <1>4, Lists DEF Live
  <2> QED BY <2>1, <1>1, <1>4 DEF FdOK
<1>5. ASSUME NEW i \in DOMAIN work', NEW j \in Waiting, work'[i].fd = pendingOps[j].fd
      PROVE  work'[i].kind = "FLUSH"
  BY <1>1, <1>5 DEF FdOK, Live
<1>6. ASSUME NEW g \in Handles, Session(g), NEW i \in DOMAIN work', work'[i].fd = fh[g]
      PROVE  work'[i].kind = "FLUSH"
  BY <1>1, <1>6 DEF FdOK
<1> QED BY <1>1, <1>2, <1>3, <1>4, <1>5, <1>6 DEF FdOK, handleVars

(* What is owed stays owed when an operation is done or given up, but for  *)
(* what that operation itself was to bring.                                *)
LEMMA OperationDone ==
    ASSUME IInv, TypeOK', work # <<>>, step \in {"read", "send"},
           WrittenBack(work[1]) \/ NextOp,
           UNCHANGED <<handleVars, pendingOps, phase, writes, fdVars, local>>,
           spoiled \subseteq spoiled'
    PROVE  /\ LockOK' /\ StepOK' /\ SessionOK' /\ FdOK' /\ MetaOK'
           /\ step' # "send" /\ buf' = None
           /\ \A q \in Paths :
                Owed(q) => \/ Owed(q)'
                           \/ work[1].path = q /\ step = "read" /\ Dirty(work[1].fd)
                           \/ work[1].path = q /\ step = "send" /\ buf.version = local[q]
<1> USE Constants DEF IInv
<1>1. SessionOK' /\ MetaOK'
  <2>1. MetaOK'
    BY DEF MetaOK, Session, fdVars, handleVars
  <2> QED BY <2>1 DEF SessionOK, Session, fdVars, handleVars
<1>2. UNCHANGED <<pc, path, fh, meta, open>>
  BY DEF handleVars, fdVars
<1>3. \A q \in Paths : (\E h \in Handles : pc[h] = "open" /\ path[h] = q /\ Dirty(fh[h])) => Owed(q)'
  BY <1>2 DEF Owed, Dirty
<1>4. CASE NextOp
  <2>1. /\ LockOK' /\ StepOK' /\ FdOK' /\ Waiting' = Waiting
        /\ \A i \in DOMAIN work : i = 1 \/ (i - 1 \in DOMAIN work' /\ work'[i - 1] = work[i])
    BY <1>2, <1>4, NextOpTaken, NextOpFd
  <2>2. step' = "read" /\ buf' = None
    BY <1>4 DEF NextOp
  <2>3. ASSUME NEW q \in Paths, NEW i \in Waiting, pendingOps[i].path = q,
               Dirty(pendingOps[i].fd)
        PROVE  Owed(q)'
    BY <2>1, <2>3, <1>2 DEF Owed, Dirty
  <2>4. ASSUME NEW q \in Paths, NEW i \in DOMAIN work, work[i].path = q, i # 1,
               Dirty(work[i].fd)
        PROVE  Owed(q)'
    BY <2>1, <2>2, <2>4, <1>2 DEF Owed, Dirty
  <2> QED BY <1>1, <1>3, <2>1, <2>2, <2>3, <2>4 DEF Owed
<1>5. CASE ~ NextOp
  <2>1. /\ work[1].kind = "CLOSE" /\ step' = "close" /\ buf' = None
        /\ UNCHANGED <<work, lock>>
    BY <1>5 DEF WrittenBack
  <2>2. Waiting' = Waiting /\ Live' = Live
    BY <2>1, <1>2 DEF Waiting, Live
  <2>3. LockOK' /\ StepOK' /\ FdOK'
    BY <2>1, <2>2, <1>2 DEF LockOK, StepOK, FdOK, Session
  <2>4. ASSUME NEW q \in Paths, NEW i \in Waiting, pendingOps[i].path = q,
               Dirty(pendingOps[i].fd)
        PROVE  Owed(q)'
    BY <2>2, <2>4, <1>2 DEF Owed, Dirty
  <2>5. ASSUME NEW q \in Paths, NEW i \in DOMAIN work, work[i].path = q, i # 1,
               Dirty(work[i].fd)
        PROVE  Owed(q)'
    BY <2>1, <2>5, <1>2 DEF Owed, Dirty
  <2> QED BY <1>1, <1>3, <2>1, <2>3, <2>4, <2>5 DEF Owed
<1> QED BY <1>4, <1>5

LEMMA ReadBackStep ==
    ASSUME IInv, TypeOK', Apply, ReadBack(Head(work))
    PROVE  IInv'
<1> USE Constants DEF IInv
<1> DEFINE op == work[1]
           m == meta[op.fd]
<1>1. /\ work # <<>> /\ Head(work) = op /\ 1 \in DOMAIN work
      /\ op.path \in Paths /\ op.fd \in Fds /\ step = "read"
      /\ UNCHANGED <<handleVars, pendingOps, phase, writes, fileVars, fdVars, spoiled>>
  BY Lists DEF Apply, ReadBack
<1>2. open[op.fd] = op.path
  BY <1>1 DEF FdOK, Live
<1>3. m # None => m.path = op.path
  BY <1>1, <1>2 DEF MetaOK
<1>4. CASE m # None /\ m.dirty /\ local[m.path] # None
  <2>1. /\ buf' = [path |-> m.path, version |-> local[m.path]]
        /\ step' = "send" /\ UNCHANGED <<work, lock>>
    BY <1>1, <1>4 DEF ReadBack
  <2>2. buf'.version = local[op.path] /\ local[op.path] \in 0..writes
    <3>1. buf'.version = local[m.path]
      BY <2>1
    <3>2. m.path = op.path
      BY <1>3, <1>4
    <3> QED BY <3>1, <3>2, <1>1, <1>4 DEF Bounded
  <2>3. buf' # None
    <3>1. buf' \in [path : Paths, version : Versions]
      BY <2>1, <2>2, <1>1, <1>3, <1>4 DEF TypeOK, Versions
    <3> QED BY <3>1
  <2> HIDE DEF m
  <2>4. UNCHANGED <<pc, path, fh, local, server, open, meta>>
    BY <1>1 DEF handleVars, fileVars, fdVars
  <2>5. Waiting' = Waiting /\ Live' = Live
    BY <1>1, <2>1, <2>4 DEF Waiting, Live
  <2>6. LockOK' /\ SessionOK' /\ FdOK' /\ MetaOK'
    BY <1>1, <2>1, <2>4, <2>5 DEF LockOK, SessionOK, FdOK, MetaOK, Session
  <2>7. StepOK' /\ Bounded'
    BY <1>1, <2>1, <2>2, <2>3, <2>4 DEF StepOK, Bounded
  <2>8. Ordered'
    BY <1>1, <1>4, <2>1, <2>2, <2>4, NoneIsNoVersion DEF Ordered
  <2>9. ASSUME NEW q \in Paths, Owed(q)
        PROVE  Owed(q)'
    <3>1. CASE q = op.path
      BY <3>1, <2>1, <2>2, <2>4 DEF Owed
    <3>2. CASE q # op.path
      <4>1. ~ (\E i \in DOMAIN work : i = 1 /\ work[i].path = q)
        BY <3>2
      <4>2. step # "send"
        BY <1>1
      <4> QED BY <4>1, <4>2, <2>9, <1>1, <2>1, <2>4, <2>5 DEF Owed, Dirty
    <3> QED BY <3>1, <3>2
  <2>10. Covered' /\ OpenSeesClosed'
    BY <1>1, <2>4, <2>9 DEF Covered, OpenSeesClosed
  <2> QED BY <2>6, <2>7, <2>8, <2>10
<1>5. CASE ~ (m # None /\ m.dirty /\ local[m.path] # None)
  <2>1. WrittenBack(op)
    BY <1>1, <1>5 DEF ReadBack
  <2>2. /\ LockOK' /\ StepOK' /\ SessionOK' /\ FdOK' /\ MetaOK'
        /\ step' # "send" /\ buf' = None
        /\ \A q \in Paths : Owed(q) => \/ Owed(q)'
                                       \/ op.path = q /\ Dirty(op.fd)
    BY <1>1, <2>1, OperationDone DEF fileVars
  <2>3. UNCHANGED <<local, server>>
    BY <1>1 DEF fileVars
  <2>4. Bounded'
    BY <1>1, <2>2, <2>3 DEF Bounded
  <2>5. Ordered'
    BY <1>1, <2>2, <2>3 DEF Ordered
  <2>6. Covered'
    <3> SUFFICES ASSUME NEW q \in Paths, q \notin spoiled, server[q] # local[q]
                 PROVE  Owed(q)'
      BY <1>1, <2>3 DEF Covered
    <3>1. Owed(q)
      BY DEF Covered
    <3>2. ~ (op.path = q /\ Dirty(op.fd))
      <4> SUFFICES ASSUME op.path = q, Dirty(op.fd) PROVE FALSE
        OBVIOUS
      <4>1. local[q] = None
        BY <1>3, <1>5 DEF Dirty
      <4>2. server[q] = None
        BY <4>1 DEF Ordered
      <4> QED BY <4>1, <4>2
    <3> QED BY <3>1, <3>2, <2>2
  <2>7. OpenSeesClosed'
    BY <1>1, <2>3 DEF OpenSeesClosed, handleVars
  <2> QED BY <2>2, <2>4, <2>5, <2>6, <2>7
<1> QED BY <1>4, <1>5

(* What is sent is between what the server has and what the copy has, so   *)
(* that an open between onFileOp and its download sees no difference.      *)
LEMMA SendStep ==
    ASSUME IInv, TypeOK', Apply, Send(Head(work))
    PROVE  /\ IInv'
           /\ work[1].path \in Paths
           /\ server' = [server EXCEPT ![work[1].path] = buf.version]
           /\ work[1].path \notin spoiled => server[work[1].path] <= buf.version
<1> USE Constants DEF IInv
<1> DEFINE op == work[1]
           p == op.path
<1>1. /\ work # <<>> /\ Head(work) = op /\ 1 \in DOMAIN work
      /\ p \in Paths /\ op.fd \in Fds /\ step = "send" /\ buf # None
      /\ server' = [server EXCEPT ![p] = buf.version]
      /\ WrittenBack(op)
      /\ UNCHANGED <<handleVars, pendingOps, phase, writes, local, fdVars, spoiled>>
  BY Lists DEF Apply, Send, StepOK
<1>2. buf.version \in 0..writes
  BY <1>1 DEF Bounded
<1>3. /\ LockOK' /\ StepOK' /\ SessionOK' /\ FdOK' /\ MetaOK'
      /\ step' # "send" /\ buf' = None
      /\ \A q \in Paths : Owed(q) => \/ Owed(q)'
                                     \/ p = q /\ buf.version = local[q]
  BY <1>1, OperationDone
<1>4. p \notin spoiled => /\ local[p] # None
                          /\ server[p] <= buf.version
                          /\ buf.version <= local[p]
  BY <1>1 DEF Ordered
<1> HIDE DEF p, op
<1>5. server'[p] = buf.version /\ \A q \in Paths \ {p} : server'[q] = server[q]
  BY <1>1 DEF TypeOK
<1>6. Bounded'
  BY <1>1, <1>2, <1>3 DEF Bounded
<1>7. Ordered'
  <2>1. ASSUME NEW q \in Paths, q \notin spoiled
        PROVE  /\ server'[q] = None <=> local[q] = None
               /\ local[q] # None => server'[q] <= local[q]
    <3>1. CASE q = p
      BY <2>1, <3>1, <1>2, <1>4, <1>5, NoneIsNoVersion
    <3>2. CASE q # p
      BY <2>1, <3>2, <1>5 DEF Ordered
    <3> QED BY <3>1, <3>2
  <2> QED BY <2>1, <1>1, <1>3 DEF Ordered
<1>8. Covered'
  <2> SUFFICES ASSUME NEW q \in Paths, q \notin spoiled, server'[q] # local[q]
               PROVE  Owed(q)'
    BY <1>1 DEF Covered
  <2>1. server[q] # local[q]
    <3>1. CASE q = p
      <4>1. buf.version # local[p] /\ server[p] <= buf.version /\ buf.version <= local[p]
        BY <3>1, <1>4, <1>5
      <4>2. server[p] # None
        BY <3>1, <1>1, <1>4 DEF Ordered
      <4>3. server[p] \in 0..writes /\ local[p] \in 0..writes
        BY <4>2, <3>1, <1>1, <1>4 DEF Bounded
      <4> QED BY <3>1, <4>1, <4>3, <1>2, NoneIsNoVersion
    <3>2. CASE q # p
      BY <3>2, <1>5
    <3> QED BY <3>1, <3>2
  <2>2. Owed(q)
    BY <2>1 DEF Covered
  <2>3. ~ (p = q /\ buf.version = local[q])
    BY <1>5
  <2> QED BY <2>2, <2>3, <1>3
<1>9. OpenSeesClosed'
  <2> SUFFICES ASSUME NEW g \in Handles, pc[g] = "fetching", path[g] \notin spoiled
               PROVE  server'[path[g]] = local[path[g]]
    BY <1>1 DEF OpenSeesClosed, handleVars
  <2>1. path[g] \in Paths /\ server[path[g]] = local[path[g]]
    BY DEF OpenSeesClosed, SessionOK
  <2>2. CASE path[g] = p
    <3>1. local[p] \in 0..writes
      BY <2>2, <1>1, <1>4 DEF Bounded
    <3> QED BY <3>1, <2>1, <2>2, <1>2, <1>4, <1>5, NoneIsNoVersion
  <2>3. CASE path[g] # p
    BY <2>1, <2>3, <1>5
  <2> QED BY <2>2, <2>3
<1>10. IInv'
  BY <1>3, <1>6, <1>7, <1>8, <1>9
<1> QED BY <1>1, <1>4, <1>10 DEF p, op

LEMMA SendFailsStep ==
    ASSUME IInv, TypeOK', Apply, SendFails(Head(work))
    PROVE  IInv'
<1> USE Constants DEF IInv
<1> DEFINE op == work[1]
           p == op.path
<1>1. /\ work # <<>> /\ Head(work) = op
      /\ step = "send" /\ NextOp /\ spoiled' = spoiled \cup {p}
      /\ UNCHANGED <<handleVars, pendingOps, phase, writes, fileVars, fdVars>>
  BY Lists DEF Apply, SendFails
<1>2. UNCHANGED <<local, server>>
  BY <1>1 DEF fileVars
<1>3. /\ LockOK' /\ StepOK' /\ SessionOK' /\ FdOK' /\ MetaOK'
      /\ step' # "send" /\ buf' = None
      /\ \A q \in Paths : Owed(q) => \/ Owed(q)'
                                     \/ p = q /\ buf.version = local[q]
  BY <1>1, <1>2, OperationDone
<1> HIDE DEF p, op
<1>4. Bounded' /\ Ordered'
  BY <1>1, <1>2, <1>3 DEF Bounded, Ordered
<1>5. Covered'
  BY <1>1, <1>2, <1>3 DEF Covered
<1>6. OpenSeesClosed'
  BY <1>1, <1>2 DEF OpenSeesClosed, handleVars
<1> QED BY <1>3, <1>4, <1>5, <1>6

LEMMA CloseFdStep ==
    ASSUME IInv, TypeOK', Apply, CloseFd(Head(work))
    PROVE  IInv'
<1> USE Constants DEF IInv
<1> DEFINE op == work[1]
           n == op.fd
<1>1. /\ work # <<>> /\ Head(work) = op /\ 1 \in DOMAIN work
      /\ DOMAIN work = 1..Len(work)
      /\ n \in Fds /\ step = "close" /\ op.kind = "CLOSE" /\ step' = "unmap"
      /\ open' = [open EXCEPT ![n] = None]
      /\ UNCHANGED <<handleVars, pendingOps, phase, writes, fileVars, meta, work, lock, buf,
                     spoiled>>
  BY Lists DEF Apply, CloseFd, StepOK
<1>2. /\ UNCHANGED <<pc, path, fh, local, server>>
      /\ \A m \in Fds \ {n} : open'[m] = open[m]
      /\ open'[n] = None
  BY <1>1 DEF handleVars, fileVars, TypeOK
<1>3. Waiting' = Waiting /\ Live' = Live \ {1} /\ 1 \in Live
  BY <1>1, <1>2 DEF Waiting, Live
<1>4. /\ \A i \in Live' : work[i].fd \in Fds \ {n}
      /\ \A i \in Waiting : pendingOps[i].fd \in Fds \ {n}
      /\ \A h \in Handles : Session(h) => fh[h] \in Fds \ {n}
  <2>1. ASSUME NEW i \in Live'
        PROVE  work[i].fd \in Fds \ {n}
    <3>1. i \in DOMAIN work /\ 1 < i
      BY <1>1, <1>3 DEF Live
    <3>2. work[1].fd # work[i].fd
      BY <3>1, <1>1 DEF FdOK
    <3> QED BY <3>1, <3>2, Lists
  <2>2. ASSUME NEW i \in Waiting
        PROVE  pendingOps[i].fd \in Fds \ {n}
    <3>1. work[1].fd # pendingOps[i].fd
      BY <1>1 DEF FdOK
    <3> QED BY <3>1, Lists DEF Waiting
  <2>3. ASSUME NEW h \in Handles, Session(h)
        PROVE  fh[h] \in Fds \ {n}
    <3>1. work[1].fd # fh[h]
      BY <2>3, <1>1, <1>3 DEF FdOK
    <3> QED BY <3>1, <2>3 DEF SessionOK
  <2> QED BY <2>1, <2>2, <2>3
<1> HIDE DEF n
<1>5. LockOK' /\ StepOK' /\ Bounded' /\ Ordered' /\ OpenSeesClosed'
  BY <1>1, <1>2 DEF LockOK, StepOK, Bounded, Ordered, OpenSeesClosed
<1>6. \A h \in Handles : Session(h)' <=> Session(h)
  BY <1>2 DEF Session
<1>7. SessionOK'
  BY <1>2, <1>4, <1>6 DEF SessionOK
<1>8. FdOK'
  BY <1>1, <1>2, <1>3, <1>4, <1>6 DEF FdOK
<1>9. MetaOK'
  BY <1>1, <1>2, <1>6 DEF MetaOK
<1>10. \A q \in Paths : Owed(q) => Owed(q)'
  BY <1>1, <1>2, <1>3 DEF Owed, Dirty
<1>11. Covered'
  BY <1>1, <1>2, <1>10 DEF Covered
<1> QED BY <1>5, <1>7, <1>8, <1>9, <1>11

(* The entry that goes is the operation's own, or its path is spoiled.     *)
LEMMA UnmapStep ==
    ASSUME IInv, TypeOK', Apply, Unmap(Head(work))
    PROVE  IInv'
<1> USE Constants DEF IInv
<1> DEFINE op == work[1]
           n == op.fd
<1>1. /\ work # <<>> /\ Head(work) = op /\ 1 \in DOMAIN work
      /\ DOMAIN work = 1..Len(work)
      /\ n \in Fds /\ step = "unmap" /\ op.kind = "CLOSE" /\ NextOp
      /\ meta' = [meta EXCEPT ![n] = None]
      /\ spoiled' = IF open[n] # None THEN spoiled \cup {open[n]} ELSE spoiled
      /\ UNCHANGED <<handleVars, pendingOps, phase, writes, fileVars, open>>
  BY Lists DEF Apply, Unmap, StepOK
<1>2. /\ UNCHANGED <<pc, path, fh, local, server>>
      /\ spoiled \subseteq spoiled'
      /\ \A m \in Fds \ {n} : meta'[m] = meta[m]
      /\ meta'[n] = None
      /\ step' = "read" /\ buf' = None
  BY <1>1 DEF handleVars, fileVars, TypeOK, NextOp
<1>3. /\ LockOK' /\ StepOK' /\ FdOK' /\ Waiting' = Waiting
      /\ \A i \in DOMAIN work : i = 1 \/ (i - 1 \in DOMAIN work' /\ work'[i - 1] = work[i])
  BY <1>1, NextOpTaken, NextOpFd
<1>4. /\ \A i \in DOMAIN work : i # 1 => work[i].fd \in Fds \ {n}
      /\ \A i \in Waiting : pendingOps[i].fd \in Fds \ {n}
  <2>1. ASSUME NEW i \in DOMAIN work, i # 1
        PROVE  work[i].fd \in Fds \ {n}
    <3>1. 1 < i
      BY <1>1, <2>1
    <3>2. work[1].fd # work[i].fd
      BY <3>1, <1>1 DEF FdOK
    <3> QED BY <3>2, Lists
  <2>2. ASSUME NEW i \in Waiting
        PROVE  pendingOps[i].fd \in Fds \ {n}
    <3>1. work[1].fd # pendingOps[i].fd
      BY <1>1 DEF FdOK
    <3> QED BY <3>1, Lists DEF Waiting
  <2> QED BY <2>1, <2>2
<1> HIDE DEF n
<1>5. Bounded' /\ Ordered' /\ OpenSeesClosed'
  BY <1>1, <1>2 DEF Bounded, Ordered, OpenSeesClosed
<1>6. \A h \in Handles : Session(h)' <=> Session(h)
  BY <1>2 DEF Session
<1>7. SessionOK'
  BY <1>1, <1>2, <1>6 DEF SessionOK
<1>8. \A h \in Handles : Session(h) /\ path[h] \notin spoiled' => fh[h] \in Fds \ {n}
  <2> SUFFICES ASSUME NEW h \in Handles, Session(h), fh[h] = n
               PROVE  path[h] \in spoiled'
    BY DEF SessionOK
  <2>1. open[n] = path[h] /\ path[h] \in Paths
    BY DEF SessionOK, Session
  <2> QED BY <2>1, <1>1
<1>9. MetaOK'
  BY <1>1, <1>2, <1>6, <1>8 DEF MetaOK
<1>10. ASSUME NEW q \in Paths, q \notin spoiled', Owed(q)
       PROVE  Owed(q)'
  <2>1. ASSUME NEW h \in Handles, pc[h] = "open", path[h] = q, Dirty(fh[h])
        PROVE  Owed(q)'
    <3>1. fh[h] \in Fds \ {n}
      BY <2>1, <1>8, <1>10 DEF Session
    <3> QED BY <3>1, <2>1, <1>2 DEF Owed, Dirty
  <2>2. ASSUME NEW i \in Waiting, pendingOps[i].path = q, Dirty(pendingOps[i].fd)
        PROVE  Owed(q)'
    <3>1. Dirty(pendingOps[i].fd)'
      BY <2>2, <1>1, <1>2, <1>4 DEF Dirty
    <3> QED BY <3>1, <2>2, <1>1, <1>3 DEF Owed
  <2>3. ASSUME NEW i \in DOMAIN work, work[i].path = q, i # 1, Dirty(work[i].fd)
        PROVE  Owed(q)'
    <3>1. i - 1 \in DOMAIN work' /\ work'[i - 1] = work[i]
      BY <2>3, <1>3
    <3>2. meta'[work[i].fd] # None /\ meta'[work[i].fd].dirty
      BY <2>3, <1>2, <1>4 DEF Dirty
    <3>3. /\ work'[i - 1].path = q
          /\ meta'[work'[i - 1].fd] # None /\ meta'[work'[i - 1].fd].dirty
      BY <3>1, <3>2, <2>3
    <3> QED BY <3>1, <3>3, <1>2 DEF Owed, Dirty
  <2> QED BY <2>1, <2>2, <2>3, <1>1, <1>10 DEF Owed
<1>11. Covered'
  BY <1>2, <1>10 DEF Covered
<1> QED BY <1>3, <1>5, <1>7, <1>9, <1>11

LEMMA ApplyStep ==
    ASSUME IInv, TypeOK', Apply
    PROVE  IInv'
<1>1. LET op == Head(work)
      IN  ReadBack(op) \/ Send(op) \/ SendFails(op) \/ CloseFd(op) \/ Unmap(op)
  BY DEF Apply
<1> QED BY <1>1, ReadBackStep, SendStep, SendFailsStep, CloseFdStep, UnmapStep

-----------------------------------------------------------------------------
(* The theorems. *)

LEMMA StepIInv == IInv /\ [Next]_vars => IInv'
<1> SUFFICES ASSUME IInv, [Next]_vars PROVE IInv'
  OBVIOUS
<1>1. TypeOK'
  BY NextType DEF IInv
<1>2. ASSUME NEW h \in Handles, HandleStep(h)
      PROVE  IInv'
  BY <1>1, <1>2, OpenStep, CreateStep, OnFileOpStep, OnFileOpEndsStep, FetchStep, WriteStep,
     FlushStep, ReleaseStep DEF HandleStep
<1>3. CASE DogPop
  BY <1>1, <1>3, DogPopStep
<1>4. CASE Apply
  BY <1>1, <1>4, ApplyStep
<1>5. CASE Exit \/ Join \/ DestructorEnds
  BY <1>1, <1>5, ExitStep, JoinStep, DestructorEndsStep
<1>6. ASSUME NEW p \in Paths, Unlink(p) \/ \E q \in Paths : Rename(p, q)
      PROVE  IInv'
  BY <1>1, <1>6, UnlinkStep, RenameStep
<1>7. CASE UNCHANGED vars
  BY <1>1, <1>7, StutterStep
<1> QED BY <1>2, <1>3, <1>4, <1>5, <1>6, <1>7 DEF Next

(* Every variable keeps its shape, and only the holder of listMutex_ has   *)
(* operations to apply, for any number of handles, descriptors and         *)
(* operations.                                                             *)
THEOREM TypeCorrect == Spec => []TypeOK
<1>1. IInv => TypeOK
  BY DEF IInv
<1> QED BY <1>1, InitIInv, StepIInv, PTL DEF Spec

THEOREM Invariant == Spec => []IInv
BY InitIInv, StepIInv, PTL DEF Spec

(* A session, and an operation that has been delayed, keeps its descriptor *)
(* until its own delayed close is applied: no close is applied twice, and  *)
(* none after its number was given to somebody else.                       *)
THEOREM DescriptorsAreKept == Spec => []KeepsDescriptor
<1>1. IInv => KeepsDescriptor
  BY Constants DEF IInv, KeepsDescriptor, SessionOK, Session, FdOK, Waiting
<1> QED BY <1>1, Invariant, PTL

(* When onFileOp has returned, the server has what the sessions before     *)
(* have left, and it has it until the open is over.                        *)
THEOREM OpenSeesWhatWasClosed == Spec => []OpenSeesClosed
<1>1. IInv => OpenSeesClosed
  BY DEF IInv
<1> QED BY <1>1, Invariant, PTL

(* At the end of the destructor nothing is owed to the server.             *)
THEOREM ExitSavesAll == Spec => []SavedAtEnd
<1>1. IInv => SavedAtEnd
  <2> SUFFICES ASSUME IInv, phase = "ended", NEW p \in Paths \ spoiled
               PROVE  server[p] = local[p]
    BY DEF SavedAtEnd
  <2>1. /\ \A h \in Handles : pc[h] = "idle"
        /\ pendingOps = <<>> /\ lock = None /\ work = <<>> /\ step = "read"
    BY DEF IInv, LockOK, StepOK
  <2>2. ~ Owed(p)
    BY <2>1 DEF Owed, Waiting
  <2> QED BY <2>2 DEF IInv, Covered
<1> QED BY <1>1, Invariant, PTL

(* No content of an unspoiled path is ever replaced by an older one.       *)
NotOlder(p) ==
    /\ {local[p], local'[p]} \subseteq Versions => local'[p] >= local[p]
    /\ {server[p], server'[p]} \subseteq Versions => server'[p] >= server[p]

Forward == \A p \in Paths \ spoiled' : NotOlder(p)

LEMMA SameIsForward ==
    ASSUME \A p \in Paths \ spoiled' :
             (local'[p] = local[p] /\ server'[p] = server[p]) \/ NotOlder(p)
    PROVE  Forward
<1>1. \A x \in Versions : x >= x
  BY DEF Versions
<1> QED BY <1>1 DEF Forward, NotOlder

LEMMA StepForward ==
    ASSUME IInv, IInv', [Next]_vars
    PROVE  Forward
<1> USE Constants
<1>1. ASSUME UNCHANGED <<local, server>> PROVE Forward
  BY <1>1, SameIsForward
<1>2. ASSUME NEW h \in Handles, NEW p \in Paths, Create(h, p)
      PROVE  Forward
  <2>1. /\ local[p] = None /\ server[p] = None
        /\ \A q \in Paths \ {p} : local'[q] = local[q] /\ server'[q] = server[q]
    BY <1>2 DEF Create, IInv, TypeOK
  <2>2. NotOlder(p)
    BY <2>1 DEF NotOlder
  <2> QED BY <2>1, <2>2, SameIsForward
<1>3. ASSUME NEW h \in Handles, Fetch(h)
      PROVE  Forward
  <2>1. /\ server' = server /\ spoiled' = spoiled /\ path[h] \in Paths
        /\ \A q \in Paths \ {path[h]} : local'[q] = local[q]
    BY <1>3 DEF Fetch, IInv, TypeOK, SessionOK
  <2>2. path[h] \notin spoiled => local' = local
    BY <1>3, FetchStep DEF IInv
  <2>3. \A q \in Paths \ spoiled' : local'[q] = local[q] /\ server'[q] = server[q]
    BY <2>1, <2>2
  <2> QED BY <2>3, SameIsForward
<1>4. ASSUME NEW h \in Handles, Write(h)
      PROVE  Forward
  <2>1. /\ local'[path[h]] = writes + 1 /\ server' = server /\ path[h] \in Paths
        /\ \A q \in Paths \ {path[h]} : local'[q] = local[q]
    BY <1>4, WriteStep DEF Write, IInv, SessionOK
  <2>2. local[path[h]] \in 0..writes \cup {None} /\ server[path[h]] \in 0..writes \cup {None}
    BY <2>1 DEF IInv, Bounded
  <2>3. writes \in Nat
    BY NoneIsNoVersion DEF IInv
  <2>4. {local[path[h]], local'[path[h]]} \subseteq Versions => local'[path[h]] >= local[path[h]]
    BY <2>1, <2>2, <2>3
  <2>5. {server[path[h]], server'[path[h]]} \subseteq Versions =>
          server'[path[h]] >= server[path[h]]
    BY <2>1 DEF Versions
  <2>6. NotOlder(path[h])
    BY <2>4, <2>5 DEF NotOlder
  <2>7. \A q \in Paths \ {path[h]} : local'[q] = local[q] /\ server'[q] = server[q]
    BY <2>1
  <2> QED BY <2>6, <2>7, SameIsForward
<1>5. ASSUME Apply, Send(Head(work))
      PROVE  Forward
  <2>1. /\ work[1].path \in Paths
        /\ server' = [server EXCEPT ![work[1].path] = buf.version]
        /\ work[1].path \notin spoiled => server[work[1].path] <= buf.version
        /\ local' = local /\ spoiled' = spoiled
    BY <1>5, SendStep DEF IInv, Send
  <2>2. /\ server'[work[1].path] = buf.version
        /\ \A q \in Paths \ {work[1].path} : server'[q] = server[q]
    BY <2>1 DEF IInv, TypeOK
  <2>3. \A x \in Versions : x >= x
    BY DEF Versions
  <2>4. work[1].path \notin spoiled => NotOlder(work[1].path)
    BY <2>1, <2>2, <2>3 DEF NotOlder, Versions
  <2>5. \A q \in Paths \ {work[1].path} : local'[q] = local[q] /\ server'[q] = server[q]
    BY <2>1, <2>2
  <2> QED BY <2>1, <2>4, <2>5, SameIsForward
<1>6. ASSUME Apply, ~ Send(Head(work))
      PROVE  Forward
  <2>1. UNCHANGED fileVars
    BY <1>6 DEF Apply, ReadBack, SendFails, CloseFd, Unmap
  <2> QED BY <2>1, <1>1 DEF fileVars
<1>7. ASSUME NEW p \in Paths, Unlink(p)
      PROVE  Forward
  <2>1. /\ local'[p] = None /\ server'[p] = None
        /\ \A q \in Paths \ {p} : local'[q] = local[q] /\ server'[q] = server[q]
    BY <1>7 DEF Unlink, IInv, TypeOK
  <2>2. NotOlder(p)
    BY <2>1, Constants DEF NotOlder
  <2> QED BY <2>1, <2>2, SameIsForward
<1>8. ASSUME NEW p \in Paths, NEW q \in Paths, Rename(p, q)
      PROVE  Forward
  <2>1. /\ local[q] = None /\ server[q] = None /\ p # q
        /\ local'[p] = None /\ server'[p] = None
        /\ \A r \in Paths \ {p, q} : local'[r] = local[r] /\ server'[r] = server[r]
    BY <1>8 DEF Rename, IInv, TypeOK
  <2>2. NotOlder(p) /\ NotOlder(q)
    BY <2>1, Constants DEF NotOlder
  <2> QED BY <2>1, <2>2, SameIsForward
<1>9. ASSUME NEW h \in Handles, HandleStep(h)
      PROVE  Forward
  <2>1. ASSUME NEW p \in Paths, Open(h, p) PROVE Forward
    BY <2>1, <1>1 DEF Open, fileVars
  <2>2. ASSUME OnFileOp(h) \/ OnFileOpEnds(h) \/ Flush(h) \/ Release(h) PROVE Forward
    BY <2>2, <1>1 DEF OnFileOp, OnFileOpEnds, Flush, Release, fileVars
  <2> QED BY <2>1, <2>2, <1>2, <1>3, <1>4, <1>9 DEF HandleStep
<1>10. ASSUME DogPop \/ Exit \/ Join \/ DestructorEnds PROVE Forward
  BY <1>10, <1>1 DEF DogPop, Exit, Join, DestructorEnds, fileVars
<1>11. ASSUME UNCHANGED vars PROVE Forward
  BY <1>11, <1>1 DEF vars
<1> QED BY <1>5, <1>6, <1>7, <1>8, <1>9, <1>10, <1>11 DEF Next

(* Neither the delay nor the download at open brings an older content back. *)
THEOREM NothingGoesBack == Spec => NeverBack
<1>1. IInv /\ IInv' /\ [Next]_vars => [Forward]_vars
  BY StepForward
<1>2. Spec => [][Forward]_vars
  BY <1>1, Invariant, PTL DEF Spec
<1> QED BY <1>2 DEF NeverBack, Forward, NotOlder

=============================================================================
