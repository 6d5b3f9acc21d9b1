----------------------- MODULE WowLocalReorderProofs ------------------------
(* Theorems about WowLocalReorder. *)
EXTENDS WowLocalReorder, TLAPS, SequenceTheorems, FiniteSetTheorems, WellFoundedInduction

-----------------------------------------------------------------------------
(* The inductive invariant. *)

Values == (-MaxWrites)..Kill
Ops == [fd : Fds, block : Blocks, val : Values]
Contents == [Files -> [Blocks -> Values]]

Types ==
    /\ injection \in Injections
    /\ queue \in Seq(Ops)
    /\ fds \in [Fds -> Files \cup {None}]
    /\ dirty \in SUBSET Fds
    /\ session \in [Files -> {"none", "open", "flushed", "failed"}]
    /\ fh \in [Files -> Fds \cup {None}]
    /\ local \in Contents
    /\ server \in Contents
    /\ writes \in 0..MaxWrites
    /\ mine \in [Files -> Seq(Blocks \X (1..Kill))]
    /\ straight \in [Files -> BOOLEAN]
    /\ shuffled \in BOOLEAN
    /\ unsent \in SUBSET Files

(* A session has its descriptor. *)
SessionOK ==
    /\ \A f \in Files : session[f] = "none" => fh[f] = None
    /\ \A f \in Files : session[f] # "none" => fh[f] \in Fds /\ fds[fh[f]] = f
    /\ \A fd \in dirty : fds[fd] # None

(* A file that the server has not the content of will be sent by its       *)
(* session, unless it was written through a descriptor that nobody closes. *)
Sent ==
    \A f \in Files \ unsent : server[f] # local[f] /\ Leaked(f) = {} => fh[f] \in dirty

(* Writes come in the order of their numbers; only the phrase comes twice. *)
Numbered ==
    /\ \A i \in DOMAIN queue : queue[i].val = Kill \/ Number(queue[i].val) <= writes
    /\ \A f \in Files : \A i \in DOMAIN mine[f] : mine[f][i][2] = Kill \/ mine[f][i][2] <= writes
    /\ ~shuffled => \A i, j \in DOMAIN queue :
         i < j /\ queue[i].val # Kill /\ queue[j].val # Kill => Number(queue[i].val) < Number(queue[j].val)
    /\ \A f \in Files : \A i, j \in DOMAIN mine[f] :
         i < j /\ mine[f][i][2] # Kill /\ mine[f][j][2] # Kill => mine[f][i][2] < mine[f][j][2]

(* So the number of a write tells the write.                               *)
Told ==
    \A f \in Files : session[f] # "none" => \A i \in DOMAIN queue : \A j \in DOMAIN mine[f] :
         Number(queue[i].val) = mine[f][j][2] /\ queue[i].val # Kill =>
             fds[queue[i].fd] = f /\ queue[i].block = mine[f][j][1]

(* No write of another session has got into the file, and no flush can     *)
(* meet the phrase.                                                        *)
Alone(f) ==
    /\ session[f] # "none"
    /\ \A i \in DOMAIN queue : queue[i].val # Kill
    /\ \A i \in DOMAIN queue : fds[queue[i].fd] = f => \E j \in DOMAIN mine[f] : mine[f][j][2] = Number(queue[i].val)

InQueue(f, j) == \E i \in DOMAIN queue : Number(queue[i].val) = mine[f][j][2]

(* A write of such a session is in the queue, or one of its writes is where *)
(* it was made.                                                            *)
NoneLost ==
    \A f \in Files : Alone(f) => \A j \in DOMAIN mine[f] :
        \/ InQueue(f, j)
        \/ \E i \in DOMAIN mine[f] : /\ mine[f][i][1] = mine[f][j][1]
                                     /\ mine[f][i][2] = Number(local[f][mine[f][j][1]])

IsLast(f, j) == \A k \in DOMAIN mine[f] : k > j => mine[f][k][1] # mine[f][j][1]

(* When they were all delayed they all are in the queue; when they were    *)
(* all made at once the file has the last ones.                            *)
Straight ==
    \A f \in Files : Alone(f) /\ straight[f] /\ ~shuffled =>
        \/ \A j \in DOMAIN mine[f] : InQueue(f, j)
        \/ \A j \in DOMAIN mine[f] :
             ~InQueue(f, j) /\ (IsLast(f, j) => Number(local[f][mine[f][j][1]]) = mine[f][j][2])

IInv == Types /\ SessionOK /\ Sent /\ Numbered /\ Told /\ NoneLost /\ Straight

-----------------------------------------------------------------------------
(* Induction over data, with a set where the library has an operator. *)

LEMMA LeastOf ==
    ASSUME NEW T \in SUBSET Nat, T # {}
    PROVE  \E x \in T : \A y \in T : x <= y
<1> DEFINE R == {ss \in Nat \X Nat : ss[1] < ss[2]}
<1>1. IsWellFoundedOn(R, Nat)
  BY NatLessThanWellFounded DEF OpToRel
<1>2. \A x, y \in Nat : <<x, y>> \in R <=> x < y
  OBVIOUS
<1> HIDE DEF R
<1>3. \E x \in T : \A y \in T : ~ (<<y, x>> \in R)
  BY <1>1, WFMin
<1>4. \A x, y \in T : ~ (<<y, x>> \in R) => x <= y
  BY <1>2
<1> QED BY <1>3, <1>4

LEMMA SetInduction ==
    ASSUME NEW S, 0 \in S, \A n \in Nat : n \in S => n + 1 \in S
    PROVE  Nat \subseteq S
<1> SUFFICES ASSUME ~ (Nat \subseteq S) PROVE FALSE
  OBVIOUS
<1> DEFINE T == {n \in Nat : n \notin S}
<1>1. PICK x \in T : \A y \in T : x <= y
  <2>1. T \in SUBSET Nat /\ T # {}
    OBVIOUS
  <2> HIDE DEF T
  <2> QED BY <2>1, LeastOf
<1>2. x # 0 /\ x \in Nat /\ x - 1 \in Nat
  BY <1>1
<1>3. x - 1 \in S
  BY <1>1, <1>2
<1> QED BY <1>1, <1>2, <1>3

LEMMA GreatestOf ==
    ASSUME NEW n \in Nat, NEW T \in SUBSET (1..n), T # {}
    PROVE  \E x \in T : \A y \in T : y <= x
<1> DEFINE U == {n - x : x \in T}
<1>1. U \in SUBSET Nat /\ U # {}
  <2>1. \A x \in T : n - x \in Nat
    OBVIOUS
  <2>2. PICK x \in T : TRUE
    OBVIOUS
  <2> QED BY <2>1, <2>2
<1>2. PICK u \in U : \A v \in U : u <= v
  <2> HIDE DEF U
  <2> QED BY <1>1, LeastOf
<1>3. PICK x \in T : u = n - x
  OBVIOUS
<1>4. \A y \in T : n - x <= n - y
  BY <1>2, <1>3
<1> QED BY <1>4

-----------------------------------------------------------------------------
(* What a replay of the queue does. *)

(* The function that FoldLeft defines over the sets of places. *)
ReplayIter(q, g, S) ==
    g = [s \in SUBSET S |-> IF s = {} THEN Disk ELSE wow_write(g[s \ {Max(s)}], q[Max(s)])]

LEMMA ReplayDef ==
    ASSUME NEW q
    PROVE  Replay(q) = (CHOOSE g : ReplayIter(q, g, DOMAIN q))[DOMAIN q]
BY Zenon DEF Replay, FoldLeft, MapThenFoldSet, ReplayIter

LEMMA MaxOfUpTo ==
    ASSUME NEW n \in Nat, NEW s \in SUBSET (1..(n + 1)), n + 1 \in s
    PROVE  Max(s) = n + 1
<1>1. \A y \in s : n + 1 >= y
  OBVIOUS
<1>2. \E x \in s : \A y \in s : x >= y
  BY <1>1
<1>3. Max(s) \in s /\ \A y \in s : Max(s) >= y
  BY <1>2 DEF Max
<1>4. Max(s) >= n + 1 /\ Max(s) \in 1..(n + 1)
  BY <1>3
<1> QED BY <1>4

LEMMA ReplayIterExists ==
    ASSUME NEW q, NEW n \in Nat
    PROVE  \E g : ReplayIter(q, g, 1..n)
<1> DEFINE N == {k \in Nat : \E g : ReplayIter(q, g, 1..k)}
<1>1. 0 \in N
  <2> DEFINE g == [s \in SUBSET (1..0) |-> Disk]
  <2>1. \A s \in SUBSET (1..0) : s = {}
    OBVIOUS
  <2>2. g = [s \in SUBSET (1..0) |-> IF s = {} THEN Disk ELSE wow_write(g[s \ {Max(s)}], q[Max(s)])]
    BY <2>1
  <2> HIDE DEF g
  <2>3. ReplayIter(q, g, 1..0)
    BY <2>2 DEF ReplayIter
  <2> QED BY <2>3
<1>2. ASSUME NEW k \in Nat, k \in N PROVE k + 1 \in N
  <2>1. PICK g : ReplayIter(q, g, 1..k)
    BY <1>2
  <2> DEFINE h == [s \in SUBSET (1..(k + 1)) |->
                      IF k + 1 \in s THEN wow_write(g[s \ {k + 1}], q[k + 1]) ELSE g[s]]
  <2>2. \A s \in SUBSET (1..(k + 1)) : k + 1 \notin s => s \in SUBSET (1..k)
    OBVIOUS
  <2>3. ASSUME NEW s \in SUBSET (1..(k + 1))
        PROVE  h[s] = IF s = {} THEN Disk ELSE wow_write(h[s \ {Max(s)}], q[Max(s)])
    <3>1. CASE s = {}
      <4>1. g[s] = Disk
        BY <2>1, <3>1 DEF ReplayIter
      <4> QED BY <3>1, <4>1
    <3>2. CASE k + 1 \in s
      <4>1. Max(s) = k + 1
        BY <3>2, MaxOfUpTo
      <4>2. s \ {k + 1} \in SUBSET (1..(k + 1)) /\ k + 1 \notin s \ {k + 1} /\ s # {}
        BY <3>2
      <4>3. h[s \ {k + 1}] = g[s \ {k + 1}]
        BY <4>2
      <4> QED BY <3>2, <4>1, <4>2, <4>3
    <3>3. CASE k + 1 \notin s /\ s # {}
      <4>1. s \in SUBSET (1..k) /\ s \ {Max(s)} \in SUBSET (1..k)
        BY <2>2, <3>3
      <4>2. g[s] = wow_write(g[s \ {Max(s)}], q[Max(s)])
        BY <2>1, <3>3, <4>1 DEF ReplayIter
      <4>3. s \ {Max(s)} \in SUBSET (1..(k + 1)) /\ k + 1 \notin s \ {Max(s)}
        BY <3>3
      <4>4. h[s] = g[s] /\ h[s \ {Max(s)}] = g[s \ {Max(s)}]
        BY <3>3, <4>3
      <4> QED BY <3>3, <4>2, <4>4
    <3> QED BY <3>1, <3>2, <3>3
  <2>4. h = [s \in SUBSET (1..(k + 1)) |-> h[s]]
    OBVIOUS
  <2> HIDE DEF h
  <2>5. ReplayIter(q, h, 1..(k + 1))
    BY <2>3, <2>4 DEF ReplayIter
  <2> QED BY <2>5
<1> HIDE DEF N
<1>3. Nat \subseteq N
  BY <1>1, <1>2, SetInduction
<1> QED BY <1>3 DEF N

(* The operations of the queue are made one after the other, from what is  *)
(* on the disk, whatever the length of the queue.                          *)
IsTrace(q, t) ==
    /\ t[0] = Disk
    /\ \A i \in 1..Len(q) : t[i] = wow_write(t[i - 1], q[i])

LEMMA ReplayIsInOrder ==
    ASSUME NEW S, NEW q \in Seq(S)
    PROVE  \E t : IsTrace(q, t) /\ t[Len(q)] = Replay(q)
<1>1. Len(q) \in Nat /\ DOMAIN q = 1..Len(q)
  BY LenProperties
<1> DEFINE g == CHOOSE g : ReplayIter(q, g, DOMAIN q)
           t == [i \in 0..Len(q) |-> g[1..i]]
<1>2. Replay(q) = g[DOMAIN q]
  BY ReplayDef
<1>3. ReplayIter(q, g, DOMAIN q)
  BY <1>1, ReplayIterExists
<1> HIDE DEF g
<1>4. t[0] = Disk
  <2>1. 1..0 = {}
    OBVIOUS
  <2>2. g[{}] = Disk
    BY <1>3 DEF ReplayIter
  <2> QED BY <1>1, <2>1, <2>2
<1>5. ASSUME NEW i \in 1..Len(q) PROVE t[i] = wow_write(t[i - 1], q[i])
  <2>1. i - 1 \in Nat /\ (i - 1) + 1 = i /\ i \in 1..i /\ 1..i \in SUBSET (1..Len(q)) /\ 1..i # {}
    <3>1. i \in Nat /\ 1 <= i /\ i <= Len(q)
      BY <1>1
    <3>2. \A k \in 1..i : k \in 1..Len(q)
      BY <1>1, <3>1
    <3> QED BY <3>1, <3>2
  <2>2. Max(1..i) = i
    BY <2>1, MaxOfUpTo
  <2>3. (1..i) \ {i} = 1..(i - 1)
    BY <2>1
  <2>4. g[1..i] = wow_write(g[(1..i) \ {Max(1..i)}], q[Max(1..i)])
    BY <1>1, <1>3, <2>1 DEF ReplayIter
  <2>5. g[1..i] = wow_write(g[1..(i - 1)], q[i])
    BY <2>2, <2>3, <2>4
  <2> QED BY <1>1, <2>1, <2>5
<1>6. t[Len(q)] = Replay(q)
  BY <1>1, <1>2
<1> HIDE DEF t
<1> QED BY <1>4, <1>5, <1>6 DEF IsTrace

(* The operation i of q writes to the block b of f. *)
Hits(q, i, f, b) == fds[q[i].fd] = f /\ q[i].block = b

(* The first k operations of q have made the disk d. *)
MadeBy(q, k, d, f, b) ==
    \/ (\A i \in 1..k : ~Hits(q, i, f, b)) /\ d.local[f][b] = local[f][b]
    \/ \E i \in 1..k : /\ Hits(q, i, f, b)
                       /\ \A j \in 1..k : Hits(q, j, f, b) => j <= i
                       /\ d.local[f][b] = q[i].val

MarkedBy(q, k, d) ==
    /\ dirty \subseteq d.dirty
    /\ d.dirty \subseteq dirty \cup {fd \in Fds : fds[fd] # None}
    /\ \A i \in 1..k : fds[q[i].fd] # None => q[i].fd \in d.dirty

Made(q, k, d) ==
    /\ d.local \in Contents
    /\ MarkedBy(q, k, d)
    /\ \A f \in Files : \A b \in Blocks : MadeBy(q, k, d, f, b)

LEMMA KillIsNat ==
    /\ Kill \in Nat /\ MaxWrites \in Nat /\ MaxWrites < Kill /\ Kill # 0 /\ 0 \in Values
    /\ \A n \in 1..Kill : n \in Values /\ Number(n) = n
BY LocalReorderAssumption DEF Kill, Values, Number

(* What is kept of a write has its number, and the phrase is kept whole.   *)
LEMMA NumberIs ==
    /\ \A v \in Values : Number(v) \in Nat /\ (Number(v) = Kill <=> v = Kill)
    /\ \A n \in 1..Kill : Copy(n) \in Values /\ Number(Copy(n)) = n /\ (Copy(n) = Kill <=> n = Kill)
<1>1. MaxWrites \in Nat /\ Kill = MaxWrites + 1 /\ NulWrites \subseteq 1..MaxWrites
  BY LocalReorderAssumption DEF Kill
<1>2. \A v \in Values : Number(v) \in Nat /\ (Number(v) = Kill <=> v = Kill)
  BY <1>1 DEF Values, Number
<1>3. ASSUME NEW n \in 1..Kill
      PROVE  Copy(n) \in Values /\ Number(Copy(n)) = n /\ (Copy(n) = Kill <=> n = Kill)
  <2>1. CASE n \in NulWrites
    <3>1. Copy(n) = -n /\ n \in 1..MaxWrites
      BY <1>1, <2>1 DEF Copy
    <3>2. -n \in Values /\ Number(-n) = n /\ -n # Kill /\ n # Kill
      BY <1>1, <3>1 DEF Values, Number
    <3> QED BY <3>1, <3>2
  <2>2. CASE n \notin NulWrites
    <3>1. Copy(n) = n
      BY <2>2 DEF Copy
    <3> QED BY <3>1, KillIsNat
  <2> QED BY <2>1, <2>2
<1> QED BY <1>2, <1>3

LEMMA WriteMakes ==
    ASSUME Types, NEW q \in Seq(Ops), NEW k \in Nat, k + 1 \in 1..Len(q), NEW d, Made(q, k, d)
    PROVE  Made(q, k + 1, wow_write(d, q[k + 1]))
<1> DEFINE op == q[k + 1]
           e == wow_write(d, op)
<1>1. op \in Ops
  BY ElementOfSeq
<1>2. op.fd \in Fds /\ op.block \in Blocks /\ op.val \in Values
  BY <1>1, KillIsNat DEF Ops
<1>3. \A i \in 1..(k + 1) : i = k + 1 \/ i \in 1..k
  OBVIOUS
<1>4. \A i \in 1..k : i \in 1..(k + 1) /\ i <= k + 1 /\ i \in Nat
  OBVIOUS
<1>5. k + 1 \in 1..(k + 1) /\ k + 1 <= k + 1
  OBVIOUS
<1>6. d.local \in Contents /\ MarkedBy(q, k, d) /\ \A f \in Files : \A b \in Blocks : MadeBy(q, k, d, f, b)
  BY DEF Made
<1>7. CASE fds[op.fd] = None
  <2>1. e = d
    BY <1>7 DEF wow_write
  <2>2. MarkedBy(q, k + 1, d)
    BY <1>3, <1>6, <1>7 DEF MarkedBy
  <2>3. ASSUME NEW f \in Files, NEW b \in Blocks PROVE MadeBy(q, k + 1, d, f, b)
    <3>1. ~Hits(q, k + 1, f, b)
      BY <1>7, LocalReorderAssumption DEF Hits
    <3>2. MadeBy(q, k, d, f, b)
      BY <1>6
    <3>3. CASE (\A i \in 1..k : ~Hits(q, i, f, b)) /\ d.local[f][b] = local[f][b]
      BY <1>3, <3>1, <3>3 DEF MadeBy
    <3>4. CASE \E i \in 1..k : /\ Hits(q, i, f, b)
                              /\ \A j \in 1..k : Hits(q, j, f, b) => j <= i
                              /\ d.local[f][b] = q[i].val
      BY <1>3, <1>4, <3>1, <3>4 DEF MadeBy
    <3> QED BY <3>2, <3>3, <3>4 DEF MadeBy
  <2> HIDE DEF op, e
  <2>4. Made(q, k + 1, e)
    BY <1>6, <2>1, <2>2, <2>3 DEF Made
  <2> QED BY <2>4 DEF e, op
<1>8. CASE fds[op.fd] # None
  <2> DEFINE h == fds[op.fd]
  <2>1. h \in Files
    BY <1>2, <1>8 DEF Types
  <2>2. e = [local |-> [d.local EXCEPT ![h][op.block] = op.val], dirty |-> d.dirty \cup {op.fd}]
    BY <1>8 DEF wow_write
  <2>3. e.local = [d.local EXCEPT ![h][op.block] = op.val] /\ e.dirty = d.dirty \cup {op.fd}
    BY <2>2
  <2> HIDE DEF h, e
  <2>4. e.local \in Contents
    BY <1>2, <1>6, <2>1, <2>3 DEF Contents
  <2>5. MarkedBy(q, k + 1, e)
    <3>1. dirty \subseteq e.dirty
      BY <1>6, <2>3 DEF MarkedBy
    <3>2. e.dirty \subseteq dirty \cup {fd \in Fds : fds[fd] # None}
      BY <1>2, <1>6, <1>8, <2>3 DEF MarkedBy
    <3>3. \A i \in 1..(k + 1) : fds[q[i].fd] # None => q[i].fd \in e.dirty
      BY <1>3, <1>6, <2>3 DEF MarkedBy
    <3> QED BY <3>1, <3>2, <3>3 DEF MarkedBy
  <2>6. ASSUME NEW f \in Files, NEW b \in Blocks PROVE MadeBy(q, k + 1, e, f, b)
    <3>1. CASE f = h /\ b = op.block
      <4>1. Hits(q, k + 1, f, b)
        BY <3>1 DEF Hits, h
      <4>2. e.local[f][b] = op.val
        BY <1>6, <2>1, <2>3, <3>1 DEF Contents
      <4>3. \A j \in 1..(k + 1) : j <= k + 1
        OBVIOUS
      <4> QED BY <1>5, <4>1, <4>2, <4>3 DEF MadeBy
    <3>2. CASE ~(f = h /\ b = op.block)
      <4>1. ~Hits(q, k + 1, f, b)
        BY <3>2 DEF Hits, h
      <4>2. e.local[f][b] = d.local[f][b]
        BY <1>6, <2>1, <2>3, <3>2 DEF Contents
      <4>3. MadeBy(q, k, d, f, b)
        BY <1>6
      <4>4. CASE (\A i \in 1..k : ~Hits(q, i, f, b)) /\ d.local[f][b] = local[f][b]
        BY <1>3, <4>1, <4>2, <4>4 DEF MadeBy
      <4>5. CASE \E i \in 1..k : /\ Hits(q, i, f, b)
                                /\ \A j \in 1..k : Hits(q, j, f, b) => j <= i
                                /\ d.local[f][b] = q[i].val
        BY <1>3, <1>4, <4>1, <4>2, <4>5 DEF MadeBy
      <4> QED BY <4>3, <4>4, <4>5 DEF MadeBy
    <3> QED BY <3>1, <3>2
  <2> HIDE DEF op
  <2>7. Made(q, k + 1, e)
    BY <2>4, <2>5, <2>6 DEF Made
  <2> QED BY <2>7 DEF e, op
<1> QED BY <1>7, <1>8

(* A block has what the last operation on it wrote, and what it had before *)
(* when there is none; a descriptor that was open is dirty.                *)
LEMMA ReplayMakes ==
    ASSUME Types, NEW q \in Seq(Ops)
    PROVE  Made(q, Len(q), Replay(q))
<1>1. PICK t : IsTrace(q, t) /\ t[Len(q)] = Replay(q)
  BY ReplayIsInOrder
<1>2. Len(q) \in Nat
  BY LenProperties
<1> DEFINE N == {k \in Nat : k <= Len(q) => Made(q, k, t[k])}
<1>3. 0 \in N
  <2>1. t[0].local = local /\ t[0].dirty = dirty
    BY <1>1 DEF IsTrace, Disk
  <2>2. \A i \in 1..0 : FALSE
    OBVIOUS
  <2>3. MarkedBy(q, 0, t[0])
    BY <2>1, <2>2 DEF MarkedBy
  <2>4. \A f \in Files : \A b \in Blocks : MadeBy(q, 0, t[0], f, b)
    BY <2>1, <2>2 DEF MadeBy
  <2>5. t[0].local \in Contents
    BY <2>1 DEF Types
  <2>6. Made(q, 0, t[0])
    BY <2>3, <2>4, <2>5 DEF Made
  <2> QED BY <2>6
<1>4. ASSUME NEW k \in Nat, k \in N PROVE k + 1 \in N
  <2>1. SUFFICES ASSUME k + 1 <= Len(q) PROVE Made(q, k + 1, t[k + 1])
    OBVIOUS
  <2>2. k + 1 \in 1..Len(q) /\ k <= Len(q) /\ (k + 1) - 1 = k
    BY <1>2, <2>1
  <2>3. Made(q, k, t[k])
    BY <1>4, <2>2
  <2>4. t[k + 1] = wow_write(t[(k + 1) - 1], q[k + 1])
    BY <1>1, <2>2 DEF IsTrace
  <2>5. t[k + 1] = wow_write(t[k], q[k + 1])
    BY <2>2, <2>4
  <2> HIDE DEF N
  <2> QED BY <2>2, <2>3, <2>5, WriteMakes
<1> HIDE DEF N
<1>5. Nat \subseteq N
  BY <1>3, <1>4, SetInduction
<1>6. Len(q) \in N /\ Len(q) <= Len(q)
  BY <1>2, <1>5
<1> QED BY <1>1, <1>6 DEF N

LEMMA ReplayMarks ==
    ASSUME Types, NEW q \in Seq(Ops), NEW f \in Files, Replay(q).local[f] # local[f]
    PROVE  \E fd \in Replay(q).dirty : fds[fd] = f
<1> DEFINE d == Replay(q)
<1>1. Made(q, Len(q), d)
  BY ReplayMakes
<1> HIDE DEF d
<1>2. d.local[f] \in [Blocks -> Values] /\ local[f] \in [Blocks -> Values]
  BY <1>1 DEF Made, Types, Contents
<1>3. PICK b \in Blocks : d.local[f][b] # local[f][b]
  BY <1>2 DEF d
<1>4. MadeBy(q, Len(q), d, f, b)
  BY <1>1 DEF Made
<1>5. PICK i \in 1..Len(q) : fds[q[i].fd] = f
  BY <1>3, <1>4 DEF MadeBy, Hits
<1>6. q[i].fd \in d.dirty
  BY <1>1, <1>5, LocalReorderAssumption DEF Made, MarkedBy
<1> QED BY <1>5, <1>6 DEF d

(* A shuffled queue has the operations of the queue. *)
LEMMA ShuffleKeeps ==
    ASSUME Types, NEW q \in Shuffle
    PROVE  /\ q \in Seq(Ops)
           /\ DOMAIN q = DOMAIN queue
           /\ \A i \in DOMAIN q : \E j \in DOMAIN queue : q[i] = queue[j]
           /\ \A j \in DOMAIN queue : \E i \in DOMAIN q : q[i] = queue[j]
<1> DEFINE n == Len(queue)
<1>1. n \in Nat /\ DOMAIN queue = 1..n /\ queue \in [1..n -> Ops]
  BY LenProperties DEF Types
<1>2. CASE q = queue
  BY <1>1, <1>2 DEF Types
<1>3. CASE q \in Shuffled(queue)
  <2>1. PICK p \in [DOMAIN queue -> DOMAIN queue] : IsInjective(p) /\ q = [i \in DOMAIN queue |-> queue[p[i]]]
    BY <1>3 DEF Shuffled
  <2> HIDE DEF n
  <2>2. p \in [1..n -> 1..n]
    BY <1>1, <2>1
  <2>3. p \in Injection(1..n, 1..n)
    BY <2>1, <2>2 DEF Injection, IsInjective
  <2>4. IsFiniteSet(1..n)
    BY <1>1, FS_Interval
  <2>5. p \in Surjection(1..n, 1..n)
    BY <2>3, <2>4, FS_Injection
  <2>6. \A j \in 1..n : \E i \in 1..n : p[i] = j
    BY <2>5 DEF Surjection
  <2>7. q \in [1..n -> Ops]
    BY <1>1, <2>1, <2>2
  <2>8. q \in Seq(Ops) /\ DOMAIN q = 1..n
    BY <1>1, <2>7
  <2>9. \A i \in 1..n : q[i] = queue[p[i]] /\ p[i] \in 1..n
    BY <1>1, <2>1, <2>2
  <2>10. DOMAIN q = DOMAIN queue
    BY <1>1, <2>8
  <2>11. \A i \in DOMAIN q : \E j \in DOMAIN queue : q[i] = queue[j]
    BY <1>1, <2>8, <2>9
  <2>12. ASSUME NEW j \in DOMAIN queue PROVE \E i \in DOMAIN q : q[i] = queue[j]
    <3>1. PICK i \in 1..n : p[i] = j
      BY <1>1, <2>6
    <3> QED BY <2>8, <2>9, <3>1
  <2> QED BY <2>8, <2>10, <2>11, <2>12
<1> QED BY <1>2, <1>3 DEF Shuffle

LEMMA FirstKillIs ==
    ASSUME NEW q \in Seq(Ops)
    PROVE  /\ FirstKill(q) = 0 => \A i \in DOMAIN q : q[i].val # Kill
           /\ FirstKill(q) # 0 => FirstKill(q) \in DOMAIN q
<1> DEFINE T == {i \in DOMAIN q : q[i].val = Kill}
<1>1. DOMAIN q = 1..Len(q) /\ Len(q) \in Nat
  BY LenProperties
<1>2. CASE T = {}
  BY <1>2 DEF FirstKill
<1>3. CASE T # {}
  <2>1. T \in SUBSET Nat
    BY <1>1
  <2> HIDE DEF T
  <2>2. PICK i \in T : \A j \in T : i <= j
    BY <1>3, <2>1, LeastOf
  <2> USE DEF T
  <2>3. i \in DOMAIN q /\ q[i].val = Kill
    BY <2>2
  <2>4. \A j \in 1..(i - 1) : q[j].val # Kill
    <3>1. \A j \in 1..(i - 1) : j \in DOMAIN q /\ ~(i <= j)
      BY <1>1, <2>3
    <3> QED BY <2>2, <3>1
  <2>5. FirstKill(q) = CHOOSE k \in DOMAIN q : q[k].val = Kill /\ \A j \in 1..(k - 1) : q[j].val # Kill
    BY <2>3 DEF FirstKill
  <2>6. FirstKill(q) \in DOMAIN q
    BY <2>3, <2>4, <2>5
  <2> QED BY <1>1, <2>6
<1> QED BY <1>2, <1>3

LEMMA LowestFdIs ==
    ASSUME NEW x \in Fds, fds[x] = None
    PROVE  LowestFd \in Fds /\ fds[LowestFd] = None
<1> DEFINE T == {fd \in Fds : fds[fd] = None}
<1>1. T \in SUBSET Nat /\ T # {}
  BY LocalReorderAssumption
<1> HIDE DEF T
<1>2. PICK n \in T : \A e \in T : n <= e
  BY <1>1, LeastOf
<1> QED BY <1>2 DEF T, LowestFd

LEMMA QueueTyped ==
    ASSUME Types
    PROVE  /\ Len(queue) \in Nat /\ DOMAIN queue = 1..Len(queue)
           /\ \A i \in DOMAIN queue : /\ queue[i] \in Ops /\ queue[i].fd \in Fds
                                     /\ queue[i].block \in Blocks /\ queue[i].val \in Values
                                     /\ Number(queue[i].val) \in Nat
<1>1. queue \in Seq(Ops)
  BY DEF Types
<1>2. Len(queue) \in Nat /\ DOMAIN queue = 1..Len(queue)
  BY <1>1, LenProperties
<1>3. \A i \in DOMAIN queue : queue[i] \in Ops
  BY <1>1, <1>2, ElementOfSeq
<1>4. \A i \in DOMAIN queue : queue[i].fd \in Fds /\ queue[i].block \in Blocks /\ queue[i].val \in Values
  BY <1>3 DEF Ops
<1>5. \A i \in DOMAIN queue : Number(queue[i].val) \in Nat
  BY <1>4, NumberIs
<1> QED BY <1>2, <1>3, <1>4, <1>5

LEMMA QueueKill ==
    ASSUME Types, NEW i \in DOMAIN queue
    PROVE  Number(queue[i].val) = Kill <=> queue[i].val = Kill
BY QueueTyped, NumberIs

LEMMA MineTyped ==
    ASSUME Types, NEW f \in Files
    PROVE  /\ mine[f] \in Seq(Blocks \X (1..Kill))
           /\ Len(mine[f]) \in Nat /\ DOMAIN mine[f] = 1..Len(mine[f])
           /\ \A i \in DOMAIN mine[f] : mine[f][i][1] \in Blocks /\ mine[f][i][2] \in 1..Kill
<1>1. mine[f] \in Seq(Blocks \X (1..Kill))
  BY DEF Types
<1>2. Len(mine[f]) \in Nat /\ DOMAIN mine[f] = 1..Len(mine[f])
  BY <1>1, LenProperties
<1>3. \A i \in DOMAIN mine[f] : mine[f][i] \in Blocks \X (1..Kill)
  BY <1>1, <1>2, ElementOfSeq
<1> QED BY <1>1, <1>2, <1>3

LEMMA AppendIs ==
    ASSUME NEW S, NEW s \in Seq(S), NEW e \in S
    PROVE  /\ Append(s, e) \in Seq(S)
           /\ Len(s) + 1 \in DOMAIN Append(s, e)
           /\ Append(s, e)[Len(s) + 1] = e
           /\ \A i \in DOMAIN s : i \in DOMAIN Append(s, e) /\ Append(s, e)[i] = s[i] /\ i < Len(s) + 1
           /\ \A i \in DOMAIN Append(s, e) : i \in DOMAIN s \/ i = Len(s) + 1
<1>1. Len(s) \in Nat /\ DOMAIN s = 1..Len(s)
  BY LenProperties
<1>2. /\ Append(s, e) \in Seq(S) /\ Len(Append(s, e)) = Len(s) + 1
      /\ \A i \in 1..Len(s) : Append(s, e)[i] = s[i]
      /\ Append(s, e)[Len(s) + 1] = e
  BY AppendProperties
<1>3. DOMAIN Append(s, e) = 1..(Len(s) + 1)
  BY <1>2, LenProperties
<1> QED BY <1>1, <1>2, <1>3

-----------------------------------------------------------------------------
(* The steps. *)

LEMMA InitHolds == Init => IInv
<1> SUFFICES ASSUME Init PROVE IInv
  OBVIOUS
<1> USE DEF Init
<1>1. \A i \in DOMAIN queue : FALSE
  OBVIOUS
<1>2. \A f \in Files : \A i \in DOMAIN mine[f] : FALSE
  OBVIOUS
<1>3. Types
  <2>1. 0 \in Values /\ 0 \in 0..MaxWrites
    BY KillIsNat
  <2>2. Empty \in [Blocks -> Values]
    BY <2>1 DEF Empty
  <2>3. local \in Contents /\ server \in Contents
    BY <2>2 DEF Contents
  <2>4. queue \in Seq(Ops) /\ mine \in [Files -> Seq(Blocks \X (1..Kill))]
    OBVIOUS
  <2>5. writes \in 0..MaxWrites
    BY <2>1
  <2> QED BY <2>3, <2>4, <2>5 DEF Types
<1>4. SessionOK
  BY LocalReorderAssumption DEF SessionOK
<1>5. Sent
  BY DEF Sent
<1>6. Numbered
  BY <1>1, <1>2 DEF Numbered
<1>7. Told
  BY <1>1 DEF Told
<1>8. NoneLost /\ Straight
  BY DEF NoneLost, Straight, Alone
<1> QED BY <1>3, <1>4, <1>5, <1>6, <1>7, <1>8 DEF IInv

LEMMA StutterKeeps ==
    ASSUME IInv, UNCHANGED <<queue, fds, dirty, session, fh, local, server, writes, mine, straight, shuffled, unsent>>,
           injection' \in Injections
    PROVE  IInv'
<1>1. Types'
  BY DEF IInv, Types
<1>2. SessionOK' /\ Sent'
  BY DEF IInv, SessionOK, Sent, Leaked
<1>3. Numbered' /\ Told'
  BY DEF IInv, Numbered, Told
<1>4. \A f \in Files : Alone(f)' <=> Alone(f)
  BY DEF Alone
<1>5. \A f \in Files : \A j \in DOMAIN mine[f] : (InQueue(f, j)' <=> InQueue(f, j)) /\ (IsLast(f, j)' <=> IsLast(f, j))
  BY DEF InQueue, IsLast
<1>6. NoneLost'
  BY <1>4, <1>5 DEF IInv, NoneLost
<1>7. Straight'
  BY <1>4, <1>5 DEF IInv, Straight
<1> QED BY <1>1, <1>2, <1>3, <1>6, <1>7 DEF IInv

LEMMA OpenKeeps ==
    ASSUME IInv, NEW f \in Files, Open(f)
    PROVE  IInv'
<1> DEFINE n == LowestFd
<1>0. Types /\ SessionOK /\ Sent /\ Numbered /\ Told /\ NoneLost /\ Straight
  BY DEF IInv
<1>1. n \in Fds /\ fds[n] = None
  BY LowestFdIs DEF Open
<1> HIDE DEF n
<1>2. /\ session[f] = "none" /\ fds' = [fds EXCEPT ![n] = f] /\ dirty' = dirty \ {n}
      /\ session' = [session EXCEPT ![f] = "open"] /\ fh' = [fh EXCEPT ![f] = n] /\ mine' = [mine EXCEPT ![f] = <<>>]
      /\ straight' = [straight EXCEPT ![f] = TRUE]
      /\ UNCHANGED <<injection, queue, local, server, writes, shuffled, unsent>>
  BY DEF Open, n
<1>3. \A x \in Fds : fds'[x] = IF x = n THEN f ELSE fds[x]
  BY <1>0, <1>2 DEF Types
<1>4. \A g \in Files \ {f} : \A x \in Fds : fds'[x] = g <=> fds[x] = g
  BY <1>1, <1>3, LocalReorderAssumption
<1>5. \A g \in Files \ {f} : /\ session'[g] = session[g] /\ mine'[g] = mine[g] /\ fh'[g] = fh[g]
                             /\ straight'[g] = straight[g]
  BY <1>0, <1>2 DEF Types
<1>6. session'[f] = "open" /\ mine'[f] = <<>> /\ fh'[f] = n
  BY <1>0, <1>2 DEF Types
<1>7. \A i \in DOMAIN mine'[f] : FALSE
  BY <1>6
<1>8. n \notin dirty
  BY <1>0, <1>1 DEF SessionOK
<1>9. \A i \in DOMAIN queue : queue[i].fd \in Fds
  BY <1>0, QueueTyped
<1>10. Types'
  <2>1. fh' \in [Files -> Fds \cup {None}]
    BY <1>0, <1>1, <1>2 DEF Types
  <2> QED BY <1>0, <1>1, <1>2, <2>1, EmptySeq DEF Types
<1>11. SessionOK'
  <2>1. ASSUME NEW g \in Files, session'[g] = "none" PROVE fh'[g] = None
    BY <1>0, <1>5, <1>6, <2>1 DEF SessionOK
  <2>2. ASSUME NEW g \in Files, session'[g] # "none" PROVE fh'[g] \in Fds /\ fds'[fh'[g]] = g
    <3>1. CASE g = f
      BY <1>1, <1>3, <1>6, <3>1
    <3>2. CASE g # f
      BY <1>0, <1>4, <1>5, <2>2, <3>2 DEF SessionOK
    <3> QED BY <3>1, <3>2
  <2>3. \A fd \in dirty' : fds'[fd] # None
    BY <1>0, <1>2, <1>3 DEF SessionOK, Types
  <2> QED BY <2>1, <2>2, <2>3 DEF SessionOK
<1>12. Sent'
  <2>1. ASSUME NEW g \in Files \ unsent, server[g] # local[g], Leaked(g)' = {} PROVE fh'[g] \in dirty'
    <3>1. CASE g = f
      <4>1. fh[f] = None
        BY <1>0, <1>2 DEF SessionOK
      <4>2. Leaked(f) \subseteq Leaked(f)'
        BY <1>1, <1>3, <1>6, LocalReorderAssumption DEF Leaked
      <4>3. fh[f] \in dirty
        BY <1>0, <2>1, <3>1, <4>2 DEF Sent
      <4> QED BY <1>0, <4>1, <4>3, LocalReorderAssumption DEF Types
    <3>2. CASE g # f
      <4>1. Leaked(g) = {}
        BY <1>4, <1>5, <2>1, <3>2 DEF Leaked
      <4>2. fh[g] \in dirty
        BY <1>0, <2>1, <4>1 DEF Sent
      <4> QED BY <1>2, <1>5, <1>8, <3>2, <4>2
    <3> QED BY <3>1, <3>2
  <2> QED BY <1>2, <2>1 DEF Sent
<1>13. Numbered'
  BY <1>0, <1>2, <1>5, <1>7 DEF Numbered
<1>14. Told'
  <2>1. ASSUME NEW g \in Files, session'[g] # "none", NEW i \in DOMAIN queue, NEW j \in DOMAIN mine'[g],
               Number(queue[i].val) = mine'[g][j][2], queue[i].val # Kill
        PROVE  fds'[queue[i].fd] = g /\ queue[i].block = mine'[g][j][1]
    <3>1. g # f
      BY <1>7
    <3>2. fds[queue[i].fd] = g /\ queue[i].block = mine[g][j][1]
      BY <1>0, <1>5, <2>1, <3>1 DEF Told
    <3> QED BY <1>4, <1>5, <1>9, <3>1, <3>2
  <2> QED BY <1>2, <2>1 DEF Told
<1>15. \A g \in Files \ {f} : Alone(g)' <=> Alone(g)
  BY <1>2, <1>4, <1>5, <1>9 DEF Alone
<1>16. \A g \in Files \ {f} : \A j \in DOMAIN mine[g] :
         (InQueue(g, j)' <=> InQueue(g, j)) /\ (IsLast(g, j)' <=> IsLast(g, j))
  BY <1>2, <1>5 DEF InQueue, IsLast
<1>17. NoneLost'
  <2>1. ASSUME NEW g \in Files, Alone(g)', NEW j \in DOMAIN mine'[g]
        PROVE  InQueue(g, j)' \/ \E i \in DOMAIN mine'[g] : /\ mine'[g][i][1] = mine'[g][j][1]
                                                          /\ mine'[g][i][2] = Number(local[g][mine'[g][j][1]])
    <3>1. g # f
      BY <1>7
    <3> QED BY <1>0, <1>5, <1>15, <1>16, <2>1, <3>1 DEF NoneLost
  <2> QED BY <1>2, <2>1 DEF NoneLost
<1>18. Straight'
  <2>1. ASSUME NEW g \in Files, Alone(g)', straight'[g], ~shuffled
        PROVE  \/ \A j \in DOMAIN mine'[g] : InQueue(g, j)'
               \/ \A j \in DOMAIN mine'[g] :
                    ~InQueue(g, j)' /\ (IsLast(g, j)' => Number(local[g][mine'[g][j][1]]) = mine'[g][j][2])
    <3>1. CASE g = f
      BY <1>7, <3>1
    <3>2. CASE g # f
      BY <1>0, <1>5, <1>15, <1>16, <2>1, <3>2 DEF Straight
    <3> QED BY <3>1, <3>2
  <2> QED BY <1>2, <2>1 DEF Straight
<1> QED BY <1>10, <1>11, <1>12, <1>13, <1>14, <1>17, <1>18 DEF IInv

LEMMA ReleaseClosesKeeps ==
    ASSUME IInv, NEW f \in Files, ReleaseCloses(f)
    PROVE  IInv'
<1> DEFINE n == fh[f]
<1>0. Types /\ SessionOK /\ Sent /\ Numbered /\ Told /\ NoneLost /\ Straight
  BY DEF IInv
<1>1. n \in Fds /\ fds[n] = f
  BY <1>0 DEF ReleaseCloses, SessionOK
<1>2. /\ fds' = [fds EXCEPT ![n] = None] /\ dirty' = dirty \ {n}
      /\ session' = [session EXCEPT ![f] = "none"] /\ fh' = [fh EXCEPT ![f] = None]
      /\ server' = server \/ server' = [server EXCEPT ![f] = local[f]]
      /\ n \in dirty => server' = [server EXCEPT ![f] = local[f]] \/ f \in unsent'
      /\ n \notin dirty => server' = server /\ unsent' = unsent
      /\ unsent' \in {unsent, unsent \ {f}, unsent \cup {f}}
      /\ UNCHANGED <<injection, queue, local, writes, mine, straight, shuffled>>
  <2>1. PICK out \in Outcomes : Succeeds(out) /\ writebackToServer(f, Disk, out)
    BY DEF ReleaseCloses
  <2>2. out = "sent" \/ (out = "not read" /\ n \in dirty)
    BY <2>1 DEF Succeeds, writebackToServer, Disk
  <2>3. CASE out = "sent"
    BY <2>1, <2>3 DEF ReleaseCloses, writebackToServer, Disk
  <2>4. CASE out = "not read" /\ n \in dirty
    BY <2>1, <2>4 DEF ReleaseCloses, writebackToServer, Disk
  <2> QED BY <2>2, <2>3, <2>4
<1> HIDE DEF n
<1>3. \A x \in Fds : fds'[x] = IF x = n THEN None ELSE fds[x]
  BY <1>0, <1>2 DEF Types
<1>4. \A g \in Files \ {f} : \A x \in Fds : fds'[x] = g <=> fds[x] = g
  BY <1>1, <1>3, LocalReorderAssumption
<1>5. \A g \in Files \ {f} : session'[g] = session[g] /\ fh'[g] = fh[g] /\ server'[g] = server[g]
  <2>1. \A g \in Files \ {f} : session'[g] = session[g] /\ fh'[g] = fh[g]
    BY <1>0, <1>2 DEF Types
  <2>2. \A g \in Files \ {f} : server'[g] = server[g]
    BY <1>0, <1>2 DEF Types, Contents
  <2> QED BY <2>1, <2>2
<1>6. session'[f] = "none" /\ fh'[f] = None
  BY <1>0, <1>2 DEF Types
<1>7. \A i \in DOMAIN queue : queue[i].fd \in Fds
  BY <1>0, QueueTyped
<1>8. local[f] \in [Blocks -> Values]
  BY <1>0 DEF Types, Contents
<1>9. Types'
  <2>1. server' \in Contents
    BY <1>0, <1>2, <1>8 DEF Types, Contents
  <2> QED BY <1>0, <1>2, <2>1 DEF Types
<1>10. SessionOK'
  <2>1. ASSUME NEW g \in Files, session'[g] = "none" PROVE fh'[g] = None
    BY <1>0, <1>5, <1>6, <2>1 DEF SessionOK
  <2>2. ASSUME NEW g \in Files, session'[g] # "none" PROVE fh'[g] \in Fds /\ fds'[fh'[g]] = g
    BY <1>0, <1>4, <1>5, <1>6, <2>2 DEF SessionOK
  <2>3. \A fd \in dirty' : fds'[fd] # None
    BY <1>0, <1>2, <1>3 DEF SessionOK, Types
  <2> QED BY <2>1, <2>2, <2>3 DEF SessionOK
<1>11. Sent'
  <2>1. ASSUME NEW g \in Files \ unsent', server'[g] # local[g], Leaked(g)' = {} PROVE fh'[g] \in dirty'
    <3>1. CASE g = f
      <4>1. n \notin dirty
        BY <1>0, <1>2, <2>1, <3>1 DEF Types, Contents
      <4>2. server[f] # local[f] /\ f \notin unsent
        BY <1>2, <2>1, <3>1, <4>1
      <4>3. Leaked(f) \subseteq Leaked(f)'
        BY <1>0, <1>3, <1>6, LocalReorderAssumption DEF Leaked, n
      <4>4. n \in dirty
        BY <1>0, <2>1, <3>1, <4>2, <4>3 DEF Sent, n
      <4> QED BY <4>1, <4>4
    <3>2. CASE g # f
      <4>1. server[g] # local[g] /\ g \notin unsent
        BY <1>2, <1>5, <2>1, <3>2
      <4>2. Leaked(g) = {}
        BY <1>4, <1>5, <2>1, <3>2 DEF Leaked
      <4>3. fh[g] \in dirty
        BY <1>0, <4>1, <4>2 DEF Sent
      <4>4. fh[g] # n
        BY <1>0, <1>1, <3>2, <4>3, LocalReorderAssumption DEF SessionOK, Types
      <4> QED BY <1>2, <1>5, <3>2, <4>3, <4>4
    <3> QED BY <3>1, <3>2
  <2> QED BY <1>2, <2>1 DEF Sent
<1>12. Numbered'
  BY <1>0, <1>2 DEF Numbered
<1>13. Told'
  <2>1. ASSUME NEW g \in Files, session'[g] # "none", NEW i \in DOMAIN queue, NEW j \in DOMAIN mine[g],
               Number(queue[i].val) = mine[g][j][2], queue[i].val # Kill
        PROVE  fds'[queue[i].fd] = g /\ queue[i].block = mine[g][j][1]
    <3>1. g # f
      BY <1>6, <2>1
    <3>2. fds[queue[i].fd] = g /\ queue[i].block = mine[g][j][1]
      BY <1>0, <1>5, <2>1, <3>1 DEF Told
    <3> QED BY <1>4, <1>7, <3>1, <3>2
  <2> QED BY <1>2, <2>1 DEF Told
<1>14. \A g \in Files : Alone(g)' => g # f /\ Alone(g)
  BY <1>2, <1>4, <1>5, <1>6, <1>7 DEF Alone
<1>15. \A g \in Files : \A j \in DOMAIN mine[g] :
         (InQueue(g, j)' <=> InQueue(g, j)) /\ (IsLast(g, j)' <=> IsLast(g, j))
  BY <1>2 DEF InQueue, IsLast
<1>16. NoneLost'
  BY <1>0, <1>2, <1>14, <1>15 DEF NoneLost
<1>17. Straight'
  BY <1>0, <1>2, <1>14, <1>15 DEF Straight
<1> QED BY <1>9, <1>10, <1>11, <1>12, <1>13, <1>16, <1>17 DEF IInv

LEMMA ReleaseFailsKeeps ==
    ASSUME IInv, NEW f \in Files, ReleaseFails(f)
    PROVE  IInv'
<1> DEFINE n == fh[f]
<1>0. Types /\ SessionOK /\ Sent /\ Numbered /\ Told /\ NoneLost /\ Straight
  BY DEF IInv
<1>1. n \in Fds /\ fds[n] = f
  BY <1>0 DEF ReleaseFails, SessionOK
<1>2. /\ session' = [session EXCEPT ![f] = "none"] /\ fh' = [fh EXCEPT ![f] = None]
      /\ server' = server \/ server' = [server EXCEPT ![f] = local[f]]
      /\ UNCHANGED <<injection, queue, fds, dirty, local, writes, mine, straight, shuffled, unsent>>
  <2>1. PICK out \in Outcomes : ~Succeeds(out) /\ writebackToServer(f, Disk, out)
    BY DEF ReleaseFails
  <2>2. out \in {"failed", "answer lost"}
    BY <2>1 DEF Succeeds, Outcomes
  <2> QED BY <2>1, <2>2 DEF ReleaseFails, writebackToServer, Disk
<1> HIDE DEF n
<1>3. \A g \in Files \ {f} : session'[g] = session[g] /\ fh'[g] = fh[g] /\ server'[g] = server[g]
  <2>1. \A g \in Files \ {f} : session'[g] = session[g] /\ fh'[g] = fh[g]
    BY <1>0, <1>2 DEF Types
  <2>2. \A g \in Files \ {f} : server'[g] = server[g]
    BY <1>0, <1>2 DEF Types, Contents
  <2> QED BY <2>1, <2>2
<1>4. session'[f] = "none" /\ fh'[f] = None
  BY <1>0, <1>2 DEF Types
<1>5. local[f] \in [Blocks -> Values]
  BY <1>0 DEF Types, Contents
<1>6. Types'
  <2>1. server' \in Contents
    BY <1>0, <1>2, <1>5 DEF Types, Contents
  <2> QED BY <1>0, <1>2, <2>1 DEF Types
<1>7. SessionOK'
  BY <1>0, <1>2, <1>3, <1>4 DEF SessionOK
<1>8. Sent'
  <2>1. ASSUME NEW g \in Files \ unsent, server'[g] # local[g], Leaked(g)' = {} PROVE fh'[g] \in dirty
    <3>1. CASE g = f
      <4>1. n \in Leaked(f)'
        BY <1>1, <1>2, <1>4, LocalReorderAssumption DEF Leaked
      <4> QED BY <2>1, <3>1, <4>1
    <3>2. CASE g # f
      <4>1. Leaked(g) = {}
        BY <1>2, <1>3, <2>1, <3>2 DEF Leaked
      <4> QED BY <1>0, <1>3, <2>1, <3>2, <4>1 DEF Sent
    <3> QED BY <3>1, <3>2
  <2> QED BY <1>2, <2>1 DEF Sent
<1>9. Numbered'
  BY <1>0, <1>2 DEF Numbered
<1>10. Told'
  BY <1>0, <1>2, <1>3, <1>4 DEF Told
<1>11. \A g \in Files : Alone(g)' => Alone(g)
  BY <1>2, <1>3, <1>4 DEF Alone
<1>12. \A g \in Files : \A j \in DOMAIN mine[g] :
         (InQueue(g, j)' <=> InQueue(g, j)) /\ (IsLast(g, j)' <=> IsLast(g, j))
  BY <1>2 DEF InQueue, IsLast
<1>13. NoneLost'
  BY <1>0, <1>2, <1>11, <1>12 DEF NoneLost
<1>14. Straight'
  BY <1>0, <1>2, <1>11, <1>12 DEF Straight
<1> QED BY <1>6, <1>7, <1>8, <1>9, <1>10, <1>13, <1>14 DEF IInv

(* What both ways of a write do to the history, and that the number is new. *)
LEMMA NextWriteIs ==
    ASSUME IInv, NEW f \in Files, NEW b \in Blocks, NEW n \in 1..Kill, NextWrite(f, b, n)
    PROVE  LET m == mine[f]
               l == Len(mine[f]) + 1
           IN /\ l \in DOMAIN mine'[f] /\ mine'[f][l] = <<b, n>>
              /\ \A i \in DOMAIN m : i \in DOMAIN mine'[f] /\ mine'[f][i] = m[i] /\ i < l
              /\ \A i \in DOMAIN mine'[f] : i \in DOMAIN m \/ i = l
              /\ mine' \in [Files -> Seq(Blocks \X (1..Kill))]
              /\ \A g \in Files \ {f} : mine'[g] = mine[g]
              /\ writes \in Nat /\ writes' = writes + 1 /\ writes' \in 0..MaxWrites
              /\ n = Kill \/ n = writes + 1
              /\ n # Kill => /\ \A i \in DOMAIN queue : Number(queue[i].val) # n
                            /\ \A g \in Files : \A i \in DOMAIN mine[g] : mine[g][i][2] # n
<1> DEFINE m == mine[f]
           l == Len(mine[f]) + 1
<1>0. Types /\ Numbered
  BY DEF IInv
<1>1. m \in Seq(Blocks \X (1..Kill)) /\ <<b, n>> \in Blocks \X (1..Kill)
  BY <1>0, MineTyped
<1>2. mine' = [mine EXCEPT ![f] = Append(m, <<b, n>>)]
  BY DEF NextWrite
<1>3. mine'[f] = Append(m, <<b, n>>) /\ \A g \in Files \ {f} : mine'[g] = mine[g]
  BY <1>0, <1>2 DEF Types
<1>4. /\ Append(m, <<b, n>>) \in Seq(Blocks \X (1..Kill))
      /\ l \in DOMAIN Append(m, <<b, n>>)
      /\ Append(m, <<b, n>>)[l] = <<b, n>>
      /\ \A i \in DOMAIN m : i \in DOMAIN Append(m, <<b, n>>) /\ Append(m, <<b, n>>)[i] = m[i] /\ i < l
      /\ \A i \in DOMAIN Append(m, <<b, n>>) : i \in DOMAIN m \/ i = l
  BY <1>1, AppendIs
<1>5. mine' \in [Files -> Seq(Blocks \X (1..Kill))]
  BY <1>0, <1>2, <1>4 DEF Types
<1>6. writes \in Nat /\ writes' = writes + 1 /\ writes' \in 0..MaxWrites /\ (n = Kill \/ n = writes + 1)
  BY <1>0, KillIsNat DEF Types, NextWrite
<1>7. ASSUME n # Kill PROVE /\ \A i \in DOMAIN queue : Number(queue[i].val) # n
                           /\ \A g \in Files : \A i \in DOMAIN mine[g] : mine[g][i][2] # n
  <2>1. n = writes + 1
    BY <1>6, <1>7
  <2>2. ASSUME NEW i \in DOMAIN queue PROVE Number(queue[i].val) # n
    <3>1. queue[i].val \in Values /\ Number(queue[i].val) \in Nat
      BY <1>0, QueueTyped
    <3>3. Number(queue[i].val) = Kill <=> queue[i].val = Kill
      BY <3>1, NumberIs
    <3>2. queue[i].val = Kill \/ Number(queue[i].val) <= writes
      BY <1>0 DEF Numbered
    <3> QED BY <1>6, <1>7, <2>1, <3>1, <3>2, <3>3
  <2>3. ASSUME NEW g \in Files, NEW i \in DOMAIN mine[g] PROVE mine[g][i][2] # n
    <3>1. mine[g][i][2] = Kill \/ mine[g][i][2] <= writes
      BY <1>0 DEF Numbered
    <3> QED BY <1>6, <1>7, <2>1, <3>1
  <2> QED BY <2>2, <2>3
<1> QED BY <1>3, <1>4, <1>5, <1>6, <1>7

LEMMA WriteDelayedKeeps ==
    ASSUME IInv, NEW f \in Files, NEW b \in Blocks, NEW n \in 1..Kill, WriteDelayed(f, b, n)
    PROVE  IInv'
<1> DEFINE o == Op(f, b, Copy(n))
           l == Len(mine[f]) + 1
           r == Len(queue) + 1
<1>0. Types /\ SessionOK /\ Sent /\ Numbered /\ Told /\ NoneLost /\ Straight
  BY DEF IInv
<1>1. NextWrite(f, b, n) /\ session[f] = "open" /\ UNCHANGED <<injection, fds, session, fh, server, opens, shuffled, unsent, dirty, local>>
  BY DEF WriteDelayed, NextWrite
<1>2. /\ l \in DOMAIN mine'[f] /\ mine'[f][l] = <<b, n>>
      /\ \A i \in DOMAIN mine[f] : i \in DOMAIN mine'[f] /\ mine'[f][i] = mine[f][i] /\ i < l
      /\ \A i \in DOMAIN mine'[f] : i \in DOMAIN mine[f] \/ i = l
  BY <1>1, NextWriteIs
<1>3. /\ mine' \in [Files -> Seq(Blocks \X (1..Kill))]
      /\ \A g \in Files \ {f} : mine'[g] = mine[g]
      /\ writes \in Nat /\ writes' = writes + 1 /\ writes' \in 0..MaxWrites
      /\ n = Kill \/ n = writes + 1
  BY <1>1, NextWriteIs
<1>4. n # Kill => /\ \A i \in DOMAIN queue : Number(queue[i].val) # n
                 /\ \A g \in Files : \A i \in DOMAIN mine[g] : mine[g][i][2] # n
  BY <1>1, NextWriteIs
<1>5. /\ o.fd \in Fds /\ fds[o.fd] = f /\ o.block = b /\ o \in Ops
      /\ Number(o.val) = n /\ (o.val = Kill <=> n = Kill)
  <2>1. fh[f] \in Fds /\ fds[fh[f]] = f
    BY <1>0, <1>1 DEF SessionOK
  <2>2. Copy(n) \in Values /\ Number(Copy(n)) = n /\ (Copy(n) = Kill <=> n = Kill)
    BY NumberIs
  <2> QED BY <2>1, <2>2 DEF Op, Ops
<1>6. /\ queue' \in Seq(Ops)
      /\ r \in DOMAIN queue' /\ queue'[r] = o
      /\ \A i \in DOMAIN queue : i \in DOMAIN queue' /\ queue'[i] = queue[i] /\ i < r
      /\ \A i \in DOMAIN queue' : i \in DOMAIN queue \/ i = r
  <2>1. queue' = Append(queue, o) /\ queue \in Seq(Ops)
    BY <1>0 DEF WriteDelayed, RecordWrite, Types
  <2> HIDE DEF o
  <2> QED BY <1>5, <2>1, AppendIs
<1>7. /\ straight' \in [Files -> BOOLEAN]
      /\ \A g \in Files \ {f} : straight'[g] = straight[g]
      /\ straight'[f] => straight[f] /\ \A i \in DOMAIN mine[f] : InQueue(f, i)
  BY <1>0 DEF WriteDelayed, Types, InQueue
<1>8. l \in Nat /\ r \in Nat /\ DOMAIN mine[f] \subseteq Nat /\ DOMAIN queue \subseteq Nat
  BY <1>0, QueueTyped, MineTyped
<1>9. \A g \in Files : \A i \in DOMAIN mine[g] : i \in DOMAIN mine'[g] /\ mine'[g][i] = mine[g][i]
  BY <1>2, <1>3
<1>10. mine'[f][l][1] = b /\ mine'[f][l][2] = n
  BY <1>2
<1>11. writes <= MaxWrites /\ MaxWrites \in Nat /\ Kill = MaxWrites + 1
  BY <1>0, KillIsNat DEF Types, Kill
<1> HIDE DEF o, l, r
<1>12. Types'
  BY <1>0, <1>1, <1>3, <1>6, <1>7 DEF Types
<1>13. SessionOK' /\ Sent'
  BY <1>0, <1>1 DEF SessionOK, Sent, Leaked
<1>14. Numbered'
  <2>1. \A i \in DOMAIN queue' : queue'[i].val = Kill \/ Number(queue'[i].val) <= writes'
    <3>1. ASSUME NEW i \in DOMAIN queue PROVE queue'[i].val = Kill \/ Number(queue'[i].val) <= writes'
      <4>1. Number(queue[i].val) \in Nat
        BY <1>0, QueueTyped
      <4> QED BY <1>0, <1>3, <1>6, <4>1 DEF Numbered
    <3> QED BY <1>3, <1>5, <1>6, <3>1
  <2>2. \A g \in Files : \A i \in DOMAIN mine'[g] : mine'[g][i][2] = Kill \/ mine'[g][i][2] <= writes'
    <3>1. ASSUME NEW g \in Files, NEW i \in DOMAIN mine[g] PROVE mine'[g][i][2] = Kill \/ mine'[g][i][2] <= writes'
      <4>1. mine[g][i][2] \in Nat
        BY <1>0, MineTyped
      <4>2. mine[g][i][2] = Kill \/ mine[g][i][2] <= writes
        BY <1>0 DEF Numbered
      <4> QED BY <1>3, <1>9, <4>1, <4>2
    <3>2. mine'[f][l][2] = Kill \/ mine'[f][l][2] <= writes'
      BY <1>3, <1>10
    <3> QED BY <1>2, <1>3, <3>1, <3>2
  <2>3. ASSUME ~shuffled, NEW i \in DOMAIN queue', NEW j \in DOMAIN queue',
               i < j, queue'[i].val # Kill, queue'[j].val # Kill
        PROVE  Number(queue'[i].val) < Number(queue'[j].val)
    <3>1. i \in DOMAIN queue
      <4>1. CASE i = r
        BY <1>6, <1>8, <2>3, <4>1
      <4> QED BY <1>6, <4>1
    <3>2. CASE j \in DOMAIN queue
      BY <1>0, <1>6, <2>3, <3>1, <3>2 DEF Numbered
    <3>3. CASE j = r
      <4>1. Number(queue'[j].val) = writes + 1
        BY <1>3, <1>5, <1>6, <2>3, <3>3
      <4>2. Number(queue'[i].val) = Number(queue[i].val) /\ Number(queue[i].val) \in Nat
        BY <1>0, <1>6, <3>1, QueueTyped
      <4>3. Number(queue[i].val) <= writes
        BY <1>0, <1>6, <2>3, <3>1, <4>2 DEF Numbered
      <4> QED BY <1>3, <4>1, <4>2, <4>3
    <3> QED BY <1>6, <3>2, <3>3
  <2>4. ASSUME NEW g \in Files, NEW i \in DOMAIN mine'[g], NEW j \in DOMAIN mine'[g],
               i < j, mine'[g][i][2] # Kill, mine'[g][j][2] # Kill
        PROVE  mine'[g][i][2] < mine'[g][j][2]
    <3>1. CASE i \in DOMAIN mine[g] /\ j \in DOMAIN mine[g]
      BY <1>0, <1>9, <2>4, <3>1 DEF Numbered
    <3>2. CASE g = f /\ i = l
      BY <1>2, <1>8, <2>4, <3>2
    <3>3. CASE g = f /\ j = l /\ i \in DOMAIN mine[f]
      <4>1. mine'[g][j][2] = writes + 1
        BY <1>3, <1>10, <2>4, <3>3
      <4>2. mine'[g][i][2] = mine[f][i][2] /\ mine[f][i][2] \in Nat
        BY <1>0, <1>9, <3>3, MineTyped
      <4>3. mine[f][i][2] <= writes
        BY <1>0, <2>4, <3>3, <4>2 DEF Numbered
      <4> QED BY <1>3, <4>1, <4>2, <4>3
    <3> QED BY <1>2, <1>3, <3>1, <3>2, <3>3
  <2> QED BY <1>1, <2>1, <2>2, <2>3, <2>4 DEF Numbered
<1>15. Told'
  <2>1. ASSUME NEW g \in Files, session[g] # "none", NEW i \in DOMAIN queue', NEW j \in DOMAIN mine'[g],
               Number(queue'[i].val) = mine'[g][j][2], queue'[i].val # Kill
        PROVE  fds[queue'[i].fd] = g /\ queue'[i].block = mine'[g][j][1]
    <3>1. CASE i \in DOMAIN queue /\ j \in DOMAIN mine[g]
      BY <1>0, <1>6, <1>9, <2>1, <3>1 DEF Told
    <3>2. CASE i = r /\ j \in DOMAIN mine[g]
      BY <1>4, <1>5, <1>6, <1>9, <2>1, <3>2
    <3>3. CASE i \in DOMAIN queue /\ g = f /\ j = l
      <4>1. n # Kill
        BY <1>0, <1>6, <1>10, <2>1, <3>3, QueueKill
      <4> QED BY <1>4, <1>6, <1>10, <2>1, <3>3, <4>1
    <3>4. CASE i = r /\ g = f /\ j = l
      BY <1>5, <1>6, <1>10, <3>4
    <3> QED BY <1>2, <1>3, <1>6, <3>1, <3>2, <3>3, <3>4
  <2> QED BY <1>1, <2>1 DEF Told
<1>16. ASSUME NEW g \in Files, Alone(g)' PROVE Alone(g) /\ n # Kill
  <2>1. session[g] # "none"
    BY <1>1, <1>16 DEF Alone
  <2>2. n # Kill /\ \A i \in DOMAIN queue : queue[i].val # Kill
    BY <1>5, <1>6, <1>16 DEF Alone
  <2>3. ASSUME NEW i \in DOMAIN queue, fds[queue[i].fd] = g
        PROVE  \E j \in DOMAIN mine[g] : mine[g][j][2] = Number(queue[i].val)
    <3>1. PICK j \in DOMAIN mine'[g] : mine'[g][j][2] = Number(queue[i].val)
      BY <1>1, <1>6, <1>16, <2>3 DEF Alone
    <3>2. CASE j \in DOMAIN mine[g]
      BY <1>9, <3>1, <3>2
    <3>3. CASE g = f /\ j = l
      BY <1>4, <1>10, <2>2, <3>1, <3>3
    <3> QED BY <1>2, <1>3, <3>2, <3>3
  <2> QED BY <2>1, <2>2, <2>3 DEF Alone
<1>17. \A g \in Files : \A j \in DOMAIN mine[g] : InQueue(g, j) => InQueue(g, j)'
  BY <1>6, <1>9 DEF InQueue
<1>18. \E i \in DOMAIN queue' : Number(queue'[i].val) = mine'[f][l][2]
  BY <1>5, <1>6, <1>10
<1>19. NoneLost'
  <2>1. ASSUME NEW g \in Files, Alone(g)', NEW j \in DOMAIN mine'[g]
        PROVE  InQueue(g, j)' \/ \E i \in DOMAIN mine'[g] : /\ mine'[g][i][1] = mine'[g][j][1]
                                                          /\ mine'[g][i][2] = Number(local[g][mine'[g][j][1]])
    <3>1. CASE j \in DOMAIN mine[g]
      BY <1>0, <1>9, <1>16, <1>17, <2>1, <3>1 DEF NoneLost
    <3>2. CASE g = f /\ j = l
      BY <1>18, <3>2 DEF InQueue
    <3> QED BY <1>2, <1>3, <3>1, <3>2
  <2> QED BY <1>1, <2>1 DEF NoneLost
<1>20. Straight'
  <2>1. ASSUME NEW g \in Files, Alone(g)', straight'[g], ~shuffled
        PROVE  \/ \A j \in DOMAIN mine'[g] : InQueue(g, j)'
               \/ \A j \in DOMAIN mine'[g] :
                    ~InQueue(g, j)' /\ (IsLast(g, j)' => Number(local[g][mine'[g][j][1]]) = mine'[g][j][2])
    <3>1. CASE g = f
      <4>1. \A j \in DOMAIN mine[f] : InQueue(f, j)'
        BY <1>7, <1>17, <2>1, <3>1
      <4>2. \A j \in DOMAIN mine'[f] : j = l => InQueue(f, j)'
        BY <1>18 DEF InQueue
      <4> QED BY <1>2, <3>1, <4>1, <4>2
    <3>2. CASE g # f
      <4>1. Alone(g) /\ straight[g] /\ mine'[g] = mine[g] /\ n # Kill
        BY <1>3, <1>7, <1>16, <2>1, <3>2
      <4>2. CASE \A j \in DOMAIN mine[g] : InQueue(g, j)
        BY <1>17, <4>1, <4>2
      <4>3. CASE \A j \in DOMAIN mine[g] :
                    ~InQueue(g, j) /\ (IsLast(g, j) => Number(local[g][mine[g][j][1]]) = mine[g][j][2])
        <5>1. \A j \in DOMAIN mine[g] : ~InQueue(g, j)'
          BY <1>4, <1>5, <1>6, <4>1, <4>3 DEF InQueue
        <5>2. \A j \in DOMAIN mine[g] : IsLast(g, j)' => IsLast(g, j)
          BY <4>1 DEF IsLast
        <5> QED BY <4>1, <4>3, <5>1, <5>2
      <4> QED BY <1>0, <2>1, <4>1, <4>2, <4>3 DEF Straight
    <3> QED BY <3>1, <3>2
  <2> QED BY <1>1, <2>1 DEF Straight
<1> QED BY <1>12, <1>13, <1>14, <1>15, <1>19, <1>20 DEF IInv

LEMMA WriteNowKeeps ==
    ASSUME IInv, NEW f \in Files, NEW b \in Blocks, NEW n \in 1..Kill, WriteNow(f, b, n)
    PROVE  IInv'
<1> DEFINE o == Op(f, b, n)
           l == Len(mine[f]) + 1
<1>0. Types /\ SessionOK /\ Sent /\ Numbered /\ Told /\ NoneLost /\ Straight
  BY DEF IInv
<1>1. /\ NextWrite(f, b, n) /\ session[f] = "open"
      /\ UNCHANGED <<injection, fds, session, fh, server, opens, shuffled, unsent, queue>>
  BY DEF WriteNow, NextWrite
<1>2. /\ l \in DOMAIN mine'[f] /\ mine'[f][l] = <<b, n>>
      /\ \A i \in DOMAIN mine[f] : i \in DOMAIN mine'[f] /\ mine'[f][i] = mine[f][i] /\ i < l
      /\ \A i \in DOMAIN mine'[f] : i \in DOMAIN mine[f] \/ i = l
  BY <1>1, NextWriteIs
<1>3. /\ mine' \in [Files -> Seq(Blocks \X (1..Kill))]
      /\ \A g \in Files \ {f} : mine'[g] = mine[g]
      /\ writes \in Nat /\ writes' = writes + 1 /\ writes' \in 0..MaxWrites
      /\ n = Kill \/ n = writes + 1
  BY <1>1, NextWriteIs
<1>4. n # Kill => /\ \A i \in DOMAIN queue : Number(queue[i].val) # n
                 /\ \A g \in Files : \A i \in DOMAIN mine[g] : mine[g][i][2] # n
  BY <1>1, NextWriteIs
<1>5. fh[f] \in Fds /\ fds[fh[f]] = f /\ fh[f] = o.fd /\ o.block = b /\ o.val = n
  BY <1>0, <1>1 DEF Op, SessionOK
<1>6. local' = [local EXCEPT ![f][b] = n] /\ dirty' = dirty \cup {fh[f]}
  <2>1. wow_write(Disk, o) = [local |-> [local EXCEPT ![f][b] = n], dirty |-> dirty \cup {fh[f]}]
    BY <1>5, LocalReorderAssumption DEF wow_write, Disk
  <2> HIDE DEF o
  <2>2. local' = wow_write(Disk, o).local /\ dirty' = wow_write(Disk, o).dirty
    BY DEF WriteNow, o
  <2> QED BY <2>1, <2>2
<1>7. /\ straight' \in [Files -> BOOLEAN]
      /\ \A g \in Files \ {f} : straight'[g] = straight[g]
      /\ straight'[f] => straight[f] /\ \A i \in DOMAIN mine[f] : ~InQueue(f, i)
  BY <1>0 DEF WriteNow, Types, InQueue
<1>8. l \in Nat /\ DOMAIN mine[f] \subseteq Nat
  BY <1>0, MineTyped
<1>9. \A g \in Files : \A i \in DOMAIN mine[g] : i \in DOMAIN mine'[g] /\ mine'[g][i] = mine[g][i]
  BY <1>2, <1>3
<1>10. mine'[f][l][1] = b /\ mine'[f][l][2] = n
  BY <1>2
<1>11. n \in Values
  BY KillIsNat
<1>12. /\ \A g \in Files \ {f} : local'[g] = local[g]
       /\ \A c \in Blocks : local'[f][c] = IF c = b THEN n ELSE local[f][c]
       /\ local' \in Contents
       /\ Number(n) = n
  BY <1>0, <1>6, <1>11, KillIsNat DEF Types, Contents
<1>13. \A g \in Files : \A i \in DOMAIN mine[g] : mine[g][i][1] \in Blocks
  BY <1>0, MineTyped
<1> HIDE DEF o, l
<1>14. Types'
  <2>1. dirty' \in SUBSET Fds
    BY <1>0, <1>5, <1>6 DEF Types
  <2> QED BY <1>0, <1>1, <1>3, <1>7, <1>12, <2>1 DEF Types
<1>15. SessionOK'
  <2>1. \A fd \in dirty' : fds[fd] # None
    BY <1>0, <1>5, <1>6, LocalReorderAssumption DEF SessionOK
  <2> QED BY <1>0, <1>1, <2>1 DEF SessionOK
<1>16. Sent'
  <2>1. ASSUME NEW g \in Files \ unsent, server[g] # local'[g], Leaked(g)' = {} PROVE fh[g] \in dirty'
    <3>1. Leaked(g) = {}
      BY <1>1, <2>1 DEF Leaked
    <3> QED BY <1>0, <1>6, <1>12, <2>1, <3>1 DEF Sent
  <2> QED BY <1>1, <2>1 DEF Sent
<1>17. Numbered'
  <2>1. \A i \in DOMAIN queue : queue[i].val = Kill \/ Number(queue[i].val) <= writes'
    <3>1. \A i \in DOMAIN queue : Number(queue[i].val) \in Nat
      BY <1>0, QueueTyped
    <3> QED BY <1>0, <1>3, <3>1 DEF Numbered
  <2>2. \A g \in Files : \A i \in DOMAIN mine'[g] : mine'[g][i][2] = Kill \/ mine'[g][i][2] <= writes'
    <3>1. ASSUME NEW g \in Files, NEW i \in DOMAIN mine[g] PROVE mine'[g][i][2] = Kill \/ mine'[g][i][2] <= writes'
      <4>1. mine[g][i][2] \in Nat
        BY <1>0, MineTyped
      <4>2. mine[g][i][2] = Kill \/ mine[g][i][2] <= writes
        BY <1>0 DEF Numbered
      <4> QED BY <1>3, <1>9, <4>1, <4>2
    <3>2. mine'[f][l][2] = Kill \/ mine'[f][l][2] <= writes'
      BY <1>3, <1>10
    <3> QED BY <1>2, <1>3, <3>1, <3>2
  <2>3. ASSUME NEW g \in Files, NEW i \in DOMAIN mine'[g], NEW j \in DOMAIN mine'[g],
               i < j, mine'[g][i][2] # Kill, mine'[g][j][2] # Kill
        PROVE  mine'[g][i][2] < mine'[g][j][2]
    <3>1. CASE i \in DOMAIN mine[g] /\ j \in DOMAIN mine[g]
      BY <1>0, <1>9, <2>3, <3>1 DEF Numbered
    <3>2. CASE g = f /\ i = l
      BY <1>2, <1>8, <2>3, <3>2
    <3>3. CASE g = f /\ j = l /\ i \in DOMAIN mine[f]
      <4>1. mine'[g][j][2] = writes + 1
        BY <1>3, <1>10, <2>3, <3>3
      <4>2. mine'[g][i][2] = mine[f][i][2] /\ mine[f][i][2] \in Nat
        BY <1>0, <1>9, <3>3, MineTyped
      <4>3. mine[f][i][2] <= writes
        BY <1>0, <2>3, <3>3, <4>2 DEF Numbered
      <4> QED BY <1>3, <4>1, <4>2, <4>3
    <3> QED BY <1>2, <1>3, <3>1, <3>2, <3>3
  <2> QED BY <1>0, <1>1, <2>1, <2>2, <2>3 DEF Numbered
<1>18. Told'
  <2>1. ASSUME NEW g \in Files, session[g] # "none", NEW i \in DOMAIN queue, NEW j \in DOMAIN mine'[g],
               Number(queue[i].val) = mine'[g][j][2], queue[i].val # Kill
        PROVE  fds[queue[i].fd] = g /\ queue[i].block = mine'[g][j][1]
    <3>1. CASE j \in DOMAIN mine[g]
      BY <1>0, <1>9, <2>1, <3>1 DEF Told
    <3>2. CASE g = f /\ j = l
      <4>1. n # Kill
        BY <1>0, <1>10, <2>1, <3>2, QueueKill
      <4> QED BY <1>4, <1>10, <2>1, <3>2, <4>1
    <3> QED BY <1>2, <1>3, <3>1, <3>2
  <2> QED BY <1>1, <2>1 DEF Told
<1>19. ASSUME NEW g \in Files, Alone(g)' PROVE Alone(g)
  <2>1. session[g] # "none" /\ \A i \in DOMAIN queue : queue[i].val # Kill
    BY <1>1, <1>19 DEF Alone
  <2>2. ASSUME NEW i \in DOMAIN queue, fds[queue[i].fd] = g
        PROVE  \E j \in DOMAIN mine[g] : mine[g][j][2] = Number(queue[i].val)
    <3>1. PICK j \in DOMAIN mine'[g] : mine'[g][j][2] = Number(queue[i].val)
      BY <1>1, <1>19, <2>2 DEF Alone
    <3>2. CASE j \in DOMAIN mine[g]
      BY <1>9, <3>1, <3>2
    <3>3. CASE g = f /\ j = l
      <4>1. n # Kill
        BY <1>0, <1>10, <2>1, <3>1, <3>3, QueueKill
      <4> QED BY <1>4, <1>10, <2>1, <3>1, <3>3, <4>1
    <3> QED BY <1>2, <1>3, <3>2, <3>3
  <2> QED BY <2>1, <2>2 DEF Alone
<1>20. \A g \in Files : \A j \in DOMAIN mine[g] : InQueue(g, j)' <=> InQueue(g, j)
  BY <1>1, <1>9 DEF InQueue
<1>21. NoneLost'
  <2>1. ASSUME NEW g \in Files, Alone(g)', NEW j \in DOMAIN mine'[g]
        PROVE  InQueue(g, j)' \/ \E i \in DOMAIN mine'[g] : /\ mine'[g][i][1] = mine'[g][j][1]
                                                          /\ mine'[g][i][2] = Number(local'[g][mine'[g][j][1]])
    <3>1. CASE g # f
      <4>1. mine'[g] = mine[g] /\ local'[g] = local[g] /\ Alone(g)
        BY <1>3, <1>12, <1>19, <2>1, <3>1
      <4> QED BY <1>0, <1>20, <2>1, <4>1 DEF NoneLost
    <3>2. CASE g = f /\ mine'[f][j][1] = b
      BY <1>2, <1>10, <1>12, <3>2
    <3>3. CASE g = f /\ mine'[f][j][1] # b
      <4>1. j \in DOMAIN mine[f] /\ mine'[f][j] = mine[f][j]
        BY <1>2, <1>10, <2>1, <3>3
      <4>2. Number(local'[f][mine[f][j][1]]) = Number(local[f][mine[f][j][1]])
        BY <1>12, <1>13, <3>3, <4>1
      <4>3. InQueue(f, j) \/ \E i \in DOMAIN mine[f] : /\ mine[f][i][1] = mine[f][j][1]
                                                     /\ mine[f][i][2] = Number(local[f][mine[f][j][1]])
        BY <1>0, <1>19, <2>1, <3>3, <4>1 DEF NoneLost
      <4> QED BY <1>9, <1>20, <3>3, <4>1, <4>2, <4>3
    <3> QED BY <3>1, <3>2, <3>3
  <2> QED BY <1>1, <2>1 DEF NoneLost
<1>22. Straight'
  <2>1. ASSUME NEW g \in Files, Alone(g)', straight'[g], ~shuffled
        PROVE  \/ \A j \in DOMAIN mine'[g] : InQueue(g, j)'
               \/ \A j \in DOMAIN mine'[g] :
                    ~InQueue(g, j)' /\ (IsLast(g, j)' => Number(local'[g][mine'[g][j][1]]) = mine'[g][j][2])
    <3>1. CASE g # f
      <4>1. mine'[g] = mine[g] /\ local'[g] = local[g] /\ Alone(g) /\ straight[g]
        BY <1>3, <1>7, <1>12, <1>19, <2>1, <3>1
      <4>2. \A j \in DOMAIN mine[g] : IsLast(g, j)' <=> IsLast(g, j)
        BY <4>1 DEF IsLast
      <4> QED BY <1>0, <1>20, <2>1, <4>1, <4>2 DEF Straight
    <3>2. CASE g = f
      <4>1. Alone(f) /\ straight[f] /\ \A j \in DOMAIN mine[f] : ~InQueue(f, j)
        BY <1>7, <1>19, <2>1, <3>2
      <4>2. \A j \in DOMAIN mine[f] : IsLast(f, j) => Number(local[f][mine[f][j][1]]) = mine[f][j][2]
        BY <1>0, <2>1, <4>1 DEF Straight
      <4>3. \A i \in DOMAIN queue : Number(queue[i].val) # n
        <5>1. \A i \in DOMAIN queue : Number(queue[i].val) # Kill
          BY <1>0, <1>1, <2>1, QueueKill DEF Alone
        <5> QED BY <1>4, <5>1
      <4>4. ASSUME NEW j \in DOMAIN mine'[f], j = l
            PROVE  ~InQueue(f, j)' /\ Number(local'[f][mine'[f][j][1]]) = mine'[f][j][2]
        <5>1. mine'[f][j][1] = b /\ mine'[f][j][2] = n
          BY <1>10, <4>4
        <5>2. ~InQueue(f, j)'
          BY <1>1, <4>3, <5>1 DEF InQueue
        <5> QED BY <1>12, <5>1, <5>2
      <4>5. ASSUME NEW j \in DOMAIN mine[f]
            PROVE  ~InQueue(f, j)' /\ (IsLast(f, j)' => Number(local'[f][mine'[f][j][1]]) = mine'[f][j][2])
        <5>1. ~InQueue(f, j)'
          BY <1>20, <4>1
        <5>2. ASSUME IsLast(f, j)' PROVE Number(local'[f][mine'[f][j][1]]) = mine'[f][j][2]
          <6>1. \A k \in DOMAIN mine'[f] : k > j => mine'[f][k][1] # mine'[f][j][1]
            BY <5>2 DEF IsLast
          <6>2. l > j /\ mine'[f][j] = mine[f][j]
            BY <1>2, <1>8
          <6>3. mine[f][j][1] # b
            BY <1>2, <1>10, <6>1, <6>2
          <6>4. IsLast(f, j)
            BY <1>9, <6>1, <6>2 DEF IsLast
          <6> QED BY <1>12, <1>13, <4>2, <6>2, <6>3, <6>4
        <5> QED BY <5>1, <5>2
      <4> QED BY <1>2, <3>2, <4>4, <4>5
    <3> QED BY <3>1, <3>2
  <2> QED BY <1>1, <2>1 DEF Straight
<1> QED BY <1>14, <1>15, <1>16, <1>17, <1>18, <1>21, <1>22 DEF IInv

LEMMA FlushKeeps ==
    ASSUME IInv, NEW f \in Files, Flush(f)
    PROVE  IInv'
<1>0. Types /\ SessionOK /\ Sent /\ Numbered /\ Told /\ NoneLost /\ Straight
  BY DEF IInv
<1>1. PICK q \in Shuffle, out \in Outcomes :
         /\ FirstKill(q) = 0 /\ queue' = q /\ shuffled' = (shuffled \/ q # queue)
         /\ local' = Replay(q).local /\ dirty' = Replay(q).dirty
         /\ writebackToServer(f, Replay(q), out)
         /\ session' = [session EXCEPT ![f] = IF Succeeds(out) THEN "flushed" ELSE "failed"]
  BY DEF Flush
<1>2. session[f] = "open" /\ UNCHANGED <<injection, fds, fh, writes, opens, mine, straight>>
  BY DEF Flush
<1>3. /\ q \in Seq(Ops) /\ DOMAIN q = DOMAIN queue
      /\ \A i \in DOMAIN q : \E j \in DOMAIN queue : q[i] = queue[j]
      /\ \A j \in DOMAIN queue : \E i \in DOMAIN q : q[i] = queue[j]
  BY <1>0, ShuffleKeeps
<1> DEFINE d == Replay(q)
           n == fh[f]
<1>4. n \in Fds /\ fds[n] = f
  BY <1>0, <1>2 DEF SessionOK
<1>5. Made(q, Len(q), d) /\ DOMAIN q = 1..Len(q)
  BY <1>0, <1>3, ReplayMakes, LenProperties
<1>6. \A g \in Files : d.local[g] # local[g] => \E fd \in d.dirty : fds[fd] = g
  BY <1>0, <1>3, ReplayMarks
<1>7. /\ server' = server \/ (server' = [server EXCEPT ![f] = d.local[f]] /\ n \in d.dirty)
      /\ n \notin d.dirty => unsent' = unsent
      /\ unsent' \in {unsent, unsent \ {f}, unsent \cup {f}}
  BY <1>1 DEF writebackToServer
<1>8. local' = d.local /\ dirty' = d.dirty
  BY <1>1
<1> HIDE DEF d, n
<1>9. d.local \in Contents /\ MarkedBy(q, Len(q), d) /\ \A g \in Files : \A b \in Blocks : MadeBy(q, Len(q), d, g, b)
  BY <1>5 DEF Made
<1>10. d.dirty \in SUBSET Fds /\ dirty \subseteq d.dirty /\ \A fd \in d.dirty : fds[fd] # None
  BY <1>0, <1>9 DEF MarkedBy, Types, SessionOK
<1>11. \A g \in Files : session'[g] = "none" <=> session[g] = "none"
  BY <1>0, <1>1, <1>2 DEF Types
<1>12. Types'
  <2>1. server' \in Contents
    BY <1>0, <1>7, <1>9 DEF Types, Contents
  <2>2. session' \in [Files -> {"none", "open", "flushed", "failed"}] /\ unsent' \in SUBSET Files /\ shuffled' \in BOOLEAN
    BY <1>0, <1>1, <1>2, <1>7 DEF Types
  <2> QED BY <1>0, <1>1, <1>2, <1>3, <1>8, <1>9, <1>10, <2>1, <2>2 DEF Types
<1>13. SessionOK'
  BY <1>0, <1>2, <1>8, <1>10, <1>11 DEF SessionOK
<1>14. Sent'
  <2>1. ASSUME NEW g \in Files \ unsent', server'[g] # d.local[g], Leaked(g)' = {} PROVE fh[g] \in d.dirty
    <3>1. Leaked(g) = {}
      BY <1>2, <2>1 DEF Leaked
    <3>2. CASE d.local[g] # local[g]
      <4>1. PICK fd \in d.dirty : fds[fd] = g
        BY <1>6, <3>2
      <4>2. fd \in Fds
        BY <1>10, <4>1
      <4>3. fd = fh[g]
        BY <3>1, <4>1, <4>2 DEF Leaked
      <4> QED BY <4>1, <4>3
    <3>3. CASE d.local[g] = local[g] /\ ~(g = f /\ n \in d.dirty)
      <4>1. server'[g] = server[g] /\ g \notin unsent
        <5>1. CASE g # f
          BY <1>0, <1>7, <2>1, <5>1 DEF Types, Contents
        <5>2. CASE g = f
          BY <1>7, <2>1, <3>3, <5>2
        <5> QED BY <5>1, <5>2
      <4>2. fh[g] \in dirty
        BY <1>0, <2>1, <3>1, <3>3, <4>1 DEF Sent
      <4> QED BY <1>10, <4>2
    <3>4. CASE g = f /\ n \in d.dirty
      BY <3>4 DEF n
    <3> QED BY <3>2, <3>3, <3>4
  <2> QED BY <1>2, <1>8, <2>1 DEF Sent
<1>15. Numbered'
  <2>1. \A i \in DOMAIN q : q[i].val = Kill \/ Number(q[i].val) <= writes
    BY <1>0, <1>3 DEF Numbered
  <2>2. ~shuffled' => ~shuffled /\ q = queue
    BY <1>1
  <2>3. ~shuffled' => \A i, j \in DOMAIN q :
           i < j /\ q[i].val # Kill /\ q[j].val # Kill => Number(q[i].val) < Number(q[j].val)
    BY <1>0, <2>2 DEF Numbered
  <2>4. \A g \in Files : \A i \in DOMAIN mine[g] : mine[g][i][2] = Kill \/ mine[g][i][2] <= writes
    BY <1>0 DEF Numbered
  <2>5. \A g \in Files : \A i, j \in DOMAIN mine[g] :
           i < j /\ mine[g][i][2] # Kill /\ mine[g][j][2] # Kill => mine[g][i][2] < mine[g][j][2]
    BY <1>0 DEF Numbered
  <2>6. queue' = q /\ mine' = mine /\ writes' = writes
    BY <1>1, <1>2
  <2> HIDE DEF Kill
  <2>7. \A i \in DOMAIN queue' : queue'[i].val = Kill \/ Number(queue'[i].val) <= writes'
    BY <2>1, <2>6
  <2>8. ~shuffled' => \A i, j \in DOMAIN queue' :
           i < j /\ queue'[i].val # Kill /\ queue'[j].val # Kill => Number(queue'[i].val) < Number(queue'[j].val)
    BY <2>3, <2>6
  <2> QED BY <2>4, <2>5, <2>6, <2>7, <2>8 DEF Numbered
<1>16. \A g \in Files : session[g] # "none" => \A i \in DOMAIN q : \A j \in DOMAIN mine[g] :
         Number(q[i].val) = mine[g][j][2] /\ q[i].val # Kill => fds[q[i].fd] = g /\ q[i].block = mine[g][j][1]
  <2>1. SUFFICES ASSUME NEW g \in Files, session[g] # "none", NEW i \in DOMAIN q, NEW j \in DOMAIN mine[g],
                        Number(q[i].val) = mine[g][j][2], q[i].val # Kill
                 PROVE  fds[q[i].fd] = g /\ q[i].block = mine[g][j][1]
    OBVIOUS
  <2>2. PICK k \in DOMAIN queue : q[i] = queue[k]
    BY <1>3
  <2> QED BY <1>0, <2>1, <2>2 DEF Told
<1>17. Told'
  BY <1>1, <1>2, <1>11, <1>16 DEF Told
<1>18. ASSUME NEW g \in Files, Alone(g)'
       PROVE  /\ Alone(g)
              /\ \A i \in DOMAIN q : q[i].val # Kill
              /\ \A i \in DOMAIN q : fds[q[i].fd] = g => \E j \in DOMAIN mine[g] : mine[g][j][2] = Number(q[i].val)
  <2>1. /\ \A i \in DOMAIN q : q[i].val # Kill
        /\ \A i \in DOMAIN q : fds[q[i].fd] = g => \E j \in DOMAIN mine[g] : mine[g][j][2] = Number(q[i].val)
    BY <1>1, <1>2, <1>18 DEF Alone
  <2>2. \A i \in DOMAIN queue : queue[i].val # Kill
    BY <1>3, <2>1
  <2>3. ASSUME NEW i \in DOMAIN queue, fds[queue[i].fd] = g
        PROVE  \E j \in DOMAIN mine[g] : mine[g][j][2] = Number(queue[i].val)
    <3>1. PICK k \in DOMAIN q : q[k] = queue[i]
      BY <1>3
    <3> QED BY <2>1, <2>3, <3>1
  <2>4. session[g] # "none"
    BY <1>11, <1>18 DEF Alone
  <2> QED BY <2>1, <2>2, <2>3, <2>4 DEF Alone
<1>19. \A g \in Files : \A j \in DOMAIN mine[g] :
         (InQueue(g, j)' <=> InQueue(g, j)) /\ (IsLast(g, j)' <=> IsLast(g, j))
  <2>1. \A i \in DOMAIN q : \E k \in DOMAIN queue : Number(q[i].val) = Number(queue[k].val)
    BY <1>3
  <2>2. \A k \in DOMAIN queue : \E i \in DOMAIN q : Number(q[i].val) = Number(queue[k].val)
    BY <1>3
  <2>3. queue' = q /\ mine' = mine
    BY <1>1, <1>2
  <2> QED BY <2>1, <2>2, <2>3 DEF InQueue, IsLast
<1>20. NoneLost'
  <2>1. ASSUME NEW g \in Files, Alone(g)', NEW j \in DOMAIN mine[g]
        PROVE  InQueue(g, j)' \/ \E i \in DOMAIN mine[g] : /\ mine[g][i][1] = mine[g][j][1]
                                                          /\ mine[g][i][2] = Number(d.local[g][mine[g][j][1]])
    <3> DEFINE b == mine[g][j][1]
    <3>1. b \in Blocks
      BY <1>0, MineTyped
    <3>2. MadeBy(q, Len(q), d, g, b)
      BY <1>9, <3>1
    <3>3. InQueue(g, j) \/ \E i \in DOMAIN mine[g] : mine[g][i][1] = b /\ mine[g][i][2] = Number(local[g][b])
      BY <1>0, <1>18, <2>1 DEF NoneLost
    <3>4. CASE d.local[g][b] = local[g][b]
      BY <1>19, <3>3, <3>4
    <3>5. CASE \E i \in 1..Len(q) : Hits(q, i, g, b) /\ d.local[g][b] = q[i].val
      <4>1. PICK i \in 1..Len(q) : Hits(q, i, g, b) /\ d.local[g][b] = q[i].val
        BY <3>5
      <4>2. PICK k \in DOMAIN mine[g] : mine[g][k][2] = Number(q[i].val)
        BY <1>5, <1>18, <2>1, <4>1 DEF Hits
      <4>3. session[g] # "none" /\ q[i].val # Kill
        BY <1>5, <1>18, <2>1 DEF Alone
      <4>4. mine[g][k][1] = b
        BY <1>5, <1>16, <4>1, <4>2, <4>3 DEF Hits
      <4> QED BY <4>1, <4>2, <4>4
    <3> HIDE DEF b
    <3>6. d.local[g][b] = local[g][b] \/ \E i \in 1..Len(q) : Hits(q, i, g, b) /\ d.local[g][b] = q[i].val
      BY <3>2 DEF MadeBy
    <3> QED BY <3>4, <3>5, <3>6 DEF b
  <2> QED BY <1>2, <1>8, <2>1 DEF NoneLost
<1>21. Straight'
  <2>1. ASSUME NEW g \in Files, Alone(g)', straight[g], ~shuffled'
        PROVE  \/ \A j \in DOMAIN mine[g] : InQueue(g, j)'
               \/ \A j \in DOMAIN mine[g] :
                    ~InQueue(g, j)' /\ (IsLast(g, j)' => Number(d.local[g][mine[g][j][1]]) = mine[g][j][2])
    <3>1. ~shuffled /\ Alone(g)
      BY <1>1, <1>18, <2>1
    <3>2. CASE \A j \in DOMAIN mine[g] : InQueue(g, j)
      BY <1>19, <3>2
    <3>3. CASE \A j \in DOMAIN mine[g] :
                  ~InQueue(g, j) /\ (IsLast(g, j) => Number(local[g][mine[g][j][1]]) = mine[g][j][2])
      <4>1. \A j \in DOMAIN mine[g] : \A i \in DOMAIN q : Number(q[i].val) # mine[g][j][2]
        <5>1. SUFFICES ASSUME NEW j \in DOMAIN mine[g], NEW i \in DOMAIN q PROVE Number(q[i].val) # mine[g][j][2]
          OBVIOUS
        <5>2. PICK k \in DOMAIN queue : q[i] = queue[k]
          BY <1>3
        <5> QED BY <3>3, <5>2 DEF InQueue
      <4>2. \A i \in 1..Len(q) : fds[q[i].fd] # g
        BY <1>5, <1>18, <2>1, <4>1
      <4>3. \A b \in Blocks : d.local[g][b] = local[g][b]
        BY <1>9, <4>2 DEF MadeBy, Hits
      <4>4. \A j \in DOMAIN mine[g] : mine[g][j][1] \in Blocks
        BY <1>0, MineTyped
      <4> QED BY <1>19, <3>3, <4>3, <4>4
    <3> QED BY <1>0, <2>1, <3>1, <3>2, <3>3 DEF Straight
  <2> QED BY <1>2, <1>8, <2>1 DEF Straight
<1> QED BY <1>12, <1>13, <1>14, <1>15, <1>17, <1>20, <1>21 DEF IInv

LEMMA FlushKilledKeeps ==
    ASSUME IInv, NEW f \in Files, FlushKilled(f)
    PROVE  IInv'
<1>0. Types /\ Numbered
  BY DEF IInv
<1>1. PICK q \in Shuffle : FirstKill(q) # 0 /\ local' = Replay(SubSeq(q, 1, FirstKill(q) - 1)).local
  BY DEF FlushKilled
<1>2. /\ queue' = <<>> /\ fds' = [fd \in Fds |-> None] /\ dirty' = {} /\ session' = [g \in Files |-> "none"] /\ fh' = [g \in Files |-> None]
      /\ unsent' = {g \in Files : local'[g] # server[g]} /\ shuffled' = FALSE
      /\ UNCHANGED <<injection, server, writes, opens, mine, straight>>
  BY DEF FlushKilled
<1>3. q \in Seq(Ops)
  BY <1>0, ShuffleKeeps
<1>4. local' \in Contents
  <2> DEFINE k == FirstKill(q) - 1
  <2>1. k \in Int /\ \A i \in 1..k : i \in 1..Len(q)
    BY <1>1, <1>3, FirstKillIs, LenProperties
  <2>2. \A i \in 1..k : q[i] \in Ops
    BY <1>3, <2>1, ElementOfSeq
  <2> HIDE DEF k
  <2>3. SubSeq(q, 1, k) \in Seq(Ops)
    BY <2>1, <2>2, SubSeqProperties
  <2>4. Made(SubSeq(q, 1, k), Len(SubSeq(q, 1, k)), Replay(SubSeq(q, 1, k)))
    BY <1>0, <2>3, ReplayMakes
  <2> QED BY <1>1, <2>4 DEF Made, k
<1>5. \A i \in DOMAIN queue' : FALSE
  BY <1>2
<1>6. Types'
  <2>1. queue' \in Seq(Ops) /\ fds' \in [Fds -> Files \cup {None}] /\ dirty' \in SUBSET Fds
    BY <1>2
  <2>2. session' \in [Files -> {"none", "open", "flushed", "failed"}] /\ unsent' \in SUBSET Files /\ shuffled' \in BOOLEAN
    BY <1>2
  <2> QED BY <1>0, <1>2, <1>4, <2>1, <2>2 DEF Types
<1>7. SessionOK' /\ Sent'
  BY <1>2, LocalReorderAssumption DEF SessionOK, Sent
<1>8. Numbered'
  BY <1>0, <1>2, <1>5 DEF Numbered
<1>9. Told'
  BY <1>2 DEF Told
<1>10. NoneLost' /\ Straight'
  BY <1>2 DEF NoneLost, Straight, Alone
<1> QED BY <1>6, <1>7, <1>8, <1>9, <1>10 DEF IInv

LEMMA StepKeeps ==
    ASSUME IInv, [Next]_vars
    PROVE  IInv'
<1>1. CASE UNCHANGED vars
  <2>1. injection' \in Injections
    BY <1>1 DEF vars, IInv, Types
  <2> QED BY <1>1, <2>1, StutterKeeps DEF vars
<1>2. CASE Configure
  <2>1. injection' \in Injections
    BY <1>2 DEF Configure
  <2> QED BY <1>2, <2>1, StutterKeeps DEF Configure
<1>3. ASSUME NEW f \in Files, Open(f) PROVE IInv'
  BY <1>3, OpenKeeps
<1>4. ASSUME NEW f \in Files, Flush(f) PROVE IInv'
  BY <1>4, FlushKeeps
<1>5. ASSUME NEW f \in Files, FlushKilled(f) PROVE IInv'
  BY <1>5, FlushKilledKeeps
<1>6. ASSUME NEW f \in Files, ReleaseCloses(f) \/ ReleaseFails(f) PROVE IInv'
  BY <1>6, ReleaseClosesKeeps, ReleaseFailsKeeps
<1>7. ASSUME NEW f \in Files, NEW b \in Blocks, NEW n \in 1..Kill, WriteDelayed(f, b, n) PROVE IInv'
  BY <1>7, WriteDelayedKeeps
<1>8. ASSUME NEW f \in Files, NEW b \in Blocks, NEW n \in 1..Kill, WriteNow(f, b, n) PROVE IInv'
  BY <1>8, WriteNowKeeps
<1> QED BY <1>1, <1>2, <1>3, <1>4, <1>5, <1>6, <1>7, <1>8 DEF Next

(* The invariant that the theorems rest on. *)
THEOREM Invariant == Spec => []IInv
<1>1. Init => IInv
  BY InitHolds
<1>2. IInv /\ [Next]_vars => IInv'
  BY StepKeeps
<1> QED BY <1>1, <1>2, PTL DEF Spec

(* The state has its shape, and a session has its descriptor, whether the  *)
(* releases before it have failed or not: the handlers of unreliable_open  *)
(* and unreliable_release keep the table of descriptors.                   *)
THEOREM TypeCorrect == Spec => []TypeOK
<1>1. ASSUME IInv PROVE TypeOK
  <2>0. Types /\ SessionOK
    BY <1>1 DEF IInv
  <2>1. \A i \in DOMAIN queue : queue[i] \in [fd : Fds, block : Blocks, val : Values]
    BY <2>0, QueueTyped DEF Ops
  <2> QED BY <2>0, <2>1 DEF TypeOK, Types, SessionOK, Contents, Values
<1> QED BY <1>1, Invariant, PTL

(* What is on the disk when a file is closed is on the server, whichever   *)
(* handler wrote it there: late writes through the flush of another file   *)
(* mark the descriptor that release looks at.  The exceptions are those of *)
(* ClosedIsSent: a crash, a file that could not be read back, a descriptor *)
(* that a failing release has left open.                                   *)
THEOREM CloseSends == Spec => []ClosedIsSent
<1>1. ASSUME IInv PROVE ClosedIsSent
  <2>1. SUFFICES ASSUME NEW f \in Files, session[f] = "none", Leaked(f) = {}, f \notin unsent
                 PROVE  server[f] = local[f]
    BY DEF ClosedIsSent
  <2>2. Types /\ SessionOK /\ Sent
    BY <1>1 DEF IInv
  <2>3. fh[f] \notin dirty
    BY <2>1, <2>2, LocalReorderAssumption DEF Types, SessionOK
  <2> QED BY <2>1, <2>2, <2>3 DEF Sent
<1> QED BY <1>1, Invariant, PTL

-----------------------------------------------------------------------------
(* Action properties. *)

(* A step that ends the close of a session is a flush of its file.         *)
LEMMA OnlyFlush ==
    ASSUME IInv, [Next]_vars, NEW f \in Files, session[f] = "open", session'[f] \in {"flushed", "failed"}
    PROVE  Flush(f)
<1>1. session \in [Files -> {"none", "open", "flushed", "failed"}]
  BY DEF IInv, Types
<1>2. session' # session
  OBVIOUS
<1>3. ~UNCHANGED vars
  BY <1>2 DEF vars
<1>4. ~Configure
  BY <1>2 DEF Configure
<1>5. \A g \in Files : ~Open(g) /\ ~ReleaseCloses(g) /\ ~ReleaseFails(g)
  <2>1. ASSUME NEW g \in Files, Open(g) PROVE FALSE
    BY <1>1, <2>1 DEF Open
  <2>2. ASSUME NEW g \in Files, ReleaseCloses(g) PROVE FALSE
    BY <1>1, <2>2 DEF ReleaseCloses
  <2>3. ASSUME NEW g \in Files, ReleaseFails(g) PROVE FALSE
    BY <1>1, <2>3 DEF ReleaseFails
  <2> QED BY <2>1, <2>2, <2>3
<1>6. \A g \in Files : ~FlushKilled(g)
  BY DEF FlushKilled
<1>7. \A g \in Files, b \in Blocks, n \in 1..Kill : ~WriteDelayed(g, b, n) /\ ~WriteNow(g, b, n)
  BY <1>2 DEF WriteDelayed, WriteNow, NextWrite
<1>8. \E g \in Files : Flush(g)
  BY <1>3, <1>4, <1>5, <1>6, <1>7 DEF Next
<1>9. \A g \in Files : Flush(g) => g = f
  BY <1>1 DEF Flush
<1> QED BY <1>8, <1>9

(* A flush that succeeds leaves on the server what is on the disk then:    *)
(* the delayed writes are made before the file is sent.  Exceptions as for *)
(* ClosedIsSent.                                                           *)
THEOREM FlushSendsFile == Spec => FlushSends
<1> DEFINE A == \A f \in Files : /\ session[f] = "open" /\ session'[f] = "flushed"
                                 /\ Leaked(f) = {} /\ f \notin unsent'
                   => server'[f] = local'[f]
<1>1. ASSUME IInv, IInv', [Next]_vars PROVE A
  <2>1. SUFFICES ASSUME NEW f \in Files, session[f] = "open", session'[f] = "flushed",
                        Leaked(f) = {}, f \notin unsent'
                 PROVE  server'[f] = local'[f]
    OBVIOUS
  <2>2. Flush(f)
    BY <1>1, <2>1, OnlyFlush
  <2>3. Types /\ SessionOK /\ Sent'
    BY <1>1 DEF IInv
  <2>4. PICK q \in Shuffle, out \in Outcomes :
             /\ local' = Replay(q).local /\ dirty' = Replay(q).dirty
             /\ writebackToServer(f, Replay(q), out)
             /\ session' = [session EXCEPT ![f] = IF Succeeds(out) THEN "flushed" ELSE "failed"]
    BY <2>2 DEF Flush
  <2>5. fds' = fds /\ fh' = fh
    BY <2>2 DEF Flush
  <2>6. Succeeds(out)
    BY <2>1, <2>3, <2>4 DEF Types
  <2>7. CASE fh[f] \in dirty'
    <3>1. out = "sent"
      BY <2>1, <2>4, <2>6, <2>7 DEF Succeeds, writebackToServer
    <3>2. server' = [server EXCEPT ![f] = local'[f]]
      BY <2>4, <2>7, <3>1 DEF writebackToServer
    <3> QED BY <2>3, <3>2 DEF Types, Contents
  <2>8. CASE fh[f] \notin dirty'
    <3>1. Leaked(f)' = {}
      BY <2>1, <2>5 DEF Leaked
    <3> QED BY <2>1, <2>3, <2>5, <2>8, <3>1 DEF Sent
  <2> QED BY <2>7, <2>8
<1>2. IInv /\ IInv' /\ [Next]_vars => [A]_vars
  BY <1>1
<1> QED BY <1>2, Invariant, PTL DEF Spec, FlushSends

LEMMA LastWriteIs ==
    ASSUME Types, NEW f \in Files, NEW i \in DOMAIN mine[f]
    PROVE  \E k \in DOMAIN mine[f] :
             /\ mine[f][k][1] = mine[f][i][1]
             /\ IsLast(f, k)
             /\ \A j \in DOMAIN mine[f] : mine[f][j][1] = mine[f][i][1] => j <= k
             /\ LastWrite(f, mine[f][i][1]) = mine[f][k][2]
<1> DEFINE b == mine[f][i][1]
           at == {j \in DOMAIN mine[f] : mine[f][j][1] = b}
           k == CHOOSE x \in at : \A j \in at : j <= x
<1>1. Len(mine[f]) \in Nat /\ DOMAIN mine[f] = 1..Len(mine[f])
  BY MineTyped
<1>2. at \in SUBSET (1..Len(mine[f])) /\ at # {}
  BY <1>1
<1>3. LastWrite(f, b) = mine[f][k][2]
  BY DEF LastWrite
<1> HIDE DEF at
<1>4. \E x \in at : \A j \in at : j <= x
  BY <1>1, <1>2, GreatestOf
<1>5. k \in at /\ \A j \in at : j <= k
  BY <1>4
<1> HIDE DEF k
<1>6. k \in DOMAIN mine[f] /\ mine[f][k][1] = b /\ \A j \in DOMAIN mine[f] : mine[f][j][1] = b => j <= k
  BY <1>5 DEF at
<1>7. IsLast(f, k)
  <2>1. \A j \in DOMAIN mine[f] : j > k => ~(j <= k)
    BY <1>1, <1>6
  <2> QED BY <1>6, <2>1 DEF IsLast
<1> QED BY <1>3, <1>6, <1>7

(* What the file has after a flush in which nobody else's writes got into  *)
(* it: the order counts when nothing was shuffled.                         *)
LEMMA FlushKeepsWrites ==
    ASSUME IInv, IInv', NEW f \in Files, Flush(f), Own(f), NEW i \in DOMAIN mine[f]
    PROVE  LET b == mine[f][i][1]
           IN IF straight[f] /\ ~shuffled' THEN Number(local'[f][b]) = LastWrite(f, b)
              ELSE <<b, Number(local'[f][b])>> \in Range(mine[f])
<1>0. Types /\ SessionOK /\ Numbered' /\ Told' /\ NoneLost' /\ Straight'
  BY DEF IInv
<1>1. PICK q \in Shuffle : FirstKill(q) = 0 /\ queue' = q /\ local' = Replay(q).local
  BY DEF Flush
<1>2. session[f] = "open" /\ session'[f] # "none" /\ fds' = fds /\ mine' = mine /\ straight' = straight
  BY <1>0 DEF Flush, Types
<1>3. /\ q \in Seq(Ops) /\ DOMAIN q = DOMAIN queue /\ DOMAIN q = 1..Len(q)
      /\ \A m \in DOMAIN q : \E j \in DOMAIN queue : q[m] = queue[j]
  BY <1>0, ShuffleKeeps, LenProperties
<1>4. \A m \in DOMAIN q : q[m] \in Ops /\ q[m].fd \in Fds /\ q[m].val # Kill /\ Number(q[m].val) # Kill
  <2>1. \A m \in DOMAIN q : q[m] \in Ops
    BY <1>3, ElementOfSeq
  <2>2. \A m \in DOMAIN q : q[m].fd \in Fds /\ q[m].val \in Values /\ q[m].val # Kill
    BY <1>1, <1>3, <2>1, FirstKillIs DEF Ops
  <2> QED BY <2>1, <2>2, NumberIs
<1>5. ASSUME NEW m \in DOMAIN q, fds[q[m].fd] = f
      PROVE  \E j \in DOMAIN mine[f] : mine[f][j][2] = Number(q[m].val) /\ mine[f][j][1] = q[m].block
  <2>1. PICK k \in DOMAIN queue : q[m] = queue[k]
    BY <1>3
  <2>3. PICK j \in DOMAIN mine[f] : mine[f][j][2] = Number(q[m].val)
    BY <1>5, <2>1 DEF Own
  <2>4. mine[f][j][1] = q[m].block
    BY <1>0, <1>1, <1>2, <1>4, <2>3 DEF Told
  <2> QED BY <2>3, <2>4
<1>6. Alone(f)'
  BY <1>1, <1>2, <1>4, <1>5 DEF Alone
<1> DEFINE b == mine[f][i][1]
<1>7. b \in Blocks
  BY <1>0, MineTyped
<1>8. MadeBy(q, Len(q), Replay(q), f, b)
  BY <1>0, <1>3, <1>7, ReplayMakes DEF Made
<1>9. \A j \in DOMAIN mine[f] : \A m \in DOMAIN q :
         Number(q[m].val) = mine[f][j][2] => Hits(q, m, f, mine[f][j][1])
  BY <1>0, <1>1, <1>2, <1>4 DEF Told, Hits
<1>10. ASSUME NEW j \in DOMAIN mine[f], InQueue(f, j)', mine[f][j][1] = b
       PROVE  \E h, m \in DOMAIN q :
                /\ Number(q[m].val) = mine[f][j][2] /\ m <= h
                /\ Hits(q, h, f, b) /\ local'[f][b] = q[h].val
  <2>1. PICK m \in DOMAIN q : Number(q[m].val) = mine[f][j][2]
    BY <1>1, <1>2, <1>10 DEF InQueue
  <2>2. Hits(q, m, f, b)
    BY <1>9, <1>10, <2>1
  <2>3. PICK h \in 1..Len(q) : /\ Hits(q, h, f, b) /\ \A x \in 1..Len(q) : Hits(q, x, f, b) => x <= h
                              /\ Replay(q).local[f][b] = q[h].val
    BY <1>3, <1>8, <2>2 DEF MadeBy
  <2>4. h \in DOMAIN q /\ m <= h /\ local'[f][b] = q[h].val
    BY <1>1, <1>3, <2>2, <2>3
  <2> QED BY <2>1, <2>3, <2>4
<1>11. \A j \in DOMAIN mine[f] : mine[f][j] = <<mine[f][j][1], mine[f][j][2]>>
  <2>1. \A j \in DOMAIN mine[f] : mine[f][j] \in Blocks \X (1..Kill)
    BY <1>0, MineTyped, ElementOfSeq
  <2> QED BY <2>1
<1>12. <<b, Number(local'[f][b])>> \in Range(mine[f])
  <2>1. CASE InQueue(f, i)'
    <3>1. PICK h \in DOMAIN q : Hits(q, h, f, b) /\ local'[f][b] = q[h].val
      BY <1>10, <2>1
    <3>2. PICK j \in DOMAIN mine[f] : mine[f][j][2] = Number(q[h].val) /\ mine[f][j][1] = q[h].block
      BY <1>5, <3>1 DEF Hits
    <3>3. mine[f][j] = <<b, Number(local'[f][b])>>
      BY <1>11, <3>1, <3>2 DEF Hits
    <3> QED BY <3>3 DEF Range
  <2>2. CASE \E j \in DOMAIN mine[f] : mine[f][j][1] = b /\ mine[f][j][2] = Number(local'[f][b])
    <3>1. PICK j \in DOMAIN mine[f] : mine[f][j][1] = b /\ mine[f][j][2] = Number(local'[f][b])
      BY <2>2
    <3>2. mine[f][j] = <<b, Number(local'[f][b])>>
      BY <1>11, <3>1
    <3> QED BY <3>2 DEF Range
  <2> QED BY <1>0, <1>2, <1>6, <2>1, <2>2 DEF NoneLost
<1>13. ASSUME straight[f], ~shuffled' PROVE Number(local'[f][b]) = LastWrite(f, b)
  <2>1. PICK k \in DOMAIN mine[f] :
             /\ mine[f][k][1] = b /\ IsLast(f, k)
             /\ \A j \in DOMAIN mine[f] : mine[f][j][1] = b => j <= k
             /\ LastWrite(f, b) = mine[f][k][2]
    BY <1>0, LastWriteIs
  <2>2. CASE \A j \in DOMAIN mine[f] : InQueue(f, j)'
    <3>1. PICK h \in DOMAIN q, m \in DOMAIN q : /\ Number(q[m].val) = mine[f][k][2] /\ m <= h
                                              /\ Hits(q, h, f, b) /\ local'[f][b] = q[h].val
      BY <1>10, <2>1, <2>2
    <3>2. PICK j \in DOMAIN mine[f] : mine[f][j][2] = Number(q[h].val) /\ mine[f][j][1] = b
      BY <1>5, <3>1 DEF Hits
    <3>3. j <= k /\ j \in Nat /\ k \in Nat /\ m \in Nat /\ h \in Nat
      <4>1. Len(mine[f]) \in Nat /\ DOMAIN mine[f] = 1..Len(mine[f])
        BY <1>0, MineTyped
      <4>2. Len(q) \in Nat
        BY <1>3, LenProperties
      <4>3. j \in Nat /\ k \in Nat /\ m \in Nat /\ h \in Nat
        <5>1. j \in 1..Len(mine[f]) /\ k \in 1..Len(mine[f])
          BY <2>1, <3>2, <4>1
        <5>2. m \in 1..Len(q) /\ h \in 1..Len(q)
          BY <1>3, <3>1
        <5> QED BY <4>1, <4>2, <5>1, <5>2
      <4> QED BY <2>1, <3>2, <4>3
    <3>4. j < k => mine[f][j][2] < mine[f][k][2]
      BY <1>0, <1>2, <1>4, <3>1, <3>2 DEF Numbered
    <3>5. m < h => Number(q[m].val) < Number(q[h].val)
      BY <1>0, <1>1, <1>4, <1>13 DEF Numbered
    <3>6. mine[f][j][2] \in Nat /\ mine[f][k][2] \in Nat
      BY <1>0, MineTyped
    <3>7. ~(j < k)
      <4>1. SUFFICES ASSUME j < k PROVE FALSE
        OBVIOUS
      <4>2. Number(q[h].val) < Number(q[m].val)
        BY <3>1, <3>2, <3>4, <4>1
      <4>3. m < h \/ m = h
        BY <3>1, <3>3
      <4> QED BY <3>1, <3>2, <3>5, <3>6, <4>2, <4>3
    <3>8. j = k
      BY <3>3, <3>7
    <3> QED BY <2>1, <3>1, <3>2, <3>8
  <2>3. CASE \A j \in DOMAIN mine[f] :
               ~InQueue(f, j)' /\ (IsLast(f, j)' => Number(local'[f][mine[f][j][1]]) = mine[f][j][2])
    <3>1. IsLast(f, k)'
      BY <1>2, <2>1 DEF IsLast
    <3> QED BY <2>1, <2>3, <3>1
  <2> QED BY <1>0, <1>2, <1>6, <1>13, <2>2, <2>3 DEF Straight
<1> QED BY <1>12, <1>13

(* No write of a session is forgotten when the file is closed, the close   *)
(* failing or not: what a block has is a write of the session to it, or    *)
(* what the queue has kept of one with a NUL, and it is the last one when  *)
(* the order was kept (unreliable_flush goes through the vector in order). *)
THEOREM CloseKeeps == Spec => CloseKeepsWrites
<1> DEFINE A == \A f \in Files : session[f] = "open" /\ session'[f] \in {"flushed", "failed"} /\ Own(f)
          => \A i \in DOMAIN mine[f] :
                LET b == mine[f][i][1]
                IN IF straight[f] /\ ~shuffled'
                   THEN Number(local'[f][b]) = LastWrite(f, b)
                   ELSE <<b, Number(local'[f][b])>> \in Range(mine[f])
<1>1. ASSUME IInv, IInv', [Next]_vars PROVE A
  <2>1. SUFFICES ASSUME NEW f \in Files, session[f] = "open", session'[f] \in {"flushed", "failed"}, Own(f),
                        NEW i \in DOMAIN mine[f]
                 PROVE  LET b == mine[f][i][1]
                        IN IF straight[f] /\ ~shuffled'
                           THEN Number(local'[f][b]) = LastWrite(f, b)
                           ELSE <<b, Number(local'[f][b])>> \in Range(mine[f])
    OBVIOUS
  <2>2. Flush(f)
    BY <1>1, <2>1, OnlyFlush
  <2> QED BY <1>1, <2>1, <2>2, FlushKeepsWrites
<1>2. IInv /\ IInv' /\ [Next]_vars => [A]_vars
  BY <1>1
<1> QED BY <1>2, Invariant, PTL DEF Spec, CloseKeepsWrites

=============================================================================
