------------------------- MODULE WowNamespaceProofs -------------------------
(* Theorems about WowNamespace. *)
EXTENDS WowNamespace, TLAPS, SequenceTheorems, WellFoundedInduction

-----------------------------------------------------------------------------
(* The inductive invariant. *)

(* Two trees have the same below a top directory. *)
Same(s, t, top) ==
    \A q \in Paths : q[1] = top =>
        /\ q \in DOMAIN s <=> q \in DOMAIN t
        /\ q \in DOMAIN s => s[q] = t[q]

AllJobs ==
    [op : {"mkdir", "rmdir", "unlink"}, path : Paths, to : {None}, file : {0}]
    \cup [op : {"create", "symlink"}, path : Paths, to : {None}, file : Files]
    \cup {j \in [op : {"rename", "link"}, path : Paths, to : Paths, file : {0}] : j.path # j.to}

Types ==
    /\ TypeOK
    /\ local = [c \in Clients |-> local[c]]
    /\ before = [c \in Clients |-> before[c]]
    /\ job \in [Clients -> AllJobs \cup {NoJob}]
    /\ \A c \in Clients : pc[c] # "idle" => job[c] \in AllJobs

(* A client's tree is the server's, but where others may have been. *)
Alike(c, t) == \A top \in Names \ apart[c] : Same(server, t, top)

Agrees(c) == pc[c] # "local" => Alike(c, local[c])

(* Between the two steps the client's tree is what the server's was; or    *)
(* the call does not matter, as all it touches is apart.                   *)
Behind(c) ==
    pc[c] = "local" =>
        \/ Tops(job[c]) \subseteq apart[c] /\ Alike(c, local[c])
        \/ Can(local[c], job[c]) /\ Alike(c, Done(local[c], job[c]))

(* The server has not done anything for the call yet.                      *)
Begun(c) ==
    pc[c] = "server" =>
        \A top \in Tops(job[c]) \ apart[c] : In(server, top) = In(before[c], top)

(* ErrorsChangeNothing for one client. *)
Refused(c) ==
    pc[c] = "idle" /\ answer[c] # "ok" /\ job[c] # NoJob /\ Tops(job[c]) \cap apart[c] = {}
        => /\ answer[c] = "error"
           /\ \A top \in Tops(job[c]) : In(server, top) = In(before[c], top)

Holds(c) == Agrees(c) /\ Behind(c) /\ Begun(c) /\ Refused(c)

IInv == Types /\ \A c \in Clients : Holds(c)

-----------------------------------------------------------------------------
(* Induction over data, with a set where the library has an operator. *)

LEMMA LeastOf ==
    ASSUME NEW T \in SUBSET Nat, T # {}
    PROVE  \E x \in T : \A y \in T : x <= y
<1> DEFINE R == {ss \in Nat \X Nat : ss[1] < ss[2]}
<1>1. IsWellFoundedOn(R, Nat)
  BY NatLessThanWellFounded DEF OpToRel
<1>2. \A x, y \in Nat : <<x, y>> \in R <=> x < y
  OBVIOUS
<1> HIDE DEF R
<1>3. \E x \in T : \A y \in T : ~ (<<y, x>> \in R)
  BY <1>1, WFMin
<1>4. \A x, y \in T : ~ (<<y, x>> \in R) => x <= y
  BY <1>2
<1> QED BY <1>3, <1>4

LEMMA SetInduction ==
    ASSUME NEW S, 0 \in S, \A n \in Nat : n \in S => n + 1 \in S
    PROVE  Nat \subseteq S
<1> SUFFICES ASSUME ~ (Nat \subseteq S) PROVE FALSE
  OBVIOUS
<1> DEFINE T == {n \in Nat : n \notin S}
<1>1. PICK x \in T : \A y \in T : x <= y
  <2>1. T \in SUBSET Nat /\ T # {}
    OBVIOUS
  <2> HIDE DEF T
  <2> QED BY <2>1, LeastOf
<1>2. x # 0 /\ x \in Nat /\ x - 1 \in Nat
  BY <1>1
<1>3. x - 1 \in S
  BY <1>1, <1>2
<1> QED BY <1>1, <1>2, <1>3

-----------------------------------------------------------------------------
(* Paths. *)

LEMMA PathIs ==
    ASSUME NEW p \in Paths
    PROVE  /\ p \in Seq(Names) /\ Len(p) \in Nat /\ 1 <= Len(p) /\ Len(p) <= Depth
           /\ DOMAIN p = 1..Len(p) /\ p \in [1..Len(p) -> Names]
           /\ 1 \in 1..Len(p) /\ p[1] \in Names
<1>1. PICK n \in 1..Depth : p \in [1..n -> Names]
  BY DEF Paths
<1>2. n \in Nat /\ 1 <= n /\ n <= Depth
  BY <1>1, NamespaceAssumption
<1>3. p \in Seq(Names) /\ Len(p) = n
  BY <1>1, <1>2
<1> QED BY <1>1, <1>2, <1>3

LEMMA IsPath ==
    ASSUME NEW p \in Seq(Names), 1 <= Len(p), Len(p) <= Depth
    PROVE  p \in Paths
<1>1. Len(p) \in Nat /\ p \in [1..Len(p) -> Names]
  BY LenProperties
<1>2. Len(p) \in 1..Depth
  BY <1>1, NamespaceAssumption
<1> QED BY <1>1, <1>2 DEF Paths

LEMMA SamePath ==
    ASSUME NEW p \in Paths, NEW q \in Paths, Len(p) = Len(q), \A i \in 1..Len(p) : p[i] = q[i]
    PROVE  p = q
BY PathIs

(* What a path begins with, name by name. *)
LEMMA PrefixIs ==
    ASSUME NEW p \in Paths, NEW q \in Paths
    PROVE  IsPrefix(p, q) <=> Len(p) <= Len(q) /\ \A i \in 1..Len(p) : p[i] = q[i]
<1>1. /\ p \in Seq(Names) /\ Len(p) \in Nat /\ 1 <= Len(p) /\ p \in [1..Len(p) -> Names]
      /\ q \in Seq(Names) /\ Len(q) \in Nat /\ q \in [1..Len(q) -> Names]
  BY PathIs
<1>2. SUFFICES ASSUME Len(p) <= Len(q)
               PROVE  SubSeq(p, 1, Len(p)) = SubSeq(q, 1, Len(p)) <=> \A i \in 1..Len(p) : p[i] = q[i]
  BY DEF IsPrefix
<1>3. SubSeq(p, 1, Len(p)) = p
  BY <1>1, SubSeqFull
<1> DEFINE r == SubSeq(q, 1, Len(p))
<1>4. \A i \in 1..Len(p) : i \in 1..Len(q) /\ q[i] \in Names
  BY <1>1, <1>2
<1>5. r \in Seq(Names) /\ Len(r) = Len(p) /\ \A i \in 1..Len(p) : r[i] = q[i]
  <2>1. /\ r \in Seq(Names) /\ Len(r) = (IF 1 <= Len(p) THEN Len(p) - 1 + 1 ELSE 0)
        /\ \A i \in 1..(Len(p) - 1 + 1) : r[i] = q[1 + i - 1]
    BY <1>1, <1>4, SubSeqProperties
  <2>2. Len(p) - 1 + 1 = Len(p) /\ \A i \in 1..Len(p) : 1 + i - 1 = i
    BY <1>1
  <2> HIDE DEF r
  <2> QED BY <1>1, <2>1, <2>2
<1> HIDE DEF r
<1>6. r \in [1..Len(p) -> Names]
  BY <1>5, LenProperties
<1>7. p = r <=> \A i \in 1..Len(p) : p[i] = q[i]
  BY <1>1, <1>5, <1>6
<1> QED BY <1>3, <1>7 DEF r

LEMMA StrictPrefixIs ==
    ASSUME NEW p \in Paths, NEW q \in Paths
    PROVE  IsStrictPrefix(p, q) <=> Len(p) < Len(q) /\ \A i \in 1..Len(p) : p[i] = q[i]
<1>1. Len(p) \in Nat /\ Len(q) \in Nat
  BY PathIs
<1>2. CASE Len(p) = Len(q)
  BY <1>1, <1>2, PrefixIs, SamePath DEF IsStrictPrefix
<1>3. CASE Len(p) # Len(q)
  BY <1>1, <1>3, PrefixIs DEF IsStrictPrefix
<1> QED BY <1>2, <1>3

LEMMA FrontIs ==
    ASSUME NEW p \in Paths, Len(p) # 1
    PROVE  /\ Front(p) \in Paths
           /\ Len(Front(p)) = Len(p) - 1
           /\ \A i \in 1..(Len(p) - 1) : Front(p)[i] = p[i]
           /\ Front(p)[1] = p[1]
           /\ IsStrictPrefix(Front(p), p)
<1> DEFINE n == Len(p) - 1
           r == SubSeq(p, 1, n)
<1>1. p \in Seq(Names) /\ Len(p) \in Nat /\ 1 <= Len(p) /\ Len(p) <= Depth /\ p \in [1..Len(p) -> Names]
  BY PathIs
<1>2. n \in Nat /\ 1 <= n /\ n <= Depth /\ n < Len(p) /\ n - 1 + 1 = n
  BY <1>1, NamespaceAssumption
<1>3. \A i \in 1..n : i \in 1..Len(p) /\ p[i] \in Names
  BY <1>1, <1>2
<1>4. /\ r \in Seq(Names) /\ Len(r) = (IF 1 <= n THEN n - 1 + 1 ELSE 0)
      /\ \A i \in 1..(n - 1 + 1) : r[i] = p[1 + i - 1]
  <2> HIDE DEF n
  <2> QED BY <1>2, <1>3, SubSeqProperties
<1>5. \A i \in 1..n : 1 + i - 1 = i
  BY <1>2
<1>6. Front(p) = r
  BY DEF Front
<1> HIDE DEF r, n
<1>7. Len(r) = n /\ \A i \in 1..n : r[i] = p[i]
  BY <1>2, <1>4, <1>5
<1>8. r \in Paths
  BY <1>2, <1>4, <1>7, IsPath
<1>9. 1 \in 1..n
  BY <1>2
<1>10. IsStrictPrefix(r, p)
  BY <1>2, <1>7, <1>8, StrictPrefixIs
<1> QED BY <1>6, <1>7, <1>8, <1>9, <1>10 DEF n

LEMMA PrefixTop ==
    ASSUME NEW p \in Paths, NEW q \in Paths, IsPrefix(p, q)
    PROVE  p[1] = q[1]
BY PathIs, PrefixIs

-----------------------------------------------------------------------------
(* Trees. *)

(* What is above a path of a tree is a directory of the tree. *)
LEMMA Ancestors ==
    ASSUME NEW t, IsTree(t), NEW q \in DOMAIN t, NEW p \in Paths, IsStrictPrefix(p, q)
    PROVE  IsDir(t, p)
<1> DEFINE N == {n \in Nat : \A x \in DOMAIN t : Len(x) <= n /\ IsStrictPrefix(p, x) => IsDir(t, p)}
<1>1. \A x \in DOMAIN t : x \in Paths /\ HasParent(t, x) /\ Len(x) \in Nat /\ 1 <= Len(x)
  BY PathIs DEF IsTree
<1>2. 0 \in N
  <2>1. \A x \in DOMAIN t : ~(Len(x) <= 0)
    BY <1>1
  <2> QED BY <2>1
<1>3. ASSUME NEW n \in Nat, n \in N PROVE n + 1 \in N
  <2>1. SUFFICES ASSUME NEW x \in DOMAIN t, Len(x) <= n + 1, IsStrictPrefix(p, x) PROVE IsDir(t, p)
    OBVIOUS
  <2>2. Len(p) \in Nat /\ 1 <= Len(p) /\ Len(p) < Len(x) /\ \A i \in 1..Len(p) : p[i] = x[i]
    BY <1>1, <2>1, PathIs, StrictPrefixIs
  <2>3. Len(x) # 1 /\ Len(x) \in Nat
    <3>1. Len(x) \in Nat
      BY <1>1, <2>1
    <3>2. Len(p) \in Nat /\ 1 <= Len(p) /\ Len(p) < Len(x)
      BY <2>2
    <3>3. \A k, l \in Nat : 1 <= k /\ k < l => l # 1
      OBVIOUS
    <3> QED BY <3>1, <3>2, <3>3
  <2>4. /\ Front(x) \in Paths /\ Len(Front(x)) = Len(x) - 1
        /\ \A i \in 1..(Len(x) - 1) : Front(x)[i] = x[i]
    BY <1>1, <2>3, FrontIs
  <2>5. IsDir(t, Front(x))
    BY <1>1, <2>3 DEF HasParent
  <2>6. \A i \in 1..Len(p) : p[i] = Front(x)[i]
    <3>1. \A i \in 1..Len(p) : i \in 1..(Len(x) - 1)
      BY <1>1, <2>2
    <3> QED BY <2>2, <2>4, <3>1
  <2>7. CASE Len(p) = Len(Front(x))
    BY <2>4, <2>5, <2>6, <2>7, SamePath
  <2>8. CASE Len(p) # Len(Front(x))
    <3>1. Len(p) < Len(Front(x))
      BY <1>1, <2>2, <2>4, <2>8
    <3>2. IsStrictPrefix(p, Front(x))
      BY <2>4, <2>6, <3>1, StrictPrefixIs
    <3>3. Len(Front(x)) <= n /\ Front(x) \in DOMAIN t
      BY <1>1, <2>1, <2>4, <2>5 DEF IsDir, Has
    <3> QED BY <1>3, <3>2, <3>3
  <2> QED BY <2>7, <2>8
<1> HIDE DEF N
<1>4. Nat \subseteq N
  BY <1>2, <1>3, SetInduction
<1>5. Len(q) \in N /\ Len(q) <= Len(q)
  BY <1>1, <1>4
<1> QED BY <1>5 DEF N

(* No path is below a file. *)
LEMMA FilesAreLeaves ==
    ASSUME NEW t, IsTree(t), NEW p \in Paths, ~IsDir(t, p)
    PROVE  Under(t, p) = {}
BY Ancestors DEF Under, IsTree

LEMMA InSame ==
    ASSUME NEW s, NEW t, DOMAIN s \subseteq Paths, DOMAIN t \subseteq Paths, NEW top
    PROVE  In(s, top) = In(t, top) <=> Same(s, t, top)
<1> DEFINE D(x) == {q \in DOMAIN x : q[1] = top}
<1>0. In(s, top) = [q \in D(s) |-> s[q]] /\ In(t, top) = [q \in D(t) |-> t[q]]
  BY DEF In
<1>1. ASSUME In(s, top) = In(t, top) PROVE Same(s, t, top)
  <2>1. D(s) = D(t) /\ \A q \in D(s) : s[q] = t[q]
    <3> HIDE DEF D
    <3>1. DOMAIN In(s, top) = D(s) /\ DOMAIN In(t, top) = D(t)
      BY <1>0
    <3>2. D(s) = D(t)
      BY <1>1, <3>1
    <3>3. \A q \in D(s) : In(s, top)[q] = s[q] /\ In(t, top)[q] = t[q]
      BY <1>0, <3>2
    <3> QED BY <1>1, <3>2, <3>3
  <2> QED BY <2>1 DEF Same
<1>2. ASSUME Same(s, t, top) PROVE In(s, top) = In(t, top)
  <2>1. D(s) = D(t) /\ \A q \in D(s) : s[q] = t[q]
    BY <1>2 DEF Same
  <2> HIDE DEF D
  <2> QED BY <1>0, <2>1
<1> QED BY <1>1, <1>2

LEMMA WithIs ==
    ASSUME NEW t, NEW p, NEW x
    PROVE  /\ DOMAIN With(t, p, x) = DOMAIN t \cup {p}
           /\ With(t, p, x)[p] = x
           /\ \A q \in DOMAIN t : q # p => With(t, p, x)[q] = t[q]
BY DEF With

LEMMA WithoutIs ==
    ASSUME NEW t, NEW ps
    PROVE  /\ DOMAIN Without(t, ps) = DOMAIN t \ ps
           /\ \A q \in DOMAIN t \ ps : Without(t, ps)[q] = t[q]
BY DEF Without

(* A new name under a directory. *)
LEMMA WithIsTree ==
    ASSUME NEW t, IsTree(t), NEW p \in Paths, p \notin DOMAIN t, HasParent(t, p), NEW x \in Files \cup {Dir}
    PROVE  IsTree(With(t, p, x))
<1> DEFINE u == With(t, p, x)
<1>1. DOMAIN u = DOMAIN t \cup {p} /\ u[p] = x /\ \A q \in DOMAIN t : u[q] = t[q]
  <2>1. \A q \in DOMAIN t : q # p
    OBVIOUS
  <2>2. DOMAIN u = DOMAIN t \cup {p} /\ u[p] = x
    BY DEF With
  <2>3. \A q \in DOMAIN t : q # p => u[q] = t[q]
    BY DEF With
  <2> QED BY <2>1, <2>2, <2>3
<1> HIDE DEF u
<1>2. ASSUME NEW q \in DOMAIN u PROVE HasParent(u, q)
  <2>1. HasParent(t, q)
    BY <1>1 DEF IsTree
  <2> QED BY <1>1, <2>1 DEF HasParent, IsDir, Has
<1>3. \A q \in DOMAIN u : u[q] \in Files \cup {Dir}
  BY <1>1 DEF IsTree
<1> QED BY <1>1, <1>2, <1>3 DEF IsTree, u

(* A new file under a directory, also in the place of another file. *)
LEMMA PutIsTree ==
    ASSUME NEW t, IsTree(t), NEW p \in Paths, ~IsDir(t, p), HasParent(t, p), NEW x \in Files
    PROVE  IsTree(With(t, p, x))
<1> DEFINE u == With(t, p, x)
<1>1. DOMAIN u = DOMAIN t \cup {p} /\ u[p] = x /\ \A q \in DOMAIN t : q # p => u[q] = t[q]
  <2>1. DOMAIN u = DOMAIN t \cup {p} /\ u[p] = x
    BY DEF With
  <2>2. \A q \in DOMAIN t : q # p => u[q] = t[q]
    BY DEF With
  <2> QED BY <2>1, <2>2
<1> HIDE DEF u
<1>2. \A q \in Paths : IsDir(t, q) => IsDir(u, q)
  BY <1>1 DEF IsDir, Has
<1>3. ASSUME NEW q \in DOMAIN u PROVE q \in Paths /\ HasParent(u, q) /\ u[q] \in Files \cup {Dir}
  <2>1. q \in Paths /\ HasParent(t, q)
    BY <1>1 DEF IsTree
  <2>2. HasParent(u, q)
    BY <1>2, <2>1, FrontIs DEF HasParent
  <2>3. u[q] \in Files \cup {Dir}
    BY <1>1 DEF IsTree
  <2> QED BY <2>1, <2>2, <2>3
<1> QED BY <1>3 DEF IsTree, u

(* A name with nothing below it goes. *)
LEMMA WithoutIsTree ==
    ASSUME NEW t, IsTree(t), NEW p \in Paths, Under(t, p) = {}
    PROVE  IsTree(Without(t, {p}))
<1> DEFINE u == Without(t, {p})
<1>1. DOMAIN u = DOMAIN t \ {p} /\ \A q \in DOMAIN u : u[q] = t[q]
  BY WithoutIs
<1> HIDE DEF u
<1>2. ASSUME NEW q \in DOMAIN u PROVE HasParent(u, q)
  <2>1. q \in Paths /\ HasParent(t, q)
    BY <1>1 DEF IsTree
  <2>2. CASE Len(q) = 1
    BY <2>2 DEF HasParent
  <2>3. CASE Len(q) # 1
    <3>1. IsDir(t, Front(q)) /\ IsStrictPrefix(Front(q), q)
      BY <2>1, <2>3, FrontIs DEF HasParent
    <3>2. Front(q) # p
      BY <1>1, <3>1 DEF Under
    <3> QED BY <1>1, <3>1, <3>2 DEF HasParent, IsDir, Has
  <2> QED BY <2>2, <2>3
<1>3. \A q \in DOMAIN u : u[q] \in Files \cup {Dir}
  BY <1>1 DEF IsTree
<1> QED BY <1>1, <1>2, <1>3 DEF IsTree, u

-----------------------------------------------------------------------------
(* A rename. *)

(* Where the name q of the tree after a rename from p to new comes from. *)
Source(p, new, q) == IF IsPrefix(new, q) THEN p \o SubSeq(q, Len(new) + 1, Len(q)) ELSE q

Carried(t, p, new) == {q \in Paths : IsPrefix(new, q) /\ Source(p, new, q) \in DOMAIN t}
Kept(t, p, new) == DOMAIN t \ ({new, p} \cup Under(t, p))

LEMMA MovedIs ==
    ASSUME NEW t, NEW p, NEW new
    PROVE  /\ DOMAIN Moved(t, p, new) = Carried(t, p, new) \cup Kept(t, p, new)
           /\ \A q \in DOMAIN Moved(t, p, new) : Moved(t, p, new)[q] = t[Source(p, new, q)]
<1>1. Moved(t, p, new) = [q \in Carried(t, p, new) \cup Kept(t, p, new) |-> t[Source(p, new, q)]]
  BY Zenon DEF Moved, Source, Carried, Kept
<1> QED BY <1>1

LEMMA MovedFrom ==
    ASSUME NEW t, NEW p, NEW new, NEW q \in DOMAIN Moved(t, p, new)
    PROVE  Moved(t, p, new)[q] = t[Source(p, new, q)]
<1>1. Moved(t, p, new) = [x \in Carried(t, p, new) \cup Kept(t, p, new) |-> t[Source(p, new, x)]]
  BY Zenon DEF Moved, Source, Carried, Kept
<1>2. q \in Carried(t, p, new) \cup Kept(t, p, new)
  BY <1>1
<1> QED BY <1>1, <1>2

LEMMA SourceIs ==
    ASSUME NEW p \in Paths, NEW new \in Paths, NEW q \in Paths, IsPrefix(new, q)
    PROVE  /\ Source(p, new, q) \in Seq(Names)
           /\ Len(Source(p, new, q)) = Len(p) + (Len(q) - Len(new))
           /\ \A i \in 1..Len(p) : Source(p, new, q)[i] = p[i]
           /\ \A i \in 1..(Len(q) - Len(new)) : Source(p, new, q)[Len(p) + i] = q[Len(new) + i]
           /\ Source(p, new, q)[1] = p[1]
<1> DEFINE m == Len(new) + 1
           n == Len(q)
           d == n - Len(new)
           r == SubSeq(q, m, n)
<1>1. /\ p \in Seq(Names) /\ Len(p) \in Nat /\ 1 <= Len(p) /\ Len(new) \in Nat /\ 1 \in 1..Len(p)
      /\ n \in Nat /\ q \in [1..n -> Names]
  BY PathIs
<1>2. Len(new) <= n
  BY PrefixIs
<1>3. m \in Nat /\ 1 <= m /\ n - m + 1 = d /\ d \in Nat /\ (IF m <= n THEN n - m + 1 ELSE 0) = d
  BY <1>1, <1>2
<1>4. \A i \in m..n : q[i] \in Names
  BY <1>1, <1>3
<1>5. \A i \in 1..d : m + i - 1 = Len(new) + i
  BY <1>1
<1> HIDE DEF m, n
<1>6. /\ r \in Seq(Names) /\ Len(r) = (IF m <= n THEN n - m + 1 ELSE 0)
      /\ \A i \in 1..(n - m + 1) : r[i] = q[m + i - 1]
  BY <1>1, <1>3, <1>4, SubSeqProperties
<1>7. Len(r) = d /\ \A i \in 1..d : r[i] = q[Len(new) + i]
  BY <1>3, <1>5, <1>6
<1>8. Source(p, new, q) = p \o r
  BY DEF Source, m, n
<1> HIDE DEF r
<1>9. /\ p \o r \in Seq(Names) /\ Len(p \o r) = Len(p) + Len(r)
      /\ \A i \in 1..(Len(p) + Len(r)) : (p \o r)[i] = IF i <= Len(p) THEN p[i] ELSE r[i - Len(p)]
  BY <1>1, <1>6, ConcatProperties
<1> HIDE DEF d
<1>10. \A i \in 1..Len(p) : (p \o r)[i] = p[i]
  <2>1. \A i \in 1..Len(p) : i \in 1..(Len(p) + Len(r)) /\ i <= Len(p)
    BY <1>1, <1>3, <1>7
  <2> QED BY <1>9, <2>1
<1>11. \A i \in 1..d : (p \o r)[Len(p) + i] = r[i]
  <2>1. \A i \in 1..d : Len(p) + i \in 1..(Len(p) + Len(r)) /\ ~(Len(p) + i <= Len(p)) /\ (Len(p) + i) - Len(p) = i
    BY <1>1, <1>3, <1>7
  <2> QED BY <1>9, <2>1
<1> QED BY <1>1, <1>7, <1>8, <1>9, <1>10, <1>11 DEF d, n

LEMMA StrictPrefixTrans ==
    ASSUME NEW p \in Paths, NEW q \in Paths, NEW x \in Paths, IsStrictPrefix(p, q), IsStrictPrefix(q, x)
    PROVE  IsStrictPrefix(p, x)
<1>1. Len(p) \in Nat /\ Len(q) \in Nat /\ Len(x) \in Nat
  BY PathIs
<1>2. Len(p) < Len(q) /\ \A i \in 1..Len(p) : p[i] = q[i]
  BY StrictPrefixIs
<1>3. Len(q) < Len(x) /\ \A i \in 1..Len(q) : q[i] = x[i]
  BY StrictPrefixIs
<1>4. Len(p) < Len(x) /\ \A i \in 1..Len(p) : i \in 1..Len(q)
  BY <1>1, <1>2, <1>3
<1>5. \A i \in 1..Len(p) : p[i] = x[i]
  BY <1>2, <1>3, <1>4
<1> QED BY <1>4, <1>5, StrictPrefixIs

LEMMA FrontNotUnder ==
    ASSUME NEW p \in Paths, NEW q \in Paths, Len(q) # 1, ~IsStrictPrefix(p, q)
    PROVE  Front(q) # p /\ ~IsStrictPrefix(p, Front(q))
BY FrontIs, StrictPrefixTrans

(* What lies below the name in front of a moved name is moved with it. *)
LEMMA FrontOfSource ==
    ASSUME NEW p \in Paths, NEW new \in Paths, NEW q \in Paths, IsStrictPrefix(new, q),
           Source(p, new, q) \in Paths
    PROVE  /\ Len(q) # 1 /\ IsPrefix(new, Front(q))
           /\ Len(Source(p, new, q)) # 1
           /\ Source(p, new, Front(q)) = Front(Source(p, new, q))
<1> DEFINE r == Source(p, new, q)
           f == Front(q)
           g == Source(p, new, f)
<1>1. Len(new) \in Nat /\ 1 <= Len(new) /\ Len(q) \in Nat /\ Len(p) \in Nat /\ 1 <= Len(p)
  BY PathIs
<1>2. Len(new) < Len(q) /\ \A i \in 1..Len(new) : new[i] = q[i]
  BY StrictPrefixIs
<1>3. Len(q) # 1
  BY <1>1, <1>2
<1>4. f \in Paths /\ Len(f) = Len(q) - 1 /\ \A i \in 1..(Len(q) - 1) : f[i] = q[i]
  BY <1>3, FrontIs
<1>5. IsPrefix(new, f)
  <2>1. Len(new) <= Len(f) /\ \A i \in 1..Len(new) : i \in 1..(Len(q) - 1)
    BY <1>1, <1>2, <1>4
  <2>2. \A i \in 1..Len(new) : new[i] = f[i]
    BY <1>2, <1>4, <2>1
  <2> HIDE DEF f
  <2> QED BY <1>4, <2>1, <2>2, PrefixIs
<1>6. /\ Len(r) = Len(p) + (Len(q) - Len(new))
      /\ \A i \in 1..Len(p) : r[i] = p[i]
      /\ \A i \in 1..(Len(q) - Len(new)) : r[Len(p) + i] = q[Len(new) + i]
  <2>1. IsPrefix(new, q)
    BY DEF IsStrictPrefix
  <2>2. Len(r) = Len(p) + (Len(q) - Len(new))
    BY <2>1, SourceIs
  <2>3. \A i \in 1..Len(p) : r[i] = p[i]
    BY <2>1, SourceIs
  <2>4. \A i \in 1..(Len(q) - Len(new)) : r[Len(p) + i] = q[Len(new) + i]
    BY <2>1, SourceIs
  <2> QED BY <2>2, <2>3, <2>4
<1> HIDE DEF f
<1>7. /\ g \in Seq(Names) /\ Len(g) = Len(p) + (Len(f) - Len(new))
      /\ \A i \in 1..Len(p) : g[i] = p[i]
      /\ \A i \in 1..(Len(f) - Len(new)) : g[Len(p) + i] = f[Len(new) + i]
  <2>1. /\ Source(p, new, f) \in Seq(Names) /\ Len(Source(p, new, f)) = Len(p) + (Len(f) - Len(new))
        /\ \A i \in 1..Len(p) : Source(p, new, f)[i] = p[i]
        /\ \A i \in 1..(Len(f) - Len(new)) : Source(p, new, f)[Len(p) + i] = f[Len(new) + i]
    <3>1. f \in Paths
      BY <1>4
    <3>2. Source(p, new, f) \in Seq(Names)
      BY <3>1, <1>5, SourceIs
    <3>3. Len(Source(p, new, f)) = Len(p) + (Len(f) - Len(new))
      BY <3>1, <1>5, SourceIs
    <3>4. \A i \in 1..Len(p) : Source(p, new, f)[i] = p[i]
      BY <3>1, <1>5, SourceIs
    <3>5. \A i \in 1..(Len(f) - Len(new)) : Source(p, new, f)[Len(p) + i] = f[Len(new) + i]
      BY <3>1, <1>5, SourceIs
    <3> QED BY <3>2, <3>3, <3>4, <3>5
  <2> QED BY <2>1
<1> HIDE DEF r, g
<1>8. Len(r) # 1 /\ r \in Paths
  <2>1. r \in Paths
    BY DEF r
  <2>2. Len(r) \in Nat
    BY <2>1, PathIs
  <2>3. Len(r) > 1
    BY <1>1, <1>2, <1>6
  <2> QED BY <2>1, <2>2, <2>3
<1>9. Front(r) \in Paths /\ Len(Front(r)) = Len(r) - 1 /\ \A i \in 1..(Len(r) - 1) : Front(r)[i] = r[i]
  BY <1>8, FrontIs
<1>10. Len(g) = Len(Front(r)) /\ 1 <= Len(g) /\ Len(g) <= Depth
  <2>1. Len(g) = Len(Front(r))
    BY <1>1, <1>4, <1>6, <1>7, <1>9
  <2>2. 1 <= Len(Front(r)) /\ Len(Front(r)) <= Depth
    BY <1>9, PathIs
  <2> QED BY <2>1, <2>2
<1>11. g \in Paths
  BY <1>7, <1>10, IsPath
<1>12. ASSUME NEW i \in 1..Len(g) PROVE g[i] = Front(r)[i]
  <2>1. i \in Nat /\ 1 <= i /\ i <= Len(g) /\ i \in 1..(Len(r) - 1)
    BY <1>1, <1>4, <1>6, <1>7
  <2>2. Front(r)[i] = r[i]
    BY <1>9, <2>1
  <2>3. CASE i <= Len(p)
    <3>1. i \in 1..Len(p)
      BY <1>1, <2>1, <2>3
    <3> QED BY <1>6, <1>7, <2>2, <3>1
  <2>4. CASE ~(i <= Len(p))
    <3> DEFINE k == i - Len(p)
    <3>1. k \in 1..(Len(f) - Len(new)) /\ k \in 1..(Len(q) - Len(new)) /\ Len(p) + k = i
      BY <1>1, <1>4, <1>7, <2>1, <2>4
    <3>2. Len(new) + k \in 1..(Len(q) - 1)
      BY <1>1, <1>2, <1>4, <3>1
    <3> HIDE DEF k
    <3>3. g[Len(p) + k] = f[Len(new) + k] /\ r[Len(p) + k] = q[Len(new) + k] /\ f[Len(new) + k] = q[Len(new) + k]
      BY <1>4, <1>6, <1>7, <3>1, <3>2
    <3> QED BY <2>2, <3>1, <3>3
  <2> QED BY <2>3, <2>4
<1>13. g = Front(r)
  BY <1>9, <1>10, <1>11, <1>12, SamePath
<1> QED BY <1>3, <1>5, <1>8, <1>13 DEF r, g, f

LEMMA SourceOfNew ==
    ASSUME NEW p \in Paths, NEW new \in Paths
    PROVE  IsPrefix(new, new) /\ Source(p, new, new) = p
<1>1. Len(new) \in Nat /\ Len(p) \in Nat /\ 1 <= Len(p) /\ Len(p) <= Depth
  BY PathIs
<1>2. IsPrefix(new, new)
  BY <1>1, PrefixIs
<1> DEFINE r == Source(p, new, new)
<1>3. r \in Seq(Names) /\ Len(r) = Len(p) + (Len(new) - Len(new)) /\ \A i \in 1..Len(p) : r[i] = p[i]
  BY <1>2, SourceIs
<1> HIDE DEF r
<1>4. Len(r) = Len(p)
  BY <1>1, <1>3
<1>5. r \in Paths
  BY <1>1, <1>3, <1>4, IsPath
<1>6. r = p
  BY <1>3, <1>4, <1>5, SamePath
<1> QED BY <1>2, <1>6 DEF r

LEMMA NothingUnder ==
    ASSUME NEW t, IsTree(t), NEW new \in Paths, Has(t, new) => Under(t, new) = {}
    PROVE  Under(t, new) = {}
<1>1. SUFFICES ASSUME NEW q \in Under(t, new) PROVE FALSE
  OBVIOUS
<1>2. q \in DOMAIN t /\ IsStrictPrefix(new, q)
  BY DEF Under
<1>3. Has(t, new)
  BY <1>2, Ancestors DEF IsDir
<1> QED BY <1>1, <1>3

LEMMA MovedIsTree ==
    ASSUME NEW t, IsTree(t), NEW p \in Paths, NEW new \in Paths, Has(t, p), HasParent(t, new),
           ~IsStrictPrefix(p, new), Under(t, new) = {}
    PROVE  IsTree(Moved(t, p, new))
<1> DEFINE u == Moved(t, p, new)
<1>1. /\ DOMAIN u = Carried(t, p, new) \cup Kept(t, p, new)
      /\ \A q \in DOMAIN u : u[q] = t[Source(p, new, q)]
  BY MovedIs
<1> HIDE DEF u
<1>2. /\ DOMAIN t \subseteq Paths
      /\ \A q \in DOMAIN t : HasParent(t, q) /\ t[q] \in Files \cup {Dir}
  BY DEF IsTree
<1>3. \A q \in Kept(t, p, new) : /\ q \in DOMAIN t /\ q \in Paths /\ q # new /\ q # p
                                /\ ~IsStrictPrefix(p, q) /\ ~IsStrictPrefix(new, q)
                                /\ Source(p, new, q) = q
  BY <1>2 DEF Kept, Under, Source, IsStrictPrefix
<1>4. \A q \in Carried(t, p, new) : /\ q \in Paths /\ IsPrefix(new, q)
                                   /\ Source(p, new, q) \in DOMAIN t /\ Source(p, new, q) \in Paths
  BY <1>2 DEF Carried
<1>5. \A q \in DOMAIN t : q # new /\ q # p /\ ~IsStrictPrefix(p, q) => q \in Kept(t, p, new)
  BY DEF Kept, Under
<1>6. \A q \in DOMAIN u : q \in Paths /\ u[q] \in Files \cup {Dir}
  BY <1>1, <1>2, <1>3, <1>4
(* A directory that is kept is one in the new tree. *)
<1>7. ASSUME NEW f \in Paths, IsDir(t, f), f # new, f # p, ~IsStrictPrefix(p, f)
      PROVE  IsDir(u, f)
  <2>1. f \in Kept(t, p, new)
    BY <1>5, <1>7 DEF IsDir, Has
  <2> QED BY <1>1, <1>3, <1>7, <2>1 DEF IsDir, Has
<1>8. ASSUME NEW q \in Kept(t, p, new) PROVE HasParent(u, q)
  <2>1. CASE Len(q) = 1
    BY <2>1 DEF HasParent
  <2>2. CASE Len(q) # 1
    <3>1. Front(q) \in Paths /\ IsDir(t, Front(q)) /\ IsStrictPrefix(Front(q), q)
      BY <1>2, <1>3, <2>2, FrontIs DEF HasParent
    <3>2. Front(q) # new
      BY <1>3, <3>1
    <3>3. Front(q) # p /\ ~IsStrictPrefix(p, Front(q))
      BY <1>3, <2>2, FrontNotUnder
    <3> QED BY <1>7, <3>1, <3>2, <3>3 DEF HasParent
  <2> QED BY <2>1, <2>2
<1>9. HasParent(u, new)
  <2>1. CASE Len(new) = 1
    BY <2>1 DEF HasParent
  <2>2. CASE Len(new) # 1
    <3>1. Front(new) \in Paths /\ IsDir(t, Front(new)) /\ IsStrictPrefix(Front(new), new)
      BY <2>2, FrontIs DEF HasParent
    <3>2. Front(new) # p /\ ~IsStrictPrefix(p, Front(new))
      BY <2>2, FrontNotUnder
    <3>3. Front(new) # new
      BY <3>1 DEF IsStrictPrefix
    <3> QED BY <1>7, <3>1, <3>2, <3>3 DEF HasParent
  <2> QED BY <2>1, <2>2
<1>10. ASSUME NEW q \in Carried(t, p, new), q # new PROVE HasParent(u, q)
  <2>1. q \in Paths /\ IsStrictPrefix(new, q) /\ Source(p, new, q) \in Paths /\ Source(p, new, q) \in DOMAIN t
    BY <1>4, <1>10 DEF IsStrictPrefix
  <2>2. /\ Len(q) # 1 /\ IsPrefix(new, Front(q))
        /\ Len(Source(p, new, q)) # 1
        /\ Source(p, new, Front(q)) = Front(Source(p, new, q))
    BY <2>1, FrontOfSource
  <2>3. IsDir(t, Front(Source(p, new, q)))
    BY <1>2, <2>1, <2>2 DEF HasParent
  <2>4. Front(q) \in Carried(t, p, new)
    BY <2>1, <2>2, <2>3, FrontIs DEF Carried, IsDir, Has
  <2>5. IsDir(u, Front(q))
    BY <1>1, <2>2, <2>3, <2>4 DEF IsDir, Has
  <2> QED BY <2>5 DEF HasParent
<1>11. \A q \in DOMAIN u : HasParent(u, q)
  BY <1>1, <1>8, <1>9, <1>10
<1> QED BY <1>6, <1>11 DEF IsTree, u

LEMMA MovedElsewhere ==
    ASSUME NEW t, IsTree(t), NEW p \in Paths, NEW new \in Paths, NEW top, top # p[1], top # new[1]
    PROVE  Same(Moved(t, p, new), t, top)
<1> DEFINE u == Moved(t, p, new)
<1>1. /\ DOMAIN u = Carried(t, p, new) \cup Kept(t, p, new)
      /\ \A q \in DOMAIN u : u[q] = t[Source(p, new, q)]
  <2>1. DOMAIN u = Carried(t, p, new) \cup Kept(t, p, new)
    BY MovedIs
  <2>2. ASSUME NEW q \in DOMAIN u PROVE u[q] = t[Source(p, new, q)]
    BY MovedFrom
  <2> QED BY <2>1, <2>2
<1> HIDE DEF u
<1>2. ASSUME NEW q \in Paths, q[1] = top
      PROVE  q \in DOMAIN u <=> q \in DOMAIN t
  <2>1. ~IsPrefix(new, q) /\ ~IsStrictPrefix(p, q) /\ q # p /\ q # new
    BY <1>2, PrefixTop DEF IsStrictPrefix
  <2>2. q \notin Carried(t, p, new)
    BY <2>1 DEF Carried
  <2>3. q \in Kept(t, p, new) <=> q \in DOMAIN t
    BY <2>1 DEF Kept, Under
  <2> QED BY <1>1, <2>2, <2>3
<1>3. ASSUME NEW q \in Paths, q[1] = top, q \in DOMAIN u
      PROVE  u[q] = t[q]
  <2>1. ~IsPrefix(new, q)
    BY <1>3, PrefixTop
  <2>2. Source(p, new, q) = q
    BY <2>1 DEF Source
  <2> QED BY <1>1, <1>3, <2>2
<1> QED BY <1>2, <1>3 DEF Same, u

LEMMA SameUnder ==
    ASSUME NEW s, NEW t, IsTree(s), IsTree(t), NEW p \in Paths, Same(s, t, p[1])
    PROVE  /\ Has(s, p) <=> Has(t, p)
           /\ Has(s, p) => s[p] = t[p]
           /\ IsDir(s, p) <=> IsDir(t, p)
           /\ HasParent(s, p) <=> HasParent(t, p)
           /\ Under(s, p) = Under(t, p)
<1>1. \A q \in Paths : q[1] = p[1] => /\ Has(s, q) <=> Has(t, q)
                                      /\ Has(s, q) => s[q] = t[q]
                                      /\ IsDir(s, q) <=> IsDir(t, q)
  BY DEF Same, Has, IsDir
<1>2. HasParent(s, p) <=> HasParent(t, p)
  BY <1>1, FrontIs DEF HasParent
<1>3. \A q \in Paths : IsStrictPrefix(p, q) => q[1] = p[1]
  BY PrefixTop DEF IsStrictPrefix
<1>4. \A q \in Paths : IsStrictPrefix(p, q) => (q \in DOMAIN s <=> q \in DOMAIN t)
  BY <1>1, <1>3 DEF Has
<1>5. Under(s, p) = Under(t, p)
  BY <1>4 DEF Under, IsTree
<1> QED BY <1>1, <1>2, <1>5

LEMMA MovedSame ==
    ASSUME NEW s, NEW t, IsTree(s), IsTree(t), NEW p \in Paths, NEW new \in Paths,
           Same(s, t, p[1]), Same(s, t, new[1]), Under(s, new) = {},
           NEW top \in {p[1], new[1]}
    PROVE  Same(Moved(s, p, new), Moved(t, p, new), top)
<1> DEFINE u == Moved(s, p, new)
           v == Moved(t, p, new)
<1>1. /\ DOMAIN u = Carried(s, p, new) \cup Kept(s, p, new)
      /\ \A q \in DOMAIN u : u[q] = s[Source(p, new, q)]
  <2>1. DOMAIN u = Carried(s, p, new) \cup Kept(s, p, new)
    BY MovedIs
  <2>2. ASSUME NEW q \in DOMAIN u PROVE u[q] = s[Source(p, new, q)]
    BY MovedFrom
  <2> QED BY <2>1, <2>2
<1>2. /\ DOMAIN v = Carried(t, p, new) \cup Kept(t, p, new)
      /\ \A q \in DOMAIN v : v[q] = t[Source(p, new, q)]
  <2>1. DOMAIN v = Carried(t, p, new) \cup Kept(t, p, new)
    BY MovedIs
  <2>2. ASSUME NEW q \in DOMAIN v PROVE v[q] = t[Source(p, new, q)]
    BY MovedFrom
  <2> QED BY <2>1, <2>2
<1> HIDE DEF u, v
<1>3. DOMAIN s \subseteq Paths /\ DOMAIN t \subseteq Paths
  BY DEF IsTree
<1>4. Under(s, p) = Under(t, p) /\ Under(t, new) = {}
  BY SameUnder
<1>5. \A q \in Paths : q[1] \in {p[1], new[1]} => (q \in DOMAIN s <=> q \in DOMAIN t) /\ (q \in DOMAIN s => s[q] = t[q])
  BY DEF Same
<1>6. ASSUME NEW q \in Paths, IsPrefix(new, q)
      PROVE  /\ Source(p, new, q) \in DOMAIN s <=> Source(p, new, q) \in DOMAIN t
             /\ Source(p, new, q) \in DOMAIN s => s[Source(p, new, q)] = t[Source(p, new, q)]
  <2>1. Source(p, new, q)[1] = p[1]
    BY <1>6, SourceIs
  <2> QED BY <1>3, <1>5, <2>1
<1>7. ASSUME NEW q \in Paths, q[1] = top
      PROVE  /\ q \in Carried(s, p, new) <=> q \in Carried(t, p, new)
             /\ q \in Kept(s, p, new) <=> q \in Kept(t, p, new)
  BY <1>4, <1>5, <1>6, <1>7 DEF Carried, Kept
<1>8. ASSUME NEW q \in Kept(s, p, new) PROVE Source(p, new, q) = q
  BY <1>8 DEF Kept, Under, Source, IsStrictPrefix
<1>9. ASSUME NEW q \in Paths, q[1] = top, q \in DOMAIN u PROVE u[q] = v[q]
  <2>1. q \in DOMAIN v
    BY <1>1, <1>2, <1>7, <1>9
  <2>2. s[Source(p, new, q)] = t[Source(p, new, q)]
    <3>1. CASE q \in Carried(s, p, new)
      BY <1>6, <3>1 DEF Carried
    <3>2. CASE q \in Kept(s, p, new)
      BY <1>5, <1>8, <1>9, <3>2 DEF Kept
    <3> QED BY <1>1, <1>9, <3>1, <3>2
  <2> QED BY <1>1, <1>2, <1>9, <2>1, <2>2
<1> QED BY <1>1, <1>2, <1>7, <1>9 DEF Same, u, v

-----------------------------------------------------------------------------
(* The operations on a tree. *)

LEMMA JobIs ==
    ASSUME NEW j \in AllJobs
    PROVE  /\ j.op \in {"mkdir", "create", "rmdir", "unlink", "symlink", "link", "rename"}
           /\ j.path \in Paths /\ j.path[1] \in Names
           /\ j.op \in {"create", "symlink"} => j.file \in Files
           /\ j.op \in {"link", "rename"} => /\ j.to \in Paths /\ j.to[1] \in Names
                                            /\ Tops(j) = {j.path[1], j.to[1]}
           /\ j.op \notin {"link", "rename"} => Tops(j) = {j.path[1]}
<1>1. CASE j \in [op : {"mkdir", "rmdir", "unlink"}, path : Paths, to : {None}, file : {0}]
  BY <1>1, PathIs DEF Tops
<1>2. CASE j \in [op : {"create", "symlink"}, path : Paths, to : {None}, file : Files]
  BY <1>2, PathIs DEF Tops
<1>3. CASE j \in [op : {"rename", "link"}, path : Paths, to : Paths, file : {0}]
  <2>1. j.to # None
    BY <1>3, NamespaceAssumption
  <2> QED BY <1>3, <2>1, PathIs DEF Tops
<1> QED BY <1>1, <1>2, <1>3 DEF AllJobs

(* What an operation needs, and what it makes of the tree. *)
LEMMA MkdirIs ==
    ASSUME NEW t, NEW j, j.op = "mkdir"
    PROVE  /\ Can(t, j) <=> ~Has(t, j.path) /\ HasParent(t, j.path)
           /\ Done(t, j) = With(t, j.path, Dir)
BY Zenon DEF Can, Done

LEMMA CreateIs ==
    ASSUME NEW t, NEW j, j.op = "create"
    PROVE  /\ Can(t, j) <=> HasParent(t, j.path) /\ ~IsDir(t, j.path)
           /\ Done(t, j) = IF Has(t, j.path) THEN t ELSE With(t, j.path, j.file)
BY Zenon DEF Can, Done

LEMMA SymlinkIs ==
    ASSUME NEW t, NEW j, j.op = "symlink"
    PROVE  /\ Can(t, j) <=> ~Has(t, j.path) /\ HasParent(t, j.path)
           /\ Done(t, j) = With(t, j.path, j.file)
BY Zenon DEF Can, Done

LEMMA RmdirIs ==
    ASSUME NEW t, NEW j, j.op = "rmdir"
    PROVE  /\ Can(t, j) <=> IsDir(t, j.path) /\ Under(t, j.path) = {}
           /\ Done(t, j) = Without(t, {j.path})
BY Zenon DEF Can, Done

LEMMA UnlinkIs ==
    ASSUME NEW t, NEW j, j.op = "unlink"
    PROVE  /\ Can(t, j) <=> Has(t, j.path) /\ ~IsDir(t, j.path)
           /\ Done(t, j) = Without(t, {j.path})
BY Zenon DEF Can, Done

LEMMA LinkIs ==
    ASSUME NEW t, NEW j, j.op = "link"
    PROVE  /\ Can(t, j) <=> /\ Has(t, j.path) /\ ~IsDir(t, j.path)
                           /\ ~Has(t, j.to) /\ HasParent(t, j.to)
           /\ Done(t, j) = With(t, j.to, t[j.path])
BY Zenon DEF Can, Done

LEMMA CanRename ==
    ASSUME NEW t, NEW j, j.op = "rename"
    PROVE  Can(t, j) <=> /\ Has(t, j.path) /\ HasParent(t, j.to) /\ ~IsStrictPrefix(j.path, j.to)
                         /\ Has(t, j.to) => /\ IsDir(t, j.to) <=> IsDir(t, j.path)
                                            /\ Under(t, j.to) = {}
BY Zenon DEF Can

LEMMA DoneRename ==
    ASSUME NEW t, NEW j, j.op = "rename"
    PROVE  Done(t, j) = IF Has(t, j.to) /\ t[j.to] = t[j.path] /\ ~IsDir(t, j.path)
                        THEN t ELSE Moved(t, j.path, j.to)
BY Zenon DEF Done

(* An operation that succeeds leaves a tree. *)
LEMMA DoneIsTree ==
    ASSUME NEW t, IsTree(t), NEW j \in AllJobs, Can(t, j)
    PROVE  IsTree(Done(t, j))
<1>0. /\ j.op \in {"mkdir", "create", "rmdir", "unlink", "symlink", "link", "rename"}
      /\ j.path \in Paths
  BY JobIs
<1>1. CASE j.op = "mkdir"
  BY <1>0, <1>1, MkdirIs, WithIsTree DEF Has
<1>2. CASE j.op = "create"
  <2>1. HasParent(t, j.path) /\ Done(t, j) = IF Has(t, j.path) THEN t ELSE With(t, j.path, j.file)
    BY <1>2, CreateIs
  <2>2. j.file \in Files
    BY <1>2, JobIs
  <2> QED BY <1>0, <2>1, <2>2, WithIsTree DEF Has
<1>3. CASE j.op = "symlink"
  <2>1. HasParent(t, j.path) /\ ~Has(t, j.path) /\ Done(t, j) = With(t, j.path, j.file)
    BY <1>3, SymlinkIs
  <2>2. j.file \in Files
    BY <1>3, JobIs
  <2> QED BY <1>0, <2>1, <2>2, WithIsTree DEF Has
<1>4. CASE j.op = "rmdir"
  BY <1>0, <1>4, RmdirIs, WithoutIsTree
<1>5. CASE j.op = "unlink"
  <2>1. ~IsDir(t, j.path) /\ Done(t, j) = Without(t, {j.path})
    BY <1>5, UnlinkIs
  <2> QED BY <1>0, <2>1, FilesAreLeaves, WithoutIsTree
<1>6. CASE j.op = "link"
  <2>1. /\ Has(t, j.path) /\ ~Has(t, j.to) /\ HasParent(t, j.to)
        /\ Done(t, j) = With(t, j.to, t[j.path])
    BY <1>6, LinkIs
  <2>2. j.to \in Paths
    BY <1>6, JobIs
  <2>3. t[j.path] \in Files \cup {Dir}
    BY <2>1 DEF IsTree, Has
  <2> QED BY <2>1, <2>2, <2>3, WithIsTree DEF Has
<1>7. CASE j.op = "rename"
  <2>1. /\ Has(t, j.path) /\ HasParent(t, j.to) /\ ~IsStrictPrefix(j.path, j.to)
        /\ Has(t, j.to) => Under(t, j.to) = {}
        /\ Done(t, j) = IF Has(t, j.to) /\ t[j.to] = t[j.path] /\ ~IsDir(t, j.path)
                        THEN t ELSE Moved(t, j.path, j.to)
    <3>1. Has(t, j.path) /\ HasParent(t, j.to) /\ ~IsStrictPrefix(j.path, j.to)
      BY <1>7, CanRename
    <3>2. Has(t, j.to) => Under(t, j.to) = {}
      BY <1>7, CanRename
    <3> QED BY <1>7, <3>1, <3>2, DoneRename
  <2>2. j.to \in Paths
    BY <1>7, JobIs
  <2>3. Under(t, j.to) = {}
    BY <2>1, <2>2, NothingUnder
  <2> QED BY <1>0, <2>1, <2>2, <2>3, MovedIsTree
<1> QED BY <1>0, <1>1, <1>2, <1>3, <1>4, <1>5, <1>6, <1>7

LEMMA WithElsewhere ==
    ASSUME NEW t, NEW p \in Paths, NEW x, NEW top, top # p[1]
    PROVE  Same(With(t, p, x), t, top)
BY DEF With, Same

LEMMA WithoutElsewhere ==
    ASSUME NEW t, NEW p \in Paths, NEW top, top # p[1]
    PROVE  Same(Without(t, {p}), t, top)
BY DEF Without, Same

LEMMA SameSelf ==
    ASSUME NEW t, NEW top
    PROVE  Same(t, t, top)
BY DEF Same

LEMMA SameTrans ==
    ASSUME NEW r, NEW s, NEW t, NEW top, Same(r, s, top), Same(s, t, top)
    PROVE  Same(r, t, top)
BY DEF Same

LEMMA SameSym ==
    ASSUME NEW s, NEW t, NEW top, Same(s, t, top)
    PROVE  Same(t, s, top)
BY DEF Same

(* An operation changes nothing below other top directories. *)
LEMMA DoneElsewhere ==
    ASSUME NEW t, IsTree(t), NEW j \in AllJobs, NEW top, top \notin Tops(j)
    PROVE  Same(Done(t, j), t, top)
<1>0. /\ j.op \in {"mkdir", "create", "rmdir", "unlink", "symlink", "link", "rename"}
      /\ j.path \in Paths /\ top # j.path[1]
      /\ j.op \in {"link", "rename"} => j.to \in Paths /\ top # j.to[1]
  BY JobIs
<1>1. CASE j.op = "mkdir"
  BY <1>0, <1>1, MkdirIs, WithElsewhere
<1>2. CASE j.op = "create"
  <2>1. Done(t, j) = IF Has(t, j.path) THEN t ELSE With(t, j.path, j.file)
    BY <1>2, CreateIs
  <2> QED BY <1>0, <2>1, WithElsewhere, SameSelf
<1>3. CASE j.op = "symlink"
  BY <1>0, <1>3, SymlinkIs, WithElsewhere
<1>4. CASE j.op = "rmdir"
  <2>1. Done(t, j) = Without(t, {j.path})
    BY <1>4, RmdirIs
  <2>2. Same(Without(t, {j.path}), t, top)
    BY <1>0, WithoutElsewhere
  <2> QED BY <2>1, <2>2
<1>5. CASE j.op = "unlink"
  <2>1. Done(t, j) = Without(t, {j.path})
    BY <1>5, UnlinkIs
  <2>2. Same(Without(t, {j.path}), t, top)
    BY <1>0, WithoutElsewhere
  <2> QED BY <2>1, <2>2
<1>6. CASE j.op = "link"
  BY <1>0, <1>6, LinkIs, WithElsewhere
<1>7. CASE j.op = "rename"
  <2>1. Done(t, j) = IF Has(t, j.to) /\ t[j.to] = t[j.path] /\ ~IsDir(t, j.path)
                     THEN t ELSE Moved(t, j.path, j.to)
    BY <1>7, DoneRename
  <2> QED BY <1>0, <1>7, <2>1, MovedElsewhere, SameSelf
<1> QED BY <1>0, <1>1, <1>2, <1>3, <1>4, <1>5, <1>6, <1>7

LEMMA WithSame ==
    ASSUME NEW s, NEW t, NEW p, NEW x, NEW top, Same(s, t, top)
    PROVE  Same(With(s, p, x), With(t, p, x), top)
BY DEF With, Same

LEMMA WithoutSame ==
    ASSUME NEW s, NEW t, NEW ps, NEW top, Same(s, t, top)
    PROVE  Same(Without(s, ps), Without(t, ps), top)
BY DEF Without, Same

(* Where two trees are alike, an operation can be done on both or on       *)
(* neither, and they are alike when it is done.                            *)
LEMMA DoneSame ==
    ASSUME NEW s, NEW t, IsTree(s), IsTree(t), NEW j \in AllJobs,
           \A top \in Tops(j) : Same(s, t, top)
    PROVE  /\ Can(s, j) <=> Can(t, j)
           /\ Can(s, j) => \A top \in Tops(j) : Same(Done(s, j), Done(t, j), top)
<1> DEFINE p == j.path
           new == j.to
<1>0. /\ j.op \in {"mkdir", "create", "rmdir", "unlink", "symlink", "link", "rename"}
      /\ p \in Paths /\ Same(s, t, p[1])
      /\ j.op \in {"link", "rename"} => new \in Paths /\ Same(s, t, new[1]) /\ Tops(j) = {p[1], new[1]}
  BY JobIs
<1>1. /\ Has(s, p) <=> Has(t, p)
      /\ Has(s, p) => s[p] = t[p]
      /\ IsDir(s, p) <=> IsDir(t, p)
      /\ HasParent(s, p) <=> HasParent(t, p)
      /\ Under(s, p) = Under(t, p)
  <2> HIDE DEF p, new
  <2> QED BY <1>0, SameUnder
<1>2. CASE j.op = "mkdir"
  BY <1>1, <1>2, MkdirIs, WithSame
<1>3. CASE j.op = "create"
  <2>1. Can(s, j) <=> Can(t, j)
    BY <1>1, <1>3, CreateIs
  <2>2. CASE Has(s, p)
    BY <1>1, <1>3, <2>1, <2>2, CreateIs
  <2>3. CASE ~Has(s, p)
    BY <1>1, <1>3, <2>1, <2>3, CreateIs, WithSame
  <2> QED BY <2>2, <2>3
<1>4. CASE j.op = "symlink"
  BY <1>1, <1>4, SymlinkIs, WithSame
<1>5. CASE j.op = "rmdir"
  <2>1. Done(s, j) = Without(s, {p}) /\ Done(t, j) = Without(t, {p}) /\ (Can(s, j) <=> Can(t, j))
    BY <1>1, <1>5, RmdirIs
  <2>2. \A top \in Tops(j) : Same(Without(s, {p}), Without(t, {p}), top)
    BY WithoutSame
  <2> QED BY <2>1, <2>2
<1>6. CASE j.op = "unlink"
  <2>1. Done(s, j) = Without(s, {p}) /\ Done(t, j) = Without(t, {p}) /\ (Can(s, j) <=> Can(t, j))
    BY <1>1, <1>6, UnlinkIs
  <2>2. \A top \in Tops(j) : Same(Without(s, {p}), Without(t, {p}), top)
    BY WithoutSame
  <2> QED BY <2>1, <2>2
<1>7. CASE j.op \in {"link", "rename"}
  <2>1. /\ Has(s, new) <=> Has(t, new)
        /\ Has(s, new) => s[new] = t[new]
        /\ IsDir(s, new) <=> IsDir(t, new)
        /\ HasParent(s, new) <=> HasParent(t, new)
        /\ Under(s, new) = Under(t, new)
    <3> HIDE DEF p, new
    <3> QED BY <1>0, <1>7, SameUnder
  <2>2. CASE j.op = "link"
    <3>1. Can(s, j) <=> Can(t, j)
      BY <1>1, <2>1, <2>2, LinkIs
    <3>2. Can(s, j) => Has(s, p)
      BY <2>2, LinkIs
    <3>3. Done(s, j) = With(s, new, s[p]) /\ Done(t, j) = With(t, new, t[p])
      BY <2>2, LinkIs
    <3> QED BY <1>1, <3>1, <3>2, <3>3, WithSame
  <2>3. CASE j.op = "rename"
    <3>1. Can(s, j) <=> /\ Has(s, p) /\ HasParent(s, new) /\ ~IsStrictPrefix(p, new)
                        /\ Has(s, new) => (IsDir(s, new) <=> IsDir(s, p)) /\ Under(s, new) = {}
      BY <2>3, CanRename
    <3>2. Can(t, j) <=> /\ Has(t, p) /\ HasParent(t, new) /\ ~IsStrictPrefix(p, new)
                        /\ Has(t, new) => (IsDir(t, new) <=> IsDir(t, p)) /\ Under(t, new) = {}
      BY <2>3, CanRename
    <3>3. Can(s, j) <=> Can(t, j)
      BY <1>1, <2>1, <3>1, <3>2
    <3>4. /\ Done(s, j) = IF Has(s, new) /\ s[new] = s[p] /\ ~IsDir(s, p) THEN s ELSE Moved(s, p, new)
          /\ Done(t, j) = IF Has(t, new) /\ t[new] = t[p] /\ ~IsDir(t, p) THEN t ELSE Moved(t, p, new)
      BY <2>3, DoneRename
    <3>5. ASSUME Can(s, j), NEW top \in Tops(j) PROVE Same(Done(s, j), Done(t, j), top)
      <4>1. CASE Has(s, new) /\ s[new] = s[p] /\ ~IsDir(s, p)
        <5>1. Done(s, j) = s /\ Done(t, j) = t
          BY <1>1, <2>1, <3>1, <3>4, <3>5, <4>1
        <5> QED BY <5>1
      <4>2. CASE ~(Has(s, new) /\ s[new] = s[p] /\ ~IsDir(s, p))
        <5>1. Done(s, j) = Moved(s, p, new) /\ Done(t, j) = Moved(t, p, new)
          BY <1>1, <2>1, <3>1, <3>4, <3>5, <4>2
        <5>2. Under(s, new) = {}
          BY <1>0, <1>7, <3>1, <3>5, NothingUnder
        <5>3. top \in {p[1], new[1]}
          BY <1>0, <1>7, <3>5
        <5> HIDE DEF p, new
        <5> QED BY <1>0, <1>7, <5>1, <5>2, <5>3, MovedSame
      <4> QED BY <4>1, <4>2
    <3> QED BY <3>3, <3>5
  <2> QED BY <1>7, <2>2, <2>3
<1> QED BY <1>0, <1>2, <1>3, <1>4, <1>5, <1>6, <1>7

-----------------------------------------------------------------------------
(* The directories above a path. *)

LEMMA PartIs ==
    ASSUME NEW p \in Paths, NEW n \in 1..(Len(p) - 1)
    PROVE  SubSeq(p, 1, n) \in Paths /\ IsStrictPrefix(SubSeq(p, 1, n), p)
<1> DEFINE r == SubSeq(p, 1, n)
<1>1. p \in Seq(Names) /\ Len(p) \in Nat /\ 1 <= Len(p) /\ Len(p) <= Depth /\ p \in [1..Len(p) -> Names]
  BY PathIs
<1>2. n \in Nat /\ 1 <= n /\ n <= Depth /\ n < Len(p) /\ n - 1 + 1 = n
  BY <1>1, NamespaceAssumption
<1>3. \A i \in 1..n : i \in 1..Len(p) /\ p[i] \in Names
  BY <1>1, <1>2
<1>4. /\ r \in Seq(Names) /\ Len(r) = (IF 1 <= n THEN n - 1 + 1 ELSE 0)
      /\ \A i \in 1..(n - 1 + 1) : r[i] = p[1 + i - 1]
  BY <1>2, <1>3, SubSeqProperties
<1>5. \A i \in 1..n : 1 + i - 1 = i
  BY <1>2
<1> HIDE DEF r
<1>6. Len(r) = n /\ \A i \in 1..n : r[i] = p[i]
  BY <1>2, <1>4, <1>5
<1>7. r \in Paths
  BY <1>2, <1>4, <1>6, IsPath
<1>8. IsStrictPrefix(r, p)
  BY <1>2, <1>6, <1>7, StrictPrefixIs
<1> QED BY <1>7, <1>8 DEF r

LEMMA ParentsAre ==
    ASSUME NEW p \in Paths
    PROVE  Parents(p) = {q \in Paths : IsStrictPrefix(q, p)}
<1>1. ASSUME NEW q \in Parents(p) PROVE q \in Paths /\ IsStrictPrefix(q, p)
  BY PartIs DEF Parents
<1>2. ASSUME NEW q \in Paths, IsStrictPrefix(q, p) PROVE q \in Parents(p)
  <2>1. q \in Seq(Names) /\ Len(q) \in Nat /\ 1 <= Len(q) /\ Len(p) \in Nat /\ Len(q) < Len(p)
    BY <1>2, PathIs, StrictPrefixIs
  <2>2. SubSeq(q, 1, Len(q)) = q
    BY <2>1, SubSeqFull
  <2>3. q = SubSeq(p, 1, Len(q))
    BY <1>2, <2>2 DEF IsStrictPrefix, IsPrefix
  <2>4. Len(q) \in 1..(Len(p) - 1)
    BY <2>1
  <2> QED BY <2>3, <2>4 DEF Parents
<1> QED BY <1>1, <1>2

(* They are in the same top directory, and with each are those above it.   *)
LEMMA ParentsOf ==
    ASSUME NEW p \in Paths
    PROVE  /\ \A q \in Parents(p) : q \in Paths /\ q[1] = p[1]
           /\ p \notin Parents(p)
           /\ \A q \in Parents(p) \cup {p} : Len(q) # 1 => Front(q) \in Parents(p)
<1>1. \A q \in Parents(p) : q \in Paths /\ IsStrictPrefix(q, p)
  BY ParentsAre
<1>2. \A q \in Parents(p) : q[1] = p[1]
  BY <1>1, PrefixTop DEF IsStrictPrefix
<1>3. p \notin Parents(p)
  BY <1>1 DEF IsStrictPrefix
<1>4. ASSUME NEW q \in Parents(p) \cup {p}, Len(q) # 1 PROVE Front(q) \in Parents(p)
  <2>1. q \in Paths /\ Front(q) \in Paths /\ IsStrictPrefix(Front(q), q)
    BY <1>1, <1>4, FrontIs
  <2>2. IsStrictPrefix(Front(q), p)
    <3>1. CASE q = p
      BY <2>1, <3>1
    <3>2. CASE q \in Parents(p)
      BY <1>1, <2>1, <3>2, StrictPrefixTrans
    <3> QED BY <3>1, <3>2
  <2> QED BY <2>1, <2>2, ParentsAre
<1> QED BY <1>1, <1>2, <1>3, <1>4

(* Where the directory of a path is in the tree, so are all above it.      *)
LEMMA ParentsThere ==
    ASSUME NEW t, IsTree(t), NEW p \in Paths, HasParent(t, p)
    PROVE  \A q \in Parents(p) : IsDir(t, q)
<1> SUFFICES ASSUME NEW q \in Parents(p) PROVE IsDir(t, q)
  OBVIOUS
<1>1. q \in Paths /\ IsStrictPrefix(q, p)
  BY ParentsAre
<1>2. Len(p) # 1 /\ Len(q) \in Nat /\ Len(q) <= Len(p) - 1 /\ Len(p) - 1 \in Nat
  BY <1>1, PathIs, StrictPrefixIs
<1> DEFINE f == Front(p)
<1>3. /\ f \in Paths /\ Len(f) = Len(p) - 1 /\ IsDir(t, f)
      /\ \A i \in 1..(Len(p) - 1) : f[i] = p[i]
  BY <1>2, FrontIs DEF HasParent
<1>4. \A i \in 1..Len(q) : q[i] = p[i]
  BY <1>1, StrictPrefixIs
<1> HIDE DEF f
<1>5. \A i \in 1..Len(q) : i \in 1..(Len(p) - 1)
  BY <1>2
<1>6. \A i \in 1..Len(q) : q[i] = f[i]
  BY <1>3, <1>4, <1>5
<1>7. CASE Len(q) = Len(f)
  <2>1. q = f
    BY <1>1, <1>3, <1>6, <1>7, SamePath
  <2> QED BY <1>3, <2>1
<1>8. CASE Len(q) # Len(f)
  <2>1. IsStrictPrefix(q, f)
    BY <1>1, <1>2, <1>3, <1>6, <1>8, StrictPrefixIs
  <2> QED BY <1>1, <1>3, <2>1, Ancestors DEF IsDir, Has
<1> QED BY <1>7, <1>8

(* A tree with the directories above a path, when no file is in the way.   *)
LEMMA WithParentsIs ==
    ASSUME NEW t, IsTree(t), NEW p \in Paths
    PROVE  /\ DOMAIN WithParents(t, p) = DOMAIN t \cup Parents(p)
           /\ \A q \in DOMAIN t : WithParents(t, p)[q] = t[q]
           /\ \A q \in Parents(p) : q \notin DOMAIN t => WithParents(t, p)[q] = Dir
BY DEF WithParents

LEMMA WithParentsIsTree ==
    ASSUME NEW t, IsTree(t), NEW p \in Paths, \A q \in Parents(p) : IsDir(WithParents(t, p), q)
    PROVE  IsTree(WithParents(t, p)) /\ HasParent(WithParents(t, p), p)
<1> DEFINE u == WithParents(t, p)
<1>1. /\ DOMAIN u = DOMAIN t \cup Parents(p)
      /\ \A q \in DOMAIN t : u[q] = t[q]
  BY WithParentsIs
<1>2. \A q \in Parents(p) : IsDir(u, q)
  OBVIOUS
<1> HIDE DEF u
<1>3. ASSUME NEW q \in DOMAIN u PROVE q \in Paths /\ HasParent(u, q) /\ u[q] \in Files \cup {Dir}
  <2>1. CASE q \in DOMAIN t
    <3>1. q \in Paths /\ HasParent(t, q) /\ t[q] \in Files \cup {Dir}
      BY <2>1 DEF IsTree
    <3> QED BY <1>1, <2>1, <3>1 DEF HasParent, IsDir, Has
  <2>2. CASE q \in Parents(p)
    <3>1. q \in Paths /\ (Len(q) # 1 => Front(q) \in Parents(p))
      BY <2>2, ParentsOf
    <3> QED BY <1>2, <2>2, <3>1 DEF HasParent, IsDir, Has
  <2> QED BY <1>1, <2>1, <2>2
<1>4. HasParent(u, p)
  BY <1>2, ParentsOf DEF HasParent
<1> QED BY <1>3, <1>4 DEF IsTree, u

LEMMA WithParentsElsewhere ==
    ASSUME NEW t, NEW p \in Paths, NEW top, top # p[1]
    PROVE  Same(WithParents(t, p), t, top)
BY ParentsOf DEF WithParents, Same

LEMMA WithParentsSame ==
    ASSUME NEW t, IsTree(t), NEW p \in Paths, HasParent(t, p), NEW top
    PROVE  /\ Same(WithParents(t, p), t, top)
           /\ \A q \in Parents(p) : IsDir(WithParents(t, p), q)
<1>1. \A q \in Parents(p) : IsDir(t, q)
  BY ParentsThere
<1> QED BY <1>1 DEF WithParents, Same, IsDir, Has

-----------------------------------------------------------------------------
(* What a step means for a client that does not take it, and for the one   *)
(* whose call it ends.                                                     *)

LEMMA TopsAre ==
    ASSUME NEW j \in AllJobs
    PROVE  Tops(j) \subseteq Names /\ Tops(j) # {} /\ j.path[1] \in Tops(j)
BY JobIs

LEMMA NoJobIs == NoJob \notin AllJobs
<1>1. NoJob.op \notin {"mkdir", "create", "rmdir", "unlink", "symlink", "link", "rename"}
  BY DEF NoJob
<1> QED BY <1>1, JobIs

LEMMA InvGives ==
    ASSUME IInv
    PROVE  /\ IsTree(server)
           /\ \A d \in Clients : IsTree(local[d])
           /\ pc \in [Clients -> {"idle", "server", "local"}]
           /\ answer \in [Clients -> {"ok", "error", "terminated"}]
           /\ apart \in [Clients -> SUBSET Names]
           /\ local = [d \in Clients |-> local[d]]
           /\ before = [d \in Clients |-> before[d]]
           /\ job \in [Clients -> AllJobs \cup {NoJob}]
           /\ \A d \in Clients : pc[d] # "idle" => job[d] \in AllJobs
BY DEF IInv, Types, TypeOK

(* All that a client keeps is as it was, and the step changes nothing on   *)
(* the server that the client can expect to be as it was.                  *)
Unseen(d) ==
    /\ local'[d] = local[d] /\ pc'[d] = pc[d] /\ job'[d] = job[d]
    /\ answer'[d] = answer[d] /\ before'[d] = before[d]
    /\ apart[d] \subseteq apart'[d]
    /\ \A top \in Names \ apart'[d] : Same(server', server, top)

Others(c) == \A d \in Clients \ {c} : Unseen(d)

LEMMA Bystander ==
    ASSUME IInv, NEW d \in Clients, Unseen(d), IsTree(server')
    PROVE  Holds(d)'
<1>1. /\ local'[d] = local[d] /\ pc'[d] = pc[d] /\ job'[d] = job[d]
      /\ answer'[d] = answer[d] /\ before'[d] = before[d]
      /\ apart[d] \subseteq apart'[d]
      /\ \A top \in Names \ apart'[d] : Same(server', server, top)
  BY DEF Unseen
<1>2. /\ IsTree(server)
      /\ job[d] \in AllJobs \cup {NoJob}
      /\ pc[d] # "idle" => job[d] \in AllJobs
  BY DEF IInv, Types, TypeOK
<1>3. Agrees(d) /\ Behind(d) /\ Begun(d) /\ Refused(d)
  BY DEF IInv, Holds
<1>4. ASSUME NEW t, Alike(d, t) PROVE \A top \in Names \ apart'[d] : Same(server', t, top)
  BY <1>1, <1>4, SameTrans DEF Alike
<1>5. \A top \in Names \ apart'[d] : In(server', top) = In(server, top)
  <2>1. DOMAIN server' \subseteq Paths /\ DOMAIN server \subseteq Paths
    BY <1>2 DEF IsTree
  <2> QED BY <1>1, <2>1, InSame
<1>6. Agrees(d)'
  BY <1>1, <1>3, <1>4 DEF Agrees, Alike
<1>7. Behind(d)'
  <2>1. SUFFICES ASSUME pc[d] = "local"
                 PROVE  \/ Tops(job[d]) \subseteq apart'[d] /\ \A top \in Names \ apart'[d] : Same(server', local[d], top)
                        \/ /\ Can(local[d], job[d])
                           /\ \A top \in Names \ apart'[d] : Same(server', Done(local[d], job[d]), top)
    BY <1>1 DEF Behind, Alike
  <2>2. CASE Tops(job[d]) \subseteq apart[d] /\ Alike(d, local[d])
    BY <1>1, <1>4, <2>2
  <2>3. CASE Can(local[d], job[d]) /\ Alike(d, Done(local[d], job[d]))
    BY <1>4, <2>3
  <2> QED BY <1>3, <2>1, <2>2, <2>3 DEF Behind
<1>8. Begun(d)'
  <2>1. SUFFICES ASSUME pc[d] = "server", NEW top \in Tops(job[d]) \ apart'[d]
                 PROVE  In(server', top) = In(before[d], top)
    BY <1>1 DEF Begun
  <2>2. top \in Names /\ top \in Tops(job[d]) \ apart[d]
    BY <1>1, <1>2, <2>1, TopsAre
  <2>3. In(server, top) = In(before[d], top)
    BY <1>3, <2>1, <2>2 DEF Begun
  <2> QED BY <1>5, <2>1, <2>2, <2>3
<1>9. Refused(d)'
  <2>1. SUFFICES ASSUME pc[d] = "idle", answer[d] # "ok", job[d] # NoJob, Tops(job[d]) \cap apart'[d] = {}
                 PROVE  /\ answer[d] = "error"
                        /\ \A top \in Tops(job[d]) : In(server', top) = In(before[d], top)
    BY <1>1 DEF Refused
  <2>2. Tops(job[d]) \subseteq Names \ apart'[d] /\ Tops(job[d]) \cap apart[d] = {}
    BY <1>1, <1>2, <2>1, TopsAre
  <2>3. answer[d] = "error" /\ \A top \in Tops(job[d]) : In(server, top) = In(before[d], top)
    BY <1>3, <2>1, <2>2 DEF Refused
  <2> QED BY <1>5, <2>2, <2>3
<1> QED BY <1>6, <1>7, <1>8, <1>9 DEF Holds

LEMMA AllHold ==
    ASSUME IInv, NEW c \in Clients, Others(c), Types', Holds(c)'
    PROVE  IInv'
<1>1. IsTree(server')
  BY DEF Types, TypeOK
<1>2. \A d \in Clients : Holds(d)'
  BY <1>1, Bystander DEF Others
<1> QED BY <1>2 DEF IInv

(* The second step.  The client's tree becomes t, which differs from what  *)
(* it was only where the call goes; where the call can be done it is, and  *)
(* the answer is "ok".                                                     *)
LEMMA LocalEnds ==
    ASSUME IInv, NEW c \in Clients, pc[c] = "local",
           UNCHANGED <<server, job, before, apart>>,
           NEW t, IsTree(t), NEW a \in {"ok", "error", "terminated"},
           local' = [local EXCEPT ![c] = t],
           pc' = [pc EXCEPT ![c] = "idle"],
           answer' = [answer EXCEPT ![c] = a],
           \A top \in Names \ Tops(job[c]) : Same(t, local[c], top),
           Can(local[c], job[c]) => /\ a = "ok"
                                    /\ \A top \in Tops(job[c]) : Same(t, Done(local[c], job[c]), top)
    PROVE  IInv'
<1>1. /\ TypeOK
      /\ local = [d \in Clients |-> local[d]]
      /\ before = [d \in Clients |-> before[d]]
      /\ job \in [Clients -> AllJobs \cup {NoJob}]
      /\ \A d \in Clients : pc[d] # "idle" => job[d] \in AllJobs
  BY DEF IInv, Types
<1>2. /\ IsTree(server)
      /\ \A d \in Clients : IsTree(local[d])
      /\ pc \in [Clients -> {"idle", "server", "local"}]
      /\ answer \in [Clients -> {"ok", "error", "terminated"}]
      /\ apart \in [Clients -> SUBSET Names]
  BY <1>1 DEF TypeOK
<1>3. /\ DOMAIN local = Clients
      /\ local' = [d \in Clients |-> local'[d]]
      /\ local'[c] = t /\ \A d \in Clients \ {c} : local'[d] = local[d]
  BY <1>1
<1>4. /\ pc' \in [Clients -> {"idle", "server", "local"}]
      /\ pc'[c] = "idle" /\ \A d \in Clients \ {c} : pc'[d] = pc[d]
  BY <1>2
<1>5. /\ answer' \in [Clients -> {"ok", "error", "terminated"}]
      /\ answer'[c] = a /\ \A d \in Clients \ {c} : answer'[d] = answer[d]
  BY <1>2
<1>6. TypeOK'
  <2>1. \A d \in Clients : IsTree(local'[d])
    BY <1>2, <1>3
  <2>2. IsTree(server') /\ apart' \in [Clients -> SUBSET Names]
    BY <1>2
  <2> QED BY <1>4, <1>5, <2>1, <2>2 DEF TypeOK
<1>7. Types'
  <2>1. \A d \in Clients : pc'[d] # "idle" => job'[d] \in AllJobs
    BY <1>1, <1>4
  <2>2. before' = [d \in Clients |-> before'[d]] /\ job' \in [Clients -> AllJobs \cup {NoJob}]
    BY <1>1
  <2> QED BY <1>3, <1>6, <2>1, <2>2 DEF Types
<1>8. Others(c)
  <2>1. \A top \in Names : Same(server', server, top)
    BY SameSelf
  <2> QED BY <1>3, <1>4, <1>5, <2>1 DEF Others, Unseen
<1>9. Holds(c)'
  <2>0. job[c] \in AllJobs /\ Behind(c) /\ Tops(job[c]) # {}
    BY <1>1, TopsAre DEF IInv, Holds
  <2>1. CASE Tops(job[c]) \subseteq apart[c] /\ Alike(c, local[c])
    <3>1. ASSUME NEW top \in Names \ apart[c] PROVE Same(server, t, top)
      <4>1. Same(server, local[c], top) /\ Same(t, local[c], top)
        BY <2>1 DEF Alike
      <4> QED BY <4>1, SameSym, SameTrans
    <3>2. Agrees(c)'
      BY <1>3, <3>1 DEF Agrees, Alike
    <3>3. Tops(job[c]) \cap apart[c] # {}
      BY <2>0, <2>1
    <3> QED BY <1>4, <3>2, <3>3 DEF Holds, Behind, Begun, Refused
  <2>2. CASE Can(local[c], job[c]) /\ Alike(c, Done(local[c], job[c]))
    <3>1. ASSUME NEW top \in Names \ apart[c] PROVE Same(server, t, top)
      <4>1. Same(server, Done(local[c], job[c]), top)
        BY <2>2 DEF Alike
      <4>2. CASE top \in Tops(job[c])
        BY <2>2, <4>1, <4>2, SameSym, SameTrans
      <4>3. CASE top \notin Tops(job[c])
        <5>1. IsTree(local[c])
          BY <1>2
        <5>2. Same(Done(local[c], job[c]), local[c], top)
          BY <2>0, <4>3, <5>1, DoneElsewhere
        <5>3. Same(local[c], t, top)
          BY <4>3, SameSym
        <5>4. Same(server, local[c], top)
          BY <4>1, <5>2, SameTrans
        <5> QED BY <5>3, <5>4, SameTrans
      <4> QED BY <4>2, <4>3
    <3>2. Agrees(c)'
      BY <1>3, <3>1 DEF Agrees, Alike
    <3>3. answer'[c] = "ok"
      BY <1>5, <2>2
    <3> QED BY <1>4, <3>2, <3>3 DEF Holds, Behind, Begun, Refused
  <2> QED BY <1>1, <2>0, <2>1, <2>2 DEF Behind
<1> QED BY <1>7, <1>8, <1>9, AllHold

-----------------------------------------------------------------------------
(* The second step of each handler. *)

(* The local step that leaves the tree as it was, for a call that can not  *)
(* be done in it.                                                          *)
LEMMA LocalGivesUp ==
    ASSUME IInv, NEW c \in Clients, pc[c] = "local", ~Can(local[c], job[c]),
           UNCHANGED <<server, local, job, before, apart>>,
           NEW a \in {"error", "terminated"},
           pc' = [pc EXCEPT ![c] = "idle"],
           answer' = [answer EXCEPT ![c] = a]
    PROVE  IInv'
<1>1. IsTree(local[c]) /\ local = [d \in Clients |-> local[d]]
  BY DEF IInv, Types, TypeOK
<1>2. local' = [local EXCEPT ![c] = local[c]]
  BY <1>1
<1>3. \A top \in Names \ Tops(job[c]) : Same(local[c], local[c], top)
  BY SameSelf
<1> DEFINE t == local[c]
<1>4. IsTree(t) /\ local' = [local EXCEPT ![c] = t]
  BY <1>1, <1>2
<1>5. \A top \in Names \ Tops(job[c]) : Same(t, local[c], top)
  BY <1>3
<1> HIDE DEF t
<1> QED BY <1>4, <1>5, LocalEnds

(* The local step that does the call in the client's tree. *)
LEMMA LocalDoes ==
    ASSUME IInv, NEW c \in Clients, pc[c] = "local", Can(local[c], job[c]),
           UNCHANGED <<server, job, before, apart>>,
           local' = [local EXCEPT ![c] = Done(local[c], job[c])],
           pc' = [pc EXCEPT ![c] = "idle"],
           answer' = [answer EXCEPT ![c] = "ok"]
    PROVE  IInv'
<1>1. IsTree(local[c]) /\ job[c] \in AllJobs
  BY DEF IInv, Types, TypeOK
<1> DEFINE t == Done(local[c], job[c])
<1>2. IsTree(t)
  BY <1>1, DoneIsTree
<1>3. \A top \in Names \ Tops(job[c]) : Same(t, local[c], top)
  BY <1>1, DoneElsewhere
<1>4. \A top \in Tops(job[c]) : Same(t, Done(local[c], job[c]), top)
  BY SameSelf
<1>5. local' = [local EXCEPT ![c] = t]
  OBVIOUS
<1> HIDE DEF t
<1> QED BY <1>2, <1>3, <1>4, <1>5, LocalEnds

LEMMA LocalCallKeeps ==
    ASSUME IInv, NEW c \in Clients, NEW op, LocalCall(c, op)
    PROVE  IInv'
<1>1. pc[c] = "local" /\ UNCHANGED <<server, job, before, apart>>
  BY DEF LocalCall, AtLocal
<1>2. CASE Can(local[c], job[c])
  BY <1>1, <1>2, LocalDoes DEF LocalCall, Change, Return
<1>3. CASE ~Can(local[c], job[c])
  BY <1>1, <1>3, LocalGivesUp DEF LocalCall, Return
<1> QED BY <1>2, <1>3

LEMMA LocalRenameKeeps ==
    ASSUME IInv, NEW c \in Clients, LocalRename(c)
    PROVE  IInv'
<1>1. pc[c] = "local" /\ UNCHANGED <<server, job, before, apart>>
  BY DEF LocalRename, AtLocal
<1>2. CASE Can(local[c], job[c])
  BY <1>1, <1>2, LocalDoes DEF LocalRename, Change, Return
<1>3. CASE ~Can(local[c], job[c])
  BY <1>1, <1>3, LocalGivesUp DEF LocalRename, Terminate
<1> QED BY <1>2, <1>3

(* The second step fails.  The client's tree becomes t, which differs from *)
(* what it was only where the call goes, and that is apart from now on.    *)
LEMMA LocalStops ==
    ASSUME IInv, NEW c \in Clients, pc[c] = "local",
           UNCHANGED <<server, job, before>>,
           apart' = [apart EXCEPT ![c] = @ \cup Tops(job[c])],
           NEW t, IsTree(t), NEW a \in {"error", "terminated"},
           local' = [local EXCEPT ![c] = t],
           pc' = [pc EXCEPT ![c] = "idle"],
           answer' = [answer EXCEPT ![c] = a],
           \A top \in Names \ Tops(job[c]) : Same(t, local[c], top)
    PROVE  IInv'
<1>1. /\ job[c] \in AllJobs
      /\ Tops(job[c]) \subseteq Names /\ Tops(job[c]) # {}
  BY InvGives, TopsAre
<1>2. /\ local' = [d \in Clients |-> local'[d]]
      /\ local'[c] = t /\ \A d \in Clients \ {c} : local'[d] = local[d]
  <2>1. DOMAIN local = Clients
    BY InvGives
  <2> QED BY <2>1
<1>3. /\ pc' \in [Clients -> {"idle", "server", "local"}]
      /\ pc'[c] = "idle" /\ \A d \in Clients \ {c} : pc'[d] = pc[d]
  BY InvGives
<1>4. /\ answer' \in [Clients -> {"ok", "error", "terminated"}]
      /\ \A d \in Clients \ {c} : answer'[d] = answer[d]
  BY InvGives
<1>5. /\ apart' \in [Clients -> SUBSET Names]
      /\ apart'[c] = apart[c] \cup Tops(job[c]) /\ \A d \in Clients \ {c} : apart'[d] = apart[d]
  BY <1>1, InvGives
<1>6. Types'
  <2>1. \A d \in Clients : IsTree(local'[d])
    BY <1>2, InvGives
  <2>2. TypeOK'
    BY <1>3, <1>4, <1>5, <2>1, InvGives DEF TypeOK
  <2>3. \A d \in Clients : pc'[d] # "idle" => job'[d] \in AllJobs
    BY <1>3, InvGives
  <2> QED BY <1>2, <2>2, <2>3, InvGives DEF Types
<1>7. Others(c)
  <2>1. \A top \in Names : Same(server', server, top)
    BY SameSelf
  <2> QED BY <1>2, <1>3, <1>4, <1>5, <2>1 DEF Others, Unseen
<1>8. ASSUME NEW top \in Names \ apart[c], top \notin Tops(job[c]) PROVE Same(server, t, top)
  <2>1. Same(local[c], t, top)
    BY <1>8, SameSym
  <2>2. Same(server, local[c], top)
    <3>1. CASE Alike(c, local[c])
      BY <3>1 DEF Alike
    <3>2. CASE Alike(c, Done(local[c], job[c]))
      <4>1. Same(server, Done(local[c], job[c]), top)
        BY <3>2 DEF Alike
      <4>2. Same(Done(local[c], job[c]), local[c], top)
        BY <1>1, <1>8, InvGives, DoneElsewhere
      <4> QED BY <4>1, <4>2, SameTrans
    <3>3. Behind(c)
      BY DEF IInv, Holds
    <3> QED BY <3>1, <3>2, <3>3 DEF Behind
  <2> QED BY <2>1, <2>2, SameTrans
<1>9. Holds(c)'
  <2>1. Agrees(c)'
    BY <1>2, <1>5, <1>8 DEF Agrees, Alike
  <2>2. Tops(job[c]) \cap apart'[c] # {}
    BY <1>1, <1>5
  <2>3. Refused(c)'
    BY <2>2 DEF Refused
  <2> QED BY <1>3, <2>1, <2>3 DEF Holds, Behind, Begun
<1> QED BY <1>6, <1>7, <1>9, AllHold

(* The directories above p, which is below the same top. *)
LEMMA ParentsMade ==
    ASSUME IInv, NEW c \in Clients, NEW p \in Paths, CanMakeParents(c, p)
    PROVE  /\ IsTree(WithParents(local[c], p)) /\ HasParent(WithParents(local[c], p), p)
           /\ \A top \in Names : top # p[1] => Same(WithParents(local[c], p), local[c], top)
<1>1. IsTree(local[c])
  BY InvGives
<1>2. IsTree(WithParents(local[c], p)) /\ HasParent(WithParents(local[c], p), p)
  BY <1>1, WithParentsIsTree DEF CanMakeParents
<1>3. \A top \in Names : top # p[1] => Same(WithParents(local[c], p), local[c], top)
  BY WithParentsElsewhere
<1> QED BY <1>2, <1>3

LEMMA LocalFailsKeeps ==
    ASSUME IInv, NEW c \in Clients, LocalFails(c)
    PROVE  IInv'
<1> DEFINE p == job[c].path
<1>1. /\ pc[c] = "local" /\ UNCHANGED <<server, job, before>>
      /\ apart' = [apart EXCEPT ![c] = @ \cup Tops(job[c])]
  BY DEF LocalFails
<1>2. PICK a \in {"error", "terminated"} :
         /\ pc' = [pc EXCEPT ![c] = "idle"]
         /\ answer' = [answer EXCEPT ![c] = a]
  BY DEF LocalFails, Return, Terminate
<1>3. job[c] \in AllJobs /\ p \in Paths /\ p[1] \in Tops(job[c])
  BY <1>1, InvGives, JobIs, TopsAre
<1>4. CASE local' = local
  <2>1. IsTree(local[c]) /\ local' = [local EXCEPT ![c] = local[c]]
    <3>1. IsTree(local[c]) /\ local = [d \in Clients |-> local[d]]
      BY InvGives
    <3> QED BY <1>4, <3>1
  <2>2. \A top \in Names \ Tops(job[c]) : Same(local[c], local[c], top)
    BY SameSelf
  <2> DEFINE t == local[c]
  <2>3. /\ IsTree(t) /\ local' = [local EXCEPT ![c] = t]
        /\ \A top \in Names \ Tops(job[c]) : Same(t, local[c], top)
    BY <2>1, <2>2
  <2> HIDE DEF t
  <2> QED BY <1>1, <1>2, <2>3, LocalStops
<1>5. ASSUME NEW q \in {p} \cup Parents(p), MakesParents(c, q) PROVE IInv'
  <2>1. q \in Paths /\ q[1] = p[1]
    BY <1>3, <1>5, ParentsOf
  <2> DEFINE t == WithParents(local[c], q)
  <2>2. /\ IsTree(t) /\ local' = [local EXCEPT ![c] = t]
        /\ \A top \in Names \ Tops(job[c]) : Same(t, local[c], top)
    BY <1>3, <1>5, <2>1, ParentsMade DEF MakesParents, Change
  <2> HIDE DEF t
  <2> QED BY <1>1, <1>2, <2>2, LocalStops
<1>6. \/ local' = local
      \/ \E q \in {p} \cup Parents(p) : MakesParents(c, q)
  BY DEF LocalFails
<1> QED BY <1>4, <1>5, <1>6

LEMMA LocalUnlinkTakes ==
    ASSUME IInv, NEW c \in Clients, LocalUnlink(c)
    PROVE  IInv'
<1> DEFINE p == job[c].path
<1>1. pc[c] = "local" /\ job[c].op = "unlink" /\ UNCHANGED <<server, job, before, apart>>
  BY DEF LocalUnlink, AtLocal
<1>2. IsTree(local[c]) /\ job[c] \in AllJobs
  BY <1>1 DEF IInv, Types, TypeOK
<1>3. p \in Paths
  BY <1>2, JobIs
<1>4. CASE Under(local[c], p) # {}
  <2>1. ~Can(local[c], job[c])
    BY <1>1, <1>2, <1>3, <1>4, FilesAreLeaves, UnlinkIs
  <2> QED BY <1>1, <1>4, <2>1, LocalGivesUp DEF LocalUnlink, Terminate
<1>5. CASE Under(local[c], p) = {}
  <2> DEFINE t == Without(local[c], {p})
  <2>1. IsTree(t)
    BY <1>2, <1>3, <1>5, WithoutIsTree
  <2>2. \A top \in Names \ Tops(job[c]) : Same(t, local[c], top)
    BY <1>2, <1>3, TopsAre, WithoutElsewhere
  <2>3. \A top \in Tops(job[c]) : Same(t, Done(local[c], job[c]), top)
    BY <1>1, UnlinkIs, SameSelf
  <2>4. /\ local' = [local EXCEPT ![c] = t]
        /\ pc' = [pc EXCEPT ![c] = "idle"]
        /\ answer' = [answer EXCEPT ![c] = "ok"]
    BY <1>5 DEF LocalUnlink, Change, Return
  <2> HIDE DEF t, p
  <2> QED BY <1>1, <2>1, <2>2, <2>3, <2>4, LocalEnds
<1> QED BY <1>4, <1>5

LEMMA LocalCreateMakes ==
    ASSUME IInv, NEW c \in Clients, LocalCreate(c)
    PROVE  IInv'
<1> DEFINE j == job[c]
           p == job[c].path
           u == WithParents(local[c], p)
<1>1. pc[c] = "local" /\ j.op = "create" /\ UNCHANGED <<server, job, before, apart>>
  BY DEF LocalCreate, AtLocal
<1>2. IsTree(local[c]) /\ j \in AllJobs
  BY <1>1 DEF IInv, Types, TypeOK
<1>3. p \in Paths /\ p[1] \in Tops(j)
  BY <1>2, JobIs, TopsAre
<1>4. Can(local[c], j) => /\ \A q \in Parents(p) : IsDir(u, q)
                          /\ \A top \in Tops(j) : Same(u, local[c], top)
  BY <1>1, <1>2, <1>3, CreateIs, WithParentsSame
<1>5. CASE \E q \in Parents(p) : ~IsDir(u, q)
  BY <1>1, <1>4, <1>5, LocalGivesUp DEF LocalCreate, Terminate
<1>6. CASE \A q \in Parents(p) : IsDir(u, q)
  <2>1. IsTree(u)
    BY <1>2, <1>3, <1>6, WithParentsIsTree
  <2>2. \A top \in Names \ Tops(j) : Same(u, local[c], top)
    BY <1>3, WithParentsElsewhere
  <2>3. CASE Can(u, j)
    <3> DEFINE t == Done(u, j)
    <3>1. IsTree(t)
      BY <1>2, <2>1, <2>3, DoneIsTree
    <3>2. \A top \in Names \ Tops(j) : Same(t, u, top)
      BY <1>2, <2>1, DoneElsewhere
    <3>3. \A top \in Names \ Tops(j) : Same(t, local[c], top)
      BY <2>2, <3>2, SameTrans
    <3>4. ASSUME Can(local[c], j) PROVE \A top \in Tops(j) : Same(t, Done(local[c], j), top)
      <4>1. \A top \in Tops(j) : Same(u, local[c], top)
        BY <1>4, <3>4
      <4> HIDE DEF j, u
      <4> QED BY <1>2, <2>1, <2>3, <4>1, DoneSame
    <3>5. /\ local' = [local EXCEPT ![c] = t]
          /\ pc' = [pc EXCEPT ![c] = "idle"]
          /\ answer' = [answer EXCEPT ![c] = "ok"]
      BY <1>6, <2>3 DEF LocalCreate, Change, Return
    <3> HIDE DEF t, u, p
    <3> QED BY <1>1, <3>1, <3>3, <3>4, <3>5, LocalEnds
  <2>4. CASE ~Can(u, j)
    <3>1. ~Can(local[c], j)
      <4>1. ASSUME Can(local[c], j) PROVE FALSE
        <5>1. \A top \in Tops(j) : Same(u, local[c], top)
          BY <1>4, <4>1
        <5> HIDE DEF j, u
        <5> QED BY <1>2, <2>1, <2>4, <4>1, <5>1, DoneSame
      <4> QED BY <4>1
    <3>2. /\ local' = [local EXCEPT ![c] = u]
          /\ pc' = [pc EXCEPT ![c] = "idle"]
          /\ answer' = [answer EXCEPT ![c] = "error"]
      BY <1>6, <2>4 DEF LocalCreate, Change, Return
    <3> HIDE DEF u, p
    <3> QED BY <1>1, <2>1, <2>2, <3>1, <3>2, LocalEnds
  <2> QED BY <2>3, <2>4
<1> QED BY <1>5, <1>6

-----------------------------------------------------------------------------
(* The first step of each handler. *)

LEMMA ServerTypes ==
    ASSUME IInv, IsTree(server'), UNCHANGED <<local, job, before>>,
           pc' \in [Clients -> {"idle", "server", "local"}],
           \A d \in Clients : pc'[d] # "idle" => pc[d] # "idle",
           answer' \in [Clients -> {"ok", "error", "terminated"}],
           apart' \in [Clients -> SUBSET Names]
    PROVE  Types'
<1>1. TypeOK'
  BY InvGives DEF TypeOK
<1>2. \A d \in Clients : pc'[d] # "idle" => job'[d] \in AllJobs
  BY InvGives
<1> QED BY <1>1, <1>2, InvGives DEF Types

(* What the server does changes only what all others are told of. *)
LEMMA ServerOthers ==
    ASSUME IInv, NEW c \in Clients, job[c] \in AllJobs,
           server' = Done(server, job[c]),
           \A d \in Clients \ {c} :
               /\ local'[d] = local[d] /\ pc'[d] = pc[d] /\ job'[d] = job[d]
               /\ answer'[d] = answer[d] /\ before'[d] = before[d]
               /\ apart'[d] = apart[d] \cup Tops(job[c])
    PROVE  Others(c)
<1>1. \A top \in Names \ Tops(job[c]) : Same(server', server, top)
  BY InvGives, DoneElsewhere
<1> QED BY <1>1 DEF Others, Unseen

LEMMA ServerStepKeeps ==
    ASSUME IInv, NEW c \in Clients, ServerStep(c)
    PROVE  IInv'
<1> DEFINE j == job[c]
<1>1. /\ pc[c] = "server" /\ Can(server, j)
      /\ server' = Done(server, j)
      /\ pc' = [pc EXCEPT ![c] = "local"]
      /\ UNCHANGED <<local, job, answer, before>>
      /\ apart' = [d \in Clients |->
                      IF d = c /\ Tops(j) \cap apart[d] = {} THEN apart[d]
                      ELSE apart[d] \cup Tops(j)]
  BY DEF ServerStep, ServerDoes
<1>2. j \in AllJobs /\ Tops(j) \subseteq Names /\ Tops(j) # {}
  BY <1>1, InvGives, TopsAre
<1>3. IsTree(server')
  BY <1>1, <1>2, InvGives, DoneIsTree
<1>4. /\ pc' \in [Clients -> {"idle", "server", "local"}]
      /\ pc'[c] = "local" /\ \A d \in Clients \ {c} : pc'[d] = pc[d]
  BY <1>1, InvGives
<1>5. apart' \in [Clients -> SUBSET Names]
  BY <1>1, <1>2, InvGives
<1>6. Types'
  BY <1>1, <1>3, <1>4, <1>5, InvGives, ServerTypes
<1>7. Others(c)
  BY <1>1, <1>2, <1>4, ServerOthers
<1>8. \A top \in Names \ apart[c] : Same(server, local[c], top)
  BY <1>1 DEF IInv, Holds, Agrees, Alike
<1>9. ASSUME NEW top \in Names \ Tops(j), top \notin apart[c] PROVE Same(server', local[c], top)
  <2>1. Same(server', server, top)
    BY <1>1, <1>2, InvGives, DoneElsewhere
  <2> QED BY <1>8, <1>9, <2>1, SameTrans
<1>10. Behind(c)'
  <2>1. CASE Tops(j) \cap apart[c] = {}
    <3>1. apart'[c] = apart[c]
      BY <1>1, <2>1
    <3>2. \A top \in Tops(j) : Same(server, local[c], top)
      BY <1>2, <1>8, <2>1
    <3>3. /\ Can(local[c], j)
          /\ \A top \in Tops(j) : Same(Done(server, j), Done(local[c], j), top)
      <4> HIDE DEF j
      <4> QED BY <1>1, <1>2, <3>2, InvGives, DoneSame
    <3>4. ASSUME NEW top \in Names \ apart[c] PROVE Same(server', Done(local[c], j), top)
      <4>1. CASE top \in Tops(j)
        BY <1>1, <3>3, <4>1
      <4>2. CASE top \notin Tops(j)
        <5>1. Same(Done(local[c], j), local[c], top)
          BY <1>2, <4>2, InvGives, DoneElsewhere
        <5>2. Same(server', local[c], top)
          BY <1>9, <3>4, <4>2
        <5> QED BY <5>1, <5>2, SameSym, SameTrans
      <4> QED BY <4>1, <4>2
    <3> QED BY <1>1, <3>1, <3>3, <3>4 DEF Behind, Alike
  <2>2. CASE Tops(j) \cap apart[c] # {}
    <3>1. apart'[c] = apart[c] \cup Tops(j)
      BY <1>1, <2>2
    <3>2. \A top \in Names \ apart'[c] : Same(server', local[c], top)
      BY <1>9, <3>1
    <3> QED BY <1>1, <3>1, <3>2 DEF Behind, Alike
  <2> QED BY <2>1, <2>2
<1>11. Holds(c)'
  BY <1>4, <1>10 DEF Holds, Agrees, Begun, Refused
<1> QED BY <1>6, <1>7, <1>11, AllHold

(* What holds of the client whose call is refused, or fails: the server's  *)
(* tree is as it was where the client can tell.                            *)
LEMMA RefusedHolds ==
    ASSUME IInv, NEW c \in Clients, pc[c] = "server",
           UNCHANGED <<local, job, before>>,
           apart[c] \subseteq apart'[c],
           apart'[c] \subseteq Names,
           \A top \in Names \ apart'[c] : Same(server', server, top),
           \/ Tops(job[c]) \subseteq apart'[c]
           \/ server' = server /\ apart'[c] = apart[c],
           \/ pc'[c] = "idle" /\ answer'[c] = "error"
           \/ pc'[c] = "local" /\ Tops(job[c]) \subseteq apart'[c]
    PROVE  Holds(c)'
<1>1. job[c] \in AllJobs /\ Tops(job[c]) \subseteq Names /\ Tops(job[c]) # {}
  BY InvGives, TopsAre
<1>2. Agrees(c) /\ Begun(c)
  BY DEF IInv, Holds
<1>3. \A top \in Names \ apart'[c] : Same(server', local[c], top)
  BY <1>2, SameTrans DEF Agrees, Alike
<1>4. Alike(c, local[c])'
  BY <1>3 DEF Alike
<1>5. Agrees(c)' /\ Begun(c)'
  BY <1>4 DEF Agrees, Begun
<1>6. Behind(c)'
  BY <1>4 DEF Behind
<1>7. ASSUME pc'[c] = "idle", Tops(job[c]) \cap apart'[c] = {}
      PROVE  /\ answer'[c] = "error"
             /\ \A top \in Tops(job[c]) : In(server', top) = In(before[c], top)
  <2>1. server' = server /\ Tops(job[c]) \cap apart[c] = {}
    BY <1>1, <1>7
  <2>2. \A top \in Tops(job[c]) : In(server, top) = In(before[c], top)
    BY <1>2, <2>1 DEF Begun
  <2> QED BY <1>7, <2>1, <2>2
<1>8. Refused(c)'
  BY <1>7 DEF Refused
<1> QED BY <1>5, <1>6, <1>8 DEF Holds

LEMMA ServerRefusesKeeps ==
    ASSUME IInv, NEW c \in Clients, ServerRefuses(c)
    PROVE  IInv'
<1>1. /\ pc[c] = "server" /\ UNCHANGED <<server, local, job, before>>
      /\ \A top \in Names : Same(server', server, top)
  BY SameSelf DEF ServerRefuses
<1>2. Tops(job[c]) \subseteq Names
  BY <1>1, InvGives, TopsAre
<1>3. CASE job[c].op = "symlink"
  <2>1. /\ pc' = [pc EXCEPT ![c] = "local"] /\ answer' = answer
        /\ apart' = [apart EXCEPT ![c] = @ \cup Tops(job[c])]
    BY <1>3 DEF ServerRefuses
  <2>2. /\ pc' \in [Clients -> {"idle", "server", "local"}]
        /\ pc'[c] = "local" /\ \A d \in Clients \ {c} : pc'[d] = pc[d]
    BY <2>1, InvGives
  <2>3. /\ apart' \in [Clients -> SUBSET Names]
        /\ apart'[c] = apart[c] \cup Tops(job[c]) /\ \A d \in Clients \ {c} : apart'[d] = apart[d]
    BY <1>2, <2>1, InvGives
  <2>4. Types'
    BY <1>1, <2>1, <2>2, <2>3, InvGives, ServerTypes
  <2>5. Others(c)
    BY <1>1, <2>1, <2>2, <2>3 DEF Others, Unseen
  <2>6. Holds(c)'
    BY <1>1, <1>2, <2>2, <2>3, InvGives, RefusedHolds
  <2> QED BY <2>4, <2>5, <2>6, AllHold
<1>4. CASE job[c].op # "symlink"
  <2>1. /\ pc' = [pc EXCEPT ![c] = "idle"] /\ answer' = [answer EXCEPT ![c] = "error"]
        /\ apart' = apart
    BY <1>4 DEF ServerRefuses, Return
  <2>2. /\ pc' \in [Clients -> {"idle", "server", "local"}]
        /\ pc'[c] = "idle" /\ \A d \in Clients \ {c} : pc'[d] = pc[d]
    BY <2>1, InvGives
  <2>3. /\ answer' \in [Clients -> {"ok", "error", "terminated"}]
        /\ answer'[c] = "error" /\ \A d \in Clients \ {c} : answer'[d] = answer[d]
    BY <2>1, InvGives
  <2>4. Types'
    BY <1>1, <2>1, <2>2, <2>3, InvGives, ServerTypes
  <2>5. Others(c)
    BY <1>1, <2>1, <2>2, <2>3 DEF Others, Unseen
  <2>6. Holds(c)'
    BY <1>1, <2>1, <2>2, <2>3, InvGives, RefusedHolds
  <2> QED BY <2>4, <2>5, <2>6, AllHold
<1> QED BY <1>3, <1>4

LEMMA RpcFailsKeeps ==
    ASSUME IInv, NEW c \in Clients, RpcFails(c)
    PROVE  IInv'
<1> DEFINE j == job[c]
<1>1. pc[c] = "server" /\ UNCHANGED <<local, job, before>>
  BY DEF RpcFails
<1>2. j \in AllJobs /\ Tops(j) \subseteq Names
  BY <1>1, InvGives, TopsAre
<1>3. /\ pc' \in [Clients -> {"idle", "server", "local"}]
      /\ answer' \in [Clients -> {"ok", "error", "terminated"}]
      /\ \A d \in Clients \ {c} : pc'[d] = pc[d] /\ answer'[d] = answer[d]
      /\ j.op = "symlink" => pc'[c] = "local"
      /\ j.op # "symlink" => pc'[c] = "idle" /\ answer'[c] = "error"
  <2>1. CASE j.op = "symlink"
    <3>1. pc' = [pc EXCEPT ![c] = "local"] /\ answer' = answer
      BY <2>1 DEF RpcFails
    <3> QED BY <2>1, <3>1, InvGives
  <2>2. CASE j.op # "symlink"
    <3>1. pc' = [pc EXCEPT ![c] = "idle"] /\ answer' = [answer EXCEPT ![c] = "error"]
      BY <2>2 DEF RpcFails, Return
    <3> QED BY <2>2, <3>1, InvGives
  <2> QED BY <2>1, <2>2
<1>4. \A d \in Clients : pc'[d] # "idle" => pc[d] # "idle"
  BY <1>1, <1>3
<1>5. CASE /\ Can(server, j)
           /\ server' = Done(server, j)
           /\ apart' = [d \in Clients |-> apart[d] \cup Tops(j)]
  <2>1. IsTree(server')
    BY <1>2, <1>5, InvGives, DoneIsTree
  <2>2. /\ apart' \in [Clients -> SUBSET Names]
        /\ \A d \in Clients : apart'[d] = apart[d] \cup Tops(j)
    BY <1>2, <1>5, InvGives
  <2>3. Types'
    BY <1>1, <1>3, <1>4, <2>1, <2>2, ServerTypes
  <2>4. Others(c)
    BY <1>1, <1>2, <1>3, <1>5, <2>2, ServerOthers
  <2>5. \A top \in Names \ apart'[c] : Same(server', server, top)
    BY <1>2, <1>5, <2>2, InvGives, DoneElsewhere
  <2>6. Holds(c)'
    BY <1>1, <1>2, <1>3, <2>2, <2>5, InvGives, RefusedHolds
  <2> QED BY <2>3, <2>4, <2>6, AllHold
<1>6. CASE /\ apart' = IF j.op = "symlink"
                       THEN [apart EXCEPT ![c] = @ \cup Tops(j)] ELSE apart
           /\ server' = server
  <2>1. /\ apart' \in [Clients -> SUBSET Names]
        /\ \A d \in Clients \ {c} : apart'[d] = apart[d]
        /\ apart'[c] = IF j.op = "symlink" THEN apart[c] \cup Tops(j) ELSE apart[c]
    BY <1>2, <1>6, InvGives
  <2>2. IsTree(server') /\ \A top \in Names : Same(server', server, top)
    BY <1>6, InvGives, SameSelf
  <2>3. Types'
    BY <1>1, <1>3, <1>4, <2>1, <2>2, ServerTypes
  <2>4. Others(c)
    BY <1>1, <1>3, <2>1, <2>2 DEF Others, Unseen
  <2>5. apart'[c] \subseteq Names /\ apart[c] \subseteq apart'[c]
    BY <2>1
  <2>6. \/ Tops(j) \subseteq apart'[c]
        \/ server' = server /\ apart'[c] = apart[c]
    BY <1>6, <2>1
  <2>7. \/ pc'[c] = "idle" /\ answer'[c] = "error"
        \/ pc'[c] = "local" /\ Tops(j) \subseteq apart'[c]
    BY <1>3, <2>1
  <2>8. Holds(c)'
    BY <1>1, <2>2, <2>5, <2>6, <2>7, RefusedHolds
  <2> QED BY <2>3, <2>4, <2>8, AllHold
<1> QED BY <1>5, <1>6 DEF RpcFails

-----------------------------------------------------------------------------
(* The steps between calls. *)

LEMMA CallKeeps ==
    ASSUME IInv, NEW c \in Clients, Call(c)
    PROVE  IInv'
<1>1. /\ pc[c] = "idle"
      /\ pc' = [pc EXCEPT ![c] = "server"]
      /\ before' = [before EXCEPT ![c] = server]
      /\ UNCHANGED <<server, local, answer, apart>>
  BY DEF Call
<1>2. PICK j \in AllJobs : job' = [job EXCEPT ![c] = j]
  <2>1. Jobs \subseteq AllJobs
    BY DEF Jobs, AllJobs
  <2>2. \E j \in Jobs : job' = [job EXCEPT ![c] = j]
    BY DEF Call
  <2> QED BY <2>1, <2>2
<1>3. /\ pc' \in [Clients -> {"idle", "server", "local"}]
      /\ pc'[c] = "server" /\ \A d \in Clients \ {c} : pc'[d] = pc[d]
  BY <1>1, InvGives
<1>4. /\ before' = [d \in Clients |-> before'[d]]
      /\ before'[c] = server /\ \A d \in Clients \ {c} : before'[d] = before[d]
  <2>1. DOMAIN before = Clients
    BY InvGives
  <2> QED BY <1>1, <2>1
<1>5. /\ job' \in [Clients -> AllJobs \cup {NoJob}]
      /\ job'[c] = j /\ \A d \in Clients \ {c} : job'[d] = job[d]
  BY <1>2, InvGives
<1>6. Types'
  <2>1. TypeOK'
    BY <1>1, <1>3, InvGives DEF TypeOK
  <2>2. \A d \in Clients : pc'[d] # "idle" => job'[d] \in AllJobs
    BY <1>3, <1>5, InvGives
  <2>3. local' = [d \in Clients |-> local'[d]]
    BY <1>1, InvGives
  <2> QED BY <1>4, <1>5, <2>1, <2>2, <2>3 DEF Types
<1>7. Others(c)
  BY <1>1, <1>3, <1>4, <1>5, SameSelf DEF Others, Unseen
<1>8. Holds(c)'
  <2>1. Agrees(c)
    BY DEF IInv, Holds
  <2>2. Agrees(c)'
    BY <1>1, <2>1 DEF Agrees, Alike
  <2>3. Begun(c)'
    BY <1>1, <1>4 DEF Begun
  <2> QED BY <1>3, <2>2, <2>3 DEF Holds, Behind, Refused
<1> QED BY <1>6, <1>7, <1>8, AllHold

(* Opening changes the client's own tree where it is not the server's.     *)
LEMMA OwnChange ==
    ASSUME IInv, NEW c \in Clients, pc[c] = "idle",
           UNCHANGED <<server, before, apart>>,
           NEW t, IsTree(t), local' = [local EXCEPT ![c] = t],
           \A top \in Names \ apart[c] : Same(t, local[c], top),
           \/ UNCHANGED <<pc, answer, job>>
           \/ Terminate(c) /\ job' = [job EXCEPT ![c] = NoJob]
    PROVE  IInv'
<1>1. \A top \in Names \ apart[c] : Same(server, local[c], top)
  BY DEF IInv, Holds, Agrees, Alike
<1>2. \A top \in Names \ apart[c] : Same(server, t, top)
  BY <1>1, SameSym, SameTrans
<1>3. /\ local' = [d \in Clients |-> local'[d]]
      /\ local'[c] = t /\ \A d \in Clients \ {c} : local'[d] = local[d]
  <2>1. DOMAIN local = Clients
    BY InvGives
  <2> QED BY <2>1
<1>4. /\ pc' = pc
      /\ answer' \in [Clients -> {"ok", "error", "terminated"}]
      /\ \A d \in Clients \ {c} : answer'[d] = answer[d]
      /\ job' \in [Clients -> AllJobs \cup {NoJob}]
      /\ \A d \in Clients \ {c} : job'[d] = job[d]
      /\ job'[c] = NoJob \/ (job'[c] = job[c] /\ answer'[c] = answer[c])
  <2>1. CASE UNCHANGED <<pc, answer, job>>
    BY <2>1, InvGives
  <2>2. CASE Terminate(c) /\ job' = [job EXCEPT ![c] = NoJob]
    <3>1. /\ pc' = [pc EXCEPT ![c] = "idle"]
          /\ answer' = [answer EXCEPT ![c] = "terminated"]
          /\ job' = [job EXCEPT ![c] = NoJob]
      BY <2>2 DEF Terminate
    <3> QED BY <3>1, InvGives
  <2> QED BY <2>1, <2>2
<1>5. Types'
  <2>1. \A d \in Clients : IsTree(local'[d])
    BY <1>3, InvGives
  <2>2. TypeOK'
    BY <1>4, <2>1, InvGives DEF TypeOK
  <2>3. \A d \in Clients : pc'[d] # "idle" => job'[d] \in AllJobs
    BY <1>4, InvGives
  <2> QED BY <1>3, <1>4, <2>2, <2>3, InvGives DEF Types
<1>6. Others(c)
  BY <1>3, <1>4, SameSelf DEF Others, Unseen
<1>7. Holds(c)'
  <2>1. Agrees(c)'
    BY <1>2, <1>3 DEF Agrees, Alike
  <2>2. Refused(c)
    BY DEF IInv, Holds
  <2>3. Refused(c)'
    BY <1>4, <2>2 DEF Refused
  <2> QED BY <1>4, <2>1, <2>3 DEF Holds, Begun, Behind
<1> QED BY <1>5, <1>6, <1>7, AllHold

(* What can be fetched is where the trees are not alike.                   *)
LEMMA FetchableApart ==
    ASSUME IInv, NEW c \in Clients, pc[c] = "idle", NEW p \in Fetchable(c)
    PROVE  p \in Paths /\ p[1] \in apart[c] /\ server[p] \in Files
<1>1. p \in Paths /\ p[1] \in Names /\ server[p] \in Files
  BY InvGives, PathIs DEF Fetchable, IsTree, IsDir, Has
<1>2. \A top \in Names \ apart[c] : Same(server, local[c], top)
  BY DEF IInv, Holds, Agrees, Alike
<1> QED BY <1>1, <1>2 DEF Fetchable, Same, Has

LEMMA FetchKeeps ==
    ASSUME IInv, NEW c \in Clients, Fetch(c)
    PROVE  IInv'
<1>1. pc[c] = "idle" /\ UNCHANGED <<server, before, apart>>
  BY DEF Fetch
<1>2. PICK p \in Fetchable(c) :
         \/ /\ CanMakeParents(c, p)
            /\ CopyOf(c, server[p]) \in Files
            /\ Change(c, With(WithParents(local[c], p), p, CopyOf(c, server[p])))
            /\ UNCHANGED <<alive, pc, answer, job>>
         \/ /\ Terminate(c)
            /\ job' = [job EXCEPT ![c] = NoJob]
            /\ local' = local
  BY DEF Fetch
<1>3. p \in Paths /\ p[1] \in apart[c] /\ p \notin DOMAIN local[c]
  BY <1>1, FetchableApart DEF Fetchable, Has
<1>4. CASE /\ CanMakeParents(c, p)
           /\ CopyOf(c, server[p]) \in Files
           /\ Change(c, With(WithParents(local[c], p), p, CopyOf(c, server[p])))
           /\ UNCHANGED <<alive, pc, answer, job>>
  <2> DEFINE u == WithParents(local[c], p)
             x == CopyOf(c, server[p])
             t == With(u, p, x)
  <2>1. p \notin DOMAIN u
    <3>1. DOMAIN u = DOMAIN local[c] \cup Parents(p)
      BY <1>3, InvGives, WithParentsIs
    <3> QED BY <1>3, <3>1, ParentsOf
  <2>2. /\ IsTree(u) /\ HasParent(u, p)
        /\ \A top \in Names : top # p[1] => Same(u, local[c], top)
    BY <1>3, <1>4, ParentsMade
  <2>3. x \in Files /\ local' = [local EXCEPT ![c] = t] /\ UNCHANGED <<pc, answer, job>>
    BY <1>4 DEF Change
  <2> HIDE DEF u, x
  <2>4. IsTree(t)
    BY <1>3, <2>1, <2>2, <2>3, WithIsTree
  <2>5. ASSUME NEW top \in Names \ apart[c] PROVE Same(t, local[c], top)
    <3>1. top # p[1] /\ Same(u, local[c], top)
      BY <1>3, <2>2
    <3>2. Same(t, u, top)
      BY <1>3, <3>1, WithElsewhere
    <3> QED BY <3>1, <3>2, SameTrans
  <2> HIDE DEF t
  <2> QED BY <1>1, <2>3, <2>4, <2>5, OwnChange
<1>5. CASE Terminate(c) /\ job' = [job EXCEPT ![c] = NoJob] /\ local' = local
  <2> DEFINE t == local[c]
  <2>1. IsTree(t) /\ local' = [local EXCEPT ![c] = t]
    <3>1. IsTree(local[c]) /\ local = [d \in Clients |-> local[d]]
      BY InvGives
    <3> QED BY <1>5, <3>1
  <2>2. \A top \in Names \ apart[c] : Same(t, local[c], top)
    BY SameSelf
  <2> HIDE DEF t
  <2> QED BY <1>1, <1>5, <2>1, <2>2, OwnChange
<1> QED BY <1>2, <1>4, <1>5

LEMMA FetchFailsKeeps ==
    ASSUME IInv, NEW c \in Clients, FetchFails(c)
    PROVE  IInv'
<1>1. pc[c] = "idle" /\ UNCHANGED <<server, before, apart>>
  BY DEF FetchFails
<1>2. PICK p \in Fetchable(c) :
         \/ MakesParents(c, p) /\ UNCHANGED <<alive, pc, answer, job>>
         \/ /\ \E q \in Parents(p) : MakesParents(c, q)
            /\ Terminate(c)
            /\ job' = [job EXCEPT ![c] = NoJob]
  BY DEF FetchFails
<1>3. p \in Paths /\ p[1] \in apart[c]
  BY <1>1, FetchableApart
<1>4. PICK q \in {p} \cup Parents(p) : MakesParents(c, q)
  BY <1>2
<1>5. q \in Paths /\ q[1] = p[1]
  BY <1>3, ParentsOf
<1>6. \/ UNCHANGED <<pc, answer, job>>
      \/ Terminate(c) /\ job' = [job EXCEPT ![c] = NoJob]
  BY <1>2
<1> DEFINE t == WithParents(local[c], q)
<1>7. /\ IsTree(t) /\ local' = [local EXCEPT ![c] = t]
      /\ \A top \in Names \ apart[c] : Same(t, local[c], top)
  BY <1>3, <1>4, <1>5, ParentsMade DEF MakesParents, Change
<1> HIDE DEF t
<1> QED BY <1>1, <1>6, <1>7, OwnChange

(* A new file on the server is unseen by all, the one who sends it too.    *)
LEMMA PutsKeeps ==
    ASSUME IInv, NEW p \in Paths, Puts(p),
           UNCHANGED <<local, pc, job, answer, before>>
    PROVE  IInv'
<1>1. p[1] \in Names
  BY PathIs
<1>2. IsTree(server')
  BY InvGives, PutIsTree DEF Puts
<1>3. /\ apart' \in [Clients -> SUBSET Names]
      /\ \A d \in Clients : apart'[d] = apart[d] \cup {p[1]}
  BY <1>1, InvGives DEF Puts
<1>4. Types'
  BY <1>2, <1>3, InvGives, ServerTypes
<1>5. \A top \in Names : top # p[1] => Same(server', server, top)
  BY WithElsewhere DEF Puts
<1>6. \A d \in Clients : Unseen(d)
  BY <1>3, <1>5 DEF Unseen
<1>7. \A d \in Clients : Holds(d)'
  BY <1>2, <1>6, Bystander
<1> QED BY <1>4, <1>7 DEF IInv

LEMMA OpenCreatesKeeps ==
    ASSUME IInv, NEW c \in Clients, OpenCreates(c)
    PROVE  IInv'
<1>1. PICK p \in OwnFiles(c) : Puts(p)
  BY DEF OpenCreates
<1>2. p \in Paths
  BY InvGives DEF OwnFiles, IsTree
<1> QED BY <1>1, <1>2, PutsKeeps DEF OpenCreates

LEMMA WritebackKeeps ==
    ASSUME IInv, NEW c \in Clients, Writeback(c)
    PROVE  IInv'
<1>1. PICK p \in OwnFiles(c) : Puts(p)
  BY DEF Writeback
<1>2. p \in Paths
  BY InvGives DEF OwnFiles, IsTree
<1> QED BY <1>1, <1>2, PutsKeeps DEF Writeback

LEMMA IInvSame ==
    ASSUME IInv, UNCHANGED <<server, local, pc, job, answer, before, apart>>
    PROVE  IInv'
BY DEF IInv, Types, TypeOK, Holds, Agrees, Alike, Behind, Begun, Refused

LEMMA IInvInit ==
    ASSUME Init
    PROVE  IInv
<1>1. /\ server = <<>>
      /\ local = [c \in Clients |-> <<>>]
      /\ pc = [c \in Clients |-> "idle"]
      /\ job = [c \in Clients |-> NoJob]
      /\ answer = [c \in Clients |-> "ok"]
      /\ before = [c \in Clients |-> <<>>]
      /\ apart = [c \in Clients |-> {}]
  BY DEF Init
<1>2. IsTree(<<>>)
  <2>1. DOMAIN <<>> = {}
    OBVIOUS
  <2> QED BY <2>1 DEF IsTree
<1>3. Types
  BY <1>1, <1>2 DEF Types, TypeOK
<1>4. ASSUME NEW c \in Clients PROVE Holds(c)
  BY <1>1, SameSelf DEF Holds, Agrees, Alike, Behind, Begun, Refused
<1> QED BY <1>3, <1>4 DEF IInv

LEMMA IInvNext ==
    ASSUME IInv, [Next]_vars
    PROVE  IInv'
<1>1. CASE UNCHANGED vars
  BY <1>1, IInvSame DEF vars
<1>2. ASSUME NEW c \in Clients,
             \/ Call(c) \/ Mount(c)
             \/ ServerStep(c) \/ ServerRefuses(c) \/ RpcFails(c)
             \/ LocalStep(c) \/ LocalFails(c)
             \/ Fetch(c) \/ FetchFails(c) \/ OpenCreates(c) \/ Writeback(c)
      PROVE  IInv'
  <2>1. CASE Call(c)
    BY <2>1, CallKeeps
  <2>2. CASE Fetch(c)
    BY <2>2, FetchKeeps
  <2>3. CASE Mount(c)
    BY <2>3, IInvSame DEF Mount
  <2>4. CASE ServerStep(c)
    BY <2>4, ServerStepKeeps
  <2>5. CASE ServerRefuses(c)
    BY <2>5, ServerRefusesKeeps
  <2>6. CASE RpcFails(c)
    BY <2>6, RpcFailsKeeps
  <2>7. CASE LocalMkdir(c) \/ LocalRmdir(c) \/ LocalLink(c) \/ LocalSymlink(c)
    BY <2>7, LocalCallKeeps DEF LocalMkdir, LocalRmdir, LocalLink, LocalSymlink
  <2>8. CASE LocalUnlink(c)
    BY <2>8, LocalUnlinkTakes
  <2>9. CASE LocalRename(c)
    BY <2>9, LocalRenameKeeps
  <2>10. CASE LocalCreate(c)
    BY <2>10, LocalCreateMakes
  <2>11. CASE LocalFails(c)
    BY <2>11, LocalFailsKeeps
  <2>12. CASE FetchFails(c)
    BY <2>12, FetchFailsKeeps
  <2>13. CASE OpenCreates(c)
    BY <2>13, OpenCreatesKeeps
  <2>14. CASE Writeback(c)
    BY <2>14, WritebackKeeps
  <2> QED BY <1>2, <2>1, <2>2, <2>3, <2>4, <2>5, <2>6, <2>7, <2>8, <2>9, <2>10,
             <2>11, <2>12, <2>13, <2>14 DEF LocalStep
<1> QED BY <1>1, <1>2 DEF Next

-----------------------------------------------------------------------------
(* Theorems. *)

(* The inductive invariant holds in every state. *)
THEOREM Invariant == Spec => []IInv
<1>1. Init => IInv
  BY IInvInit
<1>2. IInv /\ [Next]_vars => IInv'
  BY IInvNext
<1> QED BY <1>1, <1>2, PTL DEF Spec

(* The trees of the server and of every client stay trees: nothing is ever *)
(* below a file or below a name that is not there, whatever is removed,    *)
(* moved, linked or fetched, and wherever a call is cut off.               *)
THEOREM TypeCorrect == Spec => []TypeOK
<1>1. IInv => TypeOK
  BY DEF IInv, Types
<1> QED BY <1>1, Invariant, PTL

(* A client's own tree is the server's between its calls, but for the top  *)
(* directories in which another client changed a name, an RPC failed       *)
(* half-way, the second step of the client's own call failed, or a file    *)
(* sent back took a name off its links or brought it back.                 *)
THEOREM TreesAgree == Spec => []OwnTreeAgrees
<1>1. ASSUME IInv PROVE OwnTreeAgrees
  <2>1. SUFFICES ASSUME NEW c \in Clients, NEW top \in Names \ apart[c], pc[c] = "idle"
                 PROVE  In(server, top) = In(local[c], top)
    BY DEF OwnTreeAgrees
  <2>2. Same(server, local[c], top)
    BY <1>1, <2>1 DEF IInv, Holds, Agrees, Alike
  <2>3. DOMAIN server \subseteq Paths /\ DOMAIN local[c] \subseteq Paths
    BY <1>1, InvGives DEF IsTree
  <2> QED BY <2>2, <2>3, InSame
<1> QED BY <1>1, Invariant, PTL

(* Outside those, a call that fails has changed nothing on the server      *)
(* (nor, by TreesAgree, in the client's tree), and the client has not died *)
(* of it: the second step never fails for the shape of the client's tree.  *)
THEOREM ErrorsKeepAll == Spec => []ErrorsChangeNothing
<1>1. ASSUME IInv PROVE ErrorsChangeNothing
  BY <1>1 DEF IInv, Holds, Refused, ErrorsChangeNothing
<1> QED BY <1>1, Invariant, PTL

=============================================================================
