--------------------------- MODULE ErrInjectProofs ---------------------------
(***************************************************************************)
(* The properties of ErrInject, for any number of threads and calls, and   *)
(* for configuration files of any length.                                  *)
(***************************************************************************)
EXTENDS ErrInject, FiniteSetTheorems, SequenceTheorems, WellFoundedInduction, TLAPS

FileTexts == Files \cup Saved \cup {<<>>, NoFile}

InForce == errors \in {Null, WantedOf[file]}

EditOps == {"open", "write", "flush", "release"}
CallOps == Ops \cup EditOps \cup {"none", "getattr", "unlink", "truncate"}

(* The shape of the variables that TypeOK leaves open. *)
Shape ==
    /\ file \in FileTexts
    /\ moved \in BOOLEAN
    /\ call \in [Threads -> [op : CallOps, path : {Conf, Data}]]
    /\ list = [t \in Threads |-> list[t]]
    /\ rc = [t \in Threads |-> rc[t]]
    /\ steady \in [Threads -> BOOLEAN]

(* The handler that works on behalf of the one editor of the file. *)
Edits(t) == pc[t] # "idle" /\ call[t].path = Conf /\ call[t].op \in EditOps

OneEditor ==
    /\ \A t \in Threads : Edits(t) => editing = "busy"
    /\ \A t, u \in Threads : Edits(t) /\ Edits(u) => t = u

(* The flush or release of the editor has read the file on its way in. *)
SavedIsRead ==
    /\ SavedTakesEffect
    /\ \A t \in Threads :
          Edits(t) /\ call[t].op \in {"flush", "release"} /\ pc[t] \in {"unlock", "injected"}
            /\ ~moved => InForce

(* The entries of q that have a say in call c, and those that may not use it. *)
Says(c, q, i) == Hits(q[i], c) /\ Sets(q[i], c.op) # {}
Silent(c, q, i) == Says(c, q, i) => q[i].probability < 100

(* x is possible after the first n entries of q. *)
MayReturn(c, q, n, x) ==
    \/ x = 0 /\ \A i \in 1..n : Silent(c, q, i)
    \/ \E j \in 1..n : /\ Says(c, q, j)
                       /\ x \in Sets(q[j], c.op)
                       /\ \A k \in (j + 1)..n : Silent(c, q, k)

(* A walk goes through the list that was in force at the call. *)
Walk(t) ==
    /\ pc[t] = "walk" => call[t].path = Data
    /\ pc[t] = "called" => rc[t] = 0
    /\ steady[t] =>
         /\ pc[t] = "called" => InForce
         /\ pc[t] = "walk" =>
              /\ list[t] = WantedOf[file]
              /\ at[t] \in 1..(Len(list[t]) + 1)
              /\ MayReturn(call[t], list[t], at[t] - 1, rc[t])
         /\ pc[t] \in {"unlock", "injected"} /\ call[t].path = Data /\ list[t] # Null =>
              /\ list[t] = WantedOf[file]
              /\ MayReturn(call[t], list[t], Len(list[t]), rc[t])

Walks == \A t \in Threads : Walk(t)

EInv == TypeOK /\ Shape /\ OneEditor /\ SavedIsRead /\ Walks /\ WalksLiveList

-----------------------------------------------------------------------------
(* Induction over data, with a set where the library has an operator. *)

LEMMA LeastOf ==
    ASSUME NEW T \in SUBSET Nat, T # {}
    PROVE  \E x \in T : \A y \in T : x <= y
<1> DEFINE R == {ss \in Nat \X Nat : ss[1] < ss[2]}
<1>1. IsWellFoundedOn(R, Nat)
  BY NatLessThanWellFounded DEF OpToRel
<1>2. \A x, y \in Nat : <<x, y>> \in R <=> x < y
  OBVIOUS
<1> HIDE DEF R
<1>3. \E x \in T : \A y \in T : ~ (<<y, x>> \in R)
  BY <1>1, WFMin
<1>4. \A x, y \in T : ~ (<<y, x>> \in R) => x <= y
  BY <1>2
<1> QED BY <1>3, <1>4

LEMMA SetInduction ==
    ASSUME NEW S, 0 \in S, \A n \in Nat : n \in S => n + 1 \in S
    PROVE  Nat \subseteq S
<1> SUFFICES ASSUME ~ (Nat \subseteq S) PROVE FALSE
  OBVIOUS
<1> DEFINE T == {n \in Nat : n \notin S}
<1>1. PICK x \in T : \A y \in T : x <= y
  <2>1. T \in SUBSET Nat /\ T # {}
    OBVIOUS
  <2> HIDE DEF T
  <2> QED BY <2>1, LeastOf
<1>2. x # 0 /\ x \in Nat /\ x - 1 \in Nat
  BY <1>1
<1>3. x - 1 \in S
  BY <1>1, <1>2
<1> QED BY <1>1, <1>2, <1>3

LEMMA GreatestOf ==
    ASSUME NEW n \in Nat, NEW T \in SUBSET (1..n), T # {}
    PROVE  \E x \in T : \A y \in T : y <= x
<1> DEFINE U == {n - x : x \in T}
<1>1. U \in SUBSET Nat /\ U # {}
  <2>1. \A x \in T : n - x \in Nat
    OBVIOUS
  <2>2. PICK x \in T : TRUE
    OBVIOUS
  <2> QED BY <2>1, <2>2
<1>2. PICK u \in U : \A v \in U : u <= v
  <2> HIDE DEF U
  <2> QED BY <1>1, LeastOf
<1>3. PICK x \in T : u = n - x
  OBVIOUS
<1>4. \A y \in T : n - x <= n - y
  BY <1>2, <1>3
<1> QED BY <1>4

-----------------------------------------------------------------------------

LEMMA MaxOfUpTo ==
    ASSUME NEW n \in Nat, NEW s \in SUBSET (1..(n + 1)), n + 1 \in s
    PROVE  Max(s) = n + 1
<1>1. \A y \in s : n + 1 >= y
  OBVIOUS
<1>2. \E x \in s : \A y \in s : x >= y
  BY <1>1
<1>3. Max(s) \in s /\ \A y \in s : Max(s) >= y
  BY <1>2 DEF Max
<1>4. Max(s) >= n + 1 /\ Max(s) \in 1..(n + 1)
  BY <1>3
<1> QED BY <1>4

-----------------------------------------------------------------------------
(* The parser: what it has after the first n lines of a file. *)

Start == [section |-> None, prev |-> None, q |-> <<>>]

(* The function that FoldLeft defines over the sets of places. *)
ParseIter(f, g, S) ==
    g = [s \in SUBSET S |-> IF s = {} THEN Start ELSE ParseLine(g[s \ {Max(s)}], f[Max(s)])]

LEMMA ParseDef ==
    ASSUME NEW f
    PROVE  ini_parse(f) = ((CHOOSE g : ParseIter(f, g, DOMAIN f))[DOMAIN f]).q
BY Zenon DEF ini_parse, FoldLeft, MapThenFoldSet, ParseIter, Start

LEMMA ParseIterExists ==
    ASSUME NEW f, NEW n \in Nat
    PROVE  \E g : ParseIter(f, g, 1..n)
<1> DEFINE N == {k \in Nat : \E g : ParseIter(f, g, 1..k)}
<1>1. 0 \in N
  <2> DEFINE g == [s \in SUBSET (1..0) |-> Start]
  <2>1. \A s \in SUBSET (1..0) : s = {}
    OBVIOUS
  <2>2. g = [s \in SUBSET (1..0) |-> IF s = {} THEN Start ELSE ParseLine(g[s \ {Max(s)}], f[Max(s)])]
    BY <2>1
  <2> HIDE DEF g
  <2>3. ParseIter(f, g, 1..0)
    BY <2>2 DEF ParseIter
  <2> QED BY <2>3
<1>2. ASSUME NEW k \in Nat, k \in N PROVE k + 1 \in N
  <2>1. PICK g : ParseIter(f, g, 1..k)
    BY <1>2
  <2> DEFINE h == [s \in SUBSET (1..(k + 1)) |->
                      IF k + 1 \in s THEN ParseLine(g[s \ {k + 1}], f[k + 1]) ELSE g[s]]
  <2>2. \A s \in SUBSET (1..(k + 1)) : k + 1 \notin s => s \in SUBSET (1..k)
    OBVIOUS
  <2>3. ASSUME NEW s \in SUBSET (1..(k + 1))
        PROVE  h[s] = IF s = {} THEN Start ELSE ParseLine(h[s \ {Max(s)}], f[Max(s)])
    <3>1. CASE s = {}
      <4>1. g[s] = Start
        BY <2>1, <3>1 DEF ParseIter
      <4> QED BY <3>1, <4>1
    <3>2. CASE k + 1 \in s
      <4>1. Max(s) = k + 1
        BY <3>2, MaxOfUpTo
      <4>2. s \ {k + 1} \in SUBSET (1..(k + 1)) /\ k + 1 \notin s \ {k + 1} /\ s # {}
        BY <3>2
      <4>3. h[s \ {k + 1}] = g[s \ {k + 1}]
        BY <4>2
      <4> QED BY <3>2, <4>1, <4>2, <4>3
    <3>3. CASE k + 1 \notin s /\ s # {}
      <4>1. s \in SUBSET (1..k) /\ s \ {Max(s)} \in SUBSET (1..k)
        BY <2>2, <3>3
      <4>2. g[s] = ParseLine(g[s \ {Max(s)}], f[Max(s)])
        BY <2>1, <3>3, <4>1 DEF ParseIter
      <4>3. s \ {Max(s)} \in SUBSET (1..(k + 1)) /\ k + 1 \notin s \ {Max(s)}
        BY <3>3
      <4>4. h[s] = g[s] /\ h[s \ {Max(s)}] = g[s \ {Max(s)}]
        BY <3>3, <4>3
      <4> QED BY <3>3, <4>2, <4>4
    <3> QED BY <3>1, <3>2, <3>3
  <2>4. h = [s \in SUBSET (1..(k + 1)) |-> h[s]]
    OBVIOUS
  <2> HIDE DEF h
  <2>5. ParseIter(f, h, 1..(k + 1))
    BY <2>3, <2>4 DEF ParseIter
  <2> QED BY <2>5
<1> HIDE DEF N
<1>3. Nat \subseteq N
  BY <1>1, <1>2, SetInduction
<1> QED BY <1>3 DEF N

(* The lines of the file are taken one after the other. *)
IsParse(f, t) ==
    /\ t[0] = Start
    /\ \A i \in 1..Len(f) : t[i] = ParseLine(t[i - 1], f[i])

LEMMA ParsesInOrder ==
    ASSUME NEW S, NEW f \in Seq(S)
    PROVE  \E t : IsParse(f, t) /\ t[Len(f)].q = ini_parse(f)
<1>1. Len(f) \in Nat /\ DOMAIN f = 1..Len(f)
  BY LenProperties
<1> DEFINE g == CHOOSE g : ParseIter(f, g, DOMAIN f)
           t == [i \in 0..Len(f) |-> g[1..i]]
<1>2. ini_parse(f) = g[DOMAIN f].q
  BY ParseDef
<1>3. ParseIter(f, g, DOMAIN f)
  BY <1>1, ParseIterExists
<1> HIDE DEF g
<1>4. t[0] = Start
  <2>1. 1..0 = {}
    OBVIOUS
  <2>2. g[{}] = Start
    BY <1>3 DEF ParseIter
  <2> QED BY <1>1, <2>1, <2>2
<1>5. ASSUME NEW i \in 1..Len(f) PROVE t[i] = ParseLine(t[i - 1], f[i])
  <2>1. i - 1 \in Nat /\ (i - 1) + 1 = i /\ i \in 1..i /\ 1..i \in SUBSET (1..Len(f)) /\ 1..i # {}
    <3>1. i \in Nat /\ 1 <= i /\ i <= Len(f)
      BY <1>1
    <3>2. \A k \in 1..i : k \in 1..Len(f)
      BY <1>1, <3>1
    <3> QED BY <3>1, <3>2
  <2>2. Max(1..i) = i
    BY <2>1, MaxOfUpTo
  <2>3. (1..i) \ {i} = 1..(i - 1)
    BY <2>1
  <2>4. g[1..i] = ParseLine(g[(1..i) \ {Max(1..i)}], f[Max(1..i)])
    BY <1>1, <1>3, <2>1 DEF ParseIter
  <2>5. g[1..i] = ParseLine(g[1..(i - 1)], f[i])
    BY <2>2, <2>3, <2>4
  <2> QED BY <1>1, <2>1, <2>5
<1>6. t[Len(f)].q = ini_parse(f)
  BY <1>1, <1>2
<1> HIDE DEF t
<1> QED BY <1>4, <1>5, <1>6 DEF IsParse


-----------------------------------------------------------------------------
(* The lines of a file. *)

(* A line after the first n may continue an option. *)
Open(f, n) ==
    \E j \in 1..n : /\ f[j].kind = "option" /\ f[j].name # None
                    /\ \A k \in (j + 1)..n : ~Closes(f[k])

TakesOption(f, i) == f[i].kind = "option" /\ ~Continues(f, i)

LEMMA LineIs ==
    ASSUME NEW f \in Seq(Lines), NEW i \in 1..Len(f)
    PROVE  /\ Len(f) \in Nat /\ i \in Nat /\ 1 <= i /\ i <= Len(f)
           /\ f[i].indent \in BOOLEAN
BY LinesAssumption, LenProperties

LEMMA ContinuesIs ==
    ASSUME NEW f, NEW i
    PROVE  Continues(f, i) <=> f[i].indent /\ f[i].kind # "comment" /\ Open(f, i - 1)
BY DEF Continues, Open

LEMMA OpenNext ==
    ASSUME NEW f \in Seq(Lines), NEW n \in Nat, n + 1 \in 1..Len(f)
    PROVE  Open(f, n + 1) <=> \/ f[n + 1].kind = "option" /\ f[n + 1].name # None
                              \/ Open(f, n) /\ ~Closes(f[n + 1])
<1>1. ASSUME NEW j \in 1..(n + 1), f[j].kind = "option" /\ f[j].name # None,
             \A k \in (j + 1)..(n + 1) : ~Closes(f[k])
      PROVE  \/ f[n + 1].kind = "option" /\ f[n + 1].name # None
             \/ Open(f, n) /\ ~Closes(f[n + 1])
  <2>1. CASE j = n + 1
    BY <1>1, <2>1
  <2>2. CASE j # n + 1
    <3>1. j \in 1..n /\ n + 1 \in (j + 1)..(n + 1) /\ \A k \in (j + 1)..n : k \in (j + 1)..(n + 1)
      BY <2>2
    <3> QED BY <1>1, <3>1 DEF Open
  <2> QED BY <2>1, <2>2
<1>2. ASSUME f[n + 1].kind = "option" /\ f[n + 1].name # None PROVE Open(f, n + 1)
  <2>1. n + 1 \in 1..(n + 1) /\ ((n + 1) + 1)..(n + 1) = {}
    OBVIOUS
  <2> QED BY <1>2, <2>1 DEF Open
<1>3. ASSUME Open(f, n), ~Closes(f[n + 1]) PROVE Open(f, n + 1)
  <2>1. PICK j \in 1..n : /\ f[j].kind = "option" /\ f[j].name # None
                          /\ \A k \in (j + 1)..n : ~Closes(f[k])
    BY <1>3 DEF Open
  <2>2. j \in 1..(n + 1) /\ \A k \in (j + 1)..(n + 1) : k \in (j + 1)..n \/ k = n + 1
    OBVIOUS
  <2> QED BY <1>3, <2>1, <2>2 DEF Open
<1> QED BY <1>1, <1>2, <1>3 DEF Open

LEMMA SectionLineIs ==
    ASSUME NEW f, NEW n \in Nat, NEW j \in 0..n, j = 0 \/ OpensSection(f, j),
           \A k \in (j + 1)..n : ~OpensSection(f, k)
    PROVE  SectionLine(f, n) = j
<1> DEFINE P(x) == /\ x = 0 \/ OpensSection(f, x)
                   /\ \A k \in (x + 1)..n : ~OpensSection(f, k)
<1>1. P(j)
  OBVIOUS
<1>2. \A x \in 0..n : P(x) => x = j
  <2>1. SUFFICES ASSUME NEW x \in 0..n, P(x), x # j PROVE FALSE
    OBVIOUS
  <2>2. CASE x < j
    <3>1. j \in (x + 1)..n /\ j # 0
      BY <2>2
    <3> QED BY <2>1, <3>1
  <2>3. CASE j < x
    <3>1. x \in (j + 1)..n /\ x # 0
      BY <2>3
    <3> QED BY <2>1, <3>1
  <2> QED BY <2>1, <2>2, <2>3
<1>3. SectionLine(f, n) = CHOOSE x \in 0..n : P(x)
  BY DEF SectionLine
<1> HIDE DEF P
<1> QED BY <1>1, <1>2, <1>3

LEMMA SectionLineNext ==
    ASSUME NEW f \in Seq(Lines), NEW n \in Nat
    PROVE  /\ SectionLine(f, n) \in 0..n
           /\ SectionLine(f, 0) = 0
           /\ SectionLine(f, n + 1) = IF OpensSection(f, n + 1) THEN n + 1 ELSE SectionLine(f, n)
<1>1. SectionLine(f, 0) = 0
  BY SectionLineIs
<1> DEFINE T == {i \in 1..n : OpensSection(f, i)}
<1>2. \E j \in 0..n : (j = 0 \/ OpensSection(f, j)) /\ \A k \in (j + 1)..n : ~OpensSection(f, k)
  <2>1. CASE T = {}
    <3>1. \A k \in (0 + 1)..n : ~OpensSection(f, k)
      BY <2>1
    <3> QED BY <3>1
  <2>2. CASE T # {}
    <3>1. T \in SUBSET (1..n)
      OBVIOUS
    <3>2. PICK j \in T : \A y \in T : y <= j
      <4> HIDE DEF T
      <4> QED BY <2>2, <3>1, GreatestOf
    <3>3. j \in 0..n /\ OpensSection(f, j)
      BY <3>1
    <3>4. \A k \in (j + 1)..n : k \in 1..n /\ ~(k <= j)
      BY <3>3
    <3> QED BY <3>2, <3>3, <3>4
  <2> QED BY <2>1, <2>2
<1>3. PICK j \in 0..n : (j = 0 \/ OpensSection(f, j)) /\ \A k \in (j + 1)..n : ~OpensSection(f, k)
  BY <1>2
<1>4. SectionLine(f, n) = j
  BY <1>3, SectionLineIs
<1>5. CASE OpensSection(f, n + 1)
  <2>1. n + 1 \in 0..(n + 1) /\ n + 1 \in Nat /\ ((n + 1) + 1)..(n + 1) = {}
    OBVIOUS
  <2>2. SectionLine(f, n + 1) = n + 1
    BY <1>5, <2>1, SectionLineIs
  <2> QED BY <1>1, <1>4, <1>5, <2>2
<1>6. CASE ~OpensSection(f, n + 1)
  <2>1. n + 1 \in Nat /\ j \in 0..(n + 1) /\ \A k \in (j + 1)..(n + 1) : k \in (j + 1)..n \/ k = n + 1
    OBVIOUS
  <2>2. SectionLine(f, n + 1) = j
    BY <1>3, <1>6, <2>1, SectionLineIs
  <2> QED BY <1>1, <1>4, <1>6, <2>2
<1> QED BY <1>5, <1>6

(* The last option line that is no continuation. *)
LastOption(f, n, j) ==
    j \in 1..n /\ TakesOption(f, j) /\ \A k \in (j + 1)..n : ~TakesOption(f, k)

LEMMA OptionLineIs ==
    ASSUME NEW f, NEW n \in Nat, NEW j, LastOption(f, n, j)
    PROVE  OptionLine(f, n) = j
<1> DEFINE P(x) == /\ f[x].kind = "option" /\ ~Continues(f, x)
                   /\ \A k \in (x + 1)..n : f[k].kind = "option" => Continues(f, k)
<1>1. j \in 1..n /\ P(j)
  BY DEF LastOption, TakesOption
<1>2. \A x \in 1..n : P(x) => x = j
  <2>1. SUFFICES ASSUME NEW x \in 1..n, P(x), x # j PROVE FALSE
    OBVIOUS
  <2>2. CASE x < j
    <3>1. j \in (x + 1)..n
      BY <1>1, <2>2
    <3> QED BY <1>1, <2>1, <3>1
  <2>3. CASE ~(x < j)
    <3>1. x \in (j + 1)..n
      BY <1>1, <2>1, <2>3
    <3> QED BY <1>1, <2>1, <3>1
  <2> QED BY <2>2, <2>3
<1>3. OptionLine(f, n) = CHOOSE x \in 1..n : P(x)
  BY DEF OptionLine
<1> HIDE DEF P
<1> QED BY <1>1, <1>2, <1>3

LEMMA LastOptionNext ==
    ASSUME NEW f, NEW n \in Nat
    PROVE  /\ TakesOption(f, n + 1) => LastOption(f, n + 1, n + 1)
           /\ \A j : ~TakesOption(f, n + 1) /\ LastOption(f, n, j) => LastOption(f, n + 1, j)
<1>1. n + 1 \in 1..(n + 1) /\ ((n + 1) + 1)..(n + 1) = {}
  OBVIOUS
<1>2. ASSUME NEW j \in 1..n PROVE j \in 1..(n + 1) /\ \A k \in (j + 1)..(n + 1) : k \in (j + 1)..n \/ k = n + 1
  OBVIOUS
<1> QED BY <1>1, <1>2 DEF LastOption

-----------------------------------------------------------------------------
(* What the first n lines ask for. *)

LinesOf(f, type, n) == {i \in ValueLines(f, type) : i <= n}

KeyLines(f, n, type, key) == {i \in LinesOf(f, type, n) : f[OptionLine(f, i)].name = key}

ValueAt(f, i) == IF Continues(f, i) THEN "text" ELSE f[i].value

SettingAt(f, n, type, key) ==
    IF KeyLines(f, n, type, key) = {} THEN None ELSE ValueAt(f, Max(KeyLines(f, n, type, key)))

EntryAt(f, n, type) ==
    [type |-> type,
     path_regexp |-> SettingAt(f, n, type, "path_regexp"),
     op_regexp |-> SettingAt(f, n, type, "op_regexp"),
     probability |-> atoi(SettingAt(f, n, type, "probability"))]

FirstLine(f, type) == Min(ValueLines(f, type))

(* The section that a line is in. *)
SectionAt(f, n) == IF SectionLine(f, n) = 0 THEN None ELSE f[SectionLine(f, n)].name

GivesValue(f, i) == f[i].kind = "option" \/ Continues(f, i)

LEMMA ValueLinesAre ==
    ASSUME NEW f \in Seq(Lines), NEW type \in Types
    PROVE  /\ ValueLines(f, type) \subseteq 1..Len(f)
           /\ \A i \in 1..Len(f) : i \in ValueLines(f, type) <=> GivesValue(f, i) /\ SectionAt(f, i) = type
<1>1. DOMAIN f = 1..Len(f)
  BY LenProperties
<1>2. type # None
  BY LinesAssumption
<1> QED BY <1>1, <1>2 DEF ValueLines, GivesValue, SectionAt

LEMMA LinesOfNext ==
    ASSUME NEW f \in Seq(Lines), NEW n \in Nat, n + 1 \in 1..Len(f), NEW type \in Types
    PROVE  /\ LinesOf(f, type, n) \subseteq 1..n
           /\ n + 1 \in ValueLines(f, type) => LinesOf(f, type, n + 1) = LinesOf(f, type, n) \cup {n + 1}
           /\ n + 1 \notin ValueLines(f, type) => LinesOf(f, type, n + 1) = LinesOf(f, type, n)
<1>1. Len(f) \in Nat /\ ValueLines(f, type) \subseteq 1..Len(f)
  BY ValueLinesAre, LenProperties
<1>2. \A i \in 1..Len(f) : i <= n + 1 <=> (i <= n \/ i = n + 1)
  BY <1>1
<1> QED BY <1>1, <1>2 DEF LinesOf

LEMMA SettingNext ==
    ASSUME NEW f \in Seq(Lines), NEW n \in Nat, n + 1 \in 1..Len(f), NEW type \in Types, NEW key
    PROVE  SettingAt(f, n + 1, type, key) =
               IF n + 1 \in ValueLines(f, type) /\ f[OptionLine(f, n + 1)].name = key
               THEN ValueAt(f, n + 1) ELSE SettingAt(f, n, type, key)
<1>1. CASE n + 1 \in ValueLines(f, type) /\ f[OptionLine(f, n + 1)].name = key
  <2> DEFINE K == KeyLines(f, n + 1, type, key)
  <2>1. K = KeyLines(f, n, type, key) \cup {n + 1}
    BY <1>1, LinesOfNext DEF KeyLines
  <2>2. K \in SUBSET (1..(n + 1)) /\ n + 1 \in K
    <3>1. KeyLines(f, n, type, key) \subseteq 1..n
      BY LinesOfNext DEF KeyLines
    <3> QED BY <2>1, <3>1
  <2> HIDE DEF K
  <2>3. Max(K) = n + 1
    BY <2>2, MaxOfUpTo
  <2>4. SettingAt(f, n + 1, type, key) = IF K = {} THEN None ELSE ValueAt(f, Max(K))
    BY DEF SettingAt, K
  <2> QED BY <1>1, <2>2, <2>3, <2>4
<1>2. CASE ~(n + 1 \in ValueLines(f, type) /\ f[OptionLine(f, n + 1)].name = key)
  <2>1. KeyLines(f, n + 1, type, key) = KeyLines(f, n, type, key)
    BY <1>2, LinesOfNext DEF KeyLines
  <2> QED BY <1>2, <2>1 DEF SettingAt
<1> QED BY <1>1, <1>2

LEMMA EntryOther ==
    ASSUME NEW f \in Seq(Lines), NEW n \in Nat, n + 1 \in 1..Len(f), NEW type \in Types,
           n + 1 \notin ValueLines(f, type)
    PROVE  EntryAt(f, n + 1, type) = EntryAt(f, n, type)
BY SettingNext DEF EntryAt

LEMMA EntryNone ==
    ASSUME NEW f, NEW n, NEW type, LinesOf(f, type, n) = {}
    PROVE  EntryAt(f, n, type) = Entry(type)
<1>1. \A key : SettingAt(f, n, type, key) = None
  BY DEF SettingAt, KeyLines
<1>2. atoi(None) = 0
  <2>1. None # "100" /\ None # "50"
    BY LinesAssumption
  <2> QED BY <2>1, Zenon DEF atoi
<1> QED BY <1>1, <1>2 DEF EntryAt, Entry

(* The handler's way to set one key of an entry. *)
LEMMA SetKeyIs ==
    ASSUME NEW e, NEW key, NEW value
    PROVE  /\ key = "path_regexp" => SetKey(e, key, value) = [e EXCEPT !.path_regexp = value]
           /\ key = "op_regexp" => SetKey(e, key, value) = [e EXCEPT !.op_regexp = value]
           /\ key = "probability" => SetKey(e, key, value) = [e EXCEPT !.probability = atoi(value)]
           /\ key \notin {"path_regexp", "op_regexp", "probability"} => SetKey(e, key, value) = e
<1>1. ASSUME key = "path_regexp" PROVE SetKey(e, key, value) = [e EXCEPT !.path_regexp = value]
  BY <1>1, Zenon DEF SetKey
<1>2. ASSUME key = "op_regexp" PROVE SetKey(e, key, value) = [e EXCEPT !.op_regexp = value]
  BY <1>2, Zenon DEF SetKey
<1>3. ASSUME key = "probability" PROVE SetKey(e, key, value) = [e EXCEPT !.probability = atoi(value)]
  BY <1>3, Zenon DEF SetKey
<1>4. ASSUME key \notin {"path_regexp", "op_regexp", "probability"} PROVE SetKey(e, key, value) = e
  <2>1. key # "path_regexp" /\ key # "op_regexp" /\ key # "probability"
    BY <1>4
  <2> QED BY <2>1, Zenon DEF SetKey
<1> QED BY <1>1, <1>2, <1>3, <1>4

LEMMA EntrySet ==
    ASSUME NEW f \in Seq(Lines), NEW n \in Nat, n + 1 \in 1..Len(f), NEW type \in Types,
           n + 1 \in ValueLines(f, type)
    PROVE  EntryAt(f, n + 1, type) =
               SetKey(EntryAt(f, n, type), f[OptionLine(f, n + 1)].name, ValueAt(f, n + 1))
<1> DEFINE key == f[OptionLine(f, n + 1)].name
           value == ValueAt(f, n + 1)
           e == EntryAt(f, n, type)
           d == EntryAt(f, n + 1, type)
           P == SettingAt(f, n, type, "path_regexp")
           O == SettingAt(f, n, type, "op_regexp")
           R == SettingAt(f, n, type, "probability")
<1>1. /\ e = [type |-> type, path_regexp |-> P, op_regexp |-> O, probability |-> atoi(R)]
      /\ d = [type |-> type,
              path_regexp |-> IF key = "path_regexp" THEN value ELSE P,
              op_regexp |-> IF key = "op_regexp" THEN value ELSE O,
              probability |-> atoi(IF key = "probability" THEN value ELSE R)]
  BY SettingNext DEF EntryAt
<1> HIDE DEF key, value, e, d, P, O, R
<1>2. d = SetKey(e, key, value)
  <2>1. CASE key = "path_regexp"
    BY <1>1, <2>1, SetKeyIs
  <2>2. CASE key = "op_regexp"
    BY <1>1, <2>2, SetKeyIs
  <2>3. CASE key = "probability"
    BY <1>1, <2>3, SetKeyIs
  <2>4. CASE key \notin {"path_regexp", "op_regexp", "probability"}
    BY <1>1, <2>4, SetKeyIs
  <2> QED BY <2>1, <2>2, <2>3, <2>4
<1> QED BY <1>2 DEF key, value, e, d

LEMMA SetKeyType ==
    ASSUME NEW f, NEW n, NEW type, NEW key, NEW value
    PROVE  SetKey(EntryAt(f, n, type), key, value).type = type
<1> DEFINE e == EntryAt(f, n, type)
<1>1. e.type = type /\ e = [type |-> e.type, path_regexp |-> e.path_regexp, op_regexp |-> e.op_regexp, probability |-> e.probability]
  BY DEF EntryAt
<1> HIDE DEF e
<1>2. SetKey(e, key, value).type = type
  <2>1. CASE key = "path_regexp"
    BY <1>1, <2>1, SetKeyIs
  <2>2. CASE key = "op_regexp"
    BY <1>1, <2>2, SetKeyIs
  <2>3. CASE key = "probability"
    BY <1>1, <2>3, SetKeyIs
  <2>4. CASE key \notin {"path_regexp", "op_regexp", "probability"}
    BY <1>1, <2>4, SetKeyIs
  <2> QED BY <2>1, <2>2, <2>3, <2>4
<1> QED BY <1>2 DEF e

(* The entries are those that the first n lines ask for, one for a type,   *)
(* in the order of their first lines.                                      *)
Reads(f, n, q) ==
    /\ Len(q) \in Nat /\ q = [i \in 1..Len(q) |-> EntryAt(f, n, q[i].type)]
    /\ \A i \in 1..Len(q) : q[i].type \in Types /\ LinesOf(f, q[i].type, n) # {}
    /\ \A i, k \in 1..Len(q) : i < k => FirstLine(f, q[i].type) < FirstLine(f, q[k].type)
    /\ \A type \in Types : LinesOf(f, type, n) # {} => \E i \in 1..Len(q) : q[i].type = type

LEMMA MinOf ==
    ASSUME NEW T \in SUBSET Nat, T # {}
    PROVE  Min(T) \in T /\ \A x \in T : Min(T) <= x
<1>1. \E x \in T : \A y \in T : x <= y
  BY LeastOf
<1> QED BY <1>1 DEF Min

LEMMA FirstLineIs ==
    ASSUME NEW f \in Seq(Lines), NEW n \in Nat, NEW type \in Types
    PROVE  /\ LinesOf(f, type, n) # {} => FirstLine(f, type) \in 1..n
           /\ LinesOf(f, type, n) = {} /\ n + 1 \in ValueLines(f, type) => FirstLine(f, type) = n + 1
<1>1. Len(f) \in Nat /\ ValueLines(f, type) \subseteq 1..Len(f)
  BY ValueLinesAre, LenProperties
<1>2. ValueLines(f, type) \in SUBSET Nat
  BY <1>1
<1>3. ValueLines(f, type) # {} => /\ FirstLine(f, type) \in ValueLines(f, type)
                                  /\ \A x \in ValueLines(f, type) : FirstLine(f, type) <= x
  BY <1>2, MinOf DEF FirstLine
<1>4. ASSUME LinesOf(f, type, n) # {} PROVE FirstLine(f, type) \in 1..n
  <2>1. PICK x \in ValueLines(f, type) : x <= n
    BY <1>4 DEF LinesOf
  <2> QED BY <1>1, <1>3, <2>1
<1>5. ASSUME LinesOf(f, type, n) = {}, n + 1 \in ValueLines(f, type) PROVE FirstLine(f, type) = n + 1
  <2>1. \A x \in ValueLines(f, type) : ~(x <= n)
    BY <1>5 DEF LinesOf
  <2> QED BY <1>1, <1>3, <1>5, <2>1
<1> QED BY <1>4, <1>5

LEMMA ReadsOther ==
    ASSUME NEW f \in Seq(Lines), NEW n \in Nat, n + 1 \in 1..Len(f), NEW q, Reads(f, n, q),
           \A type \in Types : n + 1 \notin ValueLines(f, type)
    PROVE  Reads(f, n + 1, q)
<1>1. \A type \in Types : LinesOf(f, type, n + 1) = LinesOf(f, type, n) /\ EntryAt(f, n + 1, type) = EntryAt(f, n, type)
  BY LinesOfNext, EntryOther
<1>2. q = [i \in 1..Len(q) |-> EntryAt(f, n + 1, q[i].type)]
  <2>1. \A i \in 1..Len(q) : EntryAt(f, n + 1, q[i].type) = EntryAt(f, n, q[i].type)
    BY <1>1 DEF Reads
  <2> QED BY <2>1 DEF Reads
<1> QED BY <1>1, <1>2 DEF Reads

LEMMA AppendIs ==
    ASSUME NEW q, Len(q) \in Nat, NEW X, q \in [1..Len(q) -> X], NEW e
    PROVE  /\ Len(Append(q, e)) = Len(q) + 1
           /\ Append(q, e) \in [1..(Len(q) + 1) -> X \cup {e}]
           /\ Append(q, e)[Len(q) + 1] = e
           /\ \A i \in 1..Len(q) : Append(q, e)[i] = q[i]
<1>1. q \in Seq(X \cup {e}) /\ e \in X \cup {e}
  BY SeqDef
<1>2. /\ Append(q, e) \in Seq(X \cup {e}) /\ Len(Append(q, e)) = Len(q) + 1
      /\ \A i \in 1..Len(q) : Append(q, e)[i] = q[i]
      /\ Append(q, e)[Len(q) + 1] = e
  BY <1>1, AppendProperties
<1>3. Append(q, e) \in [1..(Len(q) + 1) -> X \cup {e}]
  BY <1>2, LenProperties
<1> QED BY <1>2, <1>3

(* conf_option_handler with a line that gives a value. *)
LEMMA HandlerReads ==
    ASSUME NEW f \in Seq(Lines), NEW n \in Nat, n + 1 \in 1..Len(f), NEW q, Reads(f, n, q),
           GivesValue(f, n + 1)
    PROVE  Reads(f, n + 1, conf_option_handler(q, SectionAt(f, n + 1),
                                               f[OptionLine(f, n + 1)].name, ValueAt(f, n + 1)))
<1> DEFINE sec == SectionAt(f, n + 1)
           key == f[OptionLine(f, n + 1)].name
           value == ValueAt(f, n + 1)
           np == {i \in DOMAIN q : q[i].type = sec}
           r == conf_option_handler(q, sec, key, value)
<1>0. r = IF sec \notin Types THEN q
          ELSE IF np = {} THEN Append(q, SetKey(Entry(sec), key, value))
          ELSE [q EXCEPT ![CHOOSE i \in np : TRUE] = SetKey(@, key, value)]
  BY DEF conf_option_handler
<1>1. \A type \in Types : n + 1 \in ValueLines(f, type) <=> type = sec
  BY ValueLinesAre
<1>2. /\ Len(q) \in Nat /\ DOMAIN q = 1..Len(q)
      /\ \A i \in 1..Len(q) : q[i] = EntryAt(f, n, q[i].type)
      /\ \A i \in 1..Len(q) : q[i].type \in Types /\ LinesOf(f, q[i].type, n) # {}
      /\ \A i, k \in 1..Len(q) : i < k => FirstLine(f, q[i].type) < FirstLine(f, q[k].type)
      /\ \A type \in Types : LinesOf(f, type, n) # {} => \E i \in 1..Len(q) : q[i].type = type
  BY DEF Reads
<1> HIDE DEF sec, key, value, np, r
<1>3. CASE sec \notin Types
  <2>1. \A type \in Types : n + 1 \notin ValueLines(f, type)
    BY <1>1, <1>3
  <2> QED BY <1>0, <1>3, <2>1, ReadsOther DEF r, sec, key, value
<1>4. CASE sec \in Types
  <2>1. /\ LinesOf(f, sec, n + 1) = LinesOf(f, sec, n) \cup {n + 1}
        /\ EntryAt(f, n + 1, sec) = SetKey(EntryAt(f, n, sec), key, value)
    BY <1>1, <1>4, LinesOfNext, EntrySet DEF key, value
  <2>2. \A type \in Types \ {sec} : /\ LinesOf(f, type, n + 1) = LinesOf(f, type, n)
                                    /\ EntryAt(f, n + 1, type) = EntryAt(f, n, type)
    BY <1>1, LinesOfNext, EntryOther
  <2>3. CASE np = {}
    <3>1. \A i \in 1..Len(q) : q[i].type # sec
      BY <1>2, <2>3 DEF np
    <3>2. LinesOf(f, sec, n) = {}
      BY <1>2, <1>4, <3>1
    <3> DEFINE e == SetKey(Entry(sec), key, value)
    <3>3. e = EntryAt(f, n + 1, sec) /\ e.type = sec
      BY <2>1, <3>2, EntryNone, SetKeyType
    <3>4. r = Append(q, e)
      BY <1>0, <1>4, <2>3
    <3> HIDE DEF e
    <3>5. /\ Len(r) = Len(q) + 1 /\ DOMAIN r = 1..(Len(q) + 1)
          /\ r = [i \in 1..(Len(q) + 1) |-> r[i]]
          /\ r[Len(q) + 1] = e
          /\ \A i \in 1..Len(q) : r[i] = q[i]
      <4>1. PICK X : q \in [1..Len(q) -> X]
        <5>1. q = [i \in 1..Len(q) |-> q[i]]
          BY DEF Reads
        <5>2. q \in [1..Len(q) -> {q[i] : i \in 1..Len(q)}]
          BY <5>1
        <5> QED BY <5>2
      <4>2. r \in [1..(Len(q) + 1) -> X \cup {e}]
        BY <1>2, <3>4, <4>1, AppendIs
      <4>3. Len(r) = Len(q) + 1 /\ r[Len(q) + 1] = e
        BY <1>2, <3>4, <4>1, AppendIs
      <4>4. \A i \in 1..Len(q) : r[i] = q[i]
        BY <1>2, <3>4, <4>1, AppendIs
      <4>5. DOMAIN r = 1..(Len(q) + 1) /\ r = [i \in 1..(Len(q) + 1) |-> r[i]]
        BY <4>2
      <4> QED BY <4>3, <4>4, <4>5
    <3>6. \A i \in 1..(Len(q) + 1) : i \in 1..Len(q) \/ i = Len(q) + 1
      BY <1>2
    <3>7. \A i \in 1..Len(r) : r[i] = EntryAt(f, n + 1, r[i].type)
      BY <1>2, <2>2, <3>1, <3>3, <3>5, <3>6
    <3>8. r = [i \in 1..Len(r) |-> EntryAt(f, n + 1, r[i].type)] /\ Len(r) \in Nat
      BY <1>2, <3>5, <3>7
    <3>9. \A i \in 1..Len(r) : r[i].type \in Types /\ LinesOf(f, r[i].type, n + 1) # {}
      <4>1. SUFFICES ASSUME NEW i \in 1..Len(r)
                     PROVE  r[i].type \in Types /\ LinesOf(f, r[i].type, n + 1) # {}
        OBVIOUS
      <4>2. CASE i = Len(q) + 1
        BY <1>4, <2>1, <3>3, <3>5, <4>2
      <4>3. CASE i \in 1..Len(q)
        BY <1>2, <2>2, <3>1, <3>5, <4>3
      <4> QED BY <3>5, <3>6, <4>1, <4>2, <4>3
    <3>10. \A i, k \in 1..Len(r) : i < k => FirstLine(f, r[i].type) < FirstLine(f, r[k].type)
      <4>1. SUFFICES ASSUME NEW i \in 1..Len(r), NEW k \in 1..Len(r), i < k
                     PROVE  FirstLine(f, r[i].type) < FirstLine(f, r[k].type)
        OBVIOUS
      <4>2. i \in 1..Len(q)
        BY <1>2, <3>5, <4>1
      <4>3. CASE k \in 1..Len(q)
        BY <1>2, <3>5, <4>1, <4>2, <4>3
      <4>4. CASE k = Len(q) + 1
        <5>1. FirstLine(f, sec) = n + 1
          BY <1>1, <1>4, <3>2, FirstLineIs
        <5>2. FirstLine(f, q[i].type) \in 1..n
          BY <1>2, <4>2, FirstLineIs
        <5>3. r[i] = q[i] /\ r[k].type = sec
          BY <3>3, <3>5, <4>2, <4>4
        <5>4. \A x \in 1..n : x < n + 1
          OBVIOUS
        <5> QED BY <5>1, <5>2, <5>3, <5>4
      <4> QED BY <3>5, <3>6, <4>1, <4>3, <4>4
    <3>11. \A type \in Types : LinesOf(f, type, n + 1) # {} => \E i \in 1..Len(r) : r[i].type = type
      <4>1. SUFFICES ASSUME NEW type \in Types, LinesOf(f, type, n + 1) # {}
                     PROVE  \E i \in 1..Len(r) : r[i].type = type
        OBVIOUS
      <4>2. CASE type = sec
        <5>1. Len(q) + 1 \in 1..Len(r)
          BY <1>2, <3>5
        <5> QED BY <3>3, <3>5, <4>2, <5>1
      <4>3. CASE type # sec
        <5>1. PICK i \in 1..Len(q) : q[i].type = type
          BY <1>2, <2>2, <4>1, <4>3
        <5>2. i \in 1..Len(r)
          BY <1>2, <3>5
        <5> QED BY <3>5, <5>1, <5>2
      <4> QED BY <4>2, <4>3
    <3> QED BY <3>8, <3>9, <3>10, <3>11 DEF Reads, r, sec, key, value
  <2>4. CASE np # {}
    <3> DEFINE m == CHOOSE i \in np : TRUE
    <3>1. m \in np
      BY <2>4
    <3> HIDE DEF m
    <3>2. m \in 1..Len(q) /\ q[m].type = sec
      BY <1>2, <3>1 DEF np
    <3>3. r = [q EXCEPT ![m] = SetKey(q[m], key, value)]
      BY <1>0, <1>4, <2>4, <3>1 DEF m
    <3>4. SetKey(q[m], key, value) = EntryAt(f, n + 1, sec) /\ EntryAt(f, n + 1, sec).type = sec
      BY <1>2, <2>1, <3>2, SetKeyType
    <3>5. \A i \in 1..Len(q) : i # m => q[i].type # sec
      <4>1. SUFFICES ASSUME NEW i \in 1..Len(q), i # m, q[i].type = sec PROVE FALSE
        OBVIOUS
      <4>2. FirstLine(f, sec) \in 1..n
        BY <1>2, <3>2, FirstLineIs
      <4>3. i < m \/ m < i
        BY <1>2, <3>2, <4>1
      <4> QED BY <1>2, <3>2, <4>1, <4>2, <4>3
    <3>6. /\ DOMAIN r = 1..Len(q) /\ r[m] = EntryAt(f, n + 1, sec)
          /\ \A i \in 1..Len(q) : i # m => r[i] = q[i]
      BY <1>2, <3>2, <3>3, <3>4
    <3>7. \A i \in 1..Len(q) : r[i].type = q[i].type /\ r[i] = EntryAt(f, n + 1, r[i].type)
      <4>1. SUFFICES ASSUME NEW i \in 1..Len(q) PROVE r[i].type = q[i].type /\ r[i] = EntryAt(f, n + 1, r[i].type)
        OBVIOUS
      <4>2. CASE i = m
        BY <3>2, <3>4, <3>6, <4>2
      <4>3. CASE i # m
        BY <1>2, <2>2, <3>5, <3>6, <4>3
      <4> QED BY <4>2, <4>3
    <3>8. r = [i \in 1..Len(q) |-> r[i]]
      BY <1>2, <3>3
    <3>9. Len(r) = Len(q)
      <4>1. r \in [1..Len(q) -> {r[i] : i \in 1..Len(q)}]
        BY <3>8
      <4>2. r \in Seq({r[i] : i \in 1..Len(q)})
        BY <1>2, <4>1, SeqDef
      <4>3. Len(r) \in Nat /\ DOMAIN r = 1..Len(r)
        BY <4>2, LenProperties
      <4> QED BY <1>2, <3>6, <4>3
    <3>10. r = [i \in 1..Len(r) |-> EntryAt(f, n + 1, r[i].type)] /\ Len(r) \in Nat
      BY <1>2, <3>7, <3>8, <3>9
    <3>11. \A i \in 1..Len(r) : r[i].type \in Types /\ LinesOf(f, r[i].type, n + 1) # {}
      BY <1>2, <2>1, <2>2, <3>7, <3>9
    <3>12. \A i, k \in 1..Len(r) : i < k => FirstLine(f, r[i].type) < FirstLine(f, r[k].type)
      BY <1>2, <3>7, <3>9
    <3>13. \A type \in Types : LinesOf(f, type, n + 1) # {} => \E i \in 1..Len(r) : r[i].type = type
      <4>1. \A type \in Types : LinesOf(f, type, n + 1) # {} => \E i \in 1..Len(q) : q[i].type = type
        BY <1>2, <2>2, <3>2
      <4> QED BY <3>7, <3>9, <4>1
    <3> QED BY <3>10, <3>11, <3>12, <3>13 DEF Reads, r, sec, key, value
  <2> QED BY <2>3, <2>4
<1> QED BY <1>3, <1>4

(* The parser's state after n lines. *)
ParsedTo(f, n, s) ==
    /\ s = [section |-> s.section, prev |-> s.prev, q |-> s.q]
    /\ s.section = SectionAt(f, n)
    /\ Open(f, n) => s.prev # None /\ \E j : LastOption(f, n, j) /\ s.prev = f[j].name
    /\ ~Open(f, n) => s.prev = None
    /\ Reads(f, n, s.q)

LEMMA ParsedToStart ==
    ASSUME NEW f \in Seq(Lines)
    PROVE  ParsedTo(f, 0, Start)
<1>1. SectionAt(f, 0) = None
  BY SectionLineNext DEF SectionAt
<1>2. ~Open(f, 0)
  BY DEF Open
<1>3. \A type \in Types : LinesOf(f, type, 0) = {}
  <2>1. \A type \in Types : \A i \in ValueLines(f, type) : i \in Nat /\ 1 <= i
    BY ValueLinesAre, LenProperties
  <2> QED BY <2>1 DEF LinesOf
<1>4. Reads(f, 0, <<>>)
  <2>1. Len(<<>>) = 0 /\ 1..0 = {}
    OBVIOUS
  <2>2. <<>> = [i \in 1..0 |-> EntryAt(f, 0, <<>>[i].type)]
    BY <2>1
  <2> QED BY <1>3, <2>1, <2>2 DEF Reads
<1> QED BY <1>1, <1>2, <1>4 DEF ParsedTo, Start

LEMMA ParsedToNext ==
    ASSUME NEW f \in Seq(Lines), NEW n \in Nat, n + 1 \in 1..Len(f), NEW s, ParsedTo(f, n, s)
    PROVE  ParsedTo(f, n + 1, ParseLine(s, f[n + 1]))
<1> DEFINE l == f[n + 1]
           r == ParseLine(s, l)
<1>0. /\ l.indent \in BOOLEAN
      /\ (n + 1) - 1 = n
  BY LineIs
<1>1. /\ s = [section |-> s.section, prev |-> s.prev, q |-> s.q]
      /\ s.section = SectionAt(f, n)
      /\ Open(f, n) => \E j : LastOption(f, n, j) /\ s.prev = f[j].name
      /\ ~Open(f, n) => s.prev = None
      /\ Reads(f, n, s.q)
  BY DEF ParsedTo
<1>2. Open(f, n) => s.prev # None
  BY DEF ParsedTo
<1>3. Continues(f, n + 1) <=> l.indent /\ l.kind # "comment" /\ Open(f, n)
  BY <1>0, ContinuesIs
<1>4. Open(f, n + 1) <=> \/ l.kind = "option" /\ l.name # None
                         \/ Open(f, n) /\ ~Closes(l)
  BY OpenNext
<1>5. SectionAt(f, n + 1) = IF OpensSection(f, n + 1) THEN l.name ELSE SectionAt(f, n)
  <2>1. SectionLine(f, n + 1) = IF OpensSection(f, n + 1) THEN n + 1 ELSE SectionLine(f, n)
    BY SectionLineNext
  <2>2. n + 1 # 0
    OBVIOUS
  <2> QED BY <2>1, <2>2 DEF SectionAt
<1>6. ~GivesValue(f, n + 1) => Reads(f, n + 1, s.q)
  BY <1>1, ReadsOther, ValueLinesAre
<1>7. GivesValue(f, n + 1) => ~OpensSection(f, n + 1)
  BY DEF GivesValue, OpensSection
<1>8. r = IF l.kind = "comment" THEN s
          ELSE IF l.indent /\ s.prev # None
               THEN [s EXCEPT !.q = conf_option_handler(s.q, s.section, s.prev, "text")]
          ELSE IF l.kind = "section"
               THEN [s EXCEPT !.section = l.name, !.prev = None]
          ELSE IF l.kind = "option"
               THEN [s EXCEPT !.prev = l.name, !.q = conf_option_handler(s.q, s.section, l.name, l.value)]
          ELSE s
  BY DEF ParseLine
<1>9. \A j : ~TakesOption(f, n + 1) /\ LastOption(f, n, j) => LastOption(f, n + 1, j)
  BY LastOptionNext
<1> HIDE DEF r, l
<1>10. CASE Continues(f, n + 1)
  <2>1. GivesValue(f, n + 1) /\ ~TakesOption(f, n + 1) /\ Open(f, n) /\ Open(f, n + 1)
    BY <1>0, <1>3, <1>4, <1>10 DEF GivesValue, TakesOption, Closes
  <2>2. PICK j : LastOption(f, n, j) /\ s.prev = f[j].name
    BY <1>1, <2>1
  <2>3. LastOption(f, n + 1, j)
    BY <1>9, <2>1, <2>2
  <2>4. OptionLine(f, n + 1) = j
    BY <2>3, OptionLineIs
  <2>5. ValueAt(f, n + 1) = "text"
    BY <1>10 DEF ValueAt
  <2>6. r = [s EXCEPT !.q = conf_option_handler(s.q, s.section, s.prev, "text")]
    BY <1>2, <1>3, <1>8, <1>10, <2>1
  <2>7. s.section = SectionAt(f, n + 1)
    BY <1>1, <1>5, <1>7, <2>1
  <2>8. Reads(f, n + 1, conf_option_handler(s.q, s.section, s.prev, "text"))
    BY <1>1, <2>1, <2>2, <2>4, <2>5, <2>7, HandlerReads
  <2> DEFINE x == conf_option_handler(s.q, s.section, s.prev, "text")
  <2> HIDE DEF x
  <2>9. r = [section |-> s.section, prev |-> s.prev, q |-> x]
    BY <1>1, <2>6 DEF x
  <2>10. ParsedTo(f, n + 1, r)
    BY <1>2, <2>1, <2>2, <2>3, <2>7, <2>8, <2>9 DEF ParsedTo, x
  <2> QED BY <2>10 DEF r, l
<1>11. CASE ~Continues(f, n + 1) /\ l.kind = "option"
  <2>1. GivesValue(f, n + 1) /\ TakesOption(f, n + 1) /\ (Open(f, n + 1) <=> l.name # None)
    <3>1. Open(f, n) => ~l.indent
      BY <1>0, <1>3, <1>11
    <3>2. Open(f, n + 1) <=> l.name # None
      BY <1>4, <1>11, <3>1 DEF Closes
    <3> QED BY <1>11, <3>2 DEF GivesValue, TakesOption, l
  <2>2. LastOption(f, n + 1, n + 1)
    BY <2>1, LastOptionNext
  <2>3. OptionLine(f, n + 1) = n + 1
    BY <2>2, OptionLineIs
  <2>4. ValueAt(f, n + 1) = l.value
    BY <1>11 DEF ValueAt, l
  <2>5. ~(l.indent /\ s.prev # None)
    BY <1>1, <1>3, <1>11
  <2>6. r = [s EXCEPT !.prev = l.name, !.q = conf_option_handler(s.q, s.section, l.name, l.value)]
    BY <1>8, <1>11, <2>5
  <2>7. s.section = SectionAt(f, n + 1)
    BY <1>1, <1>5, <1>7, <2>1
  <2>8. Reads(f, n + 1, conf_option_handler(s.q, s.section, l.name, l.value))
    BY <1>1, <2>1, <2>3, <2>4, <2>7, HandlerReads DEF l
  <2> DEFINE x == conf_option_handler(s.q, s.section, l.name, l.value)
  <2> HIDE DEF x
  <2>9. r = [section |-> s.section, prev |-> l.name, q |-> x]
    BY <1>1, <2>6 DEF x
  <2>10. ParsedTo(f, n + 1, r)
    BY <2>1, <2>2, <2>7, <2>8, <2>9 DEF ParsedTo, x, l
  <2> QED BY <2>10 DEF r, l
<1>12. CASE ~Continues(f, n + 1) /\ l.kind = "section"
  <2>1. OpensSection(f, n + 1) /\ ~GivesValue(f, n + 1) /\ ~Open(f, n + 1)
    <3>1. Open(f, n) => ~l.indent
      BY <1>0, <1>3, <1>12
    <3>2. ~Open(f, n + 1)
      BY <1>4, <1>12, <3>1 DEF Closes
    <3> QED BY <1>12, <3>2 DEF OpensSection, GivesValue, l
  <2>2. ~(l.indent /\ s.prev # None)
    BY <1>1, <1>3, <1>12
  <2>3. r = [s EXCEPT !.section = l.name, !.prev = None]
    BY <1>8, <1>12, <2>2
  <2>4. r = [section |-> l.name, prev |-> None, q |-> s.q]
    BY <1>1, <2>3
  <2>5. ParsedTo(f, n + 1, r)
    BY <1>5, <1>6, <2>1, <2>4 DEF ParsedTo
  <2> QED BY <2>5 DEF r, l
<1>13. CASE ~Continues(f, n + 1) /\ l.kind \notin {"option", "section"}
  <2>1. ~OpensSection(f, n + 1) /\ ~GivesValue(f, n + 1) /\ ~TakesOption(f, n + 1)
    BY <1>13 DEF OpensSection, GivesValue, TakesOption, l
  <2>2. Open(f, n + 1) <=> Open(f, n)
    BY <1>4, <1>13 DEF Closes
  <2>3. r = s
    BY <1>1, <1>3, <1>8, <1>13
  <2>4. Open(f, n + 1) => \E j : LastOption(f, n + 1, j) /\ s.prev = f[j].name
    BY <1>1, <1>9, <2>1, <2>2
  <2>5. ParsedTo(f, n + 1, r)
    BY <1>1, <1>2, <1>5, <1>6, <2>1, <2>2, <2>3, <2>4 DEF ParsedTo
  <2> QED BY <2>5 DEF r, l
<1> QED BY <1>10, <1>11, <1>12, <1>13

LEMMA ParsedAll ==
    ASSUME NEW f \in Seq(Lines)
    PROVE  Reads(f, Len(f), ini_parse(f))
<1>1. PICK t : IsParse(f, t) /\ t[Len(f)].q = ini_parse(f)
  BY ParsesInOrder
<1>2. Len(f) \in Nat
  BY LenProperties
<1> DEFINE N == {n \in Nat : n <= Len(f) => ParsedTo(f, n, t[n])}
<1>3. 0 \in N
  BY <1>1, ParsedToStart DEF IsParse
<1>4. ASSUME NEW n \in Nat, n \in N PROVE n + 1 \in N
  <2>1. SUFFICES ASSUME n + 1 <= Len(f) PROVE ParsedTo(f, n + 1, t[n + 1])
    OBVIOUS
  <2>2. n + 1 \in 1..Len(f) /\ (n + 1) - 1 = n /\ n <= Len(f)
    BY <1>2, <2>1
  <2>3. ParsedTo(f, n, t[n])
    BY <1>4, <2>2
  <2>4. t[n + 1] = ParseLine(t[n], f[n + 1])
    BY <1>1, <2>2 DEF IsParse
  <2> QED BY <2>2, <2>3, <2>4, ParsedToNext
<1> HIDE DEF N
<1>5. Nat \subseteq N
  BY <1>3, <1>4, SetInduction
<1>6. ParsedTo(f, Len(f), t[Len(f)])
  BY <1>2, <1>5 DEF N
<1> QED BY <1>1, <1>6 DEF ParsedTo

(* As many elements as places. *)
LEMMA CountOf ==
    ASSUME NEW n \in Nat, NEW g, NEW values,
           \A i, k \in 1..n : i # k => g[i] # g[k],
           values = {g[i] : i \in 1..n}
    PROVE  Cardinality(values) = n
<1> DEFINE S == {g[i] : i \in 1..n}
           h == [i \in 1..n |-> g[i]]
<1>1. h \in Bijection(1..n, S)
  BY DEF Bijection, Injection, IsInjective, Surjection
<1>2. ExistsBijection(1..n, S)
  <2> HIDE DEF h, S
  <2> QED BY <1>1 DEF ExistsBijection
<1> HIDE DEF S
<1>3. Cardinality(S) = n
  BY <1>2, FS_CountingElements
<1> QED BY <1>3 DEF S

(* ini_parse with its handler makes of every file, however long, the       *)
(* entries that its lines ask for: sections that come again are joined,    *)
(* indented lines continue an option, and the last value counts.           *)
THEOREM ParserReads ==
    ASSUME NEW f \in Seq(Lines), f # NoFile
    PROVE  ini_parse(f) = Wanted(f)
<1> DEFINE q == ini_parse(f)
           types == {type \in Types : ValueLines(f, type) # {}}
           First(type) == Min(ValueLines(f, type))
           Before(type) == {other \in types : First(other) < First(type)}
           Nth(n) == CHOOSE type \in types : Cardinality(Before(type)) = n - 1
           Ent(n) == [type |-> Nth(n),
                      path_regexp |-> Setting(f, Nth(n), "path_regexp"),
                      op_regexp |-> Setting(f, Nth(n), "op_regexp"),
                      probability |-> atoi(Setting(f, Nth(n), "probability"))]
<1>1. Wanted(f) = [n \in 1..Cardinality(types) |-> Ent(n)]
  BY DEF Wanted
<1>2. Reads(f, Len(f), q)
  BY ParsedAll
<1>3. \A type \in Types : LinesOf(f, type, Len(f)) = ValueLines(f, type)
  BY ValueLinesAre, LenProperties DEF LinesOf
<1>4. \A type \in Types : \A key : SettingAt(f, Len(f), type, key) = Setting(f, type, key)
  BY <1>3 DEF SettingAt, Setting, KeyLines, ValueAt
<1>5. /\ Len(q) \in Nat
      /\ q = [i \in 1..Len(q) |-> EntryAt(f, Len(f), q[i].type)]
      /\ \A i \in 1..Len(q) : q[i].type \in types
      /\ \A i, k \in 1..Len(q) : i < k => First(q[i].type) < First(q[k].type)
      /\ \A type \in types : \E i \in 1..Len(q) : q[i].type = type
  BY <1>2, <1>3 DEF Reads, FirstLine
<1>6. \A type \in types : First(type) \in Nat
  <2>1. \A type \in types : ValueLines(f, type) \in SUBSET Nat /\ ValueLines(f, type) # {}
    BY ValueLinesAre, LenProperties
  <2> QED BY <2>1, MinOf
<1>7. \A type \in types : type \in Types
  OBVIOUS
<1> HIDE DEF q, types, First
<1>8. \A i, k \in 1..Len(q) : i # k => q[i].type # q[k].type
  <2>1. SUFFICES ASSUME NEW i \in 1..Len(q), NEW k \in 1..Len(q), i < k PROVE q[i].type # q[k].type
    BY <1>5
  <2>2. First(q[i].type) < First(q[k].type) /\ First(q[i].type) \in Nat
    BY <1>5, <1>6, <2>1
  <2> QED BY <2>2
<1> DEFINE g == [i \in 1..Len(q) |-> q[i].type]
<1>9. Cardinality(types) = Len(q)
  <2>1. types = {g[i] : i \in 1..Len(q)}
    BY <1>5
  <2>2. \A i, k \in 1..Len(q) : i # k => g[i] # g[k]
    BY <1>8
  <2>3. Len(q) \in Nat
    BY <1>5
  <2> HIDE DEF g
  <2> QED BY <2>1, <2>2, <2>3, CountOf
<1>10. ASSUME NEW i \in 1..Len(q) PROVE Cardinality(Before(q[i].type)) = i - 1
  <2>1. i - 1 \in Nat /\ \A k \in 1..(i - 1) : k \in 1..Len(q) /\ k < i
    BY <1>5
  <2>2. Before(q[i].type) = {g[k] : k \in 1..(i - 1)}
    <3>1. ASSUME NEW k \in 1..(i - 1) PROVE g[k] \in Before(q[i].type)
      BY <1>5, <2>1
    <3>2. ASSUME NEW type \in types, First(type) < First(q[i].type)
          PROVE  \E k \in 1..(i - 1) : g[k] = type
      <4>1. PICK k \in 1..Len(q) : q[k].type = type
        BY <1>5
      <4>2. k < i
        <5>1. First(q[k].type) \in Nat /\ First(q[i].type) \in Nat
          BY <1>5, <1>6
        <5>2. i < k => First(q[i].type) < First(q[k].type)
          BY <1>5
        <5>3. k # i /\ ~(i < k)
          BY <3>2, <4>1, <5>1, <5>2
        <5> QED BY <1>5, <5>3
      <4>3. k \in 1..(i - 1)
        BY <1>5, <4>2
      <4> QED BY <4>1, <4>3
    <3> QED BY <3>1, <3>2
  <2>3. \A a, b \in 1..(i - 1) : a # b => g[a] # g[b]
    BY <1>8, <2>1
  <2> DEFINE m == i - 1
  <2>4. m \in Nat
    BY <2>1
  <2>5. \A a, b \in 1..m : a # b => g[a] # g[b]
    BY <2>3
  <2>6. Before(q[i].type) = {g[k] : k \in 1..m}
    BY <2>2
  <2> HIDE DEF g, Before, m
  <2>7. Cardinality(Before(q[i].type)) = m
    BY <2>4, <2>5, <2>6, CountOf
  <2> QED BY <2>7 DEF m
<1>11. ASSUME NEW i \in 1..Len(q) PROVE Nth(i) = q[i].type
  <2>1. q[i].type \in types /\ Cardinality(Before(q[i].type)) = i - 1
    BY <1>5, <1>10
  <2>2. ASSUME NEW type \in types, Cardinality(Before(type)) = i - 1 PROVE type = q[i].type
    <3>1. PICK k \in 1..Len(q) : q[k].type = type
      BY <1>5
    <3>2. k - 1 = i - 1
      <4>1. Cardinality(Before(q[k].type)) = k - 1
        BY <1>10
      <4> HIDE DEF Before
      <4> QED BY <2>2, <3>1, <4>1
    <3>3. k = i
      BY <1>5, <3>2
    <3> QED BY <3>1, <3>3
  <2> HIDE DEF Before
  <2> QED BY <2>1, <2>2
<1> HIDE DEF Nth
<1>12. ASSUME NEW i \in 1..Len(q) PROVE EntryAt(f, Len(f), q[i].type) = Ent(i)
  <2>1. q[i].type \in Types /\ Nth(i) = q[i].type
    BY <1>5, <1>7, <1>11
  <2> QED BY <1>4, <2>1 DEF EntryAt
<1> HIDE DEF Ent
<1>13. q = [n \in 1..Cardinality(types) |-> Ent(n)]
  BY <1>5, <1>9, <1>12
<1> QED BY <1>1, <1>13 DEF q

-----------------------------------------------------------------------------
USE ErrInjectAssumption

LEMMA FourAreFinite ==
  ASSUME NEW a, NEW b, NEW c, NEW d
  PROVE  IsFiniteSet({a, b, c, d})
<1>1. IsFiniteSet({a})
  BY FS_Singleton
<1>2. IsFiniteSet({a} \cup {b})
  BY <1>1, FS_AddElement
<1>3. IsFiniteSet(({a} \cup {b}) \cup {c})
  BY <1>2, FS_AddElement
<1>4. IsFiniteSet((({a} \cup {b}) \cup {c}) \cup {d})
  BY <1>3, FS_AddElement
<1>5. {a, b, c, d} = (({a} \cup {b}) \cup {c}) \cup {d}
  OBVIOUS
<1> QED BY <1>4, <1>5

LEMMA TypesAreFinite == IsFiniteSet(Types)
<1>1. Types = {"errno", "kill_caller", "noop", "slowdown"}
                \cup {"wow_reorder_local", "wow_reorder_server", "wow_delay", "wow_crash"}
  BY DEF Types
<1>2. /\ IsFiniteSet({"errno", "kill_caller", "noop", "slowdown"})
      /\ IsFiniteSet({"wow_reorder_local", "wow_reorder_server", "wow_delay", "wow_crash"})
  BY FourAreFinite, Zenon
<1>3. IsFiniteSet({"errno", "kill_caller", "noop", "slowdown"}
                \cup {"wow_reorder_local", "wow_reorder_server", "wow_delay", "wow_crash"})
  BY <1>2, FS_Union, Zenon
<1> QED BY <1>1, <1>3, Zenon

(* What a file asks for is a sequence of entries with numbers in them. *)
LEMMA WantedShape ==
  ASSUME NEW f \in FileTexts
  PROVE  /\ WantedOf[f] = Wanted(f)
         /\ Len(WantedOf[f]) \in Nat
         /\ DOMAIN WantedOf[f] = 1..Len(WantedOf[f])
         /\ \A i \in 1..Len(WantedOf[f]) : WantedOf[f][i].probability \in Nat
<1> DEFINE types == IF f = NoFile THEN {} ELSE {type \in Types : ValueLines(f, type) # {}}
           First(type) == Min(ValueLines(f, type))
           Nth(n) == CHOOSE type \in types :
                      Cardinality({other \in types : First(other) < First(type)}) = n - 1
           Ent(n) == [type |-> Nth(n),
                      path_regexp |-> Setting(f, Nth(n), "path_regexp"),
                      op_regexp |-> Setting(f, Nth(n), "op_regexp"),
                      probability |-> atoi(Setting(f, Nth(n), "probability"))]
           q == [n \in 1..Cardinality(types) |-> Ent(n)]
           S == {Ent(n) : n \in 1..Cardinality(types)}
<1>1. WantedOf[f] = Wanted(f)
  BY DEF WantedOf, FileTexts
<1>2. Wanted(f) = q
  BY DEF Wanted
<1>3. Cardinality(types) \in Nat
  <2>2. types \subseteq Types
    OBVIOUS
  <2> QED BY TypesAreFinite, <2>2, FS_Subset, FS_CardinalityType, Zenon
<1>4. \A v : atoi(v) \in {0, 50, 100}
  BY Zenon DEF atoi
<1>5. \A n \in 1..Cardinality(types) : q[n].probability \in Nat
  <2> HIDE DEF types, First, Nth
  <2> QED BY <1>4
<1>6. q \in Seq(S)
  <2> HIDE DEF types, Ent
  <2> QED BY <1>3, SeqDef
<1>7. Len(q) = Cardinality(types) /\ DOMAIN q = 1..Cardinality(types)
  <2>1. DOMAIN q = 1..Cardinality(types)
    OBVIOUS
  <2> HIDE DEF q, types, S
  <2> QED BY <2>1, <1>3, <1>6, LenProperties
<1> HIDE DEF q, types
<1> QED BY <1>1, <1>2, <1>3, <1>5, <1>7

LEMMA NothingWanted == Wanted(NoFile) = <<>>
<1> DEFINE Ent(n) == LET types == IF NoFile = NoFile THEN {} ELSE {type \in Types : ValueLines(NoFile, type) # {}}
                         First(type) == Min(ValueLines(NoFile, type))
                         Nth == CHOOSE type \in types :
                              Cardinality({other \in types : First(other) < First(type)}) = n - 1
                     IN [type |-> Nth,
                         path_regexp |-> Setting(NoFile, Nth, "path_regexp"),
                         op_regexp |-> Setting(NoFile, Nth, "op_regexp"),
                         probability |-> atoi(Setting(NoFile, Nth, "probability"))]
<1>1. Wanted(NoFile) = [n \in 1..Cardinality({}) |-> Ent(n)]
  BY Zenon DEF Wanted
<1>2. Cardinality({}) = 0
  BY FS_EmptySet
<1> HIDE DEF Ent
<1> QED BY <1>1, <1>2

(* A file that is read is in force, if it could be opened. *)
LEMMA Loaded ==
  ASSUME NEW f \in FileTexts, NEW e \in config_init(f)
  PROVE  e \in {Null, WantedOf[f]}
<1>1. CASE f = NoFile
  BY <1>1, NothingWanted, WantedShape DEF config_init
<1>2. CASE f # NoFile
  <2>1. f \in Seq(Lines)
    <3>1. <<>> \in Seq(Lines)
      OBVIOUS
    <3>2. f \in Files \cup Saved \/ f = <<>>
      BY <1>2 DEF FileTexts
    <3> QED BY <3>1, <3>2, LinesAssumption
  <2> QED BY <1>2, <2>1, WantedShape, ParserReads DEF config_init
<1> QED BY <1>1, <1>2

(* One more entry of the walk. *)
LEMMA WalkOn ==
  ASSUME NEW c, NEW f \in FileTexts, NEW x, NEW y, NEW p \in Draws,
         NEW i \in 1..Len(WantedOf[f]),
         MayReturn(c, WantedOf[f], i - 1, x),
         IF Triggers(WantedOf[f][i], p) /\ Hits(WantedOf[f][i], c) /\ Sets(WantedOf[f][i], c.op) # {}
           THEN y \in Sets(WantedOf[f][i], c.op)
           ELSE y = x
  PROVE  MayReturn(c, WantedOf[f], i, y)
<1> DEFINE q == WantedOf[f]
<1>1. q[i].probability \in Int /\ i \in Nat /\ i \in 1..i
  BY WantedShape
<1> HIDE DEF q
<1>2. CASE Triggers(q[i], p) /\ Hits(q[i], c) /\ Sets(q[i], c.op) # {}
  <2>1. y \in Sets(q[i], c.op) /\ Says(c, q, i)
    BY <1>2 DEF q, Says
  <2>2. \A k \in (i + 1)..i : Silent(c, q, k)
    BY <1>1
  <2> QED BY <1>1, <2>1, <2>2 DEF MayReturn, q
<1>3. CASE ~(Triggers(q[i], p) /\ Hits(q[i], c) /\ Sets(q[i], c.op) # {})
  <2>1. y = x /\ MayReturn(c, q, i - 1, y)
    BY <1>3 DEF q
  <2>2. Silent(c, q, i)
    BY <1>1, <1>3 DEF Silent, Says, Triggers, Draws
  <2>3. CASE y = 0 /\ \A k \in 1..(i - 1) : Silent(c, q, k)
    <3>1. \A k \in 1..i : Silent(c, q, k)
      BY <2>2, <2>3, <1>1
    <3> QED BY <2>3, <3>1 DEF MayReturn, q
  <2>4. ASSUME NEW j \in 1..(i - 1),
               Says(c, q, j), y \in Sets(q[j], c.op), \A k \in (j + 1)..(i - 1) : Silent(c, q, k)
        PROVE  MayReturn(c, q, i, y)
    <3>1. j \in 1..i
      BY <1>1
    <3>2. \A k \in (j + 1)..i : Silent(c, q, k)
      BY <2>2, <2>4, <1>1
    <3> QED BY <2>4, <3>1, <3>2 DEF MayReturn
  <2> QED BY <2>1, <2>3, <2>4 DEF MayReturn, q
<1> QED BY <1>2, <1>3

(* What may be returned at the end of the walk is what the property says.  *)
LEMMA WalkDone ==
  ASSUME NEW c, NEW f \in FileTexts, NEW x,
         MayReturn(c, WantedOf[f], Len(WantedOf[f]), x)
  PROVE  x \in Asked(c, WantedOf[f]) \cup Beyond(c, WantedOf[f])
<1> DEFINE q == WantedOf[f]
<1>1. /\ DOMAIN q = 1..Len(q) /\ Len(q) \in Nat
      /\ \A i \in 1..Len(q) : q[i].probability \in Nat
  BY WantedShape
<1> HIDE DEF q
<1> DEFINE S(i) == Hits(q[i], c) /\ Sets(q[i], c.op) # {} /\ q[i].probability > 0
           Quiet(i) == S(i) => q[i].probability < 100
<1>2. \A i \in 1..Len(q) : Silent(c, q, i) => Quiet(i)
  BY DEF Silent, Says
<1>3. ASSUME x = 0, \A i \in 1..Len(q) : Silent(c, q, i)
      PROVE  x \in Asked(c, q)
  <2>1. \A i \in DOMAIN q : Quiet(i)
    BY <1>1, <1>2, <1>3
  <2> QED BY <1>3, <2>1 DEF Asked
<1>4. ASSUME NEW j \in 1..Len(q),
             Says(c, q, j), x \in Sets(q[j], c.op), \A k \in (j + 1)..Len(q) : Silent(c, q, k)
      PROVE  x \in Asked(c, q) \cup Beyond(c, q)
  <2>1. j \in DOMAIN q /\ Hits(q[j], c)
    BY <1>1, <1>4 DEF Says
  <2>2. CASE q[j].probability = 0
    BY <1>4, <2>1, <2>2 DEF Beyond
  <2>3. CASE q[j].probability # 0 /\ x \notin Supported(q[j], c.op)
    BY <1>4, <2>1, <2>3 DEF Beyond
  <2>4. CASE q[j].probability # 0 /\ x \in Supported(q[j], c.op)
    <3>1. S(j)
      BY <1>1, <1>4, <2>4 DEF Says
    <3>2. \A k \in (j + 1)..Len(q) : Quiet(k)
      BY <1>1, <1>2, <1>4
    <3> QED BY <2>1, <2>4, <3>1, <3>2 DEF Asked
  <2> QED BY <2>2, <2>3, <2>4
<1> QED BY <1>3, <1>4 DEF MayReturn, q

-----------------------------------------------------------------------------
(* The invariant holds at the start and after every step. *)

LEMMA InitHolds == ASSUME Init PROVE EInv
<1>1. file \in FileTexts
  BY DEF Init, FileTexts
<1>2. InForce
  BY <1>1, Loaded DEF Init, InForce
<1>3. TypeOK
  BY DEF Init, TypeOK
<1>4. Shape
  BY <1>1 DEF Init, Shape, CallOps
<1>5. OneEditor /\ SavedIsRead /\ Walks /\ WalksLiveList
  BY <1>2 DEF Init, OneEditor, Edits, SavedIsRead, SavedTakesEffect, InForce, Walks, Walk,
              WalksLiveList
<1> QED BY <1>3, <1>4, <1>5 DEF EInv

(* A call; open, write, flush and release of the file are the editor's. *)
LEMMA CallHolds ==
  ASSUME EInv, NEW t \in Threads, NEW op \in CallOps, NEW path \in {Conf, Data},
         Call(t, op, path),
         IF path = Conf /\ op \in EditOps THEN editing # "busy" /\ editing' = "busy"
                                         ELSE editing' = editing
  PROVE  EInv'
<1> USE DEF EInv, Call
<1>1. TypeOK'
  BY DEF TypeOK, Shape
<1>2. Shape'
  BY DEF TypeOK, Shape
<1>3. OneEditor'
  BY DEF OneEditor, Edits, TypeOK, Shape
<1>4. SavedIsRead'
  BY DEF SavedIsRead, SavedTakesEffect, Edits, InForce, TypeOK, Shape
<1>5. Walks'
  <2> SUFFICES ASSUME NEW u \in Threads PROVE Walk(u)'
    BY DEF Walks
  <2>1. CASE u = t
    BY <2>1 DEF Walk, InForce, TypeOK, Shape, SavedIsRead, SavedTakesEffect
  <2>2. CASE u # t
    BY <2>2 DEF Walks, Walk, InForce, TypeOK, Shape
  <2> QED BY <2>1, <2>2
<1>6. WalksLiveList'
  BY DEF WalksLiveList, TypeOK, Shape
<1> QED BY <1>1, <1>2, <1>3, <1>4, <1>5, <1>6

LEMMA LockHolds ==
  ASSUME EInv, NEW t \in Threads, Lock(t)
  PROVE  EInv'
<1> USE DEF EInv, Lock, Begin
<1>0. call[t].path = Conf => InForce'
  BY Loaded DEF InForce, Shape
<1>1. TypeOK'
  BY DEF TypeOK, Shape
<1>2. Shape'
  BY DEF TypeOK, Shape
<1>3. OneEditor'
  BY DEF OneEditor, Edits, TypeOK, Shape
<1>4. SavedIsRead'
  BY <1>0 DEF SavedIsRead, SavedTakesEffect, Edits, InForce, TypeOK, Shape, EditOps, Conf, Data
<1>5. Walks'
  <2> SUFFICES ASSUME NEW u \in Threads PROVE Walk(u)'
    BY DEF Walks
  <2>1. CASE u = t
    BY <2>1, WantedShape DEF Walks, Walk, InForce, MayReturn, TypeOK, Shape, Conf, Data
  <2>2. CASE u # t
    BY <1>0, <2>2 DEF Walks, Walk, InForce, TypeOK, Shape
  <2> QED BY <2>1, <2>2
<1>6. WalksLiveList'
  BY DEF WalksLiveList, TypeOK, Shape
<1> QED BY <1>1, <1>2, <1>3, <1>4, <1>5, <1>6

LEMMA WalkEntryHolds ==
  ASSUME EInv, NEW t \in Threads, WalkEntry(t)
  PROVE  EInv'
<1> USE DEF EInv, WalkEntry
<1>1. TypeOK'
  BY DEF TypeOK, Shape, Walks, Walk, Conf, Data
<1>2. Shape'
  BY DEF TypeOK, Shape
<1>3. OneEditor'
  BY DEF OneEditor, Edits, TypeOK, Shape
<1>4. SavedIsRead'
  BY DEF SavedIsRead, SavedTakesEffect, Edits, InForce, TypeOK, Shape
<1>5. Walks'
  <2> SUFFICES ASSUME NEW u \in Threads PROVE Walk(u)'
    BY DEF Walks
  <2>1. CASE u = t /\ steady[t]
    <3> DEFINE e == list[t][at[t]]
    <3>1. PICK p \in Draws :
            IF Triggers(e, p) /\ Hits(e, call[t]) /\ Sets(e, call[t].op) # {}
              THEN \E n \in Sets(e, call[t].op) : rc' = [rc EXCEPT ![t] = n]
              ELSE UNCHANGED rc
      OBVIOUS
    <3>2. IF Triggers(e, p) /\ Hits(e, call[t]) /\ Sets(e, call[t].op) # {}
            THEN rc'[t] \in Sets(e, call[t].op)
            ELSE rc'[t] = rc[t]
      BY <3>1 DEF Shape
    <3>3. /\ list[t] = WantedOf[file] /\ file \in FileTexts
          /\ at[t] \in 1..Len(WantedOf[file])
          /\ MayReturn(call[t], WantedOf[file], at[t] - 1, rc[t])
      BY <2>1, WantedShape DEF Walks, Walk, Shape, TypeOK
    <3>4. MayReturn(call[t], WantedOf[file], at[t], rc'[t])
      BY <3>2, <3>3, WalkOn
    <3>5. at'[t] - 1 = at[t] /\ at'[t] \in 1..(Len(WantedOf[file]) + 1)
      BY <3>3, WantedShape DEF TypeOK
    <3> QED BY <2>1, <3>3, <3>4, <3>5 DEF Walks, Walk
  <2>2. CASE u = t /\ ~steady[t]
    BY <2>2 DEF Walks, Walk
  <2>3. CASE u # t
    BY <2>3 DEF Walks, Walk, InForce, TypeOK, Shape
  <2> QED BY <2>1, <2>2, <2>3
<1>6. WalksLiveList'
  BY DEF WalksLiveList
<1> QED BY <1>1, <1>2, <1>3, <1>4, <1>5, <1>6

LEMMA WalkEndsHolds ==
  ASSUME EInv, NEW t \in Threads, WalkEnds(t)
  PROVE  EInv'
<1> USE DEF EInv, WalkEnds
<1>1. TypeOK' /\ Shape'
  BY DEF TypeOK, Shape
<1>2. OneEditor' /\ SavedIsRead'
  BY DEF OneEditor, SavedIsRead, SavedTakesEffect, Edits, InForce, TypeOK, Shape, Walks, Walk, Conf, Data
<1>3. Walks'
  <2> SUFFICES ASSUME NEW u \in Threads PROVE Walk(u)'
    BY DEF Walks
  <2>1. CASE u = t /\ steady[t]
    <3>1. /\ list[t] = WantedOf[file] /\ file \in FileTexts
          /\ at[t] - 1 = Len(list[t])
      BY <2>1, WantedShape DEF Walks, Walk, Shape, TypeOK
    <3> QED BY <2>1, <3>1 DEF Walks, Walk, TypeOK
  <2>2. CASE u = t /\ ~steady[t]
    BY <2>2 DEF Walks, Walk, TypeOK
  <2>3. CASE u # t
    BY <2>3 DEF Walks, Walk, InForce, TypeOK, Shape
  <2> QED BY <2>1, <2>2, <2>3
<1>4. WalksLiveList'
  BY DEF WalksLiveList, TypeOK
<1> QED BY <1>1, <1>2, <1>3, <1>4

LEMMA UnlockHolds ==
  ASSUME EInv, NEW t \in Threads, Unlock(t)
  PROVE  EInv'
<1> USE DEF EInv, Unlock
<1>1. TypeOK' /\ Shape'
  BY DEF TypeOK, Shape
<1>2. OneEditor' /\ SavedIsRead'
  BY DEF OneEditor, SavedIsRead, SavedTakesEffect, Edits, InForce, TypeOK, Shape
<1>3. Walks'
  BY DEF Walks, Walk, InForce, TypeOK, Shape
<1>4. WalksLiveList'
  BY DEF WalksLiveList, TypeOK
<1> QED BY <1>1, <1>2, <1>3, <1>4

(* The handlers that may change the file: what they share. *)
LEMMA ActHolds ==
  ASSUME EInv, NEW t \in Threads, pc[t] = "injected", Leave(t),
         (Shape /\ SavedIsRead)',
         editing' \in {"closed", "open", "busy", "flushed"},
         Edits(t) \/ editing' = editing,
         UNCHANGED <<file, steady>> \/ \E lines \in FileTexts : Change(lines)
  PROVE  EInv'
<1> USE DEF EInv, Leave
<1>1. TypeOK'
  BY DEF TypeOK
<1>2. OneEditor'
  BY DEF OneEditor, Edits, TypeOK
<1>3. Walks'
  <2> SUFFICES ASSUME NEW u \in Threads PROVE Walk(u)'
    BY DEF Walks
  <2>1. steady'[u] => steady[u] /\ file' = file
    BY DEF Change
  <2> QED BY <2>1 DEF Walks, Walk, InForce, TypeOK
<1>4. WalksLiveList'
  BY DEF WalksLiveList, TypeOK
<1> QED BY <1>1, <1>2, <1>3, <1>4

LEMMA ActOnConfHolds ==
  ASSUME EInv, NEW t \in Threads, ActOnConf(t)
  PROVE  EInv'
<1> USE DEF EInv, ActOnConf
<1>1. Saved \cup {<<>>, NoFile, file} \subseteq FileTexts
  BY DEF Shape, FileTexts
<1>2. CASE call[t].op \in {"open", "write"}
  <2>1. Edits(t) /\ editing' = "open" /\ moved' = moved /\ \E lines \in FileTexts : Change(lines)
    BY <1>1, <1>2 DEF Edits, EditOps
  <2>2. Shape'
    BY <2>1 DEF Shape, Change, Leave
  <2>3. SavedIsRead'
    BY <2>1 DEF SavedIsRead, SavedTakesEffect, OneEditor, Edits, Leave, TypeOK
  <2> QED BY <2>1, <2>2, <2>3, ActHolds
<1>3. CASE call[t].op \in {"flush", "release"}
  <2>1. Edits(t) /\ editing' \in {"flushed", "closed"} /\ UNCHANGED <<file, steady, moved>>
    BY <1>3 DEF Edits, EditOps
  <2>2. Shape'
    BY <2>1 DEF Shape, Leave
  <2>3. SavedIsRead'
    BY <1>3, <2>1 DEF SavedIsRead, SavedTakesEffect, InForce, OneEditor, Edits, Leave, TypeOK
  <2> QED BY <2>1, <2>2, <2>3, ActHolds
<1>4. CASE call[t].op \in {"unlink", "truncate"}
  <2>1. editing' = editing /\ moved' = TRUE /\ \E lines \in FileTexts : Change(lines)
    BY <1>1, <1>4
  <2>2. Shape' /\ SavedIsRead'
    BY <2>1 DEF Shape, Change, Leave, SavedIsRead, SavedTakesEffect
  <2> QED BY <2>1, <2>2, ActHolds DEF TypeOK
<1>5. CASE call[t].op = "getattr"
  <2>1. UNCHANGED <<file, steady, moved, editing>>
    BY <1>5
  <2>2. Shape' /\ SavedIsRead'
    BY <2>1 DEF Shape, Leave, SavedIsRead, SavedTakesEffect, InForce, Edits, TypeOK
  <2> QED BY <2>1, <2>2, ActHolds DEF TypeOK
<1> QED BY <1>2, <1>3, <1>4, <1>5

LEMMA ActOnDataHolds ==
  ASSUME EInv, NEW t \in Threads, ActOnData(t)
  PROVE  EInv'
<1> USE DEF EInv, ActOnData
<1>1. CASE \E lines \in Saved : Change(lines) /\ moved' = TRUE
  <2>1. \E lines \in FileTexts : Change(lines)
    BY <1>1 DEF FileTexts
  <2>2. Shape' /\ SavedIsRead'
    BY <1>1, <2>1 DEF Shape, Change, Leave, SavedIsRead, SavedTakesEffect
  <2> QED BY <2>1, <2>2, ActHolds DEF TypeOK
<1>2. CASE UNCHANGED <<file, steady, moved>>
  <2>1. Shape' /\ SavedIsRead'
    BY <1>2 DEF Shape, Leave, SavedIsRead, SavedTakesEffect, InForce, Edits, TypeOK
  <2> QED BY <1>2, <2>1, ActHolds DEF TypeOK
<1> QED BY <1>1, <1>2

LEMMA CrashHolds ==
  ASSUME EInv, NEW t \in Threads, CrashAndMount(t)
  PROVE  EInv'
<1> USE DEF EInv, CrashAndMount
<1>1. InForce'
  BY Loaded DEF InForce, Shape
<1>2. TypeOK' /\ Shape'
  BY DEF TypeOK, Shape
<1>3. OneEditor' /\ SavedIsRead' /\ WalksLiveList'
  BY <1>1 DEF OneEditor, Edits, SavedIsRead, SavedTakesEffect, InForce, WalksLiveList
<1>4. Walks'
  BY DEF Walks, Walk
<1> QED BY <1>2, <1>3, <1>4

LEMMA NextHolds == ASSUME EInv, [Next]_vars PROVE EInv'
<1>1. ASSUME NEW t \in Threads, Edit(t) PROVE EInv'
  <2>1. PICK op \in EditOps : Call(t, op, Conf) /\ editing # "busy" /\ editing' = "busy"
    BY <1>1 DEF Edit, EditOps
  <2> QED BY <2>1, CallHolds DEF CallOps
<1>2. ASSUME NEW t \in Threads, Ask(t) \/ ChangeByName(t) PROVE EInv'
  <2>1. PICK op \in {"getattr", "unlink", "truncate"} : Call(t, op, Conf) /\ editing' = editing
    BY <1>2 DEF Ask, ChangeByName
  <2>2. op \in CallOps /\ op \notin EditOps
    BY DEF CallOps, EditOps
  <2> QED BY <2>1, <2>2, CallHolds
<1>3. ASSUME NEW t \in Threads, CallOther(t) PROVE EInv'
  <2>1. PICK op \in Ops : Call(t, op, Data) /\ editing' = editing
    BY <1>3 DEF CallOther
  <2>2. op \in CallOps /\ Data # Conf
    BY DEF CallOps, Conf, Data
  <2> QED BY <2>1, <2>2, CallHolds
<1>4. ASSUME NEW t \in Threads, Handle(t) PROVE EInv'
  BY <1>4, LockHolds, WalkEntryHolds, WalkEndsHolds, UnlockHolds, ActOnConfHolds,
     ActOnDataHolds, CrashHolds DEF Handle
<1>5. CASE UNCHANGED vars
  <2> USE <1>5 DEF vars, threadVars, EInv
  <2>1. TypeOK' /\ Shape' /\ OneEditor' /\ SavedIsRead' /\ WalksLiveList'
    BY DEF TypeOK, Shape, OneEditor, Edits, SavedIsRead, SavedTakesEffect, InForce, WalksLiveList
  <2>2. Walks'
    BY DEF Walks, Walk, InForce
  <2> QED BY <2>1, <2>2
<1> QED BY <1>1, <1>2, <1>3, <1>4, <1>5 DEF Next

-----------------------------------------------------------------------------
(* The inductive invariant holds in every state. *)
THEOREM Invariant == Spec => []EInv
<1>1. Init => EInv
  BY InitHolds
<1>2. EInv /\ [Next]_vars => EInv'
  BY NextHolds
<1> QED BY <1>1, <1>2, PTL DEF Spec

(* conf.mutex is held by the one handler that is between lock and unlock,  *)
(* and the places of the handlers are those of error_inject.               *)
THEOREM TypeCorrect == Spec => []TypeOK
<1>1. EInv => TypeOK
  BY DEF EInv
<1> QED BY <1>1, Invariant, PTL

(* Nobody walks through a list that another handler has deleted.           *)
THEOREM NobodyWalksDeleted == Spec => []WalksLiveList
<1>1. EInv => WalksLiveList
  BY DEF EInv
<1> QED BY <1>1, Invariant, PTL

(* A configuration that was written and closed is in force until the file  *)
(* is replaced, removed or truncated.                                      *)
THEOREM SavedIsInForce == Spec => []SavedTakesEffect
<1>1. EInv => SavedTakesEffect
  BY DEF EInv, SavedIsRead
<1> QED BY <1>1, Invariant, PTL

(* What a handler is injected is what the configuration in force asks for, *)
(* but for entries of probability 0 and errnos from behind the arrays.     *)
THEOREM OnlyConfiguredFaults == Spec => []FaultsAreConfigured
<1>1. EInv => FaultsAreConfigured
  <2> SUFFICES ASSUME EInv, NEW t \in Threads, Settled(t)
               PROVE  rc[t] \in Asked(call[t], WantedOf[file]) \cup Beyond(call[t], WantedOf[file])
    BY DEF FaultsAreConfigured
  <2>1. MayReturn(call[t], WantedOf[file], Len(WantedOf[file]), rc[t])
    BY DEF EInv, Walks, Walk, Settled
  <2> QED BY <2>1, WalkDone DEF EInv, Shape
<1> QED BY <1>1, Invariant, PTL
=============================================================================
