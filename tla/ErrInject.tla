----------------------------- MODULE ErrInject ------------------------------
(***************************************************************************)
(* Error injection: the configuration file unreliablefs.conf, the parser   *)
(* of conf.c and its handler, the list conf.errors behind conf.mutex, and  *)
(* error_inject, which every FUSE handler calls first.  The file lies in   *)
(* the mounted directory; it is read again whenever a handler is called    *)
(* for it, before that handler does its work.                              *)
(*                                                                         *)
(* A line of the file is a record: is it indented, what kind of line it    *)
(* is, and its name and value.  A text is read as a number by atoi and as  *)
(* a pattern by regcomp: here a pattern is a literal, or ".*".             *)
(***************************************************************************)
EXTENDS Integers, Sequences, FiniteSetsExt, SequencesExt

CONSTANTS
    Threads,        \* worker threads of libfuse
    Lines,          \* lines a configuration file may have
    Files,          \* contents the configuration file may have at the start
    Saved,          \* contents that are written later, here or elsewhere
    Ops,            \* operations on other files
    MaxCalls,       \* bound on the calls of the file system
    NoFile, Null,   \* no configuration file, no list
    None            \* no thread or pattern

ASSUME ErrInjectAssumption == MaxCalls \in Nat /\ None \notin Threads

Conf == "conf"      \* config_path
Data == "data"      \* another file

Types == {"errno", "kill_caller", "noop", "slowdown",
          "wow_reorder_local", "wow_reorder_server", "wow_delay", "wow_crash"}
Keys == {"path_regexp", "op_regexp", "probability", "duration"}

(* A name or value that is not given is not one that is.                   *)
ASSUME LinesAssumption ==
    /\ Files \cup Saved \subseteq Seq(Lines)
    /\ \A l \in Lines : l.indent \in BOOLEAN
    /\ None \notin Types \cup {"100", "50"}

(* What error_inject returns: -errno for these, and two numbers that are   *)
(* negative in the source and so come out positive.                        *)
EIO == 5
ENOTBLK == 15       \* WOW_REORDER_LOCAL_ERROR
EBUSY == 16         \* WOW_DELAY_ERROR
EEXIST == 17        \* WOW_REORDER_WRITEBACK_ERROR
ERRNO_NOOP == -999
ERRNO_WOW_CRASH == -998

VARIABLES
    file,       \* the lines of the configuration file
    errors,     \* conf.errors
    mutex,      \* who holds conf.mutex
    pc,         \* thread -> where its handler is
    call,       \* thread -> the operation and path of its handler
    list,       \* thread -> the list it walks
    at,         \* thread -> its place in that list
    rc,         \* thread -> what error_inject is about to return
    editing,    \* the life of the one handle on the configuration file
    moved,      \* history: the file was changed by its name since it was read
    steady,     \* history: thread -> the file did not change since its call
    calls       \* calls so far

threadVars == <<pc, call, list, at, rc>>
vars == <<file, errors, mutex, threadVars, editing, moved, steady, calls>>

-----------------------------------------------------------------------------
(* conf.c: ini_parse_stream, with conf_option_handler as its handler. *)

Entry(type) == [type |-> type, path_regexp |-> None, op_regexp |-> None, probability |-> 0]

atoi(value) == CASE value = "100" -> 100 [] value = "50" -> 50 [] OTHER -> 0

SetKey(e, key, value) ==
    CASE key = "path_regexp" -> [e EXCEPT !.path_regexp = value]
      [] key = "op_regexp" -> [e EXCEPT !.op_regexp = value]
      [] key = "probability" -> [e EXCEPT !.probability = atoi(value)]
      [] OTHER -> e

(* A known section has one entry, wherever its lines are. *)
conf_option_handler(q, section, key, value) ==
    LET np == {i \in DOMAIN q : q[i].type = section}
    IN IF section \notin Types THEN q
       ELSE IF np = {} THEN Append(q, SetKey(Entry(section), key, value))
       ELSE [q EXCEPT ![CHOOSE i \in np : TRUE] = SetKey(@, key, value)]

(* An indented line continues the value before it, if that had a name, and *)
(* a line that is none of these, with an error that nobody looks at,       *)
(* changes nothing.                                                        *)
ParseLine(s, l) ==
    IF l.kind = "comment" THEN s
    ELSE IF l.indent /\ s.prev # None
         THEN [s EXCEPT !.q = conf_option_handler(s.q, s.section, s.prev, "text")]
    ELSE IF l.kind = "section"
         THEN [s EXCEPT !.section = l.name, !.prev = None]
    ELSE IF l.kind = "option"
         THEN [s EXCEPT !.prev = l.name, !.q = conf_option_handler(s.q, s.section, l.name, l.value)]
    ELSE s

ini_parse(lines) ==
    FoldLeft(ParseLine, [section |-> None, prev |-> None, q |-> <<>>], lines).q

(* The file may be there and yet fail to open. *)
config_init(lines) == IF lines = NoFile THEN {<<>>} ELSE {ini_parse(lines), Null}

-----------------------------------------------------------------------------
(* error_inject. *)

is_regex_matched(regex, string) == regex \in {None, ".*", string}

Hits(e, c) == is_regex_matched(e.path_regexp, c.path) /\ is_regex_matched(e.op_regexp, c.op)

(* The codes that the arrays of errno values hold and a handler may take   *)
(* for something else; EIO stands for all others.  rand_range may step     *)
(* past an array, to padding or to the first element of the next one.      *)
ErrnoTable(op) ==
    CASE op \in {"open", "mkdir"} -> {EIO, EEXIST}
      [] op = "rename" -> {EIO, EBUSY, EEXIST}
      [] op = "unlink" -> {EIO, EBUSY}
      [] OTHER -> {EIO}

op_random_errno(op) == ErrnoTable(op) \cup {0, EIO}

(* What an entry that is triggered may set rc to; nothing leaves rc alone. *)
Sets(e, op) ==
    CASE e.type = "wow_reorder_local" /\ op \in {"flush", "write"} -> {-ENOTBLK}
      [] e.type = "wow_reorder_server" /\ op \in {"flush", "release", "open"} -> {-EEXIST}
      [] e.type = "wow_delay" /\ op = "write" -> {-EBUSY}
      [] e.type = "wow_crash" -> {-ERRNO_WOW_CRASH}
      [] e.type = "noop" -> {-ERRNO_NOOP}
      [] e.type = "errno" -> {-n : n \in op_random_errno(op)}
      [] OTHER -> {}

(* Mutant of Triggers: 100 is not always. *)
TriggersBelow(e, p) == p < e.probability

Triggers(e, p) == p <= e.probability

(* Mutant of Begin: only open reads the file again. *)
BeginAtOpen(t) ==
    /\ pc[t] = "called"
    /\ IF call[t].path = Conf
       THEN /\ errors' \in IF call[t].op = "open" THEN config_init(file) ELSE {errors}
            /\ moved' = FALSE
            /\ pc' = [pc EXCEPT ![t] = "unlock"]
            /\ UNCHANGED <<list, at>>
       ELSE /\ pc' = [pc EXCEPT ![t] = IF errors = Null THEN "unlock" ELSE "walk"]
            /\ list' = [list EXCEPT ![t] = errors]
            /\ at' = [at EXCEPT ![t] = 1]
            /\ UNCHANGED <<errors, moved>>
    /\ UNCHANGED <<file, call, rc, editing, steady, calls>>

(* For the configuration file the list is deleted and read again, for      *)
(* another one a walk through the list begins.                             *)
Begin(t) ==
    /\ pc[t] = "called"
    /\ IF call[t].path = Conf
       THEN /\ errors' \in config_init(file)
            /\ moved' = FALSE
            /\ pc' = [pc EXCEPT ![t] = "unlock"]
            /\ UNCHANGED <<list, at>>
       ELSE /\ pc' = [pc EXCEPT ![t] = IF errors = Null THEN "unlock" ELSE "walk"]
            /\ list' = [list EXCEPT ![t] = errors]
            /\ at' = [at EXCEPT ![t] = 1]
            /\ UNCHANGED <<errors, moved>>
    /\ UNCHANGED <<file, call, rc, editing, steady, calls>>

(* Mutant of Lock: nobody is kept out. *)
LockNot(t) == Begin(t) /\ UNCHANGED mutex

Lock(t) == mutex = None /\ mutex' = t /\ Begin(t)

Draws == {0, 50, 100}   \* of rand_range(MIN_PROBABLITY, MAX_PROBABLITY)

WalkEntry(t) ==
    /\ pc[t] = "walk"
    /\ at[t] <= Len(list[t])
    /\ LET e == list[t][at[t]]
           new == Sets(e, call[t].op)
       IN \E p \in Draws :
            IF Triggers(e, p) /\ Hits(e, call[t]) /\ new # {}
            THEN \E n \in new : rc' = [rc EXCEPT ![t] = n]
            ELSE UNCHANGED rc
    /\ at' = [at EXCEPT ![t] = @ + 1]
    /\ UNCHANGED <<file, errors, mutex, pc, call, list, editing, moved, steady, calls>>

WalkEnds(t) ==
    /\ pc[t] = "walk"
    /\ at[t] > Len(list[t])
    /\ pc' = [pc EXCEPT ![t] = "unlock"]
    /\ UNCHANGED <<file, errors, mutex, call, list, at, rc, editing, moved, steady, calls>>

Unlock(t) ==
    /\ pc[t] = "unlock"
    /\ mutex' = None
    /\ pc' = [pc EXCEPT ![t] = "injected"]
    /\ UNCHANGED <<file, errors, call, list, at, rc, editing, moved, steady, calls>>

-----------------------------------------------------------------------------
(* The handlers: what they make of rc, and what they do to the file. *)

Interpret(op, n) ==
    CASE n = 0 -> "done"
      [] n = -ERRNO_NOOP -> "skipped"
      [] op = "open" /\ n = -EEXIST -> "done"
      [] op = "write" /\ n \in {-ENOTBLK, -EBUSY} -> "delayed"
      [] op = "flush" /\ n \in {-ENOTBLK, -EEXIST} -> "done"
      [] op = "release" /\ n = -EEXIST -> "delayed"
      [] op \in {"read", "flush", "release"} /\ n = -ERRNO_WOW_CRASH -> "crash"
      [] OTHER -> "failed"

(* An application edits the file through one handle at a time.  A handler  *)
(* of another file may run at any time, and one that asks about this file. *)
Call(t, op, path) ==
    /\ pc[t] = "idle"
    /\ calls < MaxCalls
    /\ calls' = calls + 1
    /\ pc' = [pc EXCEPT ![t] = "called"]
    /\ call' = [call EXCEPT ![t] = [op |-> op, path |-> path]]
    /\ rc' = [rc EXCEPT ![t] = 0]
    /\ steady' = [steady EXCEPT ![t] = editing \in {"closed", "flushed"} /\ ~moved]
    /\ UNCHANGED <<file, errors, mutex, list, at, moved>>

Edit(t) ==
    \/ editing = "closed" /\ editing' = "busy" /\ Call(t, "open", Conf)
    \/ editing = "open" /\ editing' = "busy" /\ (Call(t, "write", Conf) \/ Call(t, "flush", Conf))
    \/ editing = "flushed" /\ editing' = "busy" /\ Call(t, "release", Conf)

Ask(t) == Call(t, "getattr", Conf) /\ UNCHANGED editing

(* By its name the file is changed after it was read. *)
ChangeByName(t) == \E op \in {"unlink", "truncate"} : Call(t, op, Conf) /\ UNCHANGED editing

CallOther(t) == \E op \in Ops : Call(t, op, Data) /\ UNCHANGED editing

Change(lines) ==
    /\ file' = lines
    /\ steady' = IF lines = file THEN steady ELSE [t \in Threads |-> FALSE]

Leave(t) ==
    /\ pc' = [pc EXCEPT ![t] = "idle"]
    /\ UNCHANGED <<errors, mutex, call, list, at, rc, calls>>

(* open may empty the file or bring another client's version of it. *)
ActOnConf(t) ==
    /\ pc[t] = "injected"
    /\ call[t].path = Conf
    /\ Leave(t)
    /\ \/ /\ call[t].op = "open"
          /\ \E lines \in (Saved \cup {<<>>, file}) \ {NoFile} : Change(lines)
          /\ editing' = "open"
          /\ UNCHANGED moved
       \/ /\ call[t].op = "write"
          /\ \E lines \in Saved : Change(lines)
          /\ editing' = "open"
          /\ UNCHANGED moved
       \/ /\ call[t].op = "flush"
          /\ editing' = "flushed"
          /\ UNCHANGED <<file, steady, moved>>
       \/ /\ call[t].op = "release"
          /\ editing' = "closed"
          /\ UNCHANGED <<file, steady, moved>>
       \/ /\ call[t].op = "unlink"
          /\ Change(NoFile)
          /\ moved' = TRUE
          /\ UNCHANGED editing
       \/ /\ call[t].op = "truncate"
          /\ Change(IF file = NoFile THEN NoFile ELSE <<>>)
          /\ moved' = TRUE
          /\ UNCHANGED editing
       \/ call[t].op = "getattr" /\ UNCHANGED <<file, steady, moved, editing>>

(* A rename onto the configuration file asks about the old name only. *)
ActOnData(t) ==
    /\ pc[t] = "injected"
    /\ call[t].path = Data
    /\ Interpret(call[t].op, rc[t]) # "crash"
    /\ Leave(t)
    /\ UNCHANGED editing
    /\ IF call[t].op = "rename" /\ Interpret("rename", rc[t]) = "done"
       THEN /\ \E lines \in Saved : Change(lines)
            /\ moved' = TRUE
       ELSE UNCHANGED <<file, steady, moved>>

Init ==
    /\ file \in Files \cup {NoFile}
    /\ errors \in config_init(file)
    /\ mutex = None
    /\ pc = [t \in Threads |-> "idle"]
    /\ call = [t \in Threads |-> [op |-> "none", path |-> Data]]
    /\ list = [t \in Threads |-> <<>>]
    /\ at = [t \in Threads |-> 0]
    /\ rc = [t \in Threads |-> 0]
    /\ editing = "closed"
    /\ moved = FALSE
    /\ steady = [t \in Threads |-> FALSE]
    /\ calls = 0

(* std::terminate; the client is mounted again and main reads the file. *)
CrashAndMount(t) ==
    /\ pc[t] = "injected"
    /\ Interpret(call[t].op, rc[t]) = "crash"
    /\ errors' \in config_init(file)
    /\ mutex' = None
    /\ pc' = [u \in Threads |-> "idle"]
    /\ editing' = "closed"
    /\ moved' = FALSE
    /\ UNCHANGED <<file, call, list, at, rc, steady, calls>>

Handle(t) ==
    \/ Lock(t) \/ WalkEntry(t) \/ WalkEnds(t) \/ Unlock(t)
    \/ ActOnConf(t) \/ ActOnData(t) \/ CrashAndMount(t)

Next == \E t \in Threads : Edit(t) \/ Ask(t) \/ ChangeByName(t) \/ CallOther(t) \/ Handle(t)

Spec == Init /\ [][Next]_vars

-----------------------------------------------------------------------------
(* Properties. *)

(* The entries that a file asks for, stated by its lines: an indented line *)
(* belongs to the option before it, unless a line that closes it is        *)
(* between the two; any other option is of the section line before it; and *)
(* of several values the last one counts.                                  *)
Closes(l) == ~l.indent /\ (l.kind = "section" \/ (l.kind = "option" /\ l.name = None))

Continues(f, i) ==
    /\ f[i].indent /\ f[i].kind # "comment"
    /\ \E j \in 1..(i - 1) : /\ f[j].kind = "option" /\ f[j].name # None
                             /\ \A k \in (j + 1)..(i - 1) : ~Closes(f[k])

OpensSection(f, i) == f[i].kind = "section" /\ ~Continues(f, i)

SectionLine(f, i) ==
    CHOOSE j \in 0..i : /\ j = 0 \/ OpensSection(f, j)
                        /\ \A k \in (j + 1)..i : ~OpensSection(f, k)

OptionLine(f, i) ==
    CHOOSE j \in 1..i :
        /\ f[j].kind = "option" /\ ~Continues(f, j)
        /\ \A k \in (j + 1)..i : f[k].kind = "option" => Continues(f, k)

ValueLines(f, type) ==
    {i \in DOMAIN f : /\ f[i].kind = "option" \/ Continues(f, i)
                      /\ SectionLine(f, i) # 0
                      /\ f[SectionLine(f, i)].name = type}

Setting(f, type, key) ==
    LET lines == {i \in ValueLines(f, type) : f[OptionLine(f, i)].name = key}
        last == Max(lines)
    IN IF lines = {} THEN None ELSE IF Continues(f, last) THEN "text" ELSE f[last].value

Wanted(f) ==
    LET types == IF f = NoFile THEN {} ELSE {type \in Types : ValueLines(f, type) # {}}
        First(type) == Min(ValueLines(f, type))
        Nth(n) == CHOOSE type \in types :
                      Cardinality({other \in types : First(other) < First(type)}) = n - 1
    IN [n \in 1..Cardinality(types) |->
           [type |-> Nth(n),
            path_regexp |-> Setting(f, Nth(n), "path_regexp"),
            op_regexp |-> Setting(f, Nth(n), "op_regexp"),
            probability |-> atoi(Setting(f, Nth(n), "probability"))]]

WantedOf == [f \in Files \cup Saved \cup {<<>>, NoFile} |-> Wanted(f)]

(* What the manual says that entries q may do to an operation: probability  *)
(* 0 is never and 100 is always, an errno is one that the operation         *)
(* supports, and of several entries the last one counts.                    *)
Supported(e, op) == IF e.type = "errno" THEN {-n : n \in ErrnoTable(op)} ELSE Sets(e, op)

Asked(c, q) ==
    LET Says(i) == Hits(q[i], c) /\ Sets(q[i], c.op) # {} /\ q[i].probability > 0
        Silent(i) == Says(i) => q[i].probability < 100
        last == {i \in DOMAIN q : Says(i) /\ \A k \in (i + 1)..Len(q) : Silent(k)}
    IN (UNION {Supported(q[i], c.op) : i \in last})
       \cup (IF \A i \in DOMAIN q : Silent(i) THEN {0} ELSE {})

(* What the code does beyond that: the number that is drawn may be 0, so    *)
(* that an entry of probability 0 is triggered, and the errno may come from *)
(* behind the array, where it may be 0.                                     *)
Beyond(c, q) ==
    UNION {IF q[i].probability = 0 THEN Sets(q[i], c.op)
           ELSE Sets(q[i], c.op) \ Supported(q[i], c.op) : i \in {j \in DOMAIN q : Hits(q[j], c)}}

(* The shape of the state. *)
TypeOK ==
    /\ mutex \in Threads \cup {None}
    /\ pc \in [Threads -> {"idle", "called", "walk", "unlock", "injected"}]
    /\ \A t \in Threads : pc[t] \in {"walk", "unlock"} <=> mutex = t
    /\ editing \in {"closed", "open", "busy", "flushed"}
    /\ \A t \in Threads : call[t].path = Conf => rc[t] = 0
    /\ at \in [Threads -> Nat]
    /\ calls \in 0..MaxCalls

(* "read configuration file on change": once an application has written    *)
(* the file and closed it, what it says is in force, whatever other        *)
(* handlers did meanwhile; unless it was replaced, removed or truncated.    *)
SavedTakesEffect ==
    editing \in {"closed", "flushed"} /\ ~moved => errors \in {Null, WantedOf[file]}

(* A handler called when a configuration was in force, and not disturbed   *)
(* by a new one, is injected what the manual says of that configuration,   *)
(* but for the two ways in which the code goes beyond it.                  *)
Settled(t) == pc[t] = "injected" /\ steady[t] /\ call[t].path = Data /\ list[t] # Null

FaultsAreConfigured ==
    \A t \in Threads : Settled(t) =>
        rc[t] \in Asked(call[t], WantedOf[file]) \cup Beyond(call[t], WantedOf[file])

(* "Probability equal to 0 means that error injection will never happen."  *)
(* It does not hold: the code draws from 0 to 100 and compares with <=.    *)
ZeroIsNever ==
    \A t \in Threads : Settled(t) /\ rc[t] # 0 =>
        \E i \in DOMAIN WantedOf[file] :
            WantedOf[file][i].probability > 0 /\ Hits(WantedOf[file][i], call[t])

(* "Probability equal to 100 means that error injection will happen on     *)
(* each file operation."  It does not hold: what is read behind the array  *)
(* may be 0.                                                               *)
HundredIsAlways ==
    \A t \in Threads : Settled(t) /\ rc[t] = 0 =>
        ~\E i \in DOMAIN WantedOf[file] :
            /\ WantedOf[file][i].type = "errno" /\ WantedOf[file][i].probability = 100
            /\ Hits(WantedOf[file][i], call[t])

(* Nobody walks through a list that another handler has deleted. *)
WalksLiveList == \A t \in Threads : pc[t] = "walk" => list[t] = errors

=============================================================================
