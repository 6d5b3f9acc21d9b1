---------------------------- MODULE MCErrInject -----------------------------
(* Instance of ErrInject for TLC.  The parser is compared with what a file  *)
(* says on all files of up to MaxLines lines out of a few.                  *)
EXTENDS ErrInject, TLC

CONSTANT MaxLines

Section(name) == [indent |-> FALSE, kind |-> "section", name |-> name, value |-> None]
Option(key, value) == [indent |-> FALSE, kind |-> "option", name |-> key, value |-> value]
Indented(line) == [line EXCEPT !.indent = TRUE]
Comment == [indent |-> TRUE, kind |-> "comment", name |-> None, value |-> None]
Broken == [indent |-> FALSE, kind |-> "broken", name |-> None, value |-> None]

Symmetry == Permutations(Threads)

ShortLines ==
    {Section("errno"), Section("noop"), Section("no such type"),
     Option("probability", "100"), Option("op_regexp", "write"),
     Indented(Option("probability", "50")), Indented(Section("noop")),
     Option(None, "100"), Comment, Broken}

ASSUME ParserAssumption ==
    \A n \in 0..MaxLines : \A f \in [1..n -> ShortLines] : ini_parse(f) = Wanted(f)

FirstFiles ==
    {<<Section("errno"), Option("probability", "100"),
       Section("wow_crash"), Option("op_regexp", "release"), Option("probability", "50"),
       Section("errno"), Option("op_regexp", "write")>>,
     <<Section("errno"), Option("probability", "0")>>}

LaterFiles ==
    {<<Section("noop"), Option("probability", "100"), Option("path_regexp", "data")>>,
     <<Section("slowdown"), Option("probability", "50"), Section("errno"),
       Option("op_regexp", "rename"), Option("probability", "100"),
       Section("wow_reorder_server"), Option("probability", "50"),
       Section("wow_delay"), Option("path_regexp", "data")>>}

AllLines ==
    ShortLines \cup UNION {Range(f) : f \in FirstFiles \cup LaterFiles}
=============================================================================
