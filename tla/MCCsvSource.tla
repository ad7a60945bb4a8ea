---------------------------- MODULE MCCsvSource ----------------------------
(***************************************************************************)
(* Imports for CsvSource.  Lexing: every body of up to four symbols behind *)
(* a header, and longer ones picked for line breaks, quotes, escapes and   *)
(* limits.  Headers: pairs of node and relationship sources with and       *)
(* without groups, types and delimiters.                                   *)
(***************************************************************************)
EXTENDS CsvSource

Mark(kind, group, type, form) == [kind |-> kind, group |-> group, type |-> type, form |-> form]

Symbols == {":ID", ":ID(A)", ":ID(B)", ":ID(A){long}", ":LABEL", ":START_ID", ":START_ID(A)",
            ":END_ID", ":END_ID(A)", ":END_ID(B)", ":TYPE", ":IGNORE", ":int", ":junk"}

MCMarks == [x \in Symbols |->
  CASE x = ":ID"          -> Mark("ID", <<>>, Untyped, "plain")
    [] x = ":ID(A)"       -> Mark("ID", <<"A">>, Untyped, "(")
    [] x = ":ID(B)"       -> Mark("ID", <<"B">>, Untyped, "(")
    [] x = ":ID(A){long}" -> Mark("ID", <<"A">>, "long", "{")
    [] x = ":LABEL"       -> Mark("LABEL", <<>>, Untyped, "plain")
    [] x = ":START_ID"    -> Mark("START_ID", <<>>, Untyped, "plain")
    [] x = ":START_ID(A)" -> Mark("START_ID", <<"A">>, Untyped, "(")
    [] x = ":END_ID"      -> Mark("END_ID", <<>>, Untyped, "plain")
    [] x = ":END_ID(A)"   -> Mark("END_ID", <<"A">>, Untyped, "(")
    [] x = ":END_ID(B)"   -> Mark("END_ID", <<"B">>, Untyped, "(")
    [] x = ":TYPE"        -> Mark("TYPE", <<>>, Untyped, "plain")
    [] x = ":IGNORE"      -> Mark("IGNORE", <<>>, Untyped, "plain")
    [] x = ":int"         -> Mark("property", <<>>, "int", "plain")
    [] x = ":junk"        -> Mark("bad", <<>>, Untyped, "plain")]

-----------------------------------------------------------------------------
Options == [auto |-> FALSE, delimiter |-> <<",">>, arrayDelimiter |-> <<";">>, quote |-> <<"q">>,
            multiline |-> TRUE, legacy |-> FALSE, trim |-> FALSE,
            buffer |-> 8, memory |-> 64, idType |-> "string",
            ignoreExtra |-> TRUE, ignoreEmpty |-> FALSE, normalize |-> TRUE]

OneLine  == [Options EXCEPT !.multiline = FALSE, !.ignoreExtra = FALSE]
Trimming == [Options EXCEPT !.trim = TRUE]
Legacy   == [Options EXCEPT !.legacy = TRUE]
Wide     == [Options EXCEPT !.delimiter = <<",", ",">>, !.quote = <<"q", "q">>]
Tabs     == [Options EXCEPT !.delimiter = <<"TAB">>, !.trim = TRUE]
Tiny     == [Options EXCEPT !.buffer = 2, !.memory = 10]

Nodes(t) == [text |-> t, role |-> "node", typed |-> FALSE]

Reading(body, o, packed) ==
  [sources |-> <<Nodes(<<"h", "LF">> \o body)>>, read |-> 1, opts |-> o, packed |-> packed]

Alphabet == {"a", ",", "q", "LF", "CR"}
Short(n) == UNION {[1 .. k -> Alphabet] : k \in 0 .. n}

\* Line breaks of both kinds around quotes, blank lines, doubled quotes.
Picked == { <<"a", "CR", "LF", "b">>, <<"a", "CR", "b", "CR">>, <<"CR", "LF", "LF", "a">>,
            <<"q", "a", "CR", "LF", "b", "q", "LF", "c">>, <<"q", "LF", "LF", "q", "CR", "LF">>,
            <<"q", "q", "q", "a", "q", "q", "q", "LF">>, <<"q", "a", "q", "q", ",", "q", ",", "b">>,
            <<"a", ",", "q", "q", "CR", "b", ",">>, <<"a", "LF", "q", "b", "LF", "c">>,
            <<"a", "LF", "q", "b", "q", "c">>, <<"a", "LF", "b", "raw", "LF", "c">> }

Spaced == { <<"space", "q", "a", "q", "LF">>, <<"space", "a", ",", "TAB", "q", "q">>,
            <<"TAB", "TAB", "q", "a", "q", "TAB">>, <<"space", "q", "LF", "q", "LF", "a">>,
            <<"q", "a", "q", "space", "LF">>, <<"space", "LF", "a">> }

Escapes == { <<"q", "backslash", "q", "q", "LF">>, <<"q", "backslash", "backslash", "q", "LF">>,
             <<"q", "backslash", "LF", "q", "LF">>, <<"backslash", "q", "LF">>,
             <<"q", "a", "backslash", "a", "q", ",", "b">>, <<"q", "backslash", "q", "LF", "q", "LF">> }

WidePicked == { <<"a", ",", ",", "b", "LF">>, <<",", ",", ",", "a">>, <<"q", "q", "a", "q", "q", ",", ",">>,
                <<"q", "q", "q", "q", "q", "q", "LF">>, <<"a", "q", "LF", ",", "b">>,
                <<"q", "q", "a", "q", "LF", "q", "q">> }

Longs == { <<"a", "a", "LF", "b", "b", "b">>, <<"a", ",", "b", ",", "LF">>,
           <<"a", "b", ",", "c", "CR", "LF">>, <<"q", "a", "LF", "b", "q">>,
           <<"q", "a", "q", "q", "b", "q">>, <<"q", "a", "q", ",", "LF">> }

Bodies(o) ==
  CASE o \in {Options, OneLine} -> Short(4) \cup Picked
    [] o \in {Trimming, Tabs} -> Spaced \cup Picked
    [] o = Legacy -> Escapes \cup Picked
    [] o = Wide -> WidePicked \cup Short(3)
    [] OTHER -> Longs \cup Short(3)

Lexing ==
  UNION {{Reading(body, o, FALSE) : body \in Bodies(o)} :
         o \in {Options, OneLine, Trimming, Tabs, Legacy, Wide, Tiny}}
  \cup {Reading(body, Options, TRUE) : body \in Picked}
  \cup {[sources |-> <<Nodes(t)>>, read |-> 1, opts |-> Options, packed |-> FALSE] :
        t \in { <<"BOM", "h", "CR", "a">>, <<"LF", "h", "LF", "LF", "a">>, <<"q", "h", "LF", "q", "LF">>,
                <<"h", ",", "h", "LF", "a">>, <<>>, <<"BOM", "LF", "h">> }}

-----------------------------------------------------------------------------
Automatic == [Options EXCEPT !.auto = TRUE, !.buffer = 4, !.memory = 32]
Undeclared(t) == [text |-> t, role |-> "any", typed |-> FALSE]
Rels(t) == [text |-> t, role |-> "relationship", typed |-> TRUE]

NodeSources(d) == { Undeclared(<<"i", ":ID(A)", d, "a", "LF">>), Undeclared(<<":ID(A){long}", d, ":LABEL", "LF">>),
                    Undeclared(<<":ID(A)", d, ":ID(A)", "LF">>), Undeclared(<<"i", ":ID", d, "i", "LF">>),
                    Undeclared(<<":LABEL", d, "a", ":int", "CR">>), Nodes(<<"a", d, "b", "LF">>),
                    Undeclared(<<"a", d, "b", "LF">>), Nodes(<<"q", "a", "LF", "q", d, "b">>),
                    Nodes(<<"a", d, "b", "c", d, "e", "f", "g", d, "h", "LF">>),
                    Nodes(<<"a", "b", "c", "LF", d, "e", "f", "g", "h">>),
                    Nodes(<<"a", "b", "c", "e", "f", "g", "h", "CR", d>>),
                    Nodes(<<"a", "b", "c", "e", "f", "g", "h", "CR", "LF">>),
                    Nodes(<<"a", "b", d, "e", "f", "g", "h", "i">>),
                    Undeclared(<<"i", ":ID", d, "a", d, "b", "c", "b", d, "a", "LF">>) }

RelSources(d) == { Undeclared(<<":START_ID(A)", d, ":END_ID(A)", d, ":TYPE", "LF">>),
                   Undeclared(<<":START_ID(A)", d, ":END_ID(B)", "LF">>), Rels(<<":START_ID(A)", d, ":END_ID(B)">>),
                   Rels(<<":START_ID", d, "w", ":int", d, ":END_ID", "LF">>),
                   Undeclared(<<":START_ID", d, ":TYPE", "LF">>),
                   Rels(<<":END_ID(A)", d, ":END_ID(A)", d, ":START_ID(A)", "LF">>) }

Resolving ==
  {[sources |-> ss, read |-> 1, opts |-> [Automatic EXCEPT !.idType = t, !.delimiter = <<",">>, !.auto = a],
    packed |-> FALSE] :
     a \in BOOLEAN, t \in {"string", "integer", "actual"},
     ss \in {<<n>> : n \in NodeSources(",") \cup NodeSources("|")}
            \cup {<<r, n>> : n \in NodeSources(","), r \in RelSources(",")}
            \cup {<<n, r>> : n \in NodeSources("|"), r \in RelSources("|")}
            \cup {<<n, m>> : n, m \in NodeSources(",")} }

-----------------------------------------------------------------------------
(* Conversion: typed columns, empty and quoted cells, trimming, lists.      *)
Converted(header, rows, o) ==
  {[sources |-> IF ":START_ID" \in ToSet(header)
                THEN <<[text |-> header \o <<"LF">> \o r, role |-> "relationship", typed |-> FALSE],
                       Nodes(<<":ID", "LF">>)>>
                ELSE <<Nodes(header \o <<"LF">> \o r)>>,
    read |-> 1, opts |-> p, packed |-> FALSE] :
     r \in rows, p \in {o, [o EXCEPT !.trim = TRUE, !.ignoreEmpty = TRUE, !.normalize = FALSE]}}

CellTexts == {<<>>, <<"q", "q">>, <<"1">>, <<"9">>, <<"space">>, <<"a">>}
CellPairs == {a \o <<",">> \o b : a, b \in CellTexts}
Lists     == { <<"q", ";", "a", ";", "space", "q">>, <<"a", ";", "b">>, <<";">>, <<>>, <<"q", "q">> }

Actual == [Options EXCEPT !.ignoreExtra = FALSE, !.idType = "actual"]

Converting ==
  Converted(<<"h", ",", "i", ":int">>, CellPairs \cup {<<"a">>, <<"a", ",", "1", ",", "a">>},
            [Options EXCEPT !.ignoreExtra = FALSE])
  \cup Converted(<<":ID", ",", "h">>, CellPairs, Actual)
  \cup Converted(<<":ID", ",", ":int">>, {<<"1">>}, Options)
  \cup Converted(<<":LABEL", ",", ":IGNORE">>, Lists, Options)
  \cup Converted(<<":START_ID", ",", ":END_ID", ",", ":TYPE">>,
                 {<<"1", ",", "1", ",">> \o t : t \in CellTexts} \cup {<<",", "9">>}, Actual)

MCSetups == Lexing \cup Resolving \cup Converting
=============================================================================
