------------------------------ MODULE Discovery ------------------------------
(***************************************************************************)
(* What an offline import settles before it opens anything else            *)
(* (import/discovery.rs, import/header.rs): the header of every source,    *)
(* whether it is a source of nodes or of relationships, the type of every  *)
(* ID group, and, when it was not given, the delimiter.                    *)
(***************************************************************************)
EXTENDS CsvLexer, Folds

CONSTANT
  Marks   (* the symbols that stand for a colon and a header definition:     *)
          (* [kind, group, type, form]; form is "plain" without a group or   *)
          (* options, else "(" or "{"                                        *)

Untyped == "untyped"             (* no id-type option                        *)
NoGroup == <<"no group yet">>

\* The delimiters tried, in this order.
Candidates == << <<",">>, <<"|">>, <<"TAB">>, <<";">> >>

-----------------------------------------------------------------------------
(* One column of a header.                                                 *)

Trimmed(text) ==
  LET ink == {i \in DOMAIN text : text[i] \notin Blanks}
  IN IF ink = {} THEN <<>> ELSE SubSeq(text, Min(ink), Max(ink))

MarksOf(text) == {i \in DOMAIN text : text[i] \in DOMAIN Marks}

\* classify looks at the word behind the first colon, up to its group or options.
MarkerOf(text) ==
  LET k == Min(MarksOf(text))
  IN IF MarksOf(text) = {} THEN "none"
     ELSE IF k = Len(text) \/ Marks[text[k]].form # "plain" THEN Marks[text[k]].kind
     ELSE "unknown"

\* A definition that goes on behind its marker is an unknown type, except that
\* a group reaches from the first opening to the last closing parenthesis.
Column(cell) ==
  LET text == Trimmed(cell.text)
      k == Min(MarksOf(text))
      mark == Marks[text[k]]
      wide == /\ mark.form = "(" /\ text[Len(text)] \in DOMAIN Marks
              /\ Marks[text[Len(text)]].form = "("
              /\ \A i \in MarksOf(text) : Marks[text[i]].form # "{"
  IN IF MarksOf(text) = {}
     THEN [kind |-> "property", name |-> text, group |-> <<>>, type |-> "string"]
     ELSE [kind |-> IF k = Len(text) \/ wide THEN mark.kind ELSE "bad",
           name |-> SubSeq(text, 1, k - 1),
           group |-> IF k = Len(text) THEN mark.group ELSE mark.group \o SubSeq(text, k + 1, Len(text)),
           type |-> mark.type]

-----------------------------------------------------------------------------
(* Header::parse.                                                          *)

IdTypes == {"string", "byte", "short", "int", "long"}

DefaultIdType(o) == IF o.idType = "string" THEN "string" ELSE "long"

TypeOfGroup(groups, g, o) == IF g \in DOMAIN groups THEN groups[g] ELSE DefaultIdType(o)

\* A header under construction; `groups` outlives it.
Blank(groups) == [ok |-> TRUE, ids |-> 0, starts |-> 0, ends |-> 0, types |-> 0,
                  idGroup |-> NoGroup, startGroup |-> NoGroup, endGroup |-> NoGroup,
                  names |-> {}, endpoints |-> <<>>, groups |-> groups]

Refused(h) == [h EXCEPT !.ok = FALSE]

SameGroup(current, group) == current \in {NoGroup, group}

WithName(h, name) == IF name \in h.names THEN Refused(h)
                     ELSE [h EXCEPT !.names = @ \cup {name}]

\* An explicit type wins over that of the group, and then has to agree with it.
IdColumn(c, h, o) ==
  LET type == IF c.type # Untyped THEN c.type ELSE TypeOfGroup(h.groups, c.group, o)
      declared == [h EXCEPT !.ids = @ + 1, !.idGroup = c.group,
                            !.groups = (c.group :> type) @@ @]
  IN IF \/ ~SameGroup(h.idGroup, c.group) \/ type \notin IdTypes
        \/ (c.group \in DOMAIN h.groups /\ h.groups[c.group] # type)
     THEN Refused(h)
     ELSE IF c.name # <<>> /\ o.idType # "actual" THEN WithName(declared, c.name)
     ELSE declared

StartColumn(c, h, o) ==
  IF ~SameGroup(h.startGroup, c.group) THEN Refused(h)
  ELSE [h EXCEPT !.starts = @ + 1, !.startGroup = c.group,
                 !.endpoints = Append(@, <<c.group, TypeOfGroup(h.groups, c.group, o)>>)]

EndColumn(c, h, o) ==
  IF ~SameGroup(h.endGroup, c.group) THEN Refused(h)
  ELSE [h EXCEPT !.ends = @ + 1, !.endGroup = c.group,
                 !.endpoints = Append(@, <<c.group, TypeOfGroup(h.groups, c.group, o)>>)]

WithColumn(c, h, relationship, o) ==
  CASE ~h.ok -> h
    [] c.kind = "ID"       -> IF relationship THEN Refused(h) ELSE IdColumn(c, h, o)
    [] c.kind = "START_ID" -> IF relationship THEN StartColumn(c, h, o) ELSE Refused(h)
    [] c.kind = "END_ID"   -> IF relationship THEN EndColumn(c, h, o) ELSE Refused(h)
    [] c.kind = "LABEL"    -> IF relationship THEN Refused(h) ELSE h
    [] c.kind = "TYPE"     -> IF relationship /\ h.types = 0 THEN [h EXCEPT !.types = 1]
                              ELSE Refused(h)
    [] c.kind = "IGNORE"   -> h
    [] c.kind = "property" -> IF c.name = <<>> \/ c.group # <<>> THEN Refused(h)
                              ELSE WithName(h, c.name)
    [] OTHER -> Refused(h)

\* A composite ID is a string; a relationship needs both ends and a type.
Whole(h, relationship, typed, o) ==
  /\ h.ok
  /\ h.ids > 1 \/ h.starts > 1 \/ h.ends > 1 => o.idType = "string"
  /\ relationship => h.starts > 0 /\ h.ends > 0 /\ (typed \/ h.types > 0)

Finished(h, relationship, typed, o) == [h EXCEPT !.ok = Whole(h, relationship, typed, o)]

ParseHeader(cells, relationship, typed, groups, o) ==
  Finished(FoldLeft(LAMBDA h, cell : WithColumn(Column(cell), h, relationship, o),
                    Blank(groups), cells), relationship, typed, o)

-----------------------------------------------------------------------------
(* The header of one source, read through HeaderReadLimit.                 *)

ProbeLimit(o) == Max({o.buffer, Min({4 * o.buffer, o.memory \div 4})})

\* The last symbol of the physical line that starts at p, as far as `seen`.
LineEnd(text, p, seen) ==
  LET q == Min({i \in p .. seen : text[i] \in {LF, CR}} \cup {seen})
  IN IF q < seen /\ text[q] = CR /\ text[q + 1] = LF THEN q + 1 ELSE q

\* The line that ends at q cannot be known to end there without another read.
Exhausted(text, q, seen) == q = seen /\ text[q] # LF

\* CsvReader::next for the first record; `seen` bounds the bytes it is given.
RECURSIVE HeaderFrom(_, _, _, _, _), HeaderBehind(_, _, _, _, _, _)
HeaderFrom(text, p, raw, seen, o) ==
  HeaderBehind(text, p, IF p > seen THEN p - 1 ELSE LineEnd(text, p, seen), raw, seen, o)

\* ... with a physical line from p to q behind the lines in raw.
HeaderBehind(text, p, q, raw, seen, o) ==
  LET after(next) ==
        CASE next.outcome = "record" -> [kind |-> "cells", cells |-> next.cells]
          [] next.outcome = "blank"  -> HeaderFrom(text, q + 1, <<>>, seen, o)
          [] next.outcome = "more"   -> HeaderFrom(text, q + 1, next.raw, seen, o)
          [] OTHER -> [kind |-> "error", cells |-> <<>>]
      line == raw \o SubSeq(text, p, q)
  IN CASE seen < Len(text) /\ (p > seen \/ Exhausted(text, q, seen)) ->
            [kind |-> "unresolved", cells |-> <<>>]
       [] Len(line) > RecordLimit(o) -> [kind |-> "error", cells |-> <<>>]
       [] OTHER -> after(AfterLine(line, q + 1 - p, p = 1, o))

\* Mutation of HeaderOf: the limit looks like the end of the file.
HeaderOfPrefix(text, bounded, o) ==
  LET part == IF bounded THEN SubSeq(text, 1, Min({Len(text), ProbeLimit(o)})) ELSE text
  IN HeaderFrom(part, 1, <<>>, Len(part), o)

HeaderOf(text, bounded, o) ==
  HeaderFrom(text, 1, <<>>, IF bounded THEN Min({Len(text), ProbeLimit(o)}) ELSE Len(text), o)

Classify(cells) ==
  LET marks == {MarkerOf(Trimmed(cells[i].text)) : i \in DOMAIN cells}
      node == marks \cap {"ID", "LABEL"} # {}
      ends == marks \cap {"START_ID", "END_ID", "TYPE"}
  IN CASE node /\ ends = {} -> "node"
       [] ~node /\ {"START_ID", "END_ID"} \subseteq ends -> "relationship"
       [] OTHER -> "error"

-----------------------------------------------------------------------------
(* resolve: every header is read and classified in the order of the        *)
(* sources; then the nodes declare the ID groups, and only then the        *)
(* relationships are parsed.                                               *)

RoleOf(source, cells) == IF source.role = "any" THEN Classify(cells) ELSE source.role

InRole(sources, read, role) ==
  SelectSeq([s \in DOMAIN sources |-> s],
            LAMBDA s : RoleOf(sources[s], read[s].cells) = role)

ParseOrder(sources, read) ==
  InRole(sources, read, "node") \o InRole(sources, read, "relationship")

\* The groups a header declares are known to those parsed after it.
Joined(done, s, h) ==
  [ok |-> h.ok, groups |-> h.groups, headers |-> (s :> h) @@ done.headers]

ParseAll(sources, read, o) ==
  LET parse(done, s) ==
        IF ~done.ok THEN done
        ELSE Joined(done, s, ParseHeader(read[s].cells,
                                         RoleOf(sources[s], read[s].cells) = "relationship",
                                         sources[s].typed, done.groups, o))
  IN FoldLeft(parse, [ok |-> TRUE, groups |-> <<>>, headers |-> <<>>],
              ParseOrder(sources, read))

\* The first source whose header cannot be read or classified decides.
Refusal(stuck, read) == IF read[Min(stuck)].kind = "unresolved" THEN "unresolved" ELSE "error"

Judged(parsed, nodes) ==
  IF parsed.ok /\ nodes # <<>> THEN [outcome |-> "ok", headers |-> parsed.headers]
                               ELSE [outcome |-> "error", headers |-> <<>>]

Resolved(sources, read, o) ==
  LET stuck == {s \in DOMAIN sources : \/ read[s].kind # "cells"
                                       \/ RoleOf(sources[s], read[s].cells) = "error"}
  IN IF stuck # {} THEN [outcome |-> Refusal(stuck, read), headers |-> <<>>]
     ELSE Judged(ParseAll(sources, read, o), InRole(sources, read, "node"))

Resolve(sources, bounded, o) ==
  Resolved(sources, [s \in DOMAIN sources |-> HeaderOf(sources[s].text, bounded, o)], o)

\* A delimiter that is also the quote or the array delimiter is not tried.
TriedBy(o) == SelectSeq(Candidates, LAMBDA d : d # o.quote /\ d # o.arrayDelimiter)

Settled(sources, bounded, d, o) ==
  LET chosen == [o EXCEPT !.delimiter = d, !.auto = FALSE]
  IN Resolve(sources, bounded, chosen) @@ [options |-> chosen]

Unsettled(outcome, o) == [outcome |-> outcome, options |-> o, headers |-> <<>>]

Giving(sources, o, outcome) ==
  SelectSeq(TriedBy(o), LAMBDA d : Settled(sources, TRUE, d, o).outcome = outcome)

(* prepare: a given delimiter is used as it is, without a limit on the     *)
(* header.  Otherwise every candidate is tried; one that runs into the     *)
(* limit ends the search, and exactly one has to remain.                   *)
Prepare(sources, o) ==
  LET valid == Giving(sources, o, "ok")
  IN CASE ~o.auto -> Settled(sources, FALSE, o.delimiter, o)
       [] Giving(sources, o, "unresolved") # <<>> -> Unsettled("unresolved", o)
       [] Len(valid) = 1 -> Settled(sources, TRUE, valid[1], o)
       [] OTHER -> Unsettled("error", o)

=============================================================================
