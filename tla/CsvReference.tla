---------------------------- MODULE CsvReference ----------------------------
(***************************************************************************)
(* What a CSV text means, read symbol by symbol in one pass over the whole *)
(* file: no physical lines, no buffers, no second attempt at a record.     *)
(* The reader of CsvSource is compared with it.                            *)
(***************************************************************************)
EXTENDS CsvLexer

\* A line break at p takes one symbol, CR LF two.
Break(text, p) == IF p > Len(text) \/ text[p] \notin {LF, CR} THEN 0
                  ELSE IF text[p] = CR /\ p < Len(text) /\ text[p + 1] = LF THEN 2 ELSE 1

\* Where a cell that is opened by a quote has its first symbol, 0 without one.
Opening(text, p, o) ==
  LET q == AfterBlanks(text, p, Len(text), o)
  IN IF At(text, q, Len(text), o.quote) THEN q + Len(o.quote) ELSE 0

(* The automaton: s.mode is "record" in front of a record, "field" in      *)
(* front of a cell, "bare" or "quoted" inside one, "closed" behind a quote.*)
RECURSIVE Scan(_, _, _, _)
Scan(text, p, s, o) ==
  LET width == Break(text, p)
      here(word) == p <= Len(text) /\ At(text, p, Len(text), word)
      bad == [rows |-> s.rows, outcome |-> "error"]
      row == [line |-> s.start, cells |-> Append(s.cells, Cell(s.cell, s.quoted)),
              stop |-> p + width - 1]
      step(k, t) == Scan(text, p + k, t, o)
      fit == Len(s.cell) <= FieldLimit(o)
      clean == Utf8(SubSeq(text, s.from, row.stop))
      small == row.stop - s.from < RecordLimit(o)
      grown(k) == [s EXCEPT !.cell = @ \o SubSeq(text, p, p + k - 1)]
  IN CASE s.mode = "record" /\ p > Len(text) -> [rows |-> s.rows, outcome |-> "end"]
       [] s.mode = "record" /\ width > 0 ->
            step(width, [s EXCEPT !.line = @ + 1])
       [] s.mode = "record" ->
            step(0, [s EXCEPT !.mode = "field", !.start = s.line, !.cells = <<>>, !.from = p])
       [] s.mode = "field" ->
            LET q == Opening(text, p, o)
            IN IF q = 0 THEN step(0, [s EXCEPT !.mode = "bare", !.cell = <<>>, !.quoted = FALSE])
               ELSE step(q - p, [s EXCEPT !.mode = "quoted", !.cell = <<>>, !.quoted = TRUE])
       [] s.mode \in {"bare", "closed"} /\ (p > Len(text) \/ width > 0) ->
            IF fit /\ clean /\ small
            THEN step(width, [s EXCEPT !.mode = "record", !.rows = Append(@, row),
                                       !.line = @ + 1])
            ELSE bad
       [] s.mode \in {"bare", "closed"} /\ here(o.delimiter) ->
            IF fit THEN step(Len(o.delimiter), [s EXCEPT !.mode = "field",
                                                !.cells = Append(@, Cell(s.cell, s.quoted))])
            ELSE bad
       [] s.mode = "bare" -> step(1, grown(1))
       [] s.mode = "closed" -> bad
       [] p > Len(text) -> bad
       [] width > 0 -> IF o.multiline THEN step(width, [grown(width) EXCEPT !.line = @ + 1])
                       ELSE bad
       [] here(o.quote \o o.quote) ->
            step(2 * Len(o.quote), [s EXCEPT !.cell = @ \o o.quote])
       [] here(o.quote) -> step(Len(o.quote), [s EXCEPT !.mode = "closed"])
       [] o.legacy /\ here(<<Esc>> \o o.quote) ->
            step(1 + Len(o.quote), [s EXCEPT !.cell = @ \o o.quote])
       [] o.legacy /\ here(<<Esc, Esc>>) -> step(2, [s EXCEPT !.cell = Append(@, Esc)])
       [] OTHER -> step(1, grown(1))

Reference(text, o) ==
  Scan(text, IF text # <<>> /\ Head(text) = BOM THEN 2 ELSE 1,
       [mode |-> "record", rows |-> <<>>, cells |-> <<>>, cell |-> <<>>, quoted |-> FALSE,
        line |-> 1, start |-> 1, from |-> 1], o)

=============================================================================
