------------------------------ MODULE CsvLexer ------------------------------
(***************************************************************************)
(* How a record of a CSV file is split into cells (import/csv.rs).  A text *)
(* is a sequence of symbols: an ordinary character, a line break, a byte   *)
(* that is not UTF-8, or (in a header) a whole type marker.  A delimiter   *)
(* and a quote are sequences, because either may take several bytes.       *)
(***************************************************************************)
EXTENDS Naturals, Sequences, SequencesExt

LF  == "LF"
CR  == "CR"
BOM == "BOM"       (* the three bytes EF BB BF                               *)
Esc == "backslash"
Raw == "raw"       (* a byte that is not UTF-8                               *)
Blanks == {"space", "TAB"}

Cell(text, quoted) == [text |-> text, quoted |-> quoted]

\* The field, record and probe limits follow from two options.
FieldLimit(o)  == o.buffer
RecordLimit(o) == Max({o.memory \div 2, 2 * o.buffer})

At(raw, p, end, word) == /\ p + Len(word) <= end + 1
                         /\ SubSeq(raw, p, p + Len(word) - 1) = word

FitsLimit(cells, o) == \A i \in DOMAIN cells : Len(cells[i].text) <= FieldLimit(o)

Utf8(raw) == \A i \in DOMAIN raw : raw[i] # Raw

\* Where the next delimiter starts at or after p, or just behind the record.
FieldEnd(raw, p, end, o) ==
  Min({q \in p .. end : At(raw, q, end, o.delimiter)} \cup {end + 1})

-----------------------------------------------------------------------------
(* parse_unquoted_record: the record is known to have no quote.            *)

ParseUnquoted(raw, o) ==
  LET cells[p \in 1 .. Len(raw) + Len(o.delimiter)] ==
        LET end == FieldEnd(raw, p, Len(raw), o)
            cell == Cell(SubSeq(raw, p, end - 1), FALSE)
        IN IF end > Len(raw) THEN <<cell>> ELSE <<cell>> \o cells[end + Len(o.delimiter)]
  IN cells[1]

-----------------------------------------------------------------------------
(* parse_record: the general parser.                                       *)

Malformed      == [kind |-> "error", cells |-> <<>>]
More           == [kind |-> "more", cells |-> <<>>]
Complete(cells) == [kind |-> "complete", cells |-> cells]

\* The last symbol in front of the record terminator.
BodyEnd(raw) ==
  LET n == Len(raw)
  IN CASE n > 0 /\ raw[n] = LF -> IF n > 1 /\ raw[n - 1] = CR THEN n - 2 ELSE n - 1
       [] n > 0 /\ raw[n] = CR -> n - 1
       [] OTHER -> n

\* Blanks in front of a quote are skipped when strings are trimmed.
AfterBlanks(raw, p, end, o) ==
  IF ~o.trim THEN p
  ELSE Min({q \in p .. end : raw[q] \notin Blanks \/ At(raw, q, end, o.delimiter)}
           \cup {end + 1})

Before(word, rest) == [rest EXCEPT !.text = word \o @]

\* The rest of a quoted text from `start` on, decoded: closed, or open at the end.
Quoted(raw, start, end, o) ==
  LET width == Len(o.quote)
      text[p \in start .. end + 1] ==
        LET quote == At(raw, p, end, o.quote)
            escaped == o.legacy /\ raw[p] = Esc
        IN CASE p > end -> [kind |-> "more", text |-> <<>>, next |-> p]
             [] quote /\ At(raw, p + width, end, o.quote) -> Before(o.quote, text[p + 2 * width])
             [] quote -> [kind |-> "closed", text |-> <<>>, next |-> p + width]
             [] escaped /\ At(raw, p + 1, end, o.quote) -> Before(o.quote, text[p + 1 + width])
             [] escaped /\ At(raw, p + 1, end, <<Esc>>) -> Before(<<Esc>>, text[p + 2])
             [] OTHER -> Before(<<raw[p]>>, text[p + 1])
  IN text[start]

Bare(raw, p, end, o) ==
  LET stop == FieldEnd(raw, p, end, o)
  IN [kind |-> "closed", text |-> SubSeq(raw, p, stop - 1), next |-> stop, quoted |-> FALSE]

\* A closing quote is followed by a delimiter or nothing.
Checked(field, raw, end, o) ==
  IF /\ Len(field.text) <= FieldLimit(o)
     /\ field.next > end \/ At(raw, field.next, end, o.delimiter)
  THEN field ELSE [field EXCEPT !.kind = "error"]

Field(raw, p, end, o) ==
  LET open == AfterBlanks(raw, p, end, o)
  IN Checked(IF At(raw, open, end, o.quote)
             THEN Quoted(raw, open + Len(o.quote), end, o) @@ [quoted |-> TRUE]
             ELSE Bare(raw, p, end, o), raw, end, o)

\* The cells from this field on; those behind its delimiter are the `rest`.
WithField(field, end, rest) ==
  LET cell == <<Cell(field.text, field.quoted)>>
  IN CASE field.kind = "error" -> Malformed
       [] field.kind = "more"  -> More
       [] field.next > end     -> Complete(cell)
       [] OTHER -> [rest EXCEPT !.cells = cell \o @]

ParseRecord(raw, o) ==
  LET end == BodyEnd(raw)
      fields[p \in 1 .. end + 1] ==
        LET field == Field(raw, p, end, o)
        IN WithField(field, end, fields[field.next + Len(o.delimiter)])
  IN fields[1]

-----------------------------------------------------------------------------
(* The loop of next_borrowed around one more physical line.                *)

WithoutBom(raw, first) ==
  IF first /\ raw # <<>> /\ Head(raw) = BOM THEN Tail(raw) ELSE raw

\* What follows a physical line of `total` bytes, 0 at the end of the input.
Outcome(text, total, parsed, o) ==
  CASE total = 0 /\ text = <<>> -> "end"
    [] total # 0 /\ text \in {<<LF>>, <<CR, LF>>, <<CR>>} -> "blank"
    [] parsed.kind = "complete" -> IF Utf8(text) THEN "record" ELSE "error"
    [] parsed.kind = "more" /\ total # 0 /\ o.multiline -> "more"
    [] OTHER -> "error"

AfterParsing(text, total, parsed, o) ==
  [outcome |-> Outcome(text, total, parsed, o), raw |-> text, cells |-> parsed.cells]

AfterLine(raw, total, first, o) ==
  LET text == IF total = 0 THEN raw ELSE WithoutBom(raw, first)
  IN AfterParsing(text, total, ParseRecord(text, o), o)

=============================================================================
