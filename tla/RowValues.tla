------------------------------ MODULE RowValues ------------------------------
(***************************************************************************)
(* From the cells of a record to the values of a batch: Header::append_cells *)
(* (import/header.rs) converts them column by column, and BatchValues      *)
(* (import/batch.rs) keeps all text and blobs of a batch in one array of   *)
(* bytes, with a range for each, that the importer reads back.             *)
(***************************************************************************)
EXTENDS HeaderRules

CONSTANTS NarrowLimit,  (* u32::MAX: the last offset of a narrow range       *)
          Digits, Large (* digits; those that make a number leave the range  *)
                        (* of byte, short and int                            *)

Null == [kind |-> "null"]
Bad  == [kind |-> "bad"]
Integer(digits) == [kind |-> "integer", digits |-> digits]
Text(bytes)     == [kind |-> "text", bytes |-> bytes]
Blob(bytes)     == [kind |-> "blob", bytes |-> bytes]

-----------------------------------------------------------------------------
(* Header::append_cells.                                                   *)

\* The columns with the types that resolve() left them with.
TypedColumns(cells, header) ==
  LET ends == header.endpoints
      type(c) == CASE c.kind = "ID" -> header.groups[c.group]
                   [] c.kind \in {"START_ID", "END_ID"} ->
                        ends[CHOOSE i \in DOMAIN ends : ends[i][1] = c.group][2]
                   [] OTHER -> c.type
  IN [i \in DOMAIN cells |-> LET c == Column(cells[i]) IN [kind |-> c.kind, type |-> type(c)]]

\* trim_strings leaves quoted cells alone.
CellText(cell, o) == IF o.trim /\ ~cell.quoted THEN Trimmed(cell.text) ELSE cell.text

\* parse::<i64> of the trimmed text; types are not narrowed when they are normalized.
ParseInteger(text, type, normalized) ==
  LET digits == Trimmed(text)
  IN IF \/ digits = <<>> \/ ~(ToSet(digits) \subseteq Digits)
        \/ ~normalized /\ type # "long" /\ ToSet(digits) \cap Large # {}
     THEN Bad ELSE Integer(digits)

\* An empty cell is null; a quoted one is an empty string where strings are expected.
Scalar(cell, type, normalized, o) ==
  LET text == CellText(cell, o)
  IN CASE text = <<>> /\ (type # "string" \/ ~cell.quoted \/ o.ignoreEmpty) -> Null
       [] type = "string" -> Text(text)
       [] OTHER -> ParseInteger(text, type, normalized)

\* The parts between delimiters; empty ones are left out before the others are trimmed.
Parts(text, o) ==
  LET cells == ParseUnquoted(text, [o EXCEPT !.delimiter = o.arrayDelimiter])
      whole == SelectSeq(cells, LAMBDA c : c.text # <<>>)
  IN [i \in DOMAIN whole |-> IF o.trim THEN Trimmed(whole[i].text) ELSE whole[i].text]

\* encode_import_value of a list of strings.
Encoded(list) == FoldLeft(LAMBDA bytes, part : bytes \o <<"item">> \o part, <<"list">>, list)

ValueOf(cell, column, o) ==
  CASE column.kind = "IGNORE" -> Null
    [] column.kind = "LABEL" -> IF cell.text = <<>> THEN Null ELSE Blob(Encoded(Parts(cell.text, o)))
    [] column.kind = "TYPE" -> Scalar(cell, "string", FALSE, o)
    [] column.kind = "property" -> Scalar(cell, column.type, o.normalize, o)
    [] OTHER -> Scalar(cell, column.type, FALSE, o)

\* A missing cell is an unquoted empty one.
CellAt(cells, i) == IF i <= Len(cells) THEN cells[i] ELSE Cell(<<>>, FALSE)

Accepted(cells, columns, o) ==
  /\ Len(cells) <= Len(columns) \/ o.ignoreExtra
  /\ \A i \in DOMAIN columns : ValueOf(CellAt(cells, i), columns[i], o) # Bad

-----------------------------------------------------------------------------
(* BatchValues.  A range is [start, end), as in the source.                *)

NoValues == [cells |-> <<>>, bytes |-> <<>>, wide |-> <<>>]

\* range_cell: a range that ends beyond the limit goes to the list of wide ones.
RangeCell(batch, kind, start, end) ==
  IF end > NarrowLimit
  THEN [cell |-> [kind |-> "wide " \o kind, index |-> Len(batch.wide) + 1],
        wide |-> Append(batch.wide, <<start, end>>)]
  ELSE [cell |-> [kind |-> kind, range |-> <<start, end>>], wide |-> batch.wide]

Push(batch, v) ==
  IF v.kind \notin {"text", "blob"}
  THEN [batch EXCEPT !.cells = Append(@, v)]
  ELSE LET bytes == batch.bytes \o v.bytes
           placed == RangeCell(batch, v.kind, Len(batch.bytes), Len(bytes))
       IN [cells |-> Append(batch.cells, placed.cell), bytes |-> bytes, wide |-> placed.wide]

AppendRow(batch, cells, columns, o) ==
  FoldLeft(LAMBDA b, i : Push(b, ValueOf(CellAt(cells, i), columns[i], o)), batch,
           [i \in DOMAIN columns |-> i])

Slice(batch, range) == SubSeq(batch.bytes, range[1] + 1, range[2])

\* iter: what the importer is given.
ReadBack(batch) ==
  [i \in DOMAIN batch.cells |->
     LET c == batch.cells[i]
     IN CASE c.kind = "text"      -> Text(Slice(batch, c.range))
          [] c.kind = "blob"      -> Blob(Slice(batch, c.range))
          [] c.kind = "wide text" -> Text(Slice(batch, batch.wide[c.index]))
          [] c.kind = "wide blob" -> Blob(Slice(batch, batch.wide[c.index]))
          [] OTHER -> c]

=============================================================================
