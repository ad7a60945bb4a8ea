----------------------------- MODULE HeaderRules -----------------------------
(***************************************************************************)
(* When the headers of an import are acceptable under one delimiter, said  *)
(* of all columns of all sources at once; Discovery gets there column by   *)
(* column, source by source, from a bounded prefix of each file.           *)
(***************************************************************************)
EXTENDS Discovery, CsvReference

HeaderCells(source, o) ==
  LET rows == Reference(source.text, o).rows IN IF rows = <<>> THEN <<>> ELSE rows[1].cells

\* The columns and the role of a source whose first record has these cells.
Said(source, cells) ==
  [columns |-> [i \in DOMAIN cells |-> Column(cells[i])],
   role    |-> IF source.role # "any" THEN source.role ELSE Classify(cells),
   typed   |-> source.typed]

Headers(sources, o) ==
  [s \in DOMAIN sources |-> Said(sources[s], HeaderCells(sources[s], o))]

OfKind(columns, kind) == {i \in DOMAIN columns : columns[i].kind = kind}

\* Where the ID columns of group g stand: <<source, column>>.
Declaring(headers, g) ==
  {p \in UNION {{s} \X DOMAIN headers[s].columns : s \in DOMAIN headers} :
     /\ headers[p[1]].role = "node"
     /\ headers[p[1]].columns[p[2]].kind = "ID"
     /\ headers[p[1]].columns[p[2]].group = g}

\* The first ID column of a group fixes its type.
FirstOf(all) == CHOOSE p \in all : \A q \in all : p[1] < q[1] \/ (p[1] = q[1] /\ p[2] <= q[2])
TypeAmong(headers, all, o) ==
  LET type == headers[FirstOf(all)[1]].columns[FirstOf(all)[2]].type
  IN IF all = {} \/ type = Untyped THEN DefaultIdType(o) ELSE type
GroupType(headers, g, o) == TypeAmong(headers, Declaring(headers, g), o)

Allowed(role) == IF role = "node" THEN {"ID", "LABEL", "IGNORE", "property"}
                 ELSE {"START_ID", "END_ID", "TYPE", "IGNORE", "property"}

ValidHeader(headers, columns, role, typed, o) ==
  LET kind(i) == columns[i].kind
      named == {i \in DOMAIN columns : \/ kind(i) = "property"
                                       \/ /\ kind(i) = "ID" /\ columns[i].name # <<>>
                                          /\ o.idType # "actual"}
  IN /\ columns # <<>>
     /\ role # "error"
     /\ \A i \in DOMAIN columns : kind(i) \in Allowed(role)
     /\ \A i \in OfKind(columns, "property") : columns[i].name # <<>> /\ columns[i].group = <<>>
     /\ \A i, j \in named : columns[i].name = columns[j].name => i = j
     /\ \A k \in {"ID", "START_ID", "END_ID"} :
          /\ \A i, j \in OfKind(columns, k) : columns[i].group = columns[j].group
          /\ Cardinality(OfKind(columns, k)) > 1 => o.idType = "string"
     /\ \A i \in OfKind(columns, "ID") :
          LET type == GroupType(headers, columns[i].group, o)
          IN type \in IdTypes /\ columns[i].type \in {Untyped, type}
     /\ role = "relationship" =>
          /\ OfKind(columns, "START_ID") # {} /\ OfKind(columns, "END_ID") # {}
          /\ Cardinality(OfKind(columns, "TYPE")) <= 1
          /\ typed \/ OfKind(columns, "TYPE") # {}

ValidHeaders(headers, o) ==
  /\ \A s \in DOMAIN headers :
       ValidHeader(headers, headers[s].columns, headers[s].role, headers[s].typed, o)
  /\ \E s \in DOMAIN headers : headers[s].role = "node"

ValidSources(sources, o) == ValidHeaders(Headers(sources, o), o)

\* The delimiters under which the whole files have valid headers.
ValidDelimiters(sources, o) ==
  {d \in ToSet(TriedBy(o)) : ValidSources(sources, [o EXCEPT !.delimiter = d])}

=============================================================================
