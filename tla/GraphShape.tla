----------------------------- MODULE GraphShape -----------------------------
(***************************************************************************)
(* The catalog of labels, label groups, relationship types and property    *)
(* keys that rows build up (native.rs, resolve_* and catalog.rs), and the  *)
(* graph-shape aggregates: counted by label group while rows stream by     *)
(* (ShapeCounts), expanded to single labels once at the end, and expected  *)
(* to be what GRAPH_SHAPE_BACKFILL (schema.rs) computes from the tables.   *)
(* Where records are stored and how endpoints are resolved is left to      *)
(* OfflineImport: here a node is its number.                               *)
(***************************************************************************)
EXTENDS ShapeCounts

CONSTANTS
  NodeBatches,   (* what batches of nodes declare: [labels, column, keys]     *)
  EdgeBatches,   (* ... and of relationships: [type, column, keys, skip]      *)
  LabelCells,    (* cells of a label column: sequences of names, or Invalid   *)
  TypeCells,     (* cells of a type column: Null, a name, or Invalid          *)
  Values,        (* property cells: Null, Invalid or [class, tag]             *)
  Null, Invalid, Empty,
  MaxNodes, MaxEdges, MaxTries   (* bounds: records, rows that are skipped    *)

IsList(s) == s \in Seq(Range(s))

\* A batch in hand: its header, the IDs of its keys and of its fixed labels or type.
HandBatches == [kind : {"nodes"}, spec : NodeBatches, keys : Seq(Nat), fixed : Nat]
                 \cup [kind : {"edges"}, spec : EdgeBatches, keys : Seq(Nat), fixed : Nat]

ASSUME GraphShapeAssumption ==
  /\ MaxNodes \in Nat /\ MaxEdges \in Nat /\ MaxTries \in Nat
  /\ \A s \in NodeBatches : IsList(s.labels) /\ IsList(s.keys)
  /\ \A s \in EdgeBatches : IsList(s.keys)
  /\ \A c \in LabelCells \ {Invalid} : IsList(c)
  /\ Null \notin HandBatches

VARIABLES
  dict,      (* label_type, edge_type and key_dict, with the caches before them *)
  groups,    (* label_groups: the cache of label groups                       *)
  signatures, members,   (* label_group and label_group_member                *)
  nodes, edges, values,  (* node, edge, node_property and edge_property       *)
  counter,   (* shape_counts and the batch's runs                             *)
  batch,     (* the batch in hand, with what its header resolved to           *)
  status,    (* "nodes", "edges" once relationships started, "failed", "ok"   *)
  aggregates,            (* the graph_shape_* tables                          *)
  asked,     (* history: the labels each node was to get                      *)
  tries      (* bound: rows skipped                                           *)

catalog == <<dict, groups, signatures, members>>
graph   == <<nodes, edges, values>>
vars == <<catalog, graph, counter, batch, status, aggregates, asked, tries>>

Init == /\ dict = [label |-> <<>>, type |-> <<>>, key |-> <<>>]
        /\ groups = [ids \in {<<>>} |-> 1]      \* cached from the start:
        /\ signatures = <<<<>>>>                \* the schema's group 1, without labels
        /\ members = {}
        /\ nodes = <<>> /\ edges = <<>> /\ values = {}
        /\ counter = NewCounter
        /\ batch = Null
        /\ status = "nodes"
        /\ aggregates = <<>>
        /\ asked = <<>> /\ tries = 0

\* A failed import is discarded: of its state only the failure counts.
Fail == /\ status' = "failed"
        /\ batch' = Null
        /\ UNCHANGED <<catalog, graph, counter, aggregates, asked, tries>>

-----------------------------------------------------------------------------
(* The catalog.                                                            *)

IdOf(d, name) == CHOOSE i \in DOMAIN d : d[i] = name

\* resolve_dict, for each of the names: a new one gets the next ID.
Known(d, names) ==
  LET known[i \in 0 .. Len(names)] ==
        IF i = 0 THEN d
        ELSE IF names[i] \in Range(known[i - 1]) THEN known[i - 1]
             ELSE Append(known[i - 1], names[i])
  IN  known[Len(names)]

\* Mutation of Canonical: repeated labels are dropped, but their order is that of naming.
Deduplicated(ids) ==
  LET first == {k \in DOMAIN ids : \A j \in 1 .. k - 1 : ids[j] # ids[k]}
  IN  [k \in 1 .. Cardinality(first) |->
         ids[CHOOSE f \in first : Cardinality({j \in first : j < f}) = k - 1]]

\* The numbers of a set in their order: each after all that are less.
InOrder(S) ==
  [k \in 1 .. Cardinality(S) |-> CHOOSE i \in S : Cardinality({j \in S : j < i}) = k - 1]

\* The label IDs are sorted and deduplicated, by resolve_label_group and once more by
\* ensure_label_group_row, which leaves out what is not positive.
Canonical(ids) == InOrder({i \in Range(ids) : i > 0})

\* The ID of the row with this signature.
GroupRow(rows, ids) == IdOf(rows, ids)

\* resolve_label_group and ensure_label_group_row: canonical IDs that are not cached get a
\* row and its members. The cache knows every row from the start.
LabelGroup(names) ==
  LET labels == Known(dict.label, names)
      ids    == Canonical([i \in DOMAIN names |-> IdOf(labels, names[i])])
      rows   == Known(signatures, <<ids>>)
      group  == IF ids \in DOMAIN groups THEN groups[ids] ELSE GroupRow(rows, ids)
      cached == ids \in DOMAIN groups
  IN [labels     |-> labels,
      signatures |-> IF cached THEN signatures ELSE rows,
      members    |-> IF cached THEN members ELSE members \cup ({group} \X Range(ids)),
      groups     |-> [s \in DOMAIN groups \cup {ids} |-> IF s = ids THEN group ELSE groups[s]],
      id         |-> group]

Enter(g) == /\ groups' = g.groups
            /\ signatures' = g.signatures
            /\ members' = g.members

\* validate_columns and validate_property_value.
Distinct(keys) == IsInjective(keys) /\ Empty \notin Range(keys)
Valid(cells)   == Invalid \notin Range(cells)

\* PropertyShape: the key, the storage class, and the first byte of a blob.
Shape(key, v) == <<key, v.class, IF v.class = "blob" THEN v.tag ELSE "0">>

\* A row increments the run of its own shape, then those of its properties.  A shape is
\* a row of one of the four shape tables: owner, label groups, and what is counted.
Counted(owner, extent, cells) ==
  LET counted[i \in 0 .. Len(cells)] ==
        IF i = 0 THEN Increment(counter, 1, <<owner, extent, <<>>>>)
        ELSE IF cells[i] = Null THEN counted[i - 1]
             ELSE Increment(counted[i - 1], i + 1,
                            <<owner, extent, Shape(batch.keys[i], cells[i])>>)
  IN  counted[Len(cells)]

Stored(owner, id, cells) ==
  {<<owner, id, batch.keys[i], cells[i].class, cells[i].tag>> :
     i \in {j \in 1 .. Len(cells) : cells[j] # Null}}

KeyIds(d, keys) == [i \in DOMAIN keys |-> IdOf(d, keys[i])]

-----------------------------------------------------------------------------
(* append_nodes.                                                           *)

BeginNodes(s) ==
  /\ status = "nodes" /\ batch = Null /\ Len(nodes) < MaxNodes
  /\ IF ~Distinct(s.keys) \/ Empty \in Range(s.labels)
     THEN Fail
     ELSE LET keys  == Known(dict.key, s.keys)
              fixed == LabelGroup(s.labels)
          IN /\ dict' = [dict EXCEPT !.key = keys,
                                     !.label = IF s.column THEN @ ELSE fixed.labels]
             /\ IF s.column THEN UNCHANGED <<groups, signatures, members>> ELSE Enter(fixed)
             /\ batch' = [kind |-> "nodes", spec |-> s, keys |-> KeyIds(keys, s.keys),
                          fixed |-> IF s.column THEN 0 ELSE fixed.id]
             /\ counter' = [counter EXCEPT !.runs = NewRuns(Len(s.keys))]
             /\ UNCHANGED <<graph, status, aggregates, asked, tries>>

\* append_labels: empty names and nulls of a list are left out.
Named(cell) ==
  LET named[i \in 0 .. Len(cell)] ==
        IF i = 0 THEN <<>>
        ELSE IF cell[i] \in {Null, Empty} THEN named[i - 1] ELSE Append(named[i - 1], cell[i])
  IN  named[Len(cell)]

\* The labels of the header, then those of the label column.
RowLabels(s, cell) == s.labels \o IF s.column THEN Named(cell) ELSE <<>>

\* A duplicate external ID is skipped, or fails the import, after the row's labels were
\* entered in the catalog.
NodeRow(cell, cells, duplicate) ==
  /\ status = "nodes" /\ batch.kind = "nodes" /\ Len(nodes) < MaxNodes
  /\ Len(cells) = Len(batch.keys)
  /\ IF batch.spec.column /\ cell = Invalid
     THEN Fail
     ELSE LET names == RowLabels(batch.spec, cell)
              g     == LabelGroup(names)
              group == IF batch.spec.column THEN g.id ELSE batch.fixed
              n     == Len(nodes) + 1
          IN \/ /\ duplicate /\ tries < MaxTries
                /\ Enter(g) /\ dict' = [dict EXCEPT !.label = g.labels]
                /\ tries' = tries + 1
                /\ UNCHANGED <<graph, counter, batch, status, aggregates, asked>>
             \/ duplicate /\ Fail
             \/ /\ ~duplicate /\ Valid(cells)
                /\ Enter(g) /\ dict' = [dict EXCEPT !.label = g.labels]
                /\ nodes' = Append(nodes, group)
                /\ values' = values \cup Stored("node", n, cells)
                /\ counter' = Counted("node", <<group>>, cells)
                /\ asked' = Append(asked, Range(batch.spec.labels) \cup
                                           (IF batch.spec.column THEN Range(cell) \ {Null, Empty} ELSE {}))
                /\ UNCHANGED <<edges, batch, status, aggregates, tries>>
             \/ ~duplicate /\ ~Valid(cells) /\ Fail

-----------------------------------------------------------------------------
(* append_relationships.                                                   *)

BeginEdges(s) ==
  /\ status \in {"nodes", "edges"} /\ batch = Null /\ Len(edges) < MaxEdges
  /\ IF ~Distinct(s.keys) \/ s.type = Empty \/ (s.type = Null /\ ~s.column)
     THEN Fail
     ELSE LET keys  == Known(dict.key, s.keys)
              types == IF s.type = Null THEN dict.type ELSE Known(dict.type, <<s.type>>)
          IN /\ dict' = [dict EXCEPT !.key = keys, !.type = types]
             /\ batch' = [kind |-> "edges", spec |-> s, keys |-> KeyIds(keys, s.keys),
                          fixed |-> IF s.type = Null THEN 0 ELSE IdOf(types, s.type)]
             /\ counter' = [counter EXCEPT !.runs = NewRuns(Len(s.keys))]
             /\ UNCHANGED <<groups, signatures, members, graph, status, aggregates,
                            asked, tries>>

\* The type of the row: its cell or, without one, the fixed type.
TypeName(s, cell) == IF s.column /\ cell # Null THEN cell ELSE s.type

\* After the first row of relationships no node is accepted.  Endpoints are nodes, or 0
\* when they are not found; a type is entered in the catalog only
\* after both endpoints were found.
EdgeRow(a, b, cell, cells) ==
  /\ status \in {"nodes", "edges"} /\ batch.kind = "edges" /\ Len(edges) < MaxEdges
  /\ Len(cells) = Len(batch.keys)
  /\ LET name  == TypeName(batch.spec, cell)
         types == Known(dict.type, <<name>>)
         type  == IdOf(types, name)
     IN \/ /\ 0 \in {a, b} /\ batch.spec.skip /\ tries < MaxTries
           /\ tries' = tries + 1
           /\ status' = "edges"
           /\ UNCHANGED <<catalog, graph, counter, batch, aggregates, asked>>
        \/ 0 \in {a, b} /\ ~batch.spec.skip /\ Fail
        \/ /\ 0 \notin {a, b}
           /\ name \in {Null, Empty, Invalid} \/ ~Valid(cells)
           /\ Fail
        \/ /\ 0 \notin {a, b}
           /\ name \notin {Null, Empty, Invalid} /\ Valid(cells)
           /\ dict' = [dict EXCEPT !.type = types]
           /\ edges' = Append(edges, [type |-> type, from |-> a, to |-> b])
           /\ values' = values \cup Stored("edge", Len(edges) + 1, cells)
           /\ counter' = Counted("edge", <<type, nodes[a], nodes[b]>>, cells)
           /\ status' = "edges"
           /\ UNCHANGED <<groups, signatures, members, nodes, batch, aggregates, asked, tries>>

EndBatch == /\ status \in {"nodes", "edges"} /\ batch # Null
            /\ counter' = [EndRuns(counter) EXCEPT !.runs = <<>>]
            /\ batch' = Null
            /\ UNCHANGED <<catalog, graph, status, aggregates, asked, tries>>

-----------------------------------------------------------------------------
(* finish.                                                                 *)

\* LEFT JOIN label_group_member, COALESCE(type_id, 0).
LabelsOf(group) == LET ids == {m[2] : m \in {m \in members : m[1] = group}}
                   IN IF ids = {} THEN {0} ELSE ids

\* A row of an aggregate names a label for every label group of the shape.
Expanded(k) ==
  IF k[1] = "node" THEN {<<k[1], <<l>>, k[3]>> : l \in LabelsOf(k[2][1])}
  ELSE {<<k[1], <<k[2][1], l[1], l[2]>>, k[3]>> : l \in LabelsOf(k[2][2]) \X LabelsOf(k[2][3])}

\* IMPORT_SHAPE_FINISH: the shape tables joined with the members, summed.
Aggregated(tables) ==
  [r \in UNION {Expanded(k) : k \in DOMAIN tables} |->
     SumFunctionOnSet(tables, {k \in DOMAIN tables : r \in Expanded(k)})]

Finish == /\ status \in {"nodes", "edges"} /\ batch = Null
          /\ counter' = Spill(counter)
          /\ aggregates' = Aggregated(counter'.tables)
          /\ status' = "ok"
          /\ UNCHANGED <<catalog, graph, batch, asked, tries>>

Cells(n) == [1 .. n -> Values]

Next == \/ \E s \in NodeBatches : BeginNodes(s)
        \/ /\ batch # Null
           /\ \/ \E l \in LabelCells, p \in Cells(Len(batch.keys)), d \in BOOLEAN :
                   NodeRow(l, p, d)
              \/ \E a, b \in 0 .. Len(nodes), t \in TypeCells, p \in Cells(Len(batch.keys)) :
                   EdgeRow(a, b, t, p)
        \/ \E s \in EdgeBatches : BeginEdges(s)
        \/ EndBatch \/ Finish

Spec == Init /\ [][Next]_vars

-----------------------------------------------------------------------------
(* GRAPH_SHAPE_BACKFILL: the aggregates as a query over the finished graph. *)

TagOf(v) == IF v[4] = "blob" THEN v[5] ELSE "0"

Owners(kind) == IF kind = "node" THEN DOMAIN nodes ELSE DOMAIN edges

\* The rows an owner contributes, before the grouping.
Scopes(kind, id) ==
  IF kind = "node" THEN {<<l>> : l \in LabelsOf(nodes[id])}
  ELSE {<<edges[id].type, a, b>> : a \in LabelsOf(nodes[edges[id].from]),
                                   b \in LabelsOf(nodes[edges[id].to])}

Backfill ==
  LET scoped(kind) == UNION {{<<<<kind, s, <<>>>>, id>> : s \in Scopes(kind, id)} :
                               id \in Owners(kind)}
      property     == UNION {{<<<<v[1], s, <<v[3], v[4], TagOf(v)>>>>, v[2]>> :
                                s \in Scopes(v[1], v[2])} : v \in values}
      rows         == scoped("node") \cup scoped("edge") \cup property
  IN [r \in {x[1] : x \in rows} |-> Cardinality({x \in rows : x[1] = r})]

TypeOK == /\ status \in {"nodes", "edges", "failed", "ok"}
          /\ \A s \in DOMAIN groups : Range(s) \subseteq 1 .. Len(dict.label)
          /\ Range(nodes) \subseteq 1 .. Len(signatures)
          /\ \A e \in Range(edges) : {e.from, e.to} \subseteq DOMAIN nodes

(* The aggregates the importer publishes are those GRAPH_SHAPE_BACKFILL      *)
(* would compute from the finished tables: for every owner and every pair of *)
(* labels, whatever the order of runs, spills, batches and skipped rows, and *)
(* although shapes are counted by label group while groups are still being   *)
(* created.  The map never exceeds its share of the memory budget.           *)
ShapesExact == /\ Cardinality(DOMAIN counter.entries) <= MaxEntries
               /\ status = "ok" => aggregates = Backfill

(* A node's label group has exactly the labels its row named, header and     *)
(* column together, and two nodes share a group if they have the same labels,*)
(* in whatever order and multiplicity they were named.                       *)
LabelsKept ==
  /\ TypeOK
  /\ \A n \in DOMAIN nodes :
       {dict.label[m[2]] : m \in {m \in members : m[1] = nodes[n]}} = asked[n]
  /\ \A n, o \in DOMAIN nodes : asked[n] = asked[o] => nodes[n] = nodes[o]

-----------------------------------------------------------------------------
(* The inductive invariant behind both.                                     *)

\* Every signature is a row and every row is right, also those of the cache.
CatalogAt ==
  /\ IsList(dict.label) /\ IsInjective(dict.label)
  /\ IsList(dict.key) /\ IsInjective(dict.key) /\ IsList(dict.type)
  /\ DOMAIN dict = {"label", "type", "key"}
  /\ IsList(signatures) /\ IsInjective(signatures)
  /\ \A g \in DOMAIN signatures : /\ Range(signatures[g]) \subseteq DOMAIN dict.label
                                  /\ signatures[g] = Canonical(signatures[g])
  /\ members = UNION {{g} \X Range(signatures[g]) : g \in DOMAIN signatures}
  /\ \A s \in DOMAIN groups : groups[s] \in DOMAIN signatures /\ signatures[groups[s]] = s

\* A label group has exactly these labels.
Labelled(g, names) == /\ g \in DOMAIN signatures
                      /\ {dict.label[i] : i \in Range(signatures[g])} = names

GraphAt ==
  /\ IsList(nodes) /\ IsList(asked) /\ DOMAIN asked = DOMAIN nodes /\ IsList(edges)
  /\ \A n \in DOMAIN nodes : Labelled(nodes[n], asked[n])
  /\ \A e \in DOMAIN edges : edges[e].from \in DOMAIN nodes /\ edges[e].to \in DOMAIN nodes
  /\ \A v \in values : v[1] \in {"node", "edge"} /\ v[2] \in Owners(v[1])

BatchAt ==
  /\ status \in {"nodes", "edges", "failed", "ok"}
  /\ batch \in HandBatches \cup {Null}
  /\ batch # Null => IsInjective(batch.keys)
  /\ batch # Null /\ batch.kind = "nodes" /\ ~batch.spec.column =>
       Labelled(batch.fixed, Range(batch.spec.labels))

ShapeInv == CatalogAt /\ GraphAt /\ BatchAt

=============================================================================
