---------------------------- MODULE OfflineImport ----------------------------
(***************************************************************************)
(* The native importer (offline_import/native.rs): node batches, then      *)
(* relationship batches, then finish.  Rows normally go to the spools of a *)
(* BodyWriter and, for the secondary indexes, to index tuple spools, and   *)
(* become tables only at the end; caller-chosen node IDs (ACTUAL) force    *)
(* everything back to SQL inserts.  External IDs are resolved through the  *)
(* integer map (IdMap), a cache, and the table behind them.                *)
(*                                                                         *)
(* A batch is processed row by row; its rows are chosen as they come.      *)
(***************************************************************************)
EXTENDS Integers, Sequences, FiniteSets

CONSTANTS
  IdGroups,      (* names of ID groups                                       *)
  Ids,           (* external IDs: integers, also the internal IDs of ACTUAL   *)
  Labels,        (* label groups                                             *)
  MaxId,         (* i64::MAX                                                 *)
  Bulk,          (* whether the memory budget allows index tuple spools      *)
  CacheLimit,    (* entries the ID cache has room for                        *)
  LargeFrom,     (* nodes from which 16 KiB pages are used (65_536)          *)
  None,
  MaxRows        (* bound: rows offered                                      *)

IdTypes   == {"STRING", "INTEGER", "ACTUAL"}
NodeSpecs == [group : IdGroups \cup {None}, type : IdTypes, skip : BOOLEAN]
EdgeSpecs == [from : IdGroups, to : IdGroups, type : IdTypes, skip : BOOLEAN]
Batches   == [kind : {"nodes"}, spec : NodeSpecs, left : Nat, done : Nat, skipped : Nat,
              properties : Nat]
               \cup [kind : {"edges"}, spec : EdgeSpecs, left : Nat, done : Nat, skipped : Nat,
                     properties : Nat]

ASSUME OfflineImportAssumption ==
  /\ Ids \subseteq (-1 .. MaxId) /\ MaxId \in Nat \ {0}
  /\ Bulk \in BOOLEAN /\ CacheLimit \in Nat /\ LargeFrom \in Nat /\ MaxRows \in Nat
  /\ None \notin Ids \cup IdGroups \cup Labels /\ None \notin Batches
  /\ "0" \notin IdGroups     \* the groups are numbered from 1

VARIABLES
  open,      (* body: Some                                                   *)
  disabled,  (* body_disabled                                                *)
  indexed,   (* bulk_indexes: Some                                           *)
  spool,     (* records in the body's spools                                 *)
  tuples,    (* records the index tuple spools know                          *)
  table,     (* records in the tables                                        *)
  types,     (* group_id_types                                               *)
  ids,       (* the first node of every (group, external ID): see IdMap       *)
  direct,    (* integer groups the map still holds in memory                 *)
  cache,     (* id_cache                                                     *)
  next,      (* next_node_id and next_edge_id                                *)
  pages,     (* page size of the staged database                             *)
  planned,   (* page size the node index plans are being prepared for        *)
  shapes,    (* shape_counts with everything behind it: see ShapeCounts       *)
  counts,    (* counts and properties                                        *)
  batch,     (* the batch in hand                                            *)
  started, failed, result,
  asked,     (* history: the external IDs each relationship named            *)
  rows       (* bound: rows offered so far                                   *)

store   == <<open, disabled, indexed, spool, tuples, table>>
lookup  == <<types, ids, direct, cache>>
layout  == <<pages, planned>>
account == <<shapes, counts>>
control == <<started, failed, result>>
vars == <<store, lookup, next, layout, account, batch, control, asked, rows>>

Put(f, k, v) == [j \in DOMAIN f \cup {k} |-> IF j = k THEN v ELSE f[j]]
Count(f, k)  == IF k \in DOMAIN f THEN f[k] ELSE 0

Kind(R, kind) == {r \in R : r.kind = kind}
Loaded == table \cup spool

Init == /\ open = FALSE /\ disabled = FALSE /\ indexed = FALSE
        /\ spool = {} /\ tuples = {} /\ table = {}
        /\ types = <<>> /\ ids = <<>> /\ cache = <<>>
        /\ direct = IdGroups
        /\ next = [node |-> 1, edge |-> 1]
        /\ pages = "ordinary" /\ planned = None
        /\ shapes = <<>>
        /\ counts = [nodes |-> 0, edges |-> 0, properties |-> 0, skipped |-> 0]
        /\ batch = None
        /\ started = FALSE /\ failed = FALSE /\ result = "none"
        /\ asked = <<>> /\ rows = 0

\* An error is returned: the import cannot be used any more.
Fail == /\ failed' = TRUE
        /\ batch' = None
        /\ UNCHANGED <<started, result>>

Idle == batch = None /\ ~failed /\ result = "none"

-----------------------------------------------------------------------------
(* Where a record goes.                                                    *)

\* materialize_body: everything spooled becomes tables, with these indexes.
Materialize(indexes) == table' = Loaded /\ spool' = {} /\ tuples' = indexes

\* Properties of relationships have no secondary index.
Tuples(R) == {r \in R : r.kind # "edge property"}

Write(R) == IF open
            THEN /\ spool' = spool \cup R
                 /\ tuples' = IF indexed THEN tuples \cup Tuples(R) ELSE tuples
                 /\ UNCHANGED table
            ELSE /\ table' = table \cup R
                 /\ UNCHANGED <<spool, tuples>>

\* One more of a shape.
More(counted, shape) == Put(counted, shape, Count(counted, shape) + 1)

PropertyOf(kind) == IF kind = "node" THEN "node property" ELSE "edge property"

\* A row adds to the counts of its own shape and of its property's.
Tally(kind, labels, valued) ==
  LET one == More(shapes, <<kind, labels>>)
  IN  shapes' = IF valued THEN More(one, <<PropertyOf(kind), labels>>) ELSE one

\* IdCache::insert: when it is full everything is evicted.
Cached(c, k, n) == IF CacheLimit = 0 THEN c
                   ELSE Put(IF Cardinality(DOMAIN c) + 1 > CacheLimit THEN <<>> ELSE c, k, n)

-----------------------------------------------------------------------------
(* append_nodes.                                                           *)

\* Mutation of OpenBody: the body is opened again after ACTUAL rows.
ReopenBody(s, n) ==
  IF n > 0 /\ s.type = "ACTUAL"
  THEN /\ disabled' = TRUE
       /\ open' = FALSE /\ indexed' = FALSE
       /\ Materialize({})
  ELSE IF n > 0 /\ ~open
  THEN /\ open' = TRUE /\ indexed' = Bulk
       /\ UNCHANGED <<disabled, spool, tuples, table>>
  ELSE UNCHANGED store

\* Mutation of OpenBody: ACTUAL rows go to the spools as well.
KeepBody(s, n) ==
  IF n > 0 /\ ~open /\ ~disabled
  THEN /\ open' = TRUE /\ indexed' = Bulk
       /\ UNCHANGED <<disabled, spool, tuples, table>>
  ELSE UNCHANGED store

\* ACTUAL rows turn what is spooled into tables and drop the index tuples; other
\* rows open the body, unless that has happened.
OpenBody(s, n) ==
  IF n > 0 /\ s.type = "ACTUAL"
  THEN /\ disabled' = TRUE
       /\ open' = FALSE
       /\ indexed' = (indexed /\ ~open)
       /\ Materialize({})
  ELSE IF n > 0 /\ ~open /\ ~disabled
  THEN /\ open' = TRUE /\ indexed' = Bulk
       /\ UNCHANGED <<disabled, spool, tuples, table>>
  ELSE UNCHANGED store

BeginNodes(s, n) ==
  /\ Idle /\ rows + n <= MaxRows
  /\ IF started
     THEN Fail /\ UNCHANGED <<store, types>>
     ELSE /\ OpenBody(s, n)
          /\ IF s.group \in DOMAIN types /\ types[s.group] # s.type
             THEN Fail /\ UNCHANGED types
             ELSE /\ batch' = [kind |-> "nodes", spec |-> s, left |-> n,
                               done |-> 0, skipped |-> 0, properties |-> 0]
                  /\ types' = IF s.group = None THEN types ELSE Put(types, s.group, s.type)
                  /\ UNCHANGED control
  /\ UNCHANGED <<ids, direct, cache, next, layout, account, asked, rows>>

RowDone(b, done, skipped, properties) ==
  batch' = [b EXCEPT !.left = @ - 1, !.done = @ + done, !.skipped = @ + skipped,
                     !.properties = @ + properties]

SkipOrFail == IF batch.spec.skip
              THEN RowDone(batch, 0, 1, 0) /\ UNCHANGED control
              ELSE Fail

\* The key under which an external ID is looked up: ACTUAL IDs form group 0.
KeyOf(group, type, id) == IF type = "ACTUAL" THEN <<"0", id>> ELSE <<group, id>>

NodeRow(id, label, valued) ==
  /\ ~failed /\ batch # None /\ batch.kind = "nodes" /\ batch.left > 0
  /\ batch.spec.group = None => id = None
  /\ batch.spec.type = "ACTUAL" /\ id # None => id >= 0
  /\ LET s       == batch.spec
         actual  == s.type = "ACTUAL" /\ id # None
         n       == [id |-> IF actual THEN id ELSE next.node, label |-> label]
         key     == KeyOf(s.group, s.type, id)
         mapped  == s.type # "ACTUAL" /\ id # None
         taken   == mapped /\ key \in DOMAIN ids
         clashes == ~open /\ \E r \in Kind(table, "node") : r.id = n.id
         records == {[kind |-> "node", id |-> n.id, label |-> label]} \cup
                    (IF valued THEN {[kind |-> "node property", id |-> n.id]} ELSE {})
         inMap   == s.type = "INTEGER" /\ s.group \in direct'
     IN /\ direct' \in {direct, IF mapped /\ s.type = "INTEGER" /\ ~taken
                                THEN direct \ {s.group} ELSE direct}
        /\ ids' = IF mapped /\ ~taken THEN Put(ids, key, n) ELSE ids
        /\ IF taken \/ clashes
           THEN /\ SkipOrFail
                /\ UNCHANGED <<spool, tuples, table, cache, next, shapes>>
           ELSE /\ Write(records)
                /\ Tally("node", <<label>>, valued)
                /\ cache' = IF id # None /\ ~inMap THEN Cached(cache, key, n) ELSE cache
                /\ IF n.id = MaxId
                   THEN Fail /\ UNCHANGED next
                   ELSE /\ RowDone(batch, 1, 0, IF valued THEN 1 ELSE 0)
                        /\ next' = [next EXCEPT !.node = IF n.id >= @ THEN n.id + 1 ELSE @]
                        /\ UNCHANGED control
  /\ rows' = rows + 1
  /\ UNCHANGED <<open, disabled, indexed, types, layout, counts, asked>>

\* An ID or a value of the row is refused, or a spool or statement fails.
RowFails ==
  /\ ~failed /\ batch # None /\ batch.left > 0
  /\ Fail
  /\ UNCHANGED <<store, lookup, next, layout, account, asked, rows>>

\* Mutation of EndBatch: skipped nodes are reported as loaded.
CountSkipped ==
  /\ ~failed /\ batch # None /\ batch.left = 0
  /\ counts' = [nodes      |-> counts.nodes + (IF batch.kind = "nodes"
                                              THEN batch.done + batch.skipped ELSE 0),
                edges      |-> counts.edges + (IF batch.kind = "edges" THEN batch.done ELSE 0),
                properties |-> counts.properties + batch.properties,
                skipped    |-> counts.skipped + batch.skipped]
  /\ batch' = None
  /\ UNCHANGED <<store, lookup, next, layout, shapes, control, asked, rows>>

EndBatch ==
  /\ ~failed /\ batch # None /\ batch.left = 0
  /\ counts' = [nodes      |-> counts.nodes + (IF batch.kind = "nodes" THEN batch.done ELSE 0),
                edges      |-> counts.edges + (IF batch.kind = "edges" THEN batch.done ELSE 0),
                properties |-> counts.properties + batch.properties,
                skipped    |-> counts.skipped + batch.skipped]
  /\ batch' = None
  /\ UNCHANGED <<store, lookup, next, layout, shapes, control, asked, rows>>

-----------------------------------------------------------------------------
(* append_relationships.                                                   *)

\* configure_bulk_pages: VACUUM with large pages while the tables are empty.
Repacked == IF ~started /\ open /\ counts.nodes >= LargeFrom THEN "large" ELSE pages

TypeOfGroup(g, fallback) == IF g \in DOMAIN types THEN types[g] ELSE fallback

\* Every node is in the tables when an ACTUAL endpoint is looked up: the headers of
\* one import use --id-type=ACTUAL throughout (import/header.rs 241).
ActualIsUniform(s) ==
  \A g \in {s.from, s.to} : TypeOfGroup(g, s.type) = "ACTUAL" => spool = {}

\* The first rows: the page size is settled, the map sealed, and the node indexes
\* start to be sorted for that page size.
StartRelationships ==
  /\ pages' = Repacked
  /\ direct' \in SUBSET direct
  /\ planned' = IF indexed THEN pages' ELSE None
  /\ started' = TRUE

BeginEdges(s, n) ==
  /\ Idle /\ rows + n <= MaxRows
  /\ ActualIsUniform(s)
  /\ IF n > 0 /\ ~started THEN StartRelationships
                          ELSE UNCHANGED <<layout, direct, started>>
  /\ batch' = [kind |-> "edges", spec |-> s, left |-> n,
               done |-> 0, skipped |-> 0, properties |-> 0]
  /\ UNCHANGED <<store, types, ids, cache, next, account, failed, result, asked, rows>>

\* Mutation of Resolve: the cache is searched by external ID alone.
ResolveAnyGroup(c, g, type, id) ==
  LET key   == KeyOf(g, type, id)
      exact == IF key \in DOMAIN ids THEN ids[key] ELSE None
      hits  == {k \in DOMAIN c : k[2] = id}
  IN IF id = None THEN [node |-> None, cache |-> c]
     ELSE IF type = "INTEGER" /\ g \in direct THEN [node |-> exact, cache |-> c]
     ELSE IF hits # {} THEN [node |-> c[CHOOSE k \in hits : TRUE], cache |-> c]
     ELSE [node  |-> exact,
           cache |-> IF exact = None THEN c ELSE Cached(c, key, exact)]

\* lookup_node: the map, then the cache, then the table behind it.
Resolve(c, g, type, id) ==
  LET key   == KeyOf(g, type, id)
      exact == IF type = "ACTUAL"
               THEN IF \E r \in Kind(table, "node") : r.id = id
                    THEN LET r == CHOOSE r \in Kind(table, "node") : r.id = id
                         IN [id |-> r.id, label |-> r.label]
                    ELSE None
               ELSE IF key \in DOMAIN ids THEN ids[key] ELSE None
  IN IF id = None THEN [node |-> None, cache |-> c]
     ELSE IF type = "INTEGER" /\ g \in direct THEN [node |-> exact, cache |-> c]
     ELSE IF key \in DOMAIN c THEN [node |-> c[key], cache |-> c]
     ELSE [node  |-> exact,
           cache |-> IF exact = None THEN c ELSE Cached(c, key, exact)]

EdgeRow(a, b, valued) ==
  /\ ~failed /\ batch # None /\ batch.kind = "edges" /\ batch.left > 0
  /\ LET s  == batch.spec
         ta == TypeOfGroup(s.from, s.type)
         tb == TypeOfGroup(s.to, s.type)
         x  == Resolve(cache, s.from, ta, a)
         y  == Resolve(x.cache, s.to, tb, b)
     IN /\ cache' = y.cache
        /\ IF x.node = None \/ y.node = None
           THEN SkipOrFail /\ UNCHANGED <<spool, tuples, table, shapes, next, asked>>
           ELSE /\ Write({[kind |-> "edge", id |-> next.edge,
                           from |-> x.node.id, to |-> y.node.id]} \cup
                         (IF valued THEN {[kind |-> "edge property", id |-> next.edge]}
                                    ELSE {}))
                /\ Tally("edge", <<x.node.label, y.node.label>>, valued)
                /\ next' = [next EXCEPT !.edge = @ + 1]
                /\ asked' = Put(asked, next.edge,
                                <<KeyOf(s.from, ta, a), KeyOf(s.to, tb, b)>>)
                /\ RowDone(batch, 1, 0, IF valued THEN 1 ELSE 0)
                /\ UNCHANGED control
  /\ rows' = rows + 1
  /\ UNCHANGED <<open, disabled, indexed, types, ids, direct, layout, counts>>

-----------------------------------------------------------------------------
(* finish.                                                                 *)

\* What validation::validate checks of the finished tables.
Sound(R) == /\ \A r, q \in Kind(R, "node") : r.id = q.id => r = q
            /\ \A r \in Kind(R, "edge") :
                 {r.from, r.to} \subseteq {q.id : q \in Kind(R, "node")}
            /\ \A r \in Kind(R, "node property") : r.id \in {q.id : q \in Kind(R, "node")}

\* Materialization moves the spools into tables and the tuples into indexes; without
\* tuples SQL builds the indexes from the tables.  Any step may fail.
Finish ==
  /\ batch = None /\ result = "none"
  /\ IF failed
     THEN result' = "error" /\ UNCHANGED <<store, layout, lookup>>
     ELSE /\ pages' = Repacked
          /\ ids' = <<>> /\ cache' = <<>> /\ direct' = {}
          /\ Materialize(IF indexed THEN tuples ELSE Tuples(Loaded))
          /\ open' = FALSE /\ indexed' = FALSE
          /\ result' \in {"error", IF Sound(table') THEN "ok" ELSE "error"}
          /\ UNCHANGED <<disabled, types, planned>>
  /\ UNCHANGED <<next, account, batch, started, failed, asked, rows>>

Next == \/ \E s \in NodeSpecs, n \in 0 .. 2 : BeginNodes(s, n)
        \/ \E id \in Ids \cup {None}, l \in Labels, v \in BOOLEAN : NodeRow(id, l, v)
        \/ RowFails
        \/ EndBatch
        \/ \E s \in EdgeSpecs, n \in 0 .. 2 : BeginEdges(s, n)
        \/ \E a, b \in Ids \cup {None}, v \in BOOLEAN : EdgeRow(a, b, v)
        \/ Finish

Spec == Init /\ [][Next]_vars

-----------------------------------------------------------------------------
NodeRecords == [id : Int, label : Labels]

TypeOK ==
  /\ {open, disabled, indexed, started, failed} \subseteq BOOLEAN
  /\ \A r \in table \cup spool \cup tuples :
       r.kind \in {"node", "node property", "edge", "edge property"}
  /\ DOMAIN types \subseteq IdGroups /\ \A g \in DOMAIN types : types[g] \in IdTypes
  /\ \A k \in DOMAIN ids : ids[k] \in NodeRecords
  /\ \A k \in DOMAIN cache : cache[k] \in NodeRecords
  /\ direct \subseteq IdGroups
  /\ next \in [node : Nat, edge : Nat]
  /\ pages \in {"ordinary", "large"} /\ planned \in {None, "ordinary", "large"}
  /\ result \in {"none", "ok", "error"}

InHand(kind, field) == IF batch # None /\ batch.kind \in kind THEN batch[field] ELSE 0

\* The label group of a loaded node, and the shape counts recomputed from the graph.
LabelOf(id) == (CHOOSE r \in Kind(Loaded, "node") : r.id = id).label
EdgeOf(id)  == CHOOSE r \in Kind(Loaded, "edge") : r.id = id
ShapeOf(r)  ==
  CASE r.kind \in {"node", "node property"} -> <<r.kind, <<LabelOf(r.id)>>>>
    [] r.kind \in {"edge", "edge property"} ->
         <<r.kind, <<LabelOf(EdgeOf(r.id).from), LabelOf(EdgeOf(r.id).to)>>>>

(* What the report counts is what was written (records are sets, so an      *)
(* internal ID given to two rows would show as a record too few), and the   *)
(* planner's graph-shape counts, kept while rows stream by, are those a     *)
(* join over the finished tables would give; the label groups of endpoints  *)
(* come from the map, the cache or the table, whichever answered.           *)
CountsAgree ==
  ~failed =>
    /\ Cardinality(Kind(Loaded, "node")) = counts.nodes + InHand({"nodes"}, "done")
    /\ Cardinality(Kind(Loaded, "edge")) = counts.edges + InHand({"edges"}, "done")
    /\ Cardinality(Kind(Loaded, "node property") \cup Kind(Loaded, "edge property"))
         = counts.properties + InHand({"nodes", "edges"}, "properties")
    /\ DOMAIN shapes = {ShapeOf(r) : r \in Loaded}
    /\ \A k \in DOMAIN shapes :
         shapes[k] = Cardinality({r \in Loaded : ShapeOf(r) = k})

(* While the index tuple spools exist they know exactly the records of the  *)
(* body, and after a successful finish the indexes are those of the tables. *)
(* The page size the node indexes are being laid out for is the one of the  *)
(* database they are written to (native.rs 900-915, 1349-1363).             *)
IndexesMatchTables ==
  /\ indexed => open /\ table = {} /\ (~failed => tuples = Tuples(spool))
  /\ result = "ok" => spool = {} /\ tuples = Tuples(table)
  /\ planned # None => planned = pages

(* A relationship connects the first node declared for each external ID it  *)
(* names, or the node that has the ACTUAL ID, whether the map, the cache    *)
(* before or after an eviction, or a table resolved it.                     *)
Stands(key, node) == IF key[1] = "0" THEN node = key[2]
                     ELSE key \in DOMAIN ids /\ node = ids[key].id
EndpointsRight ==
  result = "none" =>
    \A r \in Kind(Loaded, "edge") : /\ r.id \in DOMAIN asked
                                    /\ Stands(asked[r.id][1], r.from)
                                    /\ Stands(asked[r.id][2], r.to)

(* The complete database never fails its own validation: every internal ID  *)
(* was fresh, and every relationship had its endpoints.                     *)
AlwaysSound == TypeOK /\ (~failed => Sound(Loaded))

-----------------------------------------------------------------------------
(* The inductive invariant behind these properties.                        *)

Records == [kind : {"node"}, id : Int, label : Labels]
             \cup [kind : {"node property", "edge property"}, id : Int]
             \cup [kind : {"edge"}, id : Nat, from : Int, to : Int]

\* The map and the cache know nodes that were loaded, and agree.
IsNode(n)       == n \in NodeRecords /\ [kind |-> "node", id |-> n.id, label |-> n.label] \in Loaded
GoodEntry(k, n) == IsNode(n) /\ IF k[1] = "0" THEN n.id = k[2]
                                ELSE k \in DOMAIN ids /\ n = ids[k]
GoodCache(c)    == \A k \in DOMAIN c : GoodEntry(k, c[k])

\* Where records are, by what the importer has seen.
StoreAt ==
  /\ Loaded \subseteq Records /\ tuples \subseteq Records
  /\ open => ~disabled /\ table = {}
  /\ ~open => spool = {}
  /\ indexed => open /\ (~failed => tuples = Tuples(spool))
  /\ result = "none" /\ ~open /\ ~disabled => table = {} /\ tuples = {} /\ ids = <<>>
  /\ result = "ok" => spool = {} /\ tuples = Tuples(table)
  /\ planned # None => started /\ planned = pages

\* A batch in hand has opened the body, or found it given up.
BatchAt ==
  /\ batch # None => batch \in Batches /\ result = "none"
  /\ batch # None /\ batch.kind = "nodes" /\ batch.left > 0 =>
       /\ open \/ disabled
       /\ batch.spec.type = "ACTUAL" => ~open

\* What the lookups find, and the IDs still to be given out.
LookupAt ==
  /\ \A k \in DOMAIN ids : IsNode(ids[k])
  /\ GoodCache(cache)
  /\ ~failed => \A r \in Kind(Loaded, "node") : r.id < next.node
  /\ \A r \in Kind(Loaded, "edge") : r.id < next.edge

(* The invariant as a whole: it is inductive and implies AlwaysSound,        *)
(* IndexesMatchTables and EndpointsRight (append_nodes,                      *)
(* append_relationships, finish).                                           *)
ImportInv == TypeOK /\ StoreAt /\ BatchAt /\ LookupAt /\ Sound(Loaded) /\ EndpointsRight

\* Relationships and their properties are told apart by the ID, too.
EdgesOwn(R) == /\ \A r, q \in Kind(R, "edge") : r.id = q.id => r = q
               /\ \A r \in Kind(R, "edge property") : r.id \in {q.id : q \in Kind(R, "edge")}

(* What CountsAgree needs besides (append_nodes, append_relationships).      *)
CountInv == /\ ImportInv /\ CountsAgree
            /\ counts \in [nodes : Nat, edges : Nat, properties : Nat, skipped : Nat]
            /\ ~failed => IsFiniteSet(Loaded) /\ EdgesOwn(Loaded)

=============================================================================
