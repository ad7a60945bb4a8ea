------------------------------ MODULE BulkBuild ------------------------------
(***************************************************************************)
(* From spools to a finished database: the record spools of a bulk import  *)
(* (native/bulk_body.rs), the tuple spools of its secondary indexes        *)
(* (bulk_indexes.rs), and the threads with which finish and                *)
(* materialize_body (native.rs) turn both into trees.                      *)
(*                                                                         *)
(* A sort of the node indexes starts beside the relationships; a large     *)
(* import then writes all its tables at once into shared pages, a small    *)
(* one writes them one after the other while its indexes are sorted and    *)
(* packs those in batches.  Any thread may fail.  How a stream is sorted   *)
(* is ExternalSort, how pages are granted PagePool, what a page holds      *)
(* PageTree; here a spool is a sequence of records and a tree what it was  *)
(* given.  Memory is counted in MiB.                                       *)
(***************************************************************************)
EXTENDS Integers, FiniteSets, Sequences, SequencesExt

CONSTANTS
  Graphs,      (* imports: sequences of rows, the nodes first               *)
  Budgets,     (* memory budgets                                            *)
  Maps,        (* <<memory of the integer ID map, a group is on disk>>      *)
  LargeFrom,   (* nodes from which the bootstrap is repacked (65_536)       *)
  Cores,       (* available_parallelism                                     *)
  PrefixChars, (* characters of a text that are indexed: 12                 *)
  None,
  MaxFaults    (* bound: operations that fail                               *)

\* validate_columns: no property is named twice, so its keys differ.
IsRow(row) ==
  LET properties == row.properties
  IN  /\ row.kind \in {"node", "edge"} /\ properties \in Seq(Range(properties))
      /\ \A i \in DOMAIN properties : properties[i][1] \in Nat
      /\ \A i, j \in DOMAIN properties : properties[i][1] = properties[j][1] => i = j

ASSUME BulkBuildAssumption ==
  /\ Budgets \subseteq Nat /\ Maps \subseteq (Nat \X BOOLEAN)
  /\ LargeFrom \in Nat /\ Cores \in Nat \ {0} /\ PrefixChars \in Nat \ {0} /\ MaxFaults \in Nat
  /\ None \notin Nat
  /\ \A g \in Graphs :
       /\ g \in Seq(Range(g)) /\ \A i \in DOMAIN g : IsRow(g[i])
       /\ \A i, j \in DOMAIN g : i < j /\ g[i].kind = "edge" => g[j].kind = "edge"

\* The order in which write_tables takes the trees of a body.
Tables == <<"node", "edge", "node_property", "node_primary", "edge_property">>

\* The tuples that EDGE's four indexes store, as fields of an edge tuple.
EdgeFields == [from_type_to_id |-> <<1, 3, 2, 4>>, to_type_from_id |-> <<2, 3, 1, 4>>,
               type_from_to_id |-> <<3, 1, 2, 4>>, type_to_from_id |-> <<3, 2, 1, 4>>]
EdgeIndexes == <<"from_type_to_id", "to_type_from_id", "type_from_to_id", "type_to_from_id">>

\* The stream a node index is sorted from, and the fields of its records.
NodeStream == [label |-> "node", keyid |-> "property", numeric |-> "numeric", text |-> "text"]
NodeFields == [label |-> <<2, 1, 1>>, keyid |-> <<2, 1, 3>>,
               numeric |-> <<1, 2, 3, 4>>, text |-> <<1, 2, 3, 4>>]

\* PreparedTree::root_slot.
RootSlot == [from_type_to_id |-> 1, to_type_from_id |-> 2, type_from_to_id |-> 3,
             type_to_from_id |-> 4, label |-> 5, keyid |-> 6, text |-> 7, numeric |-> 8]

\* The order in which create_roots creates the indexes.
IndexOrder == EdgeIndexes \o <<"label", "keyid", "text", "numeric">>

Primary == {"node_primary", "edge_property"}
Trees == Range(Tables) \cup Range(EdgeIndexes) \cup DOMAIN NodeStream
Streams == {"node", "property", "numeric", "text", "edge"}

VARIABLES
  graph, left,  (* the import, and its rows not yet loaded                   *)
  budget,       (* memory_budget                                            *)
  map,          (* the ID map while relationships are resolved               *)
  spools,       (* RecordSpool: the records of every table                   *)
  owned,        (* OwnerProperties: the owner in hand and its properties     *)
  tuples,       (* IntegerSpool and TextSpool; None once dropped             *)
  roots,        (* the root pages the BodyWriter knows                       *)
  slots,        (* roots: those of the indexes, in the order of create_roots *)
  place,        (* the root page every tree of the database has              *)
  pages,        (* what was written under a root page                        *)
  sort,         (* the sort of every stream                                  *)
  grant,        (* memory of the node sort; None before it is started        *)
  write,        (* the writer of every tree                                  *)
  stats,        (* <<index, origin>>: the rows of sqlite_stat1               *)
  files,        (* spool files on disk                                       *)
  cleaner,      (* CleanupJob: "none", "running", "ended"                    *)
  phase,        (* "load", "dropping", "build", a step of finish, "leaving"  *)
  result,       (* "none", "ok" or "error"                                   *)
  faults        (* bound: operations that failed                             *)

stores  == <<spools, owned, tuples>>
disk    == <<roots, slots, place, pages, stats>>
threads == <<sort, grant, write, cleaner>>
vars == <<graph, left, budget, map, stores, disk, threads, files, phase, result, faults>>

Indexed == budget >= 16
Dynamic == Indexed /\ budget >= 256
Started == grant # None

-----------------------------------------------------------------------------
(* The spools.                                                             *)

BodyFiles == {<<"records", t>> : t \in Range(Tables)}

\* The properties of one owner in the order of their keys.
ByKey(records) ==
  LET order == CHOOSE p \in [DOMAIN records -> DOMAIN records] :
                 /\ \A i, j \in DOMAIN records : p[i] = p[j] => i = j
                 /\ \A i, j \in DOMAIN records : i < j => records[p[i]][2] <= records[p[j]][2]
  IN  [i \in DOMAIN records |-> records[order[i]]]

\* OwnerProperties::flush.
Flushed(o, spool) == spool \o ByKey(o.records)

\* OwnerProperties::push: a new owner flushes the one before.
Own(s, name, record) ==
  LET o == s.owned[name]
  IN  IF record[1] = o.owner
      THEN [s EXCEPT !.owned[name].records = Append(@, record)]
      ELSE [s EXCEPT !.spools[name] = Flushed(o, @),
                     !.owned[name] = [owner |-> record[1], records |-> <<record>>]]

Class(value) == value[1]
Prefix(text) == SubSeq(text, 1, IF Len(text) < PrefixChars THEN Len(text) ELSE PrefixChars)

\* Mutation of WithReal: integers go on being packed.
WithoutReal(t) == t

\* A real value ends the numeric stream for good.
WithReal(t) == [t EXCEPT !.numeric = None]

\* SecondaryIndexes::property.
PushTuples(t, owner, key, rowid, value) ==
  LET p == [t EXCEPT !.property = Append(@, <<owner, key, rowid>>)]
  IN CASE ~Indexed -> t
       [] Indexed /\ Class(value) = "integer" ->
            IF p.numeric = None THEN p
            ELSE [p EXCEPT !.numeric = Append(@, <<key, value[2], owner, rowid>>)]
       [] Indexed /\ Class(value) = "real" -> WithReal(p)
       [] Indexed /\ Class(value) = "text" ->
            [p EXCEPT !.text = Append(@, <<key, Prefix(value[2]), owner, rowid>>)]
       [] OTHER -> p

\* BodyWriter::node_property: row IDs are counted from 1.
PushNodeProperty(s, owner, property) ==
  LET rowid == Len(s.spools.node_property) + 1
      key   == property[1]
      one   == [s EXCEPT !.spools.node_property = Append(@, <<rowid, owner, key, property[2]>>),
                         !.tuples = PushTuples(@, owner, key, rowid, property[2])]
  IN Own(one, "node_primary", <<owner, key, rowid>>)

PushNode(s, row) ==
  LET id  == Len(s.spools.node) + 1
      one == [s EXCEPT !.spools.node = Append(@, <<id, row.label>>),
                       !.tuples.node = IF Indexed THEN Append(@, <<id, row.label>>) ELSE @]
      all[i \in 0 .. Len(row.properties)] ==
        IF i = 0 THEN one ELSE PushNodeProperty(all[i - 1], id, row.properties[i])
  IN all[Len(row.properties)]

PushEdge(s, row) ==
  LET id  == Len(s.spools.edge) + 1
      one == [s EXCEPT !.spools.edge = Append(@, <<id, row.from, row.to, row.type>>),
                       !.tuples.edge = IF Indexed THEN Append(@, <<row.from, row.to, row.type, id>>)
                                       ELSE @]
      all[i \in 0 .. Len(row.properties)] ==
        IF i = 0 THEN one
        ELSE Own(all[i - 1], "edge_property",
                 <<id, row.properties[i][1], row.properties[i][2]>>)
  IN all[Len(row.properties)]

Store(s) == /\ spools' = s.spools /\ owned' = s.owned
            /\ tuples' = [x \in Streams |-> s.tuples[x]]
            /\ files' = IF s.tuples.numeric = None THEN files \ {<<"tuples", "numeric">>} ELSE files

Stores == [spools |-> spools, owned |-> owned, tuples |-> tuples]

-----------------------------------------------------------------------------
(* Memory.                                                                 *)

Least2(a, b) == IF a < b THEN a ELSE b
Less(a, b) == IF a > b THEN a - b ELSE 0     (* saturating_sub *)

\* sort_memory_budget.
SortMemory == IF budget >= 512 THEN 264 ELSE budget \div 2

\* background_node_sort_memory: a large ID map and the cache of a spilled group share
\* the allowance of the sort that runs beside them.
BackgroundMemory ==
  IF budget >= 512
  THEN LET beside == Less(SortMemory, Less(map[1], 32))
           cached == IF map[2] THEN Less(beside, Least2(budget \div 8, 64)) ELSE beside
       IN  IF cached < 6 THEN 6 ELSE cached
  ELSE SortMemory

\* node_sort_budgets: equal shares of a small pool, weights of a large one; what
\* rounding leaves goes to the text.
NodeBudgets(memory) ==
  LET numeric == tuples.numeric # None
      streams == IF numeric THEN 3 ELSE 2
      weight  == IF numeric THEN 15 ELSE 11
      share   == IF memory < 192
                 THEN IF memory \div streams = 0 THEN 1 ELSE memory \div streams
                 ELSE (memory \div weight) * 4 + ((memory % weight) * 4) \div weight
  IN [property |-> share,
      numeric  |-> IF numeric THEN share ELSE 0,
      text     |-> IF memory < 192 THEN share ELSE memory - share * (streams - 1)]

\* Below the smallest run buffer the streams take the whole pool in turn.
InTurn == NodeBudgets(grant).property < 6

MemoryOf(s) ==
  CASE s = "node" -> Least2(grant, 32)
    [] s = "edge" -> SortMemory
    [] s \in {"property", "numeric", "text"} -> IF InTurn THEN grant ELSE NodeBudgets(grant)[s]

-----------------------------------------------------------------------------
(* Threads: "idle", "running", "ok" or "failed".                           *)

Running == {s \in Streams : sort[s] = "running"} \cup {t \in Trees : write[t] = "running"}

\* The node sorts and the indexes made from them; there may be no numeric one.
NodeStreams == IF tuples.numeric = None THEN <<"node", "property", "text">>
               ELSE <<"node", "property", "numeric", "text">>
NodeIndexes == IF tuples.numeric = None THEN <<"label", "keyid", "text">>
               ELSE <<"label", "keyid", "numeric", "text">>

\* write_prepared: as many indexes at a time as there are workers.
Prepared == EdgeIndexes \o NodeIndexes
BatchSize == LET asked == SortMemory \div 8
             IN  Least2(Cores, IF asked < 1 THEN 1 ELSE Least2(asked, 4))
Batch(b) == {Prepared[i] : i \in {j \in DOMAIN Prepared : (j - 1) \div BatchSize = b}}

-----------------------------------------------------------------------------
(* Loading.                                                                *)

Init == /\ graph \in Graphs /\ left = graph
        /\ budget \in Budgets /\ map \in Maps
        /\ spools = [t \in Range(Tables) |-> <<>>]
        /\ owned = [t \in Primary |-> [owner |-> 0, records |-> <<>>]]
        /\ tuples = [s \in Streams |-> <<>>]
        /\ roots = [t \in Range(Tables) |-> CHOOSE i \in DOMAIN Tables : Tables[i] = t]
        /\ place = roots /\ slots = <<>> /\ stats = {}
        /\ pages = [p \in Range(roots) |-> None]
        /\ sort = [s \in Streams |-> "idle"]
        /\ write = [t \in Trees |-> "idle"]
        /\ grant = None /\ cleaner = "none"
        /\ files = BodyFiles \cup (IF Indexed THEN {<<"tuples", s>> : s \in Streams} ELSE {})
        /\ phase = "load" /\ result = "none" /\ faults = 0

\* VACUUM may move every root; the rows are still in the spools.
Moved == {place, [t \in DOMAIN place |-> (place[t] % Cardinality(DOMAIN place)) + 1]}

\* configure_bulk_pages.
Repack == place' \in IF ~Started /\ Len(spools.node) >= LargeFrom THEN Moved ELSE {place}

\* start_node_sort.
StartNodeSort(memory) == grant' = memory /\ sort' = [sort EXCEPT !["node"] = "running"]

LoadNode ==
  /\ phase = "load" /\ left # <<>> /\ Head(left).kind = "node"
  /\ left' = Tail(left)
  /\ Store(PushNode(Stores, Head(left)))
  /\ UNCHANGED <<graph, budget, map, disk, threads, phase, result, faults>>

\* The first relationship: the bootstrap is repacked and the node sort begins.
LoadEdge ==
  /\ phase = "load" /\ left # <<>> /\ Head(left).kind = "edge"
  /\ left' = Tail(left)
  /\ Store(PushEdge(Stores, Head(left)))
  /\ IF Started \/ Len(spools.edge) > 0
     THEN UNCHANGED <<place, grant, sort>>
     ELSE /\ Repack
          /\ IF Indexed THEN StartNodeSort(BackgroundMemory) ELSE UNCHANGED <<grant, sort>>
  /\ UNCHANGED <<graph, budget, map, roots, slots, pages, stats, write, cleaner,
                 phase, result, faults>>

\* A row is refused or a spool cannot be written: the importer is dropped.
Drop == phase' = "dropping" /\ files' = files \ BodyFiles

LoadFails ==
  /\ phase = "load" /\ faults < MaxFaults /\ faults' = faults + 1
  /\ Drop
  /\ UNCHANGED <<graph, left, budget, map, stores, disk, threads, result>>

\* Mutation of Dropped: the node sort is left to itself.
Detached ==
  /\ phase = "dropping"
  /\ phase' = "ended" /\ result' = "error" /\ files' = {}
  /\ UNCHANGED <<graph, left, budget, map, stores, disk, threads, faults>>

\* SecondaryIndexes::drop: the node sort is joined, and its spools go with it.
Dropped ==
  /\ phase = "dropping" /\ Running = {}
  /\ phase' = "ended" /\ result' = "error" /\ files' = {}
  /\ UNCHANGED <<graph, left, budget, map, stores, disk, threads, faults>>

-----------------------------------------------------------------------------
(* materialize_body: the threads.                                          *)

\* What a sort leaves in place of its spool, once it ends.
SortedFiles(s, ok) == (files \ {<<"tuples", s>>}) \cup (IF ok THEN {<<"sorted", s>>} ELSE {})

\* The sorts that follow one of the node sorts.
Following(s) ==
  IF s = "edge" THEN {}
  ELSE IF InTurn THEN {NodeStreams[i] : i \in {j \in 2 .. Len(NodeStreams) : NodeStreams[j - 1] = s}}
  ELSE IF s = "node" THEN Range(Tail(NodeStreams)) ELSE {}

Sorted(s, ok) ==
  /\ sort[s] = "running"
  /\ sort' = [x \in Streams |-> IF x = s THEN IF ok THEN "ok" ELSE "failed"
                                ELSE IF ok /\ x \in Following(s) THEN "running" ELSE sort[x]]
  /\ files' = SortedFiles(s, ok)

SortEnds(s) ==
  /\ Sorted(s, TRUE)
  /\ UNCHANGED <<graph, left, budget, map, stores, disk, grant, write, cleaner, phase, result, faults>>

SortFails(s) ==
  /\ faults < MaxFaults /\ faults' = faults + 1
  /\ Sorted(s, FALSE)
  /\ UNCHANGED <<graph, left, budget, map, stores, disk, grant, write, cleaner, phase, result>>

\* create_roots; the numeric index, the last one, is left to SQL when there was a
\* real value.
CreateRoots ==
  LET names == IF tuples.numeric = None THEN SubSeq(IndexOrder, 1, 7) ELSE IndexOrder
      first == Len(Tables)
  IN  /\ slots' = [i \in DOMAIN names |-> first + i]
      /\ place' = [t \in DOMAIN place \cup Range(names) |->
                     IF t \in DOMAIN place THEN place[t]
                     ELSE first + CHOOSE i \in DOMAIN names : names[i] = t]

\* refresh_roots, just before the pages are written.
RefreshRoots == roots' = [t \in Range(Tables) |-> place'[t]]

\* finish: an import without relationships is repacked here, and its nodes are sorted.
RepackLate ==
  /\ phase = "load" /\ left = <<>>
  /\ Repack
  /\ phase' = "finish"
  /\ UNCHANGED <<graph, left, budget, map, stores, roots, slots, pages, stats, threads, files, result, faults>>

Materialize ==
  /\ phase = "finish"
  /\ IF Indexed THEN CreateRoots ELSE UNCHANGED <<slots, place>>
  /\ RefreshRoots
  /\ pages' = [p \in Range(place') |-> None]
  /\ spools' = [t \in Range(Tables) |->
                  IF t \in Primary THEN Flushed(owned[t], spools[t]) ELSE spools[t]]
  /\ owned' = [t \in Primary |-> [owned[t] EXCEPT !.records = <<>>]]
  /\ write' = [t \in Trees |-> IF t \in Range(Tables) /\ (Dynamic \/ t = Head(Tables))
                               THEN "running" ELSE "idle"]
  /\ IF Indexed /\ ~Started THEN StartNodeSort(SortMemory) ELSE UNCHANGED <<grant, sort>>
  /\ phase' = "build"
  /\ UNCHANGED <<graph, left, budget, map, tuples, stats, cleaner, files, result, faults>>

Finished(f, S) == \A x \in S : f[x] \in {"ok", "failed"}
AllOk(f, S) == \A x \in S : f[x] = "ok"

NodesSorted  == AllOk(sort, Range(NodeStreams))
NodesRefused == /\ \E s \in Range(NodeStreams) : sort[s] = "failed"
                /\ \A s \in Range(NodeStreams) : sort[s] # "running"

\* Mutation of MaySortEdges: the node sort is joined after the edges.
SortEdgesEarly == ~Dynamic /\ sort["edge"] = "idle"

\* prepare: the edges are sorted when the node sort has been joined.
MaySortEdges == ~Dynamic /\ NodesSorted /\ sort["edge"] = "idle"

\* The writers a scope spawns: all node indexes at once, and the edge indexes after
\* them, whether or not they could be written; or the indexes of a small import in
\* batches, after everything is sorted and the tables are written.
MayPackNodes == Dynamic /\ NodesSorted /\ \A t \in Range(NodeIndexes) : write[t] = "idle"
MayPackEdges == /\ Dynamic /\ \A t \in Range(EdgeIndexes) : write[t] = "idle"
                /\ NodesRefused \/ Finished(write, Range(NodeIndexes))
MayPack(b) ==
  /\ Indexed /\ ~Dynamic
  /\ NodesSorted /\ sort["edge"] = "ok" /\ AllOk(write, Range(Tables))
  /\ Batch(b) # {} /\ \A t \in Batch(b) : write[t] = "idle"
  /\ \A c \in 0 .. b - 1 : AllOk(write, Batch(c))

Spawn(f, S) == [x \in DOMAIN f |-> IF x \in S THEN "running" ELSE f[x]]

SortEdges ==
  /\ phase = "build" /\ Indexed /\ MaySortEdges
  /\ sort' = Spawn(sort, {"edge"})
  /\ UNCHANGED <<graph, left, budget, map, stores, disk, grant, write, cleaner, files, phase, result, faults>>

PackIndexes ==
  /\ phase = "build"
  /\ \/ MayPackNodes /\ write' = Spawn(write, Range(NodeIndexes))
     \/ MayPackEdges /\ write' = Spawn(write, Range(EdgeIndexes))
     \/ \E b \in 0 .. Len(Prepared) : MayPack(b) /\ write' = Spawn(write, Batch(b))
  /\ UNCHANGED <<graph, left, budget, map, stores, disk, sort, grant, cleaner, files, phase, result, faults>>

Project(tuple, fields) == [i \in DOMAIN fields |-> tuple[fields[i]]]
Packed(t) ==
  IF t \in Range(EdgeIndexes) THEN {Project(x, Append(EdgeFields[t], 4)) : x \in Range(tuples.edge)}
  ELSE {Project(x, NodeFields[t]) : x \in Range(tuples[NodeStream[t]])}

RootOf(t) == IF t \in Range(Tables) THEN roots[t] ELSE slots[RootSlot[t]]
Contents(t) == IF t \in Range(Tables) THEN spools[t] ELSE Packed(t)

\* PrimaryRecords::next: the first two fields must increase.
Before(a, b) == a[1] < b[1] \/ (a[1] = b[1] /\ a[2] < b[2])
Increasing(records) == \A i \in 2 .. Len(records) : Before(records[i - 1], records[i])

\* write_tables takes the trees in turn.
NextTable(t) ==
  IF Dynamic THEN {}
  ELSE {Tables[i] : i \in {j \in 2 .. Len(Tables) : Tables[j - 1] = t}}

Written(t, ok) ==
  /\ write[t] = "running"
  /\ write' = [x \in Trees |-> IF x = t THEN IF ok THEN "ok" ELSE "failed"
                               ELSE IF ok /\ x \in NextTable(t) THEN "running" ELSE write[x]]

WriterEnds(t) ==
  /\ Written(t, t \in Primary => Increasing(spools[t]))
  /\ pages' = [pages EXCEPT ![RootOf(t)] = Contents(t)]
  /\ UNCHANGED <<graph, left, budget, map, stores, roots, slots, place, stats, sort, grant, cleaner,
                 files, phase, result, faults>>

WriterFails(t) ==
  /\ faults < MaxFaults /\ faults' = faults + 1
  /\ Written(t, FALSE)
  /\ UNCHANGED <<graph, left, budget, map, stores, disk, sort, grant, cleaner, files, phase, result>>

\* The trees that were to be written.
Wanted == Range(Tables) \cup (IF Indexed THEN Range(Prepared) ELSE {})

\* Mutation of Joined: writers are waited for that an error has kept from starting.
JoinedAll ==
  /\ phase = "build" /\ Running = {}
  /\ Finished(write, Wanted)

\* Every thread a scope has spawned is joined, and no other will be.
Joined ==
  /\ phase = "build" /\ Running = {}
  /\ Indexed => ~MaySortEdges /\ ~MayPackNodes /\ ~MayPackEdges
  /\ \A b \in 0 .. Len(Prepared) : ~MayPack(b)

GiveUp == phase' = "ended" /\ result' = "error" /\ files' = {} /\ UNCHANGED cleaner

\* The first error is returned, or the pages are sealed and the spools are left to a
\* thread of their own.
Join ==
  /\ Joined
  /\ IF AllOk(write, Wanted)
     THEN phase' = "commit" /\ cleaner' = "running" /\ UNCHANGED <<files, result>>
     ELSE GiveUp
  /\ UNCHANGED <<graph, left, budget, map, stores, disk, sort, grant, write, faults>>

\* PageWriter::finish, or opening the database again, fails.
SealFails ==
  /\ Joined /\ AllOk(write, Wanted)
  /\ faults < MaxFaults /\ faults' = faults + 1
  /\ GiveUp
  /\ UNCHANGED <<graph, left, budget, map, stores, disk, sort, grant, write>>

-----------------------------------------------------------------------------
(* The rest of finish, in SQL.                                             *)

CleanerEnds ==
  /\ cleaner = "running"
  /\ cleaner' = "ended" /\ files' = {}
  /\ UNCHANGED <<graph, left, budget, map, stores, disk, sort, grant, write, phase, result, faults>>

At(t) == pages[place[t]]
Empty(t) == IF t \in Range(Tables) THEN At(t) = <<>> ELSE At(t) = {}
Is(value, classes) == Class(value) \in classes

\* CREATE INDEX: the entries of an index, from the rows of its table (schema.rs).
SqlIndex(t) ==
  CASE t \in DOMAIN EdgeFields ->
         {LET by == [from |-> e[2], to |-> e[3], type |-> e[4], id |-> e[1]]
          IN CASE t = "from_type_to_id" -> <<by.from, by.type, by.to, by.id, by.id>>
               [] t = "to_type_from_id" -> <<by.to, by.type, by.from, by.id, by.id>>
               [] t = "type_from_to_id" -> <<by.type, by.from, by.to, by.id, by.id>>
               [] t = "type_to_from_id" -> <<by.type, by.to, by.from, by.id, by.id>>
          : e \in Range(At("edge"))}
    [] t = "label"   -> {<<n[2], n[1], n[1]>> : n \in Range(At("node"))}
    [] t = "keyid"   -> {<<p[3], p[2], p[1]>> : p \in Range(At("node_property"))}
    [] t = "numeric" -> {<<p[3], p[4][2], p[2], p[1]>> :
                           p \in {q \in Range(At("node_property")) : Is(q[4], {"integer", "real"})}}
    [] t = "text"    -> {<<p[3], Prefix(p[4][2]), p[2], p[1]>> :
                           p \in {q \in Range(At("node_property")) : Is(q[4], {"text"})}}

Secondary == DOMAIN EdgeFields \cup DOMAIN NodeFields

\* The schema creates the indexes that do not exist, behind the pages of the others.
BuildSchema ==
  LET new   == Secondary \ DOMAIN place
      top   == Len(Tables) + Len(IndexOrder)
      where == [t \in DOMAIN place \cup new |->
                  IF t \in new THEN top + CHOOSE i \in DOMAIN IndexOrder : IndexOrder[i] = t
                  ELSE place[t]]
  IN  /\ place' = where
      /\ pages' = [p \in Range(where) |->
                     IF p \in DOMAIN pages THEN pages[p]
                     ELSE SqlIndex(CHOOSE t \in new : where[t] = p)]

\* publish_statistics: the indexes packed without statistics are analyzed.  The primary
\* key of edge_property is the table itself and no index of the schema.
Built == {t \in Wanted \ {"node", "edge", "node_property"} :
            IF t \in Primary THEN spools[t] # <<>> ELSE Packed(t) # {}}
PublishStatistics ==
  stats' = {<<t, "packed">> : t \in Built} \cup
           {<<t, "analyzed">> : t \in {i \in (Secondary \cup {"node_primary"}) \ Built :
                                         ~Empty(i)}}

Steps == <<"commit", "schema", "statistics", "validate", "checkpoint", "leaving">>
AfterStep(p) == Steps[1 + CHOOSE i \in DOMAIN Steps : Steps[i] = p]

FinishStep ==
  /\ phase \in Range(Steps) \ {"leaving"}
  /\ phase' = AfterStep(phase)
  /\ CASE phase = "schema"     -> BuildSchema /\ UNCHANGED <<stats, result>>
       [] phase = "statistics" -> PublishStatistics /\ UNCHANGED <<place, pages, result>>
       [] phase = "checkpoint" -> result' = "ok" /\ UNCHANGED <<place, pages, stats>>
       [] OTHER                -> UNCHANGED <<place, pages, stats, result>>
  /\ UNCHANGED <<graph, left, budget, map, stores, roots, slots, threads, files, faults>>

StepFails ==
  /\ phase \in (Range(Steps) \ {"leaving"}) \cup {"finish"}
  /\ faults < MaxFaults /\ faults' = faults + 1
  /\ IF phase = "finish" THEN Drop /\ UNCHANGED result
     ELSE phase' = "leaving" /\ result' = "error" /\ UNCHANGED files
  /\ UNCHANGED <<graph, left, budget, map, stores, disk, threads>>

\* CleanupJob::drop: the files are gone before the result is known.
Leave ==
  /\ phase = "leaving" /\ cleaner = "ended"
  /\ phase' = "ended"
  /\ UNCHANGED <<graph, left, budget, map, stores, disk, threads, files, result, faults>>

Progress == \/ LoadNode \/ LoadEdge \/ Dropped \/ RepackLate \/ Materialize
            \/ \E s \in Streams : SortEnds(s)
            \/ SortEdges \/ PackIndexes
            \/ \E t \in Trees : WriterEnds(t)
            \/ Join \/ CleanerEnds \/ FinishStep \/ Leave

Fault == \/ LoadFails
         \/ \E s \in Streams : SortFails(s)
         \/ \E t \in Trees : WriterFails(t)
         \/ SealFails \/ StepFails

Next == Progress \/ Fault

Spec == Init /\ [][Next]_vars

\* The caller feeds its rows and finishes, and every thread goes on until it ends.
FairSpec == Spec /\ WF_vars(Progress)

-----------------------------------------------------------------------------
States == {"idle", "running", "ok", "failed"}

TypeOK ==
  /\ sort \in [Streams -> States] /\ write \in [Trees -> States]
  /\ grant \in Nat \cup {None} /\ cleaner \in {"none", "running", "ended"}
  /\ phase \in {"load", "dropping", "finish", "build", "ended"} \cup Range(Steps)
  /\ result \in {"none", "ok", "error"}
  /\ DOMAIN place \subseteq Trees /\ DOMAIN pages = Range(place)

Nodes == {i \in DOMAIN graph : graph[i].kind = "node"}
Edge(i) == graph[Cardinality(Nodes) + i]
PropertiesOf(row, id) == {<<id, p[1], p[2]>> : p \in Range(row.properties)}

(* Once the schema is complete, every tree under its real root holds exactly *)
(* the rows of the import, in the order its key asks for, and every index    *)
(* the entries SQL would give it from the finished tables; the planner has   *)
(* the statistics of each index that is not empty, once.  Without a fault    *)
(* the import does not fail, so no check it makes of its own work misfires.  *)
TablesExact ==
  /\ At("node") = [i \in 1 .. Cardinality(Nodes) |-> <<i, graph[i].label>>]
  /\ At("edge") = [i \in 1 .. Len(graph) - Cardinality(Nodes) |->
                     <<i, Edge(i).from, Edge(i).to, Edge(i).type>>]
  /\ {Tail(p) : p \in Range(At("node_property"))} = UNION {PropertiesOf(graph[i], i) : i \in Nodes}
  /\ \A i \in DOMAIN At("node_property") : At("node_property")[i][1] = i
  /\ Range(At("node_primary")) = {<<p[2], p[3], p[1]>> : p \in Range(At("node_property"))}
  /\ Range(At("edge_property")) =
       UNION {PropertiesOf(Edge(i), i) : i \in 1 .. Len(graph) - Cardinality(Nodes)}
  /\ Increasing(At("node_primary")) /\ Increasing(At("edge_property"))

TreesExact ==
  /\ phase \in {"statistics", "validate", "checkpoint"} \/ result = "ok" =>
       TablesExact /\ \A t \in Secondary : At(t) = SqlIndex(t)
  /\ phase \in {"validate", "checkpoint"} \/ result = "ok" =>
       \A t \in Secondary \cup Primary :
         Cardinality({s \in stats : s[1] = t}) = IF Empty(t) THEN 0 ELSE 1
  /\ faults = 0 => result # "error"

(* The sorts that run at the same time never have more memory than the one   *)
(* pool; beside the relationships they leave room for a large ID map and the *)
(* cache of its spilled groups, down to the smallest buffer.  The edge       *)
(* writers of a large import divide the pool again, after the node sort.     *)
EdgeShare == IF Dynamic /\ \E t \in Range(EdgeIndexes) : write[t] = "running" THEN SortMemory ELSE 0
Taken(s) == IF sort[s] = "running" THEN MemoryOf(s) ELSE 0
Sorting == Taken("node") + Taken("property") + Taken("numeric") + Taken("text") + Taken("edge")
             + EdgeShare
Reserve == IF budget >= 512
           THEN Less(map[1], 32) + (IF map[2] THEN Least2(budget \div 8, 64) ELSE 0) ELSE 0
Beside == IF phase \in {"load", "dropping"} THEN Reserve ELSE 0
SortersShareBudget ==
  /\ TypeOK
  /\ Sorting # 0 => Sorting + Beside <= SortMemory \/ Sorting <= 6

(* Whatever failed, and wherever: when the import has a result no thread is  *)
(* left that could still write, and no spool is left on the disk.            *)
NothingOutlives ==
  /\ phase = "ended" => Running = {} /\ files = {} /\ cleaner # "running"
  /\ phase \in Range(Steps) => Running = {}

(* The build ends, with whatever fault.                                      *)
BuildEnds == <>(phase = "ended")

-----------------------------------------------------------------------------
(* The inductive invariant behind the properties about threads and memory.  *)

Loading == {"load", "dropping", "finish"}
Late    == Range(Steps) \cup {"ended"}

\* Nodes come first: the node sort never reads a spool that still grows.
SpoolsAt ==
  /\ graph \in Graphs /\ left \in Seq(Range(graph)) /\ DOMAIN tuples = Streams
  /\ \A i, j \in DOMAIN left : i < j /\ left[i].kind = "edge" => left[j].kind = "edge"
  /\ phase = "load" /\ Started => \A i \in DOMAIN left : left[i].kind # "node"

\* Which sorts and writers can have begun.
ThreadsAt ==
  /\ phase \in Loading => \A t \in Trees : write[t] = "idle"
  /\ ~Started => \A s \in Streams : sort[s] = "idle"
  /\ \A s \in {"property", "numeric", "text"} : sort[s] # "idle" => sort["node"] = "ok"
  /\ sort["numeric"] # "idle" => tuples.numeric # None
  /\ sort["edge"] # "idle" => NodesSorted /\ ~Dynamic
  /\ Started /\ InTurn =>
       /\ sort["numeric"] # "idle" => sort["property"] = "ok"
       /\ sort["text"] # "idle" => sort["property"] = "ok"
       /\ sort["text"] # "idle" /\ tuples.numeric # None => sort["numeric"] = "ok"
  /\ Dynamic /\ (\E t \in Range(NodeIndexes) : write[t] # "idle") => NodesSorted
  /\ Dynamic /\ (\E t \in Range(EdgeIndexes) : write[t] # "idle") =>
       \A s \in Streams : sort[s] # "running"
  /\ phase \in Late => Running = {}

\* What the node sort was granted, and what it leaves to the map beside it.
GrantAt ==
  /\ budget \in Nat /\ map \in Nat \X BOOLEAN
  /\ Started => Indexed /\ grant \in 6 .. SortMemory
  /\ Started /\ phase \in Loading => grant + Reserve <= SortMemory \/ grant = 6

\* The spool files and the thread that removes them.
FilesAt ==
  /\ phase \notin Late => cleaner = "none"
  /\ cleaner = "ended" => files = {}
  /\ phase = "ended" => files = {} /\ cleaner # "running"

\* The roots of a database whose pages have not been written.
RootsAt == phase \in Loading => DOMAIN place = Range(Tables) /\ Range(place) = 1 .. 5

(* The invariant as a whole: it is inductive and implies NothingOutlives and *)
(* SortersShareBudget (finish, materialize_body, start_node_sort).           *)
BuildInv == TypeOK /\ SpoolsAt /\ ThreadsAt /\ GrantAt /\ FilesAt /\ RootsAt
=============================================================================
