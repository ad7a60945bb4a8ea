------------------------ MODULE OfflineImportProofs ------------------------
(***************************************************************************)
(* Machine-checked proofs about OfflineImport: for any ID groups, external  *)
(* IDs, label groups, cache size and batches, the finished tables pass      *)
(* their validation, the index tuples are those of the tables, and every    *)
(* relationship connects the nodes it names.                                *)
(***************************************************************************)
EXTENDS OfflineImport, FiniteSetTheorems, TLAPS

-----------------------------------------------------------------------------
(* Maps.                                                                    *)

LEMMA PutFacts ==
  ASSUME NEW f, NEW k, NEW v
  PROVE  /\ DOMAIN Put(f, k, v) = DOMAIN f \cup {k}
         /\ Put(f, k, v)[k] = v
         /\ \A j \in DOMAIN f : j # k => Put(f, k, v)[j] = f[j]
BY DEF Put

\* What an insertion leaves in the cache, evicted or not.
LEMMA CachedFacts ==
  ASSUME NEW c, NEW k, NEW n, NEW j \in DOMAIN Cached(c, k, n)
  PROVE  \/ j = k /\ Cached(c, k, n)[j] = n
         \/ j \in DOMAIN c /\ Cached(c, k, n)[j] = c[j]
<1>1. CASE CacheLimit = 0
  BY <1>1 DEF Cached
<1>2. CASE CacheLimit # 0
  <2>1. PICK d : d \in {c, <<>>} /\ Cached(c, k, n) = Put(d, k, n)
    BY <1>2 DEF Cached
  <2> DEFINE p == Put(d, k, n)
  <2>2. DOMAIN p = DOMAIN d \cup {k} /\ p[k] = n /\ \A i \in DOMAIN d : i # k => p[i] = d[i]
    BY DEF Put
  <2> HIDE DEF p
  <2>3. j \in DOMAIN p /\ Cached(c, k, n) = p
    BY <2>1 DEF p
  <2>4. CASE j = k
    BY <2>2, <2>3, <2>4
  <2>5. CASE j # k
    <3>1. j \in DOMAIN d /\ p[j] = d[j]
      BY <2>2, <2>3, <2>5
    <3>2. d = c
      BY <2>1, <3>1
    <3>3. QED BY <2>3, <3>1, <3>2
  <2>6. QED BY <2>4, <2>5
<1>3. QED BY <1>1, <1>2

-----------------------------------------------------------------------------
(* What the invariant says of the records.                                  *)

LEMMA RecordFacts ==
  ASSUME ImportInv
  PROVE  /\ \A r \in Kind(Loaded, "node") : /\ r \in Loaded /\ r.id \in Int /\ r.label \in Labels
                                           /\ r = [kind |-> "node", id |-> r.id, label |-> r.label]
         /\ \A r \in Kind(Loaded, "edge") : r \in Loaded /\ r.id \in Nat
         /\ \A r \in Kind(Loaded, "node property") : r \in Loaded /\ r.id \in Int
         /\ next.node \in Nat /\ next.edge \in Nat
<1>1. Loaded \subseteq Records /\ next \in [node : Nat, edge : Nat]
  BY DEF ImportInv, StoreAt, TypeOK
<1>2. \A r \in Records : r.kind = "node" =>
        /\ r.id \in Int /\ r.label \in Labels
        /\ r = [kind |-> "node", id |-> r.id, label |-> r.label]
  <2>1. \A r \in Records : r.kind = "node" => r \in [kind : {"node"}, id : Int, label : Labels]
    BY DEF Records
  <2>2. \A r \in [kind : {"node"}, id : Int, label : Labels] :
          /\ r.id \in Int /\ r.label \in Labels
          /\ r = [kind |-> "node", id |-> r.id, label |-> r.label]
    OBVIOUS
  <2>3. QED BY <2>1, <2>2
<1>3. \A r \in Records : r.kind = "edge" => r.id \in Nat
  BY DEF Records
<1>4. \A r \in Records : r.kind = "node property" => r.id \in Int
  BY DEF Records
<1>5. QED BY <1>1, <1>2, <1>3, <1>4 DEF Kind

\* What Write does, wherever the records go.
LEMMA WriteFacts ==
  ASSUME ImportInv, NEW R \in SUBSET Records, Write(R), UNCHANGED <<open, indexed>>
  PROVE  /\ Loaded' = Loaded \cup R
         /\ (open => table' = table) /\ (~open => spool' = spool)
         /\ tuples' \subseteq Records
         /\ indexed /\ ~failed => tuples' = Tuples(spool')
<1>1. CASE open
  <2>1. /\ spool' = spool \cup R /\ table' = table
        /\ tuples' = IF indexed THEN tuples \cup Tuples(R) ELSE tuples
    BY <1>1 DEF Write
  <2>2. Tuples(spool \cup R) = Tuples(spool) \cup Tuples(R) /\ Tuples(R) \subseteq R
    BY DEF Tuples
  <2>3. tuples \subseteq Records /\ (indexed /\ ~failed => tuples = Tuples(spool))
    BY DEF ImportInv, StoreAt
  <2>4. QED BY <1>1, <2>1, <2>2, <2>3 DEF Loaded
<1>2. CASE ~open
  <2>1. table' = table \cup R /\ spool' = spool /\ tuples' = tuples /\ ~indexed
    BY <1>2 DEF Write, ImportInv, StoreAt
  <2>2. QED BY <1>2, <2>1 DEF Loaded, ImportInv, StoreAt
<1>3. QED BY <1>1, <1>2

-----------------------------------------------------------------------------
(* Looking up a node.                                                       *)

LEMMA ResolveFacts ==
  ASSUME ImportInv, NEW c, GoodCache(c),
         NEW g \in IdGroups, NEW type \in IdTypes, NEW id \in Ids \cup {None}
  PROVE  LET x == Resolve(c, g, type, id)
         IN /\ GoodCache(x.cache)
            /\ x.node # None => IsNode(x.node) /\ Stands(KeyOf(g, type, id), x.node.id)
<1> DEFINE x == Resolve(c, g, type, id)
           key == KeyOf(g, type, id)
           exact == IF type = "ACTUAL"
                    THEN IF \E r \in Kind(table, "node") : r.id = id
                         THEN LET r == CHOOSE r \in Kind(table, "node") : r.id = id
                              IN [id |-> r.id, label |-> r.label]
                         ELSE None
                    ELSE IF key \in DOMAIN ids THEN ids[key] ELSE None
<1>1. /\ key[1] = "0" <=> type = "ACTUAL"
      /\ key[2] = id
  BY OfflineImportAssumption DEF KeyOf
<1>2. x = IF id = None THEN [node |-> None, cache |-> c]
          ELSE IF type = "INTEGER" /\ g \in direct THEN [node |-> exact, cache |-> c]
          ELSE IF key \in DOMAIN c THEN [node |-> c[key], cache |-> c]
          ELSE [node |-> exact, cache |-> IF exact = None THEN c ELSE Cached(c, key, exact)]
  BY DEF Resolve
<1>3. ASSUME exact # None PROVE GoodEntry(key, exact)
  <2>1. CASE type = "ACTUAL"
    <3>1. \E r \in Kind(table, "node") : r.id = id
      BY <1>3, <2>1
    <3>2. PICK r \in Kind(table, "node") : r.id = id /\ exact = [id |-> r.id, label |-> r.label]
      BY <2>1, <3>1
    <3>3. r \in Kind(Loaded, "node")
      BY DEF Kind, Loaded
    <3>4. r.id \in Int /\ r.label \in Labels /\ r \in Loaded
          /\ r = [kind |-> "node", id |-> r.id, label |-> r.label]
      BY <3>3, RecordFacts
    <3>5. IsNode(exact)
      BY <3>2, <3>4 DEF IsNode, NodeRecords
    <3>6. exact.id = id
      BY <3>2
    <3>7. QED BY <1>1, <2>1, <3>5, <3>6 DEF GoodEntry
  <2>2. CASE type # "ACTUAL"
    <3>1. key \in DOMAIN ids /\ exact = ids[key]
      BY <1>3, <2>2
    <3>2. IsNode(ids[key])
      BY <3>1 DEF ImportInv, LookupAt
    <3>3. QED BY <1>1, <2>2, <3>1, <3>2 DEF GoodEntry
  <2>3. QED BY <2>1, <2>2
<1>4. \A n : GoodEntry(key, n) => IsNode(n) /\ Stands(key, n.id)
  BY DEF GoodEntry, Stands
<1> HIDE DEF x, key, exact
<1>5. CASE id = None
  BY <1>2, <1>5 DEF x
<1>6. CASE id # None /\ type = "INTEGER" /\ g \in direct
  <2>1. x.node = exact /\ x.cache = c
    BY <1>2, <1>6
  <2>2. QED BY <1>3, <1>4, <2>1 DEF x, key
<1>7. CASE id # None /\ ~(type = "INTEGER" /\ g \in direct) /\ key \in DOMAIN c
  <2>1. x.node = c[key] /\ x.cache = c
    BY <1>2, <1>7
  <2>2. GoodEntry(key, c[key])
    BY <1>7 DEF GoodCache
  <2>3. QED BY <1>4, <2>1, <2>2 DEF x, key
<1>8. CASE id # None /\ ~(type = "INTEGER" /\ g \in direct) /\ key \notin DOMAIN c
  <2>1. x.node = exact /\ x.cache = IF exact = None THEN c ELSE Cached(c, key, exact)
    BY <1>2, <1>8
  <2>2. ASSUME exact # None PROVE GoodCache(Cached(c, key, exact))
    <3>1. ASSUME NEW j \in DOMAIN Cached(c, key, exact)
          PROVE  GoodEntry(j, Cached(c, key, exact)[j])
      <4>1. \/ j = key /\ Cached(c, key, exact)[j] = exact
            \/ j \in DOMAIN c /\ Cached(c, key, exact)[j] = c[j]
        BY CachedFacts
      <4>2. QED BY <1>3, <2>2, <4>1 DEF GoodCache
    <3>2. QED BY <3>1 DEF GoodCache
  <2>3. QED BY <1>3, <1>4, <2>1, <2>2 DEF x, key
<1>9. QED BY <1>5, <1>6, <1>7, <1>8

-----------------------------------------------------------------------------
(* Steps that load nothing.                                                 *)

LEMMA TypeStep ==
  ASSUME StoreAt', LookupAt', {open', disabled', indexed', started', failed'} \subseteq BOOLEAN,
         DOMAIN types' \subseteq IdGroups, \A g \in DOMAIN types' : types'[g] \in IdTypes,
         direct' \subseteq IdGroups, next' \in [node : Nat, edge : Nat],
         pages' \in {"ordinary", "large"}, planned' \in {None, "ordinary", "large"},
         result' \in {"none", "ok", "error"}
  PROVE  TypeOK'
<1>1. \A r \in Records : r.kind \in {"node", "node property", "edge", "edge property"}
  BY DEF Records
<1>2. \A r \in (table \cup spool \cup tuples)' :
        r.kind \in {"node", "node property", "edge", "edge property"}
  BY <1>1 DEF StoreAt, Loaded
<1>3. /\ \A k \in DOMAIN ids' : ids'[k] \in NodeRecords
      /\ \A k \in DOMAIN cache' : cache'[k] \in NodeRecords
  BY DEF LookupAt, GoodCache, GoodEntry, IsNode
<1>4. QED BY <1>2, <1>3 DEF TypeOK

LEMMA QuietStep ==
  ASSUME ImportInv, Loaded' = Loaded, UNCHANGED <<ids, cache, next, asked>>,
         failed => failed', result' = "none" => result = "none"
  PROVE  LookupAt' /\ Sound(Loaded)' /\ EndpointsRight'
<1>1. \A k \in DOMAIN ids : IsNode(ids[k])'
  BY DEF ImportInv, LookupAt, IsNode
<1>2. GoodCache(cache)'
  BY DEF ImportInv, LookupAt, GoodCache, GoodEntry, IsNode
<1>3. LookupAt'
  BY <1>1, <1>2 DEF ImportInv, LookupAt
<1>4. Sound(Loaded)'
  BY DEF ImportInv, Sound
<1>5. EndpointsRight'
  BY DEF ImportInv, EndpointsRight, Stands
<1>6. QED BY <1>3, <1>4, <1>5

\* What is stored stays with its parts.
LEMMA StoreUnchanged ==
  ASSUME ImportInv, UNCHANGED <<store, ids, planned, pages, result>>,
         failed => failed', started => started'
  PROVE  StoreAt' /\ Loaded' = Loaded
<1>1. UNCHANGED <<open, disabled, indexed, spool, tuples, table>>
  BY DEF store
<1>2. QED BY <1>1 DEF ImportInv, StoreAt, Loaded

LEMMA RowFailsKeeps == ASSUME ImportInv, RowFails PROVE ImportInv'
<1>1. /\ UNCHANGED <<store, ids, types, direct, cache, next, pages, planned, asked, started, result>>
      /\ failed' = TRUE /\ batch' = None
  BY DEF RowFails, Fail, lookup, layout
<1>2. StoreAt' /\ Loaded' = Loaded
  BY <1>1, StoreUnchanged
<1>3. LookupAt' /\ Sound(Loaded)' /\ EndpointsRight'
  BY <1>1, <1>2, QuietStep
<1>4. TypeOK'
  <2>1. TypeOK /\ UNCHANGED <<open, disabled, indexed>>
    BY <1>1 DEF ImportInv, store
  <2>2. QED BY <1>1, <1>2, <1>3, <2>1, TypeStep DEF TypeOK
<1>5. BatchAt'
  BY <1>1 DEF BatchAt
<1>6. QED BY <1>2, <1>3, <1>4, <1>5 DEF ImportInv

LEMMA EndBatchKeeps == ASSUME ImportInv, EndBatch PROVE ImportInv'
<1>1. /\ UNCHANGED <<store, ids, types, direct, cache, next, pages, planned, asked, started, failed,
                     result>>
      /\ batch' = None
  BY DEF EndBatch, lookup, layout, control
<1>2. StoreAt' /\ Loaded' = Loaded
  BY <1>1, StoreUnchanged
<1>3. LookupAt' /\ Sound(Loaded)' /\ EndpointsRight'
  BY <1>1, <1>2, QuietStep
<1>4. TypeOK'
  <2>1. TypeOK /\ UNCHANGED <<open, disabled, indexed>>
    BY <1>1 DEF ImportInv, store
  <2>2. QED BY <1>1, <1>2, <1>3, <2>1, TypeStep DEF TypeOK
<1>5. BatchAt'
  BY <1>1 DEF BatchAt
<1>6. QED BY <1>2, <1>3, <1>4, <1>5 DEF ImportInv

\* The body at the begin of a batch: it is opened, closed, or left as it is.
LEMMA OpenBodyFacts ==
  ASSUME ImportInv, result = "none", NEW s \in NodeSpecs, NEW n \in Nat, OpenBody(s, n)
  PROVE  /\ Loaded' = Loaded /\ tuples' \subseteq Records
         /\ open' => ~disabled' /\ table' = {}
         /\ ~open' => spool' = {}
         /\ indexed' => open' /\ (~failed => tuples' = Tuples(spool'))
         /\ ~open' /\ ~disabled' => table' = {} /\ tuples' = {} /\ ids = <<>>
         /\ n > 0 => (open' \/ disabled') /\ (s.type = "ACTUAL" => ~open')
         /\ {open', disabled', indexed'} \subseteq BOOLEAN
<1>1. /\ tuples \subseteq Records
      /\ open => ~disabled /\ table = {}
      /\ ~open => spool = {}
      /\ indexed => open /\ (~failed => tuples = Tuples(spool))
      /\ ~open /\ ~disabled => table = {} /\ tuples = {} /\ ids = <<>>
      /\ {open, disabled, indexed} \subseteq BOOLEAN
  BY DEF ImportInv, StoreAt, TypeOK
<1>2. CASE n > 0 /\ s.type = "ACTUAL"
  <2>1. /\ disabled' = TRUE /\ open' = FALSE /\ indexed' = (indexed /\ ~open)
        /\ table' = Loaded /\ spool' = {} /\ tuples' = {}
    BY <1>2 DEF OpenBody, Materialize
  <2>2. indexed' = FALSE
    BY <1>1, <2>1
  <2>3. QED BY <2>1, <2>2 DEF Loaded
<1>3. CASE ~(n > 0 /\ s.type = "ACTUAL") /\ n > 0 /\ ~open /\ ~disabled
  <2>1. open' = TRUE /\ indexed' = Bulk /\ UNCHANGED <<disabled, spool, tuples, table>>
    BY <1>3 DEF OpenBody
  <2>2. Tuples({}) = {}
    BY DEF Tuples
  <2>3. QED BY <1>1, <1>3, <2>1, <2>2, OfflineImportAssumption DEF Loaded
<1>4. CASE ~(n > 0 /\ s.type = "ACTUAL") /\ ~(n > 0 /\ ~open /\ ~disabled)
  <2>1. UNCHANGED <<open, disabled, indexed, spool, tuples, table>>
    BY <1>4 DEF OpenBody, store
  <2>2. QED BY <1>1, <1>4, <2>1 DEF Loaded
<1>5. QED BY <1>2, <1>3, <1>4

LEMMA BeginNodesKeeps ==
  ASSUME ImportInv, NEW s \in NodeSpecs, NEW n \in 0 .. 2, BeginNodes(s, n)
  PROVE  ImportInv'
<1>1. /\ UNCHANGED <<ids, direct, cache, next, pages, planned, asked>>
      /\ batch = None /\ ~failed /\ result = "none"
  BY DEF BeginNodes, Idle, layout
<1>2. CASE started
  <2>1. /\ UNCHANGED <<store, types, started, result>> /\ failed' = TRUE /\ batch' = None
    BY <1>2 DEF BeginNodes, Fail
  <2>2. StoreAt' /\ Loaded' = Loaded
    BY <1>1, <2>1, StoreUnchanged
  <2>3. LookupAt' /\ Sound(Loaded)' /\ EndpointsRight'
    BY <1>1, <2>1, <2>2, QuietStep
  <2>4. TypeOK'
    <3>1. TypeOK /\ UNCHANGED <<open, disabled, indexed>>
      BY <2>1 DEF ImportInv, store
    <3>2. QED BY <1>1, <2>1, <2>2, <2>3, <3>1, TypeStep DEF TypeOK
  <2>5. BatchAt'
    BY <2>1 DEF BatchAt
  <2>6. QED BY <2>2, <2>3, <2>4, <2>5 DEF ImportInv
<1>3. CASE ~started
  <2>1. /\ OpenBody(s, n)
        /\ \/ Fail /\ UNCHANGED types
           \/ /\ batch' = [kind |-> "nodes", spec |-> s, left |-> n,
                           done |-> 0, skipped |-> 0, properties |-> 0]
              /\ types' = IF s.group = None THEN types ELSE Put(types, s.group, s.type)
              /\ UNCHANGED control
    BY <1>3, Zenon DEF BeginNodes
  <2>2. /\ Loaded' = Loaded /\ tuples' \subseteq Records
        /\ open' => ~disabled' /\ table' = {}
        /\ ~open' => spool' = {}
        /\ indexed' => open' /\ (~failed => tuples' = Tuples(spool'))
        /\ ~open' /\ ~disabled' => table' = {} /\ tuples' = {} /\ ids = <<>>
        /\ n > 0 => (open' \/ disabled') /\ (s.type = "ACTUAL" => ~open')
        /\ {open', disabled', indexed'} \subseteq BOOLEAN
    BY <1>1, <2>1, OpenBodyFacts
  <2>3. started' = started /\ result' = result /\ {failed'} \subseteq BOOLEAN
    BY <2>1 DEF Fail, control, ImportInv, TypeOK
  <2>4. planned = None /\ result' = "none" /\ Loaded \subseteq Records
    BY <1>1, <1>3, <2>3 DEF ImportInv, StoreAt
  <2>5. StoreAt'
    BY <1>1, <2>2, <2>3, <2>4 DEF StoreAt
  <2>6. LookupAt' /\ Sound(Loaded)' /\ EndpointsRight'
    BY <1>1, <2>2, <2>3, QuietStep
  <2>7. DOMAIN types' \subseteq IdGroups /\ \A g \in DOMAIN types' : types'[g] \in IdTypes
    <3>1. DOMAIN types \subseteq IdGroups /\ \A g \in DOMAIN types : types[g] \in IdTypes
      BY DEF ImportInv, TypeOK
    <3>2. CASE UNCHANGED types
      BY <3>1, <3>2
    <3>3. CASE s.group # None /\ types' = Put(types, s.group, s.type)
      <4>1. s.group \in IdGroups /\ s.type \in IdTypes
        BY <3>3 DEF NodeSpecs
      <4>2. QED BY <3>1, <3>3, <4>1 DEF Put
    <3>4. QED BY <2>1, <3>2, <3>3
  <2>8. TypeOK'
    <3>1. TypeOK
      BY DEF ImportInv
    <3>2. QED BY <1>1, <2>2, <2>3, <2>5, <2>6, <2>7, <3>1, TypeStep DEF TypeOK
  <2>9. BatchAt'
    <3>1. CASE batch' = None
      BY <3>1 DEF BatchAt
    <3>2. CASE batch' = [kind |-> "nodes", spec |-> s, left |-> n,
                         done |-> 0, skipped |-> 0, properties |-> 0]
      <4>1. batch' \in Batches
        BY <3>2 DEF Batches
      <4>2. batch'.spec = s /\ batch'.left = n
        BY <3>2
      <4>3. QED BY <2>2, <2>4, <4>1, <4>2 DEF BatchAt
    <3>3. QED BY <2>1, <3>1, <3>2 DEF Fail
  <2>10. QED BY <2>5, <2>6, <2>8, <2>9 DEF ImportInv
<1>4. QED BY <1>2, <1>3

\* The page size is chosen once.
LEMMA RepackedFacts ==
  ASSUME ImportInv
  PROVE  Repacked \in {"ordinary", "large"} /\ (started => Repacked = pages)
BY DEF Repacked, ImportInv, TypeOK

LEMMA BeginEdgesKeeps ==
  ASSUME ImportInv, NEW s \in EdgeSpecs, NEW n \in 0 .. 2, BeginEdges(s, n)
  PROVE  ImportInv'
<1>1. /\ UNCHANGED <<open, disabled, indexed, spool, tuples, table, types, ids, cache, next, failed,
                     result, asked>>
      /\ batch = None /\ ~failed /\ result = "none"
      /\ batch' = [kind |-> "edges", spec |-> s, left |-> n,
                   done |-> 0, skipped |-> 0, properties |-> 0]
  BY DEF BeginEdges, Idle, store
<1>2. /\ direct' \subseteq IdGroups /\ started' \in BOOLEAN
      /\ pages' \in {"ordinary", "large"} /\ planned' \in {None, "ordinary", "large"}
      /\ planned' # None => started' /\ planned' = pages'
  <2>1. CASE n > 0 /\ ~started
    <3>1. pages' = Repacked /\ direct' \in SUBSET direct
          /\ planned' = (IF indexed THEN pages' ELSE None) /\ started' = TRUE
      BY <2>1 DEF BeginEdges, StartRelationships
    <3>2. direct \subseteq IdGroups
      BY DEF ImportInv, TypeOK
    <3>3. QED BY <3>1, <3>2, RepackedFacts
  <2>2. CASE ~(n > 0 /\ ~started)
    <3>1. UNCHANGED <<pages, planned, direct, started>>
      BY <2>2 DEF BeginEdges, layout
    <3>2. QED BY <3>1 DEF ImportInv, TypeOK, StoreAt
  <2>3. QED BY <2>1, <2>2
<1>3. StoreAt' /\ Loaded' = Loaded
  BY <1>1, <1>2 DEF ImportInv, StoreAt, Loaded
<1>4. LookupAt' /\ Sound(Loaded)' /\ EndpointsRight'
  BY <1>1, <1>3, QuietStep
<1>5. TypeOK'
  <2>1. TypeOK
    BY DEF ImportInv
  <2>2. QED BY <1>1, <1>2, <1>3, <1>4, <2>1, TypeStep DEF TypeOK
<1>6. BatchAt'
  <2>1. batch' \in Batches /\ batch'.kind = "edges"
    BY <1>1 DEF Batches
  <2>2. QED BY <1>1, <2>1 DEF BatchAt
<1>7. QED BY <1>3, <1>4, <1>5, <1>6 DEF ImportInv

LEMMA FinishKeeps == ASSUME ImportInv, Finish PROVE ImportInv'
<1>1. /\ UNCHANGED <<next, batch, started, failed, asked>> /\ batch = None /\ result = "none"
  BY DEF Finish
<1>2. CASE failed
  <2>1. result' = "error"
        /\ UNCHANGED <<open, disabled, indexed, spool, tuples, table, pages, planned, types, ids,
                       direct, cache>>
    BY <1>2 DEF Finish, store, layout, lookup
  <2>2. StoreAt' /\ Loaded' = Loaded
    BY <1>1, <2>1 DEF ImportInv, StoreAt, Loaded
  <2>3. LookupAt' /\ Sound(Loaded)' /\ EndpointsRight'
    BY <1>1, <2>1, <2>2, QuietStep
  <2>4. TypeOK'
    <3>1. TypeOK
      BY DEF ImportInv
    <3>2. QED BY <1>1, <2>1, <2>2, <2>3, <3>1, TypeStep DEF TypeOK
  <2>5. BatchAt'
    BY <1>1 DEF BatchAt
  <2>6. QED BY <2>2, <2>3, <2>4, <2>5 DEF ImportInv
<1>3. CASE ~failed
  <2>1. /\ pages' = Repacked /\ ids' = <<>> /\ cache' = <<>> /\ direct' = {}
        /\ table' = Loaded /\ spool' = {} /\ tuples' = (IF indexed THEN tuples ELSE Tuples(Loaded))
        /\ open' = FALSE /\ indexed' = FALSE
        /\ result' \in {"ok", "error"} /\ UNCHANGED <<disabled, types, planned>>
    BY <1>3 DEF Finish, Materialize
  <2>2. Loaded' = Loaded /\ DOMAIN ids' = {} /\ DOMAIN cache' = {}
    BY <2>1 DEF Loaded
  <2>3. tuples' = Tuples(table')
    <3>1. CASE indexed
      BY <1>3, <2>1, <3>1 DEF ImportInv, StoreAt, Loaded
    <3>2. CASE ~indexed
      BY <2>1, <3>2
    <3>3. QED BY <3>1, <3>2
  <2>4. Tuples(Loaded) \subseteq Loaded /\ Loaded \subseteq Records
    BY DEF Tuples, ImportInv, StoreAt
  <2>5. planned' # None => started' /\ planned' = pages'
    BY <1>1, <2>1, RepackedFacts DEF ImportInv, StoreAt
  <2>6. StoreAt'
    BY <2>1, <2>2, <2>3, <2>4, <2>5 DEF StoreAt
  <2>7. LookupAt'
    BY <1>1, <2>2 DEF ImportInv, LookupAt, GoodCache
  <2>8. Sound(Loaded)'
    BY <2>2 DEF ImportInv, Sound
  <2>9. EndpointsRight'
    BY <2>1 DEF EndpointsRight
  <2>10. TypeOK'
    <3>1. TypeOK
      BY DEF ImportInv
    <3>2. QED BY <1>1, <2>1, <2>6, <2>7, <3>1, RepackedFacts, TypeStep DEF TypeOK
  <2>11. BatchAt'
    BY <1>1 DEF BatchAt
  <2>12. QED BY <2>6, <2>7, <2>8, <2>9, <2>10, <2>11 DEF ImportInv
<1>4. QED BY <1>2, <1>3

-----------------------------------------------------------------------------
(* Steps that load a row.                                                   *)

\* The lookups once more, with their parameters named.
Listed(m, R)     == m \in NodeRecords /\ [kind |-> "node", id |-> m.id, label |-> m.label] \in R
Fits(k, m, R, f) == Listed(m, R) /\ IF k[1] = "0" THEN m.id = k[2] ELSE k \in DOMAIN f /\ m = f[k]

StandsIn(f, key, node) == IF key[1] = "0" THEN node = key[2]
                          ELSE key \in DOMAIN f /\ node = f[key].id

\* LookupAt, entry by entry.
LEMMA LookupForm ==
  ASSUME LookupAt
  PROVE  /\ \A k \in DOMAIN ids : Listed(ids[k], Loaded)
         /\ \A k \in DOMAIN cache : Fits(k, cache[k], Loaded, ids)
BY DEF LookupAt, GoodCache, GoodEntry, IsNode, Listed, Fits

LEMMA LookupStep ==
  ASSUME \A k \in DOMAIN ids' : Listed(ids'[k], Loaded'),
         \A k \in DOMAIN cache' : Fits(k, cache'[k], Loaded', ids'),
         ~failed' => \A r \in Kind(Loaded, "node")' : r.id < next'.node,
         \A r \in Kind(Loaded, "edge")' : r.id < next'.edge
  PROVE  LookupAt'
BY DEF LookupAt, GoodCache, GoodEntry, IsNode, Listed, Fits

\* A row that was dealt with leaves a batch with a row less.
LEMMA RowDoneFacts ==
  ASSUME ImportInv, batch # None, batch.left > 0,
         NEW d \in Nat, NEW k \in Nat, NEW q \in Nat, RowDone(batch, d, k, q)
  PROVE  /\ batch' \in Batches /\ batch'.kind = batch.kind /\ batch'.spec = batch.spec
<1>1. batch \in Batches
  BY DEF ImportInv, BatchAt
<1>2. batch' = [batch EXCEPT !.left = @ - 1, !.done = @ + d, !.skipped = @ + k, !.properties = @ + q]
  BY DEF RowDone
<1>3. CASE batch \in [kind : {"nodes"}, spec : NodeSpecs, left : Nat, done : Nat, skipped : Nat,
                      properties : Nat]
  <2>1. /\ batch.left - 1 \in Nat /\ batch.done + d \in Nat /\ batch.skipped + k \in Nat
        /\ batch.properties + q \in Nat
    BY <1>3
  <2>2. batch' = [kind |-> "nodes", spec |-> batch.spec, left |-> batch.left - 1,
                  done |-> batch.done + d, skipped |-> batch.skipped + k,
                  properties |-> batch.properties + q]
    BY <1>2, <1>3
  <2>3. QED BY <1>3, <2>1, <2>2 DEF Batches
<1>4. CASE batch \in [kind : {"edges"}, spec : EdgeSpecs, left : Nat, done : Nat, skipped : Nat,
                      properties : Nat]
  <2>1. /\ batch.left - 1 \in Nat /\ batch.done + d \in Nat /\ batch.skipped + k \in Nat
        /\ batch.properties + q \in Nat
    BY <1>4
  <2>2. batch' = [kind |-> "edges", spec |-> batch.spec, left |-> batch.left - 1,
                  done |-> batch.done + d, skipped |-> batch.skipped + k,
                  properties |-> batch.properties + q]
    BY <1>2, <1>4
  <2>3. QED BY <1>4, <2>1, <2>2 DEF Batches
<1>5. QED BY <1>1, <1>3, <1>4 DEF Batches

\* The batch and the control state after a row, whatever became of it.
LEMMA BatchStep ==
  ASSUME ImportInv, ~failed, batch # None, batch.left > 0, UNCHANGED <<open, disabled>>,
         \/ Fail
         \/ /\ \E d, k, q \in Nat : RowDone(batch, d, k, q)
            /\ UNCHANGED control
  PROVE  /\ BatchAt' /\ UNCHANGED <<started, result>> /\ failed' \in BOOLEAN
<1>1. CASE Fail
  BY <1>1 DEF Fail, BatchAt
<1>2. CASE /\ \E d, k, q \in Nat : RowDone(batch, d, k, q)
           /\ UNCHANGED control
  <2>1. UNCHANGED <<started, result, failed>>
    BY <1>2 DEF control
  <2>2. batch' \in Batches /\ batch'.kind = batch.kind /\ batch'.spec = batch.spec
    BY <1>2, RowDoneFacts
  <2>3. /\ result = "none"
        /\ batch.kind = "nodes" => open \/ disabled
        /\ batch.kind = "nodes" /\ batch.spec.type = "ACTUAL" => ~open
    BY DEF ImportInv, BatchAt
  <2>4. failed' \in BOOLEAN
    BY <2>1 DEF ImportInv, TypeOK
  <2>5. /\ batch'.kind = "nodes" => open' \/ disabled'
        /\ batch'.kind = "nodes" /\ batch'.spec.type = "ACTUAL" => ~open'
    BY <2>2, <2>3
  <2>6. QED BY <2>1, <2>2, <2>3, <2>4, <2>5 DEF BatchAt
<1>3. QED BY <1>1, <1>2

\* A row that is skipped leaves the store alone.
LEMMA SkipOrFailFacts ==
  ASSUME SkipOrFail
  PROVE  \/ Fail
         \/ /\ \E d, k, q \in Nat : RowDone(batch, d, k, q)
            /\ UNCHANGED control
BY DEF SkipOrFail

\* Records that are written while a batch is in hand.
LEMMA StoreStep ==
  ASSUME ImportInv, ~failed, result = "none", NEW R \in SUBSET Records, Write(R),
         UNCHANGED <<open, disabled, indexed, pages, planned, started, result>>,
         ~open /\ ~disabled => R = {} /\ ids' = ids
  PROVE  StoreAt' /\ Loaded' = Loaded \cup R
<1>1. /\ Loaded' = Loaded \cup R
      /\ (open => table' = table) /\ (~open => spool' = spool)
      /\ tuples' \subseteq Records
      /\ indexed => tuples' = Tuples(spool')
  BY WriteFacts
<1>2. ASSUME ~open, ~disabled PROVE table' = {} /\ tuples' = {} /\ ids' = <<>>
  <2>1. R = {} /\ table' = table \cup R /\ tuples' = tuples
    BY <1>2 DEF Write
  <2>2. QED BY <1>2, <2>1 DEF ImportInv, StoreAt
<1>3. QED BY <1>1, <1>2 DEF ImportInv, StoreAt

\* A node record is added under an ID no node has.
LEMMA AddNode ==
  ASSUME ImportInv, NEW n \in NodeRecords, NEW R, Loaded' = Loaded \cup R,
         \A r \in Kind(Loaded, "node") : r.id # n.id,
         [kind |-> "node", id |-> n.id, label |-> n.label] \in R,
         \A r \in R : r \in { [kind |-> "node", id |-> n.id, label |-> n.label],
                              [kind |-> "node property", id |-> n.id] }
  PROVE  /\ Sound(Loaded)'
         /\ Kind(Loaded, "edge")' = Kind(Loaded, "edge")
         /\ Kind(Loaded, "node")' = Kind(Loaded, "node") \cup
              {[kind |-> "node", id |-> n.id, label |-> n.label]}
         /\ \A m : Listed(m, Loaded) => Listed(m, Loaded')
         /\ Listed(n, Loaded')
<1> DEFINE new == [kind |-> "node", id |-> n.id, label |-> n.label]
<1>1. /\ Kind(Loaded', "node") = Kind(Loaded, "node") \cup {new}
      /\ Kind(Loaded', "edge") = Kind(Loaded, "edge")
      /\ \A r \in Kind(Loaded', "node property") :
           r \in Kind(Loaded, "node property") \/ r.id = n.id
  <2> DEFINE property == [kind |-> "node property", id |-> n.id]
  <2>1. new.kind = "node" /\ property.kind = "node property" /\ property.id = n.id
    OBVIOUS
  <2>2. new \in R /\ \A r \in R : r = new \/ r = property
    OBVIOUS
  <2> HIDE DEF new, property
  <2>3. Kind(Loaded', "node") = Kind(Loaded, "node") \cup {new}
    BY <2>1, <2>2 DEF Kind
  <2>4. Kind(Loaded', "edge") = Kind(Loaded, "edge")
    BY <2>1, <2>2 DEF Kind
  <2>5. QED BY <2>1, <2>2, <2>3, <2>4 DEF Kind
<1>2. new.id = n.id
  OBVIOUS
<1>3. Sound(Loaded')
  <2>1. ASSUME NEW r \in Kind(Loaded', "node"), NEW q \in Kind(Loaded', "node"), r.id = q.id
        PROVE  r = q
    BY <1>1, <1>2, <2>1 DEF ImportInv, Sound
  <2>2. \A i : i \in {q.id : q \in Kind(Loaded, "node")} => i \in {q.id : q \in Kind(Loaded', "node")}
    BY <1>1
  <2>3. n.id \in {q.id : q \in Kind(Loaded', "node")}
    BY <1>1, <1>2
  <2>4. \A r \in Kind(Loaded', "edge") : {r.from, r.to} \subseteq {q.id : q \in Kind(Loaded', "node")}
    BY <1>1, <2>2 DEF ImportInv, Sound
  <2>5. \A r \in Kind(Loaded', "node property") : r.id \in {q.id : q \in Kind(Loaded', "node")}
    BY <1>1, <2>2, <2>3 DEF ImportInv, Sound
  <2>6. QED BY <2>1, <2>4, <2>5 DEF Sound
<1>4. (\A m : Listed(m, Loaded) => Listed(m, Loaded')) /\ Listed(n, Loaded')
  BY DEF Listed
<1>5. Sound(Loaded)' /\ Kind(Loaded, "edge")' = Kind(Loaded', "edge")
      /\ Kind(Loaded, "node")' = Kind(Loaded', "node")
  BY <1>3 DEF Sound, Kind
<1>6. QED BY <1>1, <1>4, <1>5

\* An ID that is new, or in no table when the tables are all there is, is no node's.
LEMMA FreshId ==
  ASSUME ImportInv, ~failed, NEW i, i = next.node \/ ~open,
         ~(~open /\ \E r \in Kind(table, "node") : r.id = i)
  PROVE  \A r \in Kind(Loaded, "node") : r.id # i
<1>1. CASE ~open
  <2>1. spool = {}
    BY <1>1 DEF ImportInv, StoreAt
  <2>2. Kind(Loaded, "node") = Kind(table, "node")
    BY <2>1 DEF Kind, Loaded
  <2>3. QED BY <1>1, <2>2
<1>2. CASE i = next.node
  <2>1. \A r \in Kind(Loaded, "node") : r.id < next.node /\ r.id \in Int /\ next.node \in Nat
    BY RecordFacts DEF ImportInv, LookupAt
  <2>2. QED BY <1>2, <2>1
<1>3. QED BY <1>1, <1>2

LEMMA NodeRowKeeps ==
  ASSUME ImportInv, NEW id \in Ids \cup {None}, NEW label \in Labels, NEW valued \in BOOLEAN,
         NodeRow(id, label, valued)
  PROVE  ImportInv'
<1> DEFINE s       == batch.spec
           actual  == s.type = "ACTUAL" /\ id # None
           n       == [id |-> IF actual THEN id ELSE next.node, label |-> label]
           key     == KeyOf(s.group, s.type, id)
           mapped  == s.type # "ACTUAL" /\ id # None
           taken   == mapped /\ key \in DOMAIN ids
           clashes == ~open /\ \E r \in Kind(table, "node") : r.id = n.id
           records == {[kind |-> "node", id |-> n.id, label |-> label]} \cup
                      (IF valued THEN {[kind |-> "node property", id |-> n.id]} ELSE {})
           inMap   == s.type = "INTEGER" /\ s.group \in direct'
<1>1. /\ ~failed /\ batch # None /\ batch.kind = "nodes" /\ batch.left > 0
      /\ s.group = None => id = None
      /\ actual => id >= 0
      /\ UNCHANGED <<open, disabled, indexed, types, pages, planned, asked>>
      /\ direct' \in {direct, IF mapped /\ s.type = "INTEGER" /\ ~taken
                              THEN direct \ {s.group} ELSE direct}
      /\ ids' = IF mapped /\ ~taken THEN Put(ids, key, n) ELSE ids
  BY DEF NodeRow, layout
<1>2. /\ result = "none" /\ batch \in Batches /\ s \in NodeSpecs
      /\ open \/ disabled
      /\ s.type = "ACTUAL" => ~open
  <2>1. /\ result = "none" /\ batch \in Batches
        /\ open \/ disabled
        /\ s.type = "ACTUAL" => ~open
    BY <1>1 DEF ImportInv, BatchAt
  <2>2. s \in NodeSpecs
    BY <1>1, <2>1 DEF Batches
  <2>3. QED BY <2>1, <2>2
<1>3. direct' \subseteq IdGroups
  BY <1>1 DEF ImportInv, TypeOK
<1>4. n \in NodeRecords /\ n.label = label /\ n.id = (IF actual THEN id ELSE next.node)
  <2>1. id # None => id \in Int
    BY OfflineImportAssumption
  <2>2. next.node \in Int
    <3>1. next \in [node : Nat, edge : Nat]
      BY DEF ImportInv, TypeOK
    <3>2. QED BY <3>1
  <2>3. QED BY <2>1, <2>2 DEF NodeRecords
<1>5. ~clashes => \A r \in Kind(Loaded, "node") : r.id # n.id
  <2>1. n.id = next.node \/ ~open
    BY <1>2
  <2>2. clashes <=> ~open /\ \E r \in Kind(table, "node") : r.id = n.id
    OBVIOUS
  <2> HIDE DEF n, clashes
  <2>3. QED BY <1>1, <2>1, <2>2, FreshId
<1>6. clashes => ~mapped
  <2>1. ASSUME clashes, mapped PROVE FALSE
    <3>1. PICK r \in Kind(table, "node") : r.id = n.id
      BY <2>1
    <3>2. r \in Kind(Loaded, "node")
      BY DEF Kind, Loaded
    <3>3. r.id < next.node /\ r.id \in Int /\ next.node \in Nat
      BY <1>1, <3>2, RecordFacts DEF ImportInv, LookupAt
    <3>4. n.id = next.node
      BY <2>1
    <3>5. r.id # next.node
      BY <3>3
    <3>6. QED BY <3>1, <3>4, <3>5
  <2>2. QED BY <2>1
<1>7. s.group # None => s.group \in IdGroups
  BY <1>2 DEF NodeSpecs
<1>8. mapped \/ actual => key[1] = (IF actual THEN "0" ELSE s.group) /\ key[2] = id
                          /\ (mapped => key[1] # "0")
  BY <1>1, <1>7, OfflineImportAssumption DEF KeyOf
<1>9. CASE taken \/ clashes
  <2>1. SkipOrFail /\ UNCHANGED <<spool, tuples, table, cache, next, shapes>>
    BY <1>9 DEF NodeRow
  <2>2. ids' = ids
    BY <1>1, <1>6, <1>9
  <2>3. BatchAt' /\ UNCHANGED <<started, result>> /\ failed' \in BOOLEAN
    BY <1>1, <2>1, SkipOrFailFacts, BatchStep
  <2>4. StoreAt' /\ Loaded' = Loaded
    BY <1>1, <2>1, <2>2, <2>3, StoreUnchanged DEF store
  <2>5. LookupAt' /\ Sound(Loaded)' /\ EndpointsRight'
    BY <1>1, <2>1, <2>2, <2>3, <2>4, QuietStep
  <2>6. TypeOK'
    <3>1. TypeOK
      BY DEF ImportInv
    <3>2. QED BY <1>1, <1>3, <2>1, <2>3, <2>4, <2>5, <3>1, TypeStep DEF TypeOK
  <2>7. QED BY <2>3, <2>4, <2>5, <2>6 DEF ImportInv
<1>10. CASE ~taken /\ ~clashes
  <2>1. /\ Write(records)
        /\ cache' = IF id # None /\ ~inMap THEN Cached(cache, key, n) ELSE cache
        /\ IF n.id = MaxId
           THEN Fail /\ UNCHANGED next
           ELSE /\ RowDone(batch, 1, 0, IF valued THEN 1 ELSE 0)
                /\ next' = [next EXCEPT !.node = IF n.id >= @ THEN n.id + 1 ELSE @]
                /\ UNCHANGED control
    BY <1>10, Zenon DEF NodeRow
  <2>2. \/ Fail
        \/ /\ \E d, k, q \in Nat : RowDone(batch, d, k, q)
           /\ UNCHANGED control
    <3>1. 1 \in Nat /\ 0 \in Nat /\ (IF valued THEN 1 ELSE 0) \in Nat
      OBVIOUS
    <3>2. QED BY <2>1, <3>1, Zenon
  <2>3. BatchAt' /\ UNCHANGED <<started, result>> /\ failed' \in BOOLEAN
    BY <1>1, <2>2, BatchStep
  <2>4. records \in SUBSET Records
    <3>1. n.id \in Int /\ label \in Labels
      BY <1>4 DEF NodeRecords
    <3> HIDE DEF n
    <3>2. [kind |-> "node", id |-> n.id, label |-> label] \in Records
      BY <3>1 DEF Records
    <3>3. [kind |-> "node property", id |-> n.id] \in Records
      BY <3>1 DEF Records
    <3>4. QED BY <3>2, <3>3
  <2>5. StoreAt' /\ Loaded' = Loaded \cup records
    <3> HIDE DEF records
    <3>1. QED BY <1>1, <1>2, <2>1, <2>3, <2>4, StoreStep
  <2>6. /\ Sound(Loaded)'
        /\ Kind(Loaded, "edge")' = Kind(Loaded, "edge")
        /\ Kind(Loaded, "node")' = Kind(Loaded, "node") \cup
              {[kind |-> "node", id |-> n.id, label |-> n.label]}
        /\ \A m : Listed(m, Loaded) => Listed(m, Loaded')
        /\ Listed(n, Loaded')
    <3>1. [kind |-> "node", id |-> n.id, label |-> n.label] \in records
      BY <1>4
    <3>2. \A r \in records : r \in { [kind |-> "node", id |-> n.id, label |-> n.label],
                                     [kind |-> "node property", id |-> n.id] }
      BY <1>4
    <3>3. \A r \in Kind(Loaded, "node") : r.id # n.id
      BY <1>5, <1>10
    <3> HIDE DEF n, records
    <3>4. QED BY <1>4, <2>5, <3>1, <3>2, <3>3, AddNode
  <2>7. \A k \in DOMAIN ids : k \in DOMAIN ids' /\ ids'[k] = ids[k]
    <3>1. CASE mapped /\ ~taken
      BY <1>1, <3>1 DEF Put
    <3>2. CASE ~(mapped /\ ~taken)
      BY <1>1, <3>2
    <3>3. QED BY <3>1, <3>2
  <2>8. \A k \in DOMAIN ids' : Listed(ids'[k], Loaded')
    <3>1. \A k \in DOMAIN ids : Listed(ids[k], Loaded')
      BY <2>6, LookupForm DEF ImportInv
    <3>2. CASE mapped /\ ~taken
      <4>1. ids' = Put(ids, key, n)
        BY <1>1, <3>2
      <4>2. \A k \in DOMAIN ids' : (k = key /\ ids'[k] = n) \/ (k \in DOMAIN ids /\ ids'[k] = ids[k])
        BY <4>1 DEF Put
      <4> HIDE DEF n, key
      <4>3. QED BY <2>6, <3>1, <4>2
    <3>3. CASE ~(mapped /\ ~taken)
      <4>1. ids' = ids
        BY <1>1, <3>3
      <4>2. QED BY <3>1, <4>1
    <3>4. QED BY <3>2, <3>3
  <2>9. \A k \in DOMAIN cache' : Fits(k, cache'[k], Loaded', ids')
    <3>1. ASSUME NEW k \in DOMAIN cache PROVE Fits(k, cache[k], Loaded', ids')
      <4>1. Fits(k, cache[k], Loaded, ids)
        BY LookupForm DEF ImportInv
      <4>2. QED BY <2>6, <2>7, <4>1 DEF Fits
    <3>2. ASSUME id # None PROVE Fits(key, n, Loaded', ids')
      <4>1. CASE actual
        <5>1. key[1] = "0" /\ key[2] = id /\ n.id = id
          BY <1>4, <1>8, <4>1
        <5> HIDE DEF n, key
        <5>2. QED BY <2>6, <5>1 DEF Fits
      <4>2. CASE ~actual
        <5>1. mapped /\ ~taken
          BY <1>10, <3>2, <4>2
        <5>2. key[1] # "0" /\ ids' = Put(ids, key, n)
          BY <1>1, <1>8, <5>1
        <5> HIDE DEF n, key
        <5>3. key \in DOMAIN ids' /\ ids'[key] = n
          BY <5>2 DEF Put
        <5>4. QED BY <2>6, <5>2, <5>3 DEF Fits
      <4>3. QED BY <4>1, <4>2
    <3> HIDE DEF n, key, inMap
    <3>3. CASE id # None /\ ~inMap
      <4>1. cache' = Cached(cache, key, n)
        BY <2>1, <3>3
      <4>2. ASSUME NEW k \in DOMAIN cache' PROVE Fits(k, cache'[k], Loaded', ids')
        <5>1. (k = key /\ cache'[k] = n) \/ (k \in DOMAIN cache /\ cache'[k] = cache[k])
          BY <4>1, CachedFacts
        <5>2. QED BY <3>1, <3>2, <3>3, <5>1
      <4>3. QED BY <4>2
    <3>4. CASE ~(id # None /\ ~inMap)
      <4>1. cache' = cache
        BY <2>1, <3>4
      <4>2. QED BY <3>1, <4>1
    <3>5. QED BY <3>3, <3>4
  <2>10. /\ next' \in [node : Nat, edge : Nat] /\ next'.edge = next.edge
         /\ ~failed' => next'.node >= next.node /\ n.id < next'.node
    <3>1. next \in [node : Nat, edge : Nat] /\ n.id \in Int
      BY <1>4 DEF ImportInv, TypeOK, NodeRecords
    <3>2. CASE n.id = MaxId
      BY <2>1, <3>1, <3>2 DEF Fail
    <3>3. CASE n.id # MaxId
      <4>1. next' = [next EXCEPT !.node = IF n.id >= next.node THEN n.id + 1 ELSE next.node]
        BY <2>1, <3>1, <3>3
      <4> HIDE DEF n
      <4>2. QED BY <3>1, <4>1
    <3>4. QED BY <3>2, <3>3
  <2>11. ASSUME ~failed', NEW r \in Kind(Loaded, "node")' PROVE r.id < next'.node
    <3> HIDE DEF n
    <3>1. r \in Kind(Loaded, "node") \/ r = [kind |-> "node", id |-> n.id, label |-> n.label]
      BY <2>6
    <3>2. CASE r \in Kind(Loaded, "node")
      <4>1. r.id < next.node /\ r.id \in Int /\ next.node \in Nat /\ next'.node \in Nat
        BY <1>1, <2>10, <3>2, RecordFacts DEF ImportInv, LookupAt
      <4>2. QED BY <2>10, <2>11, <4>1
    <3>3. CASE r = [kind |-> "node", id |-> n.id, label |-> n.label]
      BY <2>10, <2>11, <3>3
    <3>4. QED BY <3>1, <3>2, <3>3
  <2>12. LookupAt'
    <3>1. \A r \in Kind(Loaded, "edge")' : r.id < next'.edge
      BY <2>6, <2>10 DEF ImportInv, LookupAt
    <3>2. QED BY <2>8, <2>9, <2>11, <3>1, LookupStep
  <2>13. EndpointsRight'
    <3>1. ASSUME NEW r \in Kind(Loaded, "edge")'
          PROVE  r.id \in DOMAIN asked /\ Stands(asked[r.id][1], r.from)' /\ Stands(asked[r.id][2], r.to)'
      <4>1. /\ r.id \in DOMAIN asked /\ asked' = asked
            /\ Stands(asked[r.id][1], r.from) /\ Stands(asked[r.id][2], r.to)
        BY <1>1, <1>2, <2>6, <3>1 DEF ImportInv, EndpointsRight
      <4>2. QED BY <2>7, <4>1 DEF Stands
    <3>2. QED BY <1>1, <3>1 DEF EndpointsRight
  <2>14. TypeOK'
    <3>1. TypeOK
      BY DEF ImportInv
    <3>2. QED BY <1>1, <1>3, <2>3, <2>5, <2>10, <2>12, <3>1, TypeStep DEF TypeOK
  <2>15. QED BY <2>3, <2>5, <2>6, <2>12, <2>13, <2>14 DEF ImportInv
<1>11. QED BY <1>9, <1>10

LEMMA EdgeRowKeeps ==
  ASSUME ImportInv, NEW a \in Ids \cup {None}, NEW b \in Ids \cup {None}, NEW valued \in BOOLEAN,
         EdgeRow(a, b, valued)
  PROVE  ImportInv'
<1> DEFINE s  == batch.spec
           ta == TypeOfGroup(s.from, s.type)
           tb == TypeOfGroup(s.to, s.type)
           x  == Resolve(cache, s.from, ta, a)
           y  == Resolve(x.cache, s.to, tb, b)
           ka == KeyOf(s.from, ta, a)
           kb == KeyOf(s.to, tb, b)
           edge == [kind |-> "edge", id |-> next.edge, from |-> x.node.id, to |-> y.node.id]
           R    == {edge} \cup (IF valued THEN {[kind |-> "edge property", id |-> next.edge]} ELSE {})
<1>1. /\ ~failed /\ batch # None /\ batch.kind = "edges" /\ batch.left > 0
      /\ UNCHANGED <<open, disabled, indexed, types, ids, direct, pages, planned>>
      /\ cache' = y.cache
  BY DEF EdgeRow, layout
<1>2. /\ result = "none" /\ s \in EdgeSpecs
      /\ s.from \in IdGroups /\ s.to \in IdGroups /\ s.type \in IdTypes
  <2>1. result = "none" /\ batch \in Batches
    BY <1>1 DEF ImportInv, BatchAt
  <2>2. s \in EdgeSpecs
    BY <1>1, <2>1 DEF Batches
  <2>3. QED BY <2>1, <2>2 DEF EdgeSpecs
<1>3. ta \in IdTypes /\ tb \in IdTypes
  BY <1>2 DEF TypeOfGroup, ImportInv, TypeOK
<1>4. /\ GoodCache(x.cache)
      /\ x.node # None => IsNode(x.node) /\ Stands(ka, x.node.id)
  <2>1. GoodCache(cache)
    BY DEF ImportInv, LookupAt
  <2> HIDE DEF ta
  <2>2. QED BY <1>2, <1>3, <2>1, ResolveFacts
<1>5. /\ GoodCache(y.cache)
      /\ y.node # None => IsNode(y.node) /\ Stands(kb, y.node.id)
  <2> HIDE DEF tb, x
  <2>1. QED BY <1>2, <1>3, <1>4, ResolveFacts
<1>6. \A k \in DOMAIN cache' : Fits(k, cache'[k], Loaded, ids)
  BY <1>1, <1>5 DEF GoodCache, GoodEntry, IsNode, Fits, Listed
<1>7. next \in [node : Nat, edge : Nat] /\ next.edge \in Nat
  BY DEF ImportInv, TypeOK
<1>8. CASE x.node = None \/ y.node = None
  <2>1. SkipOrFail /\ UNCHANGED <<spool, tuples, table, shapes, next, asked>>
    BY <1>8, Zenon DEF EdgeRow
  <2>2. BatchAt' /\ UNCHANGED <<started, result>> /\ failed' \in BOOLEAN
    BY <1>1, <2>1, SkipOrFailFacts, BatchStep
  <2>3. StoreAt' /\ Loaded' = Loaded
    BY <1>1, <2>1, <2>2, StoreUnchanged DEF store
  <2>4. LookupAt'
    <3>1. \A k \in DOMAIN ids' : Listed(ids'[k], Loaded')
      BY <1>1, <2>3, LookupForm DEF ImportInv
    <3>2. \A k \in DOMAIN cache' : Fits(k, cache'[k], Loaded', ids')
      BY <1>1, <1>6, <2>3
    <3>3. ~failed' => \A r \in Kind(Loaded, "node")' : r.id < next'.node
      BY <1>1, <2>1, <2>3 DEF ImportInv, LookupAt
    <3>4. \A r \in Kind(Loaded, "edge")' : r.id < next'.edge
      BY <2>1, <2>3 DEF ImportInv, LookupAt
    <3>5. QED BY <3>1, <3>2, <3>3, <3>4, LookupStep
  <2>5. Sound(Loaded)'
    BY <2>3 DEF ImportInv, Sound
  <2>6. EndpointsRight'
    BY <1>1, <2>1, <2>2, <2>3 DEF ImportInv, EndpointsRight, Stands
  <2>7. TypeOK'
    <3>1. TypeOK
      BY DEF ImportInv
    <3>2. QED BY <1>1, <2>1, <2>2, <2>3, <2>4, <3>1, TypeStep DEF TypeOK
  <2>8. QED BY <2>2, <2>3, <2>4, <2>5, <2>6, <2>7 DEF ImportInv
<1>9. CASE x.node # None /\ y.node # None
  <2>1. /\ Write(R)
        /\ next' = [next EXCEPT !.edge = @ + 1]
        /\ asked' = Put(asked, next.edge, <<ka, kb>>)
        /\ RowDone(batch, 1, 0, IF valued THEN 1 ELSE 0)
        /\ UNCHANGED control
    BY <1>9, Zenon DEF EdgeRow
  <2>2. /\ IsNode(x.node) /\ x.node.id \in Int /\ Stands(ka, x.node.id)
        /\ IsNode(y.node) /\ y.node.id \in Int /\ Stands(kb, y.node.id)
    <3>1. IsNode(x.node) /\ Stands(ka, x.node.id) /\ IsNode(y.node) /\ Stands(kb, y.node.id)
      BY <1>4, <1>5, <1>9
    <3> HIDE DEF x, y
    <3>2. x.node.id \in Int /\ y.node.id \in Int
      BY <3>1 DEF IsNode, NodeRecords
    <3>3. QED BY <3>1, <3>2
  <2> DEFINE v == x.node.id
             w == y.node.id
  <2>3. v \in {q.id : q \in Kind(Loaded, "node")} /\ w \in {q.id : q \in Kind(Loaded, "node")}
    <3> HIDE DEF x, y
    <3>1. [kind |-> "node", id |-> x.node.id, label |-> x.node.label] \in Kind(Loaded, "node")
      BY <2>2 DEF IsNode, Kind
    <3>2. [kind |-> "node", id |-> y.node.id, label |-> y.node.label] \in Kind(Loaded, "node")
      BY <2>2 DEF IsNode, Kind
    <3>3. QED BY <3>1, <3>2
  <2>4. BatchAt' /\ UNCHANGED <<started, result>> /\ failed' = failed /\ failed' \in BOOLEAN
    <3>1. 1 \in Nat /\ 0 \in Nat /\ (IF valued THEN 1 ELSE 0) \in Nat
      OBVIOUS
    <3>2. \E d, k, q \in Nat : RowDone(batch, d, k, q)
      BY <2>1, <3>1, Zenon
    <3>3. QED BY <1>1, <2>1, <3>2, BatchStep DEF control
  <2>5. v \in Int /\ w \in Int /\ Stands(ka, v) /\ Stands(kb, w)
    BY <2>2
  <2> HIDE DEF v, w
  <2>6. edge = [kind |-> "edge", id |-> next.edge, from |-> v, to |-> w]
    BY DEF v, w
  <2>7. R \in SUBSET Records
    <3>1. edge \in Records
      BY <1>7, <2>5, <2>6 DEF Records
    <3>2. [kind |-> "edge property", id |-> next.edge] \in Records
      <4>1. next.edge \in Int
        BY <1>7
      <4>2. [kind |-> "edge property", id |-> next.edge]
              \in [kind : {"node property", "edge property"}, id : Int]
        BY <4>1
      <4>3. QED BY <4>2 DEF Records
    <3> HIDE DEF edge
    <3>3. QED BY <3>1, <3>2
  <2>8. open \/ disabled
    <3>1. Loaded # {}
      BY <2>2 DEF IsNode
    <3>2. QED BY <1>2, <3>1 DEF ImportInv, StoreAt, Loaded
  <2>9. StoreAt' /\ Loaded' = Loaded \cup R
    <3> HIDE DEF R
    <3>1. QED BY <1>1, <1>2, <2>1, <2>4, <2>7, <2>8, StoreStep
  <2>10. /\ edge.kind = "edge" /\ edge.id = next.edge /\ edge.from = v /\ edge.to = w
         /\ \A r \in R : r = edge \/ r.kind = "edge property"
         /\ edge \in R
    <3>1. edge.kind = "edge" /\ edge.id = next.edge /\ edge.from = v /\ edge.to = w
      BY <2>6
    <3> HIDE DEF edge
    <3> DEFINE property == [kind |-> "edge property", id |-> next.edge]
    <3>p. property.kind = "edge property"
      OBVIOUS
    <3> HIDE DEF property
    <3>e. R = {edge} \cup (IF valued THEN {property} ELSE {})
      BY DEF property
    <3>2. \A r \in R : r = edge \/ r.kind = "edge property"
      BY <3>p, <3>e
    <3>3. edge \in R
      OBVIOUS
    <3>4. QED BY <3>1, <3>2, <3>3
  <2> HIDE DEF edge, R
  <2>11. /\ Kind(Loaded', "node") = Kind(Loaded, "node")
         /\ Kind(Loaded', "node property") = Kind(Loaded, "node property")
         /\ Kind(Loaded', "edge") = Kind(Loaded, "edge") \cup {edge}
    BY <2>9, <2>10 DEF Kind
  <2>12. next' \in [node : Nat, edge : Nat] /\ next'.node = next.node /\ next'.edge = next.edge + 1
    BY <1>7, <2>1
  <2>13. \A r \in Kind(Loaded, "edge") : r.id \in Nat /\ r.id < next.edge
    BY RecordFacts DEF ImportInv, LookupAt
  <2>14. LookupAt'
    <3>1. \A m : Listed(m, Loaded) => Listed(m, Loaded')
      BY <2>9 DEF Listed
    <3>2. \A k \in DOMAIN ids' : Listed(ids'[k], Loaded')
      BY <1>1, <3>1, LookupForm DEF ImportInv
    <3>3. \A k \in DOMAIN cache' : Fits(k, cache'[k], Loaded', ids')
      BY <1>1, <1>6, <3>1 DEF Fits
    <3>4. Kind(Loaded, "node")' = Kind(Loaded', "node") /\ Kind(Loaded, "edge")' = Kind(Loaded', "edge")
      BY DEF Kind
    <3>5. ~failed' => \A r \in Kind(Loaded, "node")' : r.id < next'.node
      BY <1>1, <2>11, <2>12, <3>4 DEF ImportInv, LookupAt
    <3>6. \A r \in Kind(Loaded, "edge")' : r.id < next'.edge
      <4>1. \A r \in Kind(Loaded, "edge") : r.id < next.edge + 1
        BY <1>7, <2>13
      <4>2. edge.id < next.edge + 1
        <5>1. edge.id = next.edge
          BY <2>10
        <5>2. QED BY <1>7, <5>1
      <4>3. QED BY <2>11, <2>12, <3>4, <4>1, <4>2
    <3>7. QED BY <3>2, <3>3, <3>5, <3>6, LookupStep
  <2>15. Sound(Loaded)'
    <3> DEFINE Known == {q.id : q \in Kind(Loaded, "node")}
    <3>1. /\ \A r, q \in Kind(Loaded, "node") : r.id = q.id => r = q
          /\ \A r \in Kind(Loaded, "edge") : {r.from, r.to} \subseteq Known
          /\ \A r \in Kind(Loaded, "node property") : r.id \in Known
      BY DEF ImportInv, Sound
    <3>2. {edge.from, edge.to} \subseteq Known
      BY <2>3, <2>10
    <3>3. {q.id : q \in Kind(Loaded', "node")} = Known
      BY <2>11
    <3> HIDE DEF Known
    <3>4. Sound(Loaded')
      BY <2>11, <3>1, <3>2, <3>3 DEF Sound
    <3>5. QED BY <3>4 DEF Sound, Kind
  <2>16. EndpointsRight'
    <3>1. /\ DOMAIN asked' = DOMAIN asked \cup {next.edge} /\ asked'[next.edge] = <<ka, kb>>
          /\ \A i \in DOMAIN asked : i # next.edge => asked'[i] = asked[i]
      BY <2>1 DEF Put
    <3>2. asked'[next.edge][1] = ka /\ asked'[next.edge][2] = kb
      BY <3>1
    <3> HIDE DEF ka, kb
    <3>3. ASSUME NEW r \in Kind(Loaded', "edge")
          PROVE  /\ r.id \in DOMAIN asked'
                 /\ StandsIn(ids', asked'[r.id][1], r.from)
                 /\ StandsIn(ids', asked'[r.id][2], r.to)
      <4>1. CASE r \in Kind(Loaded, "edge")
        <5>1. /\ r.id \in DOMAIN asked
              /\ Stands(asked[r.id][1], r.from) /\ Stands(asked[r.id][2], r.to)
          BY <1>2, <4>1 DEF ImportInv, EndpointsRight
        <5>2. r.id # next.edge
          BY <1>7, <2>13, <4>1
        <5>3. asked'[r.id] = asked[r.id]
          BY <3>1, <5>1, <5>2
        <5>4. QED BY <1>1, <3>1, <5>1, <5>3 DEF Stands, StandsIn
      <4>2. CASE r = edge
        BY <1>1, <2>5, <2>10, <3>1, <3>2, <4>2 DEF Stands, StandsIn
      <4>3. QED BY <2>11, <4>1, <4>2
    <3>4. QED BY <3>3 DEF EndpointsRight, Stands, StandsIn, Kind
  <2>17. TypeOK'
    <3>1. TypeOK
      BY DEF ImportInv
    <3>2. QED BY <1>1, <2>4, <2>9, <2>12, <2>14, <3>1, TypeStep DEF TypeOK
  <2>18. QED BY <2>4, <2>9, <2>14, <2>15, <2>16, <2>17 DEF ImportInv
<1>10. QED BY <1>8, <1>9

-----------------------------------------------------------------------------
(* The invariant and what it implies.                                       *)

LEMMA InitImportInv == ASSUME Init PROVE ImportInv
<1>1. Loaded = {} /\ tuples = {} /\ DOMAIN ids = {} /\ DOMAIN cache = {} /\ ids = <<>>
  BY DEF Init, Loaded
<1>2. Kind({}, "node") = {} /\ Kind({}, "edge") = {} /\ Kind({}, "node property") = {}
  BY DEF Kind
<1>3. TypeOK
  <2>1. types = <<>> /\ DOMAIN types = {} /\ next \in [node : Nat, edge : Nat]
    BY DEF Init
  <2>2. {open, disabled, indexed, started, failed} \subseteq BOOLEAN
    BY DEF Init
  <2>3. /\ table \cup spool \cup tuples = {} /\ direct = IdGroups /\ pages = "ordinary"
        /\ planned = None /\ result = "none"
    BY DEF Init
  <2>4. QED BY <1>1, <2>1, <2>2, <2>3 DEF TypeOK
<1>4. StoreAt
  BY <1>1, OfflineImportAssumption DEF Init, StoreAt
<1>5. BatchAt
  BY DEF Init, BatchAt
<1>6. LookupAt
  BY <1>1, <1>2 DEF LookupAt, GoodCache
<1>7. Sound(Loaded)
  BY <1>1, <1>2 DEF Sound
<1>8. EndpointsRight
  BY <1>1, <1>2 DEF EndpointsRight
<1>9. QED BY <1>3, <1>4, <1>5, <1>6, <1>7, <1>8 DEF ImportInv

LEMMA NextImportInv == ASSUME ImportInv, [Next]_vars PROVE ImportInv'
<1>1. ASSUME NEW s \in NodeSpecs, NEW n \in 0 .. 2, BeginNodes(s, n) PROVE ImportInv'
  BY <1>1, BeginNodesKeeps
<1>2. ASSUME NEW id \in Ids \cup {None}, NEW l \in Labels, NEW v \in BOOLEAN, NodeRow(id, l, v)
      PROVE  ImportInv'
  BY <1>2, NodeRowKeeps
<1>3. CASE RowFails
  BY <1>3, RowFailsKeeps
<1>4. CASE EndBatch
  BY <1>4, EndBatchKeeps
<1>5. ASSUME NEW s \in EdgeSpecs, NEW n \in 0 .. 2, BeginEdges(s, n) PROVE ImportInv'
  BY <1>5, BeginEdgesKeeps
<1>6. ASSUME NEW a \in Ids \cup {None}, NEW b \in Ids \cup {None}, NEW v \in BOOLEAN, EdgeRow(a, b, v)
      PROVE  ImportInv'
  BY <1>6, EdgeRowKeeps
<1>7. CASE Finish
  BY <1>7, FinishKeeps
<1>8. CASE UNCHANGED vars
  <2>1. UNCHANGED <<open, disabled, indexed, spool, tuples, table, types, ids, direct, cache, next,
                    pages, planned, batch, started, failed, result, asked>>
    BY <1>8 DEF vars, store, lookup, layout, control
  <2>2. StoreAt' /\ Loaded' = Loaded
    BY <2>1, StoreUnchanged DEF store
  <2>3. LookupAt' /\ Sound(Loaded)' /\ EndpointsRight'
    BY <2>1, <2>2, QuietStep
  <2>4. TypeOK'
    <3>1. TypeOK
      BY DEF ImportInv
    <3>2. QED BY <2>1, <2>2, <2>3, <3>1, TypeStep DEF TypeOK
  <2>5. BatchAt'
    BY <2>1 DEF ImportInv, BatchAt
  <2>6. QED BY <2>2, <2>3, <2>4, <2>5 DEF ImportInv
<1>9. QED BY <1>1, <1>2, <1>3, <1>4, <1>5, <1>6, <1>7, <1>8 DEF Next

(* Every state of the importer satisfies its inductive invariant            *)
(* (append_nodes, append_relationships, finish).                            *)
THEOREM ImportInvariant == Spec => []ImportInv
<1>1. Init => ImportInv
  BY InitImportInv
<1>2. ImportInv /\ [Next]_vars => ImportInv'
  BY NextImportInv
<1>3. QED BY <1>1, <1>2, PTL DEF Spec

(* Every internal ID is fresh and every relationship has its endpoints: the *)
(* complete database passes its own validation (append_nodes,               *)
(* append_relationships, validation::validate).                             *)
THEOREM DatabaseSound == Spec => []AlwaysSound
<1>1. ImportInv => AlwaysSound
  BY DEF ImportInv, AlwaysSound
<1>2. QED BY <1>1, ImportInvariant, PTL

(* The index tuples are those of the spooled records and, after a           *)
(* successful finish, of the tables; the node indexes are laid out for the  *)
(* page size of their database (configure_bulk_pages, finish).              *)
THEOREM IndexesComplete == Spec => []IndexesMatchTables
<1>1. ImportInv => IndexesMatchTables
  BY DEF ImportInv, StoreAt, IndexesMatchTables
<1>2. QED BY <1>1, ImportInvariant, PTL

(* A relationship connects the nodes it names, whether the map, the cache   *)
(* before or after an eviction, or a table resolved them (lookup_node).     *)
THEOREM EndpointsResolved == Spec => []EndpointsRight
<1>1. ImportInv => EndpointsRight
  BY DEF ImportInv
<1>2. QED BY <1>1, ImportInvariant, PTL

-----------------------------------------------------------------------------
(* What is counted is what is written.                                      *)

\* LabelOf, EdgeOf and ShapeOf over a set of records.
NodeLabel(R, id) == (CHOOSE r \in Kind(R, "node") : r.id = id).label
EdgeIn(R, id)    == CHOOSE r \in Kind(R, "edge") : r.id = id
ShapeIn(R, r) ==
  CASE r.kind \in {"node", "node property"} -> <<r.kind, <<NodeLabel(R, r.id)>>>>
    [] r.kind \in {"edge", "edge property"} ->
         <<r.kind, <<NodeLabel(R, EdgeIn(R, r.id).from), NodeLabel(R, EdgeIn(R, r.id).to)>>>>

Tallied(R, S) == /\ DOMAIN S = {ShapeIn(R, r) : r \in R}
                 /\ \A k \in DOMAIN S : S[k] = Cardinality({r \in R : ShapeIn(R, r) = k})

Clean(R)      == R \subseteq Records /\ IsFiniteSet(R) /\ Sound(R) /\ EdgesOwn(R)
Properties(R) == Kind(R, "node property") \cup Kind(R, "edge property")

\* A record that may be added to R.
NewTo(R, r) ==
  /\ r \in Records /\ r \notin R
  /\ r.kind = "node" => \A q \in Kind(R, "node") : q.id # r.id
  /\ r.kind = "node property" => r.id \in {q.id : q \in Kind(R, "node")}
  /\ r.kind = "edge" => /\ \A q \in Kind(R, "edge") : q.id # r.id
                        /\ {r.from, r.to} \subseteq {q.id : q \in Kind(R, "node")}
  /\ r.kind = "edge property" => r.id \in {q.id : q \in Kind(R, "edge")}

\* CountsAgree, kind by kind.
LEMMA CountsMeans ==
  /\ CountsAgree <=>
       (~failed => /\ Cardinality(Kind(Loaded, "node")) = counts.nodes + InHand({"nodes"}, "done")
                   /\ Cardinality(Kind(Loaded, "edge")) = counts.edges + InHand({"edges"}, "done")
                   /\ Cardinality(Properties(Loaded))
                        = counts.properties + InHand({"nodes", "edges"}, "properties")
                   /\ Tallied(Loaded, shapes))
  /\ CountsAgree' <=>
       (~failed' =>
          /\ Cardinality(Kind(Loaded', "node")) = counts'.nodes + InHand({"nodes"}, "done")'
          /\ Cardinality(Kind(Loaded', "edge")) = counts'.edges + InHand({"edges"}, "done")'
          /\ Cardinality(Properties(Loaded'))
               = counts'.properties + InHand({"nodes", "edges"}, "properties")'
          /\ Tallied(Loaded', shapes'))
BY Zenon DEF CountsAgree, Tallied, Properties, ShapeOf, ShapeIn, LabelOf, NodeLabel, EdgeOf, EdgeIn

\* Nodes and relationships are told apart by their ids.
LEMMA LabelHere ==
  ASSUME NEW R, Sound(R), NEW n \in Kind(R, "node")
  PROVE  NodeLabel(R, n.id) = n.label
<1>1. \A r \in Kind(R, "node") : r.id = n.id => r = n
  BY DEF Sound
<1>2. (CHOOSE r \in Kind(R, "node") : r.id = n.id) = n
  BY <1>1
<1>3. QED BY <1>2 DEF NodeLabel

LEMMA EdgeHere ==
  ASSUME NEW R, EdgesOwn(R), NEW e \in Kind(R, "edge")
  PROVE  EdgeIn(R, e.id) = e
<1>1. \A r \in Kind(R, "edge") : r.id = e.id => r = e
  BY DEF EdgesOwn
<1>2. QED BY <1>1 DEF EdgeIn

\* A sound set of records that gets a new one.
LEMMA CleanGrows ==
  ASSUME NEW R, Clean(R), NEW r, NewTo(R, r)
  PROVE  Clean(R \cup {r})
<1> DEFINE T == R \cup {r}
<1>1. T \subseteq Records /\ IsFiniteSet(T)
  BY FS_AddElement DEF Clean, NewTo
<1>2. \A k : \A q \in Kind(T, k) : q \in Kind(R, k) \/ (q = r /\ r.kind = k)
  BY DEF Kind
<1>3. \A k : Kind(R, k) \subseteq Kind(T, k)
  BY DEF Kind
<1> HIDE DEF T
<1>4. \A p, q \in Kind(T, "node") : p.id = q.id => p = q
  BY <1>2 DEF Clean, Sound, NewTo
<1>5. \A p, q \in Kind(T, "edge") : p.id = q.id => p = q
  BY <1>2, ZenonT(60) DEF Clean, EdgesOwn, NewTo
<1>6. {q.id : q \in Kind(R, "node")} \subseteq {q.id : q \in Kind(T, "node")}
  BY <1>3
<1>7. {q.id : q \in Kind(R, "edge")} \subseteq {q.id : q \in Kind(T, "edge")}
  BY <1>3
<1>8. ASSUME NEW q \in Kind(T, "edge")
      PROVE  {q.from, q.to} \subseteq {p.id : p \in Kind(T, "node")}
  <2>1. {q.from, q.to} \subseteq {p.id : p \in Kind(R, "node")}
    BY <1>2 DEF Clean, Sound, NewTo
  <2>2. QED BY <1>6, <2>1
<1>9. ASSUME NEW q \in Kind(T, "node property")
      PROVE  q.id \in {p.id : p \in Kind(T, "node")}
  <2>1. q.id \in {p.id : p \in Kind(R, "node")}
    BY <1>2 DEF Clean, Sound, NewTo
  <2>2. QED BY <1>6, <2>1
<1>10. ASSUME NEW q \in Kind(T, "edge property")
       PROVE  q.id \in {p.id : p \in Kind(T, "edge")}
  <2>1. q.id \in {p.id : p \in Kind(R, "edge")}
    BY <1>2 DEF Clean, EdgesOwn, NewTo
  <2>2. QED BY <1>7, <2>1
<1>11. Sound(T)
  BY <1>4, <1>8, <1>9 DEF Sound
<1>12. EdgesOwn(T)
  BY <1>5, <1>10 DEF EdgesOwn
<1>13. QED BY <1>1, <1>11, <1>12 DEF Clean, T

\* More records do not change the shape of those that are there.
LEMMA ShapeStays ==
  ASSUME NEW R, Clean(R), NEW T, Clean(T), R \subseteq T, NEW q \in R
  PROVE  ShapeIn(T, q) = ShapeIn(R, q)
<1>1. \A k : Kind(R, k) \subseteq Kind(T, k)
  BY DEF Kind
<1>2. ASSUME NEW n \in Kind(R, "node") PROVE NodeLabel(T, n.id) = NodeLabel(R, n.id)
  BY <1>1, LabelHere DEF Clean
<1>3. ASSUME NEW e \in Kind(R, "edge")
      PROVE  /\ EdgeIn(T, e.id) = e /\ EdgeIn(R, e.id) = e
             /\ NodeLabel(T, e.from) = NodeLabel(R, e.from)
             /\ NodeLabel(T, e.to) = NodeLabel(R, e.to)
  <2>1. EdgeIn(T, e.id) = e /\ EdgeIn(R, e.id) = e
    BY <1>1, EdgeHere DEF Clean
  <2>2. {e.from, e.to} \subseteq {n.id : n \in Kind(R, "node")}
    BY DEF Clean, Sound
  <2>3. PICK n \in Kind(R, "node") : n.id = e.from
    BY <2>2
  <2>4. PICK m \in Kind(R, "node") : m.id = e.to
    BY <2>2
  <2>5. QED BY <1>2, <2>1, <2>3, <2>4
<1>4. q.kind \in {"node", "node property", "edge", "edge property"}
  BY DEF Clean, Records
<1>5. CASE q.kind \in {"node", "node property"}
  <2>1. \E n \in Kind(R, "node") : n.id = q.id
    <3>1. CASE q.kind = "node"
      BY <3>1 DEF Kind
    <3>2. CASE q.kind = "node property"
      <4>1. q \in Kind(R, "node property")
        BY <3>2 DEF Kind
      <4>2. QED BY <4>1 DEF Clean, Sound
    <3>3. QED BY <1>5, <3>1, <3>2
  <2>2. NodeLabel(T, q.id) = NodeLabel(R, q.id)
    BY <1>2, <2>1, Zenon
  <2>3. QED BY <1>5, <2>2 DEF ShapeIn
<1>6. CASE q.kind \in {"edge", "edge property"}
  <2>1. \E e \in Kind(R, "edge") : e.id = q.id
    <3>1. CASE q.kind = "edge"
      BY <3>1 DEF Kind
    <3>2. CASE q.kind = "edge property"
      <4>1. q \in Kind(R, "edge property")
        BY <3>2 DEF Kind
      <4>2. QED BY <4>1 DEF Clean, EdgesOwn
    <3>3. QED BY <1>6, <3>1, <3>2
  <2>2. /\ EdgeIn(T, q.id) = EdgeIn(R, q.id)
        /\ NodeLabel(T, EdgeIn(T, q.id).from) = NodeLabel(R, EdgeIn(R, q.id).from)
        /\ NodeLabel(T, EdgeIn(T, q.id).to) = NodeLabel(R, EdgeIn(R, q.id).to)
    BY <1>3, <2>1, Zenon
  <2>3. QED BY <1>6, <2>2 DEF ShapeIn
<1>7. QED BY <1>4, <1>5, <1>6

\* One more record is one more of its shape.
LEMMA OneMore ==
  ASSUME NEW R, Clean(R), NEW S, Tallied(R, S), NEW r, NewTo(R, r)
  PROVE  Tallied(R \cup {r}, More(S, ShapeIn(R \cup {r}, r)))
<1> DEFINE T      == R \cup {r}
           k0     == ShapeIn(T, r)
           one    == More(S, k0)
           Of(k)  == {q \in R : ShapeIn(R, q) = k}
           Now(k) == {q \in T : ShapeIn(T, q) = k}
<1>1. Clean(T) /\ r \notin R
  BY CleanGrows DEF NewTo
<1>2. \A q \in R : ShapeIn(T, q) = ShapeIn(R, q)
  BY <1>1, ShapeStays
<1>3. \A k : Now(k) = IF k = k0 THEN Of(k) \cup {r} ELSE Of(k)
  BY <1>2
<1>4. \A k : IsFiniteSet(Of(k)) /\ Cardinality(Of(k)) \in Nat /\ r \notin Of(k)
  BY <1>1, FS_Subset, FS_CardinalityType DEF Clean
<1>5. Cardinality(Now(k0)) = Cardinality(Of(k0)) + 1
  BY <1>3, <1>4, FS_AddElement
<1>6. Count(S, k0) = Cardinality(Of(k0))
  <2>1. CASE k0 \in DOMAIN S
    BY <2>1 DEF Tallied, Count
  <2>2. CASE k0 \notin DOMAIN S
    <3>1. Of(k0) = {}
      BY <2>2 DEF Tallied
    <3>2. QED BY <2>2, <3>1, FS_EmptySet DEF Count
  <2>3. QED BY <2>1, <2>2
<1> HIDE DEF k0
<1>7. /\ DOMAIN one = DOMAIN S \cup {k0} /\ one[k0] = Count(S, k0) + 1
      /\ \A k \in DOMAIN S : k # k0 => one[k] = S[k]
  <2>1. one = Put(S, k0, Count(S, k0) + 1)
    BY DEF More
  <2> DEFINE put == Put(S, k0, Count(S, k0) + 1)
  <2>2. /\ DOMAIN put = DOMAIN S \cup {k0} /\ put[k0] = Count(S, k0) + 1
        /\ \A k \in DOMAIN S : k # k0 => put[k] = S[k]
    BY DEF Put
  <2> HIDE DEF put
  <2>3. one = put
    BY <2>1 DEF put
  <2> HIDE DEF one
  <2>4. QED BY <2>2, <2>3
<1> HIDE DEF one
<1>8. DOMAIN one = {ShapeIn(T, q) : q \in T}
  BY <1>2, <1>7 DEF Tallied, k0
<1>9. ASSUME NEW k \in DOMAIN one PROVE one[k] = Cardinality(Now(k))
  <2>1. CASE k = k0
    BY <1>5, <1>6, <1>7, <2>1
  <2>2. CASE k # k0
    BY <1>3, <1>7, <2>2 DEF Tallied
  <2>3. QED BY <2>1, <2>2
<1>10. QED BY <1>8, <1>9 DEF Tallied, one, k0

\* And one more of its kind.
LEMMA KindMore ==
  ASSUME NEW R, Clean(R), NEW r, NewTo(R, r)
  PROVE  /\ \A k : Cardinality(Kind(R, k)) \in Nat
         /\ \A k : r.kind = k => Cardinality(Kind(R \cup {r}, k)) = Cardinality(Kind(R, k)) + 1
         /\ \A k : r.kind # k => Kind(R \cup {r}, k) = Kind(R, k)
         /\ Cardinality(Properties(R)) \in Nat
         /\ r.kind \in {"node property", "edge property"} =>
              Cardinality(Properties(R \cup {r})) = Cardinality(Properties(R)) + 1
         /\ r.kind \notin {"node property", "edge property"} =>
              Properties(R \cup {r}) = Properties(R)
<1>1. \A Q \in SUBSET R : /\ IsFiniteSet(Q) /\ r \notin Q /\ Cardinality(Q) \in Nat
                          /\ Cardinality(Q \cup {r}) = Cardinality(Q) + 1
  BY FS_Subset, FS_CardinalityType, FS_AddElement DEF Clean, NewTo
<1>2. (\A k : Kind(R, k) \subseteq R) /\ Properties(R) \subseteq R
  BY DEF Kind, Properties
<1>3. \A k : /\ r.kind = k => Kind(R \cup {r}, k) = Kind(R, k) \cup {r}
             /\ r.kind # k => Kind(R \cup {r}, k) = Kind(R, k)
  BY DEF Kind
<1>4. /\ r.kind \in {"node property", "edge property"} =>
           Properties(R \cup {r}) = Properties(R) \cup {r}
      /\ r.kind \notin {"node property", "edge property"} =>
           Properties(R \cup {r}) = Properties(R)
  <2>1. CASE r.kind = "node property"
    <3>1. /\ Kind(R \cup {r}, "node property") = Kind(R, "node property") \cup {r}
          /\ Kind(R \cup {r}, "edge property") = Kind(R, "edge property")
      BY <1>3, <2>1
    <3>2. QED BY <2>1, <3>1 DEF Properties
  <2>2. CASE r.kind = "edge property"
    <3>1. /\ Kind(R \cup {r}, "node property") = Kind(R, "node property")
          /\ Kind(R \cup {r}, "edge property") = Kind(R, "edge property") \cup {r}
      BY <1>3, <2>2
    <3>2. QED BY <2>2, <3>1 DEF Properties
  <2>3. CASE r.kind \notin {"node property", "edge property"}
    <3>1. /\ Kind(R \cup {r}, "node property") = Kind(R, "node property")
          /\ Kind(R \cup {r}, "edge property") = Kind(R, "edge property")
      BY <1>3, <2>3
    <3>2. QED BY <2>3, <3>1 DEF Properties
  <2>4. QED BY <2>1, <2>2, <2>3
<1>5. \A k : /\ Cardinality(Kind(R, k)) \in Nat
             /\ Cardinality(Kind(R, k) \cup {r}) = Cardinality(Kind(R, k)) + 1
  BY <1>1, <1>2
<1>6. /\ Cardinality(Properties(R)) \in Nat
      /\ Cardinality(Properties(R) \cup {r}) = Cardinality(Properties(R)) + 1
  BY <1>1, <1>2
<1>7. ASSUME NEW k, r.kind = k
      PROVE  Cardinality(Kind(R \cup {r}, k)) = Cardinality(Kind(R, k)) + 1
  <2>1. Kind(R \cup {r}, k) = Kind(R, k) \cup {r}
    BY <1>3, <1>7
  <2>2. QED BY <1>5, <2>1, Zenon
<1>8. ASSUME r.kind \in {"node property", "edge property"}
      PROVE  Cardinality(Properties(R \cup {r})) = Cardinality(Properties(R)) + 1
  <2>1. Properties(R \cup {r}) = Properties(R) \cup {r}
    BY <1>4, <1>8
  <2>2. QED BY <1>6, <2>1, Zenon
<1>9. QED BY <1>3, <1>4, <1>5, <1>6, <1>7, <1>8, Zenon

\* What a row that is loaded adds.
LEMMA RowAdded ==
  ASSUME NEW R, Clean(R), NEW S, Tallied(R, S),
         NEW a, NewTo(R, a), a.kind \in {"node", "edge"},
         NEW L, ShapeIn(R \cup {a}, a) = <<a.kind, L>>,
         NEW p \in Records, p.kind = PropertyOf(a.kind), p.id = a.id, NEW valued \in BOOLEAN,
         NEW Q, Q = R \cup ({a} \cup (IF valued THEN {p} ELSE {}))
  PROVE  /\ Clean(Q)
         /\ LET one == More(S, <<a.kind, L>>)
            IN  Tallied(Q, IF valued THEN More(one, <<PropertyOf(a.kind), L>>) ELSE one)
         /\ Cardinality(Kind(Q, "node"))
              = Cardinality(Kind(R, "node")) + (IF a.kind = "node" THEN 1 ELSE 0)
         /\ Cardinality(Kind(Q, "edge"))
              = Cardinality(Kind(R, "edge")) + (IF a.kind = "edge" THEN 1 ELSE 0)
         /\ Cardinality(Properties(Q)) = Cardinality(Properties(R)) + (IF valued THEN 1 ELSE 0)
<1> DEFINE T   == R \cup {a}
           one == More(S, <<a.kind, L>>)
<1>1. Clean(T) /\ Tallied(T, one)
  BY CleanGrows, OneMore
<1>2. /\ Cardinality(Kind(T, "node"))
           = Cardinality(Kind(R, "node")) + (IF a.kind = "node" THEN 1 ELSE 0)
      /\ Cardinality(Kind(T, "edge"))
           = Cardinality(Kind(R, "edge")) + (IF a.kind = "edge" THEN 1 ELSE 0)
      /\ Cardinality(Properties(T)) = Cardinality(Properties(R))
      /\ Cardinality(Properties(R)) \in Nat
      /\ Cardinality(Kind(R, "node")) \in Nat /\ Cardinality(Kind(R, "edge")) \in Nat
  <2>1. a.kind \notin {"node property", "edge property"}
    OBVIOUS
  <2>2. /\ \A k : Cardinality(Kind(R, k)) \in Nat
        /\ \A k : a.kind = k => Cardinality(Kind(T, k)) = Cardinality(Kind(R, k)) + 1
        /\ \A k : a.kind # k => Kind(T, k) = Kind(R, k)
        /\ Cardinality(Properties(R)) \in Nat
        /\ Properties(T) = Properties(R)
    BY <2>1, KindMore
  <2> HIDE DEF T
  <2>3. CASE a.kind = "node"
    BY <2>2, <2>3
  <2>4. CASE a.kind = "edge"
    BY <2>2, <2>4
  <2>5. QED BY <2>3, <2>4
<1>3. p.kind = (IF a.kind = "node" THEN "node property" ELSE "edge property")
  BY DEF PropertyOf
<1>4. NewTo(T, p)
  <2>1. p \notin R
    <3>1. CASE a.kind = "node"
      <4>1. p \in R => p.id \in {q.id : q \in Kind(R, "node")}
        BY <1>3, <3>1 DEF Clean, Sound, Kind
      <4>2. QED BY <3>1, <4>1 DEF NewTo
    <3>2. CASE a.kind = "edge"
      <4>1. p \in R => p.id \in {q.id : q \in Kind(R, "edge")}
        BY <1>3, <3>2 DEF Clean, EdgesOwn, Kind
      <4>2. QED BY <3>2, <4>1 DEF NewTo
    <3>3. QED BY <3>1, <3>2
  <2>2. a \in Kind(T, a.kind) /\ p \notin T
    BY <1>3, <2>1 DEF Kind
  <2>3. QED BY <1>3, <2>2 DEF NewTo
<1>5. CASE ~valued
  <2>1. Q = T
    BY <1>5
  <2> HIDE DEF T
  <2>2. QED BY <1>1, <1>2, <1>5, <2>1
<1>6. CASE valued
  <2>1. Q = T \cup {p}
    BY <1>6
  <2>2. Clean(Q)
    BY <1>1, <1>4, <2>1, CleanGrows
  <2>3. ShapeIn(Q, a) = <<a.kind, L>>
    BY <1>1, <2>1, <2>2, ShapeStays
  <2>4. ShapeIn(Q, p) = <<PropertyOf(a.kind), L>>
    <3>1. CASE a.kind = "node"
      BY <1>3, <2>3, <3>1 DEF ShapeIn, PropertyOf
    <3>2. CASE a.kind = "edge"
      BY <1>3, <2>3, <3>2 DEF ShapeIn, PropertyOf
    <3>3. QED BY <3>1, <3>2
  <2>5. Tallied(Q, More(one, <<PropertyOf(a.kind), L>>))
    <3> HIDE DEF T, one
    <3>1. QED BY <1>1, <1>4, <2>1, <2>4, OneMore
  <2>6. /\ Cardinality(Kind(Q, "node")) = Cardinality(Kind(T, "node"))
        /\ Cardinality(Kind(Q, "edge")) = Cardinality(Kind(T, "edge"))
        /\ Cardinality(Properties(Q)) = Cardinality(Properties(T)) + 1
    <3> HIDE DEF T
    <3>1. p.kind # "node" /\ p.kind # "edge" /\ p.kind \in {"node property", "edge property"}
      BY <1>3
    <3>2. /\ \A k : p.kind # k => Kind(T \cup {p}, k) = Kind(T, k)
          /\ Cardinality(Properties(T \cup {p})) = Cardinality(Properties(T)) + 1
      BY <1>1, <1>4, <3>1, KindMore
    <3>3. QED BY <2>1, <3>1, <3>2
  <2> HIDE DEF T, one
  <2>7. QED BY <1>2, <1>6, <2>2, <2>5, <2>6 DEF one
<1>7. QED BY <1>5, <1>6

\* The counts of the batch in hand.
LEMMA HandFacts ==
  ASSUME ImportInv
  PROVE  /\ batch = None => \A kinds, field : InHand(kinds, field) = 0
         /\ batch # None => /\ InHand({"nodes"}, "done")
                                 = (IF batch.kind = "nodes" THEN batch.done ELSE 0)
                            /\ InHand({"edges"}, "done")
                                 = (IF batch.kind = "edges" THEN batch.done ELSE 0)
                            /\ InHand({"nodes", "edges"}, "properties") = batch.properties
                            /\ batch.done \in Nat /\ batch.properties \in Nat /\ batch.skipped \in Nat
                            /\ batch.kind \in {"nodes", "edges"}
<1>1. batch # None => batch \in Batches
  BY DEF ImportInv, BatchAt
<1>2. batch # None => /\ batch.done \in Nat /\ batch.properties \in Nat /\ batch.skipped \in Nat
                      /\ batch.kind \in {"nodes", "edges"}
  BY <1>1 DEF Batches
<1>3. QED BY <1>2 DEF InHand

\* HandFacts after the step.
LEMMA HandFactsNext ==
  ASSUME ImportInv'
  PROVE  /\ batch' = None => \A kinds, field : InHand(kinds, field)' = 0
         /\ batch' # None => /\ InHand({"nodes"}, "done")'
                                  = (IF batch'.kind = "nodes" THEN batch'.done ELSE 0)
                             /\ InHand({"edges"}, "done")'
                                  = (IF batch'.kind = "edges" THEN batch'.done ELSE 0)
                             /\ InHand({"nodes", "edges"}, "properties")' = batch'.properties
<1>1. batch' # None => batch' \in Batches
  BY DEF ImportInv, BatchAt
<1>2. batch' # None => batch'.kind \in {"nodes", "edges"}
  BY <1>1 DEF Batches
<1>3. QED BY <1>2 DEF InHand

\* A row that is done is counted in the batch.
LEMMA RowDoneHand ==
  ASSUME ImportInv, ImportInv', batch # None, batch.left > 0,
         NEW d \in Nat, NEW k \in Nat, NEW q \in Nat, RowDone(batch, d, k, q)
  PROVE  /\ InHand({"nodes"}, "done")'
              = InHand({"nodes"}, "done") + (IF batch.kind = "nodes" THEN d ELSE 0)
         /\ InHand({"edges"}, "done")'
              = InHand({"edges"}, "done") + (IF batch.kind = "edges" THEN d ELSE 0)
         /\ InHand({"nodes", "edges"}, "properties")' = InHand({"nodes", "edges"}, "properties") + q
         /\ InHand({"nodes"}, "done") \in Nat /\ InHand({"edges"}, "done") \in Nat
         /\ InHand({"nodes", "edges"}, "properties") \in Nat
<1>1. batch \in Batches
  BY DEF ImportInv, BatchAt
<1>2. batch' = [batch EXCEPT !.left = @ - 1, !.done = @ + d, !.skipped = @ + k, !.properties = @ + q]
  BY DEF RowDone
<1>3. /\ batch'.done = batch.done + d /\ batch'.properties = batch.properties + q
      /\ batch'.kind = batch.kind
  BY <1>1, <1>2 DEF Batches
<1>4. batch' # None
  BY RowDoneFacts, OfflineImportAssumption
<1>5. QED BY <1>3, <1>4, HandFacts, HandFactsNext

\* Between failures the loaded records are sound and counted.
LEMMA CleanLoaded ==
  ASSUME CountInv, ~failed
  PROVE  Clean(Loaded) /\ Tallied(Loaded, shapes)
<1>1. Tallied(Loaded, shapes)
  BY CountsMeans DEF CountInv
<1>2. QED BY <1>1 DEF CountInv, Clean, ImportInv, StoreAt

\* A step that loads nothing and moves no count, or moves counts out of the batch.
LEMMA NothingLoaded ==
  ASSUME CountInv, ImportInv', Loaded' = Loaded, shapes' = shapes,
         counts' \in [nodes : Nat, edges : Nat, properties : Nat, skipped : Nat],
         ~failed' => ~failed,
         ~failed' =>
           /\ counts'.nodes + InHand({"nodes"}, "done")' = counts.nodes + InHand({"nodes"}, "done")
           /\ counts'.edges + InHand({"edges"}, "done")' = counts.edges + InHand({"edges"}, "done")
           /\ counts'.properties + InHand({"nodes", "edges"}, "properties")'
                = counts.properties + InHand({"nodes", "edges"}, "properties")
  PROVE  CountInv'
<1>1. CountsAgree'
  BY CountsMeans DEF CountInv
<1>2. ~failed' => IsFiniteSet(Loaded') /\ EdgesOwn(Loaded')
  BY DEF CountInv
<1>3. QED BY <1>1, <1>2 DEF CountInv, EdgesOwn

\* A step that loads a record and perhaps its property.
LEMMA RowLoaded ==
  ASSUME CountInv, ImportInv', ~failed, batch # None, batch.left > 0, counts' = counts,
         NEW a, NewTo(Loaded, a), a.kind \in {"node", "edge"},
         batch.kind = (IF a.kind = "node" THEN "nodes" ELSE "edges"),
         NEW L, ShapeIn(Loaded \cup {a}, a) = <<a.kind, L>>,
         NEW p \in Records, p.kind = PropertyOf(a.kind), p.id = a.id, NEW valued \in BOOLEAN,
         Loaded' = Loaded \cup ({a} \cup (IF valued THEN {p} ELSE {})),
         Tally(a.kind, L, valued), RowDone(batch, 1, 0, IF valued THEN 1 ELSE 0)
  PROVE  CountInv'
<1> DEFINE one == More(shapes, <<a.kind, L>>)
           v   == IF valued THEN 1 ELSE 0
<1>1. Clean(Loaded) /\ Tallied(Loaded, shapes)
  BY CleanLoaded
<1>2. /\ Clean(Loaded')
      /\ Tallied(Loaded', IF valued THEN More(one, <<PropertyOf(a.kind), L>>) ELSE one)
      /\ Cardinality(Kind(Loaded', "node"))
           = Cardinality(Kind(Loaded, "node")) + (IF a.kind = "node" THEN 1 ELSE 0)
      /\ Cardinality(Kind(Loaded', "edge"))
           = Cardinality(Kind(Loaded, "edge")) + (IF a.kind = "edge" THEN 1 ELSE 0)
      /\ Cardinality(Properties(Loaded')) = Cardinality(Properties(Loaded)) + v
  BY <1>1, RowAdded
<1>3. shapes' = IF valued THEN More(one, <<PropertyOf(a.kind), L>>) ELSE one
  BY DEF Tally
<1>4. Tallied(Loaded', shapes')
  <2> HIDE DEF one
  <2>1. QED BY <1>2, <1>3
<1>5. v \in Nat /\ 1 \in Nat /\ 0 \in Nat /\ RowDone(batch, 1, 0, v)
  OBVIOUS
<1> HIDE DEF v
<1>6. /\ InHand({"nodes"}, "done")'
           = InHand({"nodes"}, "done") + (IF batch.kind = "nodes" THEN 1 ELSE 0)
      /\ InHand({"edges"}, "done")'
           = InHand({"edges"}, "done") + (IF batch.kind = "edges" THEN 1 ELSE 0)
      /\ InHand({"nodes", "edges"}, "properties")' = InHand({"nodes", "edges"}, "properties") + v
      /\ InHand({"nodes"}, "done") \in Nat /\ InHand({"edges"}, "done") \in Nat
      /\ InHand({"nodes", "edges"}, "properties") \in Nat
  BY <1>5, RowDoneHand DEF CountInv
<1>7. counts.nodes \in Nat /\ counts.edges \in Nat /\ counts.properties \in Nat
  BY DEF CountInv
<1>8. /\ Cardinality(Kind(Loaded, "node")) = counts.nodes + InHand({"nodes"}, "done")
      /\ Cardinality(Kind(Loaded, "edge")) = counts.edges + InHand({"edges"}, "done")
      /\ Cardinality(Properties(Loaded)) = counts.properties + InHand({"nodes", "edges"}, "properties")
  BY CountsMeans DEF CountInv
<1>9. /\ Cardinality(Kind(Loaded', "node")) = counts'.nodes + InHand({"nodes"}, "done")'
      /\ Cardinality(Kind(Loaded', "edge")) = counts'.edges + InHand({"edges"}, "done")'
      /\ Cardinality(Properties(Loaded'))
           = counts'.properties + InHand({"nodes", "edges"}, "properties")'
  <2>1. Cardinality(Kind(Loaded', "node")) = counts'.nodes + InHand({"nodes"}, "done")'
    BY <1>2, <1>6, <1>7, <1>8
  <2>2. Cardinality(Kind(Loaded', "edge")) = counts'.edges + InHand({"edges"}, "done")'
    BY <1>2, <1>6, <1>7, <1>8
  <2>3. Cardinality(Properties(Loaded'))
          = counts'.properties + InHand({"nodes", "edges"}, "properties")'
    BY <1>2, <1>5, <1>6, <1>7, <1>8
  <2>4. QED BY <2>1, <2>2, <2>3
<1>10. CountsAgree'
  BY <1>4, <1>9, CountsMeans
<1>11. QED BY <1>2, <1>10 DEF CountInv, Clean

\* What a node row adds.
LEMMA NodeRowCounts ==
  ASSUME CountInv, ImportInv', NEW id \in Ids \cup {None}, NEW label \in Labels,
         NEW valued \in BOOLEAN, NodeRow(id, label, valued)
  PROVE  CountInv'
<1> DEFINE s       == batch.spec
           actual  == s.type = "ACTUAL" /\ id # None
           n       == [id |-> IF actual THEN id ELSE next.node, label |-> label]
           key     == KeyOf(s.group, s.type, id)
           mapped  == s.type # "ACTUAL" /\ id # None
           taken   == mapped /\ key \in DOMAIN ids
           clashes == ~open /\ \E r \in Kind(table, "node") : r.id = n.id
           node    == [kind |-> "node", id |-> n.id, label |-> label]
           prop    == [kind |-> "node property", id |-> n.id]
           records == {node} \cup (IF valued THEN {prop} ELSE {})
           v       == IF valued THEN 1 ELSE 0
<1>1. /\ ~failed /\ batch # None /\ batch.kind = "nodes" /\ batch.left > 0 /\ counts' = counts
      /\ UNCHANGED <<open, disabled, indexed>> /\ ImportInv
  BY DEF NodeRow, CountInv
<1>2. CASE failed'
  BY <1>1, <1>2, CountsMeans DEF CountInv
<1>3. CASE ~failed' /\ (taken \/ clashes)
  <2>1. SkipOrFail /\ UNCHANGED <<spool, tuples, table, shapes>>
    BY <1>3 DEF NodeRow
  <2>2. RowDone(batch, 0, 1, 0)
    BY <1>3, <2>1 DEF SkipOrFail, Fail
  <2>3. Loaded' = Loaded
    BY <2>1 DEF Loaded
  <2>4. 0 \in Nat /\ 1 \in Nat
    OBVIOUS
  <2>5. /\ InHand({"nodes"}, "done")' = InHand({"nodes"}, "done")
        /\ InHand({"edges"}, "done")' = InHand({"edges"}, "done")
        /\ InHand({"nodes", "edges"}, "properties")' = InHand({"nodes", "edges"}, "properties")
    BY <1>1, <2>2, <2>4, RowDoneHand
  <2>6. QED BY <1>1, <2>1, <2>3, <2>5, NothingLoaded DEF CountInv
<1>4. CASE ~failed' /\ ~taken /\ ~clashes
  <2>1. /\ Write(records) /\ Tally("node", <<label>>, valued)
        /\ RowDone(batch, 1, 0, v)
    BY <1>4, Zenon DEF NodeRow, Fail
  <2>2. n.id \in Int /\ n.id = (IF actual THEN id ELSE next.node)
    <3>1. id # None => id \in Int
      BY OfflineImportAssumption
    <3>2. next.node \in Int
      <4>1. next \in [node : Nat, edge : Nat]
        BY <1>1 DEF ImportInv, TypeOK
      <4>2. QED BY <4>1
    <3>3. QED BY <3>1, <3>2
  <2>3. \A r \in Kind(Loaded, "node") : r.id # n.id
    <3>1. n.id = next.node \/ ~open
      BY <1>1, <2>2 DEF ImportInv, BatchAt
    <3>2. ~(~open /\ \E r \in Kind(table, "node") : r.id = n.id)
      BY <1>4
    <3> HIDE DEF n
    <3>3. QED BY <1>1, <3>1, <3>2, FreshId
  <2> HIDE DEF n
  <2>4. node \in Records /\ prop \in Records
    BY <2>2 DEF Records
  <2>5. Loaded' = Loaded \cup records
    <3>1. records \in SUBSET Records
      BY <2>4
    <3> HIDE DEF records
    <3>2. QED BY <1>1, <2>1, <3>1, WriteFacts
  <2>6. /\ node.kind = "node" /\ node.id = n.id /\ node.label = label
        /\ prop.kind = PropertyOf("node") /\ prop.id = n.id
    BY DEF PropertyOf
  <2> HIDE DEF node, prop
  <2>7. NewTo(Loaded, node)
    <3>1. node \notin Loaded
      BY <2>3, <2>6 DEF Kind
    <3>2. QED BY <2>3, <2>4, <2>6, <3>1 DEF NewTo
  <2>8. ShapeIn(Loaded \cup {node}, node) = <<"node", <<label>>>>
    <3>1. Sound(Loaded \cup {node})
      BY <1>1, <2>7, CleanLoaded, CleanGrows DEF Clean
    <3>2. node \in Kind(Loaded \cup {node}, "node")
      BY <2>6 DEF Kind
    <3>3. NodeLabel(Loaded \cup {node}, node.id) = label
      BY <2>6, <3>1, <3>2, LabelHere
    <3>4. QED BY <2>6, <3>3 DEF ShapeIn
  <2>9. QED BY <1>1, <2>1, <2>4, <2>5, <2>6, <2>7, <2>8, RowLoaded
<1>5. QED BY <1>2, <1>3, <1>4

\* What a relationship row adds.
LEMMA EdgeRowCounts ==
  ASSUME CountInv, ImportInv', NEW a \in Ids \cup {None}, NEW b \in Ids \cup {None},
         NEW valued \in BOOLEAN, EdgeRow(a, b, valued)
  PROVE  CountInv'
<1> DEFINE s  == batch.spec
           ta == TypeOfGroup(s.from, s.type)
           tb == TypeOfGroup(s.to, s.type)
           x  == Resolve(cache, s.from, ta, a)
           y  == Resolve(x.cache, s.to, tb, b)
           edge == [kind |-> "edge", id |-> next.edge, from |-> x.node.id, to |-> y.node.id]
           prop == [kind |-> "edge property", id |-> next.edge]
           records == {edge} \cup (IF valued THEN {prop} ELSE {})
           v  == IF valued THEN 1 ELSE 0
<1>1. /\ ~failed /\ batch # None /\ batch.kind = "edges" /\ batch.left > 0 /\ counts' = counts
      /\ UNCHANGED <<open, disabled, indexed>> /\ ImportInv
  BY DEF EdgeRow, CountInv
<1>2. CASE failed'
  BY <1>1, <1>2, CountsMeans DEF CountInv
<1>3. CASE ~failed' /\ (x.node = None \/ y.node = None)
  <2>1. SkipOrFail /\ UNCHANGED <<spool, tuples, table, shapes>>
    BY <1>3, Zenon DEF EdgeRow
  <2>2. RowDone(batch, 0, 1, 0)
    BY <1>3, <2>1 DEF SkipOrFail, Fail
  <2>3. Loaded' = Loaded
    BY <2>1 DEF Loaded
  <2>4. 0 \in Nat /\ 1 \in Nat
    OBVIOUS
  <2>5. /\ InHand({"nodes"}, "done")' = InHand({"nodes"}, "done")
        /\ InHand({"edges"}, "done")' = InHand({"edges"}, "done")
        /\ InHand({"nodes", "edges"}, "properties")' = InHand({"nodes", "edges"}, "properties")
    BY <1>1, <2>2, <2>4, RowDoneHand
  <2>6. QED BY <1>1, <2>1, <2>3, <2>5, NothingLoaded DEF CountInv
<1>4. CASE ~failed' /\ x.node # None /\ y.node # None
  <2>1. /\ Write(records) /\ Tally("edge", <<x.node.label, y.node.label>>, valued)
        /\ RowDone(batch, 1, 0, v)
    BY <1>4, Zenon DEF EdgeRow
  <2>2. s \in EdgeSpecs /\ s.from \in IdGroups /\ s.to \in IdGroups /\ s.type \in IdTypes
    <3>1. batch \in Batches
      BY <1>1 DEF ImportInv, BatchAt
    <3>2. s \in EdgeSpecs
      BY <1>1, <3>1 DEF Batches
    <3>3. QED BY <3>2 DEF EdgeSpecs
  <2>3. ta \in IdTypes /\ tb \in IdTypes
    BY <1>1, <2>2 DEF TypeOfGroup, ImportInv, TypeOK
  <2>4. GoodCache(x.cache) /\ IsNode(x.node)
    <3>1. GoodCache(cache)
      BY <1>1 DEF ImportInv, LookupAt
    <3> HIDE DEF ta
    <3>2. QED BY <1>1, <1>4, <2>2, <2>3, <3>1, ResolveFacts
  <2>5. IsNode(y.node)
    <3> HIDE DEF tb, x
    <3>1. QED BY <1>1, <1>4, <2>2, <2>3, <2>4, ResolveFacts
  <2> HIDE DEF x, y
  <2> DEFINE m == [kind |-> "node", id |-> x.node.id, label |-> x.node.label]
             n == [kind |-> "node", id |-> y.node.id, label |-> y.node.label]
  <2>6. m \in Kind(Loaded, "node") /\ n \in Kind(Loaded, "node")
    BY <2>4, <2>5 DEF IsNode, Kind
  <2>7. /\ m.id = x.node.id /\ m.label = x.node.label
        /\ n.id = y.node.id /\ n.label = y.node.label
    OBVIOUS
  <2>8. x.node.id \in Int /\ y.node.id \in Int
    BY <2>4, <2>5 DEF IsNode, NodeRecords
  <2>9. next.edge \in Nat /\ next.edge \in Int
    <3>1. next \in [node : Nat, edge : Nat]
      BY <1>1 DEF ImportInv, TypeOK
    <3>2. QED BY <3>1
  <2> HIDE DEF m, n
  <2>10. edge \in Records /\ prop \in Records
    BY <2>8, <2>9 DEF Records
  <2>11. Loaded' = Loaded \cup records
    <3>1. records \in SUBSET Records
      BY <2>10
    <3> HIDE DEF records
    <3>2. QED BY <1>1, <2>1, <3>1, WriteFacts
  <2>12. /\ edge.kind = "edge" /\ edge.id = next.edge
         /\ edge.from = m.id /\ edge.to = n.id
         /\ prop.kind = PropertyOf("edge") /\ prop.id = next.edge
    BY <2>7 DEF PropertyOf
  <2> HIDE DEF edge, prop
  <2>13. NewTo(Loaded, edge)
    <3>1. \A r \in Kind(Loaded, "edge") : r.id < next.edge /\ r.id \in Nat
      BY <1>1, RecordFacts DEF ImportInv, LookupAt
    <3>2. \A r \in Kind(Loaded, "edge") : r.id # edge.id
      BY <2>9, <2>12, <3>1
    <3>3. edge \notin Loaded
      BY <2>12, <3>2 DEF Kind
    <3>4. {edge.from, edge.to} \subseteq {q.id : q \in Kind(Loaded, "node")}
      BY <2>6, <2>12
    <3>5. QED BY <2>10, <2>12, <3>2, <3>3, <3>4 DEF NewTo
  <2>14. ShapeIn(Loaded \cup {edge}, edge) = <<"edge", <<x.node.label, y.node.label>>>>
    <3> DEFINE T == Loaded \cup {edge}
    <3>1. Sound(T) /\ EdgesOwn(T)
      BY <1>1, <2>13, CleanLoaded, CleanGrows DEF Clean
    <3>2. edge \in Kind(T, "edge") /\ m \in Kind(T, "node") /\ n \in Kind(T, "node")
      BY <2>6, <2>12 DEF Kind
    <3> HIDE DEF T
    <3>3. EdgeIn(T, edge.id) = edge
      BY <3>1, <3>2, EdgeHere
    <3>4. NodeLabel(T, m.id) = m.label /\ NodeLabel(T, n.id) = n.label
      BY <3>1, <3>2, LabelHere
    <3>5. ShapeIn(T, edge) = <<"edge", <<m.label, n.label>>>>
      BY <2>12, <3>3, <3>4 DEF ShapeIn
    <3>6. QED BY <2>7, <3>5 DEF T
  <2>15. QED BY <1>1, <2>1, <2>10, <2>11, <2>12, <2>13, <2>14, RowLoaded
<1>5. QED BY <1>2, <1>3, <1>4

-----------------------------------------------------------------------------
(* The other actions load nothing.                                          *)

LEMMA RowFailsCounts == ASSUME CountInv, ImportInv', RowFails PROVE CountInv'
<1>1. failed' /\ counts' = counts
  BY DEF RowFails, Fail, account
<1>2. CountsAgree'
  BY <1>1, CountsMeans
<1>3. QED BY <1>1, <1>2 DEF CountInv

LEMMA EndBatchCounts == ASSUME CountInv, ImportInv', EndBatch PROVE CountInv'
<1>1. /\ ~failed /\ batch # None /\ batch' = None /\ failed' = failed /\ shapes' = shapes
      /\ Loaded' = Loaded
      /\ counts' = [nodes      |-> counts.nodes + (IF batch.kind = "nodes" THEN batch.done ELSE 0),
                    edges      |-> counts.edges + (IF batch.kind = "edges" THEN batch.done ELSE 0),
                    properties |-> counts.properties + batch.properties,
                    skipped    |-> counts.skipped + batch.skipped]
  BY DEF EndBatch, control, store, Loaded
<1>2. /\ InHand({"nodes"}, "done") = (IF batch.kind = "nodes" THEN batch.done ELSE 0)
      /\ InHand({"edges"}, "done") = (IF batch.kind = "edges" THEN batch.done ELSE 0)
      /\ InHand({"nodes", "edges"}, "properties") = batch.properties
      /\ batch.done \in Nat /\ batch.properties \in Nat /\ batch.skipped \in Nat
  BY <1>1, HandFacts DEF CountInv
<1>3. /\ InHand({"nodes"}, "done")' = 0 /\ InHand({"edges"}, "done")' = 0
      /\ InHand({"nodes", "edges"}, "properties")' = 0
  BY <1>1 DEF InHand
<1>4. /\ counts.nodes \in Nat /\ counts.edges \in Nat
      /\ counts.properties \in Nat /\ counts.skipped \in Nat
  BY DEF CountInv
<1> DEFINE dn == IF batch.kind = "nodes" THEN batch.done ELSE 0
           de == IF batch.kind = "edges" THEN batch.done ELSE 0
<1>5. dn \in Nat /\ de \in Nat
  BY <1>2
<1>6. /\ counts'.nodes = counts.nodes + dn /\ counts'.edges = counts.edges + de
      /\ counts'.properties = counts.properties + batch.properties
      /\ counts' = [nodes |-> counts.nodes + dn, edges |-> counts.edges + de,
                    properties |-> counts.properties + batch.properties,
                    skipped |-> counts.skipped + batch.skipped]
  BY <1>1
<1> HIDE DEF dn, de
<1>7. counts' \in [nodes : Nat, edges : Nat, properties : Nat, skipped : Nat]
  <2>1. /\ counts.nodes + dn \in Nat /\ counts.edges + de \in Nat
        /\ counts.properties + batch.properties \in Nat /\ counts.skipped + batch.skipped \in Nat
    BY <1>2, <1>4, <1>5
  <2>2. QED BY <1>6, <2>1
<1>8. /\ counts'.nodes + InHand({"nodes"}, "done")' = counts.nodes + InHand({"nodes"}, "done")
      /\ counts'.edges + InHand({"edges"}, "done")' = counts.edges + InHand({"edges"}, "done")
      /\ counts'.properties + InHand({"nodes", "edges"}, "properties")'
           = counts.properties + InHand({"nodes", "edges"}, "properties")
  <2>1. InHand({"nodes"}, "done") = dn /\ InHand({"edges"}, "done") = de
    BY <1>2 DEF dn, de
  <2>2. QED BY <1>2, <1>3, <1>4, <1>5, <1>6, <2>1
<1>9. QED BY <1>1, <1>7, <1>8, NothingLoaded

\* A batch is taken up with nothing done.
LEMMA BatchBegins ==
  ASSUME CountInv, ImportInv', Loaded' = Loaded, UNCHANGED <<shapes, counts>>,
         batch = None, ~failed' => ~failed,
         ~failed' => batch' = None \/ (batch'.done = 0 /\ batch'.properties = 0)
  PROVE  CountInv'
<1>1. \A kinds, field : InHand(kinds, field) = 0
  BY DEF InHand
<1>2. ~failed' => /\ InHand({"nodes"}, "done")' = 0 /\ InHand({"edges"}, "done")' = 0
                  /\ InHand({"nodes", "edges"}, "properties")' = 0
  BY DEF InHand
<1>3. counts' \in [nodes : Nat, edges : Nat, properties : Nat, skipped : Nat]
  BY DEF CountInv
<1>4. QED BY <1>1, <1>2, <1>3, NothingLoaded

LEMMA BeginNodesCounts ==
  ASSUME CountInv, ImportInv', NEW s \in NodeSpecs, NEW n \in 0 .. 2, BeginNodes(s, n)
  PROVE  CountInv'
<1>1. /\ batch = None /\ ~failed /\ result = "none" /\ UNCHANGED <<shapes, counts>>
  BY DEF BeginNodes, Idle, account
<1>2. CASE failed'
  BY <1>1, <1>2, CountsMeans DEF CountInv
<1>3. CASE ~failed'
  <2>1. /\ OpenBody(s, n)
        /\ batch' = [kind |-> "nodes", spec |-> s, left |-> n,
                     done |-> 0, skipped |-> 0, properties |-> 0]
    BY <1>3 DEF BeginNodes, Fail
  <2>2. batch'.done = 0 /\ batch'.properties = 0
    BY <2>1
  <2>3. Loaded' = Loaded
    BY <1>1, <2>1, OpenBodyFacts DEF CountInv
  <2>4. QED BY <1>1, <2>2, <2>3, BatchBegins
<1>4. QED BY <1>2, <1>3

LEMMA BeginEdgesCounts ==
  ASSUME CountInv, ImportInv', NEW s \in EdgeSpecs, NEW n \in 0 .. 2, BeginEdges(s, n)
  PROVE  CountInv'
<1>1. /\ batch = None /\ ~failed /\ UNCHANGED <<shapes, counts, failed>> /\ Loaded' = Loaded
  BY DEF BeginEdges, Idle, account, store, Loaded
<1>2. batch' = [kind |-> "edges", spec |-> s, left |-> n,
                done |-> 0, skipped |-> 0, properties |-> 0]
  BY DEF BeginEdges
<1>3. batch'.done = 0 /\ batch'.properties = 0
  BY <1>2
<1>4. QED BY <1>1, <1>3, BatchBegins

LEMMA FinishCounts == ASSUME CountInv, ImportInv', Finish PROVE CountInv'
<1>1. batch = None /\ batch' = None /\ failed' = failed /\ UNCHANGED <<shapes, counts>>
  BY DEF Finish, account
<1>2. Loaded' = Loaded
  BY DEF Finish, Materialize, store, Loaded
<1>3. QED BY <1>1, <1>2, BatchBegins

-----------------------------------------------------------------------------
(* The invariant and what it implies.                                       *)

LEMMA InitCountInv == ASSUME Init PROVE CountInv
<1>1. ImportInv
  BY InitImportInv
<1>2. Loaded = {} /\ shapes = <<>> /\ batch = None
  BY DEF Init, Loaded
<1>3. counts = [nodes |-> 0, edges |-> 0, properties |-> 0, skipped |-> 0]
  BY DEF Init
<1>4. \A k : Kind(Loaded, k) = {}
  BY <1>2 DEF Kind
<1>5. Cardinality({}) = 0 /\ IsFiniteSet({})
  BY FS_EmptySet
<1>6. \A kinds, field : InHand(kinds, field) = 0
  BY <1>2 DEF InHand
<1>7. counts \in [nodes : Nat, edges : Nat, properties : Nat, skipped : Nat]
  BY <1>3
<1>8. counts.nodes = 0 /\ counts.edges = 0 /\ counts.properties = 0
  BY <1>3
<1>9. Tallied(Loaded, shapes)
  <2>1. DOMAIN shapes = {}
    BY <1>2
  <2>2. {ShapeIn(Loaded, r) : r \in Loaded} = {}
    BY <1>2
  <2>3. QED BY <2>1, <2>2 DEF Tallied
<1>10. Properties(Loaded) = {}
  BY <1>2, <1>4 DEF Properties
<1>11. CountsAgree
  <2>1. Cardinality(Kind(Loaded, "node")) = counts.nodes + InHand({"nodes"}, "done")
    BY <1>4, <1>5, <1>6, <1>8
  <2>2. Cardinality(Kind(Loaded, "edge")) = counts.edges + InHand({"edges"}, "done")
    BY <1>4, <1>5, <1>6, <1>8
  <2>3. Cardinality(Properties(Loaded))
          = counts.properties + InHand({"nodes", "edges"}, "properties")
    BY <1>5, <1>6, <1>8, <1>10
  <2>4. QED BY <1>9, <2>1, <2>2, <2>3, CountsMeans
<1>12. IsFiniteSet(Loaded) /\ EdgesOwn(Loaded)
  BY <1>2, <1>4, <1>5 DEF EdgesOwn
<1>13. QED BY <1>1, <1>7, <1>11, <1>12 DEF CountInv

LEMMA NextCountInv == ASSUME CountInv, [Next]_vars PROVE CountInv'
<1>0. ImportInv'
  BY NextImportInv DEF CountInv
<1>1. ASSUME NEW s \in NodeSpecs, NEW n \in 0 .. 2, BeginNodes(s, n) PROVE CountInv'
  BY <1>0, <1>1, BeginNodesCounts
<1>2. ASSUME NEW id \in Ids \cup {None}, NEW l \in Labels, NEW v \in BOOLEAN, NodeRow(id, l, v)
      PROVE  CountInv'
  BY <1>0, <1>2, NodeRowCounts
<1>3. CASE RowFails
  BY <1>0, <1>3, RowFailsCounts
<1>4. CASE EndBatch
  BY <1>0, <1>4, EndBatchCounts
<1>5. ASSUME NEW s \in EdgeSpecs, NEW n \in 0 .. 2, BeginEdges(s, n) PROVE CountInv'
  BY <1>0, <1>5, BeginEdgesCounts
<1>6. ASSUME NEW a \in Ids \cup {None}, NEW b \in Ids \cup {None}, NEW v \in BOOLEAN, EdgeRow(a, b, v)
      PROVE  CountInv'
  BY <1>0, <1>6, EdgeRowCounts
<1>7. CASE Finish
  BY <1>0, <1>7, FinishCounts
<1>8. CASE UNCHANGED vars
  <2>1. UNCHANGED <<batch, failed, shapes, counts>> /\ Loaded' = Loaded
    BY <1>8 DEF vars, store, account, control, Loaded
  <2>2. \A kinds, field : InHand(kinds, field)' = InHand(kinds, field)
    BY <2>1 DEF InHand
  <2>3. QED BY <1>0, <2>1, <2>2, NothingLoaded DEF CountInv
<1>9. QED BY <1>1, <1>2, <1>3, <1>4, <1>5, <1>6, <1>7, <1>8 DEF Next

(* The report counts what was written, and the planner's graph-shape counts *)
(* are those of the finished tables, whichever of the map, the cache and    *)
(* the tables gave the label groups of an endpoint (append_nodes,           *)
(* append_relationships, shape_counts).                                     *)
THEOREM CountsRight == Spec => []CountsAgree
<1>1. Init => CountInv
  BY InitCountInv
<1>2. CountInv /\ [Next]_vars => CountInv'
  BY NextCountInv
<1>3. CountInv => CountsAgree
  BY DEF CountInv
<1>4. QED BY <1>1, <1>2, <1>3, PTL DEF Spec

=============================================================================
