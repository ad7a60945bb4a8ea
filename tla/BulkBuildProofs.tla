--------------------------- MODULE BulkBuildProofs ---------------------------
(***************************************************************************)
(* Machine-checked proofs about BulkBuild: for any import, any memory       *)
(* budget and ID map, any number of cores and any faults, the sorts that    *)
(* run together stay within one pool of memory, when the import has a       *)
(* result no thread and no spool file of it is left, and a database that    *)
(* is finished holds in every tree exactly what the import gave it.         *)
(***************************************************************************)
EXTENDS BulkBuild, FiniteSetTheorems, SequenceTheorems, WellFoundedInduction, TLAPS

-----------------------------------------------------------------------------
(* Induction, as a fact about a set, and the least number of a set.          *)

LEMMA LeastNatural ==
  ASSUME NEW S \in SUBSET Nat, S # {}
  PROVE  \E n \in S : \A m \in S : n <= m
<1>1. PICK x \in S : \A y \in S : ~(<<y, x>> \in OpToRel(<, Nat))
  BY NatLessThanWellFounded, WFMin
<1>2. \A y \in S : ~(y < x)
  BY <1>1 DEF OpToRel
<1>3. QED BY <1>2

LEMMA SetInduction ==
  ASSUME NEW S, 0 \in S, \A n \in Nat : n \in S => n + 1 \in S
  PROVE  Nat \subseteq S
<1> DEFINE T == {n \in Nat : n \notin S}
<1>1. CASE T # {}
  <2>1. PICK n \in T : \A m \in T : n <= m
    <3> HIDE DEF T
    <3>1. T \subseteq Nat
      BY DEF T
    <3>2. QED BY <1>1, <3>1, LeastNatural
  <2>2. n # 0 /\ n \in Nat
    OBVIOUS
  <2>3. n - 1 \in Nat /\ n - 1 \notin T
    BY <2>1, <2>2
  <2>4. n - 1 \in S
    BY <2>3
  <2>5. QED BY <2>2, <2>3, <2>4
<1>2. QED BY <1>1

-----------------------------------------------------------------------------
(* The lists of trees, indexes and streams, spelled out.                    *)

EdgeNames  == {"from_type_to_id", "to_type_from_id", "type_from_to_id", "type_to_from_id"}
TableNames == {"node", "edge", "node_property", "node_primary", "edge_property"}

\* The streams and the indexes there are, with or without a numeric stream n.
StreamsWith(n) == {"node", "property", "text"} \cup (IF n = None THEN {} ELSE {"numeric"})
IndexesWith(n) == {"label", "keyid", "text"} \cup (IF n = None THEN {} ELSE {"numeric"})

\* Every node sort has succeeded.
SortedWith(f, n) == \A s \in StreamsWith(n) : f[s] = "ok"

\* The names in the lists of the module, once and for all.
LEMMA TableList ==
  /\ Len(Tables) = 5 /\ DOMAIN Tables = 1 .. 5
  /\ Range(Tables) = TableNames /\ Head(Tables) = "node"
BY DEF Tables, Range, TableNames

LEMMA EdgeList == Range(EdgeIndexes) = EdgeNames
BY DEF EdgeIndexes, Range, EdgeNames

LEMMA TreeList ==
  Trees = TableNames \cup EdgeNames \cup {"label", "keyid", "numeric", "text"}
<1>1. DOMAIN NodeStream = {"label", "keyid", "numeric", "text"}
  BY DEF NodeStream
<1>2. QED BY <1>1, TableList, EdgeList DEF Trees

LEMMA SecondaryList == Secondary \subseteq Trees
<1>1. /\ DOMAIN NodeFields = {"label", "keyid", "numeric", "text"}
      /\ DOMAIN EdgeFields = EdgeNames
  BY DEF NodeFields, EdgeFields, EdgeNames
<1>2. QED BY <1>1, TreeList DEF Secondary

LEMMA IndexList ==
  /\ Range(IndexOrder) \subseteq Trees
  /\ Range(SubSeq(IndexOrder, 1, 7)) \subseteq Trees
<1>1. \A i \in 1 .. 4 : EdgeIndexes[i] \in Trees
  BY TreeList DEF EdgeNames, EdgeIndexes
<1>2. /\ EdgeIndexes \in Seq(Trees) /\ Len(EdgeIndexes) = 4
      /\ <<"label", "keyid", "text", "numeric">> \in Seq(Trees)
      /\ Len(<<"label", "keyid", "text", "numeric">>) = 4
  BY <1>1, TreeList DEF EdgeIndexes
<1> DEFINE last == <<"label", "keyid", "text", "numeric">>
<1> HIDE DEF last
<1>3. /\ IndexOrder \in Seq(Trees) /\ Len(IndexOrder) = 8
      /\ Range(IndexOrder) \subseteq Trees
  <2>1. IndexOrder = EdgeIndexes \o last
    BY DEF IndexOrder, last
  <2>2. last \in Seq(Trees) /\ Len(last) = 4
    BY <1>2 DEF last
  <2>3. /\ EdgeIndexes \o last \in Seq(Trees)
        /\ Len(EdgeIndexes \o last) = Len(EdgeIndexes) + Len(last)
    <3>1. EdgeIndexes \in Seq(Trees) /\ last \in Seq(Trees)
      BY <1>2, <2>2
    <3>2. QED BY <3>1, ConcatProperties, Zenon
  <2>4. IndexOrder \in Seq(Trees) /\ Len(IndexOrder) = 8
    BY <1>2, <2>1, <2>2, <2>3
  <2>5. \A i \in 1 .. Len(IndexOrder) : IndexOrder[i] \in Trees
    BY <2>4, ElementOfSeq, Zenon
  <2>6. DOMAIN IndexOrder = 1 .. Len(IndexOrder)
    BY <2>4
  <2>7. QED BY <2>4, <2>5, <2>6 DEF Range
<1>4. SubSeq(IndexOrder, 1, 7) \in Seq(Trees)
  <2>1. \A i \in 1 .. Len(IndexOrder) : IndexOrder[i] \in Trees
    BY <1>3, ElementOfSeq, Zenon
  <2>2. \A i \in 1 .. 7 : IndexOrder[i] \in Trees
    BY <1>3, <2>1
  <2>3. QED BY <2>2, SubSeqProperties
<1>5. \A q \in Seq(Trees) : Range(q) \subseteq Trees
  BY ElementOfSeq DEF Range
<1>6. QED BY <1>3, <1>4, <1>5

\* Which streams and indexes there are, before and after a step.
LEMMA StreamList ==
  /\ Range(NodeStreams) = StreamsWith(tuples.numeric)
  /\ Range(NodeStreams)' = StreamsWith(tuples.numeric)'
  /\ Range(NodeIndexes) = IndexesWith(tuples.numeric)
  /\ Range(NodeIndexes)' = IndexesWith(tuples.numeric)'
<1>1. /\ Range(<<"node", "property", "text">>) = {"node", "property", "text"}
      /\ Range(<<"node", "property", "numeric", "text">>) = {"node", "property", "numeric", "text"}
      /\ Range(<<"label", "keyid", "text">>) = {"label", "keyid", "text"}
      /\ Range(<<"label", "keyid", "numeric", "text">>) = {"label", "keyid", "numeric", "text"}
  BY DEF Range
<1>2. QED BY <1>1 DEF NodeStreams, NodeIndexes, StreamsWith, IndexesWith

\* NodesSorted in terms of the sorts alone.
LEMMA SortedList ==
  /\ NodesSorted <=> SortedWith(sort, tuples.numeric)
  /\ NodesSorted' <=> SortedWith(sort, tuples.numeric)'
BY StreamList DEF NodesSorted, AllOk, SortedWith

\* Which sorts a sort that succeeds is followed by.
LEMMA FollowingList ==
  ASSUME NEW s \in Streams
  PROVE  /\ s = "edge" => Following(s) = {}
         /\ InTurn /\ s = "node" => Following(s) = {"property"}
         /\ InTurn /\ s = "property" =>
              Following(s) = IF tuples.numeric = None THEN {"text"} ELSE {"numeric"}
         /\ InTurn /\ s = "numeric" =>
              Following(s) = IF tuples.numeric = None THEN {} ELSE {"text"}
         /\ InTurn /\ s = "text" => Following(s) = {}
         /\ ~InTurn /\ s = "node" => Following(s) = StreamsWith(tuples.numeric) \ {"node"}
         /\ ~InTurn /\ s # "node" => Following(s) = {}
<1> DEFINE After(q, x) == {q[i] : i \in {j \in 2 .. Len(q) : q[j - 1] = x}}
<1> DEFINE three == <<"node", "property", "text">>
           four  == <<"node", "property", "numeric", "text">>
<1>1. /\ After(three, "node") = {"property"} /\ After(three, "property") = {"text"}
      /\ After(three, "text") = {} /\ After(three, "numeric") = {}
  <2>1. Len(three) = 3 /\ three[1] = "node" /\ three[2] = "property" /\ three[3] = "text"
    OBVIOUS
  <2>2. 2 .. 3 = {2, 3}
    OBVIOUS
  <2> HIDE DEF three
  <2>3. QED BY <2>1, <2>2
<1>2. /\ After(four, "node") = {"property"} /\ After(four, "property") = {"numeric"}
      /\ After(four, "numeric") = {"text"} /\ After(four, "text") = {}
  <2>1. /\ Len(four) = 4 /\ four[1] = "node" /\ four[2] = "property"
        /\ four[3] = "numeric" /\ four[4] = "text"
    OBVIOUS
  <2>2. 2 .. 4 = {2, 3, 4}
    OBVIOUS
  <2> HIDE DEF four
  <2>3. QED BY <2>1, <2>2
<1>3. /\ Range(Tail(three)) = {"property", "text"}
      /\ Range(Tail(four)) = {"property", "numeric", "text"}
  <2>1. Tail(three) = <<"property", "text">> /\ Tail(four) = <<"property", "numeric", "text">>
    OBVIOUS
  <2>2. QED BY <2>1 DEF Range
<1>4. NodeStreams = IF tuples.numeric = None THEN three ELSE four
  BY DEF NodeStreams
<1>5. s \in {"node", "property", "numeric", "text", "edge"}
  BY DEF Streams
<1>6. /\ s = "edge" => Following(s) = {}
      /\ s # "edge" /\ InTurn => Following(s) = After(NodeStreams, s)
      /\ ~InTurn /\ s = "node" => Following(s) = Range(Tail(NodeStreams))
      /\ ~InTurn /\ s # "node" => Following(s) = {}
  BY DEF Following
<1> HIDE DEF After, three, four
<1>7. ~InTurn /\ s = "node" => Following(s) = StreamsWith(tuples.numeric) \ {"node"}
  BY <1>3, <1>4, <1>6 DEF StreamsWith
<1>8. QED BY <1>1, <1>2, <1>4, <1>5, <1>6, <1>7

\* A writer is followed by the writer of a table, and by none in a large
\* import.
LEMMA NextTableList ==
  ASSUME NEW t
  PROVE  NextTable(t) \subseteq TableNames /\ (Dynamic => NextTable(t) = {})
<1>1. \A i \in 1 .. 5 : Tables[i] \in TableNames
  BY TableList DEF Range
<1>2. QED BY <1>1, TableList DEF NextTable

-----------------------------------------------------------------------------
(* Memory.                                                                  *)

\* The shares of the node sorts that run side by side add up to the grant.
LEMMA SharesFit ==
  ASSUME NEW m \in Nat, ~(NodeBudgets(m).property < 6)
  PROVE  /\ NodeBudgets(m).property \in Nat
         /\ NodeBudgets(m).numeric \in Nat
         /\ NodeBudgets(m).text \in Nat
         /\ NodeBudgets(m).property + NodeBudgets(m).numeric + NodeBudgets(m).text <= m
<1> DEFINE there == tuples.numeric # None
           n == IF there THEN 3 ELSE 2
           w == IF there THEN 15 ELSE 11
           small == IF m \div n = 0 THEN 1 ELSE m \div n
           large == (m \div w) * 4 + ((m % w) * 4) \div w
           share == IF m < 192 THEN small ELSE large
<1>1. /\ NodeBudgets(m).property = share
      /\ NodeBudgets(m).numeric = IF there THEN share ELSE 0
      /\ NodeBudgets(m).text = IF m < 192 THEN share ELSE m - share * (n - 1)
  BY DEF NodeBudgets
<1>2. CASE m < 192
  <2>1. /\ m \div 3 \in Nat /\ 3 * (m \div 3) <= m
        /\ m \div 2 \in Nat /\ 2 * (m \div 2) <= m
    OBVIOUS
  <2>2. share \in Nat /\ share >= 6 /\ share = small
    BY <1>1, <1>2, <2>1
  <2>3. m \div n = share
    BY <2>2
  <2>4. n * share <= m
    BY <2>1, <2>3
  <2> HIDE DEF share
  <2>5. QED BY <1>1, <1>2, <2>2, <2>4
<1>3. CASE ~(m < 192)
  <2>1. \A d \in {11, 15} : /\ m \div d \in Nat /\ m % d \in 0 .. d - 1
                            /\ m = d * (m \div d) + (m % d)
    <3>1. /\ m \div 11 \in Nat /\ m % 11 \in 0 .. 10 /\ m = 11 * (m \div 11) + (m % 11)
      OBVIOUS
    <3>2. /\ m \div 15 \in Nat /\ m % 15 \in 0 .. 14 /\ m = 15 * (m \div 15) + (m % 15)
      OBVIOUS
    <3>3. QED BY <3>1, <3>2
  <2>2. \A d \in {11, 15} : \A r \in 0 .. d - 1 : (r * 4) \div d \in 0 .. 3
    OBVIOUS
  <2>3. w \in {11, 15} /\ m \div w \in Nat /\ m = w * (m \div w) + (m % w)
    BY <2>1
  <2>4. ((m % w) * 4) \div w \in 0 .. 3
    BY <2>1, <2>2
  <2> DEFINE q == m \div w
             c == ((m % w) * 4) \div w
  <2>5. share = q * 4 + c
    BY <1>3
  <2>6. m % w \in 0 .. w - 1
    BY <2>1
  <2>7. w * q <= m
    <3>1. CASE w = 11
      BY <2>3, <2>6, <3>1
    <3>2. CASE w = 15
      BY <2>3, <2>6, <3>2
    <3>3. QED BY <2>3, <3>1, <3>2
  <2>8. m < w * (q + 1)
    <3>1. CASE w = 11
      BY <2>3, <2>6, <3>1
    <3>2. CASE w = 15
      BY <2>3, <2>6, <3>2
    <3>3. QED BY <2>3, <3>1, <3>2
  <2> HIDE DEF q, c, share
  <2>9. q \in Nat /\ c \in 0 .. 3
    BY <2>3, <2>4 DEF q, c
  <2>10. share \in Nat /\ share * 2 <= m
    <3>1. CASE w = 11
      BY <1>3, <2>5, <2>7, <2>8, <2>9, <3>1
    <3>2. CASE w = 15
      BY <1>3, <2>5, <2>7, <2>8, <2>9, <3>2
    <3>3. QED BY <2>3, <3>1, <3>2
  <2>11. CASE there
    BY <1>1, <1>3, <2>10, <2>11
  <2>12. CASE ~there
    BY <1>1, <1>3, <2>10, <2>12
  <2>13. QED BY <2>11, <2>12
<1>4. QED BY <1>2, <1>3

\* start_node_sort is given no more than what the map beside it leaves.
LEMMA GrantFits ==
  ASSUME budget \in Nat, map \in Nat \X BOOLEAN, Indexed
  PROVE  /\ SortMemory \in Nat /\ 6 <= SortMemory
         /\ BackgroundMemory \in 6 .. SortMemory
         /\ BackgroundMemory + Reserve <= SortMemory \/ BackgroundMemory = 6
<1>1. map[1] \in Nat /\ map[2] \in BOOLEAN
  OBVIOUS
<1>2. CASE budget < 512
  BY <1>2 DEF Indexed, SortMemory, BackgroundMemory, Reserve
<1>3. CASE ~(budget < 512)
  <2>1. SortMemory = 264
    BY <1>3 DEF SortMemory
  <2> DEFINE large == Less(map[1], 32)
             cache == IF map[2] THEN Least2(budget \div 8, 64) ELSE 0
             beside == Less(264, large)
             cached == IF map[2] THEN Less(beside, Least2(budget \div 8, 64)) ELSE beside
  <2>2. Reserve = large + cache
    BY <1>3 DEF Reserve
  <2>3. BackgroundMemory = IF cached < 6 THEN 6 ELSE cached
    BY <1>3, <2>1 DEF BackgroundMemory
  <2>4. large \in Nat /\ cache \in Nat /\ beside = IF 264 > large THEN 264 - large ELSE 0
    BY <1>1, <1>3 DEF Less, Least2
  <2>5. cached = IF beside > cache THEN beside - cache ELSE 0
    BY <1>1, <1>3, <2>4 DEF Less, Least2
  <2> HIDE DEF large, cache, beside, cached
  <2>6. QED BY <2>1, <2>2, <2>3, <2>4, <2>5
<1>4. QED BY <1>2, <1>3

-----------------------------------------------------------------------------
(* Steps that leave the threads and the spools alone.                       *)

LEMMA StepList ==
  /\ Range(Steps) = {"commit", "schema", "statistics", "validate", "checkpoint", "leaving"}
  /\ \A p \in Range(Steps) \ {"leaving"} : AfterStep(p) \in Range(Steps)
<1>1. /\ DOMAIN Steps = 1 .. 6 /\ Steps[1] = "commit" /\ Steps[2] = "schema"
      /\ Steps[3] = "statistics" /\ Steps[4] = "validate"
      /\ Steps[5] = "checkpoint" /\ Steps[6] = "leaving"
  BY DEF Steps
<1>2. Range(Steps) = {"commit", "schema", "statistics", "validate", "checkpoint", "leaving"}
  BY <1>1 DEF Range
<1>3. ASSUME NEW p \in Range(Steps) \ {"leaving"}
      PROVE  AfterStep(p) \in Range(Steps)
  <2>1. PICK i \in 1 .. 6 : Steps[i] = p
    BY <1>1 DEF Range
  <2> DEFINE c == CHOOSE j \in DOMAIN Steps : Steps[j] = p
  <2>2. c \in 1 .. 6 /\ Steps[c] = p
    BY <1>1, <2>1
  <2> HIDE DEF c
  <2>3. c \in 1 .. 5
    BY <1>1, <2>2
  <2>4. 1 + c \in DOMAIN Steps
    BY <1>1, <2>3
  <2>5. AfterStep(p) = Steps[1 + c]
    BY DEF AfterStep, c
  <2>6. QED BY <2>4, <2>5 DEF Range
<1>4. QED BY <1>2, <1>3

\* The phases before and after the build.
LEMMA PhaseSets ==
  /\ Loading = {"load", "dropping", "finish"}
  /\ Late = {"commit", "schema", "statistics", "validate", "checkpoint", "leaving", "ended"}
BY StepList DEF Loading, Late

\* No thread runs, spelled out.
LEMMA NoneRuns ==
  /\ Running = {} <=> /\ \A s \in Streams : sort[s] # "running"
                      /\ \A t \in Trees : write[t] # "running"
  /\ Running' = {} <=> /\ \A s \in Streams : sort'[s] # "running"
                       /\ \A t \in Trees : write'[t] # "running"
BY DEF Running

\* A step that leaves threads, spools and memory alone keeps the invariant.
LEMMA QuietStep ==
  ASSUME BuildInv,
         UNCHANGED <<graph, left, budget, map, tuples, grant, sort, write>>,
         phase' \in Loading => phase \in Loading,
         phase' = "load" => phase = "load",
         phase' \in Late => Running = {}
  PROVE  SpoolsAt' /\ ThreadsAt' /\ GrantAt'
<1>1. /\ (NodesSorted' <=> NodesSorted) /\ (InTurn' <=> InTurn) /\ (Dynamic' <=> Dynamic)
      /\ (Started' <=> Started) /\ (Indexed' <=> Indexed) /\ Running' = Running
      /\ Range(NodeIndexes)' = Range(NodeIndexes) /\ SortMemory' = SortMemory
      /\ Reserve' = Reserve /\ Loading' = Loading /\ Late' = Late
  BY DEF NodesSorted, NodeStreams, NodeIndexes, InTurn, NodeBudgets, Dynamic, Started, Indexed,
         Running, SortMemory, Reserve, Loading, Late
<1>2. SpoolsAt /\ ThreadsAt /\ GrantAt
  BY DEF BuildInv
<1>3. SpoolsAt'
  BY <1>1, <1>2 DEF SpoolsAt
<1>4. ThreadsAt'
  BY <1>1, <1>2 DEF ThreadsAt
<1>5. GrantAt'
  BY <1>1, <1>2 DEF GrantAt
<1>6. QED BY <1>3, <1>4, <1>5

LEMMA LoadFailsInv ==
  ASSUME BuildInv, LoadFails
  PROVE  BuildInv'
<1>1. phase = "load" /\ phase' = "dropping"
  BY DEF LoadFails, Drop
<1>2. UNCHANGED <<graph, left, budget, map, tuples, grant, sort, write, place, pages, cleaner, result>>
  BY DEF LoadFails, stores, disk, threads
<1>3. SpoolsAt' /\ ThreadsAt' /\ GrantAt'
  BY <1>1, <1>2, QuietStep, PhaseSets
<1>4. TypeOK'
  BY <1>1, <1>2 DEF BuildInv, TypeOK, Range
<1>5. FilesAt' /\ RootsAt'
  BY <1>1, <1>2, PhaseSets DEF BuildInv, FilesAt, RootsAt, Range
<1>6. QED BY <1>3, <1>4, <1>5 DEF BuildInv

LEMMA DroppedInv ==
  ASSUME BuildInv, Dropped
  PROVE  BuildInv'
<1>1. phase = "dropping" /\ phase' = "ended" /\ Running = {} /\ files' = {} /\ result' = "error"
  BY DEF Dropped
<1>2. UNCHANGED <<graph, left, budget, map, tuples, grant, sort, write, place, pages, cleaner>>
  BY DEF Dropped, stores, disk, threads
<1>3. SpoolsAt' /\ ThreadsAt' /\ GrantAt'
  BY <1>1, <1>2, QuietStep, PhaseSets
<1>4. TypeOK'
  BY <1>1, <1>2 DEF BuildInv, TypeOK, Range
<1>5. FilesAt' /\ RootsAt'
  BY <1>1, <1>2, PhaseSets DEF BuildInv, FilesAt, RootsAt, Range
<1>6. QED BY <1>3, <1>4, <1>5 DEF BuildInv

LEMMA CleanerEndsInv ==
  ASSUME BuildInv, CleanerEnds
  PROVE  BuildInv'
<1>1. cleaner = "running" /\ cleaner' = "ended" /\ files' = {}
  BY DEF CleanerEnds
<1>2. /\ UNCHANGED <<graph, left, budget, map, tuples, grant, sort, write, place, pages>>
      /\ phase' = phase /\ result' = result
  BY DEF CleanerEnds, stores, disk
<1>3. phase \in Late
  BY <1>1 DEF BuildInv, FilesAt
<1>4. Running = {}
  BY <1>3 DEF BuildInv, ThreadsAt
<1>5. SpoolsAt' /\ ThreadsAt' /\ GrantAt'
  BY <1>2, <1>4, QuietStep
<1>6. TypeOK'
  BY <1>1, <1>2 DEF BuildInv, TypeOK, Range
<1>7. FilesAt' /\ RootsAt'
  BY <1>1, <1>2, <1>3, PhaseSets DEF BuildInv, FilesAt, RootsAt, Range
<1>8. QED BY <1>5, <1>6, <1>7 DEF BuildInv

LEMMA LeaveInv ==
  ASSUME BuildInv, Leave
  PROVE  BuildInv'
<1>1. phase = "leaving" /\ cleaner = "ended" /\ phase' = "ended"
  BY DEF Leave
<1>2. UNCHANGED <<graph, left, budget, map, tuples, grant, sort, write, place, pages, cleaner,
                  files, result>>
  BY DEF Leave, stores, disk, threads
<1>3. Running = {}
  BY <1>1, PhaseSets DEF BuildInv, ThreadsAt
<1>4. SpoolsAt' /\ ThreadsAt' /\ GrantAt'
  BY <1>1, <1>2, <1>3, QuietStep, PhaseSets
<1>5. TypeOK'
  BY <1>1, <1>2 DEF BuildInv, TypeOK, Range
<1>6. FilesAt' /\ RootsAt'
  BY <1>1, <1>2, PhaseSets DEF BuildInv, FilesAt, RootsAt, Range
<1>7. QED BY <1>4, <1>5, <1>6 DEF BuildInv

\* Join and SealFails: the build is over.
LEMMA BuildOver ==
  ASSUME BuildInv, Joined,
         \/ phase' = "commit" /\ cleaner' = "running" /\ result' = result
         \/ GiveUp,
         UNCHANGED <<graph, left, budget, map, stores, disk, sort, grant, write>>
  PROVE  BuildInv'
<1>1. phase = "build" /\ Running = {}
  BY DEF Joined
<1>2. cleaner = "none"
  BY <1>1, PhaseSets DEF BuildInv, FilesAt
<1>3. \/ phase' = "commit" /\ cleaner' = "running" /\ result' = result
      \/ phase' = "ended" /\ cleaner' = "none" /\ files' = {} /\ result' = "error"
  BY <1>2 DEF GiveUp
<1>4. UNCHANGED <<graph, left, budget, map, tuples, grant, sort, write, place, pages>>
  BY DEF stores, disk
<1>5. SpoolsAt' /\ ThreadsAt' /\ GrantAt'
  BY <1>1, <1>3, <1>4, QuietStep, PhaseSets
<1>6. TypeOK'
  BY <1>3, <1>4, StepList DEF BuildInv, TypeOK, Range
<1>7. FilesAt' /\ RootsAt'
  BY <1>3, <1>4, PhaseSets DEF BuildInv, FilesAt, RootsAt, Range
<1>8. QED BY <1>5, <1>6, <1>7 DEF BuildInv

LEMMA JoinInv ==
  ASSUME BuildInv, Join
  PROVE  BuildInv'
<1>1. CASE AllOk(write, Wanted)
  BY <1>1, BuildOver DEF Join
<1>2. CASE ~AllOk(write, Wanted)
  BY <1>2, BuildOver DEF Join
<1>3. QED BY <1>1, <1>2

LEMMA SealFailsInv ==
  ASSUME BuildInv, SealFails
  PROVE  BuildInv'
BY BuildOver DEF SealFails

\* What the schema creates lies under roots of its own.
LEMMA BuildSchemaPlaces ==
  ASSUME BuildSchema, DOMAIN place \subseteq Trees
  PROVE  DOMAIN place' \subseteq Trees /\ DOMAIN pages' = Range(place')
<1>1. DOMAIN place' = DOMAIN place \cup (Secondary \ DOMAIN place)
  BY DEF BuildSchema
<1>2. DOMAIN pages' = Range(place')
  BY DEF BuildSchema
<1>3. QED BY <1>1, <1>2, SecondaryList

LEMMA FinishStepInv ==
  ASSUME BuildInv, FinishStep
  PROVE  BuildInv'
<1>1. phase \in Range(Steps) \ {"leaving"} /\ phase' = AfterStep(phase)
  BY DEF FinishStep
<1>2. UNCHANGED <<graph, left, budget, map, tuples, grant, sort, write, cleaner, files>>
  BY DEF FinishStep, stores, threads
<1>3. phase' \in Range(Steps)
  BY <1>1, StepList
<1>4. phase \in Late /\ phase' \in Late /\ phase' # "ended" /\ phase' \notin Loading
  BY <1>1, <1>3, StepList, PhaseSets
<1>5. Running = {}
  BY <1>4 DEF BuildInv, ThreadsAt
<1>6. phase' # "load"
  BY <1>4, PhaseSets
<1>7. SpoolsAt' /\ ThreadsAt' /\ GrantAt'
  BY <1>2, <1>4, <1>5, <1>6, QuietStep
<1>8. /\ result' \in {"none", "ok", "error"}
      /\ DOMAIN place' \subseteq Trees /\ DOMAIN pages' = Range(place')
  <2>1. /\ result \in {"none", "ok", "error"}
        /\ DOMAIN place \subseteq Trees /\ DOMAIN pages = Range(place)
    BY DEF BuildInv, TypeOK
  <2>2. CASE phase = "schema"
    <3>1. BuildSchema /\ result' = result
      BY <2>2 DEF FinishStep
    <3>2. QED BY <2>1, <3>1, BuildSchemaPlaces
  <2>3. CASE phase = "statistics"
    BY <2>1, <2>3 DEF FinishStep, Range
  <2>4. CASE phase = "checkpoint"
    BY <2>1, <2>4 DEF FinishStep, Range
  <2>5. CASE phase \notin {"schema", "statistics", "checkpoint"}
    BY <2>1, <2>5 DEF FinishStep, Range
  <2>6. QED BY <2>2, <2>3, <2>4, <2>5
<1>9. TypeOK'
  BY <1>2, <1>3, <1>8 DEF BuildInv, TypeOK
<1>10. FilesAt' /\ RootsAt'
  BY <1>2, <1>4 DEF BuildInv, FilesAt, RootsAt, Late, Loading
<1>11. QED BY <1>7, <1>9, <1>10 DEF BuildInv

LEMMA StepFailsInv ==
  ASSUME BuildInv, StepFails
  PROVE  BuildInv'
<1>1. UNCHANGED <<graph, left, budget, map, tuples, grant, sort, write, place, pages, cleaner>>
  BY DEF StepFails, stores, disk, threads
<1>2. CASE phase = "finish"
  <2>1. phase' = "dropping" /\ result' = result
    BY <1>2 DEF StepFails, Drop
  <2>2. SpoolsAt' /\ ThreadsAt' /\ GrantAt'
    BY <1>1, <1>2, <2>1, QuietStep, PhaseSets
  <2>3. TypeOK'
    BY <1>1, <2>1 DEF BuildInv, TypeOK, Range
  <2>4. FilesAt' /\ RootsAt'
    BY <1>1, <1>2, <2>1, PhaseSets DEF BuildInv, FilesAt, RootsAt, Range
  <2>5. QED BY <2>2, <2>3, <2>4 DEF BuildInv
<1>3. CASE phase # "finish"
  <2>1. phase \in Range(Steps) /\ phase' = "leaving" /\ result' = "error" /\ files' = files
    BY <1>3 DEF StepFails
  <2>2. phase \in Late /\ phase' \in Late /\ phase' # "ended"
    BY <2>1, StepList, PhaseSets
  <2>3. Running = {}
    BY <2>2 DEF BuildInv, ThreadsAt
  <2>4. SpoolsAt' /\ ThreadsAt' /\ GrantAt'
    BY <1>1, <2>1, <2>2, <2>3, QuietStep, PhaseSets
  <2>5. TypeOK'
    BY <1>1, <2>1, StepList DEF BuildInv, TypeOK, Range
  <2>6. FilesAt' /\ RootsAt'
    BY <1>1, <2>1, <2>2, PhaseSets DEF BuildInv, FilesAt, RootsAt, Range
  <2>7. QED BY <2>4, <2>5, <2>6 DEF BuildInv
<1>4. QED BY <1>2, <1>3

-----------------------------------------------------------------------------
(* Loading.                                                                 *)

LEMMA TableCount == Cardinality(TableNames) = 5
<1> DEFINE A == {"node"}
           B == A \cup {"edge"}
           C == B \cup {"node_property"}
           D == C \cup {"node_primary"}
<1>1. IsFiniteSet(A) /\ Cardinality(A) = 1
  BY FS_Singleton
<1>2. IsFiniteSet(B) /\ Cardinality(B) = 2
  BY <1>1, FS_AddElement
<1>3. IsFiniteSet(C) /\ Cardinality(C) = 3
  BY <1>2, FS_AddElement
<1>4. IsFiniteSet(D) /\ Cardinality(D) = 4
  BY <1>3, FS_AddElement
<1>5. Cardinality(D \cup {"edge_property"}) = 5
  BY <1>4, FS_AddElement
<1>6. TableNames = D \cup {"edge_property"}
  BY DEF TableNames
<1>7. QED BY <1>5, <1>6

\* VACUUM renumbers the roots among themselves.
LEMMA RepackRoots ==
  ASSUME RootsAt, phase \in Loading, Repack
  PROVE  DOMAIN place' = TableNames /\ Range(place') = 1 .. 5 /\ Range(place) = 1 .. 5
<1>1. DOMAIN place = TableNames /\ Range(place) = 1 .. 5
  BY TableList DEF RootsAt
<1>2. CASE place' = place
  BY <1>1, <1>2 DEF Range
<1>3. CASE place' # place
  <2>1. place' = [t \in DOMAIN place |-> (place[t] % Cardinality(DOMAIN place)) + 1]
    BY <1>3 DEF Repack, Moved
  <2>2. place' = [t \in TableNames |-> (place[t] % 5) + 1]
    BY <1>1, <2>1, TableCount
  <2>3. \A t \in TableNames : place[t] \in 1 .. 5
    BY <1>1 DEF Range
  <2>4. \A k \in 1 .. 5 : (k % 5) + 1 \in 1 .. 5
    OBVIOUS
  <2>5. Range(place') \subseteq 1 .. 5
    BY <2>2, <2>3, <2>4 DEF Range
  <2>6. ASSUME NEW k \in 1 .. 5
        PROVE  k \in Range(place')
    <3>1. PICK j \in 1 .. 5 : (j % 5) + 1 = k
      <4>1. CASE k = 1
        BY <4>1
      <4>2. CASE k # 1
        <5>1. k - 1 \in 1 .. 5 /\ ((k - 1) % 5) + 1 = k
          BY <4>2
        <5>2. QED BY <5>1
      <4>3. QED BY <4>1, <4>2
    <3>2. PICK t \in TableNames : place[t] = j
      BY <1>1 DEF Range
    <3>3. place'[t] = k
      BY <2>2, <3>1, <3>2
    <3>4. QED BY <2>2, <3>3 DEF Range
  <2>7. QED BY <1>1, <2>2, <2>5, <2>6
<1>4. QED BY <1>2, <1>3

-----------------------------------------------------------------------------
(* The properties of a row, one after the other.                             *)

\* One property of a node or of a relationship.
Added(kind, s, id, property) ==
  IF kind = "node" THEN PushNodeProperty(s, id, property)
  ELSE Own(s, "edge_property", <<id, property[1], property[2]>>)

\* What is stored after each property of a row.
AddedOneByOne(f, kind, s, id, properties) ==
  /\ f[0] = s
  /\ \A i \in 1 .. Len(properties) : f[i] = Added(kind, f[i - 1], id, properties[i])

AddsUpTo(f, k, kind, s, id, properties) ==
  f = [i \in 0 .. k |-> IF i = 0 THEN s ELSE Added(kind, f[i - 1], id, properties[i])]

LEMMA AddedUpTo ==
  ASSUME NEW kind, NEW s, NEW id, NEW properties, NEW k \in Nat
  PROVE  \E f : AddsUpTo(f, k, kind, s, id, properties)
<1> DEFINE Nth(i, f) == IF i = 0 THEN s ELSE Added(kind, f[i - 1], id, properties[i])
           T == {n \in Nat : \E f : f = [i \in 0 .. n |-> Nth(i, f)]}
<1>1. 0 \in T
  <2> DEFINE f == [i \in 0 .. 0 |-> s]
  <2>1. f = [i \in 0 .. 0 |-> Nth(i, f)]
    OBVIOUS
  <2> HIDE DEF f, Nth
  <2>2. QED BY <2>1
<1>2. ASSUME NEW n \in Nat, n \in T
      PROVE  n + 1 \in T
  <2>1. PICK f : f = [i \in 0 .. n |-> Nth(i, f)]
    BY <1>2
  <2> DEFINE last == Nth(n + 1, f)
             g == [i \in 0 .. n + 1 |-> IF i = n + 1 THEN last ELSE f[i]]
  <2>2. \A i \in 0 .. n : f[i] = Nth(i, f)
    <3> HIDE DEF Nth
    <3>1. QED BY <2>1
  <2>3. /\ \A i \in 0 .. n : g[i] = f[i]
        /\ g[n + 1] = last
        /\ g = [i \in 0 .. n + 1 |-> g[i]]
    <3> HIDE DEF last
    <3>1. QED OBVIOUS
  <2> HIDE DEF g
  <2>4. ASSUME NEW i \in 0 .. n + 1
        PROVE  g[i] = Nth(i, g)
    <3>1. CASE i = n + 1
      <4>1. i # 0 /\ i - 1 = n /\ n \in 0 .. n
        BY <3>1
      <4>2. g[i - 1] = f[i - 1]
        BY <2>3, <4>1
      <4>3. QED BY <2>3, <3>1, <4>1, <4>2
    <3>2. CASE i \in 0 .. n
      <4>1. i # 0 => i - 1 \in 0 .. n
        BY <3>2
      <4>2. i # 0 => g[i - 1] = f[i - 1]
        BY <2>3, <4>1
      <4>3. QED BY <2>2, <2>3, <3>2, <4>2
    <3>3. QED BY <3>1, <3>2
  <2> HIDE DEF Nth
  <2>5. g = [i \in 0 .. n + 1 |-> Nth(i, g)]
    BY <2>3, <2>4
  <2>6. QED BY <2>5
<1> HIDE DEF T, Nth
<1>3. Nat \subseteq T
  BY <1>1, <1>2, SetInduction
<1>4. QED BY <1>3 DEF T, Nth, AddsUpTo

\* A row and what is stored before its properties.
NodeAlone(s, row) ==
  LET id == Len(s.spools.node) + 1
  IN  [s EXCEPT !.spools.node = Append(@, <<id, row.label>>),
                !.tuples.node = IF Indexed THEN Append(@, <<id, row.label>>) ELSE @]

EdgeAlone(s, row) ==
  LET id == Len(s.spools.edge) + 1
  IN  [s EXCEPT !.spools.edge = Append(@, <<id, row.from, row.to, row.type>>),
                !.tuples.edge = IF Indexed THEN Append(@, <<row.from, row.to, row.type, id>>) ELSE @]

LEMMA PushNodeUnfolds ==
  ASSUME NEW s, NEW row, Len(row.properties) \in Nat
  PROVE  \E f : /\ AddedOneByOne(f, "node", NodeAlone(s, row), Len(s.spools.node) + 1, row.properties)
                /\ PushNode(s, row) = f[Len(row.properties)]
<1> DEFINE id == Len(s.spools.node) + 1
           one == NodeAlone(s, row)
           f == CHOOSE g : g = [i \in 0 .. Len(row.properties) |->
                  IF i = 0 THEN one ELSE PushNodeProperty(g[i - 1], id, row.properties[i])]
<1>1. PushNode(s, row) = f[Len(row.properties)]
  BY Zenon DEF PushNode, NodeAlone
<1>2. \E g : g = [i \in 0 .. Len(row.properties) |->
                    IF i = 0 THEN one ELSE Added("node", g[i - 1], id, row.properties[i])]
  <2> DEFINE properties == row.properties
             n == Len(properties)
  <2>1. n \in Nat
    OBVIOUS
  <2> HIDE DEF one, id, n, properties
  <2>2. \E g : AddsUpTo(g, n, "node", one, id, properties)
    BY <2>1, AddedUpTo, Zenon
  <2>3. QED BY <2>2, Zenon DEF n, properties, AddsUpTo
<1>3. f = [i \in 0 .. Len(row.properties) |->
             IF i = 0 THEN one ELSE PushNodeProperty(f[i - 1], id, row.properties[i])]
  <2> HIDE DEF one, id
  <2>1. \E g : g = [i \in 0 .. Len(row.properties) |->
                     IF i = 0 THEN one ELSE PushNodeProperty(g[i - 1], id, row.properties[i])]
    BY <1>2 DEF Added
  <2>2. QED BY <2>1, Zenon
<1> HIDE DEF f, one, id
<1>4. /\ f[0] = one
      /\ \A i \in 1 .. Len(row.properties) :
           f[i] = PushNodeProperty(f[i - 1], id, row.properties[i])
  BY <1>3
<1>5. AddedOneByOne(f, "node", one, id, row.properties)
  BY <1>4 DEF AddedOneByOne, Added
<1>6. QED BY <1>1, <1>5, Zenon DEF one, id

LEMMA PushEdgeUnfolds ==
  ASSUME NEW s, NEW row, Len(row.properties) \in Nat
  PROVE  \E f : /\ AddedOneByOne(f, "edge", EdgeAlone(s, row), Len(s.spools.edge) + 1, row.properties)
                /\ PushEdge(s, row) = f[Len(row.properties)]
<1> DEFINE id == Len(s.spools.edge) + 1
           one == EdgeAlone(s, row)
           f == CHOOSE g : g = [i \in 0 .. Len(row.properties) |->
                  IF i = 0 THEN one
                  ELSE Own(g[i - 1], "edge_property",
                           <<id, row.properties[i][1], row.properties[i][2]>>)]
<1>1. PushEdge(s, row) = f[Len(row.properties)]
  BY Zenon DEF PushEdge, EdgeAlone
<1>2. \E g : g = [i \in 0 .. Len(row.properties) |->
                    IF i = 0 THEN one ELSE Added("edge", g[i - 1], id, row.properties[i])]
  <2> DEFINE properties == row.properties
             n == Len(properties)
  <2>1. n \in Nat
    OBVIOUS
  <2> HIDE DEF one, id, n, properties
  <2>2. \E g : AddsUpTo(g, n, "edge", one, id, properties)
    BY <2>1, AddedUpTo, Zenon
  <2>3. QED BY <2>2, Zenon DEF n, properties, AddsUpTo
<1>3. f = [i \in 0 .. Len(row.properties) |->
             IF i = 0 THEN one
             ELSE Own(f[i - 1], "edge_property",
                      <<id, row.properties[i][1], row.properties[i][2]>>)]
  <2> HIDE DEF one, id
  <2>1. \E g : g = [i \in 0 .. Len(row.properties) |->
                     IF i = 0 THEN one
                     ELSE Own(g[i - 1], "edge_property",
                              <<id, row.properties[i][1], row.properties[i][2]>>)]
    BY <1>2 DEF Added
  <2>2. QED BY <2>1, Zenon
<1> HIDE DEF f, one, id
<1>4. f = [i \in 0 .. Len(row.properties) |->
             IF i = 0 THEN one ELSE Added("edge", f[i - 1], id, row.properties[i])]
  BY <1>3 DEF Added
<1>5. AddedOneByOne(f, "edge", one, id, row.properties)
  <2>1. \A i \in 0 .. Len(row.properties) :
          f[i] = IF i = 0 THEN one ELSE Added("edge", f[i - 1], id, row.properties[i])
    BY <1>4, Zenon
  <2>2. QED BY <2>1 DEF AddedOneByOne
<1>6. QED BY <1>1, <1>5, Zenon DEF one, id

IsStores(s) == s = [spools |-> s.spools, owned |-> s.owned, tuples |-> s.tuples]

\* The properties of a relationship change no tuple.
LEMMA OwnKeepsTuples ==
  ASSUME NEW s, IsStores(s),
         NEW name, NEW record
  PROVE  IsStores(Own(s, name, record)) /\ Own(s, name, record).tuples = s.tuples
<1> DEFINE r == Own(s, name, record)
           o == s.owned[name]
           longer == Append(o.records, record)
           flushed == Flushed(o, s.spools[name])
           begun == [owner |-> record[1], records |-> <<record>>]
<1>1. r = IF record[1] = o.owner THEN [s EXCEPT !.owned[name].records = longer]
          ELSE [s EXCEPT !.spools[name] = flushed, !.owned[name] = begun]
  BY DEF Own
<1> HIDE DEF r, longer, flushed, begun
<1>2. IsStores(r) /\ r.tuples = s.tuples
  <2>1. CASE record[1] = o.owner
    <3>1. r = [spools |-> s.spools, owned |-> [s.owned EXCEPT ![name].records = longer],
               tuples |-> s.tuples]
      BY <1>1, <2>1 DEF IsStores
    <3>2. QED BY <3>1 DEF IsStores
  <2>2. CASE record[1] # o.owner
    <3>1. r = [spools |-> [s.spools EXCEPT ![name] = flushed],
               owned |-> [s.owned EXCEPT ![name] = begun], tuples |-> s.tuples]
      BY <1>1, <2>2 DEF IsStores
    <3>2. QED BY <3>1 DEF IsStores
  <2>3. QED BY <2>1, <2>2
<1>3. QED BY <1>2, Zenon DEF r

LEMMA EdgeKeepsTuples ==
  ASSUME NEW s, IsStores(s),
         NEW row, Len(row.properties) \in Nat
  PROVE  PushEdge(s, row).tuples = EdgeAlone(s, row).tuples
<1> DEFINE id == Len(s.spools.edge) + 1
           one == EdgeAlone(s, row)
           n == Len(row.properties)
<1>1. PICK f : AddedOneByOne(f, "edge", one, id, row.properties) /\ PushEdge(s, row) = f[n]
  BY PushEdgeUnfolds
<1>2. IsStores(one)
  <2> DEFINE a == [s.spools EXCEPT !.edge = Append(@, <<id, row.from, row.to, row.type>>)]
             b == [s.tuples EXCEPT !.edge = IF Indexed THEN Append(@, <<row.from, row.to, row.type, id>>)
                                            ELSE @]
  <2>1. one = [s EXCEPT !.spools = a, !.tuples = b]
    BY DEF EdgeAlone
  <2> HIDE DEF one, a, b
  <2>2. one = [spools |-> a, owned |-> s.owned, tuples |-> b]
    BY <2>1 DEF IsStores
  <2>3. QED BY <2>2 DEF IsStores
<1> HIDE DEF one, id
<1> DEFINE T == {k \in Nat : k <= n => IsStores(f[k]) /\ f[k].tuples = one.tuples}
<1>3. 0 \in T
  BY <1>1, <1>2 DEF AddedOneByOne
<1>4. ASSUME NEW k \in Nat, k \in T
      PROVE  k + 1 \in T
  <2>1. SUFFICES ASSUME k + 1 <= n
                 PROVE  IsStores(f[k + 1]) /\ f[k + 1].tuples = one.tuples
    OBVIOUS
  <2> DEFINE p == row.properties[k + 1]
             record == <<id, p[1], p[2]>>
  <2>2. k + 1 \in 1 .. n /\ (k + 1) - 1 = k
    BY <2>1
  <2>3. f[k + 1] = Added("edge", f[k], id, p)
    <3>1. f[k + 1] = Added("edge", f[(k + 1) - 1], id, p)
      BY <1>1, <2>2, Zenon DEF AddedOneByOne
    <3>2. QED BY <2>2, <3>1, Zenon
  <2>4. f[k + 1] = Own(f[k], "edge_property", record)
    BY <2>3 DEF Added
  <2>5. IsStores(f[k]) /\ f[k].tuples = one.tuples
    BY <1>4, <2>1
  <2> HIDE DEF record
  <2>6. PICK v : v = f[k]
    OBVIOUS
  <2>7. IsStores(v) /\ v.tuples = one.tuples
    BY <2>5, <2>6, Zenon
  <2>8. IsStores(Own(v, "edge_property", record)) /\ Own(v, "edge_property", record).tuples = v.tuples
    BY <2>7, OwnKeepsTuples, Zenon
  <2>9. QED BY <2>4, <2>6, <2>7, <2>8, Zenon
<1> HIDE DEF T
<1>5. n \in T
  BY <1>3, <1>4, SetInduction
<1>6. f[n].tuples = one.tuples
  BY <1>5 DEF T
<1>7. QED BY <1>1, <1>6, Zenon DEF one

-----------------------------------------------------------------------------
(* Loading.                                                                  *)

\* The rows that are left once one is loaded.
LEMMA LeftFacts ==
  ASSUME SpoolsAt, left # <<>>, left' = Tail(left), graph' = graph
  PROVE  /\ left' \in Seq(Range(graph))'
         /\ \A i, j \in DOMAIN left' : i < j /\ left'[i].kind = "edge" => left'[j].kind = "edge"
         /\ Head(left).kind = "edge" => \A i \in DOMAIN left' : left'[i].kind = "edge"
         /\ Head(left) = left[1] /\ 1 \in DOMAIN left
<1>1. left \in Seq(Range(graph))
  BY DEF SpoolsAt
<1>2. /\ Head(left) = left[1] /\ Tail(left) \in Seq(Range(graph))
      /\ 1 \in DOMAIN left
      /\ \A i \in DOMAIN Tail(left) : i + 1 \in DOMAIN left /\ Tail(left)[i] = left[i + 1]
      /\ DOMAIN Tail(left) \subseteq Nat \ {0}
  BY <1>1
<1>3. \A i, j \in DOMAIN left : i < j /\ left[i].kind = "edge" => left[j].kind = "edge"
  BY DEF SpoolsAt
<1>4. \A i, j \in DOMAIN left' : i < j /\ left'[i].kind = "edge" => left'[j].kind = "edge"
  BY <1>2, <1>3
<1>5. Head(left).kind = "edge" => \A i \in DOMAIN left' : left'[i].kind = "edge"
  BY <1>2, <1>3
<1>6. left' \in Seq(Range(graph))'
  BY <1>2 DEF Range
<1>7. QED BY <1>2, <1>4, <1>5, <1>6

LEMMA RowsLeft ==
  ASSUME SpoolsAt, NEW i \in DOMAIN left
  PROVE  IsRow(left[i]) /\ Len(left[i].properties) \in Nat /\ left[i] \in Range(graph)
<1>1. left[i] \in Range(graph)
  BY DEF SpoolsAt
<1>2. PICK k \in DOMAIN graph : graph[k] = left[i]
  BY <1>1 DEF Range
<1>3. IsRow(left[i])
  BY <1>2, BulkBuildAssumption DEF SpoolsAt
<1>4. QED BY <1>1, <1>3 DEF IsRow

LEMMA LoadNodeInv ==
  ASSUME BuildInv, LoadNode
  PROVE  BuildInv'
<1>1. /\ phase = "load" /\ phase' = "load" /\ left # <<>> /\ Head(left).kind = "node"
      /\ left' = Tail(left)
  BY DEF LoadNode
<1>2. UNCHANGED <<graph, budget, map, sort, grant, write, place, pages, cleaner, result>>
  BY DEF LoadNode, disk, threads
<1>3. DOMAIN tuples' = Streams
  BY DEF LoadNode, Store
<1>4. SpoolsAt
  BY DEF BuildInv
<1>5. ~Started
  BY <1>1, <1>2, <1>4, LeftFacts DEF SpoolsAt
<1>6. ~Started'
  BY <1>2, <1>5 DEF Started
<1>7. SpoolsAt'
  BY <1>1, <1>2, <1>3, <1>4, <1>6, LeftFacts DEF SpoolsAt
<1>8. /\ \A t \in Trees : write[t] = "idle"
      /\ \A s \in Streams : sort[s] = "idle"
  BY <1>1, <1>5, PhaseSets DEF BuildInv, ThreadsAt
<1>9. IndexesWith(tuples.numeric)' \subseteq Trees /\ EdgeNames \subseteq Trees
  BY TreeList DEF IndexesWith
<1>10. ThreadsAt'
  BY <1>1, <1>2, <1>6, <1>8, <1>9, StreamList, EdgeList, PhaseSets DEF ThreadsAt, Streams
<1>11. GrantAt'
  BY <1>2, <1>6 DEF BuildInv, GrantAt
<1>12. TypeOK'
  BY <1>1, <1>2 DEF BuildInv, TypeOK, Range
<1>13. FilesAt' /\ RootsAt'
  BY <1>1, <1>2, PhaseSets DEF BuildInv, FilesAt, RootsAt, Range
<1>14. QED BY <1>7, <1>10, <1>11, <1>12, <1>13 DEF BuildInv

\* A relationship adds no tuple of a node property.
LEMMA PushEdgeTuples ==
  ASSUME DOMAIN tuples = Streams, NEW row, Len(row.properties) \in Nat,
         Store(PushEdge(Stores, row))
  PROVE  DOMAIN tuples' = Streams /\ tuples'.numeric = tuples.numeric
<1> DEFINE s == Stores
           p == PushEdge(s, row)
           id == Len(s.spools.edge) + 1
           b == [s.tuples EXCEPT !.edge = IF Indexed THEN Append(@, <<row.from, row.to, row.type, id>>)
                                          ELSE @]
<1>1. IsStores(s) /\ s.tuples = tuples
  BY DEF Stores, IsStores
<1>2. tuples' = [x \in Streams |-> p.tuples[x]]
  BY DEF Store
<1> HIDE DEF p, s
<1>3. p.tuples = EdgeAlone(s, row).tuples
  BY <1>1, EdgeKeepsTuples, Zenon DEF p
<1>4. EdgeAlone(s, row).tuples = b
  <2>1. EdgeAlone(s, row) = [s EXCEPT !.spools.edge = Append(@, <<id, row.from, row.to, row.type>>),
                                      !.tuples = b]
    BY DEF EdgeAlone
  <2> HIDE DEF b
  <2>2. QED BY <1>1, <2>1 DEF IsStores
<1> HIDE DEF b
<1>5. b["numeric"] = tuples["numeric"]
  BY <1>1 DEF b
<1>6. QED BY <1>2, <1>3, <1>4, <1>5 DEF Streams

LEMMA LoadEdgeInv ==
  ASSUME BuildInv, LoadEdge
  PROVE  BuildInv'
<1>1. /\ phase = "load" /\ phase' = "load" /\ left # <<>> /\ Head(left).kind = "edge"
      /\ left' = Tail(left)
  BY DEF LoadEdge
<1>2. UNCHANGED <<graph, budget, map, write, pages, cleaner, result>>
  BY DEF LoadEdge
<1>3. SpoolsAt /\ ThreadsAt /\ GrantAt /\ TypeOK /\ RootsAt /\ FilesAt
  BY DEF BuildInv
<1>4. DOMAIN tuples' = Streams /\ tuples'.numeric = tuples.numeric
  <2>1. DOMAIN tuples = Streams
    BY <1>3 DEF SpoolsAt
  <2>2. Len(Head(left).properties) \in Nat
    BY <1>1, <1>3, LeftFacts, RowsLeft DEF LoadEdge
  <2>3. Store(PushEdge(Stores, Head(left)))
    BY DEF LoadEdge
  <2>4. QED BY <2>1, <2>2, <2>3, PushEdgeTuples
<1>5. SpoolsAt'
  <2>1. \A i \in DOMAIN left' : left'[i].kind = "edge"
    BY <1>1, <1>2, <1>3, LeftFacts
  <2>2. QED BY <1>1, <1>2, <1>3, <1>4, <2>1, LeftFacts DEF SpoolsAt
<1>6. /\ (Indexed' <=> Indexed) /\ (Dynamic' <=> Dynamic) /\ SortMemory' = SortMemory
      /\ Reserve' = Reserve /\ Loading' = Loading /\ Late' = Late
  BY <1>2 DEF Indexed, Dynamic, SortMemory, Reserve, Loading, Late
<1>7. FilesAt'
  BY <1>1, <1>2, <1>3, PhaseSets DEF FilesAt
<1>8. \A t \in Trees : write[t] = "idle"
  BY <1>1, <1>3, PhaseSets DEF ThreadsAt
<1>9. IndexesWith(tuples.numeric)' \subseteq Trees /\ EdgeNames \subseteq Trees
  BY TreeList DEF IndexesWith
<1>10. CASE UNCHANGED <<place, grant, sort>>
  <2>1. /\ (NodesSorted' <=> NodesSorted) /\ (InTurn' <=> InTurn) /\ (Started' <=> Started)
    BY <1>4, <1>10 DEF NodesSorted, NodeStreams, InTurn, NodeBudgets, Started
  <2>2. ThreadsAt'
    BY <1>1, <1>2, <1>3, <1>4, <1>6, <1>8, <1>9, <1>10, <2>1, StreamList, EdgeList, PhaseSets
    DEF ThreadsAt
  <2>3. GrantAt'
    BY <1>1, <1>2, <1>3, <1>6, <1>10, <2>1 DEF GrantAt
  <2>4. TypeOK' /\ RootsAt'
    BY <1>1, <1>2, <1>3, <1>10, PhaseSets DEF TypeOK, RootsAt, Range
  <2>5. QED BY <1>5, <1>7, <2>2, <2>3, <2>4 DEF BuildInv
<1>11. CASE ~UNCHANGED <<place, grant, sort>>
  <2>1. /\ ~Started /\ Repack
        /\ IF Indexed THEN StartNodeSort(BackgroundMemory) ELSE UNCHANGED <<grant, sort>>
    BY <1>11 DEF LoadEdge
  <2>2. \A s \in Streams : sort[s] = "idle"
    BY <1>3, <2>1 DEF ThreadsAt
  <2>3. /\ \A s \in Streams : sort'[s] # "idle" => s = "node" /\ Started'
        /\ sort' \in [Streams -> States]
        /\ grant' \in Nat \cup {None}
        /\ Started' => /\ Indexed /\ grant' \in 6 .. SortMemory
                       /\ grant' + Reserve <= SortMemory \/ grant' = 6
    <3>1. CASE Indexed
      <4>1. grant' = BackgroundMemory /\ sort' = [sort EXCEPT !["node"] = "running"]
        BY <2>1, <3>1 DEF StartNodeSort
      <4>2. /\ SortMemory \in Nat /\ BackgroundMemory \in 6 .. SortMemory
            /\ BackgroundMemory + Reserve <= SortMemory \/ BackgroundMemory = 6
        BY <1>3, <3>1, GrantFits DEF GrantAt
      <4>3. BackgroundMemory \in Nat /\ BackgroundMemory # None
        BY <4>2, BulkBuildAssumption
      <4>4. sort' \in [Streams -> States]
        BY <1>3, <4>1 DEF TypeOK, States
      <4>5. \A s \in Streams : sort'[s] # "idle" => s = "node"
        BY <1>3, <2>2, <4>1 DEF TypeOK
      <4>6. Started'
        BY <4>1, <4>3 DEF Started
      <4>7. QED BY <3>1, <4>1, <4>2, <4>3, <4>4, <4>5, <4>6
    <3>2. CASE ~Indexed
      <4>1. grant' = grant /\ sort' = sort
        BY <2>1, <3>2
      <4>2. ~Started'
        BY <2>1, <4>1 DEF Started
      <4>3. QED BY <1>3, <2>2, <4>1, <4>2 DEF TypeOK
    <3>3. QED BY <3>1, <3>2
  <2>4. ThreadsAt'
    BY <1>1, <1>2, <1>8, <1>9, <2>3, StreamList, EdgeList, PhaseSets DEF ThreadsAt, Streams
  <2>5. GrantAt'
    BY <1>2, <1>3, <1>6, <2>3 DEF GrantAt
  <2>6. DOMAIN place' = TableNames /\ Range(place') = 1 .. 5 /\ Range(place) = 1 .. 5
    BY <1>1, <1>3, <2>1, RepackRoots, PhaseSets
  <2>7. RootsAt'
    BY <2>6, TableList DEF RootsAt
  <2>8. TypeOK'
    <3>1. DOMAIN place' \subseteq Trees /\ DOMAIN pages' = Range(place')
      BY <1>2, <1>3, <2>6, TreeList DEF TypeOK
    <3>2. QED BY <1>1, <1>2, <1>3, <2>3, <3>1 DEF TypeOK
  <2>9. QED BY <1>5, <1>7, <2>4, <2>5, <2>7, <2>8 DEF BuildInv
<1>12. QED BY <1>10, <1>11

LEMMA RepackLateInv ==
  ASSUME BuildInv, RepackLate
  PROVE  BuildInv'
<1>1. phase = "load" /\ phase' = "finish" /\ Repack
  BY DEF RepackLate
<1>2. UNCHANGED <<graph, left, budget, map, tuples, grant, sort, write, pages, cleaner, files, result>>
  BY DEF RepackLate, stores, threads
<1>3. SpoolsAt' /\ ThreadsAt' /\ GrantAt'
  BY <1>1, <1>2, QuietStep, PhaseSets
<1>4. DOMAIN place' = TableNames /\ Range(place') = 1 .. 5 /\ Range(place) = 1 .. 5
  BY <1>1, RepackRoots, PhaseSets DEF BuildInv
<1>5. RootsAt' /\ FilesAt'
  BY <1>1, <1>2, <1>4, TableList, PhaseSets DEF BuildInv, RootsAt, FilesAt
<1>6. TypeOK'
  <2>1. DOMAIN place' \subseteq Trees /\ DOMAIN pages' = Range(place')
    BY <1>2, <1>4, TreeList DEF BuildInv, TypeOK
  <2>2. QED BY <1>1, <1>2, <2>1 DEF BuildInv, TypeOK
<1>7. QED BY <1>3, <1>5, <1>6 DEF BuildInv

-----------------------------------------------------------------------------
(* materialize_body.                                                        *)

LEMMA CreateRootsPlaces ==
  ASSUME CreateRoots, DOMAIN place \subseteq Trees
  PROVE  DOMAIN place' \subseteq Trees
<1> DEFINE names == IF tuples.numeric = None THEN SubSeq(IndexOrder, 1, 7) ELSE IndexOrder
<1>1. DOMAIN place' = DOMAIN place \cup Range(names)
  BY DEF CreateRoots
<1>2. Range(names) \subseteq Trees
  BY IndexList
<1>3. QED BY <1>1, <1>2

LEMMA MaterializeInv ==
  ASSUME BuildInv, Materialize
  PROVE  BuildInv'
<1>1. phase = "finish" /\ phase' = "build"
  BY DEF Materialize
<1>2. UNCHANGED <<graph, left, budget, map, tuples, cleaner, files, result>>
  BY DEF Materialize
<1>3. SpoolsAt /\ ThreadsAt /\ GrantAt /\ TypeOK /\ RootsAt /\ FilesAt
  BY DEF BuildInv
<1>4. /\ (Indexed' <=> Indexed) /\ (Dynamic' <=> Dynamic) /\ SortMemory' = SortMemory
      /\ Reserve' = Reserve /\ Loading' = Loading /\ Late' = Late
  BY <1>2 DEF Indexed, Dynamic, SortMemory, Reserve, Loading, Late
<1>5. phase' \notin Loading /\ phase' \notin Late /\ phase' # "load"
  BY <1>1, PhaseSets
<1>6. /\ write' \in [Trees -> States]
      /\ \A t \in Trees : write'[t] # "idle" => t \in TableNames
  BY TableList DEF Materialize, States
<1>7. IndexesWith(tuples.numeric) \cap TableNames = {} /\ EdgeNames \cap TableNames = {}
  BY DEF IndexesWith, EdgeNames, TableNames
<1>8. IndexesWith(tuples.numeric) \subseteq Trees /\ EdgeNames \subseteq Trees
  BY TreeList DEF IndexesWith
<1>9. /\ \A t \in Range(NodeIndexes) : write'[t] = "idle"
      /\ \A t \in Range(EdgeIndexes) : write'[t] = "idle"
  BY <1>6, <1>7, <1>8, StreamList, EdgeList
<1>10. Range(NodeIndexes)' = Range(NodeIndexes)
  BY <1>2 DEF NodeIndexes
<1>11. SpoolsAt'
  BY <1>2, <1>3, <1>5 DEF SpoolsAt
<1>12. FilesAt' /\ RootsAt'
  BY <1>1, <1>2, <1>3, <1>5, PhaseSets DEF FilesAt, RootsAt
<1>13. DOMAIN place' \subseteq Trees /\ DOMAIN pages' = Range(place')
  <2>1. DOMAIN pages' = Range(place')
    BY DEF Materialize
  <2>2. DOMAIN place \subseteq Trees
    BY <1>3 DEF TypeOK
  <2>3. CASE Indexed
    BY <2>1, <2>2, <2>3, CreateRootsPlaces DEF Materialize
  <2>4. CASE ~Indexed
    BY <2>1, <2>2, <2>4 DEF Materialize
  <2>5. QED BY <2>3, <2>4
<1>14. CASE Indexed /\ ~Started
  <2>1. grant' = SortMemory /\ sort' = [sort EXCEPT !["node"] = "running"]
    BY <1>14 DEF Materialize, StartNodeSort
  <2>2. SortMemory \in Nat /\ 6 <= SortMemory
    BY <1>3, <1>14, GrantFits DEF GrantAt
  <2>3. \A s \in Streams : sort[s] = "idle"
    BY <1>3, <1>14 DEF ThreadsAt
  <2>4. /\ sort' \in [Streams -> States]
        /\ \A s \in Streams : sort'[s] # "idle" => s = "node"
    BY <1>3, <2>1, <2>3 DEF TypeOK, States
  <2>5. Started'
    BY <2>1, <2>2, BulkBuildAssumption DEF Started
  <2>6. ThreadsAt'
    BY <1>4, <1>5, <1>9, <1>10, <2>4, <2>5 DEF ThreadsAt, Streams
  <2>7. GrantAt'
    BY <1>2, <1>3, <1>4, <1>5, <1>14, <2>1, <2>2 DEF GrantAt
  <2>8. TypeOK'
    BY <1>1, <1>2, <1>3, <1>6, <1>13, <2>1, <2>2, <2>4 DEF TypeOK
  <2>9. QED BY <1>11, <1>12, <2>6, <2>7, <2>8 DEF BuildInv
<1>15. CASE ~(Indexed /\ ~Started)
  <2>1. UNCHANGED <<grant, sort>>
    BY <1>15 DEF Materialize
  <2>2. /\ (NodesSorted' <=> NodesSorted) /\ (InTurn' <=> InTurn) /\ (Started' <=> Started)
    BY <1>2, <2>1 DEF NodesSorted, NodeStreams, InTurn, NodeBudgets, Started
  <2>3. ThreadsAt'
    BY <1>2, <1>3, <1>4, <1>5, <1>9, <1>10, <2>1, <2>2 DEF ThreadsAt
  <2>4. GrantAt'
    BY <1>2, <1>3, <1>4, <1>5, <2>1, <2>2 DEF GrantAt
  <2>5. TypeOK'
    BY <1>1, <1>2, <1>3, <1>6, <1>13, <2>1 DEF TypeOK
  <2>6. QED BY <1>11, <1>12, <2>3, <2>4, <2>5 DEF BuildInv
<1>16. QED BY <1>14, <1>15

\* A sort ends: those that follow it begin, if it succeeded.
LEMMA SortedInv ==
  ASSUME BuildInv, NEW s \in Streams, NEW ok \in BOOLEAN, Sorted(s, ok),
         UNCHANGED <<graph, left, budget, map, stores, disk, grant, write, cleaner, phase, result>>
  PROVE  BuildInv'
<1> DEFINE n == tuples.numeric
<1>1. UNCHANGED <<graph, left, budget, map, tuples, grant, write, place, pages, cleaner, phase, result>>
  BY DEF stores, disk
<1>2. SpoolsAt /\ ThreadsAt /\ GrantAt /\ TypeOK /\ RootsAt /\ FilesAt
  BY DEF BuildInv
<1>3. sort[s] = "running"
  BY DEF Sorted
<1>4. /\ \A x \in Streams : sort'[x] = IF x = s THEN IF ok THEN "ok" ELSE "failed"
                                      ELSE IF ok /\ x \in Following(s) THEN "running" ELSE sort[x]
      /\ sort' \in [Streams -> States]
  <2>1. sort' = [x \in Streams |-> IF x = s THEN IF ok THEN "ok" ELSE "failed"
                                   ELSE IF ok /\ x \in Following(s) THEN "running" ELSE sort[x]]
    BY DEF Sorted
  <2>2. sort \in [Streams -> States]
    BY <1>2 DEF TypeOK
  <2>3. QED BY <2>1, <2>2 DEF States
<1>5. phase \notin Late
  BY <1>2, <1>3, NoneRuns DEF ThreadsAt
<1>6. Started
  BY <1>2, <1>3 DEF ThreadsAt
<1>7. /\ (InTurn' <=> InTurn) /\ (Started' <=> Started) /\ (Dynamic' <=> Dynamic)
      /\ (Indexed' <=> Indexed) /\ SortMemory' = SortMemory /\ Reserve' = Reserve
      /\ Range(NodeIndexes)' = Range(NodeIndexes) /\ Loading' = Loading /\ Late' = Late
  BY <1>1 DEF InTurn, NodeBudgets, Started, Dynamic, Indexed, SortMemory, Reserve, NodeIndexes,
              Loading, Late
<1>8. /\ NodesSorted <=> SortedWith(sort, n)
      /\ NodesSorted' <=> SortedWith(sort', n)
  BY <1>1, SortedList DEF SortedWith
\* Once the nodes are sorted it is the sort of the edges that ends.
<1>9. NodesSorted => s = "edge"
  BY <1>2, <1>3, <1>8 DEF SortedWith, StreamsWith, ThreadsAt, Streams
<1>10. NodesSorted => NodesSorted'
  <2>1. "edge" \notin StreamsWith(n) /\ StreamsWith(n) \subseteq Streams
    BY DEF StreamsWith, Streams
  <2>2. ASSUME NodesSorted, NEW x \in StreamsWith(n)
        PROVE  sort'[x] = "ok"
    BY <1>4, <1>8, <1>9, <2>1, <2>2, FollowingList DEF SortedWith
  <2>3. QED BY <1>8, <2>2 DEF SortedWith
<1>11. "edge" \notin Following(s)
  BY FollowingList DEF StreamsWith, Streams
<1>12. sort'["edge"] # "idle" => NodesSorted' /\ ~Dynamic
  <2>1. "edge" \in Streams
    BY DEF Streams
  <2>2. sort'["edge"] # "idle" => sort["edge"] # "idle"
    BY <1>3, <1>4, <1>11, <2>1
  <2>3. QED BY <1>2, <1>10, <2>2 DEF ThreadsAt
<1>13. \A x \in {"property", "numeric", "text"} : sort'[x] # "idle" => sort'["node"] = "ok"
  <2>1. "node" \in Streams /\ {"property", "numeric", "text"} \subseteq Streams
    BY DEF Streams
  <2>2. "node" \notin Following(s)
    BY FollowingList DEF StreamsWith, Streams
  <2>3. ASSUME NEW x \in {"property", "numeric", "text"}, sort'[x] # "idle"
        PROVE  sort'["node"] = "ok"
    <3>1. CASE s = "node"
      <4>1. sort[x] = "idle"
        BY <1>2, <1>3, <3>1 DEF ThreadsAt
      <4>2. ok
        BY <1>4, <2>1, <2>3, <3>1, <4>1
      <4>3. QED BY <1>4, <2>1, <3>1, <4>2
    <3>2. CASE s # "node"
      <4>1. sort["node"] = "ok"
        <5>1. CASE sort[x] # "idle"
          BY <1>2, <5>1 DEF ThreadsAt
        <5>2. CASE sort[x] = "idle" /\ x # s
          <6>1. x \in Following(s)
            BY <1>4, <2>1, <2>3, <5>2
          <6>2. s \in {"property", "numeric", "text"}
            BY <3>2, <6>1, FollowingList DEF Streams
          <6>3. QED BY <1>2, <1>3, <6>2 DEF ThreadsAt
        <5>3. QED BY <1>3, <5>1, <5>2
      <4>2. QED BY <1>4, <2>1, <2>2, <3>2, <4>1
    <3>3. QED BY <3>1, <3>2
  <2>4. QED BY <2>3
<1>14. sort'["numeric"] # "idle" => n # None
  <2>1. "numeric" \in Streams
    BY DEF Streams
  <2>2. CASE sort["numeric"] # "idle"
    BY <1>2, <2>2 DEF ThreadsAt
  <2>3. CASE sort["numeric"] = "idle"
    <3>1. sort'["numeric"] # "idle" => "numeric" \in Following(s)
      BY <1>3, <1>4, <2>1, <2>3
    <3>2. QED BY <3>1, FollowingList DEF StreamsWith, Streams
  <2>4. QED BY <2>2, <2>3
<1>15. InTurn =>
         /\ sort'["numeric"] # "idle" => sort'["property"] = "ok"
         /\ sort'["text"] # "idle" => sort'["property"] = "ok"
         /\ sort'["text"] # "idle" /\ n # None => sort'["numeric"] = "ok"
  <2> SUFFICES ASSUME InTurn
               PROVE  /\ sort'["numeric"] # "idle" => sort'["property"] = "ok"
                      /\ sort'["text"] # "idle" => sort'["property"] = "ok"
                      /\ sort'["text"] # "idle" /\ n # None => sort'["numeric"] = "ok"
    OBVIOUS
  <2>1. /\ sort["numeric"] # "idle" => sort["property"] = "ok"
        /\ sort["text"] # "idle" => sort["property"] = "ok"
        /\ sort["text"] # "idle" /\ n # None => sort["numeric"] = "ok"
        /\ \A x \in {"property", "numeric", "text"} : sort[x] # "idle" => sort["node"] = "ok"
        /\ sort["numeric"] # "idle" => n # None
    BY <1>2, <1>6 DEF ThreadsAt
  <2>2. /\ s = "edge" => Following(s) = {}
        /\ s = "node" => Following(s) = {"property"}
        /\ s = "property" => Following(s) = IF n = None THEN {"text"} ELSE {"numeric"}
        /\ s = "numeric" => Following(s) = IF n = None THEN {} ELSE {"text"}
        /\ s = "text" => Following(s) = {}
    BY FollowingList
  <2>3. /\ sort'["property"] = IF s = "property" THEN IF ok THEN "ok" ELSE "failed"
             ELSE IF ok /\ "property" \in Following(s) THEN "running" ELSE sort["property"]
        /\ sort'["numeric"] = IF s = "numeric" THEN IF ok THEN "ok" ELSE "failed"
             ELSE IF ok /\ "numeric" \in Following(s) THEN "running" ELSE sort["numeric"]
        /\ sort'["text"] = IF s = "text" THEN IF ok THEN "ok" ELSE "failed"
             ELSE IF ok /\ "text" \in Following(s) THEN "running" ELSE sort["text"]
    BY <1>4 DEF Streams
  <2> HIDE DEF n
  <2>4. CASE s = "edge"
    BY <2>1, <2>2, <2>3, <2>4
  <2>5. CASE s = "node"
    BY <1>3, <2>1, <2>2, <2>3, <2>5
  <2>6. CASE s = "property"
    BY <1>3, <2>1, <2>2, <2>3, <2>6
  <2>7. CASE s = "numeric"
    BY <1>3, <2>1, <2>2, <2>3, <2>7
  <2>8. CASE s = "text"
    BY <1>3, <2>1, <2>2, <2>3, <2>8
  <2>9. s \in {"node", "property", "numeric", "text", "edge"}
    BY DEF Streams
  <2>10. QED BY <2>4, <2>5, <2>6, <2>7, <2>8, <2>9
<1>16. ~(Dynamic /\ \E t \in Range(EdgeIndexes) : write[t] # "idle")
  BY <1>2, <1>3 DEF ThreadsAt
<1>17. ThreadsAt'
  <2>1. tuples.numeric' = n /\ write' = write /\ phase' = phase
    BY <1>1
  <2>2. Dynamic /\ (\E t \in Range(NodeIndexes) : write[t] # "idle") => NodesSorted'
    BY <1>2, <1>10 DEF ThreadsAt
  <2>3. phase \in Loading => \A t \in Trees : write[t] = "idle"
    BY <1>2 DEF ThreadsAt
  <2> HIDE DEF n
  <2>4. QED
    BY <1>5, <1>6, <1>7, <1>12, <1>13, <1>14, <1>15, <1>16, <2>1, <2>2, <2>3 DEF ThreadsAt
<1>18. SpoolsAt' /\ GrantAt' /\ RootsAt'
  <2>1. SpoolsAt'
    BY <1>1, <1>2, <1>7, ZenonT(60) DEF SpoolsAt, Range
  <2>2. GrantAt'
    BY <1>1, <1>2, <1>7, ZenonT(60) DEF GrantAt
  <2>3. RootsAt'
    BY <1>1, <1>2, <1>7, ZenonT(60) DEF RootsAt, Range
  <2>4. QED BY <2>1, <2>2, <2>3
<1>19. FilesAt'
  BY <1>1, <1>2, <1>5, <1>7, PhaseSets DEF FilesAt
<1>20. TypeOK'
  BY <1>1, <1>2, <1>4 DEF TypeOK, Range
<1>21. QED BY <1>17, <1>18, <1>19, <1>20 DEF BuildInv

LEMMA SortEdgesInv ==
  ASSUME BuildInv, SortEdges
  PROVE  BuildInv'
<1>1. /\ phase = "build" /\ Indexed /\ ~Dynamic /\ NodesSorted /\ sort["edge"] = "idle"
      /\ sort' = Spawn(sort, {"edge"})
  BY DEF SortEdges, MaySortEdges
<1>2. UNCHANGED <<graph, left, budget, map, tuples, grant, write, place, pages, cleaner, files,
                  phase, result>>
  BY DEF SortEdges, stores, disk
<1>3. SpoolsAt /\ ThreadsAt /\ GrantAt /\ TypeOK /\ RootsAt /\ FilesAt
  BY DEF BuildInv
<1>4. /\ sort' \in [Streams -> States]
      /\ \A s \in Streams : s # "edge" => sort'[s] = sort[s]
  BY <1>1, <1>3 DEF Spawn, TypeOK, States
<1>5. /\ \A s \in {"node", "property", "numeric", "text"} : s \in Streams /\ sort'[s] = sort[s]
      /\ StreamsWith(tuples.numeric) \subseteq {"node", "property", "numeric", "text"}
  BY <1>4 DEF Streams, StreamsWith
<1>6. NodesSorted'
  BY <1>1, <1>2, <1>5, SortedList DEF SortedWith
<1>7. /\ (InTurn' <=> InTurn) /\ (Started' <=> Started) /\ (Dynamic' <=> Dynamic)
      /\ (Indexed' <=> Indexed) /\ SortMemory' = SortMemory /\ Reserve' = Reserve
      /\ Range(NodeIndexes)' = Range(NodeIndexes) /\ Loading' = Loading /\ Late' = Late
  BY <1>2 DEF InTurn, NodeBudgets, Started, Dynamic, Indexed, SortMemory, Reserve, NodeIndexes,
              Loading, Late
<1>8. Started
  <2>1. sort["node"] = "ok"
    BY <1>1, SortedList DEF SortedWith, StreamsWith
  <2>2. QED BY <1>3, <2>1 DEF ThreadsAt, Streams
<1>9. phase \notin Late /\ phase \notin Loading
  BY <1>1, PhaseSets
<1>10. ThreadsAt'
  BY <1>1, <1>2, <1>3, <1>5, <1>6, <1>7, <1>8, <1>9 DEF ThreadsAt
<1>11. SpoolsAt' /\ GrantAt' /\ RootsAt' /\ FilesAt'
  BY <1>2, <1>3, <1>7 DEF SpoolsAt, GrantAt, RootsAt, FilesAt, Range
<1>12. TypeOK'
  BY <1>2, <1>3, <1>4 DEF TypeOK, Range
<1>13. QED BY <1>10, <1>11, <1>12 DEF BuildInv

\* The edge indexes of a large import are packed once the node sort has been joined.
LEMMA SortsJoined ==
  ASSUME BuildInv, MayPackEdges, NEW s \in Streams
  PROVE  sort[s] # "running"
<1>1. ThreadsAt /\ TypeOK
  BY DEF BuildInv
<1>2. Dynamic
  BY DEF MayPackEdges
<1>3. sort["edge"] = "idle"
  BY <1>1, <1>2 DEF ThreadsAt
<1>4. sort["numeric"] # "idle" => tuples.numeric # None
  BY <1>1 DEF ThreadsAt
<1>5. \A x \in StreamsWith(tuples.numeric) : sort[x] # "running"
  <2>1. CASE NodesRefused
    BY <2>1, StreamList DEF NodesRefused
  <2>2. CASE Finished(write, Range(NodeIndexes))
    <3>1. "label" \in Range(NodeIndexes)
      BY StreamList DEF IndexesWith
    <3>2. write["label"] # "idle"
      BY <2>2, <3>1 DEF Finished
    <3>3. NodesSorted
      BY <1>1, <1>2, <3>1, <3>2 DEF ThreadsAt
    <3>4. QED BY <3>3, SortedList DEF SortedWith
  <2>3. QED BY <2>1, <2>2 DEF MayPackEdges
<1>6. QED BY <1>3, <1>4, <1>5 DEF StreamsWith, Streams

LEMMA PackIndexesInv ==
  ASSUME BuildInv, PackIndexes
  PROVE  BuildInv'
<1>1. phase = "build"
  BY DEF PackIndexes
<1>2. UNCHANGED <<graph, left, budget, map, tuples, sort, grant, place, pages, cleaner, files,
                  phase, result>>
  BY DEF PackIndexes, stores, disk
<1>3. SpoolsAt /\ ThreadsAt /\ GrantAt /\ TypeOK /\ RootsAt /\ FilesAt
  BY DEF BuildInv
<1>4. /\ (NodesSorted' <=> NodesSorted) /\ (InTurn' <=> InTurn) /\ (Started' <=> Started)
      /\ (Dynamic' <=> Dynamic) /\ (Indexed' <=> Indexed) /\ SortMemory' = SortMemory
      /\ Reserve' = Reserve /\ Range(NodeIndexes)' = Range(NodeIndexes)
      /\ Loading' = Loading /\ Late' = Late
  BY <1>2 DEF NodesSorted, NodeStreams, InTurn, NodeBudgets, Started, Dynamic, Indexed,
              SortMemory, Reserve, NodeIndexes, Loading, Late
<1>5. PICK S : /\ write' = Spawn(write, S)
               /\ \/ MayPackNodes /\ S = Range(NodeIndexes)
                  \/ MayPackEdges /\ S = Range(EdgeIndexes)
                  \/ ~Dynamic
  BY DEF PackIndexes, MayPack
<1>6. /\ write' \in [Trees -> States]
      /\ \A t \in Trees : t \notin S => write'[t] = write[t]
  BY <1>3, <1>5 DEF Spawn, TypeOK, States
<1>7. /\ Range(NodeIndexes) = IndexesWith(tuples.numeric) /\ Range(EdgeIndexes) = EdgeNames
      /\ IndexesWith(tuples.numeric) \subseteq Trees /\ EdgeNames \subseteq Trees
      /\ IndexesWith(tuples.numeric) \cap EdgeNames = {}
  BY StreamList, EdgeList, TreeList DEF IndexesWith, EdgeNames
<1>8. Dynamic /\ (\E t \in Range(NodeIndexes) : write'[t] # "idle") => NodesSorted
  <2>1. ASSUME Dynamic, NEW t \in Range(NodeIndexes), write'[t] # "idle"
        PROVE  NodesSorted
    <3>1. CASE t \in S
      BY <1>5, <1>7, <2>1, <3>1 DEF MayPackNodes
    <3>2. CASE t \notin S
      <4>1. write[t] # "idle"
        BY <1>6, <1>7, <2>1, <3>2
      <4>2. QED BY <1>3, <2>1, <4>1 DEF ThreadsAt
    <3>3. QED BY <3>1, <3>2
  <2>2. QED BY <2>1
<1>9. Dynamic /\ (\E t \in Range(EdgeIndexes) : write'[t] # "idle") =>
        \A s \in Streams : sort[s] # "running"
  <2>1. ASSUME Dynamic, NEW t \in Range(EdgeIndexes), write'[t] # "idle", NEW s \in Streams
        PROVE  sort[s] # "running"
    <3>1. CASE t \in S
      BY <1>5, <1>7, <2>1, <3>1, SortsJoined
    <3>2. CASE t \notin S
      <4>1. write[t] # "idle"
        BY <1>6, <1>7, <2>1, <3>2
      <4>2. QED BY <1>3, <2>1, <4>1 DEF ThreadsAt
    <3>3. QED BY <3>1, <3>2
  <2>2. QED BY <2>1
<1>10. phase \notin Late /\ phase \notin Loading
  BY <1>1, PhaseSets
<1>11. ThreadsAt'
  BY <1>2, <1>3, <1>4, <1>8, <1>9, <1>10 DEF ThreadsAt
<1>12. SpoolsAt' /\ GrantAt' /\ RootsAt' /\ FilesAt'
  BY <1>2, <1>3, <1>4 DEF SpoolsAt, GrantAt, RootsAt, FilesAt, Range
<1>13. TypeOK'
  BY <1>2, <1>3, <1>6 DEF TypeOK, Range
<1>14. QED BY <1>11, <1>12, <1>13 DEF BuildInv

\* A writer ends: write_tables takes the next tree, if it succeeded.
LEMMA WrittenInv ==
  ASSUME BuildInv, NEW t \in Trees, NEW ok \in BOOLEAN, Written(t, ok),
         UNCHANGED <<graph, left, budget, map, tuples, place, sort, grant, cleaner, files,
                     phase, result>>,
         DOMAIN pages' = DOMAIN pages
  PROVE  BuildInv'
<1>1. SpoolsAt /\ ThreadsAt /\ GrantAt /\ TypeOK /\ RootsAt /\ FilesAt
  BY DEF BuildInv
<1>2. /\ (NodesSorted' <=> NodesSorted) /\ (InTurn' <=> InTurn) /\ (Started' <=> Started)
      /\ (Dynamic' <=> Dynamic) /\ (Indexed' <=> Indexed) /\ SortMemory' = SortMemory
      /\ Reserve' = Reserve /\ Range(NodeIndexes)' = Range(NodeIndexes)
      /\ Loading' = Loading /\ Late' = Late
  BY DEF NodesSorted, NodeStreams, InTurn, NodeBudgets, Started, Dynamic, Indexed,
         SortMemory, Reserve, NodeIndexes, Loading, Late
<1>3. write[t] = "running"
  BY DEF Written
<1>4. phase \notin Late /\ phase \notin Loading
  <2>1. phase \notin Late
    BY <1>1, <1>3, NoneRuns DEF ThreadsAt
  <2>2. QED BY <1>1, <1>3, <2>1 DEF ThreadsAt
<1>5. /\ write' \in [Trees -> States]
      /\ Dynamic => \A x \in Trees : write'[x] # "idle" => write[x] # "idle"
  <2>1. write' = [x \in Trees |-> IF x = t THEN IF ok THEN "ok" ELSE "failed"
                                  ELSE IF ok /\ x \in NextTable(t) THEN "running" ELSE write[x]]
    BY DEF Written
  <2>2. write \in [Trees -> States]
    BY <1>1 DEF TypeOK
  <2>3. Dynamic => NextTable(t) = {}
    BY NextTableList
  <2>4. QED BY <1>3, <2>1, <2>2, <2>3 DEF States
<1>6. Range(NodeIndexes) \subseteq Trees /\ Range(EdgeIndexes) \subseteq Trees
  BY StreamList, EdgeList, TreeList DEF IndexesWith
<1>7. ThreadsAt'
  BY <1>1, <1>2, <1>4, <1>5, <1>6 DEF ThreadsAt
<1>8. SpoolsAt' /\ GrantAt' /\ RootsAt' /\ FilesAt'
  BY <1>1, <1>2 DEF SpoolsAt, GrantAt, RootsAt, FilesAt, Range
<1>9. TypeOK'
  BY <1>1, <1>5 DEF TypeOK, Range
<1>10. QED BY <1>7, <1>8, <1>9 DEF BuildInv

-----------------------------------------------------------------------------
(* The invariant.                                                           *)

LEMMA InitInv ==
  ASSUME Init
  PROVE  BuildInv
<1>1. /\ graph \in Graphs /\ left = graph /\ phase = "load" /\ result = "none"
      /\ grant = None /\ cleaner = "none"
      /\ sort = [s \in Streams |-> "idle"] /\ write = [t \in Trees |-> "idle"]
      /\ tuples = [s \in Streams |-> <<>>] /\ place = roots
      /\ budget \in Budgets /\ map \in Maps
      /\ pages = [p \in Range(roots) |-> None]
  BY DEF Init
<1>2. ~Started
  BY <1>1 DEF Started
<1>3. SpoolsAt
  BY <1>1, <1>2, BulkBuildAssumption DEF SpoolsAt
<1>4. Range(NodeIndexes) \subseteq Trees /\ Range(EdgeIndexes) \subseteq Trees
  BY StreamList, EdgeList, TreeList DEF IndexesWith
<1>5. ThreadsAt
  BY <1>1, <1>2, <1>4, PhaseSets DEF ThreadsAt, Streams
<1>6. GrantAt
  BY <1>1, <1>2, BulkBuildAssumption DEF GrantAt
<1>7. FilesAt
  BY <1>1, PhaseSets DEF FilesAt
<1>8. DOMAIN place = TableNames /\ Range(place) = 1 .. 5
  <2>1. place = [t \in TableNames |-> CHOOSE i \in 1 .. 5 : Tables[i] = t]
    BY <1>1, TableList DEF Init
  <2>2. /\ Tables[1] = "node" /\ Tables[2] = "edge" /\ Tables[3] = "node_property"
        /\ Tables[4] = "node_primary" /\ Tables[5] = "edge_property"
    BY DEF Tables
  <2>3. /\ place["node"] = 1 /\ place["edge"] = 2 /\ place["node_property"] = 3
        /\ place["node_primary"] = 4 /\ place["edge_property"] = 5
    BY <2>1, <2>2 DEF TableNames
  <2>4. Range(place) = {place["node"], place["edge"], place["node_property"],
                        place["node_primary"], place["edge_property"]}
    BY <2>1 DEF Range, TableNames
  <2>5. 1 .. 5 = {1, 2, 3, 4, 5}
    OBVIOUS
  <2>6. Range(place) = {1, 2, 3, 4, 5}
    BY <2>3, <2>4
  <2>7. DOMAIN place = TableNames
    BY <2>1
  <2>8. QED BY <2>5, <2>6, <2>7
<1>9. RootsAt
  BY <1>8, TableList DEF RootsAt
<1>10. TypeOK
  BY <1>1, <1>8, TreeList DEF TypeOK, States
<1>11. QED BY <1>3, <1>5, <1>6, <1>7, <1>9, <1>10 DEF BuildInv

LEMMA StepInv ==
  ASSUME BuildInv, [Next]_vars
  PROVE  BuildInv'
<1>1. CASE Next
  <2>1. CASE LoadNode
    BY <2>1, LoadNodeInv
  <2>2. CASE LoadEdge
    BY <2>2, LoadEdgeInv
  <2>3. CASE Dropped
    BY <2>3, DroppedInv
  <2>4. CASE RepackLate
    BY <2>4, RepackLateInv
  <2>5. CASE Materialize
    BY <2>5, MaterializeInv
  <2>6. ASSUME NEW s \in Streams, SortEnds(s) \/ SortFails(s)
        PROVE  BuildInv'
    <3>1. CASE SortEnds(s)
      BY <3>1, SortedInv DEF SortEnds
    <3>2. CASE SortFails(s)
      BY <3>2, SortedInv DEF SortFails
    <3>3. QED BY <2>6, <3>1, <3>2
  <2>7. CASE SortEdges
    BY <2>7, SortEdgesInv
  <2>8. CASE PackIndexes
    BY <2>8, PackIndexesInv
  <2>9. ASSUME NEW t \in Trees, WriterEnds(t) \/ WriterFails(t)
        PROVE  BuildInv'
    <3>1. CASE WriterEnds(t)
      <4>1. Written(t, t \in Primary => Increasing(spools[t]))
        BY <3>1 DEF WriterEnds
      <4>2. DOMAIN pages' = DOMAIN pages
        BY <3>1 DEF WriterEnds
      <4>3. UNCHANGED <<graph, left, budget, map, tuples, place, sort, grant, cleaner, files,
                        phase, result>>
        BY <3>1 DEF WriterEnds, stores
      <4> DEFINE ok == t \in Primary => Increasing(spools[t])
      <4>4. ok \in BOOLEAN
        OBVIOUS
      <4>5. Written(t, ok)
        BY <4>1
      <4> HIDE DEF ok
      <4>6. QED BY <4>2, <4>3, <4>4, <4>5, WrittenInv
    <3>2. CASE WriterFails(t)
      <4>1. Written(t, FALSE)
        BY <3>2 DEF WriterFails
      <4>2. UNCHANGED <<graph, left, budget, map, tuples, place, sort, grant, cleaner, files,
                        phase, result, pages>>
        BY <3>2 DEF WriterFails, stores, disk
      <4>3. QED BY <4>1, <4>2, WrittenInv
    <3>3. QED BY <2>9, <3>1, <3>2
  <2>10. CASE Join
    BY <2>10, JoinInv
  <2>11. CASE CleanerEnds
    BY <2>11, CleanerEndsInv
  <2>12. CASE FinishStep
    BY <2>12, FinishStepInv
  <2>13. CASE Leave
    BY <2>13, LeaveInv
  <2>14. CASE LoadFails
    BY <2>14, LoadFailsInv
  <2>15. CASE SealFails
    BY <2>15, SealFailsInv
  <2>16. CASE StepFails
    BY <2>16, StepFailsInv
  <2>17. QED
    BY <1>1, <2>1, <2>2, <2>3, <2>4, <2>5, <2>6, <2>7, <2>8, <2>9, <2>10, <2>11, <2>12, <2>13,
       <2>14, <2>15, <2>16, Zenon DEF Next, Progress, Fault
<1>2. CASE UNCHANGED vars
  <2>1. UNCHANGED <<graph, left, budget, map, tuples, grant, sort, write, place, pages, cleaner,
                    files, phase, result>>
    BY <1>2 DEF vars, stores, disk, threads
  <2>2. SpoolsAt' /\ ThreadsAt' /\ GrantAt'
    <3>1. phase' \in Late => Running = {}
      BY <2>1 DEF BuildInv, ThreadsAt, Late
    <3>2. phase' \in Loading => phase \in Loading
      BY <2>1 DEF Loading
    <3>3. QED BY <2>1, <3>1, <3>2, QuietStep
  <2>3. TypeOK'
    BY <2>1 DEF BuildInv, TypeOK, Range
  <2>4. FilesAt' /\ RootsAt'
    BY <2>1, PhaseSets DEF BuildInv, FilesAt, RootsAt, Range
  <2>5. QED BY <2>2, <2>3, <2>4 DEF BuildInv
<1>3. QED BY <1>1, <1>2

(* Every import, whatever fails in it, keeps to the invariant: nodes come    *)
(* before relationships, sorts and writers begin in the order their joins    *)
(* allow, and nothing of the build runs once it is over (finish,             *)
(* materialize_body, SecondaryIndexes::prepare).                             *)
THEOREM BuildInvariant == Spec => []BuildInv
<1>1. Init => BuildInv
  BY InitInv
<1>2. BuildInv /\ [Next]_vars => BuildInv'
  BY StepInv
<1>3. QED BY <1>1, <1>2, PTL DEF Spec

(* When the import has a result, no thread of it runs and no spool file is   *)
(* left, whatever failed and wherever (SecondaryIndexes::drop, CleanupJob).  *)
THEOREM NothingLeft == Spec => []NothingOutlives
<1>1. BuildInv => NothingOutlives
  <2>1. ASSUME BuildInv, phase = "ended"
        PROVE  Running = {} /\ files = {} /\ cleaner # "running"
    BY <2>1, PhaseSets DEF BuildInv, ThreadsAt, FilesAt
  <2>2. ASSUME BuildInv, phase \in Range(Steps)
        PROVE  Running = {}
    BY <2>2 DEF BuildInv, ThreadsAt, Late
  <2>3. QED BY <2>1, <2>2 DEF NothingOutlives
<1>2. QED BY <1>1, BuildInvariant, PTL

\* Beside the sorts of the nodes nothing else has memory, and they keep to their grant.
LEMMA NodeSortsFit ==
  ASSUME BuildInv, \E s \in {"node", "property", "numeric", "text"} : sort[s] = "running"
  PROVE  /\ Started /\ sort["edge"] # "running" /\ EdgeShare = 0
         /\ Taken("node") + Taken("property") + Taken("numeric") + Taken("text") \in 0 .. grant
<1>1. ThreadsAt /\ GrantAt /\ TypeOK
  BY DEF BuildInv
<1>2. PICK r \in {"node", "property", "numeric", "text"} : sort[r] = "running"
  OBVIOUS
<1>3. Started
  BY <1>1, <1>2 DEF ThreadsAt, Streams
<1>4. sort["edge"] # "running"
  <2>1. SUFFICES ASSUME sort["edge"] = "running"
                 PROVE  FALSE
    OBVIOUS
  <2>2. SortedWith(sort, tuples.numeric)
    BY <1>1, <2>1, SortedList DEF ThreadsAt
  <2>3. r = "numeric" => tuples.numeric # None
    BY <1>1, <1>2 DEF ThreadsAt
  <2>4. QED BY <1>2, <2>2, <2>3 DEF SortedWith, StreamsWith
<1>5. EdgeShare = 0
  <2>1. ~(Dynamic /\ \E t \in Range(EdgeIndexes) : write[t] = "running")
    BY <1>1, <1>2 DEF ThreadsAt, Streams
  <2>2. QED BY <2>1 DEF EdgeShare
<1>6. grant \in Nat /\ 6 <= grant
  <2>1. SortMemory \in Nat
    BY <1>1, <1>3, GrantFits DEF GrantAt
  <2>2. QED BY <1>1, <1>3, <2>1 DEF GrantAt
<1>7. /\ Taken("node") = IF sort["node"] = "running" THEN Least2(grant, 32) ELSE 0
      /\ Taken("property") = IF sort["property"] = "running"
                             THEN IF InTurn THEN grant ELSE NodeBudgets(grant).property ELSE 0
      /\ Taken("numeric") = IF sort["numeric"] = "running"
                            THEN IF InTurn THEN grant ELSE NodeBudgets(grant).numeric ELSE 0
      /\ Taken("text") = IF sort["text"] = "running"
                         THEN IF InTurn THEN grant ELSE NodeBudgets(grant).text ELSE 0
  <2>1. MemoryOf("node") = Least2(grant, 32)
    BY DEF MemoryOf
  <2>2. \A s \in {"property", "numeric", "text"} :
          MemoryOf(s) = IF InTurn THEN grant ELSE NodeBudgets(grant)[s]
    BY Zenon DEF MemoryOf
  <2>3. QED BY <2>1, <2>2 DEF Taken
<1>8. CASE sort["node"] = "running"
  <2>1. \A s \in {"property", "numeric", "text"} : sort[s] # "running"
    BY <1>1, <1>8 DEF ThreadsAt
  <2>2. Least2(grant, 32) \in 0 .. grant
    BY <1>6 DEF Least2
  <2>3. QED BY <1>3, <1>4, <1>5, <1>7, <1>8, <2>1, <2>2
<1>9. CASE sort["node"] # "running" /\ InTurn
  <2>1. /\ sort["numeric"] = "running" => sort["property"] = "ok"
        /\ sort["text"] = "running" => sort["property"] = "ok"
        /\ sort["text"] = "running" => sort["numeric"] # "running"
    BY <1>1, <1>3, <1>9 DEF ThreadsAt
  <2>2. QED BY <1>3, <1>4, <1>5, <1>6, <1>7, <1>9, <2>1
<1>10. CASE sort["node"] # "running" /\ ~InTurn
  <2>1. /\ NodeBudgets(grant).property \in Nat
        /\ NodeBudgets(grant).numeric \in Nat
        /\ NodeBudgets(grant).text \in Nat
        /\ NodeBudgets(grant).property + NodeBudgets(grant).numeric + NodeBudgets(grant).text <= grant
    BY <1>6, <1>10, SharesFit DEF InTurn
  <2>2. /\ Taken("node") = 0
        /\ Taken("property") \in {0, NodeBudgets(grant).property}
        /\ Taken("numeric") \in {0, NodeBudgets(grant).numeric}
        /\ Taken("text") \in {0, NodeBudgets(grant).text}
    BY <1>7, <1>10
  <2>3. \A a, b, c \in Nat : \A x \in {0, a}, y \in {0, b}, z \in {0, c} :
          a + b + c <= grant => 0 + x + y + z \in 0 .. grant
    BY <1>6
  <2>4. Taken("node") + Taken("property") + Taken("numeric") + Taken("text")
          = 0 + Taken("property") + Taken("numeric") + Taken("text")
    BY <2>2
  <2>5. 0 + Taken("property") + Taken("numeric") + Taken("text") \in 0 .. grant
    BY <2>1, <2>2, <2>3, ZenonT(60)
  <2>6. QED BY <1>3, <1>4, <1>5, <2>4, <2>5
<1>11. QED BY <1>8, <1>9, <1>10

\* What is granted at the same time fits the pool: the arithmetic of
\* SortersShareBudget.
LEMMA PoolShared ==
  ASSUME BuildInv
  PROVE  SortersShareBudget
<1>1. ThreadsAt /\ GrantAt /\ TypeOK
  BY DEF BuildInv
<1>2. Reserve \in Nat
  BY <1>1 DEF GrantAt, Reserve, Less, Least2
<1>3. Beside \in {0, Reserve} /\ (phase \notin {"load", "dropping"} => Beside = 0)
  BY DEF Beside
<1>4. CASE \E s \in {"node", "property", "numeric", "text"} : sort[s] = "running"
  <2> DEFINE nodes == Taken("node") + Taken("property") + Taken("numeric") + Taken("text")
  <2>1. Started /\ sort["edge"] # "running" /\ EdgeShare = 0 /\ nodes \in 0 .. grant
    BY <1>4, NodeSortsFit
  <2>2. Taken("edge") = 0
    BY <2>1 DEF Taken
  <2>3. Sorting = nodes + 0 + 0
    BY <2>1, <2>2 DEF Sorting
  <2> HIDE DEF nodes
  <2>4. SortMemory \in Nat /\ grant \in 6 .. SortMemory
    BY <1>1, <2>1, GrantFits DEF GrantAt
  <2>5. CASE phase \in {"load", "dropping"}
    <3>1. grant + Reserve <= SortMemory \/ grant = 6
      BY <1>1, <2>1, <2>5, PhaseSets DEF GrantAt
    <3>2. QED BY <1>1, <1>2, <1>3, <2>1, <2>3, <2>4, <3>1 DEF SortersShareBudget
  <2>6. CASE phase \notin {"load", "dropping"}
    BY <1>1, <1>3, <2>1, <2>3, <2>4, <2>6 DEF SortersShareBudget
  <2>7. QED BY <2>5, <2>6
<1>5. CASE \A s \in {"node", "property", "numeric", "text"} : sort[s] # "running"
  <2>1. Taken("node") = 0 /\ Taken("property") = 0 /\ Taken("numeric") = 0 /\ Taken("text") = 0
    BY <1>5 DEF Taken
  <2>2. Sorting = 0 + 0 + 0 + 0 + Taken("edge") + EdgeShare
    BY <2>1 DEF Sorting
  <2>3. SortMemory \in Nat
    BY <1>1 DEF GrantAt, SortMemory
  <2>4. CASE sort["edge"] = "running"
    <3>1. ~Dynamic /\ Started
      BY <1>1, <2>4 DEF ThreadsAt, Streams
    <3>2. EdgeShare = 0
      BY <3>1 DEF EdgeShare
    <3>3. Taken("edge") = SortMemory
      BY <2>4 DEF Taken, MemoryOf
    <3>4. Indexed /\ budget \in Nat
      BY <1>1, <3>1 DEF GrantAt
    <3>5. Reserve = 0
      BY <3>1, <3>4 DEF Dynamic, Reserve
    <3>6. QED BY <1>1, <1>3, <2>2, <2>3, <3>2, <3>3, <3>5 DEF SortersShareBudget
  <2>5. CASE sort["edge"] # "running"
    <3>1. Taken("edge") = 0
      BY <2>5 DEF Taken
    <3>2. CASE EdgeShare = 0
      BY <1>1, <2>2, <3>1, <3>2 DEF SortersShareBudget
    <3>3. CASE EdgeShare # 0
      <4>1. PICK t \in Range(EdgeIndexes) : write[t] = "running"
        BY <3>3 DEF EdgeShare
      <4>2. EdgeShare = SortMemory
        BY <3>3 DEF EdgeShare
      <4>3. t \in Trees
        BY EdgeList, TreeList
      <4>4. phase \notin Loading
        BY <1>1, <4>1, <4>3 DEF ThreadsAt
      <4>5. Beside = 0
        BY <1>3, <4>4, PhaseSets
      <4>6. QED BY <1>1, <2>2, <2>3, <3>1, <4>2, <4>5 DEF SortersShareBudget
    <3>4. QED BY <3>2, <3>3
  <2>6. QED BY <2>4, <2>5
<1>6. QED BY <1>4, <1>5

(* The sorts and edge writers that run together never take more than the     *)
(* pool of the memory budget, and beside the relationships they leave the    *)
(* ID map its share, down to the smallest buffer (sort_memory_budget,        *)
(* background_node_sort_memory, node_sort_budgets).                          *)
THEOREM SortMemoryBounded == Spec => []SortersShareBudget
<1>1. BuildInv => SortersShareBudget
  BY PoolShared
<1>2. QED BY <1>1, BuildInvariant, PTL

-----------------------------------------------------------------------------
(* Sequences of whatever elements.                                           *)

IsSeq(q) == q \in Seq(Range(q))

LEMMA SeqParts ==
  ASSUME NEW q, IsSeq(q)
  PROVE  /\ Len(q) \in Nat /\ DOMAIN q = 1 .. Len(q)
         /\ Range(q) = {q[i] : i \in 1 .. Len(q)}
         /\ \A x : x \in Range(q) <=> \E i \in 1 .. Len(q) : q[i] = x
<1>1. Len(q) \in Nat /\ DOMAIN q = 1 .. Len(q)
  BY DEF IsSeq
<1>2. QED BY <1>1 DEF Range

LEMMA SeqOver ==
  ASSUME NEW S, NEW q \in Seq(S)
  PROVE  IsSeq(q)
<1>1. Range(q) = {q[i] : i \in 1 .. Len(q)} /\ Len(q) \in Nat
  BY DEF Range
<1>2. q \in [1 .. Len(q) -> Range(q)]
  BY <1>1
<1>3. QED BY <1>1, <1>2, SeqDef DEF IsSeq

LEMMA EmptyIsSeq == IsSeq(<<>>) /\ Len(<<>>) = 0 /\ Range(<<>>) = {}
<1>1. <<>> \in Seq({}) /\ Len(<<>>) = 0 /\ DOMAIN <<>> = {}
  OBVIOUS
<1>2. Range(<<>>) = {}
  BY <1>1 DEF Range
<1>3. QED BY <1>1, <1>2 DEF IsSeq

\* One element more.
Grown(q, x, r) ==
  /\ IsSeq(r) /\ Len(q) \in Nat /\ Len(r) = Len(q) + 1
  /\ \A i \in 1 .. Len(q) : r[i] = q[i]
  /\ r[Len(q) + 1] = x
  /\ Range(r) = Range(q) \cup {x}

LEMMA AppendGrows ==
  ASSUME NEW q, IsSeq(q), NEW x
  PROVE  Grown(q, x, Append(q, x))
<1> DEFINE S == Range(q) \cup {x}
           r == Append(q, x)
<1>1. q \in Seq(S) /\ x \in S
  <2>1. q \in Seq(Range(q)) /\ Range(q) \subseteq S
    BY DEF IsSeq
  <2> HIDE DEF S
  <2>2. QED BY <2>1 DEF S
<1> HIDE DEF S
<1>2. /\ r \in Seq(S) /\ Len(q) \in Nat /\ Len(r) = Len(q) + 1
      /\ \A i \in 1 .. Len(q) : r[i] = q[i]
      /\ r[Len(q) + 1] = x
  BY <1>1
<1> HIDE DEF r
<1>3. IsSeq(r)
  BY <1>2, SeqOver
<1>4. Range(r) = Range(q) \cup {x}
  <2>1. ASSUME NEW y \in Range(r)
        PROVE  y \in Range(q) \cup {x}
    <3>1. PICK i \in 1 .. Len(r) : r[i] = y
      BY <1>3, SeqParts
    <3>2. CASE i = Len(q) + 1
      BY <1>2, <3>1, <3>2
    <3>3. CASE i # Len(q) + 1
      <4>1. i \in 1 .. Len(q)
        BY <1>2, <3>3
      <4>2. y = q[i]
        BY <1>2, <3>1, <4>1
      <4>3. QED BY <4>1, <4>2, SeqParts
    <3>4. QED BY <3>2, <3>3
  <2>2. ASSUME NEW y \in Range(q)
        PROVE  y \in Range(r)
    <3>1. PICK i \in 1 .. Len(q) : q[i] = y
      BY SeqParts
    <3>2. i \in 1 .. Len(r) /\ r[i] = y
      BY <1>2, <3>1
    <3>3. QED BY <1>3, <3>2, SeqParts
  <2>3. x \in Range(r)
    <3>1. Len(q) + 1 \in 1 .. Len(r)
      BY <1>2
    <3>2. QED BY <1>2, <1>3, <3>1, SeqParts
  <2>4. QED BY <2>1, <2>2, <2>3
<1>5. QED BY <1>2, <1>3, <1>4 DEF Grown, r

\* One sequence after the other.
Concatenated(q, e, r) ==
  /\ IsSeq(r) /\ Len(q) \in Nat /\ Len(e) \in Nat /\ Len(r) = Len(q) + Len(e)
  /\ \A i \in 1 .. Len(q) : r[i] = q[i]
  /\ \A i \in 1 .. Len(e) : r[Len(q) + i] = e[i]
  /\ Range(r) = Range(q) \cup Range(e)

LEMMA ConcatGrows ==
  ASSUME NEW q, IsSeq(q), NEW e, IsSeq(e)
  PROVE  Concatenated(q, e, q \o e)
<1> DEFINE S == Range(q) \cup Range(e)
           r == q \o e
<1>1. q \in Seq(S) /\ e \in Seq(S)
  <2>1. q \in Seq(Range(q)) /\ Range(q) \subseteq S /\ e \in Seq(Range(e)) /\ Range(e) \subseteq S
    BY DEF IsSeq
  <2> HIDE DEF S
  <2>2. QED BY <2>1
<1> HIDE DEF S
<1>2. /\ r \in Seq(S) /\ Len(q) \in Nat /\ Len(e) \in Nat /\ Len(r) = Len(q) + Len(e)
      /\ \A i \in 1 .. Len(q) : r[i] = q[i]
      /\ \A i \in 1 .. Len(e) : r[Len(q) + i] = e[i]
  BY <1>1
<1> HIDE DEF r
<1>3. IsSeq(r)
  BY <1>2, SeqOver
<1>4. Range(r) = Range(q) \cup Range(e)
  <2>1. ASSUME NEW y \in Range(r)
        PROVE  y \in Range(q) \cup Range(e)
    <3>1. PICK i \in 1 .. Len(r) : r[i] = y
      BY <1>3, SeqParts
    <3>2. CASE i \in 1 .. Len(q)
      <4>1. y = q[i]
        BY <1>2, <3>1, <3>2
      <4>2. QED BY <3>2, <4>1, SeqParts
    <3>3. CASE i \notin 1 .. Len(q)
      <4>1. i - Len(q) \in 1 .. Len(e) /\ Len(q) + (i - Len(q)) = i
        BY <1>2, <3>3
      <4>2. y = e[i - Len(q)]
        BY <1>2, <3>1, <4>1
      <4>3. QED BY <4>1, <4>2, SeqParts
    <3>4. QED BY <3>2, <3>3
  <2>2. ASSUME NEW y \in Range(q)
        PROVE  y \in Range(r)
    <3>1. PICK i \in 1 .. Len(q) : q[i] = y
      BY SeqParts
    <3>2. i \in 1 .. Len(r) /\ r[i] = y
      BY <1>2, <3>1
    <3>3. QED BY <1>3, <3>2, SeqParts
  <2>3. ASSUME NEW y \in Range(e)
        PROVE  y \in Range(r)
    <3>1. PICK i \in 1 .. Len(e) : e[i] = y
      BY SeqParts
    <3>2. Len(q) + i \in 1 .. Len(r) /\ r[Len(q) + i] = y
      BY <1>2, <3>1
    <3>3. QED BY <1>3, <3>2, SeqParts
  <2>4. QED BY <2>1, <2>2, <2>3
<1>5. QED BY <1>2, <1>3, <1>4 DEF Concatenated, r

-----------------------------------------------------------------------------
(* What is stored, and how a property changes it.                            *)

\* The fields of Stores.
Shaped(s) ==
  /\ s = [spools |-> s.spools, owned |-> s.owned, tuples |-> s.tuples]
  /\ s.spools = [t \in TableNames |-> s.spools[t]]
  /\ s.owned = [t \in Primary |-> [owner |-> s.owned[t].owner, records |-> s.owned[t].records]]
  /\ s.tuples = [x \in Streams |-> s.tuples[x]]

\* The owner in hand gets one more record, or is flushed and the next one begins.
Handed(s, r, name, record) ==
  /\ \A t \in TableNames \ {name} : r.spools[t] = s.spools[t]
  /\ \A t \in Primary \ {name} : r.owned[t] = s.owned[t]
  /\ record[1] = s.owned[name].owner =>
       /\ r.spools[name] = s.spools[name]
       /\ r.owned[name] = [owner |-> s.owned[name].owner,
                           records |-> Append(s.owned[name].records, record)]
  /\ record[1] # s.owned[name].owner =>
       /\ r.spools[name] = Flushed(s.owned[name], s.spools[name])
       /\ r.owned[name] = [owner |-> record[1], records |-> <<record>>]

LEMMA OwnEffect ==
  ASSUME NEW s, Shaped(s), NEW name \in Primary, NEW record
  PROVE  LET r == Own(s, name, record)
         IN  Shaped(r) /\ r.tuples = s.tuples /\ Handed(s, r, name, record)
<1> DEFINE r == Own(s, name, record)
           o == s.owned[name]
<1>0. name \in TableNames /\ Primary \subseteq TableNames
  BY DEF Primary, TableNames
<1>1. CASE record[1] = o.owner
  <2> DEFINE longer == Append(o.records, record)
  <2>1. r = [s EXCEPT !.owned[name].records = longer]
    BY <1>1 DEF Own
  <2> HIDE DEF r, longer
  <2>2. /\ r = [spools |-> s.spools, owned |-> [s.owned EXCEPT ![name].records = longer],
                tuples |-> s.tuples]
    BY <2>1 DEF Shaped
  <2>3. [s.owned EXCEPT ![name].records = longer]
          = [t \in Primary |-> IF t = name THEN [owner |-> o.owner, records |-> longer] ELSE s.owned[t]]
    BY DEF Shaped
  <2>4. r.owned = [t \in Primary |-> IF t = name THEN [owner |-> o.owner, records |-> longer] ELSE s.owned[t]]
    BY <2>2, <2>3
  <2>5. Shaped(r)
    BY <2>2, <2>4 DEF Shaped
  <2>6. Handed(s, r, name, record) /\ r.tuples = s.tuples
    BY <1>1, <2>2, <2>4 DEF Handed, longer
  <2>7. QED BY <2>5, <2>6, Zenon DEF r
<1>2. CASE record[1] # o.owner
  <2> DEFINE flushed == Flushed(o, s.spools[name])
             begun   == [owner |-> record[1], records |-> <<record>>]
  <2>1. r = [s EXCEPT !.spools[name] = flushed, !.owned[name] = begun]
    BY <1>2 DEF Own
  <2> HIDE DEF r, flushed, begun
  <2>2. r = [spools |-> [s.spools EXCEPT ![name] = flushed],
             owned  |-> [s.owned EXCEPT ![name] = begun], tuples |-> s.tuples]
    BY <2>1 DEF Shaped
  <2>3. /\ [s.spools EXCEPT ![name] = flushed]
             = [t \in TableNames |-> IF t = name THEN flushed ELSE s.spools[t]]
        /\ [s.owned EXCEPT ![name] = begun]
             = [t \in Primary |-> IF t = name THEN begun ELSE s.owned[t]]
    BY <1>0 DEF Shaped
  <2>4. /\ r.spools = [t \in TableNames |-> IF t = name THEN flushed ELSE s.spools[t]]
        /\ r.owned = [t \in Primary |-> IF t = name THEN begun ELSE s.owned[t]]
        /\ r.tuples = s.tuples
    BY <2>2, <2>3
  <2>5. begun.owner = record[1] /\ begun = [owner |-> begun.owner, records |-> begun.records]
    BY DEF begun
  <2>6. Shaped(r)
    <3>1. r = [spools |-> r.spools, owned |-> r.owned, tuples |-> r.tuples]
      BY <2>2
    <3>2. r.owned = [t \in Primary |-> [owner |-> r.owned[t].owner, records |-> r.owned[t].records]]
      BY <2>4, <2>5 DEF Shaped
    <3>3. r.spools = [t \in TableNames |-> r.spools[t]] /\ r.tuples = [x \in Streams |-> r.tuples[x]]
      BY <2>4 DEF Shaped
    <3>4. QED BY <3>1, <3>2, <3>3, Zenon DEF Shaped
  <2>7. Handed(s, r, name, record) /\ r.tuples = s.tuples
    BY <1>0, <1>2, <2>4 DEF Handed, flushed, begun
  <2>8. QED BY <2>6, <2>7, Zenon DEF r
<1>3. QED BY <1>1, <1>2

-----------------------------------------------------------------------------
(* The properties of one owner in the order of their keys.                   *)

\* A list of the places in S, every one once, the least key first.
InOrder(key, n, S, p) ==
  /\ p \in [1 .. n -> S]
  /\ \A i, j \in 1 .. n : p[i] = p[j] => i = j
  /\ \A i, j \in 1 .. n : i < j => key[p[i]] <= key[p[j]]

\* Any set of places can be put in the order of their keys.
LEMMA OrderOfPlaces ==
  ASSUME NEW N \in Nat, NEW key \in [1 .. N -> Nat]
  PROVE  \A n \in Nat : \A S \in SUBSET (1 .. N) :
           Cardinality(S) = n => \E p : InOrder(key, n, S, p)
<1> DEFINE T == {n \in Nat : \A S \in SUBSET (1 .. N) :
                               Cardinality(S) = n => \E p : InOrder(key, n, S, p)}
<1>1. 0 \in T
  <2> SUFFICES ASSUME NEW S \in SUBSET (1 .. N)
               PROVE  \E p : InOrder(key, 0, S, p)
    OBVIOUS
  <2> DEFINE p == [i \in 1 .. 0 |-> 0]
  <2>1. InOrder(key, 0, S, p)
    BY DEF InOrder
  <2> HIDE DEF p
  <2>2. QED BY <2>1
<1>2. ASSUME NEW n \in Nat, n \in T
      PROVE  n + 1 \in T
  <2> SUFFICES ASSUME NEW S \in SUBSET (1 .. N), Cardinality(S) = n + 1
               PROVE  \E p : InOrder(key, n + 1, S, p)
    OBVIOUS
  <2>1. IsFiniteSet(S) /\ S # {}
    <3>1. IsFiniteSet(1 .. N)
      BY FS_Interval
    <3>2. IsFiniteSet(S)
      BY <3>1, FS_Subset
    <3>3. QED BY <3>2, FS_EmptySet
  <2>2. PICK m \in S : \A x \in S : key[m] <= key[x]
    <3> DEFINE K == {key[x] : x \in S}
    <3>1. K \subseteq Nat /\ K # {}
      BY <2>1
    <3>2. PICK k \in K : \A l \in K : k <= l
      <4> HIDE DEF K
      <4>1. QED BY <3>1, LeastNatural
    <3>3. QED BY <3>2
  <2> DEFINE R == S \ {m}
  <2>3. Cardinality(R) = n /\ R \in SUBSET (1 .. N)
    <3>1. Cardinality(S \ {m}) = Cardinality(S) - 1
      BY <2>1, FS_RemoveElement, Zenon
    <3>2. (n + 1) - 1 = n
      OBVIOUS
    <3>3. Cardinality(R) = (n + 1) - 1
      BY <3>1, Zenon
    <3>4. QED BY <3>2, <3>3
  <2> HIDE DEF R
  <2>4. PICK p : InOrder(key, n, R, p)
    BY <1>2, <2>3
  <2> USE <2>4 DEF InOrder
  <2> DEFINE q == [i \in 1 .. n + 1 |-> IF i = 1 THEN m ELSE p[i - 1]]
  <2>5. \A i \in 1 .. n + 1 : i # 1 => i - 1 \in 1 .. n /\ p[i - 1] \in S /\ p[i - 1] # m
    BY DEF R
  <2>6. q \in [1 .. n + 1 -> S]
    BY <2>5
  <2>7. q[1] = m /\ \A i \in 1 .. n + 1 : i # 1 => q[i] = p[i - 1]
    OBVIOUS
  <2> HIDE DEF q
  <2>8. \A i, j \in 1 .. n + 1 : q[i] = q[j] => i = j
    <3> SUFFICES ASSUME NEW i \in 1 .. n + 1, NEW j \in 1 .. n + 1, q[i] = q[j]
                 PROVE  i = j
      OBVIOUS
    <3>1. CASE i # 1 /\ j # 1
      <4>1. i - 1 \in 1 .. n /\ j - 1 \in 1 .. n /\ p[i - 1] = p[j - 1]
        BY <2>5, <2>7, <3>1
      <4>2. i - 1 = j - 1
        BY <2>4, <4>1
      <4>3. QED BY <4>2
    <3>2. CASE i = 1 \/ j = 1
      BY <2>5, <2>7, <3>2
    <3>3. QED BY <3>1, <3>2
  <2>9. \A i, j \in 1 .. n + 1 : i < j => key[q[i]] <= key[q[j]]
    <3> SUFFICES ASSUME NEW i \in 1 .. n + 1, NEW j \in 1 .. n + 1, i < j
                 PROVE  key[q[i]] <= key[q[j]]
      OBVIOUS
    <3>1. j # 1 /\ j - 1 \in 1 .. n /\ q[j] = p[j - 1] /\ p[j - 1] \in S
      BY <2>5, <2>7
    <3>2. CASE i = 1
      BY <2>2, <2>7, <3>1, <3>2
    <3>3. CASE i # 1
      <4>1. i - 1 \in 1 .. n /\ q[i] = p[i - 1] /\ i - 1 < j - 1
        BY <2>5, <2>7, <3>3
      <4>2. key[p[i - 1]] <= key[p[j - 1]]
        BY <2>4, <3>1, <4>1
      <4>3. QED BY <3>1, <4>1, <4>2
    <3>4. QED BY <3>2, <3>3
  <2>10. QED BY <2>6, <2>8, <2>9
<1> HIDE DEF T
<1>3. Nat \subseteq T
  BY <1>1, <1>2, SetInduction
<1>4. QED BY <1>3 DEF T

\* ByKey gives back every record, the least key first.
LEMMA ByKeySorts ==
  ASSUME NEW records, IsSeq(records), \A i \in 1 .. Len(records) : records[i][2] \in Nat
  PROVE  /\ IsSeq(ByKey(records)) /\ Len(ByKey(records)) = Len(records)
         /\ Range(ByKey(records)) = Range(records)
         /\ \A i, j \in 1 .. Len(records) : i < j => ByKey(records)[i][2] <= ByKey(records)[j][2]
         /\ (\A i, j \in 1 .. Len(records) : records[i][2] = records[j][2] => i = j) =>
              \A i, j \in 1 .. Len(records) : i < j => ByKey(records)[i][2] < ByKey(records)[j][2]
<1> DEFINE D == DOMAIN records
           Order(p) == /\ \A i, j \in D : p[i] = p[j] => i = j
                       /\ \A i, j \in D : i < j => records[p[i]][2] <= records[p[j]][2]
           order == CHOOSE p \in [D -> D] : Order(p)
           r == ByKey(records)
           n == Len(records)
<1>1. n \in Nat /\ D = 1 .. n
  BY SeqParts
<1>2. r = [i \in D |-> records[order[i]]]
  BY Zenon DEF ByKey
<1>3. \E p \in [D -> D] : Order(p)
  <2> DEFINE key == [i \in 1 .. n |-> records[i][2]]
  <2>1. key \in [1 .. n -> Nat]
    OBVIOUS
  <2>2. Cardinality(1 .. n) = n
    <3> HIDE DEF n
    <3>1. n \in Int /\ 1 \in Int
      BY <1>1
    <3>2. Cardinality(1 .. n) = IF 1 > n THEN 0 ELSE n - 1 + 1
      BY <3>1, FS_Interval, Zenon
    <3>3. QED BY <1>1, <3>2
  <2>3. \A i \in 1 .. n : key[i] = records[i][2]
    OBVIOUS
  <2> HIDE DEF key, n
  <2>4. \E p : InOrder(key, n, 1 .. n, p)
    <3>1. 1 .. n \in SUBSET (1 .. n)
      OBVIOUS
    <3>2. QED BY <1>1, <2>1, <2>2, <3>1, OrderOfPlaces, Zenon
  <2>5. PICK p : InOrder(key, n, 1 .. n, p)
    BY <2>4
  <2>6. p \in [D -> D] /\ Order(p)
    <3>1. p \in [D -> D] /\ \A i, j \in D : p[i] = p[j] => i = j
      BY <1>1, <2>5 DEF InOrder
    <3>2. ASSUME NEW i \in 1 .. n, NEW j \in 1 .. n, i < j
          PROVE  records[p[i]][2] <= records[p[j]][2]
      <4>1. key[p[i]] <= key[p[j]] /\ p[i] \in 1 .. n /\ p[j] \in 1 .. n
        BY <2>5, <3>2 DEF InOrder
      <4>2. QED BY <2>3, <4>1
    <3>3. \A i, j \in D : i < j => records[p[i]][2] <= records[p[j]][2]
      BY <1>1, <3>2
    <3>4. QED BY <3>1, <3>3
  <2> HIDE DEF Order, D
  <2>7. QED BY <2>6
<1>4. order \in [D -> D] /\ Order(order)
  <2> HIDE DEF Order, D
  <2>1. QED BY <1>3
<1> HIDE DEF order, r, D, n
<1>5. /\ \A i, j \in 1 .. n : order[i] = order[j] => i = j
      /\ \A i, j \in 1 .. n : i < j => records[order[i]][2] <= records[order[j]][2]
      /\ order \in [1 .. n -> 1 .. n]
  BY <1>1, <1>4
<1>6. order \in Surjection(1 .. n, 1 .. n)
  <2>1. order \in Injection(1 .. n, 1 .. n)
    BY <1>5 DEF Injection, IsInjective
  <2>2. IsFiniteSet(1 .. n)
    BY <1>1, FS_Interval
  <2>3. QED BY <2>1, <2>2, FS_Injection
<1>7. \A k \in 1 .. n : \E i \in 1 .. n : order[i] = k
  BY <1>6 DEF Surjection
<1>8. r = [i \in 1 .. n |-> records[order[i]]]
  BY <1>1, <1>2
<1>9. /\ \A i \in 1 .. n : r[i] = records[order[i]] /\ order[i] \in 1 .. n
      /\ DOMAIN r = 1 .. n
  BY <1>5, <1>8
<1>10. \A x : x \in Range(records) <=> \E i \in 1 .. n : records[i] = x
  BY SeqParts DEF n
<1>11. Range(r) = Range(records)
  <2>1. Range(r) = {r[i] : i \in 1 .. n}
    BY <1>9 DEF Range
  <2>2. ASSUME NEW x \in Range(r)
        PROVE  x \in Range(records)
    BY <1>9, <1>10, <2>1
  <2>3. ASSUME NEW x \in Range(records)
        PROVE  x \in Range(r)
    <3>1. PICK k \in 1 .. n : records[k] = x
      BY <1>10
    <3>2. PICK i \in 1 .. n : order[i] = k
      BY <1>7
    <3>3. r[i] = x
      BY <1>9, <3>1, <3>2
    <3>4. QED BY <2>1, <3>3
  <2>4. QED BY <2>2, <2>3
<1>12. IsSeq(r) /\ Len(r) = n
  <2>1. r \in [1 .. n -> Range(records)]
    BY <1>8, <1>9, <1>10
  <2>2. r \in Seq(Range(records)) /\ Len(r) = n
    BY <1>1, <1>9, <2>1, SeqDef
  <2>3. QED BY <2>2, SeqOver
<1>13. \A i, j \in 1 .. n : i < j => r[i][2] <= r[j][2]
  BY <1>5, <1>9
<1>14. (\A i, j \in 1 .. n : records[i][2] = records[j][2] => i = j) =>
         \A i, j \in 1 .. n : i < j => r[i][2] < r[j][2]
  <2> SUFFICES ASSUME \A i, j \in 1 .. n : records[i][2] = records[j][2] => i = j,
                      NEW i \in 1 .. n, NEW j \in 1 .. n, i < j
               PROVE  r[i][2] < r[j][2]
    OBVIOUS
  <2>1. r[i][2] <= r[j][2] /\ r[i] = records[order[i]] /\ r[j] = records[order[j]]
        /\ order[i] \in 1 .. n /\ order[j] \in 1 .. n
    BY <1>9, <1>13
  <2>2. order[i] # order[j]
    BY <1>1, <1>5
  <2>3. r[i][2] # r[j][2]
    BY <2>1, <2>2
  <2>4. r[i][2] \in Nat /\ r[j][2] \in Nat
    BY <2>1 DEF n
  <2>5. QED BY <2>1, <2>3, <2>4
<1>15. QED BY <1>11, <1>12, <1>13, <1>14 DEF r, n

-----------------------------------------------------------------------------
(* The owner in hand.                                                        *)

\* A spool of owners before the one in hand, whose properties all have other keys.
HandAt(spool, o) ==
  /\ IsSeq(spool) /\ IsSeq(o.records) /\ o.owner \in Nat
  /\ Increasing(spool)
  /\ \A i \in 1 .. Len(spool) : spool[i][1] \in Nat /\ spool[i][1] < o.owner
  /\ \A i \in 1 .. Len(o.records) : o.records[i][1] = o.owner /\ o.records[i][2] \in Nat
  /\ \A i, j \in 1 .. Len(o.records) : o.records[i][2] = o.records[j][2] => i = j

\* What a spool is once its owner has been flushed.
FlushedTo(spool, o, f) ==
  /\ IsSeq(f) /\ Increasing(f)
  /\ \A i \in 1 .. Len(f) : f[i][1] \in Nat /\ f[i][1] <= o.owner
  /\ Range(f) = Range(spool) \cup Range(o.records)

LEMMA FlushSorts ==
  ASSUME NEW spool, NEW o, HandAt(spool, o)
  PROVE  FlushedTo(spool, o, Flushed(o, spool))
<1> DEFINE records == o.records
           e == ByKey(records)
           f == spool \o e
           n == Len(spool)
           k == Len(e)
<1>1. /\ IsSeq(spool) /\ IsSeq(records) /\ o.owner \in Nat
      /\ Increasing(spool)
      /\ \A i \in 1 .. n : spool[i][1] \in Nat /\ spool[i][1] < o.owner
      /\ \A i \in 1 .. Len(records) : records[i][1] = o.owner /\ records[i][2] \in Nat
      /\ \A i, j \in 1 .. Len(records) : records[i][2] = records[j][2] => i = j
  BY DEF HandAt
<1> HIDE DEF records
<1>2. /\ IsSeq(e) /\ k = Len(records) /\ Range(e) = Range(records)
      /\ \A i, j \in 1 .. Len(records) : i < j => e[i][2] < e[j][2]
  BY <1>1, ByKeySorts
<1> HIDE DEF e
<1>3. Concatenated(spool, e, f)
  BY <1>1, <1>2, ConcatGrows
<1> HIDE DEF f, n, k
<1>4. /\ IsSeq(f) /\ n \in Nat /\ k \in Nat /\ Len(f) = n + k
      /\ \A i \in 1 .. n : f[i] = spool[i]
      /\ \A i \in 1 .. k : f[n + i] = e[i]
      /\ Range(f) = Range(spool) \cup Range(records)
  BY <1>2, <1>3 DEF Concatenated, n, k
<1>5. \A i \in 1 .. k : e[i][1] = o.owner
  <2> SUFFICES ASSUME NEW i \in 1 .. k
               PROVE  e[i][1] = o.owner
    OBVIOUS
  <2>1. e[i] \in Range(records)
    BY <1>2, SeqParts DEF k
  <2>2. PICK j \in 1 .. Len(records) : records[j] = e[i]
    BY <1>1, <2>1, SeqParts
  <2>3. QED BY <1>1, <2>2
<1>6. ASSUME NEW i \in 1 .. n + k, ~(i \in 1 .. n)
      PROVE  i - n \in 1 .. k /\ f[i] = e[i - n]
  <2>1. i - n \in 1 .. k /\ n + (i - n) = i
    BY <1>4, <1>6
  <2>2. f[n + (i - n)] = e[i - n]
    BY <1>4, <2>1
  <2>3. QED BY <2>1, <2>2
<1>7. \A i \in 1 .. Len(f) : f[i][1] \in Nat /\ f[i][1] <= o.owner
  <2> SUFFICES ASSUME NEW i \in 1 .. Len(f)
               PROVE  f[i][1] \in Nat /\ f[i][1] <= o.owner
    OBVIOUS
  <2>1. CASE i \in 1 .. n
    <3>1. f[i] = spool[i] /\ spool[i][1] \in Nat /\ spool[i][1] < o.owner
      BY <1>1, <1>4, <2>1 DEF n
    <3>2. QED BY <1>1, <3>1
  <2>2. CASE ~(i \in 1 .. n)
    <3>1. f[i][1] = o.owner
      BY <1>4, <1>5, <1>6, <2>2
    <3>2. QED BY <1>1, <3>1
  <2>3. QED BY <2>1, <2>2
<1>8. ASSUME NEW i \in 2 .. Len(f)
      PROVE  Before(f[i - 1], f[i])
  <2>0. i \in 1 .. n + k /\ i - 1 \in 1 .. n + k
    BY <1>4
  <2>1. CASE i \in 1 .. n
    <3>1. i \in 2 .. n /\ i - 1 \in 1 .. n
      BY <1>4, <2>1
    <3>2. Before(spool[i - 1], spool[i])
      BY <1>1, <3>1 DEF Increasing, n
    <3>3. f[i - 1] = spool[i - 1] /\ f[i] = spool[i]
      BY <1>4, <3>1
    <3>4. QED BY <3>2, <3>3
  <2>2. CASE ~(i \in 1 .. n) /\ i - 1 \in 1 .. n
    <3>1. f[i][1] = o.owner
      BY <1>5, <1>6, <2>0, <2>2
    <3>2. f[i - 1] = spool[i - 1] /\ spool[i - 1][1] < o.owner
      BY <1>1, <1>4, <2>2 DEF n
    <3>3. QED BY <3>1, <3>2 DEF Before
  <2>3. CASE ~(i - 1 \in 1 .. n)
    <3>1. ~(i \in 1 .. n)
      BY <1>4, <2>0, <2>3
    <3>2. i - n \in 1 .. k /\ f[i] = e[i - n] /\ (i - 1) - n \in 1 .. k /\ f[i - 1] = e[(i - 1) - n]
      BY <1>6, <2>0, <2>3, <3>1
    <3>3. (i - 1) - n < i - n
      BY <1>4
    <3>4. e[(i - 1) - n][2] < e[i - n][2]
      BY <1>2, <3>2, <3>3
    <3>5. e[(i - 1) - n][1] = e[i - n][1]
      BY <1>5, <3>2
    <3>6. QED BY <3>2, <3>4, <3>5 DEF Before
  <2>4. QED BY <2>1, <2>2, <2>3
<1>9. Increasing(f)
  BY <1>8 DEF Increasing
<1>10. FlushedTo(spool, o, f)
  BY <1>4, <1>7, <1>9 DEF FlushedTo, records
<1>11. Flushed(o, spool) = f
  BY DEF Flushed, f, e, records
<1>12. QED BY <1>10, <1>11

\* Everything pushed for a table so far.
Held(s, name) == Range(s.spools[name]) \cup Range(s.owned[name].records)

\* The keys of the owner in hand are among the first k properties, if it is id.
KeysAmong(o, id, properties, k) ==
  /\ o.owner <= id
  /\ o.owner = id => \A i \in 1 .. Len(o.records) : \E j \in 1 .. k : o.records[i][2] = properties[j][1]

\* A record that may be pushed next, and what is true when it has been.
MayPush(s, name, record, id, properties, k) ==
  /\ HandAt(s.spools[name], s.owned[name])
  /\ KeysAmong(s.owned[name], id, properties, k)
  /\ record[1] = id /\ record[2] = properties[k + 1][1] /\ record[2] \in Nat
  /\ \A j \in 1 .. k : properties[j][1] # record[2]

Pushed(s, r, name, record, id, properties, k) ==
  /\ HandAt(r.spools[name], r.owned[name])
  /\ KeysAmong(r.owned[name], id, properties, k + 1)
  /\ Held(r, name) = Held(s, name) \cup {record}

LEMMA OwnSorts ==
  ASSUME NEW s, NEW r, NEW name, NEW record, Handed(s, r, name, record),
         NEW id \in Nat, NEW properties, NEW k \in Nat,
         MayPush(s, name, record, id, properties, k)
  PROVE  Pushed(s, r, name, record, id, properties, k)
<1> USE DEF MayPush, Pushed
<1> DEFINE o == s.owned[name]
           p == r.owned[name]
           a == s.spools[name]
           b == r.spools[name]
<1>1. CASE record[1] = o.owner
  <2>1. b = a /\ p = [owner |-> o.owner, records |-> Append(o.records, record)]
    BY <1>1 DEF Handed
  <2>2. Grown(o.records, record, Append(o.records, record))
    BY AppendGrows DEF HandAt
  <2> DEFINE q == o.records
             t == p.records
             n == Len(q)
  <2>3. p.owner = o.owner /\ t = Append(q, record)
    BY <2>1
  <2>4. /\ HandAt(a, o) /\ KeysAmong(o, id, properties, k) /\ o.owner = id
    BY <1>1
  <2> HIDE DEF o, p, a, b
  <2>5. /\ IsSeq(t) /\ n \in Nat /\ Len(t) = n + 1
        /\ \A i \in 1 .. n : t[i] = q[i]
        /\ t[n + 1] = record
        /\ Range(t) = Range(q) \cup {record}
    BY <2>2, <2>3 DEF Grown, o
  <2>6. \A i \in 1 .. n : q[i][1] = o.owner /\ q[i][2] \in Nat
    BY <2>4 DEF HandAt
  <2>7. \A i \in 1 .. n : q[i][2] # record[2]
    BY <2>4 DEF KeysAmong
  <2>8. \A i, j \in 1 .. n : q[i][2] = q[j][2] => i = j
    BY <2>4 DEF HandAt
  <2> HIDE DEF q, t, n
  <2>9. \A i \in 1 .. n + 1 : i = n + 1 \/ i \in 1 .. n
    BY <2>5
  <2>10. \A i \in 1 .. n + 1 : t[i][1] = p.owner /\ t[i][2] \in Nat
    BY <1>1, <2>3, <2>5, <2>6, <2>9
  <2>11. \A i, j \in 1 .. n + 1 : t[i][2] = t[j][2] => i = j
    <3> SUFFICES ASSUME NEW i \in 1 .. n + 1, NEW j \in 1 .. n + 1, t[i][2] = t[j][2]
                 PROVE  i = j
      OBVIOUS
    <3>1. CASE i \in 1 .. n /\ j \in 1 .. n
      BY <2>5, <2>8, <3>1
    <3>2. CASE i = n + 1 /\ j \in 1 .. n
      BY <2>5, <2>7, <3>2
    <3>3. CASE j = n + 1 /\ i \in 1 .. n
      BY <2>5, <2>7, <3>3
    <3>4. QED BY <2>9, <3>1, <3>2, <3>3
  <2>12. HandAt(b, p)
    <3>1. /\ IsSeq(a) /\ o.owner \in Nat /\ Increasing(a)
          /\ \A i \in 1 .. Len(a) : a[i][1] \in Nat /\ a[i][1] < o.owner
      BY <2>4 DEF HandAt
    <3>2. b = a
      BY <2>1 DEF a, b
    <3>3. QED BY <2>3, <2>5, <2>10, <2>11, <3>1, <3>2 DEF HandAt, t
  <2>13. KeysAmong(p, id, properties, k + 1)
    <3>1. \A i \in 1 .. n : \E j \in 1 .. k : q[i][2] = properties[j][1]
      BY <2>4 DEF KeysAmong, q, n
    <3>2. \A i \in 1 .. n + 1 : \E j \in 1 .. k + 1 : t[i][2] = properties[j][1]
      BY <2>5, <2>9, <3>1
    <3>3. QED BY <2>3, <2>4, <2>5, <3>2 DEF KeysAmong, t
  <2>14. Held(r, name) = Held(s, name) \cup {record}
    <3>1. Range(b) \cup Range(t) = (Range(a) \cup Range(q)) \cup {record}
      BY <2>1, <2>5 DEF a, b
    <3>2. QED BY <3>1 DEF Held, a, b, o, p, q, t
  <2>15. QED BY <2>12, <2>13, <2>14 DEF o, p, a, b
<1>2. CASE record[1] # o.owner
  <2>1. b = Flushed(o, a) /\ p = [owner |-> record[1], records |-> <<record>>]
    BY <1>2 DEF Handed
  <2>2. FlushedTo(a, o, Flushed(o, a))
    BY FlushSorts
  <2>3. HandAt(a, o) /\ o.owner < id
    <3>1. o.owner <= id /\ o.owner \in Nat
      BY DEF KeysAmong, HandAt
    <3>2. QED BY <1>2, <3>1
  <2> HIDE DEF o, a, b
  <2>4. FlushedTo(a, o, b)
    BY <2>1, <2>2
  <2>5. p.owner = id /\ p.records = <<record>>
    BY <2>1
  <2> HIDE DEF p
  <2>6. IsSeq(<<record>>) /\ Len(<<record>>) = 1 /\ <<record>>[1] = record /\ Range(<<record>>) = {record}
    <3>1. <<record>> \in Seq({record}) /\ Len(<<record>>) = 1 /\ <<record>>[1] = record
      OBVIOUS
    <3> DEFINE one == <<record>>
    <3>2. one \in Seq({record}) /\ DOMAIN one = {1} /\ one[1] = record
      OBVIOUS
    <3> HIDE DEF one
    <3>3. Range(one) = {record}
      BY <3>2 DEF Range
    <3>4. IsSeq(one)
      BY <3>2, SeqOver, Zenon
    <3>5. QED BY <3>1, <3>3, <3>4 DEF one
  <2>7. \A i \in 1 .. 1 : i = 1
    OBVIOUS
  <2>8. HandAt(b, p)
    <3>1. \A i \in 1 .. Len(b) : b[i][1] \in Nat /\ b[i][1] < id
      <4> SUFFICES ASSUME NEW i \in 1 .. Len(b)
                   PROVE  b[i][1] \in Nat /\ b[i][1] < id
        OBVIOUS
      <4>1. b[i][1] \in Nat /\ b[i][1] <= o.owner /\ o.owner \in Nat
        BY <2>3, <2>4 DEF FlushedTo, HandAt
      <4>2. QED BY <2>3, <4>1
    <3>2. IsSeq(b) /\ Increasing(b)
      BY <2>4 DEF FlushedTo
    <3>3. /\ \A i \in 1 .. Len(p.records) : p.records[i][1] = p.owner /\ p.records[i][2] \in Nat
          /\ \A i, j \in 1 .. Len(p.records) : i = j
      BY <2>5, <2>6, <2>7
    <3>4. QED BY <2>5, <2>6, <3>1, <3>2, <3>3 DEF HandAt
  <2>9. KeysAmong(p, id, properties, k + 1)
    <3>1. \A i \in 1 .. Len(p.records) : p.records[i][2] = properties[k + 1][1]
      BY <2>5, <2>6, <2>7
    <3>2. k + 1 \in 1 .. k + 1
      OBVIOUS
    <3>3. \A i \in 1 .. Len(p.records) : \E j \in 1 .. k + 1 : p.records[i][2] = properties[j][1]
      BY <3>1, <3>2
    <3>4. p.owner <= id
      BY <2>5
    <3>5. QED BY <3>3, <3>4 DEF KeysAmong
  <2>10. Held(r, name) = Held(s, name) \cup {record}
    <3>1. Range(b) \cup Range(p.records) = (Range(a) \cup Range(o.records)) \cup {record}
      BY <2>4, <2>5, <2>6 DEF FlushedTo
    <3>2. QED BY <3>1 DEF Held, a, b, o, p
  <2>11. QED BY <2>8, <2>9, <2>10 DEF o, p, a, b
<1>3. QED BY <1>1, <1>2

-----------------------------------------------------------------------------
(* The tuples of the secondary indexes, from the records of the tables.      *)

ByOwner(P) == {<<p[2], p[3], p[1]>> : p \in P}
Texts(P)   == {<<p[3], Prefix(p[4][2]), p[2], p[1]>> : p \in {q \in P : Is(q[4], {"text"})}}
Numbers(P) == {<<p[3], p[4][2], p[2], p[1]>> : p \in {q \in P : Is(q[4], {"integer", "real"})}}
Ends(E)    == {<<e[2], e[3], e[4], e[1]>> : e \in E}

\* The streams hold what the nodes N, the properties P and the relationships E ask for.
TuplesOf(t, N, P, E) ==
  /\ IsSeq(t.node) /\ IsSeq(t.property) /\ IsSeq(t.text) /\ IsSeq(t.edge)
  /\ Range(t.node) = N /\ Range(t.property) = ByOwner(P)
  /\ Range(t.text) = Texts(P) /\ Range(t.edge) = Ends(E)
  /\ t.numeric # None => IsSeq(t.numeric) /\ Range(t.numeric) = Numbers(P)

\* What PushTuples does to every stream.
TuplesPushed(t, u, owner, key, rowid, value) ==
  /\ u = [x \in Streams |-> u[x]] /\ u.node = t.node /\ u.edge = t.edge
  /\ u.property = Append(t.property, <<owner, key, rowid>>)
  /\ Class(value) = "text" => u.text = Append(t.text, <<key, Prefix(value[2]), owner, rowid>>)
  /\ Class(value) # "text" => u.text = t.text
  /\ Class(value) = "real" => u.numeric = None
  /\ Class(value) = "integer" =>
       u.numeric = IF t.numeric = None THEN None
                   ELSE Append(t.numeric, <<key, value[2], owner, rowid>>)
  /\ Class(value) \notin {"integer", "real"} => u.numeric = t.numeric

LEMMA PushTuplesEffect ==
  ASSUME NEW t, t = [x \in Streams |-> t[x]],
         NEW owner, NEW key, NEW rowid, NEW value, Indexed
  PROVE  TuplesPushed(t, PushTuples(t, owner, key, rowid, value), owner, key, rowid, value)
<1> DEFINE one == Append(t.property, <<owner, key, rowid>>)
           p == [t EXCEPT !.property = one]
           u == PushTuples(t, owner, key, rowid, value)
           integer == <<key, value[2], owner, rowid>>
           text == <<key, Prefix(value[2]), owner, rowid>>
<1>1. u = CASE Class(value) = "integer" ->
                 IF p.numeric = None THEN p ELSE [p EXCEPT !.numeric = Append(@, integer)]
            [] Class(value) = "real" -> WithReal(p)
            [] Class(value) = "text" -> [p EXCEPT !.text = Append(@, text)]
            [] OTHER -> p
  BY DEF PushTuples
<1> HIDE DEF u, integer, text, one
<1>2. p = [x \in Streams |-> IF x = "property" THEN one ELSE t[x]]
  OBVIOUS
<1> HIDE DEF p
<1>3. /\ p.property = one /\ p.node = t.node /\ p.edge = t.edge /\ p.text = t.text
      /\ p.numeric = t.numeric /\ p = [x \in Streams |-> p[x]]
  BY <1>2 DEF Streams
<1>4. CASE Class(value) = "integer"
  <2>1. u = IF p.numeric = None THEN p ELSE [p EXCEPT !.numeric = Append(@, integer)]
    BY <1>1, <1>4
  <2>2. CASE p.numeric = None
    BY <1>3, <1>4, <2>1, <2>2 DEF TuplesPushed, one, u
  <2>3. CASE p.numeric # None
    <3>1. u = [x \in Streams |-> IF x = "numeric" THEN Append(p.numeric, integer) ELSE p[x]]
      BY <1>3, <2>1, <2>3
    <3>2. /\ u.property = p.property /\ u.node = p.node /\ u.edge = p.edge /\ u.text = p.text
          /\ u.numeric = Append(p.numeric, integer) /\ u = [x \in Streams |-> u[x]]
      BY <3>1 DEF Streams
    <3>3. QED BY <1>3, <1>4, <2>3, <3>2 DEF TuplesPushed, one, u, integer
  <2>4. QED BY <2>2, <2>3
<1>5. CASE Class(value) = "real"
  <2>1. u = [p EXCEPT !.numeric = None]
    BY <1>1, <1>5 DEF WithReal
  <2>2. u = [x \in Streams |-> IF x = "numeric" THEN None ELSE p[x]]
    BY <1>3, <2>1
  <2>3. /\ u.property = p.property /\ u.node = p.node /\ u.edge = p.edge /\ u.text = p.text
        /\ u.numeric = None /\ u = [x \in Streams |-> u[x]]
    BY <2>2 DEF Streams
  <2>4. QED BY <1>3, <1>5, <2>3 DEF TuplesPushed, one, u
<1>6. CASE Class(value) = "text"
  <2>1. u = [p EXCEPT !.text = Append(@, text)]
    BY <1>1, <1>6
  <2>2. u = [x \in Streams |-> IF x = "text" THEN Append(p.text, text) ELSE p[x]]
    BY <1>3, <2>1
  <2>3. /\ u.property = p.property /\ u.node = p.node /\ u.edge = p.edge
        /\ u.text = Append(p.text, text)
        /\ u.numeric = p.numeric /\ u = [x \in Streams |-> u[x]]
    BY <2>2 DEF Streams
  <2>4. QED BY <1>3, <1>6, <2>3 DEF TuplesPushed, one, u, text
<1>7. CASE Class(value) \notin {"integer", "real", "text"}
  <2>1. u = p
    BY <1>1, <1>7
  <2>2. QED BY <1>3, <1>7, <2>1 DEF TuplesPushed, one, u
<1>8. QED BY <1>4, <1>5, <1>6, <1>7

\* One property record more.
MoreProperties(P, Q, rowid, owner, key, value) ==
  /\ ByOwner(Q) = ByOwner(P) \cup {<<owner, key, rowid>>}
  /\ Texts(Q) = Texts(P) \cup (IF Class(value) = "text"
                              THEN {<<key, Prefix(value[2]), owner, rowid>>} ELSE {})
  /\ Numbers(Q) = Numbers(P) \cup (IF Class(value) \in {"integer", "real"}
                                  THEN {<<key, value[2], owner, rowid>>} ELSE {})
  /\ {Tail(p) : p \in Q} = {Tail(p) : p \in P} \cup {<<owner, key, value>>}

LEMMA OneMoreProperty ==
  ASSUME NEW P, NEW rowid, NEW owner, NEW key, NEW value
  PROVE  MoreProperties(P, P \cup {<<rowid, owner, key, value>>}, rowid, owner, key, value)
<1> DEFINE x == <<rowid, owner, key, value>>
           Q == P \cup {x}
<1>1. x[1] = rowid /\ x[2] = owner /\ x[3] = key /\ x[4] = value
  OBVIOUS
<1>2. Tail(x) = <<owner, key, value>>
  OBVIOUS
<1> HIDE DEF x
<1>3. {Tail(p) : p \in Q} = {Tail(p) : p \in P} \cup {<<owner, key, value>>}
  BY <1>2
<1>4. ByOwner(Q) = ByOwner(P) \cup {<<owner, key, rowid>>}
  BY <1>1 DEF ByOwner
<1>5. Texts(Q) = Texts(P) \cup (IF Class(value) = "text"
                                THEN {<<key, Prefix(value[2]), owner, rowid>>} ELSE {})
  <2>1. Is(x[4], {"text"}) <=> Class(value) = "text"
    BY <1>1 DEF Is
  <2>2. CASE Class(value) = "text"
    <3>1. {q \in Q : Is(q[4], {"text"})} = {q \in P : Is(q[4], {"text"})} \cup {x}
      BY <2>1, <2>2
    <3>2. QED BY <1>1, <2>2, <3>1 DEF Texts
  <2>3. CASE Class(value) # "text"
    <3>1. {q \in Q : Is(q[4], {"text"})} = {q \in P : Is(q[4], {"text"})}
      BY <2>1, <2>3
    <3>2. QED BY <2>3, <3>1 DEF Texts
  <2>4. QED BY <2>2, <2>3
<1>6. Numbers(Q) = Numbers(P) \cup (IF Class(value) \in {"integer", "real"}
                                    THEN {<<key, value[2], owner, rowid>>} ELSE {})
  <2>1. Is(x[4], {"integer", "real"}) <=> Class(value) \in {"integer", "real"}
    BY <1>1 DEF Is
  <2>2. CASE Class(value) \in {"integer", "real"}
    <3>1. {q \in Q : Is(q[4], {"integer", "real"})} = {q \in P : Is(q[4], {"integer", "real"})} \cup {x}
      BY <2>1, <2>2
    <3>2. QED BY <1>1, <2>2, <3>1 DEF Numbers
  <2>3. CASE ~(Class(value) \in {"integer", "real"})
    <3>1. {q \in Q : Is(q[4], {"integer", "real"})} = {q \in P : Is(q[4], {"integer", "real"})}
      BY <2>1, <2>3
    <3>2. QED BY <2>3, <3>1 DEF Numbers
  <2>4. QED BY <2>2, <2>3
<1>7. QED BY <1>3, <1>4, <1>5, <1>6, Zenon DEF x, MoreProperties

LEMMA TuplesGrow ==
  ASSUME NEW t, NEW u, NEW N, NEW P, NEW E, TuplesOf(t, N, P, E),
         NEW owner, NEW key, NEW rowid, NEW value,
         TuplesPushed(t, u, owner, key, rowid, value)
  PROVE  TuplesOf(u, N, P \cup {<<rowid, owner, key, value>>}, E)
<1> DEFINE Q == P \cup {<<rowid, owner, key, value>>}
           record == <<owner, key, rowid>>
           text == <<key, Prefix(value[2]), owner, rowid>>
           integer == <<key, value[2], owner, rowid>>
<1>1. /\ ByOwner(Q) = ByOwner(P) \cup {record}
      /\ Texts(Q) = Texts(P) \cup (IF Class(value) = "text" THEN {text} ELSE {})
      /\ Numbers(Q) = Numbers(P) \cup (IF Class(value) \in {"integer", "real"} THEN {integer} ELSE {})
  <2>1. MoreProperties(P, Q, rowid, owner, key, value)
    BY OneMoreProperty, Zenon
  <2> HIDE DEF Q
  <2>2. QED BY <2>1, Zenon DEF MoreProperties
<1>2. /\ u.node = t.node /\ u.edge = t.edge
      /\ u.property = Append(t.property, record)
      /\ Class(value) = "text" => u.text = Append(t.text, text)
      /\ Class(value) # "text" => u.text = t.text
      /\ Class(value) = "real" => u.numeric = None
      /\ Class(value) = "integer" =>
           u.numeric = IF t.numeric = None THEN None ELSE Append(t.numeric, integer)
      /\ Class(value) \notin {"integer", "real"} => u.numeric = t.numeric
  BY Zenon DEF TuplesPushed
<1> HIDE DEF record, text, integer, Q
<1>3. IsSeq(u.property) /\ Range(u.property) = ByOwner(Q)
  <2>1. Grown(t.property, record, Append(t.property, record))
    BY AppendGrows DEF TuplesOf
  <2>2. QED BY <1>1, <1>2, <2>1 DEF TuplesOf, Grown
<1>4. IsSeq(u.text) /\ Range(u.text) = Texts(Q)
  <2>1. Grown(t.text, text, Append(t.text, text))
    BY AppendGrows DEF TuplesOf
  <2>2. CASE Class(value) = "text"
    BY <1>1, <1>2, <2>1, <2>2 DEF TuplesOf, Grown
  <2>3. CASE Class(value) # "text"
    BY <1>1, <1>2, <2>3 DEF TuplesOf
  <2>4. QED BY <2>2, <2>3
<1>5. u.numeric # None => IsSeq(u.numeric) /\ Range(u.numeric) = Numbers(Q)
  <2> SUFFICES ASSUME u.numeric # None
               PROVE  IsSeq(u.numeric) /\ Range(u.numeric) = Numbers(Q)
    OBVIOUS
  <2>1. Class(value) # "real"
    BY <1>2
  <2>2. CASE Class(value) = "integer"
    <3>1. t.numeric # None /\ u.numeric = Append(t.numeric, integer)
      BY <1>2, <2>2
    <3>2. IsSeq(t.numeric) /\ Range(t.numeric) = Numbers(P)
      BY <3>1 DEF TuplesOf
    <3>3. Grown(t.numeric, integer, Append(t.numeric, integer))
      BY <3>2, AppendGrows
    <3>4. QED BY <1>1, <2>2, <3>1, <3>2, <3>3 DEF Grown
  <2>3. CASE Class(value) # "integer"
    <3>1. u.numeric = t.numeric /\ Numbers(Q) = Numbers(P)
      BY <1>1, <1>2, <2>1, <2>3
    <3>2. QED BY <3>1 DEF TuplesOf
  <2>4. QED BY <2>2, <2>3
<1>6. TuplesOf(u, N, Q, E)
  BY <1>2, <1>3, <1>4, <1>5 DEF TuplesOf
<1>7. QED BY <1>6 DEF Q

-----------------------------------------------------------------------------
(* What the spools and the tuples keep true of each other.                   *)

Kept(s) ==
  /\ Shaped(s)
  /\ IsSeq(s.spools.node) /\ IsSeq(s.spools.edge) /\ IsSeq(s.spools.node_property)
  /\ \A i \in 1 .. Len(s.spools.node_property) : s.spools.node_property[i][1] = i
  /\ HandAt(s.spools.node_primary, s.owned.node_primary)
  /\ HandAt(s.spools.edge_property, s.owned.edge_property)
  /\ Held(s, "node_primary") = ByOwner(Range(s.spools.node_property))
  /\ Indexed => TuplesOf(s.tuples, Range(s.spools.node), Range(s.spools.node_property),
                         Range(s.spools.edge))

\* The properties of the nodes, without their row IDs.
Tails(s) == {Tail(p) : p \in Range(s.spools.node_property)}

\* What one property changes.
NodePropertyDone(s, r, id, properties, k) ==
  /\ Kept(r) /\ KeysAmong(r.owned.node_primary, id, properties, k + 1)
  /\ r.spools.node = s.spools.node /\ r.spools.edge = s.spools.edge
  /\ r.spools.edge_property = s.spools.edge_property
  /\ r.owned.edge_property = s.owned.edge_property
  /\ Tails(r) = Tails(s) \cup {<<id, properties[k + 1][1], properties[k + 1][2]>>}

EdgePropertyDone(s, r, id, properties, k) ==
  /\ Kept(r) /\ KeysAmong(r.owned.edge_property, id, properties, k + 1)
  /\ r.spools.node = s.spools.node /\ r.spools.edge = s.spools.edge
  /\ r.spools.node_property = s.spools.node_property
  /\ r.owned.node_primary = s.owned.node_primary
  /\ Held(r, "edge_property") =
       Held(s, "edge_property") \cup {<<id, properties[k + 1][1], properties[k + 1][2]>>}

\* The keys of a row.
FreshKey(properties, k) ==
  /\ properties[k + 1][1] \in Nat
  /\ \A j \in 1 .. k : properties[j][1] # properties[k + 1][1]

LEMMA NodePropertyKept ==
  ASSUME NEW s, Kept(s), NEW id \in Nat, NEW properties, NEW k \in Nat,
         KeysAmong(s.owned.node_primary, id, properties, k), FreshKey(properties, k)
  PROVE  NodePropertyDone(s, PushNodeProperty(s, id, properties[k + 1]), id, properties, k)
<1> DEFINE property == properties[k + 1]
           key == property[1]
           value == property[2]
           np == s.spools.node_property
           rowid == Len(np) + 1
           x == <<rowid, id, key, value>>
           more == Append(np, x)
           after == PushTuples(s.tuples, id, key, rowid, value)
           one == [s EXCEPT !.spools.node_property = more, !.tuples = after]
           record == <<id, key, rowid>>
           r == PushNodeProperty(s, id, property)
<1>1. r = Own(one, "node_primary", record)
  BY Zenon DEF PushNodeProperty
<1>2. /\ IsSeq(np) /\ Shaped(s)
      /\ \A i \in 1 .. Len(np) : np[i][1] = i
      /\ HandAt(s.spools.node_primary, s.owned.node_primary)
      /\ HandAt(s.spools.edge_property, s.owned.edge_property)
      /\ Held(s, "node_primary") = ByOwner(Range(np))
      /\ Indexed => TuplesOf(s.tuples, Range(s.spools.node), Range(np), Range(s.spools.edge))
  BY DEF Kept
<1>3. Grown(np, x, more)
  BY <1>2, AppendGrows
<1>4. /\ x[1] = rowid /\ record[1] = id /\ record[2] = key
      /\ {Tail(p) : p \in Range(np) \cup {x}} = {Tail(p) : p \in Range(np)} \cup {<<id, key, value>>}
      /\ ByOwner(Range(np) \cup {x}) = ByOwner(Range(np)) \cup {record}
  <2>1. MoreProperties(Range(np), Range(np) \cup {x}, rowid, id, key, value)
    BY OneMoreProperty, Zenon
  <2>2. x[1] = rowid /\ record[1] = id /\ record[2] = key
    OBVIOUS
  <2> HIDE DEF x, rowid, np, key, value
  <2>3. QED BY <2>1, <2>2, Zenon DEF MoreProperties
<1>5. /\ after = [y \in Streams |-> after[y]]
      /\ Indexed => TuplesOf(after, Range(s.spools.node), Range(np) \cup {x}, Range(s.spools.edge))
  <2> DEFINE t == s.tuples
  <2>1. t = [y \in Streams |-> t[y]]
    BY <1>2 DEF Shaped
  <2>2. CASE Indexed
    <3> HIDE DEF t
    <3>1. TuplesPushed(t, PushTuples(t, id, key, rowid, value), id, key, rowid, value)
      BY <2>1, <2>2, PushTuplesEffect, Zenon
    <3>2. TuplesPushed(t, after, id, key, rowid, value)
      BY <3>1 DEF t
    <3>3. TuplesOf(t, Range(s.spools.node), Range(np), Range(s.spools.edge))
      BY <1>2, <2>2 DEF t
    <3> HIDE DEF after, rowid, key, value, np
    <3>4. TuplesOf(after, Range(s.spools.node), Range(np) \cup {<<rowid, id, key, value>>},
                   Range(s.spools.edge))
      BY <3>2, <3>3, TuplesGrow, Zenon
    <3>5. after = [y \in Streams |-> after[y]]
      BY <3>2 DEF TuplesPushed
    <3>6. QED BY <3>4, <3>5 DEF x
  <2>3. CASE ~Indexed
    <3>1. after = t
      BY <2>3 DEF PushTuples
    <3>2. QED BY <2>1, <2>3, <3>1
  <2>4. QED BY <2>2, <2>3
<1> HIDE DEF x, more, after, record, r
<1>6. /\ Shaped(one) /\ one.owned = s.owned /\ one.tuples = after
      /\ one.spools.node_property = more
      /\ \A t \in TableNames \ {"node_property"} : one.spools[t] = s.spools[t]
  <2> DEFINE b == [s.spools EXCEPT !.node_property = more]
  <2>1. one = [s EXCEPT !.spools = b, !.tuples = after]
    OBVIOUS
  <2>2. b = [t \in TableNames |-> IF t = "node_property" THEN more ELSE s.spools[t]]
    BY <1>2 DEF Shaped, TableNames
  <2> HIDE DEF one, b
  <2>3. one = [spools |-> b, owned |-> s.owned, tuples |-> after]
    BY <1>2, <2>1 DEF Shaped
  <2>4. b = [t \in TableNames |-> b[t]] /\ b["node_property"] = more
        /\ \A t \in TableNames \ {"node_property"} : b[t] = s.spools[t]
    BY <2>2 DEF TableNames
  <2>5. one = [spools |-> one.spools, owned |-> one.owned, tuples |-> one.tuples]
    BY <2>3
  <2>6. Shaped(one)
    BY <1>2, <1>5, <2>3, <2>4, <2>5 DEF Shaped
  <2>7. QED BY <2>3, <2>4, <2>6
<1> HIDE DEF one, np, property, key, value, rowid
<1>7. /\ Shaped(r) /\ r.tuples = one.tuples /\ Handed(one, r, "node_primary", record)
  <2>1. "node_primary" \in Primary
    BY DEF Primary
  <2>2. QED BY <1>1, <1>6, <2>1, OwnEffect, Zenon
<1>8. /\ \A t \in TableNames \ {"node_primary"} : r.spools[t] = one.spools[t]
      /\ r.owned["edge_property"] = one.owned["edge_property"]
  BY <1>7 DEF Handed, Primary
<1>9. /\ HandAt(r.spools["node_primary"], r.owned["node_primary"])
      /\ KeysAmong(r.owned["node_primary"], id, properties, k + 1)
      /\ Held(r, "node_primary") = Held(one, "node_primary") \cup {record}
  <2>1. /\ HandAt(one.spools["node_primary"], one.owned["node_primary"])
        /\ KeysAmong(one.owned["node_primary"], id, properties, k)
    BY <1>2, <1>6 DEF TableNames
  <2>2. /\ record[1] = id /\ record[2] = properties[k + 1][1] /\ record[2] \in Nat
        /\ \A j \in 1 .. k : properties[j][1] # record[2]
    BY <1>4 DEF FreshKey, key, property
  <2>3. MayPush(one, "node_primary", record, id, properties, k)
    BY <2>1, <2>2 DEF MayPush
  <2>4. Pushed(one, r, "node_primary", record, id, properties, k)
    BY <1>7, <2>3, OwnSorts, Zenon
  <2>5. QED BY <2>4 DEF Pushed
<1>10. /\ r.spools["node"] = s.spools["node"] /\ r.spools["edge"] = s.spools["edge"]
       /\ r.spools["edge_property"] = s.spools["edge_property"]
       /\ r.spools["node_property"] = more
       /\ r.owned["edge_property"] = s.owned["edge_property"]
  BY <1>6, <1>8 DEF TableNames
<1>11. /\ IsSeq(more) /\ Range(more) = Range(np) \cup {x}
       /\ \A i \in 1 .. Len(more) : more[i][1] = i
  <2>1. /\ IsSeq(more) /\ Len(np) \in Nat /\ Len(more) = Len(np) + 1
        /\ \A i \in 1 .. Len(np) : more[i] = np[i]
        /\ more[Len(np) + 1] = x
        /\ Range(more) = Range(np) \cup {x}
    BY <1>3 DEF Grown
  <2>2. \A i \in 1 .. Len(more) : i = Len(np) + 1 \/ i \in 1 .. Len(np)
    BY <2>1
  <2>3. QED BY <1>2, <1>4, <2>1, <2>2 DEF rowid
<1>12. Held(r, "node_primary") = ByOwner(Range(more))
  <2>1. Held(one, "node_primary") = Held(s, "node_primary")
    BY <1>6 DEF Held, TableNames
  <2>2. QED BY <1>2, <1>4, <1>9, <1>11, <2>1
<1>13. Kept(r)
  <2>1. Indexed => TuplesOf(r.tuples, Range(r.spools["node"]), Range(r.spools["node_property"]),
                            Range(r.spools["edge"]))
    BY <1>5, <1>6, <1>7, <1>10, <1>11
  <2>2. HandAt(r.spools["edge_property"], r.owned["edge_property"])
    BY <1>2, <1>10
  <2>3. IsSeq(r.spools["node"]) /\ IsSeq(r.spools["edge"]) /\ IsSeq(r.spools["node_property"])
    BY <1>10, <1>11 DEF Kept
  <2>4. QED BY <1>7, <1>9, <1>10, <1>11, <1>12, <2>1, <2>2, <2>3 DEF Kept
<1>14. Tails(r) = Tails(s) \cup {<<id, key, value>>}
  BY <1>4, <1>10, <1>11 DEF Tails, np
<1>15. NodePropertyDone(s, r, id, properties, k)
  BY <1>9, <1>10, <1>13, <1>14 DEF NodePropertyDone, key, value, property
<1>16. QED BY <1>15 DEF r, property

LEMMA EdgePropertyKept ==
  ASSUME NEW s, Kept(s), NEW id \in Nat, NEW properties, NEW k \in Nat,
         KeysAmong(s.owned.edge_property, id, properties, k), FreshKey(properties, k)
  PROVE  EdgePropertyDone(s, Own(s, "edge_property",
                                 <<id, properties[k + 1][1], properties[k + 1][2]>>),
                          id, properties, k)
<1> DEFINE record == <<id, properties[k + 1][1], properties[k + 1][2]>>
           r == Own(s, "edge_property", record)
<1>1. record[1] = id /\ record[2] = properties[k + 1][1]
  OBVIOUS
<1> HIDE DEF record
<1>2. Shaped(r) /\ r.tuples = s.tuples /\ Handed(s, r, "edge_property", record)
  <2>1. "edge_property" \in Primary /\ Shaped(s)
    BY DEF Primary, Kept
  <2>2. QED BY <2>1, OwnEffect, Zenon
<1> HIDE DEF r
<1>3. /\ \A t \in TableNames \ {"edge_property"} : r.spools[t] = s.spools[t]
      /\ r.owned["node_primary"] = s.owned["node_primary"]
  BY <1>2 DEF Handed, Primary
<1>4. /\ r.spools["node"] = s.spools["node"] /\ r.spools["edge"] = s.spools["edge"]
      /\ r.spools["node_property"] = s.spools["node_property"]
      /\ r.spools["node_primary"] = s.spools["node_primary"]
  BY <1>3 DEF TableNames
<1>5. /\ HandAt(r.spools["edge_property"], r.owned["edge_property"])
      /\ KeysAmong(r.owned["edge_property"], id, properties, k + 1)
      /\ Held(r, "edge_property") = Held(s, "edge_property") \cup {record}
  <2>1. /\ HandAt(s.spools["edge_property"], s.owned["edge_property"])
        /\ KeysAmong(s.owned["edge_property"], id, properties, k)
    BY DEF Kept
  <2>2. record[2] \in Nat /\ \A j \in 1 .. k : properties[j][1] # record[2]
    BY <1>1 DEF FreshKey
  <2>3. MayPush(s, "edge_property", record, id, properties, k)
    BY <1>1, <2>1, <2>2 DEF MayPush
  <2>4. Pushed(s, r, "edge_property", record, id, properties, k)
    BY <1>2, <2>3, OwnSorts, Zenon
  <2>5. QED BY <2>4 DEF Pushed
<1>6. Held(r, "node_primary") = Held(s, "node_primary")
  BY <1>3, <1>4 DEF Held
<1>7. Kept(r)
  BY <1>2, <1>3, <1>4, <1>5, <1>6 DEF Kept
<1>8. EdgePropertyDone(s, r, id, properties, k)
  BY <1>3, <1>4, <1>5, <1>7 DEF EdgePropertyDone, record
<1>9. QED BY <1>8 DEF r, record

-----------------------------------------------------------------------------
(* A whole row.                                                              *)

LEMMA TwoFields ==
  ASSUME NEW s, s = [spools |-> s.spools, owned |-> s.owned, tuples |-> s.tuples],
         NEW a, NEW b, NEW one, one = [s EXCEPT !.spools = a, !.tuples = b]
  PROVE  /\ one = [spools |-> a, owned |-> s.owned, tuples |-> b]
         /\ one.spools = a /\ one.owned = s.owned /\ one.tuples = b
<1>1. one = [spools |-> a, owned |-> s.owned, tuples |-> b]
  OBVIOUS
<1>2. PICK o : o = s.owned
  OBVIOUS
<1>3. one = [spools |-> a, owned |-> o, tuples |-> b]
  BY <1>1, <1>2, Zenon
<1>4. one.spools = a /\ one.owned = o /\ one.tuples = b
  BY ONLY <1>3
<1>5. QED BY <1>1, <1>2, <1>4, Zenon

FieldSet(s, one, table, x, y) ==
  /\ Shaped(one) /\ one.owned = s.owned
  /\ one.spools[table] = x /\ one.tuples[table] = y
  /\ \A t \in TableNames \ {table} : one.spools[t] = s.spools[t]
  /\ \A t \in Streams \ {table} : one.tuples[t] = s.tuples[t]

LEMMA OneField ==
  ASSUME NEW s, Shaped(s), NEW table \in {"node", "edge"}, NEW x, NEW y, NEW one,
         one = [s EXCEPT !.spools = [s.spools EXCEPT ![table] = x],
                         !.tuples = [s.tuples EXCEPT ![table] = y]]
  PROVE  FieldSet(s, one, table, x, y)
<1> DEFINE a == [s.spools EXCEPT ![table] = x]
           b == [s.tuples EXCEPT ![table] = y]
<1>0. table \in TableNames /\ table \in Streams
  BY DEF TableNames, Streams
<1>1. a = [t \in TableNames |-> IF t = table THEN x ELSE s.spools[t]]
  BY <1>0 DEF Shaped
<1>2. b = [t \in Streams |-> IF t = table THEN y ELSE s.tuples[t]]
  BY <1>0 DEF Shaped
<1>3. one = [s EXCEPT !.spools = a, !.tuples = b]
  OBVIOUS
<1> HIDE DEF a, b
<1>4. /\ one = [spools |-> a, owned |-> s.owned, tuples |-> b]
      /\ one.spools = a /\ one.owned = s.owned /\ one.tuples = b
  <2>1. s = [spools |-> s.spools, owned |-> s.owned, tuples |-> s.tuples]
    BY DEF Shaped
  <2>2. QED BY <1>3, <2>1, TwoFields, Zenon
<1>5. one.spools = a /\ one.owned = s.owned /\ one.tuples = b
  BY <1>4, Zenon
<1>6. a = [t \in TableNames |-> a[t]] /\ b = [t \in Streams |-> b[t]]
  BY <1>1, <1>2
<1>7. one = [spools |-> one.spools, owned |-> one.owned, tuples |-> one.tuples]
  BY <1>4, <1>5
<1>8. Shaped(one)
  BY <1>5, <1>6, <1>7 DEF Shaped
<1>9. /\ a[table] = x /\ b[table] = y
      /\ \A t \in TableNames \ {table} : a[t] = s.spools[t]
      /\ \A t \in Streams \ {table} : b[t] = s.tuples[t]
  BY <1>0, <1>1, <1>2
<1>10. QED BY <1>5, <1>8, <1>9 DEF FieldSet

LEMMA NodeAloneKept ==
  ASSUME NEW s, Kept(s), NEW row
  PROVE  LET one == NodeAlone(s, row)
         IN  /\ Kept(one) /\ one.owned = s.owned
             /\ one.spools.node = Append(s.spools.node, <<Len(s.spools.node) + 1, row.label>>)
             /\ \A t \in TableNames \ {"node"} : one.spools[t] = s.spools[t]
<1> DEFINE x == <<Len(s.spools.node) + 1, row.label>>
           more == Append(s.spools.node, x)
           after == IF Indexed THEN Append(s.tuples.node, x) ELSE s.tuples.node
           one == NodeAlone(s, row)
<1>1. one = [s EXCEPT !.spools = [s.spools EXCEPT !["node"] = more],
                      !.tuples = [s.tuples EXCEPT !["node"] = after]]
  BY DEF NodeAlone
<1> HIDE DEF one, x, more, after
<1>2. /\ Shaped(one) /\ one.owned = s.owned
      /\ one.spools["node"] = more /\ one.tuples["node"] = after
      /\ \A t \in TableNames \ {"node"} : one.spools[t] = s.spools[t]
      /\ \A t \in Streams \ {"node"} : one.tuples[t] = s.tuples[t]
  <2>1. Shaped(s) /\ "node" \in {"node", "edge"}
    BY DEF Kept
  <2>2. FieldSet(s, one, "node", more, after)
    BY <1>1, <2>1, OneField, Zenon
  <2>3. QED BY <2>2 DEF FieldSet
<1>3. IsSeq(more) /\ Range(more) = Range(s.spools.node) \cup {x}
  <2>1. Grown(s.spools.node, x, more)
    BY AppendGrows DEF Kept, more
  <2>2. QED BY <2>1 DEF Grown
<1>4. Indexed => TuplesOf(one.tuples, Range(more), Range(s.spools.node_property), Range(s.spools.edge))
  <2> SUFFICES ASSUME Indexed
               PROVE  TuplesOf(one.tuples, Range(more), Range(s.spools.node_property),
                               Range(s.spools.edge))
    OBVIOUS
  <2>1. TuplesOf(s.tuples, Range(s.spools.node), Range(s.spools.node_property), Range(s.spools.edge))
    BY DEF Kept
  <2>2. Grown(s.tuples.node, x, after)
    BY <2>1, AppendGrows DEF TuplesOf, after
  <2>3. IsSeq(after) /\ Range(after) = Range(more)
    BY <1>3, <2>1, <2>2 DEF Grown, TuplesOf
  <2>4. /\ one.tuples["property"] = s.tuples["property"] /\ one.tuples["text"] = s.tuples["text"]
        /\ one.tuples["numeric"] = s.tuples["numeric"] /\ one.tuples["edge"] = s.tuples["edge"]
    BY <1>2 DEF Streams
  <2>5. QED BY <1>2, <2>1, <2>3, <2>4 DEF TuplesOf
<1>5. /\ one.spools["edge"] = s.spools["edge"]
      /\ one.spools["node_property"] = s.spools["node_property"]
      /\ one.spools["node_primary"] = s.spools["node_primary"]
      /\ one.spools["edge_property"] = s.spools["edge_property"]
  BY <1>2 DEF TableNames
<1>6. Kept(one)
  BY <1>2, <1>3, <1>4, <1>5 DEF Kept, Held
<1>7. QED BY <1>2, <1>6, Zenon DEF one, more, x

LEMMA EdgeAloneKept ==
  ASSUME NEW s, Kept(s), NEW row
  PROVE  LET one == EdgeAlone(s, row)
         IN  /\ Kept(one) /\ one.owned = s.owned
             /\ one.spools.edge =
                  Append(s.spools.edge, <<Len(s.spools.edge) + 1, row.from, row.to, row.type>>)
             /\ \A t \in TableNames \ {"edge"} : one.spools[t] = s.spools[t]
<1> DEFINE id == Len(s.spools.edge) + 1
           x == <<id, row.from, row.to, row.type>>
           y == <<row.from, row.to, row.type, id>>
           more == Append(s.spools.edge, x)
           after == IF Indexed THEN Append(s.tuples.edge, y) ELSE s.tuples.edge
           one == EdgeAlone(s, row)
<1>0. x[1] = id /\ x[2] = row.from /\ x[3] = row.to /\ x[4] = row.type
  OBVIOUS
<1>1. one = [s EXCEPT !.spools = [s.spools EXCEPT !["edge"] = more],
                      !.tuples = [s.tuples EXCEPT !["edge"] = after]]
  BY DEF EdgeAlone
<1> HIDE DEF one, x, y, id, more, after
<1>2. /\ Shaped(one) /\ one.owned = s.owned
      /\ one.spools["edge"] = more /\ one.tuples["edge"] = after
      /\ \A t \in TableNames \ {"edge"} : one.spools[t] = s.spools[t]
      /\ \A t \in Streams \ {"edge"} : one.tuples[t] = s.tuples[t]
  <2>1. Shaped(s) /\ "edge" \in {"node", "edge"}
    BY DEF Kept
  <2>2. FieldSet(s, one, "edge", more, after)
    BY <1>1, <2>1, OneField, Zenon
  <2>3. QED BY <2>2 DEF FieldSet
<1>3. IsSeq(more) /\ Range(more) = Range(s.spools.edge) \cup {x}
  <2>1. Grown(s.spools.edge, x, more)
    BY AppendGrows DEF Kept, more
  <2>2. QED BY <2>1 DEF Grown
<1>4. Indexed => TuplesOf(one.tuples, Range(s.spools.node), Range(s.spools.node_property), Range(more))
  <2> SUFFICES ASSUME Indexed
               PROVE  TuplesOf(one.tuples, Range(s.spools.node), Range(s.spools.node_property),
                               Range(more))
    OBVIOUS
  <2>1. TuplesOf(s.tuples, Range(s.spools.node), Range(s.spools.node_property), Range(s.spools.edge))
    BY DEF Kept
  <2>2. Grown(s.tuples.edge, y, after)
    BY <2>1, AppendGrows DEF TuplesOf, after
  <2>3. IsSeq(after) /\ Range(after) = Ends(Range(s.spools.edge)) \cup {y}
    BY <2>1, <2>2 DEF Grown, TuplesOf
  <2>4. Ends(Range(more)) = Ends(Range(s.spools.edge)) \cup {<<x[2], x[3], x[4], x[1]>>}
    BY <1>3 DEF Ends
  <2>5. Range(after) = Ends(Range(more))
    BY <1>0, <2>3, <2>4 DEF y
  <2>6. /\ one.tuples["property"] = s.tuples["property"] /\ one.tuples["text"] = s.tuples["text"]
        /\ one.tuples["numeric"] = s.tuples["numeric"] /\ one.tuples["node"] = s.tuples["node"]
    BY <1>2 DEF Streams
  <2>7. QED BY <1>2, <2>1, <2>3, <2>5, <2>6 DEF TuplesOf
<1>5. /\ one.spools["node"] = s.spools["node"]
      /\ one.spools["node_property"] = s.spools["node_property"]
      /\ one.spools["node_primary"] = s.spools["node_primary"]
      /\ one.spools["edge_property"] = s.spools["edge_property"]
  BY <1>2 DEF TableNames
<1>6. Kept(one)
  BY <1>2, <1>3, <1>4, <1>5 DEF Kept, Held
<1>7. QED BY <1>2, <1>6, Zenon DEF one, more, x, id

\* The properties of a row have their keys one by one.
LEMMA RowKeys ==
  ASSUME NEW row, IsRow(row)
  PROVE  /\ Len(row.properties) \in Nat
         /\ Range(row.properties) = {row.properties[j] : j \in 1 .. Len(row.properties)}
         /\ \A k \in Nat : k + 1 <= Len(row.properties) => FreshKey(row.properties, k)
<1>1. /\ IsSeq(row.properties)
      /\ \A i \in DOMAIN row.properties : row.properties[i][1] \in Nat
      /\ \A i, j \in DOMAIN row.properties : row.properties[i][1] = row.properties[j][1] => i = j
  BY DEF IsRow, IsSeq
<1>2. /\ Len(row.properties) \in Nat /\ DOMAIN row.properties = 1 .. Len(row.properties)
      /\ Range(row.properties) = {row.properties[j] : j \in 1 .. Len(row.properties)}
  BY <1>1, SeqParts
<1>3. ASSUME NEW k \in Nat, k + 1 <= Len(row.properties)
      PROVE  FreshKey(row.properties, k)
  <2>1. k + 1 \in DOMAIN row.properties /\ 1 .. k \subseteq DOMAIN row.properties
    BY <1>2, <1>3
  <2>2. \A j \in 1 .. k : j # k + 1
    OBVIOUS
  <2>3. QED BY <1>1, <2>1, <2>2 DEF FreshKey
<1>4. QED BY <1>2, <1>3

\* A node and its properties.
NodeRowDone(s, r, row) ==
  /\ Kept(r)
  /\ r.spools.node = Append(s.spools.node, <<Len(s.spools.node) + 1, row.label>>)
  /\ r.spools.edge = s.spools.edge /\ r.spools.edge_property = s.spools.edge_property
  /\ r.owned.edge_property = s.owned.edge_property
  /\ r.owned.node_primary.owner <= Len(s.spools.node) + 1
  /\ Tails(r) = Tails(s) \cup PropertiesOf(row, Len(s.spools.node) + 1)

EdgeRowDone(s, r, row) ==
  /\ Kept(r)
  /\ r.spools.edge = Append(s.spools.edge, <<Len(s.spools.edge) + 1, row.from, row.to, row.type>>)
  /\ r.spools.node = s.spools.node /\ r.spools.node_property = s.spools.node_property
  /\ r.owned.node_primary = s.owned.node_primary
  /\ r.owned.edge_property.owner <= Len(s.spools.edge) + 1
  /\ Held(r, "edge_property") = Held(s, "edge_property") \cup PropertiesOf(row, Len(s.spools.edge) + 1)

\* The first k properties of a row.
FirstOf(properties, id, k) == {<<id, properties[j][1], properties[j][2]>> : j \in 1 .. k}

LEMMA FirstOfFacts ==
  ASSUME NEW properties, NEW id
  PROVE  /\ FirstOf(properties, id, 0) = {}
         /\ \A k \in Nat : FirstOf(properties, id, k + 1) =
              FirstOf(properties, id, k) \cup {<<id, properties[k + 1][1], properties[k + 1][2]>>}
<1>1. FirstOf(properties, id, 0) = {}
  BY DEF FirstOf
<1>2. ASSUME NEW k \in Nat
      PROVE  FirstOf(properties, id, k + 1) =
               FirstOf(properties, id, k) \cup {<<id, properties[k + 1][1], properties[k + 1][2]>>}
  <2> DEFINE F(j) == <<id, properties[j][1], properties[j][2]>>
  <2>1. 1 .. k + 1 = (1 .. k) \cup {k + 1}
    OBVIOUS
  <2> HIDE DEF F
  <2>2. {F(j) : j \in 1 .. k + 1} = {F(j) : j \in 1 .. k} \cup {F(k + 1)}
    BY <2>1
  <2>3. QED BY <2>2 DEF FirstOf, F
<1>3. QED BY <1>1, <1>2

LEMMA PropertiesOfFirst ==
  ASSUME NEW row, IsRow(row), NEW id
  PROVE  PropertiesOf(row, id) = FirstOf(row.properties, id, Len(row.properties))
<1> DEFINE q == row.properties
           n == Len(q)
<1>1. Range(q) = {q[j] : j \in 1 .. n}
  BY RowKeys
<1> HIDE DEF q, n
<1>2. {<<id, p[1], p[2]>> : p \in Range(q)} = {<<id, q[j][1], q[j][2]>> : j \in 1 .. n}
  BY <1>1
<1>3. QED BY <1>2 DEF PropertiesOf, FirstOf, q, n

LEMMA NodeRow ==
  ASSUME NEW s, Kept(s), NEW row, IsRow(row),
         s.owned.node_primary.owner <= Len(s.spools.node)
  PROVE  NodeRowDone(s, PushNode(s, row), row)
<1> DEFINE id == Len(s.spools.node) + 1
           one == NodeAlone(s, row)
           q == row.properties
           n == Len(q)
           Mid(v, k) ==
             /\ Kept(v) /\ KeysAmong(v.owned.node_primary, id, q, k)
             /\ v.spools.node = one.spools.node /\ v.spools.edge = one.spools.edge
             /\ v.spools.edge_property = one.spools.edge_property
             /\ v.owned.edge_property = one.owned.edge_property
             /\ Tails(v) = Tails(one) \cup FirstOf(q, id, k)
<1>1. n \in Nat /\ \A k \in Nat : k + 1 <= n => FreshKey(q, k)
  BY RowKeys
<1>2. PICK f : AddedOneByOne(f, "node", one, id, q) /\ PushNode(s, row) = f[n]
  BY <1>1, PushNodeUnfolds
<1>3. /\ Kept(one) /\ one.owned = s.owned
      /\ one.spools.node = Append(s.spools.node, <<Len(s.spools.node) + 1, row.label>>)
      /\ \A t \in TableNames \ {"node"} : one.spools[t] = s.spools[t]
  BY NodeAloneKept
<1>4. id \in Nat /\ Len(s.spools.node) \in Nat /\ s.owned.node_primary.owner \in Nat
  BY SeqParts DEF Kept, HandAt
<1> DEFINE T == {k \in Nat : k <= n => Mid(f[k], k)}
<1> HIDE DEF one, n, q
<1>5. Mid(one, 0)
  <2>1. KeysAmong(one.owned.node_primary, id, q, 0)
    BY <1>3, <1>4 DEF KeysAmong
  <2>2. FirstOf(q, id, 0) = {}
    BY FirstOfFacts, Zenon
  <2>3. QED BY <1>3, <2>1, <2>2
<1> HIDE DEF id
<1>6. 0 \in T
  <2>1. f[0] = one
    BY <1>2 DEF AddedOneByOne
  <2> HIDE DEF Mid
  <2>2. QED BY <1>5, <2>1
<1>7. ASSUME NEW k \in Nat, k \in T
      PROVE  k + 1 \in T
  <2>1. SUFFICES ASSUME k + 1 <= n
                 PROVE  Mid(f[k + 1], k + 1)
    OBVIOUS
  <2>2. k + 1 \in 1 .. n /\ (k + 1) - 1 = k
    BY <1>1, <2>1
  <2>3. PICK v : v = f[k]
    OBVIOUS
  <2>4. PICK w : w = f[k + 1]
    OBVIOUS
  <2>5. w = PushNodeProperty(v, id, q[k + 1])
    <3>1. f[k + 1] = Added("node", f[(k + 1) - 1], id, q[k + 1])
      BY <1>2, <2>2, Zenon DEF AddedOneByOne, n
    <3>2. f[k + 1] = Added("node", f[k], id, q[k + 1])
      BY <2>2, <3>1, Zenon
    <3>3. Added("node", f[k], id, q[k + 1]) = PushNodeProperty(f[k], id, q[k + 1])
      BY Zenon DEF Added
    <3>4. QED BY <2>3, <2>4, <3>2, <3>3, Zenon
  <2>6. Mid(v, k)
    <3> HIDE DEF Mid
    <3>1. QED BY <1>1, <1>7, <2>1, <2>3
  <2>7. FreshKey(q, k)
    BY <1>1, <2>1
  <2>8. NodePropertyDone(v, PushNodeProperty(v, id, q[k + 1]), id, q, k)
    <3>1. Kept(v) /\ KeysAmong(v.owned.node_primary, id, q, k)
      BY <2>6
    <3> HIDE DEF Mid
    <3>2. QED BY <1>4, <2>7, <3>1, NodePropertyKept, Zenon
  <2>9. NodePropertyDone(v, w, id, q, k)
    BY <2>5, <2>8, Zenon
  <2>10. Mid(w, k + 1)
    <3>1. FirstOf(q, id, k + 1) = FirstOf(q, id, k) \cup {<<id, q[k + 1][1], q[k + 1][2]>>}
      BY FirstOfFacts, Zenon
    <3>2. Tails(w) = Tails(v) \cup {<<id, q[k + 1][1], q[k + 1][2]>>}
      BY <2>9, Zenon DEF NodePropertyDone
    <3>3. Tails(w) = Tails(one) \cup FirstOf(q, id, k + 1)
      <4>1. PICK x : x = <<id, q[k + 1][1], q[k + 1][2]>>
        OBVIOUS
      <4>2. FirstOf(q, id, k + 1) = FirstOf(q, id, k) \cup {x} /\ Tails(w) = Tails(v) \cup {x}
        BY <3>1, <3>2, <4>1, Zenon
      <4>3. Tails(v) = Tails(one) \cup FirstOf(q, id, k)
        BY <2>6, Zenon
      <4>4. QED BY <4>2, <4>3
    <3>4. QED BY <2>6, <2>9, <3>3 DEF NodePropertyDone
  <2> HIDE DEF Mid
  <2>11. QED BY <2>4, <2>10
<1> HIDE DEF T
<1>8. n \in T
  BY <1>1, <1>6, <1>7, SetInduction
<1>9. PICK r : r = f[n]
  OBVIOUS
<1>10. Mid(r, n)
  <2> HIDE DEF Mid
  <2>1. QED BY <1>1, <1>8, <1>9 DEF T
<1>11. PropertiesOf(row, id) = FirstOf(q, id, n)
  BY PropertiesOfFirst DEF q, n
<1>12. Tails(one) = Tails(s)
  BY <1>3 DEF Tails, TableNames
<1>13. one.spools["edge"] = s.spools["edge"] /\ one.spools["edge_property"] = s.spools["edge_property"]
  BY <1>3 DEF TableNames
<1>14. r.owned.node_primary.owner <= id
  BY <1>10 DEF KeysAmong
<1>15. NodeRowDone(s, r, row)
  BY <1>3, <1>10, <1>11, <1>12, <1>13, <1>14 DEF NodeRowDone, id
<1>16. QED BY <1>2, <1>9, <1>15

LEMMA EdgeRow ==
  ASSUME NEW s, Kept(s), NEW row, IsRow(row),
         s.owned.edge_property.owner <= Len(s.spools.edge)
  PROVE  EdgeRowDone(s, PushEdge(s, row), row)
<1> DEFINE id == Len(s.spools.edge) + 1
           one == EdgeAlone(s, row)
           q == row.properties
           n == Len(q)
           Mid(v, k) ==
             /\ Kept(v) /\ KeysAmong(v.owned.edge_property, id, q, k)
             /\ v.spools.node = one.spools.node /\ v.spools.edge = one.spools.edge
             /\ v.spools.node_property = one.spools.node_property
             /\ v.owned.node_primary = one.owned.node_primary
             /\ Held(v, "edge_property") = Held(one, "edge_property") \cup FirstOf(q, id, k)
<1>1. n \in Nat /\ \A k \in Nat : k + 1 <= n => FreshKey(q, k)
  BY RowKeys
<1>2. PICK f : AddedOneByOne(f, "edge", one, id, q) /\ PushEdge(s, row) = f[n]
  BY <1>1, PushEdgeUnfolds
<1>3. /\ Kept(one) /\ one.owned = s.owned
      /\ one.spools.edge =
           Append(s.spools.edge, <<Len(s.spools.edge) + 1, row.from, row.to, row.type>>)
      /\ \A t \in TableNames \ {"edge"} : one.spools[t] = s.spools[t]
  BY EdgeAloneKept
<1>4. id \in Nat /\ Len(s.spools.edge) \in Nat /\ s.owned.edge_property.owner \in Nat
  BY SeqParts DEF Kept, HandAt
<1> DEFINE T == {k \in Nat : k <= n => Mid(f[k], k)}
<1> HIDE DEF one, n, q
<1>5. Mid(one, 0)
  <2>1. KeysAmong(one.owned.edge_property, id, q, 0)
    BY <1>3, <1>4 DEF KeysAmong
  <2>2. FirstOf(q, id, 0) = {}
    BY FirstOfFacts, Zenon
  <2>3. QED BY <1>3, <2>1, <2>2
<1> HIDE DEF id
<1>6. 0 \in T
  <2>1. f[0] = one
    BY <1>2 DEF AddedOneByOne
  <2> HIDE DEF Mid
  <2>2. QED BY <1>5, <2>1
<1>7. ASSUME NEW k \in Nat, k \in T
      PROVE  k + 1 \in T
  <2>1. SUFFICES ASSUME k + 1 <= n
                 PROVE  Mid(f[k + 1], k + 1)
    OBVIOUS
  <2>2. k + 1 \in 1 .. n /\ (k + 1) - 1 = k
    BY <1>1, <2>1
  <2>3. PICK v : v = f[k]
    OBVIOUS
  <2>4. PICK w : w = f[k + 1]
    OBVIOUS
  <2>5. w = Own(v, "edge_property", <<id, q[k + 1][1], q[k + 1][2]>>)
    <3>1. f[k + 1] = Added("edge", f[(k + 1) - 1], id, q[k + 1])
      BY <1>2, <2>2, Zenon DEF AddedOneByOne, n
    <3>2. f[k + 1] = Added("edge", f[k], id, q[k + 1])
      BY <2>2, <3>1, Zenon
    <3>3. Added("edge", f[k], id, q[k + 1]) = Own(f[k], "edge_property", <<id, q[k + 1][1], q[k + 1][2]>>)
      BY DEF Added
    <3>4. QED BY <2>3, <2>4, <3>2, <3>3, Zenon
  <2>6. Mid(v, k)
    <3> HIDE DEF Mid
    <3>1. QED BY <1>1, <1>7, <2>1, <2>3
  <2>7. FreshKey(q, k)
    BY <1>1, <2>1
  <2>8. EdgePropertyDone(v, Own(v, "edge_property", <<id, q[k + 1][1], q[k + 1][2]>>), id, q, k)
    <3>1. Kept(v) /\ KeysAmong(v.owned.edge_property, id, q, k)
      BY <2>6
    <3> HIDE DEF Mid
    <3>2. QED BY <1>4, <2>7, <3>1, EdgePropertyKept, Zenon
  <2>9. EdgePropertyDone(v, w, id, q, k)
    BY <2>5, <2>8, Zenon
  <2>10. Mid(w, k + 1)
    <3>1. FirstOf(q, id, k + 1) = FirstOf(q, id, k) \cup {<<id, q[k + 1][1], q[k + 1][2]>>}
      BY FirstOfFacts, Zenon
    <3>2. Held(w, "edge_property") = Held(v, "edge_property") \cup {<<id, q[k + 1][1], q[k + 1][2]>>}
      BY <2>9, Zenon DEF EdgePropertyDone
    <3>3. Held(w, "edge_property") = Held(one, "edge_property") \cup FirstOf(q, id, k + 1)
      <4>1. PICK x : x = <<id, q[k + 1][1], q[k + 1][2]>>
        OBVIOUS
      <4>2. FirstOf(q, id, k + 1) = FirstOf(q, id, k) \cup {x} /\ Held(w, "edge_property") = Held(v, "edge_property") \cup {x}
        BY <3>1, <3>2, <4>1, Zenon
      <4>3. Held(v, "edge_property") = Held(one, "edge_property") \cup FirstOf(q, id, k)
        BY <2>6, Zenon
      <4>4. QED BY <4>2, <4>3
    <3>4. QED BY <2>6, <2>9, <3>3 DEF EdgePropertyDone
  <2> HIDE DEF Mid
  <2>11. QED BY <2>4, <2>10
<1> HIDE DEF T
<1>8. n \in T
  BY <1>1, <1>6, <1>7, SetInduction
<1>9. PICK r : r = f[n]
  OBVIOUS
<1>10. Mid(r, n)
  <2> HIDE DEF Mid
  <2>1. QED BY <1>1, <1>8, <1>9 DEF T
<1>11. PropertiesOf(row, id) = FirstOf(q, id, n)
  BY PropertiesOfFirst DEF q, n
<1>12. Held(one, "edge_property") = Held(s, "edge_property")
  BY <1>3 DEF Held, TableNames
<1>13. one.spools["node"] = s.spools["node"] /\ one.spools["node_property"] = s.spools["node_property"]
  BY <1>3 DEF TableNames
<1>14. r.owned.edge_property.owner <= id
  BY <1>10 DEF KeysAmong
<1>15. EdgeRowDone(s, r, row)
  BY <1>3, <1>10, <1>11, <1>12, <1>13, <1>14 DEF EdgeRowDone, id
<1>16. QED BY <1>2, <1>9, <1>15

-----------------------------------------------------------------------------
(* The rows that have been loaded.                                           *)

NodeCount == Cardinality(Nodes)

\* A graph is its nodes, then its relationships.
LEMMA GraphShape ==
  ASSUME graph \in Graphs
  PROVE  /\ Len(graph) \in Nat /\ DOMAIN graph = 1 .. Len(graph)
         /\ NodeCount \in 0 .. Len(graph) /\ Nodes = 1 .. NodeCount
         /\ \A i \in 1 .. Len(graph) : IsRow(graph[i]) /\ (graph[i].kind = "node" <=> i <= NodeCount)
<1> DEFINE N == Len(graph)
           E == {i \in 1 .. N : graph[i].kind # "node"}
<1>1. /\ IsSeq(graph) /\ \A i \in DOMAIN graph : IsRow(graph[i])
      /\ \A i, j \in DOMAIN graph : i < j /\ graph[i].kind = "edge" => graph[j].kind = "edge"
  BY BulkBuildAssumption DEF IsSeq
<1>2. N \in Nat /\ DOMAIN graph = 1 .. N
  BY <1>1, SeqParts
<1> HIDE DEF N
<1>3. \E k \in 0 .. N : Nodes = 1 .. k
  <2>1. CASE E = {}
    <3>1. Nodes = 1 .. N
      BY <1>2, <2>1 DEF Nodes
    <3>2. QED BY <1>2, <3>1
  <2>2. CASE E # {}
    <3>1. PICK e \in E : \A i \in E : e <= i
      <4>1. E \in SUBSET Nat
        OBVIOUS
      <4> HIDE DEF E
      <4>2. QED BY <2>2, <4>1, LeastNatural
    <3>2. e \in 1 .. N /\ graph[e].kind = "edge"
      <4>1. e \in 1 .. N /\ graph[e].kind # "node"
        OBVIOUS
      <4>2. QED BY <1>1, <1>2, <4>1 DEF IsRow
    <3>3. \A i \in 1 .. N : graph[i].kind = "node" <=> i < e
      <4> SUFFICES ASSUME NEW i \in 1 .. N
                   PROVE  graph[i].kind = "node" <=> i < e
        OBVIOUS
      <4>1. CASE i < e
        BY <3>1, <4>1
      <4>2. CASE i = e
        BY <3>2, <4>2
      <4>3. CASE e < i
        <5>1. graph[i].kind = "edge"
          BY <1>1, <1>2, <3>2, <4>3
        <5>2. QED BY <4>3, <5>1
      <4>4. QED BY <3>2, <4>1, <4>2, <4>3
    <3>4. Nodes = 1 .. e - 1
      BY <1>2, <3>2, <3>3 DEF Nodes
    <3>5. e - 1 \in 0 .. N
      BY <1>2, <3>2
    <3>6. QED BY <3>4, <3>5
  <2>3. QED BY <2>1, <2>2
<1>4. PICK k \in 0 .. N : Nodes = 1 .. k
  BY <1>3
<1>5. NodeCount = k
  <2>1. 1 \in Int /\ k \in Int
    BY <1>2
  <2>2. Cardinality(1 .. k) = IF 1 > k THEN 0 ELSE k - 1 + 1
    BY <2>1, FS_Interval, Zenon
  <2>3. Cardinality(Nodes) = Cardinality(1 .. k)
    BY <1>4
  <2>4. Cardinality(1 .. k) = k
    BY <2>1, <2>2
  <2>5. QED BY <2>3, <2>4 DEF NodeCount
<1>6. \A i \in 1 .. N : graph[i].kind = "node" <=> i <= k
  <2> SUFFICES ASSUME NEW i \in 1 .. N
               PROVE  graph[i].kind = "node" <=> i <= k
    OBVIOUS
  <2>1. i \in Nodes <=> graph[i].kind = "node"
    BY <1>2 DEF Nodes
  <2>2. i \in 1 .. k <=> i <= k
    BY <1>2
  <2>3. QED BY <1>4, <2>1, <2>2
<1>7. QED BY <1>1, <1>2, <1>4, <1>5, <1>6 DEF N

NodeTable(q, n) == IsSeq(q) /\ Len(q) = n /\ \A i \in 1 .. n : q[i] = <<i, graph[i].label>>
EdgeTable(q, m) == /\ IsSeq(q) /\ Len(q) = m
                   /\ \A i \in 1 .. m : q[i] = <<i, Edge(i).from, Edge(i).to, Edge(i).type>>
NodeProperties(n) == UNION {PropertiesOf(graph[i], i) : i \in 1 .. n}
EdgeProperties(m) == UNION {PropertiesOf(Edge(i), i) : i \in 1 .. m}

\* The first n nodes and the first m relationships have been pushed.
LoadedAt(s, n, m) ==
  /\ Kept(s)
  /\ NodeTable(s.spools.node, n) /\ EdgeTable(s.spools.edge, m)
  /\ s.owned.node_primary.owner <= n /\ s.owned.edge_property.owner <= m
  /\ Tails(s) = NodeProperties(n) /\ Held(s, "edge_property") = EdgeProperties(m)

LEMMA UnionGrows ==
  ASSUME NEW A, NEW k \in Nat
  PROVE  /\ UNION {A[i] : i \in 1 .. k + 1} = (UNION {A[i] : i \in 1 .. k}) \cup A[k + 1]
         /\ UNION {A[i] : i \in 1 .. 0} = {}
<1>1. 1 .. k + 1 = (1 .. k) \cup {k + 1} /\ 1 .. 0 = {}
  OBVIOUS
<1>2. {A[i] : i \in 1 .. k + 1} = {A[i] : i \in 1 .. k} \cup {A[k + 1]}
  BY <1>1
<1>3. {A[i] : i \in 1 .. 0} = {}
  BY <1>1
<1>4. UNION {A[i] : i \in 1 .. k + 1} = (UNION {A[i] : i \in 1 .. k}) \cup A[k + 1]
  BY <1>2
<1>5. UNION {A[i] : i \in 1 .. 0} = {}
  BY <1>3
<1>6. QED BY <1>4, <1>5

LEMMA PropertiesGrow ==
  ASSUME NEW k \in Nat
  PROVE  /\ NodeProperties(k + 1) = NodeProperties(k) \cup PropertiesOf(graph[k + 1], k + 1)
         /\ EdgeProperties(k + 1) = EdgeProperties(k) \cup PropertiesOf(Edge(k + 1), k + 1)
         /\ NodeProperties(0) = {} /\ EdgeProperties(0) = {}
<1> DEFINE F(i) == PropertiesOf(graph[i], i)
           G(i) == PropertiesOf(Edge(i), i)
           A == [i \in Nat |-> F(i)]
           B == [i \in Nat |-> G(i)]
<1> HIDE DEF F, G
<1>1. \A i \in Nat : A[i] = F(i) /\ B[i] = G(i)
  OBVIOUS
<1> HIDE DEF A, B
<1>2. \A n \in Nat : {F(i) : i \in 1 .. n} = {A[i] : i \in 1 .. n} /\ {G(i) : i \in 1 .. n} = {B[i] : i \in 1 .. n}
  BY <1>1
<1>3. /\ UNION {A[i] : i \in 1 .. k + 1} = (UNION {A[i] : i \in 1 .. k}) \cup A[k + 1]
      /\ UNION {A[i] : i \in 1 .. 0} = {}
      /\ UNION {B[i] : i \in 1 .. k + 1} = (UNION {B[i] : i \in 1 .. k}) \cup B[k + 1]
      /\ UNION {B[i] : i \in 1 .. 0} = {}
  BY UnionGrows, Zenon
<1>4. k + 1 \in Nat /\ 0 \in Nat
  OBVIOUS
<1>5. /\ UNION {F(i) : i \in 1 .. k + 1} = (UNION {F(i) : i \in 1 .. k}) \cup F(k + 1)
      /\ UNION {F(i) : i \in 1 .. 0} = {}
  BY <1>1, <1>2, <1>3, <1>4, Zenon
<1>6. /\ UNION {G(i) : i \in 1 .. k + 1} = (UNION {G(i) : i \in 1 .. k}) \cup G(k + 1)
      /\ UNION {G(i) : i \in 1 .. 0} = {}
  BY <1>1, <1>2, <1>3, <1>4, Zenon
<1>7. NodeProperties(k + 1) = NodeProperties(k) \cup F(k + 1) /\ NodeProperties(0) = {}
  BY <1>5 DEF F, NodeProperties
<1>8. EdgeProperties(k + 1) = EdgeProperties(k) \cup G(k + 1) /\ EdgeProperties(0) = {}
  BY <1>6 DEF G, EdgeProperties
<1>9. QED BY <1>7, <1>8 DEF F, G

LEMMA NodeLoads ==
  ASSUME NEW s, NEW n \in Nat, NEW m, LoadedAt(s, n, m), IsRow(graph[n + 1])
  PROVE  LoadedAt(PushNode(s, graph[n + 1]), n + 1, m)
<1> DEFINE row == graph[n + 1]
           r == PushNode(s, row)
           x == <<n + 1, row.label>>
           q == s.spools.node
<1>1. /\ Kept(s) /\ NodeTable(q, n) /\ EdgeTable(s.spools.edge, m)
      /\ s.owned.node_primary.owner <= n /\ s.owned.edge_property.owner <= m
      /\ Tails(s) = NodeProperties(n) /\ Held(s, "edge_property") = EdgeProperties(m)
  BY DEF LoadedAt
<1>2. NodeRowDone(s, r, row)
  BY <1>1, NodeRow DEF NodeTable
<1> HIDE DEF r, row
<1>3. /\ Kept(r) /\ r.spools.node = Append(q, x)
      /\ r.spools.edge = s.spools.edge /\ r.spools.edge_property = s.spools.edge_property
      /\ r.owned.edge_property = s.owned.edge_property
      /\ r.owned.node_primary.owner <= n + 1
      /\ Tails(r) = Tails(s) \cup PropertiesOf(row, n + 1)
  BY <1>1, <1>2 DEF NodeRowDone, NodeTable
<1>4. NodeTable(r.spools.node, n + 1)
  <2>1. IsSeq(q) /\ Len(q) = n /\ \A i \in 1 .. n : q[i] = <<i, graph[i].label>>
    BY <1>1 DEF NodeTable
  <2> HIDE DEF q, x
  <2>2. Grown(q, x, Append(q, x))
    BY <2>1, AppendGrows
  <2>3. PICK t : t = Append(q, x)
    OBVIOUS
  <2>4. /\ IsSeq(t) /\ Len(t) = n + 1
        /\ \A i \in 1 .. n : t[i] = <<i, graph[i].label>>
        /\ t[n + 1] = <<n + 1, graph[n + 1].label>>
    BY <2>1, <2>2, <2>3 DEF Grown, x, row
  <2>5. \A i \in 1 .. n + 1 : i = n + 1 \/ i \in 1 .. n
    OBVIOUS
  <2>6. NodeTable(t, n + 1)
    BY <2>4, <2>5 DEF NodeTable
  <2>7. QED BY <1>3, <2>3, <2>6
<1>5. Tails(r) = NodeProperties(n + 1)
  BY <1>1, <1>3, PropertiesGrow DEF row
<1>6. Held(r, "edge_property") = Held(s, "edge_property")
  BY <1>3 DEF Held
<1>7. LoadedAt(r, n + 1, m)
  BY <1>1, <1>3, <1>4, <1>5, <1>6 DEF LoadedAt
<1>8. QED BY <1>7 DEF r, row

LEMMA EdgeLoads ==
  ASSUME NEW s, NEW n, NEW m \in Nat, LoadedAt(s, n, m), IsRow(Edge(m + 1))
  PROVE  LoadedAt(PushEdge(s, Edge(m + 1)), n, m + 1)
<1> DEFINE row == Edge(m + 1)
           r == PushEdge(s, row)
           x == <<m + 1, row.from, row.to, row.type>>
           q == s.spools.edge
<1>1. /\ Kept(s) /\ NodeTable(s.spools.node, n) /\ EdgeTable(q, m)
      /\ s.owned.node_primary.owner <= n /\ s.owned.edge_property.owner <= m
      /\ Tails(s) = NodeProperties(n) /\ Held(s, "edge_property") = EdgeProperties(m)
  BY DEF LoadedAt
<1>2. EdgeRowDone(s, r, row)
  BY <1>1, EdgeRow DEF EdgeTable
<1> HIDE DEF r, row
<1>3. /\ Kept(r) /\ r.spools.edge = Append(q, x)
      /\ r.spools.node = s.spools.node /\ r.spools.node_property = s.spools.node_property
      /\ r.owned.node_primary = s.owned.node_primary
      /\ r.owned.edge_property.owner <= m + 1
      /\ Held(r, "edge_property") = Held(s, "edge_property") \cup PropertiesOf(row, m + 1)
  BY <1>1, <1>2 DEF EdgeRowDone, EdgeTable
<1>4. EdgeTable(r.spools.edge, m + 1)
  <2>1. IsSeq(q) /\ Len(q) = m
        /\ \A i \in 1 .. m : q[i] = <<i, Edge(i).from, Edge(i).to, Edge(i).type>>
    BY <1>1 DEF EdgeTable
  <2> HIDE DEF q, x
  <2>2. Grown(q, x, Append(q, x))
    BY <2>1, AppendGrows
  <2>3. PICK t : t = Append(q, x)
    OBVIOUS
  <2>4. /\ IsSeq(t) /\ Len(t) = m + 1
        /\ \A i \in 1 .. m : t[i] = <<i, Edge(i).from, Edge(i).to, Edge(i).type>>
        /\ t[m + 1] = <<m + 1, Edge(m + 1).from, Edge(m + 1).to, Edge(m + 1).type>>
    BY <2>1, <2>2, <2>3 DEF Grown, x, row
  <2>5. \A i \in 1 .. m + 1 : i = m + 1 \/ i \in 1 .. m
    OBVIOUS
  <2>6. EdgeTable(t, m + 1)
    BY <2>4, <2>5 DEF EdgeTable
  <2>7. QED BY <1>3, <2>3, <2>6
<1>5. Held(r, "edge_property") = EdgeProperties(m + 1)
  BY <1>1, <1>3, PropertiesGrow DEF row
<1>6. Tails(r) = Tails(s)
  BY <1>3 DEF Tails
<1>7. LoadedAt(r, n, m + 1)
  BY <1>1, <1>3, <1>4, <1>5, <1>6 DEF LoadedAt
<1>8. QED BY <1>7 DEF r, row

-----------------------------------------------------------------------------
(* What is stored, from the first row to the finished tables.                *)

\* The rows that have been taken from the graph.
Done == Len(graph) - Len(left)
NodesDone == IF Done < NodeCount THEN Done ELSE NodeCount
EdgesDone == Done - NodesDone
RowsAfter == /\ Len(left) \in Nat /\ Done \in 0 .. Len(graph)
             /\ \A i \in 1 .. Len(left) : left[i] = graph[Done + i]

\* The tables and the tuples of a graph that has been loaded.
Complete ==
  /\ NodeTable(spools.node, NodeCount) /\ EdgeTable(spools.edge, Len(graph) - NodeCount)
  /\ IsSeq(spools.node_property)
  /\ {Tail(p) : p \in Range(spools.node_property)} = NodeProperties(NodeCount)
  /\ \A i \in 1 .. Len(spools.node_property) : spools.node_property[i][1] = i
  /\ IsSeq(spools.node_primary) /\ Increasing(spools.node_primary)
  /\ Range(spools.node_primary) = ByOwner(Range(spools.node_property))
  /\ IsSeq(spools.edge_property) /\ Increasing(spools.edge_property)
  /\ Range(spools.edge_property) = EdgeProperties(Len(graph) - NodeCount)
  /\ Indexed => TuplesOf(tuples, Range(spools.node), Range(spools.node_property), Range(spools.edge))

DataInv ==
  /\ phase \in {"load", "finish"} => RowsAfter /\ LoadedAt(Stores, NodesDone, EdgesDone)
  /\ phase = "finish" => left = <<>>
  /\ phase = "build" \/ phase \in Range(Steps) \/ result = "ok" => Complete
  /\ result = "ok" => phase \in {"leaving", "ended"}

\* The same import and the same memory.
LEMMA LoadedNext ==
  ASSUME UNCHANGED <<graph, budget>>, NEW s, s = Stores', NEW n, n = NodesDone',
         NEW m, m = EdgesDone', LoadedAt(s, n, m)
  PROVE  LoadedAt(Stores, NodesDone, EdgesDone)'
<1>1. Kept(Stores)'
  BY DEF LoadedAt, Kept, Indexed
<1>2. NodeTable(Stores.spools.node, NodesDone)'
  BY DEF LoadedAt, NodeTable
<1>3. EdgeTable(Stores.spools.edge, EdgesDone)'
  BY DEF LoadedAt, EdgeTable, Edge, Nodes
<1>4. (Tails(Stores) = NodeProperties(NodesDone))'
  BY DEF LoadedAt, NodeProperties
<1>5. (Held(Stores, "edge_property") = EdgeProperties(EdgesDone))'
  BY DEF LoadedAt, EdgeProperties, Edge, Nodes
<1>6. /\ (Stores.owned.node_primary.owner <= NodesDone)'
      /\ (Stores.owned.edge_property.owner <= EdgesDone)'
  BY DEF LoadedAt
<1>7. QED BY <1>1, <1>2, <1>3, <1>4, <1>5, <1>6 DEF LoadedAt

LEMMA EdgesNext ==
  ASSUME graph' = graph, NodeCount' = NodeCount
  PROVE  EdgeProperties(Len(graph) - NodeCount)' = EdgeProperties(Len(graph) - NodeCount)
<1>1. \A i : PropertiesOf(Edge(i), i)' = PropertiesOf(Edge(i), i)
  BY DEF Edge, Nodes
<1>2. (1 .. Len(graph) - NodeCount)' = 1 .. Len(graph) - NodeCount
  OBVIOUS
<1>3. QED BY <1>1, <1>2 DEF EdgeProperties

LEMMA CompleteNext ==
  ASSUME UNCHANGED <<graph, budget, spools, tuples>>, Complete
  PROVE  Complete'
<1>1. NodeCount' = NodeCount
  BY DEF NodeCount, Nodes
<1>2. /\ NodeTable(spools.node, NodeCount)' <=> NodeTable(spools.node, NodeCount)
      /\ NodeProperties(NodeCount)' = NodeProperties(NodeCount)
  BY <1>1 DEF NodeTable, NodeProperties
<1>3. /\ EdgeTable(spools.edge, Len(graph) - NodeCount)'
           <=> EdgeTable(spools.edge, Len(graph) - NodeCount)
      /\ EdgeProperties(Len(graph) - NodeCount)' = EdgeProperties(Len(graph) - NodeCount)
  BY <1>1 DEF EdgeTable, EdgeProperties, Edge, Nodes
<1>4. Indexed' <=> Indexed
  BY DEF Indexed
<1>5. QED BY <1>2, <1>3, <1>4 DEF Complete

\* A step that leaves the stores alone.
LEMMA DataStays ==
  ASSUME DataInv, UNCHANGED <<graph, left, budget, spools, owned, tuples>>,
         phase' \in {"load", "finish"} => phase \in {"load", "finish"},
         phase' = "finish" => left = <<>>,
         phase' = "build" \/ phase' \in Range(Steps) \/ result' = "ok" =>
           phase = "build" \/ phase \in Range(Steps) \/ result = "ok",
         result' = "ok" => phase' \in {"leaving", "ended"}
  PROVE  DataInv'
<1>1. Range(Steps)' = Range(Steps)
  BY DEF Steps, Range
<1>2. RowsAfter /\ LoadedAt(Stores, NodesDone, EdgesDone) =>
        (RowsAfter /\ LoadedAt(Stores, NodesDone, EdgesDone))'
  <2>1. Stores' = Stores /\ NodesDone' = NodesDone /\ EdgesDone' = EdgesDone
    BY DEF Stores, NodesDone, EdgesDone, Done, NodeCount, Nodes
  <2>2. LoadedAt(Stores, NodesDone, EdgesDone) => LoadedAt(Stores, NodesDone, EdgesDone)'
    <3>1. PICK s, n, m : s = Stores /\ n = NodesDone /\ m = EdgesDone
      OBVIOUS
    <3>2. ASSUME LoadedAt(s, n, m)
          PROVE  LoadedAt(Stores, NodesDone, EdgesDone)'
      BY <2>1, <3>1, <3>2, LoadedNext
    <3>3. QED BY <3>1, <3>2
  <2>3. RowsAfter => RowsAfter'
    BY DEF RowsAfter, Done
  <2>4. QED BY <2>2, <2>3
<1>3. Complete => Complete'
  BY CompleteNext
<1>4. QED BY <1>1, <1>2, <1>3 DEF DataInv

\* The row a step takes.
LEMMA NextRow ==
  ASSUME BuildInv, RowsAfter, left # <<>>
  PROVE  /\ Head(left) = graph[Done + 1] /\ IsRow(graph[Done + 1])
         /\ Done + 1 \in 1 .. Len(graph)
         /\ left' = Tail(left) /\ graph' = graph => Done' = Done + 1 /\ RowsAfter'
<1>1. SpoolsAt
  BY DEF BuildInv
<1>2. left \in Seq(Range(graph)) /\ graph \in Graphs
  BY <1>1 DEF SpoolsAt
<1>3. Len(graph) \in Nat /\ \A i \in 1 .. Len(graph) : IsRow(graph[i])
  BY <1>2, GraphShape
<1>4. /\ Len(left) \in Nat /\ Len(left) >= 1 /\ Head(left) = left[1]
      /\ Len(Tail(left)) = Len(left) - 1
      /\ \A i \in 1 .. Len(left) - 1 : Tail(left)[i] = left[i + 1]
  BY <1>2
<1>5. /\ Done \in 0 .. Len(graph) /\ Len(left) = Len(graph) - Done
      /\ \A i \in 1 .. Len(left) : left[i] = graph[Done + i]
  BY <1>3, <1>4 DEF RowsAfter, Done
<1>6. Done + 1 \in 1 .. Len(graph) /\ Done \in Nat
  BY <1>3, <1>4, <1>5
<1>7. Head(left) = graph[Done + 1]
  <2>1. 1 \in 1 .. Len(left)
    BY <1>4
  <2>2. QED BY <1>4, <1>5, <2>1
<1>8. ASSUME left' = Tail(left), graph' = graph
      PROVE  Done' = Done + 1 /\ RowsAfter'
  <2>1. Len(left') = Len(left) - 1 /\ Len(left') \in Nat
    BY <1>4, <1>8
  <2>2. Done' = Len(graph) - Len(left')
    BY <1>8 DEF Done
  <2>3. Done' = Done + 1
    BY <1>3, <1>4, <1>5, <2>1, <2>2
  <2>4. ASSUME NEW i \in 1 .. Len(left')
        PROVE  left'[i] = graph'[Done' + i]
    <3>1. i \in 1 .. Len(left) - 1 /\ i + 1 \in 1 .. Len(left) /\ Done + (i + 1) = Done' + i
      BY <1>4, <1>6, <2>1, <2>3
    <3>2. left'[i] = left[i + 1]
      BY <1>4, <1>8, <3>1
    <3>3. left[i + 1] = graph[Done + (i + 1)]
      BY <1>5, <3>1
    <3>4. QED BY <1>8, <3>1, <3>2, <3>3
  <2>5. Done' \in 0 .. Len(graph')
    BY <1>3, <1>6, <1>8, <2>3
  <2>6. QED BY <2>1, <2>3, <2>4, <2>5 DEF RowsAfter
<1>9. QED BY <1>3, <1>6, <1>7, <1>8

\* Store keeps what has been pushed.
LEMMA StoreKeeps ==
  ASSUME NEW r, Shaped(r), Store(r)
  PROVE  Stores' = r
<1>1. spools' = r.spools /\ owned' = r.owned /\ tuples' = [x \in Streams |-> r.tuples[x]]
  BY DEF Store
<1>2. tuples' = r.tuples /\ r = [spools |-> r.spools, owned |-> r.owned, tuples |-> r.tuples]
  BY <1>1 DEF Shaped
<1>3. Stores' = [spools |-> spools', owned |-> owned', tuples |-> tuples']
  BY DEF Stores
<1>4. QED BY <1>1, <1>2, <1>3, Zenon

LEMMA LoadNodeData ==
  ASSUME BuildInv, DataInv, LoadNode
  PROVE  DataInv'
<1>1. /\ phase = "load" /\ phase' = "load" /\ left # <<>> /\ Head(left).kind = "node"
      /\ left' = Tail(left) /\ result' = result
      /\ UNCHANGED <<graph, budget>> /\ Store(PushNode(Stores, Head(left)))
  BY DEF LoadNode
<1>2. RowsAfter /\ LoadedAt(Stores, NodesDone, EdgesDone) /\ result # "ok"
  BY <1>1 DEF DataInv
<1>3. /\ Head(left) = graph[Done + 1] /\ IsRow(graph[Done + 1])
      /\ Done + 1 \in 1 .. Len(graph) /\ Done' = Done + 1 /\ RowsAfter'
  BY <1>1, <1>2, NextRow
<1>4. /\ NodeCount \in 0 .. Len(graph) /\ Len(graph) \in Nat
      /\ \A i \in 1 .. Len(graph) : graph[i].kind = "node" <=> i <= NodeCount
  BY GraphShape DEF BuildInv, SpoolsAt
<1>5. NodeCount' = NodeCount
  BY <1>1 DEF NodeCount, Nodes
<1>6. Done \in Nat /\ Done + 1 <= NodeCount
  BY <1>1, <1>2, <1>3, <1>4 DEF RowsAfter
<1>7. NodesDone = Done /\ EdgesDone = 0 /\ NodesDone' = Done + 1 /\ EdgesDone' = 0
  BY <1>3, <1>4, <1>5, <1>6 DEF NodesDone, EdgesDone
<1>8. PICK s : s = Stores
  OBVIOUS
<1>9. PICK n : n = Done
  OBVIOUS
<1>10. LoadedAt(PushNode(s, graph[n + 1]), n + 1, 0)
  <2>1. LoadedAt(s, n, 0) /\ n \in Nat /\ IsRow(graph[n + 1])
    BY <1>2, <1>3, <1>6, <1>7, <1>8, <1>9
  <2>2. QED BY <2>1, NodeLoads, Zenon
<1>11. PICK r : r = PushNode(s, graph[n + 1])
  OBVIOUS
<1>12. LoadedAt(r, n + 1, 0) /\ Shaped(r)
  BY <1>10, <1>11 DEF LoadedAt, Kept
<1>13. Stores' = r
  <2>1. Store(r)
    BY <1>1, <1>3, <1>8, <1>9, <1>11
  <2>2. QED BY <1>12, <2>1, StoreKeeps
<1>14. LoadedAt(Stores, NodesDone, EdgesDone)'
  <2>1. PICK k : k = n + 1
    OBVIOUS
  <2>2. k = NodesDone' /\ 0 = EdgesDone' /\ LoadedAt(r, k, 0) /\ r = Stores'
    BY <1>7, <1>9, <1>12, <1>13, <2>1
  <2>3. QED BY <1>1, <2>2, LoadedNext
<1>15. phase' # "build" /\ phase' \notin Range(Steps)' /\ result' # "ok" /\ phase' # "finish"
  <2>1. Range(Steps)' = Range(Steps)
    BY DEF Steps, Range
  <2>2. QED BY <1>1, <1>2, <2>1, StepList
<1>16. QED BY <1>1, <1>3, <1>14, <1>15 DEF DataInv

LEMMA LoadEdgeData ==
  ASSUME BuildInv, DataInv, LoadEdge
  PROVE  DataInv'
<1>1. /\ phase = "load" /\ phase' = "load" /\ left # <<>> /\ Head(left).kind = "edge"
      /\ left' = Tail(left) /\ result' = result
      /\ UNCHANGED <<graph, budget>> /\ Store(PushEdge(Stores, Head(left)))
  BY DEF LoadEdge
<1>2. RowsAfter /\ LoadedAt(Stores, NodesDone, EdgesDone) /\ result # "ok"
  BY <1>1 DEF DataInv
<1>3. /\ Head(left) = graph[Done + 1] /\ IsRow(graph[Done + 1])
      /\ Done + 1 \in 1 .. Len(graph) /\ Done' = Done + 1 /\ RowsAfter'
  BY <1>1, <1>2, NextRow
<1>4. /\ NodeCount \in 0 .. Len(graph) /\ Len(graph) \in Nat
      /\ \A i \in 1 .. Len(graph) : graph[i].kind = "node" <=> i <= NodeCount
  BY GraphShape DEF BuildInv, SpoolsAt
<1>5. NodeCount' = NodeCount
  BY <1>1 DEF NodeCount, Nodes
<1>6. Done \in Nat /\ ~(Done + 1 <= NodeCount) /\ NodeCount \in Nat
  BY <1>1, <1>2, <1>3, <1>4 DEF RowsAfter
<1>7. PICK m : m = EdgesDone
  OBVIOUS
<1>8. /\ NodesDone = NodeCount /\ NodesDone' = NodeCount /\ m \in Nat
      /\ EdgesDone' = m + 1 /\ NodeCount + (m + 1) = Done + 1
  BY <1>3, <1>4, <1>5, <1>6, <1>7 DEF NodesDone, EdgesDone
<1>9. PICK s : s = Stores
  OBVIOUS
<1>10. PICK n : n = NodeCount
  OBVIOUS
<1>11. Edge(m + 1) = graph[Done + 1]
  BY <1>8 DEF Edge, NodeCount
<1>12. LoadedAt(PushEdge(s, Edge(m + 1)), n, m + 1)
  <2>1. LoadedAt(s, n, m) /\ m \in Nat /\ IsRow(Edge(m + 1))
    BY <1>2, <1>3, <1>7, <1>8, <1>9, <1>10, <1>11
  <2>2. QED BY <2>1, EdgeLoads, Zenon
<1>13. PICK r : r = PushEdge(s, Edge(m + 1))
  OBVIOUS
<1>14. LoadedAt(r, n, m + 1) /\ Shaped(r)
  BY <1>12, <1>13 DEF LoadedAt, Kept
<1>15. Stores' = r
  <2>1. Store(r)
    BY <1>1, <1>3, <1>9, <1>11, <1>13
  <2>2. QED BY <1>14, <2>1, StoreKeeps
<1>16. LoadedAt(Stores, NodesDone, EdgesDone)'
  <2>1. PICK k : k = m + 1
    OBVIOUS
  <2>2. n = NodesDone' /\ k = EdgesDone' /\ LoadedAt(r, n, k) /\ r = Stores'
    BY <1>8, <1>10, <1>14, <1>15, <2>1
  <2>3. QED BY <1>1, <2>2, LoadedNext
<1>17. phase' # "build" /\ phase' \notin Range(Steps)' /\ result' # "ok" /\ phase' # "finish"
  <2>1. Range(Steps)' = Range(Steps)
    BY DEF Steps, Range
  <2>2. QED BY <1>1, <1>2, <2>1, StepList
<1>18. QED BY <1>1, <1>3, <1>16, <1>17 DEF DataInv

\* The steps of finish, one after the other.
LEMMA NextSteps ==
  /\ AfterStep("commit") = "schema" /\ AfterStep("schema") = "statistics"
  /\ AfterStep("statistics") = "validate" /\ AfterStep("validate") = "checkpoint"
  /\ AfterStep("checkpoint") = "leaving"
<1>1. /\ DOMAIN Steps = 1 .. 6 /\ Steps[1] = "commit" /\ Steps[2] = "schema"
      /\ Steps[3] = "statistics" /\ Steps[4] = "validate"
      /\ Steps[5] = "checkpoint" /\ Steps[6] = "leaving"
  BY DEF Steps
<1>2. 1 .. 6 = {1, 2, 3, 4, 5, 6}
  OBVIOUS
<1>3. ASSUME NEW k \in 1 .. 5
      PROVE  AfterStep(Steps[k]) = Steps[k + 1]
  <2> DEFINE c == CHOOSE i \in DOMAIN Steps : Steps[i] = Steps[k]
  <2>1. k \in DOMAIN Steps
    BY <1>1
  <2>2. c \in 1 .. 6 /\ Steps[c] = Steps[k]
    BY <1>1, <2>1
  <2>3. AfterStep(Steps[k]) = Steps[1 + c]
    BY DEF AfterStep
  <2> HIDE DEF c
  <2>4. c = k
    BY <1>1, <1>2, <2>2
  <2>5. 1 + c = k + 1
    BY <2>4
  <2>6. QED BY <2>3, <2>5
<1>4. /\ AfterStep(Steps[1]) = Steps[1 + 1] /\ AfterStep(Steps[2]) = Steps[2 + 1]
      /\ AfterStep(Steps[3]) = Steps[3 + 1] /\ AfterStep(Steps[4]) = Steps[4 + 1]
      /\ AfterStep(Steps[5]) = Steps[5 + 1]
  BY <1>3
<1>5. QED BY <1>1, <1>4

\* materialize_body flushes the last owners.
LEMMA MaterializeData ==
  ASSUME BuildInv, DataInv, Materialize
  PROVE  DataInv'
<1>1. /\ phase = "finish" /\ phase' = "build" /\ result' = result
      /\ UNCHANGED <<graph, budget, left, tuples>>
      /\ spools' = [t \in TableNames |->
                      IF t \in Primary THEN Flushed(owned[t], spools[t]) ELSE spools[t]]
  BY TableList DEF Materialize
<1>2. left = <<>> /\ RowsAfter /\ LoadedAt(Stores, NodesDone, EdgesDone) /\ result # "ok"
  BY <1>1 DEF DataInv
<1>3. NodesDone = NodeCount /\ EdgesDone = Len(graph) - NodeCount
  <2>1. Len(left) = 0
    BY <1>2
  <2>2. NodeCount \in 0 .. Len(graph) /\ Len(graph) \in Nat
    BY GraphShape DEF BuildInv, SpoolsAt
  <2>3. Done = Len(graph)
    BY <2>1, <2>2 DEF Done
  <2>4. QED BY <2>2, <2>3 DEF NodesDone, EdgesDone
<1>4. Stores.spools = spools /\ Stores.owned = owned /\ Stores.tuples = tuples
  BY DEF Stores
<1>5. /\ Kept(Stores)
      /\ NodeTable(spools.node, NodeCount) /\ EdgeTable(spools.edge, Len(graph) - NodeCount)
      /\ Tails(Stores) = NodeProperties(NodeCount)
      /\ Held(Stores, "edge_property") = EdgeProperties(Len(graph) - NodeCount)
  BY <1>2, <1>3, <1>4 DEF LoadedAt
<1>6. /\ IsSeq(spools.node_property)
      /\ \A i \in 1 .. Len(spools.node_property) : spools.node_property[i][1] = i
      /\ HandAt(spools.node_primary, owned.node_primary)
      /\ HandAt(spools.edge_property, owned.edge_property)
      /\ Held(Stores, "node_primary") = ByOwner(Range(spools.node_property))
      /\ Indexed => TuplesOf(tuples, Range(spools.node), Range(spools.node_property),
                             Range(spools.edge))
  BY <1>4, <1>5 DEF Kept
<1>7. /\ spools'["node"] = spools["node"] /\ spools'["edge"] = spools["edge"]
      /\ spools'["node_property"] = spools["node_property"]
      /\ spools'["node_primary"] = Flushed(owned["node_primary"], spools["node_primary"])
      /\ spools'["edge_property"] = Flushed(owned["edge_property"], spools["edge_property"])
  BY <1>1 DEF TableNames, Primary
<1>8. /\ FlushedTo(spools["node_primary"], owned["node_primary"], spools'["node_primary"])
      /\ FlushedTo(spools["edge_property"], owned["edge_property"], spools'["edge_property"])
  BY <1>6, <1>7, FlushSorts
<1>9. /\ IsSeq(spools'["node_primary"]) /\ Increasing(spools'["node_primary"])
      /\ Range(spools'["node_primary"]) = ByOwner(Range(spools.node_property))
      /\ IsSeq(spools'["edge_property"]) /\ Increasing(spools'["edge_property"])
      /\ Range(spools'["edge_property"]) = EdgeProperties(Len(graph) - NodeCount)
  BY <1>4, <1>5, <1>6, <1>8 DEF FlushedTo, Held
<1>10. {Tail(p) : p \in Range(spools.node_property)} = NodeProperties(NodeCount)
  BY <1>4, <1>5 DEF Tails
<1>11. NodeCount' = NodeCount
  BY <1>1 DEF NodeCount, Nodes
<1>12. /\ NodeTable(spools.node, NodeCount)' /\ NodeProperties(NodeCount)' = NodeProperties(NodeCount)
  BY <1>1, <1>5, <1>7, <1>11 DEF NodeTable, NodeProperties
<1>13. /\ EdgeTable(spools.edge, Len(graph) - NodeCount)'
       /\ EdgeProperties(Len(graph) - NodeCount)' = EdgeProperties(Len(graph) - NodeCount)
  <2>1. Len(graph') - NodeCount' = Len(graph) - NodeCount
    BY <1>1, <1>11
  <2>2. EdgeProperties(Len(graph) - NodeCount)' = EdgeProperties(Len(graph) - NodeCount)
    BY <1>1, <1>11, EdgesNext
  <2>3. PICK q, m : q = spools.edge /\ m = Len(graph) - NodeCount
    OBVIOUS
  <2>4. EdgeTable(q, m) /\ q = spools'.edge /\ m = Len(graph') - NodeCount'
    BY <1>5, <1>7, <2>1, <2>3
  <2>5. ASSUME EdgeTable(q, m), q = spools'.edge, m = Len(graph') - NodeCount'
        PROVE  EdgeTable(spools.edge, Len(graph) - NodeCount)'
    <3>1. graph' = graph
      BY <1>1
    <3>2. QED BY <2>5, <3>1 DEF EdgeTable, Edge, Nodes
  <2>6. QED BY <2>2, <2>4, <2>5
<1>14. Indexed' <=> Indexed
  BY <1>1 DEF Indexed
<1>15. Complete'
  BY <1>1, <1>6, <1>7, <1>9, <1>10, <1>12, <1>13, <1>14 DEF Complete
<1>16. QED BY <1>1, <1>2, <1>15 DEF DataInv

LEMMA InitData ==
  ASSUME Init
  PROVE  DataInv
<1>1. /\ graph \in Graphs /\ left = graph /\ phase = "load" /\ result = "none"
      /\ spools = [t \in TableNames |-> <<>>]
      /\ owned = [t \in Primary |-> [owner |-> 0, records |-> <<>>]]
      /\ tuples = [s \in Streams |-> <<>>]
  BY TableList DEF Init
<1>2. Len(graph) \in Nat /\ NodeCount \in 0 .. Len(graph)
  BY <1>1, GraphShape
<1>3. Done = 0 /\ NodesDone = 0 /\ EdgesDone = 0 /\ RowsAfter
  <2>1. Done = 0
    BY <1>1, <1>2 DEF Done
  <2>2. NodesDone = 0
    BY <1>2, <2>1 DEF NodesDone
  <2>3. EdgesDone = 0
    BY <2>1, <2>2 DEF EdgesDone
  <2>4. RowsAfter
    BY <1>1, <1>2, <2>1 DEF RowsAfter
  <2>5. QED BY <2>1, <2>2, <2>3, <2>4
<1>4. Stores.spools = spools /\ Stores.owned = owned /\ Stores.tuples = tuples
      /\ Stores = [spools |-> Stores.spools, owned |-> Stores.owned, tuples |-> Stores.tuples]
  BY DEF Stores
<1>5. /\ \A t \in TableNames : spools[t] = <<>>
      /\ \A t \in Primary : owned[t].owner = 0 /\ owned[t].records = <<>>
      /\ \A s \in Streams : tuples[s] = <<>>
      /\ spools = [t \in TableNames |-> spools[t]] /\ tuples = [s \in Streams |-> tuples[s]]
      /\ owned = [t \in Primary |-> [owner |-> owned[t].owner, records |-> owned[t].records]]
  BY <1>1
<1>6. Shaped(Stores)
  BY <1>4, <1>5 DEF Shaped
<1>7. /\ spools["node"] = <<>> /\ spools["edge"] = <<>> /\ spools["node_property"] = <<>>
      /\ spools["node_primary"] = <<>> /\ spools["edge_property"] = <<>>
  BY <1>5 DEF TableNames
<1>8. /\ owned["node_primary"].owner = 0 /\ owned["node_primary"].records = <<>>
      /\ owned["edge_property"].owner = 0 /\ owned["edge_property"].records = <<>>
  BY <1>5 DEF Primary
<1>9. /\ tuples["node"] = <<>> /\ tuples["edge"] = <<>> /\ tuples["property"] = <<>>
      /\ tuples["text"] = <<>> /\ tuples["numeric"] = <<>>
  BY <1>5 DEF Streams
<1>10. IsSeq(<<>>) /\ Len(<<>>) = 0 /\ Range(<<>>) = {}
  BY EmptyIsSeq
<1>11. PICK e : e = <<>>
  OBVIOUS
<1>12. IsSeq(e) /\ Len(e) = 0 /\ Range(e) = {}
  BY <1>10, <1>11
<1>13. Increasing(e)
  BY <1>12 DEF Increasing
<1>14. \A o : o.owner = 0 /\ o.records = e => HandAt(e, o)
  BY <1>12, <1>13 DEF HandAt
<1>15. ByOwner({}) = {} /\ Texts({}) = {} /\ Numbers({}) = {} /\ Ends({}) = {}
  BY DEF ByOwner, Texts, Numbers, Ends
<1>16. TuplesOf(tuples, Range(e), Range(e), Range(e))
  BY <1>9, <1>11, <1>12, <1>15 DEF TuplesOf
<1>17. /\ HandAt(spools["node_primary"], owned["node_primary"])
       /\ HandAt(spools["edge_property"], owned["edge_property"])
  BY <1>7, <1>8, <1>11, <1>14
<1>18. Held(Stores, "node_primary") = {} /\ Held(Stores, "edge_property") = {} /\ Tails(Stores) = {}
  BY <1>4, <1>7, <1>8, <1>10 DEF Held, Tails
<1>19. Kept(Stores)
  <2>1. /\ spools["node"] = e /\ spools["edge"] = e /\ spools["node_property"] = e
    BY <1>7, <1>11
  <2>2. /\ TuplesOf(tuples, Range(spools["node"]), Range(spools["node_property"]), Range(spools["edge"]))
        /\ ByOwner(Range(spools["node_property"])) = {}
        /\ Len(spools["node_property"]) = 0 /\ IsSeq(spools["node_property"])
        /\ IsSeq(spools["node"]) /\ IsSeq(spools["edge"])
    BY <1>12, <1>15, <1>16, <2>1
  <2>3. /\ TuplesOf(Stores.tuples, Range(Stores.spools.node), Range(Stores.spools.node_property),
                    Range(Stores.spools.edge))
        /\ Held(Stores, "node_primary") = ByOwner(Range(Stores.spools.node_property))
    BY <1>4, <1>18, <2>2
  <2>4. /\ HandAt(Stores.spools.node_primary, Stores.owned.node_primary)
        /\ HandAt(Stores.spools.edge_property, Stores.owned.edge_property)
    BY <1>4, <1>17
  <2>5. /\ IsSeq(Stores.spools.node) /\ IsSeq(Stores.spools.edge)
        /\ IsSeq(Stores.spools.node_property) /\ Len(Stores.spools.node_property) = 0
    BY <1>4, <2>2
  <2>6. QED BY <1>6, <2>3, <2>4, <2>5 DEF Kept
<1>20. NodeProperties(0) = {} /\ EdgeProperties(0) = {}
  BY PropertiesGrow
<1>21. LoadedAt(Stores, 0, 0)
  <2>1. NodeTable(e, 0) /\ EdgeTable(e, 0)
    BY <1>12 DEF NodeTable, EdgeTable
  <2>2. NodeTable(Stores.spools.node, 0) /\ EdgeTable(Stores.spools.edge, 0)
    BY <1>4, <1>7, <1>11, <2>1
  <2>3. Stores.owned.node_primary.owner <= 0 /\ Stores.owned.edge_property.owner <= 0
    BY <1>4, <1>8
  <2>4. QED BY <1>18, <1>19, <1>20, <2>2, <2>3 DEF LoadedAt
<1>22. phase \notin Range(Steps)
  BY <1>1, StepList
<1>23. QED BY <1>1, <1>3, <1>21, <1>22 DEF DataInv

LEMMA StepData ==
  ASSUME BuildInv, DataInv, [Next]_vars
  PROVE  DataInv'
<1>0. /\ Range(Steps)' = Range(Steps)
      /\ Range(Steps) = {"commit", "schema", "statistics", "validate", "checkpoint", "leaving"}
  BY StepList DEF Steps, Range
<1>1. CASE LoadNode
  BY <1>1, LoadNodeData
<1>2. CASE LoadEdge
  BY <1>2, LoadEdgeData
<1>3. CASE Materialize
  BY <1>3, MaterializeData
<1>4. CASE LoadFails \/ Dropped \/ RepackLate
  <2>1. /\ UNCHANGED <<graph, left, budget, spools, owned, tuples>>
        /\ phase \in {"load", "dropping"}
        /\ phase = "load" \/ result' = "error"
        /\ \/ phase' = "finish" /\ phase = "load" /\ left = <<>> /\ result' = result
           \/ phase' = "dropping" /\ result' = result
           \/ phase' = "ended" /\ result' = "error"
    BY <1>4 DEF LoadFails, Dropped, RepackLate, Drop, stores
  <2>2. result # "ok"
    BY <2>1 DEF DataInv
  <2>3. QED BY <1>0, <2>1, <2>2, DataStays
<1>5. CASE \/ \E s \in Streams : SortEnds(s) \/ SortFails(s)
           \/ SortEdges \/ PackIndexes \/ CleanerEnds
           \/ \E t \in Trees : WriterEnds(t) \/ WriterFails(t)
           \/ UNCHANGED vars
  <2>1. UNCHANGED <<graph, left, budget, spools, owned, tuples, phase, result>>
    BY <1>5 DEF SortEnds, SortFails, SortEdges, PackIndexes, CleanerEnds, WriterEnds, WriterFails,
                vars, stores
  <2>2. QED BY <1>0, <2>1, DataStays DEF DataInv
<1>6. CASE Join \/ SealFails
  <2>1. /\ UNCHANGED <<graph, left, budget, spools, owned, tuples>>
        /\ phase = "build"
        /\ \/ phase' = "commit" /\ result' = result
           \/ phase' = "ended" /\ result' = "error"
    BY <1>6 DEF Join, SealFails, GiveUp, Joined, stores
  <2>2. result # "ok"
    BY <2>1 DEF DataInv
  <2>3. QED BY <1>0, <2>1, <2>2, DataStays
<1>7. CASE FinishStep
  <2>1. /\ UNCHANGED <<graph, left, budget, spools, owned, tuples>>
        /\ phase \in Range(Steps) \ {"leaving"} /\ phase' = AfterStep(phase)
        /\ phase # "checkpoint" => result' = result
    BY <1>7 DEF FinishStep, stores
  <2>2. phase' \in Range(Steps) /\ (phase = "checkpoint" => phase' = "leaving")
    BY <2>1, StepList, NextSteps
  <2>3. result # "ok"
    BY <1>0, <2>1 DEF DataInv
  <2>4. result' = "ok" => phase' = "leaving"
    BY <2>1, <2>2, <2>3
  <2>5. QED BY <1>0, <2>1, <2>2, <2>4, DataStays
<1>8. CASE StepFails \/ Leave
  <2>1. /\ UNCHANGED <<graph, left, budget, spools, owned, tuples>>
        /\ \/ phase = "finish" /\ phase' = "dropping" /\ result' = result
           \/ phase \in Range(Steps) /\ phase' = "leaving" /\ result' = "error"
           \/ phase = "leaving" /\ phase' = "ended" /\ result' = result
    BY <1>8 DEF StepFails, Leave, Drop, stores
  <2>2. phase = "finish" => result # "ok"
    BY DEF DataInv
  <2>3. QED BY <1>0, <2>1, <2>2, DataStays
<1>9. QED
  BY <1>1, <1>2, <1>3, <1>4, <1>5, <1>6, <1>7, <1>8, Zenon DEF Next, Progress, Fault

-----------------------------------------------------------------------------
(* Where every tree is, and what is written there.                           *)

IndexesWanted == IF Indexed THEN EdgeNames \cup IndexesWith(tuples.numeric) ELSE {}
WantedTrees == TableNames \cup IndexesWanted

\* The trees that are being built have the roots the writers know.
Laid ==
  /\ DOMAIN place = WantedTrees
  /\ \A t \in TableNames : place[t] \in 1 .. 5 /\ roots[t] = place[t]
  /\ \A t \in IndexesWanted : place[t] = 5 + RootSlot[t] /\ slots[RootSlot[t]] = 5 + RootSlot[t]
  /\ \A t \in Trees : write[t] # "idle" => t \in WantedTrees

\* Every tree of the database, those that were written and those SQL has built.
TreesFinished ==
  /\ \A t \in WantedTrees : At(t) = Contents(t)
  /\ \A t \in Secondary \ WantedTrees : At(t) = SqlIndex(t)

StatsExact ==
  \A t \in Secondary \cup Primary :
    Cardinality({s \in stats : s[1] = t}) = IF Empty(t) THEN 0 ELSE 1

LayoutInv ==
  /\ phase \in Loading \cup {"build", "commit", "schema"} =>
       \A t, u \in TableNames : place[t] = place[u] => t = u
  /\ phase \in {"build", "commit", "schema"} =>
       Laid /\ \A t \in WantedTrees : write[t] = "ok" => At(t) = Contents(t)
  /\ phase \in {"commit", "schema"} => \A t \in WantedTrees : At(t) = Contents(t)
  /\ phase \in {"statistics", "validate", "checkpoint"} \/ result = "ok" => TreesFinished
  /\ phase \in {"validate", "checkpoint"} \/ result = "ok" => StatsExact

\* A sort that has succeeded has started the sorts that follow it.
SortsFollow ==
  Started => /\ sort["node"] # "idle"
             /\ \A s \in Streams : sort[s] = "ok" => \A x \in Following(s) : sort[x] # "idle"

\* Tables follow one another, and the indexes of a group start together.
Together(S) == \A t, u \in S : write[t] # "idle" => write[u] # "idle"
WritersFollow ==
  /\ Indexed => Started
  /\ write["node"] # "idle"
  /\ Dynamic => \A t \in TableNames : write[t] # "idle"
  /\ ~Dynamic => \A i \in 2 .. 5 : write[Tables[i - 1]] = "ok" => write[Tables[i]] # "idle"
  /\ Dynamic => Together(Range(NodeIndexes)) /\ Together(Range(EdgeIndexes))
  /\ ~Dynamic => \A b \in 0 .. Len(Prepared) : Together(Batch(b))

NoneFailed ==
  /\ phase # "dropping" /\ result # "error"
  /\ \A s \in Streams : sort[s] # "failed"
  /\ \A t \in Trees : write[t] # "failed"

TurnsInv ==
  /\ faults \in Nat /\ SortsFollow
  /\ phase = "build" => WritersFollow
  /\ faults = 0 => NoneFailed

\* The indexes that follow the four of EDGE.
Follows(r, p, n, q) ==
  /\ IsSeq(r) /\ Len(r) = 4 + n
  /\ \A i \in 1 .. 4 : r[i] = p[i]
  /\ \A i \in 1 .. n : r[4 + i] = q[i]

LEMMA FourAndMore ==
  ASSUME NEW S, NEW p \in Seq(S), NEW q \in Seq(S), Len(p) = 4, NEW n \in Nat, Len(q) = n
  PROVE  Follows(p \o q, p, n, q)
<1>1. /\ p \o q \in Seq(S) /\ Len(p \o q) = Len(p) + Len(q)
      /\ \A i \in 1 .. Len(p) + Len(q) :
           (p \o q)[i] = IF i <= Len(p) THEN p[i] ELSE q[i - Len(p)]
  BY ConcatProperties, Zenon
<1>2. PICK r : r = p \o q
  OBVIOUS
<1>3. r \in Seq(S) /\ Len(r) = 4 + n
  BY <1>1, <1>2
<1>4. \A i \in 1 .. 4 + n : r[i] = IF i <= 4 THEN p[i] ELSE q[i - 4]
  BY <1>1, <1>2
<1>5. \A i \in 1 .. 4 : r[i] = p[i]
  <2>1. \A i \in 1 .. 4 : i \in 1 .. 4 + n /\ i <= 4
    OBVIOUS
  <2>2. QED BY <1>4, <2>1
<1>6. \A i \in 1 .. n : r[4 + i] = q[i]
  <2>1. \A i \in 1 .. n : 4 + i \in 1 .. 4 + n /\ ~(4 + i <= 4) /\ (4 + i) - 4 = i
    OBVIOUS
  <2>2. QED BY <1>4, <2>1
<1>7. IsSeq(r)
  BY <1>3, SeqOver
<1>8. QED BY <1>2, <1>3, <1>5, <1>6, <1>7 DEF Follows

\* The lists of indexes, place by place.
LEMMA IndexPlaces ==
  /\ Len(IndexOrder) = 8 /\ DOMAIN IndexOrder = 1 .. 8
  /\ \A t \in EdgeNames \cup {"label", "keyid", "text", "numeric"} :
       RootSlot[t] \in 1 .. 8 /\ IndexOrder[RootSlot[t]] = t
  /\ \A i \in 1 .. 8 : /\ IndexOrder[i] \in EdgeNames \cup {"label", "keyid", "text", "numeric"}
                       /\ RootSlot[IndexOrder[i]] = i
  /\ RootSlot["numeric"] = 8
<1> DEFINE last == <<"label", "keyid", "text", "numeric">>
           S == EdgeNames \cup {"label", "keyid", "text", "numeric"}
<1>1. /\ EdgeIndexes \in Seq(S) /\ Len(EdgeIndexes) = 4 /\ last \in Seq(S) /\ Len(last) = 4
  BY DEF EdgeIndexes, EdgeNames
<1>2. /\ EdgeIndexes[1] = "from_type_to_id" /\ EdgeIndexes[2] = "to_type_from_id"
      /\ EdgeIndexes[3] = "type_from_to_id" /\ EdgeIndexes[4] = "type_to_from_id"
      /\ last[1] = "label" /\ last[2] = "keyid" /\ last[3] = "text" /\ last[4] = "numeric"
  BY DEF EdgeIndexes
<1>3. IndexOrder = EdgeIndexes \o last
  BY DEF IndexOrder
<1> HIDE DEF last, S
<1>4. Follows(IndexOrder, EdgeIndexes, 4, last)
  BY <1>1, <1>3, FourAndMore
<1>5. IsSeq(IndexOrder) /\ Len(IndexOrder) = 8
  BY <1>4 DEF Follows
<1>6. /\ IndexOrder[1] = "from_type_to_id" /\ IndexOrder[2] = "to_type_from_id"
      /\ IndexOrder[3] = "type_from_to_id" /\ IndexOrder[4] = "type_to_from_id"
      /\ IndexOrder[5] = "label" /\ IndexOrder[6] = "keyid"
      /\ IndexOrder[7] = "text" /\ IndexOrder[8] = "numeric"
  BY <1>2, <1>4 DEF Follows
<1>7. /\ RootSlot["from_type_to_id"] = 1 /\ RootSlot["to_type_from_id"] = 2
      /\ RootSlot["type_from_to_id"] = 3 /\ RootSlot["type_to_from_id"] = 4
      /\ RootSlot["label"] = 5 /\ RootSlot["keyid"] = 6
      /\ RootSlot["text"] = 7 /\ RootSlot["numeric"] = 8
  BY DEF RootSlot
<1>8. DOMAIN IndexOrder = 1 .. 8
  BY <1>5, SeqParts
<1>9. \A t \in S : RootSlot[t] \in 1 .. 8 /\ IndexOrder[RootSlot[t]] = t
  BY <1>6, <1>7 DEF S, EdgeNames
<1>10. \A i \in 1 .. 8 : IndexOrder[i] \in S /\ RootSlot[IndexOrder[i]] = i
  <2>1. \A i \in 1 .. 8 : i = 1 \/ i = 2 \/ i = 3 \/ i = 4 \/ i = 5 \/ i = 6 \/ i = 7 \/ i = 8
    OBVIOUS
  <2>2. QED BY <1>6, <1>7, <2>1 DEF S, EdgeNames
<1>11. QED BY <1>5, <1>7, <1>8, <1>9, <1>10 DEF S

LEMMA PreparedList ==
  /\ Len(Prepared) \in 7 .. 8 /\ DOMAIN Prepared = 1 .. Len(Prepared)
  /\ Range(Prepared) = EdgeNames \cup IndexesWith(tuples.numeric)
  /\ \A i, j \in DOMAIN Prepared : Prepared[i] = Prepared[j] => i = j
<1> DEFINE S == EdgeNames \cup {"label", "keyid", "text", "numeric"}
<1>1. /\ EdgeIndexes \in Seq(S) /\ Len(EdgeIndexes) = 4
      /\ EdgeIndexes[1] = "from_type_to_id" /\ EdgeIndexes[2] = "to_type_from_id"
      /\ EdgeIndexes[3] = "type_from_to_id" /\ EdgeIndexes[4] = "type_to_from_id"
  BY DEF EdgeIndexes, EdgeNames
<1>2. tuples.numeric = None =>
        /\ NodeIndexes \in Seq(S) /\ Len(NodeIndexes) = 3
        /\ NodeIndexes[1] = "label" /\ NodeIndexes[2] = "keyid" /\ NodeIndexes[3] = "text"
  BY DEF NodeIndexes
<1>3. tuples.numeric # None =>
        /\ NodeIndexes \in Seq(S) /\ Len(NodeIndexes) = 4
        /\ NodeIndexes[1] = "label" /\ NodeIndexes[2] = "keyid"
        /\ NodeIndexes[3] = "numeric" /\ NodeIndexes[4] = "text"
  BY DEF NodeIndexes
<1> HIDE DEF S
<1> DEFINE n == IF tuples.numeric = None THEN 3 ELSE 4
<1>4. NodeIndexes \in Seq(S) /\ Len(NodeIndexes) = n /\ n \in Nat
  BY <1>2, <1>3
<1> HIDE DEF n
<1>5. Follows(Prepared, EdgeIndexes, n, NodeIndexes)
  BY <1>1, <1>4, FourAndMore DEF Prepared
<1>6. n \in 3 .. 4 /\ (tuples.numeric = None => n = 3) /\ (tuples.numeric # None => n = 4)
  BY DEF n
<1>7. DOMAIN Prepared = 1 .. Len(Prepared) /\ Len(Prepared) \in 7 .. 8
  BY <1>5, <1>6, SeqParts DEF Follows
<1>8. /\ Prepared[1] = "from_type_to_id" /\ Prepared[2] = "to_type_from_id"
      /\ Prepared[3] = "type_from_to_id" /\ Prepared[4] = "type_to_from_id"
  BY <1>1, <1>5 DEF Follows
<1>9. CASE tuples.numeric = None
  <2>1. /\ Len(Prepared) = 7 /\ Prepared[5] = "label" /\ Prepared[6] = "keyid"
        /\ Prepared[7] = "text"
    BY <1>2, <1>5, <1>6, <1>9 DEF Follows
  <2>2. DOMAIN Prepared = {1, 2, 3, 4, 5, 6, 7}
    BY <1>7, <2>1
  <2>3. Range(Prepared) = {Prepared[1], Prepared[2], Prepared[3], Prepared[4], Prepared[5],
                           Prepared[6], Prepared[7]}
    BY <2>2 DEF Range
  <2>4. Range(Prepared) = EdgeNames \cup {"label", "keyid", "text"}
    BY <1>8, <2>1, <2>3 DEF EdgeNames
  <2>5. \A i, j \in DOMAIN Prepared : Prepared[i] = Prepared[j] => i = j
    BY <1>8, <2>1, <2>2
  <2>6. QED BY <1>7, <1>9, <2>4, <2>5 DEF IndexesWith
<1>10. CASE tuples.numeric # None
  <2>1. /\ Len(Prepared) = 8 /\ Prepared[5] = "label" /\ Prepared[6] = "keyid"
        /\ Prepared[7] = "numeric" /\ Prepared[8] = "text"
    BY <1>3, <1>5, <1>6, <1>10 DEF Follows
  <2>2. DOMAIN Prepared = {1, 2, 3, 4, 5, 6, 7, 8}
    BY <1>7, <2>1
  <2>3. Range(Prepared) = {Prepared[1], Prepared[2], Prepared[3], Prepared[4], Prepared[5],
                           Prepared[6], Prepared[7], Prepared[8]}
    BY <2>2 DEF Range
  <2>4. Range(Prepared) = EdgeNames \cup {"label", "keyid", "text", "numeric"}
    BY <1>8, <2>1, <2>3 DEF EdgeNames
  <2>5. \A i, j \in DOMAIN Prepared : Prepared[i] = Prepared[j] => i = j
    BY <1>8, <2>1, <2>2
  <2>6. QED BY <1>7, <1>10, <2>4, <2>5 DEF IndexesWith
<1>11. QED BY <1>9, <1>10

LEMMA WantedList ==
  /\ Wanted = WantedTrees /\ WantedTrees \subseteq Trees
  /\ IndexesWanted \cap TableNames = {}
  /\ IndexesWanted \subseteq EdgeNames \cup {"label", "keyid", "text", "numeric"}
  /\ Secondary = EdgeNames \cup {"label", "keyid", "text", "numeric"}
<1>1. Wanted = WantedTrees
  BY TableList, PreparedList DEF Wanted, WantedTrees, IndexesWanted
<1>2. IndexesWanted \subseteq EdgeNames \cup {"label", "keyid", "text", "numeric"}
  BY DEF IndexesWanted, IndexesWith
<1>3. IndexesWanted \cap TableNames = {}
  BY <1>2 DEF EdgeNames, TableNames
<1>4. /\ DOMAIN NodeFields = {"label", "keyid", "numeric", "text"}
      /\ DOMAIN EdgeFields = EdgeNames
  BY DEF NodeFields, EdgeFields, EdgeNames
<1>5. QED BY <1>1, <1>2, <1>3, <1>4, TreeList DEF WantedTrees, Secondary

\* The root a writer is given is where the tree is.
LEMMA RootsKnown ==
  ASSUME Laid, NEW t \in WantedTrees
  PROVE  RootOf(t) = place[t]
<1>1. CASE t \in TableNames
  BY <1>1, TableList DEF RootOf, Laid
<1>2. CASE t \in IndexesWanted
  BY <1>2, TableList, WantedList DEF RootOf, Laid
<1>3. QED BY <1>1, <1>2 DEF WantedTrees

\* No two trees share a root.
LEMMA RootsApart ==
  ASSUME Laid, \A t, u \in TableNames : place[t] = place[u] => t = u,
         NEW t \in WantedTrees, NEW u \in WantedTrees, place[t] = place[u]
  PROVE  t = u
<1>1. /\ \A x \in TableNames : place[x] \in 1 .. 5
      /\ \A x \in IndexesWanted : place[x] = 5 + RootSlot[x]
  BY DEF Laid
<1>2. \A x \in IndexesWanted : RootSlot[x] \in 1 .. 8 /\ IndexOrder[RootSlot[x]] = x
  BY WantedList, IndexPlaces
<1>3. CASE t \in TableNames /\ u \in TableNames
  BY <1>3
<1>4. CASE t \in IndexesWanted /\ u \in IndexesWanted
  BY <1>1, <1>2, <1>4
<1>5. CASE t \in TableNames /\ u \in IndexesWanted
  BY <1>1, <1>2, <1>5
<1>6. CASE t \in IndexesWanted /\ u \in TableNames
  BY <1>1, <1>2, <1>6
<1>7. QED BY <1>3, <1>4, <1>5, <1>6 DEF WantedTrees

\* create_roots gives every index a page of its own.
LEMMA RootsCreated ==
  ASSUME CreateRoots, DOMAIN place = TableNames
  PROVE  /\ DOMAIN place' = TableNames \cup EdgeNames \cup IndexesWith(tuples.numeric)
         /\ \A t \in TableNames : place'[t] = place[t]
         /\ \A t \in EdgeNames \cup IndexesWith(tuples.numeric) :
              place'[t] = 5 + RootSlot[t] /\ slots'[RootSlot[t]] = 5 + RootSlot[t]
<1> DEFINE names == IF tuples.numeric = None THEN SubSeq(IndexOrder, 1, 7) ELSE IndexOrder
           N == IF tuples.numeric = None THEN 7 ELSE 8
           S == EdgeNames \cup IndexesWith(tuples.numeric)
<1>1. /\ slots' = [i \in DOMAIN names |-> Len(Tables) + i]
      /\ place' = [t \in DOMAIN place \cup Range(names) |->
                     IF t \in DOMAIN place THEN place[t]
                     ELSE Len(Tables) + CHOOSE i \in DOMAIN names : names[i] = t]
  BY DEF CreateRoots
<1>2. DOMAIN names = 1 .. N /\ \A i \in 1 .. N : names[i] = IndexOrder[i]
  <2>1. CASE tuples.numeric = None
    BY <2>1, IndexPlaces
  <2>2. CASE tuples.numeric # None
    BY <2>2, IndexPlaces
  <2>3. QED BY <2>1, <2>2
<1> HIDE DEF names
<1>3. N \in 7 .. 8
  OBVIOUS
<1>4. \A i \in 1 .. N : names[i] \in S /\ RootSlot[names[i]] = i
  <2>1. ASSUME NEW i \in 1 .. N
        PROVE  names[i] \in S /\ RootSlot[names[i]] = i
    <3>1. i \in 1 .. 8 /\ names[i] = IndexOrder[i]
      BY <1>2, <1>3
    <3>2. /\ IndexOrder[i] \in EdgeNames \cup {"label", "keyid", "text", "numeric"}
          /\ RootSlot[IndexOrder[i]] = i
      BY <3>1, IndexPlaces
    <3>3. tuples.numeric = None => IndexOrder[i] # "numeric"
      BY <3>1, <3>2, IndexPlaces
    <3>4. QED BY <3>1, <3>2, <3>3 DEF IndexesWith
  <2>2. QED BY <2>1
<1>5. \A t \in S : RootSlot[t] \in 1 .. N /\ names[RootSlot[t]] = t
  <2>1. ASSUME NEW t \in S
        PROVE  RootSlot[t] \in 1 .. N /\ names[RootSlot[t]] = t
    <3>1. t \in EdgeNames \cup {"label", "keyid", "text", "numeric"}
      BY DEF IndexesWith
    <3>2. RootSlot[t] \in 1 .. 8 /\ IndexOrder[RootSlot[t]] = t
      BY <3>1, IndexPlaces
    <3>3. tuples.numeric = None => RootSlot[t] # 8
      <4>1. t = "numeric" => tuples.numeric # None
        BY DEF IndexesWith, EdgeNames
      <4>2. IndexOrder[8] = "numeric"
        BY IndexPlaces
      <4>3. QED BY <3>2, <4>1, <4>2
    <3>4. RootSlot[t] \in 1 .. N
      BY <3>2, <3>3
    <3>5. QED BY <1>2, <3>2, <3>4
  <2>2. QED BY <2>1
<1>6. Range(names) = S
  <2>1. Range(names) = {names[i] : i \in 1 .. N}
    BY <1>2 DEF Range
  <2>2. QED BY <1>4, <1>5, <2>1
<1>7. S \cap TableNames = {}
  BY DEF IndexesWith, EdgeNames, TableNames
<1>8. ASSUME NEW t \in S
      PROVE  place'[t] = 5 + RootSlot[t] /\ slots'[RootSlot[t]] = 5 + RootSlot[t]
  <2> DEFINE c == CHOOSE i \in DOMAIN names : names[i] = t
  <2>1. c \in DOMAIN names /\ names[c] = t
    BY <1>2, <1>5
  <2>2. place'[t] = Len(Tables) + c
    BY <1>1, <1>6, <1>7
  <2> HIDE DEF c
  <2>3. c = RootSlot[t]
    BY <1>2, <1>4, <2>1
  <2>4. slots'[RootSlot[t]] = Len(Tables) + RootSlot[t]
    BY <1>1, <1>2, <1>5
  <2>5. QED BY <2>2, <2>3, <2>4, TableList
<1>9. QED BY <1>1, <1>6, <1>7, <1>8

\* VACUUM keeps the roots apart.
LEMMA RepackApart ==
  ASSUME RootsAt, phase \in Loading, Repack,
         \A t, u \in TableNames : place[t] = place[u] => t = u
  PROVE  \A t, u \in TableNames : place'[t] = place'[u] => t = u
<1>1. DOMAIN place = TableNames /\ Range(place) = 1 .. 5
  BY TableList DEF RootsAt
<1>2. CASE place' = place
  BY <1>2
<1>3. CASE place' # place
  <2>1. place' = [t \in DOMAIN place |-> (place[t] % Cardinality(DOMAIN place)) + 1]
    BY <1>3 DEF Repack, Moved
  <2>2. place' = [t \in TableNames |-> (place[t] % 5) + 1]
    BY <1>1, <2>1, TableCount
  <2>3. \A t \in TableNames : place[t] \in 1 .. 5
    BY <1>1 DEF Range
  <2>4. \A j, k \in 1 .. 5 : (j % 5) + 1 = (k % 5) + 1 => j = k
    OBVIOUS
  <2>5. SUFFICES ASSUME NEW t \in TableNames, NEW u \in TableNames, place'[t] = place'[u]
                 PROVE  t = u
    OBVIOUS
  <2>6. (place[t] % 5) + 1 = (place[u] % 5) + 1
    BY <2>2, <2>5
  <2>7. place[t] = place[u]
    BY <2>3, <2>4, <2>6
  <2>8. QED BY <2>7
<1>4. QED BY <1>2, <1>3

\* A step that leaves places, pages and spools alone.
LEMMA LayoutStays ==
  ASSUME LayoutInv, UNCHANGED <<budget, spools, tuples, roots, slots, place, pages, stats>>,
         phase' \in Loading \cup {"build", "commit", "schema"} =>
           phase \in Loading \cup {"build", "commit", "schema"},
         phase' \in {"build", "commit", "schema"} =>
           /\ phase \in {"build", "commit", "schema"}
           /\ \A t \in Trees : write'[t] # "idle" => t \in WantedTrees
           /\ \A t \in WantedTrees : write'[t] = "ok" => write[t] = "ok",
         phase' \in {"commit", "schema"} =>
           phase \in {"commit", "schema"} \/ \A t \in WantedTrees : write[t] = "ok",
         phase' \in {"statistics", "validate", "checkpoint"} \/ result' = "ok" =>
           phase \in {"statistics", "validate", "checkpoint"} \/ result = "ok",
         phase' \in {"validate", "checkpoint"} \/ result' = "ok" =>
           phase \in {"validate", "checkpoint"} \/ result = "ok"
  PROVE  LayoutInv'
<1>1. WantedTrees' = WantedTrees /\ IndexesWanted' = IndexesWanted
  BY DEF WantedTrees, IndexesWanted, Indexed
<1>2. /\ \A t : At(t)' = At(t) /\ Contents(t)' = Contents(t)
      /\ \A t : SqlIndex(t)' = SqlIndex(t)
      /\ \A t : Empty(t)' = Empty(t)
  BY DEF At, Contents, Packed, SqlIndex, Empty
<1>3. phase' \in {"build", "commit", "schema"} =>
        Laid' /\ \A t \in WantedTrees : write'[t] = "ok" => At(t)' = Contents(t)'
  <2>1. ASSUME phase' \in {"build", "commit", "schema"}
        PROVE  Laid' /\ \A t \in WantedTrees : write'[t] = "ok" => At(t)' = Contents(t)'
    <3>1. Laid /\ \A t \in WantedTrees : write[t] = "ok" => At(t) = Contents(t)
      BY <2>1 DEF LayoutInv
    <3>2. /\ \A t \in Trees : write'[t] # "idle" => t \in WantedTrees
          /\ \A t \in WantedTrees : write'[t] = "ok" => write[t] = "ok"
      BY <2>1
    <3>3. Laid'
      BY <1>1, <3>1, <3>2 DEF Laid
    <3>4. QED BY <1>2, <3>1, <3>2, <3>3
  <2>2. QED BY <2>1
<1>4. phase' \in {"commit", "schema"} => \A t \in WantedTrees : At(t)' = Contents(t)'
  BY <1>2 DEF LayoutInv
<1>5. TreesFinished => TreesFinished'
  BY <1>1, <1>2 DEF TreesFinished, Secondary
<1>6. StatsExact => StatsExact'
  BY <1>2 DEF StatsExact, Secondary
<1>7. Loading' = Loading
  BY DEF Loading
<1>8. phase' \in Loading \cup {"build", "commit", "schema"} =>
        \A t, u \in TableNames : place'[t] = place'[u] => t = u
  BY DEF LayoutInv
<1>9. phase' \in {"statistics", "validate", "checkpoint"} \/ result' = "ok" => TreesFinished'
  BY <1>5 DEF LayoutInv
<1>10. phase' \in {"validate", "checkpoint"} \/ result' = "ok" => StatsExact'
  BY <1>6 DEF LayoutInv
<1>11. QED BY <1>1, <1>3, <1>4, <1>7, <1>8, <1>9, <1>10 DEF LayoutInv

\* Before the build, and after an error.
LEMMA LayoutEmpty ==
  ASSUME phase' \in Loading \cup {"leaving", "ended"}, result' # "ok",
         phase' \in Loading => \A t, u \in TableNames : place'[t] = place'[u] => t = u
  PROVE  LayoutInv'
<1>1. Loading' = Loading
  BY DEF Loading
<1>2. phase' \notin {"build", "commit", "schema", "statistics", "validate", "checkpoint"}
  BY PhaseSets
<1>3. QED BY <1>1, <1>2 DEF LayoutInv

LEMMA LoadLayout ==
  ASSUME BuildInv, DataInv, LayoutInv, LoadNode \/ LoadEdge \/ LoadFails \/ RepackLate
  PROVE  LayoutInv'
<1>1. phase = "load" /\ phase' \in Loading /\ result' = result
  BY PhaseSets DEF LoadNode, LoadEdge, LoadFails, RepackLate, Drop
<1>2. phase \in Loading /\ result # "ok" /\ RootsAt
  BY <1>1, PhaseSets DEF DataInv, BuildInv
<1>3. \A t, u \in TableNames : place[t] = place[u] => t = u
  BY <1>2 DEF LayoutInv
<1>4. place' = place \/ Repack
  BY DEF LoadNode, LoadEdge, LoadFails, RepackLate, disk
<1>5. \A t, u \in TableNames : place'[t] = place'[u] => t = u
  <2>1. CASE place' = place
    BY <1>3, <2>1
  <2>2. CASE Repack
    BY <1>2, <1>3, <2>2, RepackApart
  <2>3. QED BY <1>4, <2>1, <2>2
<1>6. QED BY <1>1, <1>2, <1>5, LayoutEmpty

\* materialize_body tells the writers where the trees are.
LEMMA MaterializeLayout ==
  ASSUME BuildInv, DataInv, LayoutInv, Materialize
  PROVE  LayoutInv'
<1>1. /\ phase = "finish" /\ phase' = "build" /\ result' = result
      /\ budget' = budget /\ tuples' = tuples /\ roots' = [t \in TableNames |-> place'[t]]
      /\ IF Indexed THEN CreateRoots ELSE UNCHANGED <<slots, place>>
      /\ write' = [t \in Trees |-> IF t \in TableNames /\ (Dynamic \/ t = "node")
                                   THEN "running" ELSE "idle"]
  BY TableList DEF Materialize, RefreshRoots
<1>2. phase \in Loading /\ result # "ok"
  BY <1>1, PhaseSets DEF DataInv
<1>3. DOMAIN place = TableNames /\ Range(place) = 1 .. 5
  BY <1>2, TableList DEF BuildInv, RootsAt
<1>4. /\ \A t \in TableNames : place[t] \in 1 .. 5
      /\ \A t, u \in TableNames : place[t] = place[u] => t = u
  BY <1>2, <1>3 DEF LayoutInv, Range
<1>5. WantedTrees' = WantedTrees /\ IndexesWanted' = IndexesWanted
  BY <1>1 DEF WantedTrees, IndexesWanted, Indexed
<1>6. /\ DOMAIN place' = WantedTrees
      /\ \A t \in TableNames : place'[t] = place[t]
      /\ \A t \in IndexesWanted : place'[t] = 5 + RootSlot[t] /\ slots'[RootSlot[t]] = 5 + RootSlot[t]
  <2>1. CASE Indexed
    <3>1. CreateRoots
      BY <1>1, <2>1
    <3>2. /\ DOMAIN place' = TableNames \cup EdgeNames \cup IndexesWith(tuples.numeric)
          /\ \A t \in TableNames : place'[t] = place[t]
          /\ \A t \in EdgeNames \cup IndexesWith(tuples.numeric) :
               place'[t] = 5 + RootSlot[t] /\ slots'[RootSlot[t]] = 5 + RootSlot[t]
      BY <1>3, <3>1, RootsCreated
    <3>3. IndexesWanted = EdgeNames \cup IndexesWith(tuples.numeric)
      BY <2>1 DEF IndexesWanted
    <3>4. QED BY <3>2, <3>3 DEF WantedTrees
  <2>2. CASE ~Indexed
    <3>1. place' = place /\ IndexesWanted = {}
      BY <1>1, <2>2 DEF IndexesWanted
    <3>2. QED BY <1>3, <3>1 DEF WantedTrees
  <2>3. QED BY <2>1, <2>2
<1>7. Laid'
  <2>1. \A t \in Trees : write'[t] # "idle" => t \in WantedTrees
    BY <1>1 DEF WantedTrees
  <2>2. \A t \in TableNames : roots'[t] = place'[t] /\ place'[t] \in 1 .. 5
    BY <1>1, <1>4, <1>6
  <2>3. QED BY <1>5, <1>6, <2>1, <2>2 DEF Laid
<1>8. \A t \in WantedTrees : write'[t] # "ok"
  <2>1. \A t \in Trees : write'[t] # "ok"
    BY <1>1
  <2>2. QED BY <2>1, WantedList
<1>9. \A t, u \in TableNames : place'[t] = place'[u] => t = u
  BY <1>4, <1>6
<1>10. phase' \notin {"commit", "schema", "statistics", "validate", "checkpoint"} /\ result' # "ok"
  BY <1>1, <1>2
<1>11. QED BY <1>1, <1>5, <1>7, <1>8, <1>9, <1>10 DEF LayoutInv

\* A writer writes its own tree.
LEMMA WriterEndsLayout ==
  ASSUME BuildInv, DataInv, LayoutInv, NEW t \in Trees, WriterEnds(t)
  PROVE  LayoutInv'
<1>1. /\ write[t] = "running" /\ pages' = [pages EXCEPT ![RootOf(t)] = Contents(t)]
      /\ UNCHANGED <<graph, left, budget, spools, tuples, roots, slots, place, stats, phase, result>>
  BY DEF WriterEnds, Written, stores
<1>2. PICK ok \in BOOLEAN :
        write' = [x \in Trees |-> IF x = t THEN IF ok THEN "ok" ELSE "failed"
                                  ELSE IF ok /\ x \in NextTable(t) THEN "running" ELSE write[x]]
  <2>1. (t \in Primary => Increasing(spools[t])) \in BOOLEAN
    OBVIOUS
  <2>2. QED BY <2>1 DEF WriterEnds, Written
<1>3. phase = "build"
  <2>1. phase \notin Loading /\ phase \notin Late
    BY <1>1, NoneRuns DEF BuildInv, ThreadsAt
  <2>2. QED BY <2>1, PhaseSets, StepList DEF BuildInv, TypeOK
<1>4. /\ Laid /\ result # "ok" /\ \A x \in WantedTrees : write[x] = "ok" => At(x) = Contents(x)
      /\ \A x, y \in TableNames : place[x] = place[y] => x = y
  BY <1>3, StepList DEF LayoutInv, DataInv
<1>5. t \in WantedTrees /\ WantedTrees \subseteq Trees /\ DOMAIN place = WantedTrees
  BY <1>1, <1>4, WantedList DEF Laid
<1>6. pages' = [pages EXCEPT ![place[t]] = Contents(t)] /\ place[t] \in DOMAIN pages
  <2>1. RootOf(t) = place[t]
    BY <1>4, <1>5, RootsKnown
  <2>2. place[t] \in DOMAIN pages
    BY <1>5 DEF BuildInv, TypeOK, Range
  <2>3. QED BY <1>1, <2>1, <2>2
<1>7. WantedTrees' = WantedTrees /\ IndexesWanted' = IndexesWanted
  BY <1>1 DEF WantedTrees, IndexesWanted, Indexed
<1>8. \A x : Contents(x)' = Contents(x)
  BY <1>1 DEF Contents, Packed
<1>9. \A x \in WantedTrees : At(x)' = IF x = t THEN Contents(t) ELSE At(x)
  <2>1. ASSUME NEW x \in WantedTrees
        PROVE  pages'[place[x]] = IF x = t THEN Contents(t) ELSE pages[place[x]]
    <3>1. CASE x = t
      BY <1>6, <3>1
    <3>2. CASE x # t
      <4>1. place[x] # place[t]
        BY <1>4, <1>5, <3>2, RootsApart
      <4>2. place[x] \in DOMAIN pages
        BY <1>5 DEF BuildInv, TypeOK, Range
      <4>3. QED BY <1>6, <3>2, <4>1, <4>2
    <3>3. QED BY <3>1, <3>2
  <2>2. QED BY <1>1, <2>1 DEF At
<1>10. \A x \in WantedTrees : write'[x] = "ok" => At(x)' = Contents(x)'
  <2>1. ASSUME NEW x \in WantedTrees, write'[x] = "ok", x # t
        PROVE  write[x] = "ok"
    BY <1>2, <1>5, <2>1
  <2>2. QED BY <1>4, <1>8, <1>9, <2>1
<1>11. Laid'
  <2>1. ASSUME NEW x \in Trees, write'[x] # "idle"
        PROVE  x \in WantedTrees
    <3>1. x = t \/ x \in NextTable(t) \/ write[x] # "idle"
      BY <1>2, <2>1
    <3>2. NextTable(t) \subseteq WantedTrees
      BY NextTableList DEF WantedTrees
    <3>3. QED BY <1>4, <1>5, <3>1, <3>2 DEF Laid
  <2>2. QED BY <1>1, <1>4, <1>7, <2>1 DEF Laid
<1>12. \A x, y \in TableNames : place'[x] = place'[y] => x = y
  BY <1>1, <1>4
<1>13. phase' = "build" /\ result' # "ok"
  BY <1>1, <1>3, <1>4
<1>14. QED BY <1>7, <1>10, <1>11, <1>12, <1>13 DEF LayoutInv

\* The schema builds the missing indexes behind the pages of the others.
LEMMA SchemaLayout ==
  ASSUME BuildInv, DataInv, LayoutInv, FinishStep, phase = "schema"
  PROVE  LayoutInv'
<1> DEFINE new == Secondary \ DOMAIN place
           S == EdgeNames \cup {"label", "keyid", "text", "numeric"}
<1>1. /\ phase' = "statistics" /\ result' = result /\ BuildSchema
      /\ UNCHANGED <<budget, spools, tuples, write>>
  BY NextSteps DEF FinishStep, stores, threads
<1>2. /\ Laid /\ result # "ok" /\ \A t \in WantedTrees : At(t) = Contents(t)
  BY StepList DEF LayoutInv, DataInv
<1>3. /\ DOMAIN place = WantedTrees /\ DOMAIN pages = Range(place) /\ new = Secondary \ WantedTrees
      /\ \A t \in WantedTrees : place[t] \in 1 .. 13 /\ place[t] \in DOMAIN pages
  <2>1. DOMAIN place = WantedTrees /\ DOMAIN pages = Range(place)
    BY <1>2 DEF Laid, BuildInv, TypeOK
  <2>2. \A t \in TableNames : place[t] \in 1 .. 13
    BY <1>2 DEF Laid
  <2>3. \A t \in IndexesWanted : place[t] \in 1 .. 13
    BY <1>2, WantedList, IndexPlaces DEF Laid
  <2>4. QED BY <2>1, <2>2, <2>3 DEF WantedTrees, Range
<1>4. /\ place' = [t \in WantedTrees \cup new |->
                     IF t \in new THEN 13 + CHOOSE i \in 1 .. 8 : IndexOrder[i] = t ELSE place[t]]
      /\ pages' = [p \in Range(place') |->
                     IF p \in DOMAIN pages THEN pages[p]
                     ELSE SqlIndex(CHOOSE t \in new : place'[t] = p)]
  <2>1. Len(Tables) + Len(IndexOrder) = 13 /\ DOMAIN IndexOrder = 1 .. 8
    BY TableList, IndexPlaces
  <2>2. place' = [t \in DOMAIN place \cup new |->
                    IF t \in new
                    THEN Len(Tables) + Len(IndexOrder)
                           + CHOOSE i \in DOMAIN IndexOrder : IndexOrder[i] = t
                    ELSE place[t]]
    BY <1>1 DEF BuildSchema
  <2>3. pages' = [p \in Range(place') |->
                    IF p \in DOMAIN pages THEN pages[p]
                    ELSE SqlIndex(CHOOSE t \in new : place'[t] = p)]
    BY <1>1, <2>2 DEF BuildSchema
  <2>4. QED BY <1>3, <2>1, <2>2, <2>3
<1>5. new \subseteq S /\ \A t \in S : RootSlot[t] \in 1 .. 8 /\ IndexOrder[RootSlot[t]] = t
  BY WantedList, IndexPlaces
<1>6. \A t \in WantedTrees : t \notin new /\ place'[t] = place[t]
  BY <1>3, <1>4
<1> HIDE DEF new, S
<1>7. ASSUME NEW t \in new
      PROVE  place'[t] = 13 + RootSlot[t]
  <2> DEFINE c == CHOOSE i \in 1 .. 8 : IndexOrder[i] = t
  <2>1. c \in 1 .. 8 /\ IndexOrder[c] = t
    BY <1>5
  <2>2. place'[t] = 13 + c
    BY <1>4
  <2> HIDE DEF c
  <2>3. c = RootSlot[t]
    BY <2>1, IndexPlaces
  <2>4. QED BY <2>2, <2>3
<1>8. \A t \in WantedTrees : pages'[place'[t]] = pages[place[t]]
  <2>1. ASSUME NEW t \in WantedTrees
        PROVE  pages'[place'[t]] = pages[place[t]]
    <3>1. place'[t] \in Range(place') /\ place'[t] \in DOMAIN pages
      BY <1>3, <1>4, <1>6 DEF Range
    <3>2. QED BY <1>4, <1>6, <3>1
  <2>2. QED BY <2>1
<1>9. ASSUME NEW t \in new
      PROVE  pages'[place'[t]] = SqlIndex(t)
  <2> DEFINE u == CHOOSE x \in new : place'[x] = place'[t]
  <2>1. u \in new /\ place'[u] = place'[t]
    OBVIOUS
  <2>2. place'[t] \in Range(place')
    BY <1>4 DEF Range
  <2>3. place'[t] \notin DOMAIN pages
    <3>1. \A p \in DOMAIN pages : p \in 1 .. 13
      BY <1>3 DEF Range
    <3>2. RootSlot[t] \in 1 .. 8
      BY <1>5
    <3>3. place'[t] = 13 + RootSlot[t]
      BY <1>7
    <3>4. QED BY <3>1, <3>2, <3>3
  <2>4. pages'[place'[t]] = SqlIndex(u)
    BY <1>4, <2>2, <2>3
  <2> HIDE DEF u
  <2>5. u = t
    <3>1. /\ RootSlot[t] \in 1 .. 8 /\ RootSlot[u] \in 1 .. 8
          /\ IndexOrder[RootSlot[t]] = t /\ IndexOrder[RootSlot[u]] = u
      BY <1>5, <2>1
    <3>2. 13 + RootSlot[t] = 13 + RootSlot[u]
      BY <1>7, <2>1
    <3>3. RootSlot[t] = RootSlot[u]
      BY <3>1, <3>2
    <3>4. QED BY <3>1, <3>3
  <2>6. QED BY <2>4, <2>5
<1>10. WantedTrees' = WantedTrees /\ Secondary' = Secondary
  BY <1>1 DEF WantedTrees, IndexesWanted, Indexed, Secondary
<1>11. \A t : Contents(t)' = Contents(t)
  BY <1>1 DEF Contents, Packed
<1>12. \A t \in WantedTrees : At(t)' = At(t)
  BY <1>8 DEF At
<1>13. At("edge")' = At("edge") /\ At("node")' = At("node")
       /\ At("node_property")' = At("node_property")
  BY <1>12 DEF WantedTrees, TableNames
<1>14. \A t : SqlIndex(t)' = SqlIndex(t)
  BY <1>13 DEF SqlIndex
<1>15. \A t \in Secondary \ WantedTrees : At(t)' = SqlIndex(t)'
  BY <1>3, <1>9, <1>14 DEF At
<1>16. TreesFinished'
  BY <1>2, <1>10, <1>11, <1>12, <1>15 DEF TreesFinished
<1>17. Loading' = Loading /\ "statistics" \notin Loading
  BY PhaseSets DEF Loading
<1>18. QED BY <1>1, <1>2, <1>16, <1>17 DEF LayoutInv

\* publish_statistics: one row for every index that is not empty.
LEMMA StatisticsLayout ==
  ASSUME BuildInv, DataInv, LayoutInv, FinishStep, phase = "statistics"
  PROVE  LayoutInv'
<1>1. /\ phase' = "validate" /\ result' = result /\ PublishStatistics
      /\ UNCHANGED <<budget, spools, tuples, place, pages>>
  BY NextSteps DEF FinishStep, stores
<1>2. TreesFinished /\ result # "ok"
  BY StepList DEF LayoutInv, DataInv
<1>3. /\ \A t : At(t)' = At(t) /\ Contents(t)' = Contents(t)
      /\ \A t : SqlIndex(t)' = SqlIndex(t)
      /\ \A t : Empty(t)' = Empty(t)
      /\ WantedTrees' = WantedTrees /\ Secondary' = Secondary
  BY <1>1 DEF At, Contents, Packed, SqlIndex, Empty, WantedTrees, IndexesWanted, Indexed, Secondary
<1>4. TreesFinished'
  BY <1>2, <1>3 DEF TreesFinished
<1> DEFINE A == (Secondary \cup {"node_primary"}) \ Built
           B == {i \in A : ~Empty(i)}
<1>5. stats' = {<<t, "packed">> : t \in Built} \cup {<<t, "analyzed">> : t \in B}
  BY <1>1 DEF PublishStatistics
<1>6. ASSUME NEW t \in (Secondary \cup Primary) \cap WantedTrees
      PROVE  t \in Built <=> ~Empty(t)
  <2>1. At(t) = Contents(t)
    BY <1>2 DEF TreesFinished
  <2>2. t \notin {"node", "edge", "node_property"}
    BY WantedList DEF Primary, EdgeNames
  <2>3. t \in Wanted \ {"node", "edge", "node_property"}
    BY <2>2, WantedList
  <2>4. CASE t \in Primary
    <3>1. t \in TableNames
      BY <2>4 DEF Primary, TableNames
    <3>2. At(t) = spools[t] /\ (Empty(t) <=> At(t) = <<>>)
      BY <2>1, <3>1, TableList DEF Contents, Empty
    <3>3. t \in Built <=> spools[t] # <<>>
      BY <2>3, <2>4 DEF Built
    <3>4. QED BY <3>2, <3>3
  <2>5. CASE t \notin Primary
    <3>1. t \in Secondary
      BY <2>5
    <3>2. t \notin TableNames
      BY <3>1, WantedList DEF TableNames, EdgeNames
    <3>3. At(t) = Packed(t) /\ (Empty(t) <=> At(t) = {})
      BY <2>1, <3>2, TableList DEF Contents, Empty
    <3>4. t \in Built <=> Packed(t) # {}
      BY <2>3, <2>5 DEF Built
    <3>5. QED BY <3>3, <3>4
  <2>6. QED BY <2>4, <2>5
<1>7. Built \subseteq WantedTrees /\ Primary \subseteq WantedTrees
  BY WantedList DEF Built, WantedTrees, Primary, TableNames
<1> HIDE DEF A
<1>8. ASSUME NEW t \in Secondary \cup Primary
      PROVE  Cardinality({s \in stats' : s[1] = t}) = IF Empty(t) THEN 0 ELSE 1
  <2> DEFINE C == {s \in stats' : s[1] = t}
  <2>1. t \in Built => ~Empty(t)
    BY <1>6, <1>7
  <2>2. C = {<<x, "packed">> : x \in Built \cap {t}} \cup {<<x, "analyzed">> : x \in B \cap {t}}
    BY <1>5
  <2>3. CASE t \in Built
    <3>1. Built \cap {t} = {t} /\ B \cap {t} = {}
      BY <2>3 DEF A
    <3>2. C = {<<t, "packed">>}
      BY <2>2, <3>1
    <3> HIDE DEF C
    <3>3. Cardinality(C) = 1
      BY <3>2, FS_Singleton
    <3>4. QED BY <2>1, <2>3, <3>3 DEF C
  <2>4. CASE t \notin Built /\ ~Empty(t)
    <3>1. t \in Secondary \cup {"node_primary"}
      <4>1. t \in Secondary \/ t \in Primary
        OBVIOUS
      <4>2. t \in Primary => t \in Built
        BY <1>6, <1>7, <2>4
      <4>3. QED BY <2>4, <4>1, <4>2
    <3>2. Built \cap {t} = {} /\ B \cap {t} = {t}
      BY <2>4, <3>1 DEF A
    <3>3. C = {<<t, "analyzed">>}
      BY <2>2, <3>2
    <3> HIDE DEF C
    <3>4. Cardinality(C) = 1
      BY <3>3, FS_Singleton
    <3>5. QED BY <2>4, <3>4 DEF C
  <2>5. CASE t \notin Built /\ Empty(t)
    <3>1. Built \cap {t} = {} /\ B \cap {t} = {}
      BY <2>5
    <3>2. C = {}
      BY <2>2, <3>1
    <3> HIDE DEF C
    <3>3. Cardinality(C) = 0
      BY <3>2, FS_EmptySet
    <3>4. QED BY <2>5, <3>3 DEF C
  <2>6. QED BY <2>1, <2>3, <2>4, <2>5
<1>9. StatsExact'
  BY <1>3, <1>8 DEF StatsExact
<1>10. Loading' = Loading /\ "validate" \notin Loading
  BY PhaseSets DEF Loading
<1>11. QED BY <1>1, <1>2, <1>4, <1>9, <1>10 DEF LayoutInv

LEMMA InitLayout ==
  ASSUME Init
  PROVE  LayoutInv
<1>1. /\ phase = "load" /\ result = "none" /\ place = roots
      /\ roots = [t \in TableNames |-> CHOOSE i \in 1 .. 5 : Tables[i] = t]
  BY TableList DEF Init
<1>2. \A t \in TableNames : \E i \in 1 .. 5 : Tables[i] = t
  BY TableList DEF Range
<1>3. \A t \in TableNames : place[t] \in 1 .. 5 /\ Tables[place[t]] = t
  BY <1>1, <1>2
<1>4. \A t, u \in TableNames : place[t] = place[u] => t = u
  BY <1>3
<1>5. QED BY <1>1, <1>4 DEF LayoutInv

\* The writers that begin are wanted, and none of them is done.
LEMMA PackIndexesLayout ==
  ASSUME BuildInv, LayoutInv, PackIndexes
  PROVE  LayoutInv'
<1>1. /\ phase = "build" /\ UNCHANGED <<phase, result>>
      /\ UNCHANGED <<budget, spools, tuples, roots, slots, place, pages, stats>>
  BY DEF PackIndexes, stores, disk
<1>2. PICK S : write' = Spawn(write, S) /\ S \subseteq IndexesWanted
  <2>1. MayPackNodes => Range(NodeIndexes) \subseteq IndexesWanted
    BY StreamList DEF MayPackNodes, Dynamic, IndexesWanted
  <2>2. MayPackEdges => Range(EdgeIndexes) \subseteq IndexesWanted
    BY EdgeList DEF MayPackEdges, Dynamic, IndexesWanted
  <2>3. \A b : MayPack(b) => Batch(b) \subseteq IndexesWanted
    <3>1. \A b : Batch(b) \subseteq Range(Prepared)
      BY DEF Batch, Range
    <3>2. QED BY <3>1, PreparedList DEF MayPack, IndexesWanted
  <2>4. QED BY <2>1, <2>2, <2>3 DEF PackIndexes
<1>3. \A t \in Trees : /\ write'[t] # "idle" => t \in S \/ write[t] # "idle"
                       /\ write'[t] = "ok" => write[t] = "ok"
  BY <1>2 DEF Spawn, BuildInv, TypeOK
<1>4. /\ \A t \in Trees : write'[t] # "idle" => t \in WantedTrees
      /\ \A t \in WantedTrees : write'[t] = "ok" => write[t] = "ok"
  BY <1>1, <1>2, <1>3, WantedList DEF LayoutInv, Laid, WantedTrees
<1>5. QED BY <1>1, <1>4, LayoutStays

LEMMA WriterFailsLayout ==
  ASSUME BuildInv, LayoutInv, NEW t \in Trees, WriterFails(t)
  PROVE  LayoutInv'
<1>1. /\ write[t] = "running" /\ UNCHANGED <<phase, result>>
      /\ UNCHANGED <<budget, spools, tuples, roots, slots, place, pages, stats>>
      /\ write' = [x \in Trees |-> IF x = t THEN "failed" ELSE write[x]]
  BY DEF WriterFails, Written, stores, disk
<1>2. \A x \in Trees : /\ write'[x] # "idle" => write[x] # "idle"
                       /\ write'[x] = "ok" => write[x] = "ok"
  BY <1>1
<1>3. phase \notin {"commit", "schema"}
  BY <1>1, NoneRuns, PhaseSets DEF BuildInv, ThreadsAt
<1>4. phase = "build" => /\ \A x \in Trees : write'[x] # "idle" => x \in WantedTrees
                         /\ \A x \in WantedTrees : write'[x] = "ok" => write[x] = "ok"
  BY <1>2, WantedList DEF LayoutInv, Laid
<1>5. QED BY <1>1, <1>3, <1>4, LayoutStays

LEMMA StepLayout ==
  ASSUME BuildInv, DataInv, LayoutInv, [Next]_vars
  PROVE  LayoutInv'
<1>1. CASE LoadNode \/ LoadEdge \/ LoadFails \/ RepackLate
  BY <1>1, LoadLayout
<1>2. CASE Materialize
  BY <1>2, MaterializeLayout
<1>3. CASE PackIndexes
  BY <1>3, PackIndexesLayout
<1>4. ASSUME NEW t \in Trees, WriterEnds(t) \/ WriterFails(t)
      PROVE  LayoutInv'
  BY <1>4, WriterEndsLayout, WriterFailsLayout
<1>5. CASE \/ \E s \in Streams : SortEnds(s) \/ SortFails(s)
           \/ SortEdges \/ CleanerEnds \/ UNCHANGED vars
  <2>1. UNCHANGED <<budget, spools, tuples, roots, slots, place, pages, stats, write, phase, result>>
    BY <1>5 DEF SortEnds, SortFails, SortEdges, CleanerEnds, vars, stores, disk, threads
  <2>2. phase \in {"build", "commit", "schema"} => \A t \in Trees : write[t] # "idle" => t \in WantedTrees
    BY DEF LayoutInv, Laid
  <2>3. QED BY <2>1, <2>2, LayoutStays
<1>6. CASE Dropped
  BY <1>6, PhaseSets, LayoutEmpty DEF Dropped
<1>7. CASE Join
  <2>1. /\ phase = "build" /\ UNCHANGED <<budget, spools, tuples, roots, slots, place, pages, stats>>
        /\ UNCHANGED write
    BY <1>7 DEF Join, Joined, stores, disk
  <2>2. CASE AllOk(write, Wanted)
    <3>1. phase' = "commit" /\ result' = result
      BY <1>7, <2>2 DEF Join
    <3>2. \A t \in WantedTrees : write[t] = "ok"
      BY <2>2, WantedList DEF AllOk
    <3>3. \A t \in Trees : write[t] # "idle" => t \in WantedTrees
      BY <2>1 DEF LayoutInv, Laid
    <3>4. result # "ok"
      BY <2>1 DEF DataInv
    <3>5. QED BY <2>1, <3>1, <3>2, <3>3, <3>4, LayoutStays
  <2>3. CASE ~AllOk(write, Wanted)
    BY <1>7, <2>3, PhaseSets, LayoutEmpty DEF Join, GiveUp
  <2>4. QED BY <2>2, <2>3
<1>8. CASE SealFails
  BY <1>8, PhaseSets, LayoutEmpty DEF SealFails, GiveUp
<1>9. CASE FinishStep
  <2>1. CASE phase = "schema"
    BY <1>9, <2>1, SchemaLayout
  <2>2. CASE phase = "statistics"
    BY <1>9, <2>2, StatisticsLayout
  <2>3. CASE phase \notin {"schema", "statistics"}
    <3>1. UNCHANGED <<budget, spools, tuples, roots, slots, place, pages, stats, write>>
      BY <1>9, <2>3 DEF FinishStep, stores, threads
    <3>2. \/ phase = "commit" /\ phase' = "schema" /\ result' = result
          \/ phase = "validate" /\ phase' = "checkpoint" /\ result' = result
          \/ phase = "checkpoint" /\ phase' = "leaving"
      BY <1>9, <2>3, StepList, NextSteps DEF FinishStep
    <3>3. phase = "commit" => \A t \in Trees : write[t] # "idle" => t \in WantedTrees
      BY DEF LayoutInv, Laid
    <3>4. QED BY <3>1, <3>2, <3>3, PhaseSets, LayoutStays
  <2>4. QED BY <2>1, <2>2, <2>3
<1>10. CASE StepFails
  <2>1. CASE phase = "finish"
    <3>1. phase' = "dropping" /\ result' = result /\ place' = place
      BY <1>10, <2>1 DEF StepFails, Drop, disk
    <3>2. \A t, u \in TableNames : place[t] = place[u] => t = u
      BY <2>1, PhaseSets DEF LayoutInv
    <3>3. result # "ok"
      BY <2>1 DEF DataInv
    <3>4. QED BY <3>1, <3>2, <3>3, PhaseSets, LayoutEmpty
  <2>2. CASE phase # "finish"
    BY <1>10, <2>2, PhaseSets, LayoutEmpty DEF StepFails
  <2>3. QED BY <2>1, <2>2
<1>11. CASE Leave
  <2>1. /\ phase = "leaving" /\ phase' = "ended" /\ result' = result
        /\ UNCHANGED <<budget, spools, tuples, roots, slots, place, pages, stats>>
    BY <1>11 DEF Leave, stores, disk
  <2>2. QED BY <2>1, PhaseSets, LayoutStays
<1>12. QED
  BY <1>1, <1>2, <1>3, <1>4, <1>5, <1>6, <1>7, <1>8, <1>9, <1>10, <1>11, Zenon
     DEF Next, Progress, Fault

-----------------------------------------------------------------------------
(* What is packed from the tuples is what SQL would build.                   *)

LEMMA ThreeFields ==
  ASSUME NEW x, NEW f, NEW a, NEW b, NEW c, f = <<a, b, c>>
  PROVE  Project(x, f) = <<x[a], x[b], x[c]>>
<1>1. DOMAIN f = 1 .. 3 /\ f[1] = a /\ f[2] = b /\ f[3] = c
  OBVIOUS
<1>2. Project(x, f) = [i \in 1 .. 3 |-> x[f[i]]]
  BY <1>1 DEF Project
<1>3. QED BY <1>1, <1>2

LEMMA FourFields ==
  ASSUME NEW x, NEW f, DOMAIN f = 1 .. 4
  PROVE  Project(x, f) = <<x[f[1]], x[f[2]], x[f[3]], x[f[4]]>>
<1>1. Project(x, f) = [i \in 1 .. 4 |-> x[f[i]]]
  BY DEF Project
<1>2. QED BY <1>1

LEMMA FiveFields ==
  ASSUME NEW x, NEW f, NEW a, NEW b, NEW c, NEW d, f = <<a, b, c, d>>
  PROVE  Project(x, Append(f, 4)) = <<x[a], x[b], x[c], x[d], x[4]>>
<1>1. f[1] = a /\ f[2] = b /\ f[3] = c /\ f[4] = d /\ Len(f) = 4
  OBVIOUS
<1>2. IsSeq(f)
  <2>1. f \in Seq({a, b, c, d})
    OBVIOUS
  <2>2. QED BY <2>1, SeqOver, Zenon
<1> DEFINE g == Append(f, 4)
<1> HIDE DEF g
<1>3. DOMAIN g = 1 .. 5 /\ g[1] = a /\ g[2] = b /\ g[3] = c /\ g[4] = d /\ g[5] = 4
  <2>1. Grown(f, 4, g)
    BY <1>2, AppendGrows DEF g
  <2>2. QED BY <1>1, <2>1, SeqParts DEF Grown
<1>4. Project(x, g) = [i \in 1 .. 5 |-> x[g[i]]]
  BY <1>3 DEF Project
<1>5. Project(x, g) = <<x[a], x[b], x[c], x[d], x[4]>>
  BY <1>3, <1>4
<1>6. QED BY <1>5 DEF g

\* The tables as the tuples were made from them.
TablesKept == /\ At("node") = spools["node"] /\ At("edge") = spools["edge"]
              /\ At("node_property") = spools["node_property"]

LEMMA EdgeIndexIsSql ==
  ASSUME TuplesOf(tuples, Range(spools.node), Range(spools.node_property), Range(spools.edge)),
         TablesKept, NEW t \in EdgeNames
  PROVE  Packed(t) = SqlIndex(t)
<1> DEFINE E == Range(spools["edge"])
           f(e) == <<e[2], e[3], e[4], e[1]>>
<1>1. Range(tuples.edge) = {f(e) : e \in E} /\ At("edge") = spools["edge"]
  BY DEF TuplesOf, Ends, TablesKept
<1>2. /\ t \in DOMAIN EdgeFields
      /\ Packed(t) = {Project(x, Append(EdgeFields[t], 4)) : x \in Range(tuples.edge)}
  BY EdgeList DEF Packed, EdgeFields, EdgeNames
<1>3. /\ EdgeFields["from_type_to_id"] = <<1, 3, 2, 4>> /\ EdgeFields["to_type_from_id"] = <<2, 3, 1, 4>>
      /\ EdgeFields["type_from_to_id"] = <<3, 1, 2, 4>> /\ EdgeFields["type_to_from_id"] = <<3, 2, 1, 4>>
  BY DEF EdgeFields
<1> DEFINE p(e) == Project(f(e), Append(EdgeFields[t], 4))
           s(e) == LET by == [from |-> e[2], to |-> e[3], type |-> e[4], id |-> e[1]]
                   IN CASE t = "from_type_to_id" -> <<by.from, by.type, by.to, by.id, by.id>>
                        [] t = "to_type_from_id" -> <<by.to, by.type, by.from, by.id, by.id>>
                        [] t = "type_from_to_id" -> <<by.type, by.from, by.to, by.id, by.id>>
                        [] t = "type_to_from_id" -> <<by.type, by.to, by.from, by.id, by.id>>
<1>4. Packed(t) = {p(e) : e \in E}
  BY <1>1, <1>2
<1>5. SqlIndex(t) = {s(e) : e \in E}
  BY <1>1, <1>2 DEF SqlIndex, EdgeNames
<1> HIDE DEF p, s
<1>6. ASSUME NEW e
      PROVE  p(e) = s(e)
  <2>1. PICK x : x = f(e)
    OBVIOUS
  <2>2. x[1] = e[2] /\ x[2] = e[3] /\ x[3] = e[4] /\ x[4] = e[1]
    BY <2>1
  <2>3. PICK g : g = EdgeFields[t] /\ p(e) = Project(x, Append(g, 4))
    BY <2>1 DEF p
  <2>4. CASE t = "from_type_to_id"
    <3>1. s(e) = <<e[2], e[4], e[3], e[1], e[1]>>
      BY <2>4 DEF s
    <3>2. g = <<1, 3, 2, 4>>
      BY <1>3, <2>3, <2>4
    <3>3. Project(x, Append(g, 4)) = <<x[1], x[3], x[2], x[4], x[4]>>
      BY <3>2, FiveFields, Zenon
    <3>4. QED BY <2>2, <2>3, <3>1, <3>3 DEF p
  <2>5. CASE t = "to_type_from_id"
    <3>1. s(e) = <<e[3], e[4], e[2], e[1], e[1]>>
      BY <2>5 DEF s
    <3>2. g = <<2, 3, 1, 4>>
      BY <1>3, <2>3, <2>5
    <3>3. Project(x, Append(g, 4)) = <<x[2], x[3], x[1], x[4], x[4]>>
      BY <3>2, FiveFields, Zenon
    <3>4. QED BY <2>2, <2>3, <3>1, <3>3 DEF p
  <2>6. CASE t = "type_from_to_id"
    <3>1. s(e) = <<e[4], e[2], e[3], e[1], e[1]>>
      BY <2>6 DEF s
    <3>2. g = <<3, 1, 2, 4>>
      BY <1>3, <2>3, <2>6
    <3>3. Project(x, Append(g, 4)) = <<x[3], x[1], x[2], x[4], x[4]>>
      BY <3>2, FiveFields, Zenon
    <3>4. QED BY <2>2, <2>3, <3>1, <3>3 DEF p
  <2>7. CASE t = "type_to_from_id"
    <3>1. s(e) = <<e[4], e[3], e[2], e[1], e[1]>>
      BY <2>7 DEF s
    <3>2. g = <<3, 2, 1, 4>>
      BY <1>3, <2>3, <2>7
    <3>3. Project(x, Append(g, 4)) = <<x[3], x[2], x[1], x[4], x[4]>>
      BY <3>2, FiveFields, Zenon
    <3>4. QED BY <2>2, <2>3, <3>1, <3>3 DEF p
  <2>8. QED BY <2>4, <2>5, <2>6, <2>7 DEF EdgeNames
<1>7. QED BY <1>4, <1>5, <1>6

LEMMA NodeIndexIsSql ==
  ASSUME TuplesOf(tuples, Range(spools.node), Range(spools.node_property), Range(spools.edge)),
         TablesKept, NEW t \in IndexesWith(tuples.numeric)
  PROVE  Packed(t) = SqlIndex(t)
<1> DEFINE N == Range(spools["node"])
           P == Range(spools["node_property"])
           U == {q \in P : Is(q[4], {"integer", "real"})}
           V == {q \in P : Is(q[4], {"text"})}
<1>1. /\ Range(tuples.node) = N /\ At("node") = spools["node"]
      /\ Range(tuples.property) = {<<p[2], p[3], p[1]>> : p \in P}
      /\ At("node_property") = spools["node_property"]
      /\ Range(tuples.text) = {<<p[3], Prefix(p[4][2]), p[2], p[1]>> : p \in V}
      /\ tuples.numeric # None =>
           Range(tuples.numeric) = {<<p[3], p[4][2], p[2], p[1]>> : p \in U}
  BY DEF TuplesOf, ByOwner, Texts, Numbers, TablesKept
<1>2. /\ NodeFields["label"] = <<2, 1, 1>> /\ NodeFields["keyid"] = <<2, 1, 3>>
      /\ NodeFields["numeric"] = <<1, 2, 3, 4>> /\ NodeFields["text"] = <<1, 2, 3, 4>>
      /\ NodeStream["label"] = "node" /\ NodeStream["keyid"] = "property"
      /\ NodeStream["numeric"] = "numeric" /\ NodeStream["text"] = "text"
  BY DEF NodeFields, NodeStream
<1>3. t \in {"label", "keyid", "text", "numeric"} /\ (t = "numeric" => tuples.numeric # None)
  BY DEF IndexesWith
<1>4. t \notin EdgeNames /\ DOMAIN EdgeFields = EdgeNames
  BY <1>3 DEF EdgeNames, EdgeFields
<1>5. Packed(t) = {Project(x, NodeFields[t]) : x \in Range(tuples[NodeStream[t]])}
  BY <1>4, EdgeList DEF Packed
<1>6. CASE t = "label"
  <2> DEFINE f(q) == q
             p(q) == Project(f(q), NodeFields[t])
             s(q) == <<q[2], q[1], q[1]>>
  <2>1. SqlIndex(t) = {s(q) : q \in N}
    BY <1>1, <1>4, <1>6 DEF SqlIndex
  <2>2. Packed(t) = {p(q) : q \in N}
    BY <1>1, <1>2, <1>3, <1>5, <1>6
  <2> HIDE DEF p, s
  <2>3. ASSUME NEW q
        PROVE  p(q) = s(q)
    <3>1. PICK x : x = f(q)
      OBVIOUS
    <3>2. PICK g : g = NodeFields[t] /\ p(q) = Project(x, g)
      BY <3>1 DEF p
    <3>3. g = <<2, 1, 1>>
      BY <1>2, <1>6, <3>2
    <3>4. Project(x, g) = <<x[2], x[1], x[1]>>
      BY <3>3, ThreeFields, Zenon
    <3>5. x = q
      BY <3>1
    <3>6. QED BY <3>2, <3>4, <3>5 DEF s
  <2>4. QED BY <2>1, <2>2, <2>3
<1>7. CASE t = "keyid"
  <2> DEFINE f(q) == <<q[2], q[3], q[1]>>
             p(q) == Project(f(q), NodeFields[t])
             s(q) == <<q[3], q[2], q[1]>>
  <2>1. SqlIndex(t) = {s(q) : q \in P}
    BY <1>1, <1>4, <1>7 DEF SqlIndex
  <2>2. Packed(t) = {p(q) : q \in P}
    <3>1. Packed(t) = {Project(x, NodeFields[t]) : x \in Range(tuples["property"])}
      BY <1>2, <1>5, <1>7
    <3>2. Range(tuples["property"]) = {f(q) : q \in P}
      BY <1>1, <1>3, <1>7
    <3> HIDE DEF f, P
    <3>3. QED BY <3>1, <3>2 DEF p
  <2> HIDE DEF p, s
  <2>3. ASSUME NEW q
        PROVE  p(q) = s(q)
    <3>1. PICK x : x = f(q)
      OBVIOUS
    <3>2. PICK g : g = NodeFields[t] /\ p(q) = Project(x, g)
      BY <3>1 DEF p
    <3>3. g = <<2, 1, 3>>
      BY <1>2, <1>7, <3>2
    <3>4. Project(x, g) = <<x[2], x[1], x[3]>>
      BY <3>3, ThreeFields, Zenon
    <3>5. x[1] = q[2] /\ x[2] = q[3] /\ x[3] = q[1]
      BY <3>1
    <3>6. QED BY <3>2, <3>4, <3>5 DEF s
  <2>4. QED BY <2>1, <2>2, <2>3
<1>8. CASE t = "numeric"
  <2> DEFINE f(q) == <<q[3], q[4][2], q[2], q[1]>>
             p(q) == Project(f(q), NodeFields[t])
             s(q) == <<q[3], q[4][2], q[2], q[1]>>
  <2>1. SqlIndex(t) = {s(q) : q \in U}
    BY <1>1, <1>4, <1>8 DEF SqlIndex
  <2>2. Packed(t) = {p(q) : q \in U}
    <3>1. Packed(t) = {Project(x, NodeFields[t]) : x \in Range(tuples["numeric"])}
      BY <1>2, <1>5, <1>8
    <3>2. Range(tuples["numeric"]) = {f(q) : q \in U}
      BY <1>1, <1>3, <1>8
    <3> HIDE DEF f, U
    <3>3. QED BY <3>1, <3>2 DEF p
  <2> HIDE DEF p, s
  <2>3. ASSUME NEW q
        PROVE  p(q) = s(q)
    <3>1. PICK x : x = f(q)
      OBVIOUS
    <3>2. PICK g : g = NodeFields[t] /\ p(q) = Project(x, g)
      BY <3>1 DEF p
    <3>3. g = <<1, 2, 3, 4>>
      BY <1>2, <1>8, <3>2
    <3>4. Project(x, g) = <<x[1], x[2], x[3], x[4]>>
      <4>1. DOMAIN g = 1 .. 4 /\ g[1] = 1 /\ g[2] = 2 /\ g[3] = 3 /\ g[4] = 4
        BY <3>3
      <4>2. Project(x, g) = <<x[g[1]], x[g[2]], x[g[3]], x[g[4]]>>
        BY <4>1, FourFields, Zenon
      <4>3. QED BY <4>1, <4>2
    <3>5. x[1] = q[3] /\ x[2] = q[4][2] /\ x[3] = q[2] /\ x[4] = q[1]
      BY <3>1
    <3>6. QED BY <3>2, <3>4, <3>5 DEF s
  <2>4. QED BY <2>1, <2>2, <2>3
<1>9. CASE t = "text"
  <2> DEFINE f(q) == <<q[3], Prefix(q[4][2]), q[2], q[1]>>
             p(q) == Project(f(q), NodeFields[t])
             s(q) == <<q[3], Prefix(q[4][2]), q[2], q[1]>>
  <2>1. SqlIndex(t) = {s(q) : q \in V}
    BY <1>1, <1>4, <1>9 DEF SqlIndex
  <2>2. Packed(t) = {p(q) : q \in V}
    <3>1. Packed(t) = {Project(x, NodeFields[t]) : x \in Range(tuples["text"])}
      BY <1>2, <1>5, <1>9
    <3>2. Range(tuples["text"]) = {f(q) : q \in V}
      BY <1>1, <1>3, <1>9
    <3> HIDE DEF f, V
    <3>3. QED BY <3>1, <3>2 DEF p
  <2> HIDE DEF p, s
  <2>3. ASSUME NEW q
        PROVE  p(q) = s(q)
    <3>1. PICK x : x = f(q)
      OBVIOUS
    <3>2. PICK g : g = NodeFields[t] /\ p(q) = Project(x, g)
      BY <3>1 DEF p
    <3>3. g = <<1, 2, 3, 4>>
      BY <1>2, <1>9, <3>2
    <3>4. Project(x, g) = <<x[1], x[2], x[3], x[4]>>
      <4>1. DOMAIN g = 1 .. 4 /\ g[1] = 1 /\ g[2] = 2 /\ g[3] = 3 /\ g[4] = 4
        BY <3>3
      <4>2. Project(x, g) = <<x[g[1]], x[g[2]], x[g[3]], x[g[4]]>>
        BY <4>1, FourFields, Zenon
      <4>3. QED BY <4>1, <4>2
    <3>5. x[1] = q[3] /\ x[2] = Prefix(q[4][2]) /\ x[3] = q[2] /\ x[4] = q[1]
      BY <3>1
    <3>6. QED BY <3>2, <3>4, <3>5 DEF s
  <2>4. QED BY <2>1, <2>2, <2>3
<1>10. QED BY <1>3, <1>6, <1>7, <1>8, <1>9

\* The finished database, against the rows of the import.
LEMMA FinishedExact ==
  ASSUME BuildInv, Complete, TreesFinished
  PROVE  TablesExact /\ \A t \in Secondary : At(t) = SqlIndex(t)
<1>1. \A t \in TableNames : At(t) = spools[t]
  BY TableList DEF TreesFinished, WantedTrees, Contents
<1>2. /\ At("node") = spools["node"] /\ At("edge") = spools["edge"]
      /\ At("node_property") = spools["node_property"]
      /\ At("node_primary") = spools["node_primary"]
      /\ At("edge_property") = spools["edge_property"]
  BY <1>1 DEF TableNames
<1>3. /\ Nodes = 1 .. NodeCount /\ NodeCount = Cardinality(Nodes)
      /\ NodeCount \in 0 .. Len(graph) /\ Len(graph) \in Nat
  BY GraphShape DEF BuildInv, SpoolsAt, NodeCount
<1>4. \A q : IsSeq(q) => q = [i \in 1 .. Len(q) |-> q[i]] /\ DOMAIN q = 1 .. Len(q)
  BY DEF IsSeq
<1>5. At("node") = [i \in 1 .. Cardinality(Nodes) |-> <<i, graph[i].label>>]
  <2>1. NodeTable(spools["node"], NodeCount)
    BY DEF Complete
  <2>2. PICK q, n : q = spools["node"] /\ n = NodeCount
    OBVIOUS
  <2>3. IsSeq(q) /\ Len(q) = n /\ \A i \in 1 .. n : q[i] = <<i, graph[i].label>>
    BY <2>1, <2>2 DEF NodeTable
  <2>4. q = [i \in 1 .. n |-> q[i]]
    BY <1>4, <2>3
  <2>5. q = [i \in 1 .. n |-> <<i, graph[i].label>>]
    BY <2>3, <2>4
  <2>6. QED BY <1>2, <1>3, <2>2, <2>5
<1>6. At("edge") = [i \in 1 .. Len(graph) - Cardinality(Nodes) |->
                      <<i, Edge(i).from, Edge(i).to, Edge(i).type>>]
  <2>1. EdgeTable(spools["edge"], Len(graph) - NodeCount)
    BY DEF Complete
  <2>2. PICK q, m : q = spools["edge"] /\ m = Len(graph) - NodeCount
    OBVIOUS
  <2>3. /\ IsSeq(q) /\ Len(q) = m
        /\ \A i \in 1 .. m : q[i] = <<i, Edge(i).from, Edge(i).to, Edge(i).type>>
    BY <2>1, <2>2 DEF EdgeTable
  <2>4. q = [i \in 1 .. m |-> q[i]]
    BY <1>4, <2>3
  <2>5. q = [i \in 1 .. m |-> <<i, Edge(i).from, Edge(i).to, Edge(i).type>>]
    BY <2>3, <2>4
  <2>6. QED BY <1>2, <1>3, <2>2, <2>5
<1>7. {Tail(p) : p \in Range(At("node_property"))} = UNION {PropertiesOf(graph[i], i) : i \in Nodes}
  BY <1>2, <1>3 DEF Complete, NodeProperties
<1>8. \A i \in DOMAIN At("node_property") : At("node_property")[i][1] = i
  BY <1>2, <1>4 DEF Complete
<1>9. Range(At("node_primary")) = {<<p[2], p[3], p[1]>> : p \in Range(At("node_property"))}
  BY <1>2 DEF Complete, ByOwner
<1>10. Range(At("edge_property")) =
         UNION {PropertiesOf(Edge(i), i) : i \in 1 .. Len(graph) - Cardinality(Nodes)}
  BY <1>2, <1>3 DEF Complete, EdgeProperties
<1>11. Increasing(At("node_primary")) /\ Increasing(At("edge_property"))
  BY <1>2 DEF Complete
<1>12. TablesExact
  BY <1>5, <1>6, <1>7, <1>8, <1>9, <1>10, <1>11 DEF TablesExact
<1>13. ASSUME NEW t \in Secondary
       PROVE  At(t) = SqlIndex(t)
  <2>1. CASE t \notin WantedTrees
    BY <1>13, <2>1 DEF TreesFinished
  <2>2. CASE t \in WantedTrees
    <3>1. t \notin TableNames
      BY <1>13, WantedList DEF TableNames, EdgeNames
    <3>2. t \in IndexesWanted /\ At(t) = Packed(t)
      BY <2>2, <3>1, TableList DEF WantedTrees, TreesFinished, Contents
    <3>3. Indexed /\ (t \in EdgeNames \/ t \in IndexesWith(tuples.numeric))
      BY <3>2 DEF IndexesWanted
    <3>4. TuplesOf(tuples, Range(spools.node), Range(spools.node_property), Range(spools.edge))
      BY <3>3 DEF Complete
    <3>5. TablesKept
      BY <1>2 DEF TablesKept
    <3>6. QED BY <3>2, <3>3, <3>4, <3>5, EdgeIndexIsSql, NodeIndexIsSql
  <2>3. QED BY <2>1, <2>2
<1>14. QED BY <1>12, <1>13

-----------------------------------------------------------------------------
(* Without a fault nothing fails, and everything that is wanted is begun.    *)

LEMMA FollowingSame ==
  ASSUME grant' = grant, tuples'.numeric = tuples.numeric
  PROVE  (Started' <=> Started) /\ \A s : Following(s)' = Following(s)
<1>1. NodeStreams' = NodeStreams /\ (InTurn' <=> InTurn)
  BY DEF NodeStreams, InTurn, NodeBudgets
<1>2. \A s : Following(s)' = Following(s)
  BY <1>1 DEF Following
<1>3. QED BY <1>2 DEF Started

\* The steps that leave the sorts alone.
LEMMA SortsFollowStay ==
  ASSUME SortsFollow, UNCHANGED <<grant, sort>>, ~Started \/ tuples'.numeric = tuples.numeric
  PROVE  SortsFollow'
<1>1. CASE ~Started
  BY <1>1 DEF SortsFollow, Started
<1>2. CASE tuples'.numeric = tuples.numeric
  BY <1>2, FollowingSame DEF SortsFollow
<1>3. QED BY <1>1, <1>2

\* The node sort begins.
LEMMA NodeSortBegins ==
  ASSUME BuildInv, ~Started, sort' = [sort EXCEPT !["node"] = "running"]
  PROVE  SortsFollow'
<1>1. /\ \A s \in Streams : sort[s] = "idle"
      /\ sort \in [Streams -> States]
  BY DEF BuildInv, ThreadsAt, TypeOK
<1>2. sort'["node"] = "running" /\ \A s \in Streams : sort'[s] # "ok"
  BY <1>1 DEF Streams
<1>3. QED BY <1>2 DEF SortsFollow

LEMMA SortEndsFollow ==
  ASSUME BuildInv, SortsFollow, NEW s \in Streams, NEW ok \in BOOLEAN, Sorted(s, ok),
         UNCHANGED <<grant, tuples>>
  PROVE  SortsFollow'
<1>1. /\ sort[s] = "running"
      /\ sort' = [x \in Streams |-> IF x = s THEN IF ok THEN "ok" ELSE "failed"
                                    ELSE IF ok /\ x \in Following(s) THEN "running" ELSE sort[x]]
  BY DEF Sorted
<1>2. (Started' <=> Started) /\ \A x : Following(x)' = Following(x)
  BY FollowingSame
<1>3. \A x \in Streams : sort[x] # "idle" => sort'[x] # "idle"
  BY <1>1
<1>4. ASSUME NEW x \in Streams, sort'[x] = "ok", NEW y \in Following(x), Started
      PROVE  sort'[y] # "idle"
  <2>1. y \in Streams
    BY FollowingList DEF StreamsWith, Streams
  <2>2. CASE x = s
    <3>1. ok
      BY <1>1, <1>4, <2>2
    <3>2. QED BY <1>1, <2>1, <2>2, <3>1
  <2>3. CASE x # s
    <3>1. sort[x] = "ok"
      BY <1>1, <1>4, <2>3
    <3>2. sort[y] # "idle"
      BY <1>4, <3>1 DEF SortsFollow
    <3>3. QED BY <1>3, <2>1, <3>2
  <2>4. QED BY <2>2, <2>3
<1>5. Started => sort'["node"] # "idle"
  BY <1>3 DEF SortsFollow, Streams
<1>6. QED BY <1>2, <1>4, <1>5 DEF SortsFollow

LEMMA SortEdgesFollow ==
  ASSUME BuildInv, SortsFollow, SortEdges
  PROVE  SortsFollow'
<1>1. /\ sort' = Spawn(sort, {"edge"}) /\ UNCHANGED <<grant, tuples>>
      /\ sort \in [Streams -> States]
  BY DEF SortEdges, stores, BuildInv, TypeOK
<1>2. (Started' <=> Started) /\ \A x : Following(x)' = Following(x)
  BY <1>1, FollowingSame
<1>3. \A x \in Streams : /\ sort[x] # "idle" => sort'[x] # "idle"
                         /\ sort'[x] = "ok" => sort[x] = "ok"
  BY <1>1 DEF Spawn
<1>4. ASSUME NEW x \in Streams, sort'[x] = "ok", NEW y \in Following(x), Started
      PROVE  sort'[y] # "idle"
  <2>1. y \in Streams
    BY FollowingList DEF StreamsWith, Streams
  <2>2. sort[y] # "idle"
    BY <1>3, <1>4 DEF SortsFollow
  <2>3. QED BY <1>3, <2>1, <2>2
<1>5. Started => sort'["node"] # "idle"
  BY <1>3 DEF SortsFollow, Streams
<1>6. QED BY <1>2, <1>4, <1>5 DEF SortsFollow

\* The lists of the writers do not change while there is memory and tuples to go by.
LEMMA WritersSame ==
  ASSUME UNCHANGED <<budget, tuples, grant>>
  PROVE  /\ (Indexed' <=> Indexed) /\ (Dynamic' <=> Dynamic) /\ (Started' <=> Started)
         /\ Range(NodeIndexes)' = Range(NodeIndexes) /\ Prepared' = Prepared
         /\ \A b : Batch(b)' = Batch(b)
<1>1. NodeIndexes' = NodeIndexes
  BY DEF NodeIndexes
<1>2. Prepared' = Prepared
  BY <1>1 DEF Prepared
<1>3. BatchSize' = BatchSize
  BY DEF BatchSize, SortMemory
<1>4. \A b : Batch(b)' = Batch(b)
  BY <1>2, <1>3 DEF Batch
<1>5. Range(NodeIndexes)' = Range(NodeIndexes)
  BY <1>1 DEF Range
<1>6. QED BY <1>2, <1>4, <1>5 DEF Indexed, Dynamic, Started

LEMMA WritersFollowStay ==
  ASSUME WritersFollow, UNCHANGED <<budget, tuples, grant, write>>
  PROVE  WritersFollow'
BY WritersSame DEF WritersFollow, Together

\* The indexes and the tables have no tree in common, nor have two batches.
LEMMA GroupsApart ==
  /\ \A t \in Range(NodeIndexes) : t \in Trees /\ t \notin TableNames /\ t \notin Range(EdgeIndexes)
  /\ \A t \in Range(EdgeIndexes) : t \in Trees /\ t \notin TableNames /\ t \notin Range(NodeIndexes)
  /\ \A b : \A t \in Batch(b) : t \in Trees /\ t \notin TableNames /\ t \in Range(Prepared)
  /\ \A b, c : \A t \in Batch(b) : t \in Batch(c) => b = c
<1>1. /\ Range(NodeIndexes) = IndexesWith(tuples.numeric) /\ Range(EdgeIndexes) = EdgeNames
      /\ Range(Prepared) = EdgeNames \cup IndexesWith(tuples.numeric)
  BY StreamList, EdgeList, PreparedList
<1>2. \A t \in IndexesWith(tuples.numeric) : t \in Trees /\ t \notin TableNames /\ t \notin EdgeNames
  BY TreeList DEF IndexesWith, TableNames, EdgeNames
<1>3. \A t \in EdgeNames : t \in Trees /\ t \notin TableNames /\ t \notin IndexesWith(tuples.numeric)
  BY TreeList DEF IndexesWith, TableNames, EdgeNames
<1>4. \A b : \A t \in Batch(b) : t \in Range(Prepared)
  BY DEF Batch, Range
<1>5. ASSUME NEW b, NEW c, NEW t \in Batch(b), t \in Batch(c)
      PROVE  b = c
  <2>1. PICK i \in DOMAIN Prepared : (i - 1) \div BatchSize = b /\ Prepared[i] = t
    BY DEF Batch
  <2>2. PICK j \in DOMAIN Prepared : (j - 1) \div BatchSize = c /\ Prepared[j] = t
    BY <1>5 DEF Batch
  <2>3. i = j
    BY <2>1, <2>2, PreparedList
  <2>4. QED BY <2>1, <2>2, <2>3
<1>6. QED BY <1>1, <1>2, <1>3, <1>4, <1>5

LEMMA WrittenFollow ==
  ASSUME BuildInv, WritersFollow, NEW t \in Trees, NEW ok \in BOOLEAN, Written(t, ok),
         UNCHANGED <<budget, tuples, grant>>
  PROVE  WritersFollow'
<1>1. /\ write[t] = "running"
      /\ write' = [x \in Trees |-> IF x = t THEN IF ok THEN "ok" ELSE "failed"
                                   ELSE IF ok /\ x \in NextTable(t) THEN "running" ELSE write[x]]
  BY DEF Written
<1>2. \A x \in Trees : write[x] # "idle" => write'[x] # "idle"
  BY <1>1
<1>3. \A x \in Trees : x \notin TableNames => (write'[x] # "idle" => write[x] # "idle")
  BY <1>1, NextTableList
<1>5. TableNames \subseteq Trees /\ "node" \in TableNames
  BY TreeList DEF TableNames
<1>6. ASSUME ~Dynamic, NEW i \in 2 .. 5, write'[Tables[i - 1]] = "ok"
      PROVE  write'[Tables[i]] # "idle"
  <2>1. Tables[i - 1] \in Trees /\ Tables[i] \in Trees
    <3>1. i - 1 \in DOMAIN Tables /\ i \in DOMAIN Tables
      BY TableList
    <3>2. QED BY <1>5, <3>1, TableList DEF Range
  <2>2. CASE t = Tables[i - 1]
    <3>1. ok
      BY <1>1, <1>6, <2>1, <2>2
    <3>2. Tables[i] \in NextTable(t)
      BY <1>6, <2>2, TableList DEF NextTable
    <3>3. QED BY <1>1, <2>1, <3>1, <3>2
  <2>3. CASE t # Tables[i - 1]
    <3>1. write[Tables[i - 1]] = "ok"
      BY <1>1, <1>6, <2>1, <2>3
    <3>2. write[Tables[i]] # "idle"
      BY <1>6, <3>1 DEF WritersFollow
    <3>3. QED BY <1>2, <2>1, <3>2
  <2>4. QED BY <2>2, <2>3
<1>7. /\ Dynamic => Together(Range(NodeIndexes))' /\ Together(Range(EdgeIndexes))'
      /\ ~Dynamic => \A b \in 0 .. Len(Prepared) : Together(Batch(b))'
  <2>1. Dynamic => Together(Range(NodeIndexes)) /\ Together(Range(EdgeIndexes))
    BY DEF WritersFollow
  <2>2. ~Dynamic => \A b \in 0 .. Len(Prepared) : Together(Batch(b))
    BY DEF WritersFollow
  <2>3. Range(NodeIndexes)' = Range(NodeIndexes) /\ \A b : Batch(b)' = Batch(b)
    BY WritersSame
  <2>4. \A S, T : T = S /\ (\A x \in S : x \in Trees /\ x \notin TableNames) /\ Together(S) =>
          \A x, y \in T : write'[x] # "idle" => write'[y] # "idle"
    BY <1>2, <1>3 DEF Together
  <2>5. Dynamic => Together(Range(NodeIndexes))' /\ Together(Range(EdgeIndexes))'
    BY <2>1, <2>3, <2>4, GroupsApart DEF Together
  <2>6. ~Dynamic => \A b \in 0 .. Len(Prepared) : Together(Batch(b))'
    BY <2>2, <2>3, <2>4, GroupsApart DEF Together
  <2>7. QED BY <2>5, <2>6
<1>8. write'["node"] # "idle" /\ (Dynamic => \A x \in TableNames : write'[x] # "idle")
  BY <1>2, <1>5 DEF WritersFollow
<1>9. QED BY <1>6, <1>7, <1>8, WritersSame DEF WritersFollow

\* A group of indexes begins as a whole.
LEMMA PackFollow ==
  ASSUME BuildInv, WritersFollow, PackIndexes
  PROVE  WritersFollow'
<1>1. UNCHANGED <<budget, tuples, grant>> /\ write \in [Trees -> States]
  BY DEF PackIndexes, stores, BuildInv, TypeOK
<1>2. PICK S : /\ write' = Spawn(write, S) /\ \A t \in S : t \in Trees /\ t \notin TableNames
               /\ \/ Dynamic /\ S = Range(NodeIndexes)
                  \/ Dynamic /\ S = Range(EdgeIndexes)
                  \/ ~Dynamic /\ \E b : S = Batch(b)
  BY GroupsApart DEF PackIndexes, MayPackNodes, MayPackEdges, MayPack
<1>3. \A t \in Trees : write'[t] = IF t \in S THEN "running" ELSE write[t]
  BY <1>1, <1>2 DEF Spawn
<1>4. ASSUME NEW T, Together(T), \A t \in T : t \in Trees, T = S \/ \A t \in T : t \notin S
      PROVE  \A t, u \in T : write'[t] # "idle" => write'[u] # "idle"
  BY <1>3, <1>4 DEF Together
<1>5. Dynamic => /\ \A t, u \in Range(NodeIndexes) : write'[t] # "idle" => write'[u] # "idle"
                 /\ \A t, u \in Range(EdgeIndexes) : write'[t] # "idle" => write'[u] # "idle"
  <2>1. ASSUME Dynamic
        PROVE  /\ \A t, u \in Range(NodeIndexes) : write'[t] # "idle" => write'[u] # "idle"
               /\ \A t, u \in Range(EdgeIndexes) : write'[t] # "idle" => write'[u] # "idle"
    <3>1. Together(Range(NodeIndexes)) /\ Together(Range(EdgeIndexes))
      BY <2>1 DEF WritersFollow
    <3>2. S = Range(NodeIndexes) \/ S = Range(EdgeIndexes)
      BY <1>2, <2>1
    <3>3. /\ Range(NodeIndexes) = S \/ \A t \in Range(NodeIndexes) : t \notin S
          /\ Range(EdgeIndexes) = S \/ \A t \in Range(EdgeIndexes) : t \notin S
      BY <3>2, GroupsApart
    <3>4. QED BY <1>4, <3>1, <3>3, GroupsApart
  <2>2. QED BY <2>1
<1>6. ~Dynamic => \A b \in 0 .. Len(Prepared) : \A t, u \in Batch(b) :
                    write'[t] # "idle" => write'[u] # "idle"
  <2>1. ASSUME ~Dynamic, NEW b \in 0 .. Len(Prepared)
        PROVE  \A t, u \in Batch(b) : write'[t] # "idle" => write'[u] # "idle"
    <3>1. Together(Batch(b))
      BY <2>1 DEF WritersFollow
    <3>2. PICK c : S = Batch(c)
      BY <1>2, <2>1
    <3>3. Batch(b) = S \/ \A t \in Batch(b) : t \notin S
      BY <3>2, GroupsApart
    <3>4. QED BY <1>4, <3>1, <3>3, GroupsApart
  <2>2. QED BY <2>1
<1>7. \A t \in TableNames : write'[t] = write[t]
  BY <1>2, <1>3, TreeList
<1>8. \A i \in 2 .. 5 : Tables[i - 1] \in TableNames /\ Tables[i] \in TableNames
  <2>1. \A i \in 2 .. 5 : i - 1 \in DOMAIN Tables /\ i \in DOMAIN Tables
    BY TableList
  <2>2. QED BY <2>1, TableList DEF Range
<1>9. /\ write'["node"] # "idle" /\ (Dynamic => \A t \in TableNames : write'[t] # "idle")
      /\ ~Dynamic => \A i \in 2 .. 5 : write'[Tables[i - 1]] = "ok" => write'[Tables[i]] # "idle"
  BY <1>7, <1>8 DEF WritersFollow, TableNames
<1>10. QED BY <1>1, <1>5, <1>6, <1>9, WritersSame DEF WritersFollow, Together

LEMMA MaterializeFollow ==
  ASSUME BuildInv, SortsFollow, Materialize
  PROVE  WritersFollow' /\ SortsFollow'
<1>1. /\ budget' = budget /\ tuples' = tuples
      /\ write' = [t \in Trees |-> IF t \in TableNames /\ (Dynamic \/ t = "node")
                                   THEN "running" ELSE "idle"]
      /\ IF Indexed /\ ~Started THEN StartNodeSort(SortMemory) ELSE UNCHANGED <<grant, sort>>
  BY TableList DEF Materialize
<1>2. (Indexed' <=> Indexed) /\ (Dynamic' <=> Dynamic)
  BY <1>1 DEF Indexed, Dynamic
<1>3. /\ \A t \in Trees : write'[t] # "ok" /\ (t \notin TableNames => write'[t] = "idle")
      /\ "node" \in Trees /\ write'["node"] # "idle"
      /\ Dynamic => \A t \in TableNames : write'[t] # "idle"
  BY <1>1, TreeList DEF TableNames
<1>4. Range(NodeIndexes)' = Range(NodeIndexes) /\ (Range(Prepared))' = Range(Prepared)
  BY <1>1 DEF NodeIndexes, Prepared
<1>5. /\ \A t \in Range(NodeIndexes)' : write'[t] = "idle"
      /\ \A t \in Range(EdgeIndexes) : write'[t] = "idle"
      /\ \A b : \A t \in Batch(b)' : write'[t] = "idle"
  <2>1. \A b : \A t \in Batch(b)' : t \in Range(Prepared)'
    BY DEF Batch, Range
  <2>2. \A t \in Range(Prepared) : t \in Trees /\ t \notin TableNames
    BY PreparedList, StreamList, EdgeList, GroupsApart
  <2>3. QED BY <1>3, <1>4, <2>1, <2>2, GroupsApart
<1>6. \A i \in 2 .. 5 : write'[Tables[i - 1]] # "ok"
  <2>1. \A i \in 2 .. 5 : i - 1 \in DOMAIN Tables
    BY TableList
  <2>2. \A i \in 2 .. 5 : Tables[i - 1] \in Trees
    BY <2>1, TableList, TreeList DEF Range
  <2>3. QED BY <1>3, <2>2
<1>7. Started' <=> Indexed \/ Started
  <2>1. CASE Indexed /\ ~Started
    <3>1. grant' = SortMemory /\ SortMemory \in Nat
      BY <1>1, <2>1, GrantFits DEF StartNodeSort, BuildInv, GrantAt
    <3>2. QED BY <2>1, <3>1, BulkBuildAssumption DEF Started
  <2>2. CASE ~(Indexed /\ ~Started)
    BY <1>1, <2>2 DEF Started, BuildInv, GrantAt
  <2>3. QED BY <2>1, <2>2
<1>8. SortsFollow'
  <2>1. CASE Indexed /\ ~Started
    BY <1>1, <2>1, NodeSortBegins DEF StartNodeSort
  <2>2. CASE ~(Indexed /\ ~Started)
    BY <1>1, <2>2, SortsFollowStay
  <2>3. QED BY <2>1, <2>2
<1>9. WritersFollow'
  BY <1>2, <1>3, <1>5, <1>6, <1>7 DEF WritersFollow, Together
<1>10. QED BY <1>8, <1>9

LEMMA LoadFollow ==
  ASSUME BuildInv, SortsFollow, LoadNode \/ LoadEdge
  PROVE  SortsFollow'
<1>1. SpoolsAt
  BY DEF BuildInv
<1>2. CASE LoadNode
  <2>1. /\ phase = "load" /\ left # <<>> /\ Head(left).kind = "node"
        /\ UNCHANGED <<grant, sort>>
    BY <1>2 DEF LoadNode, threads
  <2>2. ~Started
    <3>1. left \in Seq(Range(graph))
      BY <1>1 DEF SpoolsAt
    <3>2. 1 \in DOMAIN left /\ Head(left) = left[1]
      BY <2>1, <3>1
    <3>3. QED BY <1>1, <2>1, <3>2 DEF SpoolsAt
  <2>3. QED BY <2>1, <2>2, SortsFollowStay
<1>3. CASE LoadEdge
  <2>1. tuples'.numeric = tuples.numeric
    <3>1. DOMAIN tuples = Streams /\ left # <<>>
      BY <1>1, <1>3 DEF SpoolsAt, LoadEdge
    <3>2. Len(Head(left).properties) \in Nat
      BY <1>1, <1>3, LeftFacts, RowsLeft DEF LoadEdge
    <3>3. Store(PushEdge(Stores, Head(left)))
      BY <1>3 DEF LoadEdge
    <3>4. QED BY <3>1, <3>2, <3>3, PushEdgeTuples
  <2>2. \/ UNCHANGED <<grant, sort>>
        \/ ~Started /\ sort' = [sort EXCEPT !["node"] = "running"]
    BY <1>3 DEF LoadEdge, StartNodeSort
  <2>3. QED BY <2>1, <2>2, SortsFollowStay, NodeSortBegins
<1>4. QED BY <1>2, <1>3

\* Everything that is wanted has been written when no thread is left and none has failed.
LEMMA AllWritten ==
  ASSUME BuildInv, SortsFollow, WritersFollow, Joined,
         \A s \in Streams : sort[s] # "failed", \A t \in Trees : write[t] # "failed"
  PROVE  AllOk(write, Wanted)
<1>1. /\ \A s \in Streams : sort[s] # "idle" => sort[s] = "ok"
      /\ \A t \in Trees : write[t] # "idle" => write[t] = "ok"
  <2>1. \A s \in Streams : sort[s] \in States /\ sort[s] # "running"
    BY NoneRuns DEF Joined, BuildInv, TypeOK
  <2>2. \A t \in Trees : write[t] \in States /\ write[t] # "running"
    BY NoneRuns DEF Joined, BuildInv, TypeOK
  <2>3. QED BY <2>1, <2>2 DEF States
<1>2. \A t \in TableNames : write[t] = "ok"
  <2>1. CASE Dynamic
    BY <1>1, <2>1, TreeList DEF WritersFollow
  <2>2. CASE ~Dynamic
    <3>1. /\ Tables[1] = "node" /\ Tables[2] = "edge" /\ Tables[3] = "node_property"
          /\ Tables[4] = "node_primary" /\ Tables[5] = "edge_property"
      BY DEF Tables
    <3>2. /\ "node" \in Trees /\ "edge" \in Trees /\ "node_property" \in Trees
          /\ "node_primary" \in Trees /\ "edge_property" \in Trees
      BY TreeList DEF TableNames
    <3>3. \A i \in 2 .. 5 : write[Tables[i - 1]] = "ok" => write[Tables[i]] # "idle"
      BY <2>2 DEF WritersFollow
    <3>4. /\ write[Tables[2 - 1]] = "ok" => write[Tables[2]] # "idle"
          /\ write[Tables[3 - 1]] = "ok" => write[Tables[3]] # "idle"
          /\ write[Tables[4 - 1]] = "ok" => write[Tables[4]] # "idle"
          /\ write[Tables[5 - 1]] = "ok" => write[Tables[5]] # "idle"
      BY <3>3
    <3>5. /\ write[Tables[1]] = "ok" => write[Tables[2]] # "idle"
          /\ write[Tables[2]] = "ok" => write[Tables[3]] # "idle"
          /\ write[Tables[3]] = "ok" => write[Tables[4]] # "idle"
          /\ write[Tables[4]] = "ok" => write[Tables[5]] # "idle"
      BY <3>4
    <3>6. write["node"] = "ok"
      BY <1>1, <3>2 DEF WritersFollow
    <3>7. write["edge"] = "ok" /\ write["node_property"] = "ok"
      BY <1>1, <3>1, <3>2, <3>5, <3>6
    <3>8. write["node_primary"] = "ok" /\ write["edge_property"] = "ok"
      BY <1>1, <3>1, <3>2, <3>5, <3>7
    <3>9. QED BY <3>6, <3>7, <3>8 DEF TableNames
  <2>3. QED BY <2>1, <2>2
<1>3. ASSUME Indexed
      PROVE  NodesSorted
  <2>1. Started
    BY <1>3 DEF WritersFollow
  <2>2. \A s \in Streams : sort[s] = "ok" => \A x \in Following(s) : x \in Streams => sort[x] = "ok"
    BY <1>1, <2>1 DEF SortsFollow
  <2>3. /\ "node" \in Streams /\ "property" \in Streams /\ "numeric" \in Streams
        /\ "text" \in Streams /\ StreamsWith(tuples.numeric) \subseteq Streams
    BY DEF Streams, StreamsWith
  <2>4. sort["node"] = "ok"
    BY <1>1, <2>1, <2>3 DEF SortsFollow
  <2>5. CASE InTurn
    <3>1. sort["property"] = "ok"
      BY <2>2, <2>3, <2>4, <2>5, FollowingList
    <3>2. tuples.numeric # None => sort["numeric"] = "ok"
      BY <2>2, <2>3, <2>5, <3>1, FollowingList
    <3>3. sort["text"] = "ok"
      BY <2>2, <2>3, <2>5, <3>1, <3>2, FollowingList
    <3>4. QED BY <2>4, <3>1, <3>2, <3>3, SortedList DEF SortedWith, StreamsWith
  <2>6. CASE ~InTurn
    <3>1. Following("node") = StreamsWith(tuples.numeric) \ {"node"}
      BY <2>3, <2>6, FollowingList
    <3>2. \A s \in StreamsWith(tuples.numeric) : sort[s] = "ok"
      BY <2>2, <2>3, <2>4, <3>1
    <3>3. QED BY <3>2, SortedList DEF SortedWith
  <2>7. QED BY <2>5, <2>6
<1>4. ASSUME NEW S, Together(S), \A t \in S : t \in Trees, ~(\A t \in S : write[t] = "idle")
      PROVE  AllOk(write, S)
  BY <1>1, <1>4 DEF Together, AllOk
<1>5. ASSUME Dynamic
      PROVE  AllOk(write, Range(NodeIndexes)) /\ AllOk(write, Range(EdgeIndexes))
  <2>1. Indexed
    BY <1>5 DEF Dynamic
  <2>2. ~MayPackNodes /\ ~MayPackEdges
    BY <2>1 DEF Joined
  <2>3. Together(Range(NodeIndexes)) /\ Together(Range(EdgeIndexes))
    BY <1>5 DEF WritersFollow
  <2>4. AllOk(write, Range(NodeIndexes))
    <3>1. ~(\A t \in Range(NodeIndexes) : write[t] = "idle")
      BY <1>3, <1>5, <2>1, <2>2 DEF MayPackNodes
    <3>2. QED BY <1>4, <2>3, <3>1, GroupsApart
  <2>5. AllOk(write, Range(EdgeIndexes))
    <3>1. Finished(write, Range(NodeIndexes))
      BY <2>4 DEF AllOk, Finished
    <3>2. ~(\A t \in Range(EdgeIndexes) : write[t] = "idle")
      BY <1>5, <2>2, <3>1 DEF MayPackEdges
    <3>3. QED BY <1>4, <2>3, <3>2, GroupsApart
  <2>6. QED BY <2>4, <2>5
<1>6. ASSUME Indexed, ~Dynamic
      PROVE  \A b \in 0 .. Len(Prepared) : AllOk(write, Batch(b))
  <2> DEFINE U == {b \in 0 .. Len(Prepared) : ~AllOk(write, Batch(b))}
  <2>1. SUFFICES ASSUME U # {}
                 PROVE  FALSE
    OBVIOUS
  <2>2. Len(Prepared) \in Nat
    BY PreparedList
  <2>3. U \in SUBSET Nat
    BY <2>2
  <2>4. PICK b \in U : \A c \in U : b <= c
    <3> HIDE DEF U
    <3>1. QED BY <2>1, <2>3, LeastNatural
  <2>5. b \in 0 .. Len(Prepared) /\ ~AllOk(write, Batch(b))
    OBVIOUS
  <2>6. \A c \in 0 .. b - 1 : AllOk(write, Batch(c))
    <3>1. \A c \in 0 .. b - 1 : c \in 0 .. Len(Prepared) /\ ~(b <= c)
      BY <2>2, <2>5
    <3>2. QED BY <2>4, <3>1
  <2>7. sort["edge"] = "ok"
    <3>1. ~MaySortEdges
      BY <1>6 DEF Joined
    <3>2. sort["edge"] # "idle"
      BY <1>3, <1>6, <3>1 DEF MaySortEdges
    <3>3. QED BY <1>1, <3>2 DEF Streams
  <2>8. AllOk(write, Range(Tables))
    BY <1>2, TableList DEF AllOk
  <2>9. ~MayPack(b)
    BY <2>5 DEF Joined
  <2>10. Batch(b) = {} \/ ~(\A t \in Batch(b) : write[t] = "idle")
    BY <1>3, <1>6, <2>6, <2>7, <2>8, <2>9 DEF MayPack
  <2>11. Batch(b) # {}
    BY <2>5 DEF AllOk
  <2>12. Together(Batch(b))
    BY <1>6, <2>5 DEF WritersFollow
  <2>13. QED BY <1>4, <2>5, <2>10, <2>11, <2>12, GroupsApart
<1>7. ASSUME Indexed
      PROVE  \A t \in Range(Prepared) : write[t] = "ok"
  <2>1. CASE Dynamic
    BY <1>5, <2>1, PreparedList, StreamList, EdgeList DEF AllOk
  <2>2. CASE ~Dynamic
    <3>1. SUFFICES ASSUME NEW i \in DOMAIN Prepared
                   PROVE  write[Prepared[i]] = "ok"
      BY DEF Range
    <3>2. BatchSize \in 1 .. 4
      <4> DEFINE asked == SortMemory \div 8
      <4>1. SortMemory \in Nat
        BY DEF SortMemory, BuildInv, GrantAt
      <4>2. asked \in Nat
        BY <4>1
      <4>3. BatchSize = Least2(Cores, IF asked < 1 THEN 1 ELSE Least2(asked, 4))
        BY DEF BatchSize
      <4> HIDE DEF asked
      <4>4. QED BY <4>2, <4>3, BulkBuildAssumption DEF Least2
    <3>3. i \in 1 .. Len(Prepared) /\ Len(Prepared) \in 7 .. 8
      BY PreparedList
    <3>4. (i - 1) \div BatchSize \in 0 .. Len(Prepared)
      <4>1. PICK d : d = BatchSize
        OBVIOUS
      <4>2. d = 1 \/ d = 2 \/ d = 3 \/ d = 4
        BY <3>2, <4>1
      <4>3. (i - 1) \div d \in 0 .. Len(Prepared)
        <5>1. CASE d = 1
          BY <3>3, <5>1
        <5>2. CASE d = 2
          BY <3>3, <5>2
        <5>3. CASE d = 3
          BY <3>3, <5>3
        <5>4. CASE d = 4
          BY <3>3, <5>4
        <5>5. QED BY <4>2, <5>1, <5>2, <5>3, <5>4
      <4>4. QED BY <4>1, <4>3
    <3>5. Prepared[i] \in Batch((i - 1) \div BatchSize)
      BY DEF Batch
    <3>6. QED BY <1>6, <1>7, <2>2, <3>4, <3>5 DEF AllOk
  <2>3. QED BY <2>1, <2>2
<1>8. QED BY <1>2, <1>7, TableList DEF AllOk, Wanted

LEMMA InitTurns ==
  ASSUME Init
  PROVE  TurnsInv
<1>1. /\ faults = 0 /\ grant = None /\ phase = "load" /\ result = "none"
      /\ sort = [s \in Streams |-> "idle"] /\ write = [t \in Trees |-> "idle"]
  BY DEF Init
<1>2. QED BY <1>1 DEF TurnsInv, SortsFollow, Started, NoneFailed

\* The steps that leave the threads alone.
LEMMA TurnsStay ==
  ASSUME TurnsInv, UNCHANGED <<budget, tuples, grant, sort, write, faults>>,
         phase' = "build" => phase = "build", faults = 0 /\ NoneFailed => NoneFailed'
  PROVE  TurnsInv'
<1>1. SortsFollow'
  BY SortsFollowStay DEF TurnsInv
<1>2. phase = "build" => WritersFollow'
  BY WritersFollowStay DEF TurnsInv
<1>3. QED BY <1>1, <1>2 DEF TurnsInv

\* A fault ends what could fail without one.
LEMMA FaultTurns ==
  ASSUME BuildInv, TurnsInv, Fault
  PROVE  TurnsInv'
<1>1. faults' = faults + 1 /\ faults' \in Nat /\ faults' # 0
  <2>1. faults' = faults + 1
    BY DEF Fault, LoadFails, SortFails, WriterFails, SealFails, StepFails
  <2>2. QED BY <2>1 DEF TurnsInv
<1>2. CASE LoadFails \/ SealFails \/ StepFails
  <2>1. UNCHANGED <<budget, tuples, grant, sort, write>> /\ phase' # "build"
    BY <1>2 DEF LoadFails, SealFails, StepFails, Drop, GiveUp, stores, threads
  <2>2. SortsFollow'
    BY <2>1, SortsFollowStay DEF TurnsInv
  <2>3. QED BY <1>1, <2>1, <2>2 DEF TurnsInv
<1>3. ASSUME NEW s \in Streams, SortFails(s)
      PROVE  TurnsInv'
  <2>1. Sorted(s, FALSE) /\ UNCHANGED <<budget, tuples, grant, write, phase>>
    BY <1>3 DEF SortFails, stores
  <2>2. SortsFollow'
    BY <2>1, SortEndsFollow DEF TurnsInv
  <2>3. phase = "build" => WritersFollow'
    BY <2>1, WritersFollowStay DEF TurnsInv
  <2>4. QED BY <1>1, <2>1, <2>2, <2>3 DEF TurnsInv
<1>4. ASSUME NEW t \in Trees, WriterFails(t)
      PROVE  TurnsInv'
  <2>1. Written(t, FALSE) /\ UNCHANGED <<budget, tuples, grant, sort, phase>>
    BY <1>4 DEF WriterFails, stores
  <2>2. SortsFollow'
    BY <2>1, SortsFollowStay DEF TurnsInv
  <2>3. phase = "build" => WritersFollow'
    BY <2>1, WrittenFollow DEF TurnsInv
  <2>4. QED BY <1>1, <2>1, <2>2, <2>3 DEF TurnsInv
<1>5. QED BY <1>2, <1>3, <1>4 DEF Fault

\* What was loaded increases, so no writer refuses what it is given.
LEMMA WriterEndsTurns ==
  ASSUME BuildInv, DataInv, TurnsInv, NEW t \in Trees, WriterEnds(t)
  PROVE  TurnsInv'
<1> DEFINE ok == (t \in Primary => Increasing(spools[t]))
<1>1. /\ Written(t, ok) /\ ok \in BOOLEAN
      /\ UNCHANGED <<budget, tuples, grant, sort, phase, result, faults>>
  BY DEF WriterEnds, stores
<1>2. phase = "build"
  <2>1. write[t] = "running"
    BY <1>1 DEF Written
  <2>2. phase \notin Loading /\ phase \notin Late
    BY <2>1, NoneRuns DEF BuildInv, ThreadsAt
  <2>3. QED BY <2>2, StepList DEF BuildInv, TypeOK, Loading, Late
<1>3. ok
  BY <1>2 DEF DataInv, Complete, Primary
<1>4. SortsFollow'
  BY <1>1, SortsFollowStay DEF TurnsInv
<1>5. WritersFollow'
  <2> HIDE DEF ok
  <2>1. QED BY <1>1, <1>2, WrittenFollow DEF TurnsInv
<1>6. NoneFailed => NoneFailed'
  <2>1. write' = [x \in Trees |-> IF x = t THEN "ok"
                                  ELSE IF x \in NextTable(t) THEN "running" ELSE write[x]]
    <3> HIDE DEF ok
    <3>1. QED BY <1>1, <1>3 DEF Written
  <2>2. QED BY <1>1, <2>1 DEF NoneFailed
<1>7. QED BY <1>1, <1>2, <1>4, <1>5, <1>6 DEF TurnsInv

\* Without a fault the join finds everything written.
LEMMA JoinTurns ==
  ASSUME BuildInv, TurnsInv, Join
  PROVE  TurnsInv'
<1>1. /\ Joined /\ UNCHANGED <<budget, tuples, grant, sort, write, faults>>
      /\ phase = "build" /\ phase' # "build"
  BY DEF Join, Joined, GiveUp, stores
<1>2. ASSUME faults = 0
      PROVE  NoneFailed'
  <2>1. NoneFailed /\ SortsFollow /\ WritersFollow
    BY <1>1, <1>2 DEF TurnsInv
  <2>2. AllOk(write, Wanted)
    BY <1>1, <2>1, AllWritten DEF NoneFailed
  <2>3. phase' = "commit" /\ result' = result
    BY <2>2 DEF Join
  <2>4. QED BY <1>1, <2>1, <2>3 DEF NoneFailed
<1>3. QED BY <1>1, <1>2, TurnsStay

LEMMA StepTurns ==
  ASSUME BuildInv, DataInv, TurnsInv, [Next]_vars
  PROVE  TurnsInv'
<1>1. CASE LoadNode \/ LoadEdge
  <2>1. SortsFollow'
    BY <1>1, LoadFollow DEF TurnsInv
  <2>2. /\ phase' = "load" /\ result' = result /\ write' = write /\ faults' = faults
        /\ sort' = sort \/ sort' = [sort EXCEPT !["node"] = "running"]
    BY <1>1 DEF LoadNode, LoadEdge, StartNodeSort, threads
  <2>3. NoneFailed => NoneFailed'
    BY <2>2 DEF NoneFailed, BuildInv, TypeOK
  <2>4. QED BY <2>1, <2>2, <2>3 DEF TurnsInv
<1>2. CASE Fault
  BY <1>2, FaultTurns
<1>3. CASE Dropped \/ RepackLate \/ CleanerEnds \/ FinishStep \/ Leave \/ UNCHANGED vars
  <2>1. UNCHANGED <<budget, tuples, grant, sort, write, faults>>
    BY <1>3 DEF Dropped, RepackLate, CleanerEnds, FinishStep, Leave, vars, stores, threads
  <2>2. CASE Dropped
    BY <2>1, <2>2, TurnsStay DEF Dropped, NoneFailed
  <2>3. CASE FinishStep
    <3>1. phase' \in Range(Steps) /\ result' \in {result, "ok"}
      BY <2>3, StepList DEF FinishStep
    <3>2. NoneFailed => NoneFailed'
      BY <2>1, <3>1, StepList DEF NoneFailed
    <3>3. QED BY <2>1, <3>1, <3>2, StepList, TurnsStay
  <2>4. CASE RepackLate \/ CleanerEnds \/ Leave \/ UNCHANGED vars
    <3>1. result' = result /\ phase' \in {phase, "finish", "ended"}
      BY <2>4 DEF RepackLate, CleanerEnds, Leave, vars
    <3>2. NoneFailed => NoneFailed'
      BY <2>1, <3>1 DEF NoneFailed
    <3>3. QED BY <2>1, <3>1, <3>2, TurnsStay
  <2>5. QED BY <1>3, <2>2, <2>3, <2>4
<1>4. CASE Materialize
  <2>1. WritersFollow' /\ SortsFollow'
    BY <1>4, MaterializeFollow DEF TurnsInv
  <2>2. /\ phase' = "build" /\ result' = result /\ faults' = faults
        /\ \A t \in Trees : write'[t] # "failed"
        /\ sort' = sort \/ sort' = [sort EXCEPT !["node"] = "running"]
    BY <1>4 DEF Materialize, StartNodeSort
  <2>3. NoneFailed => NoneFailed'
    BY <2>2 DEF NoneFailed, BuildInv, TypeOK
  <2>4. QED BY <2>1, <2>2, <2>3 DEF TurnsInv
<1>5. ASSUME NEW s \in Streams, SortEnds(s)
      PROVE  TurnsInv'
  <2>1. Sorted(s, TRUE) /\ UNCHANGED <<budget, tuples, grant, write, phase, result, faults>>
    BY <1>5 DEF SortEnds, stores
  <2>2. SortsFollow'
    BY <2>1, SortEndsFollow DEF TurnsInv
  <2>3. phase = "build" => WritersFollow'
    BY <2>1, WritersFollowStay DEF TurnsInv
  <2>4. NoneFailed => NoneFailed'
    BY <2>1 DEF NoneFailed, Sorted
  <2>5. QED BY <2>1, <2>2, <2>3, <2>4 DEF TurnsInv
<1>6. CASE SortEdges
  <2>1. /\ UNCHANGED <<budget, tuples, grant, write, phase, result, faults>>
        /\ sort' = Spawn(sort, {"edge"})
    BY <1>6 DEF SortEdges, stores
  <2>2. SortsFollow'
    BY <1>6, SortEdgesFollow DEF TurnsInv
  <2>3. phase = "build" => WritersFollow'
    BY <2>1, WritersFollowStay DEF TurnsInv
  <2>4. NoneFailed => NoneFailed'
    BY <2>1 DEF NoneFailed, Spawn, BuildInv, TypeOK
  <2>5. QED BY <2>1, <2>2, <2>3, <2>4 DEF TurnsInv
<1>7. CASE PackIndexes
  <2>1. /\ phase = "build" /\ UNCHANGED <<tuples, grant, sort, phase, result, faults>>
        /\ \E S : write' = Spawn(write, S)
    BY <1>7 DEF PackIndexes, stores
  <2>2. SortsFollow' /\ WritersFollow'
    BY <1>7, <2>1, SortsFollowStay, PackFollow DEF TurnsInv
  <2>3. NoneFailed => NoneFailed'
    BY <2>1 DEF NoneFailed, Spawn, BuildInv, TypeOK
  <2>4. QED BY <2>1, <2>2, <2>3 DEF TurnsInv
<1>8. ASSUME NEW t \in Trees, WriterEnds(t)
      PROVE  TurnsInv'
  BY <1>8, WriterEndsTurns
<1>9. CASE Join
  BY <1>9, JoinTurns
<1>10. QED
  BY <1>1, <1>2, <1>3, <1>4, <1>5, <1>6, <1>7, <1>8, <1>9, Zenon DEF Next, Progress

-----------------------------------------------------------------------------

(* Every tree of a database that is finished holds the rows of the import in *)
(* the order its key asks for, every index what SQL would build from those   *)
(* tables, the statistics each index that is not empty, once; and an import  *)
(* that meets no fault never refuses its own work.  So it is for any import, *)
(* memory, ID map and number of cores, however the threads take their turns  *)
(* (OwnerProperties, SecondaryIndexes, BodyWriter, create_roots,             *)
(* publish_statistics).                                                      *)
THEOREM TreesAreExact == Spec => []TreesExact
<1> DEFINE Inv == BuildInv /\ DataInv /\ LayoutInv /\ TurnsInv
<1>1. Init => Inv
  BY InitInv, InitData, InitLayout, InitTurns
<1>2. Inv /\ [Next]_vars => Inv'
  <2>1. SUFFICES ASSUME BuildInv, DataInv, LayoutInv, TurnsInv, [Next]_vars
                 PROVE  BuildInv' /\ DataInv' /\ LayoutInv' /\ TurnsInv'
    OBVIOUS
  <2>2. QED BY <2>1, StepInv, StepData, StepLayout, StepTurns
<1>3. Inv => TreesExact
  <2>1. SUFFICES ASSUME BuildInv, DataInv, LayoutInv, TurnsInv
                 PROVE  TreesExact
    OBVIOUS
  <2>2. ASSUME phase \in {"statistics", "validate", "checkpoint"} \/ result = "ok"
        PROVE  TablesExact /\ \A t \in Secondary : At(t) = SqlIndex(t)
    <3>1. Complete
      BY <2>1, <2>2, StepList DEF DataInv
    <3>2. TreesFinished
      BY <2>1, <2>2 DEF LayoutInv
    <3>3. QED BY <2>1, <3>1, <3>2, FinishedExact
  <2>3. ASSUME phase \in {"validate", "checkpoint"} \/ result = "ok"
        PROVE  \A t \in Secondary \cup Primary :
                 Cardinality({s \in stats : s[1] = t}) = IF Empty(t) THEN 0 ELSE 1
    BY <2>1, <2>3 DEF LayoutInv, StatsExact
  <2>4. faults = 0 => result # "error"
    BY <2>1 DEF TurnsInv, NoneFailed
  <2>5. QED BY <2>2, <2>3, <2>4 DEF TreesExact
<1>4. QED BY <1>1, <1>2, <1>3, PTL DEF Spec
=============================================================================
