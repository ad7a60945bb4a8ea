-------------------------------- MODULE IdMap --------------------------------
(***************************************************************************)
(* The integer-ID map of an import (offline_import/native/id_map.rs).  A   *)
(* group of IDs starts as one affine range; the first ID that does not     *)
(* continue it turns it into a two-level directory of bitmap pages whose   *)
(* nodes wait in a spool file; when the memory budget is used up the group *)
(* moves to the SQLite table of the private import_ids database.  Sealing  *)
(* packs the values of each page behind a prefix-rank index.  A reader of  *)
(* the map must not be able to tell.                                       *)
(***************************************************************************)
EXTENDS Integers, Sequences, FiniteSets, SequencesExt

CONSTANTS
  GroupCount,   (* ID groups are 0 .. GroupCount - 1                          *)
  Ids,          (* external IDs the files use                                *)
  Node,         (* nodes the importer may make: an internal ID and a label   *)
                (* group                                                     *)
  HalfRange,    (* an i64 lies in -HalfRange .. HalfRange - 1                *)
  WordBits, PageWords, RegionPages,   (* geometry: u64 words, words of a     *)
                (* page (BITMAP_WORDS), pages of a region                    *)
  Narrow,       (* a u32 lies in 0 .. Narrow - 1                             *)
  Limit,        (* bytes of budget                                           *)
  RegionSlotBytes, PageSlotBytes,           (* Option<T> of either level     *)
  HeaderBytes, DenseBytes, WordBytes,       (* Page, DenseMembership, OccupiedWord *)
  CompactBytes, PackedBytes, WideBytes,     (* a value of each kind          *)
  None,
  MaxCalls      (* bound: calls of insert                                    *)

PageSlots == WordBits * PageWords
Groups    == 0 .. GroupCount - 1

ASSUME IdMapAssumption ==
  /\ Ids \subseteq (-HalfRange .. HalfRange - 1)
  /\ Node \subseteq [id : Nat, label : Nat]
  /\ \A b \in {WordBits, PageWords, RegionPages, GroupCount, HalfRange} : b \in Nat \ {0}
  /\ DenseBytes >= (PageWords - 1) * WordBytes
  /\ None \notin Nat /\ None \notin Node

VARIABLES
  groups,    (* the representation of each group's map                       *)
  used,      (* Budget.used                                                  *)
  spool,     (* records of the spool file, in order                          *)
  disk,      (* rows of import_ids.external_id                               *)
  stage,     (* "open", "sealing", "filling", "sealed" or "cleared"           *)
  turn,      (* the group seal() has come to                                 *)
  compress,  (* whether seal() packs the bitmaps                             *)
  reply,     (* what the last insert returned                                *)
  calls      (* bound: calls of insert so far                                *)

vars == <<groups, used, spool, disk, stage, turn, compress, reply, calls>>

-----------------------------------------------------------------------------
(* Affine ranges: both ends, the first node and the one label group.       *)

AffineOf(id, n) == [tag |-> "affine", first |-> id, last |-> id,
                    node |-> n.id, label |-> n.label]
Covers(r, id)   == id \in r.first .. r.last
AffineNode(r, id) == [id |-> r.node + (id - r.first), label |-> r.label]

\* last and last_node advance together, with checked_add.
Extends(r, id, n) == /\ r.last < HalfRange - 1 /\ r.last + 1 = id
                     /\ r.node + (r.last - r.first) + 1 = n.id
                     /\ r.label = n.label

-----------------------------------------------------------------------------
(* Pages.                                                                  *)

WordOf(slot) == slot \div WordBits
InWord(p, w) == {s \in p.occupied : WordOf(s) = w}

NewPage == [occupied |-> {}, label |-> None, compact |-> TRUE, packed |-> TRUE,
            dense |-> TRUE, words |-> <<>>, values |-> None]

PageInsert(p, slot, n) ==
  IF slot \in p.occupied THEN p
  ELSE [p EXCEPT !.occupied = @ \cup {slot},
                 !.label    = IF p.occupied = {} THEN n.label
                              ELSE IF @ = n.label THEN @ ELSE None,
                 !.compact  = @ /\ n.id < Narrow,
                 !.packed   = @ /\ n.id < Narrow /\ n.label < Narrow]

Kind(p) == IF p.compact /\ p.label # None THEN "compact"
           ELSE IF p.packed THEN "packed" ELSE "wide"

ValueBytes(p) == Cardinality(p.occupied) *
  CASE Kind(p) = "compact" -> CompactBytes
    [] Kind(p) = "packed"  -> PackedBytes
    [] OTHER               -> WideBytes

OccupiedWords(p) == {WordOf(s) : s \in p.occupied}

\* The ranks a sealed page keeps: of every word, or of the occupied ones in order.
Prefix(p, w) == Cardinality({s \in p.occupied : WordOf(s) < w})
DenseWords(p)  == [w \in 1 .. PageWords |->
                     [rank |-> Prefix(p, w - 1), bits |-> InWord(p, w - 1)]]
SparseWords(p) == SelectSeq(DenseWords(p), LAMBDA e : e.bits # {})

Freed(p) == DenseBytes - Cardinality(OccupiedWords(p)) * WordBytes
Packs(p, packing) == packing /\ Cardinality(OccupiedWords(p)) < PageWords

PageSeal(p, packing) ==
  [p EXCEPT !.dense  = ~Packs(p, packing),
            !.words  = IF Packs(p, packing) THEN SparseWords(p) ELSE DenseWords(p),
            !.values = [k \in 1 .. Cardinality(p.occupied) |-> 0]]

\* The position of an occupied slot among the values; None if it is not occupied.
Rank(p, slot) ==
  LET w     == WordOf(slot)
      entry == IF p.dense THEN p.words[w + 1]
               ELSE p.words[1 + Cardinality({v \in OccupiedWords(p) : v < w})]
  IN IF (~p.dense /\ w \notin OccupiedWords(p)) \/ slot \notin entry.bits THEN None
     ELSE entry.rank + Cardinality({s \in entry.bits : s < slot}) + 1

\* Stored as one u32, as two halves of a u64, or whole.
Encode(p, n) == CASE Kind(p) = "compact" -> n.id % Narrow
                  [] Kind(p) = "packed"  -> n.id + n.label * Narrow
                  [] OTHER               -> n
Decode(p, v) == CASE Kind(p) = "compact" -> [id |-> v, label |-> p.label]
                  [] Kind(p) = "packed"  -> [id |-> v % Narrow, label |-> v \div Narrow]
                  [] OTHER               -> v

PageLookup(p, slot) == LET r == Rank(p, slot)
                       IN IF r = None THEN None ELSE Decode(p, p.values[r])

-----------------------------------------------------------------------------
(* The radix directory.  Its two levels are vectors of optional entries    *)
(* that start at a base key and grow at either end.                        *)

Coordinates(id) == LET key == id + HalfRange
                   IN [region |-> key \div (PageSlots * RegionPages),
                       page   |-> (key \div PageSlots) % RegionPages,
                       slot   |-> key % PageSlots]

EmptyDirectory == [base |-> 0, entries |-> <<>>]
EmptyRadix     == [tag |-> "paged", regions |-> EmptyDirectory, allocated |-> 0]

\* Mutation of Grown: entries are not moved up when the base moves down.
GrownInPlace(d, key) ==
  LET base   == IF d.entries = <<>> \/ key < d.base THEN key ELSE d.base
      old    == Len(d.entries)
      length == IF old + d.base - base > key - base THEN old + d.base - base
                                                    ELSE key - base + 1
  IN [base    |-> base,
      entries |-> [i \in 1 .. length |-> IF i <= old THEN d.entries[i] ELSE None]]

\* directory_slot: rebase to the smaller key, keeping every entry at its key.
Grown(d, key) ==
  LET base    == IF d.entries = <<>> \/ key < d.base THEN key ELSE d.base
      prepend == IF d.entries = <<>> THEN 0 ELSE d.base - base
      old     == Len(d.entries)
      length  == IF old + prepend > key - base THEN old + prepend ELSE key - base + 1
  IN [base    |-> base,
      entries |-> [i \in 1 .. length |-> IF i - prepend \in 1 .. old
                                         THEN d.entries[i - prepend] ELSE None]]

Present(d, key) == key - d.base + 1 \in DOMAIN d.entries
                     /\ d.entries[key - d.base + 1] # None
Entry(d, key)   == d.entries[key - d.base + 1]
EntryOr(d, key, default) == IF Present(d, key) THEN Entry(d, key) ELSE default
With(d, key, e) == [d EXCEPT !.entries[key - d.base + 1] = e]

\* Three charges in order; a refused one leaves the earlier ones charged to the
\* map, which its caller then gives up.
RadixInsert(m, id, n, charged) ==
  LET at     == Coordinates(id)
      top    == Grown(m.regions, at.region)
      region == EntryOr(top, at.region, EmptyDirectory)
      low    == Grown(region, at.page)
      page   == EntryOr(low, at.page, NewPage)
      c1     == (Len(top.entries) - Len(m.regions.entries)) * RegionSlotBytes
      c2     == c1 + (Len(low.entries) - Len(region.entries)) * PageSlotBytes
      c3     == c2 + (IF Present(low, at.page) THEN 0 ELSE HeaderBytes + DenseBytes)
      paid   == CHOOSE c \in {0, c1, c2, c3} :
                  /\ charged + c <= Limit
                  /\ \A e \in {0, c1, c2, c3} : charged + e <= Limit => e <= c
      full   == With(top, at.region, With(low, at.page, PageInsert(page, at.slot, n)))
  IN [fits     |-> charged + c3 <= Limit,
      inserted |-> at.slot \notin page.occupied,
      used     |-> charged + paid,
      map      |-> [m EXCEPT !.allocated = @ + paid,
                             !.regions   = IF charged + c3 <= Limit THEN full ELSE @]]

\* Page slots that exist, and the page of an ID.
HasPage(m, id) == LET at == Coordinates(id)
                  IN /\ Present(m.regions, at.region)
                     /\ Present(Entry(m.regions, at.region), at.page)
PageOf(m, id)  == LET at == Coordinates(id)
                  IN Entry(Entry(m.regions, at.region), at.page)
RadixLookup(m, id) ==
  IF HasPage(m, id) THEN PageLookup(PageOf(m, id), Coordinates(id).slot) ELSE None

Somewhere(d) == {i \in DOMAIN d.entries : d.entries[i] # None}
PagePaths(m) == UNION {{<<i, j>> : j \in Somewhere(m.regions.entries[i])} :
                         i \in Somewhere(m.regions)}
PageAt(m, path) == m.regions.entries[path[1]].entries[path[2]]
PagesInOrder(m) ==
  LET paths == SetToSortSeq(PagePaths(m),
                 LAMBDA a, b : a[1] < b[1] \/ (a[1] = b[1] /\ a[2] < b[2]))
  IN [k \in DOMAIN paths |-> PageAt(m, paths[k])]

SumOf(s, weight(_)) == FoldLeft(LAMBDA total, e : total + weight(e), 0, s)

EachPage(m, change(_)) ==
  [m EXCEPT !.regions.entries =
    [i \in DOMAIN @ |-> IF @[i] = None THEN None ELSE
      [@[i] EXCEPT !.entries =
        [j \in DOMAIN @ |-> IF @[j] = None THEN None ELSE change(@[j])]]]]

-----------------------------------------------------------------------------
Init == /\ groups = [g \in Groups |-> [tag |-> "empty"]]
        /\ used = 0
        /\ spool = <<>>
        /\ disk = <<>>
        /\ stage = "open"
        /\ turn = 0
        /\ compress = FALSE
        /\ reply = TRUE
        /\ calls = 0

Record(g, id, n) == [group |-> g, id |-> id, node |-> n]
SpoolOf(g) == SelectSeq(spool, LAMBDA r : r.group = g)

\* INSERT OR IGNORE of a sequence of records.
InsertedOrIgnored(rows, records) ==
  FoldLeft(LAMBDA t, r : IF <<r.group, r.id>> \in DOMAIN t THEN t
                         ELSE [k \in DOMAIN t \cup {<<r.group, r.id>>} |->
                                 IF k = <<r.group, r.id>> THEN r.node ELSE t[k]],
           rows, records)

RangeRecords(g, r) == [k \in 1 .. r.last - r.first + 1 |->
                         Record(g, r.first + k - 1, AffineNode(r, r.first + k - 1))]

\* Mutation of MoveToDisk: what the half-built directory took is not given back.
MoveCharged(g, records, id, n, freedFrom) ==
  /\ groups' = [groups EXCEPT ![g] = [tag |-> "disk"]]
  /\ disk' = InsertedOrIgnored(disk, Append(records, Record(g, id, n)))
  /\ reply' = (<<g, id>> \notin DOMAIN InsertedOrIgnored(disk, records))
  /\ UNCHANGED used

\* The group's records go to the table, then the new one; first come, first kept.
MoveToDisk(g, records, id, n, freedFrom) ==
  /\ groups' = [groups EXCEPT ![g] = [tag |-> "disk"]]
  /\ disk' = InsertedOrIgnored(disk, Append(records, Record(g, id, n)))
  /\ reply' = (<<g, id>> \notin DOMAIN InsertedOrIgnored(disk, records))
  /\ used' = freedFrom

InsertEmpty(g, id, n) ==
  /\ groups[g].tag = "empty"
  /\ groups' = [groups EXCEPT ![g] = AffineOf(id, n)]
  /\ reply' = TRUE
  /\ UNCHANGED <<used, spool, disk>>

InsertAffine(g, id, n) ==
  /\ groups[g].tag = "affine"
  /\ \/ /\ Covers(groups[g], id)
        /\ reply' = FALSE
        /\ UNCHANGED <<groups, used, spool, disk>>
     \/ /\ ~Covers(groups[g], id)
        /\ Extends(groups[g], id, n)
        /\ groups' = [groups EXCEPT ![g].last = id]
        /\ reply' = TRUE
        /\ UNCHANGED <<used, spool, disk>>

\* The range is entered into a directory ID by ID, each entry spooled as it goes.
\* If one does not fit, the spooled ones stay behind, unread.
Scatter(g, id, n) ==
  /\ groups[g].tag = "affine"
  /\ ~Covers(groups[g], id) /\ ~Extends(groups[g], id, n)
  /\ LET records == Append(RangeRecords(g, groups[g]), Record(g, id, n))
         built   == FoldLeft(LAMBDA b, r :
                      IF ~b.fits THEN b
                      ELSE LET next == RadixInsert(b.map, r.id, r.node, b.used)
                           IN [fits |-> next.fits, map |-> next.map, used |-> next.used,
                               spooled |-> IF next.fits THEN Append(b.spooled, r)
                                                        ELSE b.spooled],
                      [fits |-> TRUE, map |-> EmptyRadix, used |-> used, spooled |-> <<>>],
                      records)
     IN /\ spool' = spool \o built.spooled
        /\ IF built.fits
           THEN /\ groups' = [groups EXCEPT ![g] = built.map]
                /\ used' = built.used
                /\ reply' = TRUE
                /\ UNCHANGED disk
           ELSE MoveToDisk(g, RangeRecords(g, groups[g]), id, n,
                           built.used - built.map.allocated)

InsertPaged(g, id, n) ==
  /\ groups[g].tag = "paged"
  /\ LET r == RadixInsert(groups[g], id, n, used)
     IN IF r.fits
        THEN /\ groups' = [groups EXCEPT ![g] = r.map]
             /\ used' = r.used
             /\ reply' = r.inserted
             /\ spool' = IF r.inserted THEN Append(spool, Record(g, id, n)) ELSE spool
             /\ UNCHANGED disk
        ELSE /\ MoveToDisk(g, SpoolOf(g), id, n, r.used - r.map.allocated)
             /\ UNCHANGED spool

InsertDisk(g, id, n) ==
  /\ groups[g].tag = "disk"
  /\ disk' = InsertedOrIgnored(disk, <<Record(g, id, n)>>)
  /\ reply' = (<<g, id>> \notin DOMAIN disk)
  /\ UNCHANGED <<groups, used, spool>>

\* The importer gives a node ID to one node only.
Insert(g, id, n) ==
  /\ stage = "open"
  /\ calls < MaxCalls /\ calls' = calls + 1
  /\ \/ InsertEmpty(g, id, n) \/ InsertAffine(g, id, n) \/ Scatter(g, id, n)
     \/ InsertPaged(g, id, n) \/ InsertDisk(g, id, n)
  /\ UNCHANGED <<stage, turn, compress>>

-----------------------------------------------------------------------------
(* seal: values are packed once the last node has been declared.           *)

MapBytes(m) == SumOf(PagesInOrder(m), ValueBytes)
PagedGroups == SelectSeq([k \in 1 .. GroupCount |-> groups[k - 1]],
                         LAMBDA m : m.tag = "paged")

\* Bitmaps are packed only if the unpacked map would not fit.
StartSeal ==
  /\ stage = "open"
  /\ stage' = "sealing"
  /\ compress' = (used + SumOf(PagedGroups, MapBytes) > Limit)
  /\ UNCHANGED <<groups, used, spool, disk, turn, reply, calls>>

\* RadixMap::seal: page by page; a refused charge stops it after what the page has
\* freed is given back.
Sealing(m) ==
  FoldLeft(LAMBDA b, p :
             IF ~b.fits THEN b
             ELSE LET mid  == b.delta - (IF Packs(p, compress) THEN Freed(p) ELSE 0)
                      full == mid + ValueBytes(p)
                  IN [fits  |-> used + full <= Limit,
                      delta |-> IF used + full <= Limit THEN full ELSE mid],
           [fits |-> TRUE, delta |-> 0], PagesInOrder(m))

SealGroup ==
  /\ stage = "sealing"
  /\ IF turn \in Groups /\ groups[turn].tag = "paged"
     THEN LET s == Sealing(groups[turn])
              m == groups[turn]
          IN IF s.fits
             THEN /\ groups' = [groups EXCEPT ![turn] =
                       [EachPage(m, LAMBDA p : PageSeal(p, compress))
                          EXCEPT !.allocated = @ + s.delta]]
                  /\ used' = used + s.delta
                  /\ UNCHANGED disk
             ELSE /\ groups' = [groups EXCEPT ![turn] = [tag |-> "disk"]]
                  /\ disk' = InsertedOrIgnored(disk, SpoolOf(turn))
                  /\ used' = used + s.delta - (m.allocated + s.delta)
     ELSE UNCHANGED <<groups, used, disk>>
  /\ turn' = turn + 1
  /\ stage' = IF turn + 1 \in Groups THEN "sealing" ELSE "filling"
  /\ UNCHANGED <<spool, compress, reply, calls>>

PageSet(p, slot, n) == [p EXCEPT !.values[Rank(p, slot)] = Encode(p, n)]
RadixSet(m, id, n) ==
  LET at == Coordinates(id)
      r  == Entry(m.regions, at.region)
  IN [m EXCEPT !.regions =
        With(@, at.region, With(r, at.page, PageSet(Entry(r, at.page), at.slot, n)))]

\* The spool is read once more and each record goes to its rank; the file is removed.
Fill ==
  /\ stage = "filling"
  /\ groups' = FoldLeft(LAMBDA gs, r :
                          IF gs[r.group].tag = "paged"
                          THEN [gs EXCEPT ![r.group] = RadixSet(@, r.id, r.node)]
                          ELSE gs,
                        groups, spool)
  /\ spool' = <<>>
  /\ stage' = "sealed"
  /\ UNCHANGED <<used, disk, turn, compress, reply, calls>>

\* finish: endpoint lookup has ended; the table goes with the import_ids file.
Clear ==
  /\ stage = "sealed"
  /\ groups' = [g \in Groups |-> [tag |-> "empty"]]
  /\ used' = 0
  /\ disk' = <<>>
  /\ stage' = "cleared"
  /\ UNCHANGED <<spool, turn, compress, reply, calls>>

-----------------------------------------------------------------------------
(* What a reader finds: DirectLookup, then the table for a group on disk.  *)
Lookup(g, id) ==
  CASE groups[g].tag = "affine" -> IF Covers(groups[g], id) THEN AffineNode(groups[g], id)
                                                           ELSE None
    [] groups[g].tag = "paged"  -> RadixLookup(groups[g], id)
    [] groups[g].tag = "disk"   -> IF <<g, id>> \in DOMAIN disk THEN disk[g, id] ELSE None
    [] OTHER                    -> None

\* Until it is sealed a directory knows members only: their nodes are in the spool.
Pending == stage \in {"open", "sealing", "filling"}
Spooled(g, id) == \E k \in DOMAIN spool : spool[k].group = g /\ spool[k].id = id
SpooledNode(g, id) ==
  spool[CHOOSE k \in DOMAIN spool :
          /\ spool[k].group = g /\ spool[k].id = id
          /\ \A j \in DOMAIN spool : spool[j].group = g /\ spool[j].id = id => k <= j].node

Held(g, id) == IF Pending /\ groups[g].tag = "paged"
               THEN IF Spooled(g, id) THEN SpooledNode(g, id) ELSE None
               ELSE Lookup(g, id)
Contents == [k \in {k \in Groups \X Ids : Held(k[1], k[2]) # None} |-> Held(k[1], k[2])]

Unused == LET taken == {Contents[k].id : k \in DOMAIN Contents}
          IN {n \in Node : n.id \notin taken}

Next == \/ \E n \in Unused, g \in Groups, id \in Ids : Insert(g, id, n)
        \/ StartSeal \/ SealGroup \/ Fill \/ Clear

Spec == Init /\ [][Next]_vars

-----------------------------------------------------------------------------
TypeOK ==
  /\ used \in 0 .. Limit
  /\ \A g \in Groups : groups[g].tag \in {"empty", "affine", "paged", "disk"}
  /\ \A k \in DOMAIN spool : spool[k] \in [group : Groups, id : Ids, node : Node]
  /\ DOMAIN disk \subseteq Groups \X Ids /\ \A k \in DOMAIN disk : disk[k] \in Node
  /\ stage \in {"open", "sealing", "filling", "sealed", "cleared"}
  /\ compress \in BOOLEAN /\ reply \in BOOLEAN

\* Bytes a directory really takes: both levels, its pages and their values.
PageFootprint(p) == HeaderBytes
                      + (IF p.dense THEN DenseBytes
                                    ELSE Cardinality(OccupiedWords(p)) * WordBytes)
                      + (IF p.values = None THEN 0 ELSE ValueBytes(p))
Footprint(m) ==
  LET regions == {i \in DOMAIN m.regions.entries : m.regions.entries[i] # None}
  IN Len(m.regions.entries) * RegionSlotBytes
       + SumOf(SetToSeq(regions),
               LAMBDA i : Len(m.regions.entries[i].entries) * PageSlotBytes)
       + SumOf(PagesInOrder(m), PageFootprint)

(* The budget says what the directories take and never more than it allows, *)
(* whatever was rebased, packed, given up or half built in between: too     *)
(* little would overcommit memory, too much would send later groups to disk *)
(* (RadixMap::insert, Page::seal).  And the spool of a group still in       *)
(* memory holds each member of its bitmaps exactly once: sealing relies on  *)
(* it to fill every rank once (IntegerIdMap::seal).                         *)
SpoolMatches(g) ==
  LET ids == [k \in DOMAIN SpoolOf(g) |-> SpoolOf(g)[k].id]
  IN  /\ \A j, k \in DOMAIN ids : ids[j] = ids[k] => j = k
      /\ \A id \in Ids :
           (\E k \in DOMAIN ids : ids[k] = id) <=>
             HasPage(groups[g], id) /\ Coordinates(id).slot \in PageOf(groups[g], id).occupied
GroupsAccounted ==
  /\ TypeOK
  /\ used = SumOf(PagedGroups, Footprint)
  /\ Pending => \A g \in Groups : groups[g].tag = "paged" => SpoolMatches(g)

\* Which group is held in what way, and whether it was moved, cannot be told.
Abstract == INSTANCE FirstWins WITH
              Keys  <- Groups \X Ids,
              Nodes <- Node,
              known <- Contents,
              open  <- stage = "open",
              reply <- reply
(* The map keeps the first node of every ID and refuses later ones, in any  *)
(* order of IDs and through every change of representation.                 *)
FirstNodeKept == Abstract!FirstWinsSpec

=============================================================================
