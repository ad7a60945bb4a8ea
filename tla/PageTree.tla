------------------------------ MODULE PageTree ------------------------------
(***************************************************************************)
(* How PageWriter lays out one B-tree (native/page_writer.rs, tree, parent *)
(* and level), and how page_plan.rs predicts the number of its pages.      *)
(* Records are numbered in their order and reduced to their length.  The   *)
(* plan of an index is made first, from the same records, and the writer   *)
(* is given exactly that many pages (reserve, fork, complete); the two     *)
(* passes read the records here together, and the plan's levels follow the *)
(* writer's.                                                               *)
(***************************************************************************)
EXTENDS Naturals, Sequences, SequencesExt

CONSTANTS PageSize,   (* page_size                                         *)
          MaxTable,   (* payload a table leaf holds without overflow pages *)
          MaxIndex,   (* the same for an index                             *)
          MinLocal,   (* least payload that stays beside overflow pages    *)
          Patterns,   (* record lengths repeat one of these sequences      *)
          MaxRecords, (* bound: records of a tree                          *)
          None

VARIABLES
  kind,      (* Kind: "table" or "index"                                   *)
  lengths,   (* the pattern of record lengths                              *)
  phase,     (* "leaves", "level", "plan", "done" or "refused"             *)
  count,     (* records read; the last one is `previous` for a table       *)
  leaf,      (* the open leaf: first record and the sizes of its cells     *)
  pages,     (* the pages appended                                         *)
  root,      (* the page written over the tree's root                      *)
  children,  (* the current level's children still to be read              *)
  above,     (* the children written for the next level                    *)
  deferred,  (* level's `previous`: the last full group, <<>> for none     *)
  group,     (* the group being filled                                     *)
  planned,   (* pages counted by the plan so far                           *)
  planLeaf,  (* IndexPagePlan.used and last_cell                           *)
  planKids,  (* boundaries of the level still to be read; during the       *)
             (* leaves phase IndexPagePlan.leaves, <<>> while None         *)
  planAbove, (* plan_level's `next`                                        *)
  planPrev,  (* plan_level's `previous`, None at first                     *)
  planGroup  (* plan_level's `group`                                       *)

writer  == <<leaf, pages, root, children, above, deferred, group>>
planner == <<planned, planLeaf, planKids, planAbove, planPrev, planGroup>>
vars    == <<kind, lengths, phase, count, writer, planner>>

LeafHeader     == 8
InteriorHeader == 12
Slot           == 2
Pointer        == 4

VarintLen(v) == IF v < 128 THEN 1 ELSE IF v < 16384 THEN 2 ELSE 3
LengthOf(n)  == lengths[1 + ((n - 1) % Len(lengths))]

ASSUME PageAssumption ==
  /\ PageSize \in Nat /\ MaxTable \in Nat /\ MaxIndex \in Nat
  /\ MinLocal \in Nat /\ MinLocal <= MaxIndex
  /\ InteriorHeader + 2 * (Slot + Pointer + VarintLen(MaxIndex) + MaxIndex) <= PageSize
  /\ \A p \in Patterns : p # <<>> /\ \A i \in DOMAIN p : p[i] \in Nat
  /\ MaxRecords \in Nat

Sum(s) == FoldLeft(LAMBDA a, b : a + b, 0, s)

-----------------------------------------------------------------------------
(* Cells.  An index cell is the record behind its length, a table cell has *)
(* the rowid in between; what does not fit goes to overflow pages.         *)

Maximum == IF kind = "table" THEN MaxTable ELSE MaxIndex

Local(len) ==
  IF len <= Maximum THEN len
  ELSE LET candidate == MinLocal + ((len - MinLocal) % (PageSize - Pointer))
       IN  IF candidate <= Maximum THEN candidate ELSE MinLocal

OverflowPages(len) ==
  (len - Local(len) + PageSize - Pointer - 1) \div (PageSize - Pointer)

CellSize(n, len) ==
  VarintLen(len) + (IF kind = "table" THEN VarintLen(n) ELSE 0)
    + Local(len) + (IF Local(len) < len THEN Pointer ELSE 0)

LeafUsed(cells)   == LeafHeader + Slot * Len(cells) + Sum(cells)
Fits(cells, size) == LeafUsed(cells) + Slot + size <= PageSize

Leaf(first, cells) == [tag |-> "leaf", first |-> first, cells |-> cells]
Interior(kids)     == [tag |-> "interior", kids |-> kids]
Overflow           == [tag |-> "overflow"]
EmptyLeaf(first)   == [first |-> first, cells |-> <<>>]

\* What a level keeps of a child: its page, the records below it, its height,
\* and the cell or rowid that separates it from its right neighbour (0 and
\* empty for the last child).
Child(page, from, to, height, key, size) ==
  [page |-> page, from |-> from, to |-> to, height |-> height,
   key |-> key, size |-> size]

\* parent: the kids become one page, their last boundary moves up.
Parent(kids, page) ==
  LET last == Last(kids)
  IN  Child(page, kids[1].from, last.to, kids[1].height + 1, last.key, last.size)

InteriorUsed(kids) ==
  InteriorHeader + Sum([i \in 1 .. Len(kids) - 1 |-> Slot + Pointer + kids[i].size])

EmptyGroup == [children |-> 0, last |-> 0, penultimate |-> 0, used |-> InteriorHeader]

Init ==
  /\ kind \in {"table", "index"} /\ lengths \in Patterns
  /\ phase = "leaves" /\ count = 0
  /\ leaf = EmptyLeaf(1) /\ pages = <<>> /\ root = None
  /\ children = <<>> /\ above = <<>> /\ deferred = <<>> /\ group = <<>>
  /\ planned = 0 /\ planLeaf = [used |-> LeafHeader, last |-> 0]
  /\ planKids = <<>> /\ planAbove = <<>> /\ planPrev = None
  /\ planGroup = EmptyGroup

-----------------------------------------------------------------------------
(* Leaves.  A record that does not fit closes the leaf.  The writer of an  *)
(* index takes the leaf's last cell out and promotes it; the writer of a   *)
(* table promotes the rowid and keeps the cell.                            *)

\* Mutation of CloseLeaf: an index promotes a copy and keeps the cell.
CloseLeafKeeps(at) ==
  LET cells == leaf.cells
      size  == IF kind = "index" THEN Last(cells) ELSE VarintLen(count)
  IN  [page  |-> Leaf(leaf.first, cells),
       child |-> Child(at, leaf.first, count, 1, count, size)]

CloseLeaf(at) ==
  LET cells == leaf.cells
      kept  == IF kind = "index" THEN Front(cells) ELSE cells
      size  == IF kind = "index" THEN Last(cells) ELSE VarintLen(count)
  IN  [page  |-> Leaf(leaf.first, kept),
       child |-> Child(at, leaf.first, leaf.first + Len(kept) - 1, 1, count, size)]

WriteRecord(size, chain) ==
  LET before == pages \o [i \in 1 .. chain |-> Overflow]
      closed == CloseLeaf(Len(before) + 1)
  IN  IF Fits(leaf.cells, size)
      THEN /\ leaf' = [leaf EXCEPT !.cells = Append(@, size)]
           /\ pages' = before
           /\ UNCHANGED children
      ELSE /\ leaf' = [first |-> count + 1, cells |-> <<size>>]
           /\ pages' = Append(before, closed.page)
           /\ children' = Append(children, closed.child)

\* Mutation of PlanRecord: the promoted cell is the one that did not fit.
PlanPromotesNext(len) ==
  LET cell == len + VarintLen(len)
      full == planLeaf.used + Slot + cell > PageSize
      used == IF full THEN LeafHeader ELSE planLeaf.used
  IN  /\ planKids' = IF full THEN Append(planKids, cell) ELSE planKids
      /\ planLeaf' = [used |-> used + Slot + cell, last |-> cell]

\* IndexPagePlan::push.
PlanRecord(len) ==
  LET cell == len + VarintLen(len)
      full == planLeaf.used + Slot + cell > PageSize
      used == IF full THEN LeafHeader ELSE planLeaf.used
  IN  /\ planKids' = IF full THEN Append(planKids, planLeaf.last) ELSE planKids
      /\ planLeaf' = [used |-> used + Slot + cell, last |-> cell]

ReadRecord ==
  LET len == LengthOf(count + 1)
  IN  /\ phase = "leaves" /\ count < MaxRecords
      /\ kind = "index" => len <= MaxIndex
      /\ count' = count + 1
      /\ WriteRecord(CellSize(count + 1, len), OverflowPages(len))
      /\ IF kind = "index" THEN PlanRecord(len) ELSE UNCHANGED <<planKids, planLeaf>>
      /\ UNCHANGED <<kind, lengths, phase, root, above, deferred, group,
                     planned, planAbove, planPrev, planGroup>>

\* The plan refuses an index record that would need overflow pages.
RefuseRecord ==
  /\ phase = "leaves" /\ kind = "index" /\ count < MaxRecords
  /\ LengthOf(count + 1) > MaxIndex
  /\ phase' = "refused"
  /\ UNCHANGED <<kind, lengths, count, writer, planner>>

\* The last leaf; a tree of one leaf is its root and has no other page.
EndRecords ==
  /\ phase = "leaves"
  /\ IF children = <<>>
     THEN /\ root' = Leaf(leaf.first, leaf.cells)
          /\ phase' = "done"
          /\ UNCHANGED <<pages, children>>
     ELSE /\ pages' = Append(pages, Leaf(leaf.first, leaf.cells))
          /\ children' = Append(children, Child(Len(pages) + 1, leaf.first, count, 1, 0, 0))
          /\ phase' = "level"
          /\ UNCHANGED root
  /\ IF planKids = <<>> THEN UNCHANGED <<planKids, planned>>
     ELSE planKids' = Append(planKids, 0) /\ planned' = Len(planKids) + 1
  /\ UNCHANGED <<kind, lengths, count, leaf, above, deferred, group, planLeaf,
                 planAbove, planPrev, planGroup>>

-----------------------------------------------------------------------------
(* Levels of the writer.  A full group is deferred until the next one is   *)
(* full, so that it can still lend its last child to a final group of one. *)

Gather ==
  LET child == Head(children)
      more  == IF group = <<>> THEN 0 ELSE Slot + Pointer + Last(group).size
  IN  /\ phase = "level" /\ children # <<>>
      /\ children' = Tail(children)
      /\ IF InteriorUsed(group) + more > PageSize
         THEN /\ IF deferred = <<>> THEN UNCHANGED <<pages, above>>
                 ELSE /\ pages' = Append(pages, Interior(deferred))
                      /\ above' = Append(above, Parent(deferred, Len(pages) + 1))
              /\ deferred' = group
              /\ group' = <<child>>
         ELSE group' = Append(group, child) /\ UNCHANGED <<pages, above, deferred>>
      /\ UNCHANGED <<kind, lengths, phase, count, leaf, root, planner>>

CloseLevel ==
  /\ phase = "level" /\ children = <<>>
  /\ LET lend   == Len(group) = 1
         before == IF lend THEN Front(deferred) ELSE deferred
         final  == IF lend THEN <<Last(deferred)>> \o group ELSE group
     IN  IF deferred = <<>>
         THEN /\ root' = Interior(group)
              /\ phase' = IF planned = 0 THEN "done" ELSE "plan"
              /\ UNCHANGED <<pages, children>>
         ELSE /\ pages' = pages \o <<Interior(before), Interior(final)>>
              /\ children' = above \o <<Parent(before, Len(pages) + 1),
                                        Parent(final, Len(pages) + 2)>>
              /\ UNCHANGED <<root, phase>>
  /\ above' = <<>> /\ deferred' = <<>> /\ group' = <<>>
  /\ UNCHANGED <<kind, lengths, count, leaf, planner>>

-----------------------------------------------------------------------------
(* Levels of the plan, from the sizes of the boundaries alone.             *)

PlanGather ==
  LET size == Head(planKids)
      more == IF planGroup.children = 0 THEN 0 ELSE Slot + Pointer + planGroup.last
  IN  /\ phase = "plan" /\ planKids # <<>>
      /\ planKids' = Tail(planKids)
      /\ IF planGroup.used + more > PageSize
         THEN /\ planAbove' = IF planPrev = None THEN planAbove
                              ELSE Append(planAbove, planPrev.last)
              /\ planPrev' = planGroup
              /\ planGroup' = [EmptyGroup EXCEPT !.children = 1, !.last = size]
         ELSE /\ planGroup' = [children |-> planGroup.children + 1, last |-> size,
                               penultimate |-> planGroup.last,
                               used |-> planGroup.used + more]
              /\ UNCHANGED <<planAbove, planPrev>>
      /\ UNCHANGED <<kind, lengths, phase, count, writer, planned, planLeaf>>

PlanClose ==
  LET lend == planGroup.children = 1
      kids == planAbove \o <<IF lend THEN planPrev.penultimate ELSE planPrev.last,
                             planGroup.last>>
  IN  /\ phase = "plan" /\ planKids = <<>> /\ planPrev # None
      /\ lend => planPrev.children >= 3
      /\ planKids' = kids
      /\ planned' = planned + Len(kids)
      /\ planAbove' = <<>> /\ planPrev' = None /\ planGroup' = EmptyGroup
      /\ UNCHANGED <<kind, lengths, phase, count, writer, planLeaf>>

\* All children fit into the root.
PlanEnds ==
  /\ phase = "plan" /\ planKids = <<>> /\ planPrev = None
  /\ phase' = "done"
  /\ UNCHANGED <<kind, lengths, count, writer, planner>>

Next == \/ ReadRecord \/ RefuseRecord \/ EndRecords \/ Gather \/ CloseLevel
        \/ PlanGather \/ PlanClose \/ PlanEnds

Spec == Init /\ [][Next]_vars

-----------------------------------------------------------------------------
Written == phase \in {"plan", "done"}
Nodes   == {i \in 1 .. Len(pages) : pages[i].tag # "overflow"}
Inner   == {pages[i] : i \in {j \in Nodes : pages[j].tag = "interior"}}
           \cup (IF root = None \/ root.tag = "leaf" THEN {} ELSE {root})

\* A child is what its page says.
TrueChild(kid) ==
  LET page == pages[kid.page]
  IN  IF page.tag = "leaf"
      THEN /\ kid.height = 1 /\ kid.from = page.first
           /\ kid.to = page.first + Len(page.cells) - 1
      ELSE /\ page.tag = "interior" /\ kid.height = page.kids[1].height + 1
           /\ kid.from = page.kids[1].from /\ kid.to = Last(page.kids).to
           /\ kid.key = Last(page.kids).key

\* Between two children lies the promoted record of an index; in a table the
\* separator is the last rowid on the left.
Separates(a, b) == IF kind = "index" THEN a.to + 1 = a.key /\ a.key + 1 = b.from
                   ELSE a.to = a.key /\ a.key + 1 = b.from

\* A finished tree is a search tree of one height that holds every record
\* once, and every page of it hangs below exactly one other: the hazard of
\* leaves that promote a cell, deferred groups and lent children
\* (page_writer.rs 947-1077).
SearchTree ==
  Written =>
    /\ \A p \in Inner : \A i \in 1 .. Len(p.kids) :
         /\ TrueChild(p.kids[i])
         /\ p.kids[i].height = p.kids[1].height
         /\ i < Len(p.kids) => Separates(p.kids[i], p.kids[i + 1])
    /\ \A i \in Nodes : \E p \in Inner : \E k \in 1 .. Len(p.kids) :
         /\ p.kids[k].page = i
         /\ \A q \in Inner : \A j \in 1 .. Len(q.kids) :
              q.kids[j].page = i => q = p /\ j = k
    /\ IF root.tag = "leaf" THEN root.first = 1 /\ Len(root.cells) = count
       ELSE root.kids[1].from = 1 /\ Last(root.kids).to = count

\* No page is overfull, which Page::fits would panic at, whatever was promoted
\* or lent; and none is hollow: a leaf keeps a cell when one is taken out of
\* it, and an interior page has two children at least, also the one that lent
\* its last child.  Otherwise SQLite finds the file malformed.
PagesFit ==
  /\ LeafUsed(leaf.cells) <= PageSize
  /\ \A p \in Inner : Len(p.kids) >= 2 /\ InteriorUsed(p.kids) <= PageSize
  /\ \A i \in Nodes : pages[i].tag = "leaf" =>
       pages[i].cells # <<>> /\ LeafUsed(pages[i].cells) <= PageSize

\* What SQLite relies on in a tree PageWriter has written: a search tree of its
\* records whose pages are neither overfull nor hollow, whatever the sizes around
\* a page boundary were.
TreeWellFormed == SearchTree /\ PagesFit

\* The plan of an index predicts the pages the writer appends, exactly:
\* complete() refuses a reserved range that is not filled, append() one that
\* is exceeded, and the plan itself refuses a group that cannot lend.
PlanExact ==
  /\ phase = "done" /\ kind = "index" => planned = Len(pages)
  /\ phase = "plan" /\ planKids = <<>> /\ planPrev # None /\ planGroup.children = 1
       => planPrev.children >= 3

=============================================================================
