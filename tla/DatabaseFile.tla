---------------------------- MODULE DatabaseFile ----------------------------
(***************************************************************************)
(* The pages of a finished database: trees, overflow chains and the        *)
(* freelist, whose trunks PageWriter::finish writes into unused pages      *)
(* (native/page_writer.rs).  A page is reduced to the pages it points to.  *)
(* Afterwards storage may have damaged one pointer; that is what           *)
(* validation is for.                                                      *)
(***************************************************************************)
EXTENDS Naturals, Sequences, SequencesExt, FiniteSets

CONSTANTS PageCount,   (* pages of the file                                *)
          TrunkSlots,  (* leaves of a trunk page                           *)
          Reserved,    (* the page of the lock byte; it belongs to no tree *)
          Images,      (* files as the trees leave them: content of their  *)
                       (* pages, roots, ranges of unused pages, and the    *)
                       (* freelist of the file before the import           *)
          Wrong        (* values a damaged pointer may take                *)

VARIABLES
  image,    (* the file as the trees left it                               *)
  content,  (* its pages now                                               *)
  header,   (* first freelist trunk and number of free pages               *)
  unused,   (* unused pages not yet on the freelist                        *)
  trunk,    (* the trunk page to be written                                *)
  counted,  (* pages put on the freelist                                   *)
  written,  (* "trunks", "written" or "failed"                             *)
  damaged   (* a pointer was changed since                                 *)

fileVars == <<image, content, header, unused, trunk, counted, written, damaged>>

Least(S) == CHOOSE x \in S : \A y \in S : x <= y

Tree(children, overflows) == [kind |-> "tree", children |-> children, overflows |-> overflows]
Chain(next)               == [kind |-> "chain", next |-> next]
Trunk(next, leaves)       == [kind |-> "trunk", next |-> next, leaves |-> leaves]
\* A page whose bytes nobody reads: unused, reserved or a leaf of the freelist.
Blank                     == [kind |-> "blank"]

\* next_free: the pages of the spooled ranges, one after the other.
FreePages(ranges) ==
  LET pages[r \in 0 .. Len(ranges)] ==
        IF r = 0 THEN <<>>
        ELSE pages[r - 1] \o [i \in 1 .. ranges[r][2] - ranges[r][1] |-> ranges[r][1] + i - 1]
  IN  pages[Len(ranges)]

FileInit ==
  /\ image \in Images
  /\ content = image.content
  /\ header = [first |-> image.first, free |-> image.free]
  /\ unused = FreePages(image.ranges) /\ trunk = 0 /\ counted = 0
  /\ written = "trunks" /\ damaged = FALSE

\* Without unused pages the freelist stays as it was; otherwise the first one
\* becomes a trunk.
StartTrunks ==
  /\ written = "trunks" /\ trunk = 0
  /\ IF unused = <<>> THEN written' = "written" /\ UNCHANGED <<unused, trunk>>
     ELSE trunk' = Head(unused) /\ unused' = Tail(unused) /\ UNCHANGED written
  /\ UNCHANGED <<image, content, header, counted, damaged>>

\* Mutation of NextTrunk: the list ends here.
NextTrunkOnly(rest) == IF rest = <<>> THEN 0 ELSE Head(rest)

\* The last new trunk leads to the freelist there was before.
NextTrunk(rest) == IF rest = <<>> THEN image.first ELSE Head(rest)

\* free_count, which the allocator kept while ranges were spooled.
FreeCount ==
  LET count[r \in 0 .. Len(image.ranges)] ==
        IF r = 0 THEN 0 ELSE count[r - 1] + image.ranges[r][2] - image.ranges[r][1]
  IN  count[Len(image.ranges)]

\* One trunk page; after the last one the header is made.
WriteTrunk ==
  /\ written = "trunks" /\ trunk # 0
  /\ LET leaves == SubSeq(unused, 1, Least({TrunkSlots, Len(unused)}))
         rest   == SubSeq(unused, Len(leaves) + 1, Len(unused))
         next   == NextTrunk(rest)
     IN  /\ content' = [content EXCEPT ![trunk] = Trunk(next, leaves)]
         /\ counted' = counted + Len(leaves) + 1
         /\ IF rest # <<>>
            THEN trunk' = next /\ unused' = Tail(rest) /\ UNCHANGED <<written, header>>
            ELSE /\ unused' = <<>> /\ UNCHANGED trunk
                 /\ IF counted' # FreeCount
                    THEN written' = "failed" /\ UNCHANGED header
                    ELSE /\ written' = "written"
                         /\ header' = [first |-> FreePages(image.ranges)[1],
                                       free  |-> image.free + counted']
  /\ UNCHANGED <<image, damaged>>

\* Storage changes one pointer of a page, or of the header.
Damage ==
  /\ written = "written" /\ ~damaged /\ damaged' = TRUE
  /\ \E v \in Wrong :
       \/ \E p \in 1 .. PageCount :
            /\ \/ /\ content[p].kind = "tree"
                  /\ \/ \E i \in DOMAIN content[p].children :
                          content' = [content EXCEPT ![p].children[i] = v]
                     \/ \E i \in DOMAIN content[p].overflows :
                          content' = [content EXCEPT ![p].overflows[i] = <<v, @[2]>>]
               \/ /\ content[p].kind \in {"chain", "trunk"}
                  /\ content' = [content EXCEPT ![p].next = v]
               \/ /\ content[p].kind = "trunk"
                  /\ \E i \in DOMAIN content[p].leaves :
                       content' = [content EXCEPT ![p].leaves[i] = v]
            /\ UNCHANGED header
       \/ header' = [header EXCEPT !.first = v] /\ UNCHANGED content
       \/ header' = [header EXCEPT !.free = v] /\ UNCHANGED content
  /\ <<content, header>>' # <<content, header>>
  /\ UNCHANGED <<image, unused, trunk, counted, written>>

-----------------------------------------------------------------------------
(* What a sound file is, said without walking it.                          *)

\* The pointers of a page: where each one stands and the page it names.
PointersOf(pages, p) ==
  CASE pages[p].kind = "tree" ->
         {<<p, "child", i, pages[p].children[i]>> : i \in DOMAIN pages[p].children}
           \cup {<<p, "chain", i, pages[p].overflows[i][1]>> : i \in DOMAIN pages[p].overflows}
    [] pages[p].kind = "chain" ->
         IF pages[p].next = 0 THEN {} ELSE {<<p, "chain", 0, pages[p].next>>}
    [] pages[p].kind = "trunk" ->
         {<<p, "free", i, pages[p].leaves[i]>> : i \in DOMAIN pages[p].leaves}
           \cup (IF pages[p].next = 0 THEN {} ELSE {<<p, "trunk", 0, pages[p].next>>})
    [] OTHER -> {}

Anchors(roots, first) ==
  {<<0, "child", i, roots[i]>> : i \in DOMAIN roots}
    \cup (IF first = 0 THEN {} ELSE {<<0, "trunk", 0, first>>})

Pointers(pages, roots, first) ==
  Anchors(roots, first) \cup UNION {PointersOf(pages, p) : p \in 1 .. PageCount}

\* The page a pointer names can be read as what it is taken for.
Fits(pages, pointer) ==
  pages[pointer[4]].kind = CASE pointer[2] = "child" -> "tree"
                             [] pointer[2] = "free"  -> "blank"
                             [] OTHER                -> pointer[2]

\* The overflow chain of a record has the pages its payload needs.
ChainFits(pages, first, count) ==
  /\ count \in Nat \ {0}
  /\ \E c \in [1 .. count -> {p \in 1 .. PageCount : pages[p].kind = "chain"}] :
       /\ c[1] = first /\ pages[c[count]].next = 0
       /\ \A i \in 1 .. count - 1 : pages[c[i]].next = c[i + 1]

\* Every page that is owned is named by one pointer and no other is named, no group
\* of pages is only named from within, chains have their length, and the header
\* counts the free pages.
Sound(pages, roots, head, owned) ==
  LET pointers == Pointers(pages, roots, head.first)
      free     == {p \in owned : \E x \in pointers : x[4] = p /\ x[2] \in {"free", "trunk"}}
  IN  /\ \A x \in pointers : x[4] \in owned /\ Fits(pages, x)
      /\ \A p \in owned : \E x \in pointers : \A y \in pointers : y[4] = p <=> y = x
      /\ \A S \in (SUBSET owned) \ {{}} : \E x \in pointers : x[4] \in S /\ x[1] \notin S
      /\ \A p \in owned : pages[p].kind = "tree" =>
           \A i \in DOMAIN pages[p].overflows :
             ChainFits(pages, pages[p].overflows[i][1], pages[p].overflows[i][2])
      /\ head.free = Cardinality(free)

\* All pages but the reserved one.
Ownable == (1 .. PageCount) \ {Reserved}
OwnershipSound == Sound(content, image.roots, header, Ownable)

\* What a page may hold.
LeafLists == {s \in Seq(Nat) : Len(s) <= TrunkSlots}
Pages == [kind : {"tree"}, children : Seq(Nat), overflows : Seq(Nat \X Nat)]
           \cup [kind : {"chain"}, next : Nat]
           \cup [kind : {"trunk"}, next : Nat, leaves : LeafLists] \cup {Blank}

\* The file as the trees leave it: they and an older freelist own every page but the
\* unused ones, each of which is in one of the ranges (see PagePool).
Left(im) ==
  LET free == FreePages(im.ranges)
  IN  /\ im.content \in [1 .. PageCount -> Pages] /\ im.roots \in Seq(Nat) /\ im.first \in Nat
      /\ Reserved \in 1 .. PageCount => im.content[Reserved] = Blank
      /\ im.ranges \in Seq(Nat \X Nat)
      /\ \A r \in DOMAIN im.ranges : im.ranges[r][1] < im.ranges[r][2]
      /\ IsInjective(free) /\ Range(free) \subseteq Ownable
      /\ \A p \in Range(free) : im.content[p] = Blank
      /\ Sound(im.content, im.roots, [first |-> im.first, free |-> im.free],
               Ownable \ Range(free))

ASSUME FileAssumption ==
  /\ PageCount \in Nat \ {0} /\ TrunkSlots \in Nat \ {0} /\ Reserved \in Nat
  /\ Wrong \subseteq Nat /\ \A im \in Images : Left(im)
-----------------------------------------------------------------------------
(* The inductive invariant behind the freelist.                            *)

\* The pointers of the first k free pages.
Links(free, pages, k) == UNION {PointersOf(pages, free[i]) : i \in 1 .. k}

\* The first k of the free pages are on the freelist: each is named once, by a page
\* before it, and the last trunk leads to the freelist there was before.
Linked(free, first, pages, k) ==
  LET links == Links(free, pages, k)
      last  == k # 0 /\ k = Len(free) /\ first # 0
  IN  /\ k \in 0 .. Len(free)
      /\ \A i \in 1 .. k : /\ pages[free[i]].kind \in {"trunk", "blank"}
                           /\ i = 1 => pages[free[i]].kind = "trunk"
      /\ \A x \in links :
           /\ x[2] \in {"free", "trunk"}
           /\ \E i \in 1 .. k :
                /\ x[1] = free[i]
                /\ \/ last /\ x[4] = first /\ x[2] = "trunk"
                   \/ \E j \in i + 1 .. Len(free) :
                        /\ j <= k + 1 /\ x[4] = free[j]
                        /\ IF j <= k THEN Fits(pages, x) ELSE x[2] = "trunk"
      /\ k # 0 => \A j \in 2 .. Len(free) : j <= k + 1 => \E x \in links : x[4] = free[j]
      /\ last => \E x \in links : x[4] = first
      /\ \A x, y \in links : x[4] = y[4] => x = y

FileAt ==
  LET free == FreePages(image.ranges)
  IN  /\ image \in Images /\ written \in {"trunks", "written"}
      /\ written = "trunks" =>
           /\ ~damaged /\ header = [first |-> image.first, free |-> image.free]
           /\ IF trunk = 0 THEN counted = 0 /\ unused = free
              ELSE /\ counted < Len(free) /\ trunk = free[counted + 1]
                   /\ unused = SubSeq(free, counted + 2, Len(free))
      /\ written = "written" /\ ~damaged =>
           /\ counted = Len(free)
           /\ header = IF free = <<>> THEN [first |-> image.first, free |-> image.free]
                       ELSE [first |-> free[1], free |-> image.free + counted]
      /\ ~damaged =>
           /\ DOMAIN content = 1 .. PageCount
           /\ counted = 0 => content = image.content
           /\ \A p \in 1 .. PageCount :
                 p \notin {free[i] : i \in 1 .. counted} => content[p] = image.content[p]
           /\ Linked(free, image.first, content, counted)

=============================================================================
