------------------------------ MODULE PagePool ------------------------------
(***************************************************************************)
(* The dynamic page allocation of the bulk loader (BlockAllocator and the  *)
(* dynamic half of PageWriter, native/page_writer.rs).                     *)
(*                                                                         *)
(* A coordinator forks one writer per B-tree.  All writers put pages into  *)
(* one database file.  Each takes blocks of page numbers off the shared    *)
(* counter `next` with a compare-and-swap loop, fills the block, and sends *)
(* what it leaves unfilled to the free-page spool under a mutex.  A writer *)
(* that fails raises `failed` and lowers `active`; the coordinator may     *)
(* finish the file only when it reads active = 0 and failed = FALSE.       *)
(***************************************************************************)
EXTENDS Naturals, FiniteSets

CONSTANTS Workers,       (* writers made by fork_dynamic                   *)
          Coordinator,   (* the writer enable_dynamic was called on        *)
          BootEnd,       (* bootstrap_end: first page after the bootstrap  *)
          Block,         (* block_pages: pages of an ordinary grant        *)
          Pending,       (* the page of SQLite's lock byte                 *)
          Limit,         (* u32::MAX: page numbers stay below it           *)
          MaxChain       (* longest overflow chain of a record, in pages   *)

ASSUME PoolAssumption ==
  /\ IsFiniteSet(Workers)
  /\ Coordinator \notin Workers
  /\ BootEnd \in Nat /\ BootEnd > 1
  /\ Block \in Nat \ {0}
  /\ Pending \in Nat
  /\ Limit \in Nat /\ Limit >= BootEnd
  /\ MaxChain \in Nat

Writers == Workers \cup {Coordinator}
Pages   == BootEnd .. (Limit - 1)
Roots   == 2 .. (BootEnd - 1)

VARIABLES
  next,    (* BlockAllocator.next: first page nobody was granted           *)
  active,  (* BlockAllocator.active: forked writers not yet gone           *)
  failed,  (* BlockAllocator.failed                                        *)
  roots,   (* BlockAllocator.roots: tree roots already claimed             *)
  freed,   (* the spool free_output: how often each page was put into it   *)
  pc,      (* where each writer's thread is                                *)
  at,      (* PageWriter.next_page                                         *)
  end,     (* PageWriter.range_end                                         *)
  seen,    (* the value of `next` grant has loaded                         *)
  need,    (* the `pages` argument of ensure_contiguous                    *)
  back,    (* where ensure_contiguous returns to                           *)
  root,    (* PageWriter.assigned_root, for the coordinator the root of     *)
           (* the tree it is writing; 0 when there is none                 *)
  left,    (* pages of the current record or node still to be appended     *)
  link,    (* the page number the last written pointer of a chain names,   *)
           (* 0 outside a chain                                            *)
  used,    (* how often each page, tree roots included, was given content  *)
  torn     (* history: a page was written elsewhere than its chain says    *)

shared == <<next, active, failed, roots, freed>>
local  == <<pc, at, end, root, seen, need, back, left, link>>
vars   == <<shared, local, used, torn>>

\* Writers whose block still belongs to them.
Holding == {"tree", "ensure", "retire", "load", "cas", "chain", "append",
            "ended", "returning", "idle", "quiet", "closing"}
\* Writers whose tree has returned an error or that are being dropped.
Failing == {"err", "drop", "leave"}
Gone    == {"none", "leaving", "done", "gone", "sealed", "refused"}

Inside(a, b)    == a <= Pending /\ Pending < b
Run(a, b)       == (a .. (b - 1)) \ {Pending}
Tail(w)         == IF pc[w] \in Holding THEN Run(at[w], end[w]) ELSE {}
Available(w)    == IF Inside(at[w], end[w]) THEN end[w] - at[w] - 1
                                            ELSE end[w] - at[w]
NextAvailable(p) == IF p = Pending THEN p + 1 ELSE p

\* The end of the block `grant` would take at page p for a request of n pages.
GrantEnd(p, n) == LET pages == IF n > Block THEN n ELSE Block
                  IN  IF Inside(p, p + pages) THEN p + pages + 1 ELSE p + pages

Goto(w, l) == pc' = [pc EXCEPT ![w] = l]

\* Mutation of ReturnTail: the page of the lock byte is spooled with the rest.
ReturnWholeTail(a, b) ==
  freed' = [p \in Pages |-> IF a <= p /\ p < b THEN freed[p] + 1 ELSE freed[p]]

\* return_tail: the pages from a to b, the pending page left out, are spooled.
ReturnTail(a, b) ==
  freed' = [p \in Pages |-> IF p \in Run(a, b) THEN freed[p] + 1 ELSE freed[p]]
-----------------------------------------------------------------------------
Init == /\ next = BootEnd
        /\ active = 0
        /\ failed = FALSE
        /\ roots = {}
        /\ freed = [p \in Pages |-> 0]
        /\ pc = [w \in Writers |-> IF w = Coordinator THEN "idle" ELSE "none"]
        /\ at = [w \in Writers |-> IF w = Coordinator THEN BootEnd ELSE 0]
        /\ end = [w \in Writers |-> IF w = Coordinator THEN BootEnd ELSE 0]
        /\ root = [w \in Writers |-> 0]
        /\ seen = [w \in Writers |-> 0]
        /\ need = [w \in Writers |-> 0]
        /\ back = [w \in Writers |-> "append"]
        /\ left = [w \in Writers |-> 0]
        /\ link = [w \in Writers |-> 0]
        /\ used = [p \in 2 .. (Limit - 1) |-> 0]
        /\ torn = FALSE

-----------------------------------------------------------------------------
(* The coordinator hands out trees.                                        *)

\* fork_dynamic: the file is open, the root claimed, the writer counted.
Fork(w, r) ==
  /\ pc[Coordinator] = "idle"
  /\ pc[w] = "none"
  /\ r \notin roots
  /\ roots' = roots \cup {r}
  /\ active' = active + 1
  /\ root' = [root EXCEPT ![w] = r]
  /\ Goto(w, "tree")
  /\ UNCHANGED <<next, failed, freed, at, end, seen, need, back, left, link,
                 used, torn>>

\* The coordinator writes a tree itself; a claimed root is an error of tree(),
\* which table_from and index_from turn into a failed allocator.
BeginTree(r) ==
  /\ pc[Coordinator] = "idle"
  /\ IF r \in roots
     THEN /\ Goto(Coordinator, "err")
          /\ UNCHANGED <<roots, root>>
     ELSE /\ Goto(Coordinator, "tree")
          /\ roots' = roots \cup {r}
          /\ root' = [root EXCEPT ![Coordinator] = r]
  /\ UNCHANGED <<next, active, failed, freed, at, end, seen, need, back, left,
                 link, used, torn>>

-----------------------------------------------------------------------------
(* A tree asks for pages: one at a time for nodes, a run for an overflow   *)
(* chain, whose pointers are computed before their pages are written.      *)

NewPage(w) ==
  /\ pc[w] = "tree"
  /\ need' = [need EXCEPT ![w] = 1]
  /\ left' = [left EXCEPT ![w] = 1]
  /\ back' = [back EXCEPT ![w] = "append"]
  /\ Goto(w, "ensure")
  /\ UNCHANGED <<shared, at, end, root, seen, link, used, torn>>

\* Mutation of NewChain: the first pointer is computed before the pages are reserved.
NewChainLinkedEarly(w, k) ==
  /\ pc[w] = "tree"
  /\ need' = [need EXCEPT ![w] = k]
  /\ left' = [left EXCEPT ![w] = k]
  /\ back' = [back EXCEPT ![w] = "append"]
  /\ link' = [link EXCEPT ![w] = NextAvailable(at[w])]
  /\ Goto(w, "ensure")
  /\ UNCHANGED <<shared, at, end, root, seen, used, torn>>

NewChain(w, k) ==
  /\ pc[w] = "tree"
  /\ need' = [need EXCEPT ![w] = k]
  /\ left' = [left EXCEPT ![w] = k]
  /\ back' = [back EXCEPT ![w] = "chain"]
  /\ Goto(w, "ensure")
  /\ UNCHANGED <<shared, at, end, root, seen, link, used, torn>>

\* ensure_contiguous: is the request covered by the rest of the block?
Ensure(w) ==
  /\ pc[w] = "ensure"
  /\ Goto(w, IF Available(w) >= need[w] THEN back[w] ELSE "retire")
  /\ UNCHANGED <<shared, at, end, root, seen, need, back, left, link, used, torn>>

\* The old block's tail is spooled and the block given up.
Retire(w) ==
  /\ pc[w] = "retire"
  /\ ReturnTail(at[w], end[w])
  /\ end' = [end EXCEPT ![w] = at[w]]
  /\ Goto(w, "load")
  /\ UNCHANGED <<next, active, failed, roots, at, root, seen, need, back, left, link,
                 used, torn>>

Load(w) ==
  /\ pc[w] = "load"
  /\ seen' = [seen EXCEPT ![w] = next]
  /\ Goto(w, "cas")
  /\ UNCHANGED <<shared, at, end, root, need, back, left, link, used, torn>>

\* Mutation of CasLoses: the loop tries the old value again.
CasSpins(w) ==
  /\ pc[w] = "cas"
  /\ GrantEnd(seen[w], need[w]) <= Limit
  /\ next # seen[w]
  /\ UNCHANGED vars

\* compare_exchange: somebody else was faster, try again from their value.
CasLoses(w) ==
  /\ pc[w] = "cas"
  /\ GrantEnd(seen[w], need[w]) <= Limit
  /\ next # seen[w]
  /\ seen' = [seen EXCEPT ![w] = next]
  /\ UNCHANGED <<shared, pc, at, end, root, need, back, left, link, used, torn>>

\* Mutation of CasWins: a plain store instead of the compare-and-swap.
StoreWins(w) ==
  /\ pc[w] = "cas"
  /\ GrantEnd(seen[w], need[w]) <= Limit
  /\ next' = GrantEnd(seen[w], need[w])
  /\ at' = [at EXCEPT ![w] = seen[w]]
  /\ end' = [end EXCEPT ![w] = GrantEnd(seen[w], need[w])]
  /\ Goto(w, back[w]) \/ Goto(w, "err")
  /\ UNCHANGED <<active, failed, roots, freed, root, seen, need, back, left,
                 link, used, torn>>

\* The block is the writer's; the seek that follows may fail and lose it.
CasWins(w) ==
  /\ pc[w] = "cas"
  /\ GrantEnd(seen[w], need[w]) <= Limit
  /\ next = seen[w]
  /\ next' = GrantEnd(seen[w], need[w])
  /\ at' = [at EXCEPT ![w] = seen[w]]
  /\ end' = [end EXCEPT ![w] = GrantEnd(seen[w], need[w])]
  /\ Goto(w, back[w]) \/ Goto(w, "err")
  /\ UNCHANGED <<active, failed, roots, freed, root, seen, need, back, left,
                 link, used, torn>>

\* checked_add overflows: the page space is exhausted.
Exhausted(w) ==
  /\ pc[w] = "cas"
  /\ GrantEnd(seen[w], need[w]) > Limit
  /\ Goto(w, "err")
  /\ UNCHANGED <<shared, at, end, root, seen, need, back, left, link, used, torn>>

\* cell() stores the pointer to the first page of the chain.
LinkFirst(w) ==
  /\ pc[w] = "chain"
  /\ link' = [link EXCEPT ![w] = NextAvailable(at[w])]
  /\ need' = [need EXCEPT ![w] = 1]
  /\ back' = [back EXCEPT ![w] = "append"]
  /\ Goto(w, "ensure")
  /\ UNCHANGED <<shared, at, end, root, seen, left, used, torn>>

\* append: one page goes to the file; a chain page also names its successor.
Put(w) ==
  LET id == NextAvailable(at[w])
  IN  /\ pc[w] = "append"
      /\ id < end[w]
      /\ used' = [used EXCEPT ![id] = @ + 1]
      /\ torn' = (torn \/ (link[w] # 0 /\ link[w] # id))
      /\ at' = [at EXCEPT ![w] = id + 1]
      /\ left' = [left EXCEPT ![w] = @ - 1]
      /\ link' = [link EXCEPT ![w] = IF @ # 0 /\ left[w] > 1
                                     THEN NextAvailable(id + 1) ELSE 0]
      /\ Goto(w, IF left[w] > 1 THEN "ensure" ELSE "tree")
      /\ UNCHANGED <<shared, end, root, seen, need, back>>

\* The tree is complete: its root page is written, a worker goes on to
\* complete(), the coordinator to its next tree.
EndTree(w) ==
  /\ pc[w] = "tree"
  /\ used' = [used EXCEPT ![root[w]] = @ + 1]
  /\ Goto(w, IF w = Coordinator THEN "idle" ELSE "ended")
  /\ UNCHANGED <<shared, at, end, root, seen, need, back, left, link, torn>>

-----------------------------------------------------------------------------
(* Leaving: complete(), errors and Drop.                                   *)

CompleteCheck(w) ==
  /\ pc[w] = "ended"
  /\ Goto(w, IF failed THEN "drop" ELSE "returning")
  /\ UNCHANGED <<shared, at, end, root, seen, need, back, left, link, used, torn>>

CompleteReturn(w) ==
  /\ pc[w] = "returning"
  /\ ReturnTail(at[w], end[w])
  /\ Goto(w, "leaving")
  /\ UNCHANGED <<next, active, failed, roots, at, end, root, seen, need, back, left,
                 link, used, torn>>

CompleteLeave(w) ==
  /\ pc[w] = "leaving"
  /\ active' = active - 1
  /\ Goto(w, "done")
  /\ UNCHANGED <<next, failed, roots, freed, at, end, root, seen, need, back, left,
                 link, used, torn>>

\* The record source or a write to the file fails inside tree().
TreeFails(w) ==
  /\ pc[w] \in {"tree", "append"}
  /\ Goto(w, "err")
  /\ UNCHANGED <<shared, at, end, root, seen, need, back, left, link, used, torn>>

\* return_tail fails at once, or after the part below the pending page; finish also when
\* the tail is returned and the spool, the file or its header cannot be written.
ReturnFails(w) ==
  /\ pc[w] \in {"retire", "returning", "closing"}
  /\ \/ UNCHANGED freed
     \/ Inside(at[w], end[w]) /\ ReturnTail(at[w], Pending)
     \/ pc[w] = "closing" /\ ReturnTail(at[w], end[w])
  /\ Goto(w, CASE pc[w] = "retire"    -> "err"
               [] pc[w] = "returning" -> "drop"
               [] pc[w] = "closing"   -> "refused")
  /\ UNCHANGED <<next, active, failed, roots, at, end, root, seen, need, back,
                 left, link, used, torn>>

\* table_from and index_from mark the allocator failed before they return; the
\* caller passes the error on and the writer is dropped.
MarkFailed(w) ==
  /\ pc[w] = "err"
  /\ failed' = TRUE
  /\ Goto(w, IF w = Coordinator THEN "refused" ELSE "drop")
  /\ UNCHANGED <<next, active, roots, freed, at, end, root, seen, need, back,
                 left, link, used, torn>>

\* complete() fails, or a panic unwinds the thread: the writer is dropped.
Unwind(w) ==
  /\ w \in Workers
  /\ pc[w] \in {"tree", "append", "ended", "returning"}
  /\ Goto(w, "drop")
  /\ UNCHANGED <<shared, at, end, root, seen, need, back, left, link, used, torn>>

\* Mutation of DropFailed: an abandoned writer only lowers active.
DropSilently(w) ==
  /\ pc[w] = "drop"
  /\ Goto(w, "leave")
  /\ UNCHANGED <<shared, at, end, root, seen, need, back, left, link, used, torn>>

\* Drop stores failed first and lowers active second.
DropFailed(w) ==
  /\ pc[w] = "drop"
  /\ failed' = TRUE
  /\ Goto(w, "leave")
  /\ UNCHANGED <<next, active, roots, freed, at, end, root, seen, need, back, left,
                 link, used, torn>>

DropLeave(w) ==
  /\ pc[w] = "leave"
  /\ active' = active - 1
  /\ Goto(w, "gone")
  /\ UNCHANGED <<next, failed, roots, freed, at, end, root, seen, need, back, left,
                 link, used, torn>>

-----------------------------------------------------------------------------
(* finish() of the coordinator reads active, then failed, then returns its *)
(* own tail and closes the spool.                                          *)

FinishActive ==
  /\ pc[Coordinator] = "idle"
  /\ Goto(Coordinator, IF active # 0 THEN "refused" ELSE "quiet")
  /\ UNCHANGED <<shared, at, end, root, seen, need, back, left, link, used, torn>>

FinishFailed ==
  /\ pc[Coordinator] = "quiet"
  /\ Goto(Coordinator, IF failed THEN "refused" ELSE "closing")
  /\ UNCHANGED <<shared, at, end, root, seen, need, back, left, link, used, torn>>

FinishReturn ==
  /\ pc[Coordinator] = "closing"
  /\ ReturnTail(at[Coordinator], end[Coordinator])
  /\ Goto(Coordinator, "sealed")
  /\ UNCHANGED <<next, active, failed, roots, at, end, root, seen, need, back, left,
                 link, used, torn>>

-----------------------------------------------------------------------------
Fill(w) == NewPage(w) \/ Ensure(w) \/ Retire(w) \/ Load(w) \/ CasLoses(w)
             \/ CasWins(w) \/ Exhausted(w) \/ LinkFirst(w) \/ Put(w) \/ EndTree(w)
             \/ \E k \in 1 .. MaxChain : NewChain(w, k)
Leave(w) == CompleteCheck(w) \/ CompleteReturn(w) \/ CompleteLeave(w)
              \/ DropFailed(w) \/ DropLeave(w)
Fail(w) == TreeFails(w) \/ ReturnFails(w) \/ MarkFailed(w) \/ Unwind(w)

Act(w) == Fill(w) \/ Leave(w) \/ Fail(w)
HandOut == \E r \in Roots : BeginTree(r) \/ \E w \in Workers : Fork(w, r)
Finish == FinishActive \/ FinishFailed \/ FinishReturn

Next == HandOut \/ Finish \/ \E w \in Writers : Act(w)

Spec == Init /\ [][Next]_vars

\* Every forked thread runs on, its record source is finite, and the caller
\* joins the threads and then finishes or drops the coordinator.
Fairness == /\ \A w \in Writers : WF_vars(Act(w))
            /\ WF_vars(Finish)
FairSpec == Spec /\ Fairness

-----------------------------------------------------------------------------
PcValues == Holding \cup Failing \cup Gone

SharedTypes == /\ next \in BootEnd .. Limit
               /\ active \in Nat
               /\ roots \in SUBSET Roots
               /\ freed \in [Pages -> Nat]
               /\ used \in [2 .. (Limit - 1) -> Nat]
BlockTypes  == /\ at \in [Writers -> Nat]
               /\ end \in [Writers -> Nat]
               /\ root \in [Writers -> Nat]
               /\ seen \in [Writers -> Nat]
DemandTypes == /\ need \in [Writers -> Nat]
               /\ back \in [Writers -> {"append", "chain"}]
               /\ left \in [Writers -> Nat]
               /\ link \in [Writers -> Nat]
PcType      == pc \in [Writers -> PcValues]
FlagTypes   == failed \in BOOLEAN /\ torn \in BOOLEAN

TypeOK == SharedTypes /\ BlockTypes /\ DemandTypes /\ PcType /\ FlagTypes

(* Whatever the interleaving, no page of the file is given content twice,   *)
(* no tree content lands on the lock-byte page, and no page that holds      *)
(* content is also on the free list or on it twice (grant, append,          *)
(* return_tail, claim_root).                                                *)
OneUsePerPage ==
  /\ \A p \in DOMAIN used : used[p] <= 1
  /\ \A p \in Pages : used[p] + freed[p] <= 1
  /\ Pending \in Pages => used[Pending] + freed[Pending] = 0

(* Blocks never overlap: two writers that hold pages hold different ones,   *)
(* all of them granted and none of them used or freed yet.                  *)
BlocksDisjoint ==
  /\ \A v, w \in Writers : v # w => Tail(v) \cap Tail(w) = {}
  /\ \A w \in Writers : \A p \in Tail(w) :
       p < next /\ used[p] = 0 /\ freed[p] = 0

(* An overflow chain is written where its precomputed pointers say, even    *)
(* when other threads take blocks while it is being written (cell).         *)
ChainsIntact == ~torn

(* A finished file leaks nothing: every page the allocator ever handed out  *)
(* is tree content or on the free list, and nobody still owns a page.       *)
SealedIsComplete ==
  pc[Coordinator] = "sealed" =>
    /\ \A p \in Pages : p < next /\ p # Pending => used[p] + freed[p] = 1
    /\ \A w \in Workers : pc[w] \in {"none", "done"}

(* Once finish() has sealed the file no thread changes a page, the spool or *)
(* the page counter.                                                        *)
SealedIsFinal ==
  [][pc[Coordinator] = "sealed" => UNCHANGED <<used, freed, next>>]_vars

(* The pool implements the shared page space of PageFile.                   *)
File == INSTANCE PageFile WITH
          size  <- next,
          kept  <- [p \in Pages |-> used[p]],
          spare <- freed,
          state <- CASE pc[Coordinator] = "sealed"  -> "sealed"
                     [] pc[Coordinator] = "refused" -> "abandoned"
                     [] OTHER                       -> "open"
ImplementsPageFile == File!FileSpec

(* No writer is stuck: every forked thread leaves and the coordinator ends  *)
(* with a verdict.  In particular the compare-and-swap loop of grant ends.  *)
EveryWriterLeaves ==
  /\ \A w \in Workers : pc[w] # "none" ~> pc[w] \in {"done", "gone"}
  /\ <>(pc[Coordinator] \in {"sealed", "refused"})

-----------------------------------------------------------------------------
(* The inductive invariant behind the safety properties.                   *)

InTree == {"tree", "ensure", "retire", "load", "cas", "chain", "append"}
Live   == PcValues \ {"none", "done", "gone"}
Lossy  == {"err", "drop", "leave", "gone", "refused"}

\* Blocks lie between the bootstrap and `next`; a writer asks for a new one
\* only after it has given up the old one.
Bounds(w) == /\ pc[w] \in Holding => at[w] <= end[w] /\ end[w] <= next
             /\ at[w] < end[w] => at[w] >= BootEnd
             /\ pc[w] = "none" => at[w] = 0 /\ end[w] = 0
             /\ pc[w] \in {"load", "cas"} => at[w] = end[w]
             /\ pc[w] = "cas" => seen[w] >= BootEnd
BlockBounds == \A w \in Writers : Bounds(w)

FreshBeyondNext == \A p \in Pages : p >= next => used[p] = 0 /\ freed[p] = 0

\* Claimed roots belong to one tree each and are written when it ends.
RootsExclusive ==
  /\ \A r \in Roots \ roots : used[r] = 0
  /\ \A w \in Writers :
       pc[w] \in InTree => root[w] \in roots /\ used[root[w]] = 0
  /\ \A v, w \in Writers :
       v # w /\ pc[v] \in InTree /\ pc[w] \in InTree => root[v] # root[w]

\* While a chain is being written the rest of it still fits the block, and the
\* last pointer written names the next page to be written.
Asking == {"ensure", "retire", "load", "cas"}
Reserved(w) ==
  /\ pc[w] \in Asking \cup {"chain", "append"} => left[w] > 0
  /\ pc[w] \in Asking => need[w] = IF back[w] = "chain" THEN left[w] ELSE 1
  /\ pc[w] = "append" => back[w] = "append" /\ need[w] = 1 /\ Available(w) >= 1
  /\ pc[w] = "chain" => Available(w) >= left[w]
  /\ pc[w] \in {"none", "idle", "tree", "retire", "load", "cas", "chain"} =>
       link[w] = 0
  /\ pc[w] = "ensure" /\ back[w] = "chain" => link[w] = 0
  /\ pc[w] \in Asking \cup {"append"} /\ back[w] = "append" /\ link[w] = 0 =>
       left[w] = 1
  /\ pc[w] \in {"ensure", "append"} /\ link[w] # 0 =>
       Available(w) >= left[w] /\ link[w] = NextAvailable(at[w])
ChainReserved == \A w \in Writers : Reserved(w)

\* `active` counts the forked writers that have not left; who leaves without
\* completing has raised `failed` before; a quiet coordinator is alone.
ActiveCounts ==
  /\ active = Cardinality({w \in Workers : pc[w] \in Live})
  /\ \A w \in Workers : pc[w] \in {"leave", "gone"} => failed
  /\ \A w \in Workers : pc[w] \notin {"idle", "quiet", "closing", "sealed", "refused"}
  /\ pc[Coordinator] \notin {"none", "ended", "returning", "drop", "leave",
                             "leaving", "done", "gone"}
  /\ pc[Coordinator] \in {"quiet", "closing", "sealed"} =>
       \A w \in Workers : pc[w] \in {"none", "done", "gone"}
  /\ pc[Coordinator] \in {"closing", "sealed"} => ~failed

\* Unless a writer has failed, every granted page is used, freed or held.
NothingLost ==
  (\A w \in Writers : pc[w] \notin Lossy) =>
    \A p \in Pages : p < next /\ p # Pending =>
      used[p] + freed[p] = 1 \/ \E w \in Writers : p \in Tail(w)

(* The invariant as a whole: it is inductive, and it implies the safety     *)
(* properties above (BlockAllocator and the dynamic PageWriter).            *)
PoolInv == /\ TypeOK
           /\ BlockBounds
           /\ FreshBeyondNext
           /\ BlocksDisjoint
           /\ OneUsePerPage
           /\ RootsExclusive
           /\ ChainReserved
           /\ ~torn
           /\ ActiveCounts
           /\ NothingLost

=============================================================================
