--------------------------- MODULE PagePoolProofs ---------------------------
(***************************************************************************)
(* Proofs about PagePool, for every set of workers, block size, page       *)
(* limit, position of the lock-byte page and length of overflow chains.    *)
(***************************************************************************)
EXTENDS PagePool, FiniteSetTheorems, TLAPS

USE DEF shared, local

\* The vocabulary of control states.
LEMMA PcFacts ==
  /\ Holding \subseteq PcValues
  /\ InTree \subseteq Holding
  /\ Live = InTree \cup {"idle", "quiet", "closing", "ended", "returning",
                         "leaving", "err", "drop", "leave", "sealed", "refused"}
BY DEF PcValues, Holding, Failing, Gone, InTree, Live

-----------------------------------------------------------------------------
(* Type correctness.                                                       *)

LEMMA CountType ==
  ASSUME NEW S, NEW f \in [S -> Nat], NEW x
  PROVE  [f EXCEPT ![x] = @ + 1] \in [S -> Nat]
<1> DEFINE g == [f EXCEPT ![x] = @ + 1]
<1>1. \A y \in S : f[y] \in Nat
  OBVIOUS
<1>2. ASSUME NEW y \in S PROVE g[y] \in Nat
  <2>1. CASE y = x BY <1>1, <2>1
  <2>2. CASE y # x BY <1>1, <2>2
  <2>3. QED BY <2>1, <2>2
<1>3. g = [y \in S |-> g[y]]
  OBVIOUS
<1>4. QED BY <1>2, <1>3

\* Types of functions after EXCEPT.
LEMMA SetType ==
  ASSUME NEW S, NEW f \in [S -> Nat], NEW x, NEW v \in Nat
  PROVE  [f EXCEPT ![x] = v] \in [S -> Nat]
OBVIOUS

\* Returning a tail and moving a writer keep the types.
LEMMA ReturnTailType ==
  ASSUME freed \in [Pages -> Nat], NEW a, NEW b, ReturnTail(a, b)
  PROVE  freed' \in [Pages -> Nat]
BY DEF ReturnTail

LEMMA GotoType ==
  ASSUME PcType, NEW w \in Writers, NEW l \in PcValues, Goto(w, l)
  PROVE  PcType'
BY DEF PcType, Goto

\* Who lowers `active` is counted by it.
LEMMA ActivePositive ==
  ASSUME PoolInv, NEW w \in Workers, pc[w] \in Live
  PROVE  active > 0
<1> DEFINE L == {v \in Workers : pc[v] \in Live}
<1>1. IsFiniteSet(L) /\ L # {}
  BY PoolAssumption, FS_Subset
<1>2. Cardinality(L) \in Nat /\ Cardinality(L) # 0
  BY <1>1, FS_CardinalityType, FS_EmptySet
<1>3. active = Cardinality(L)
  BY DEF PoolInv, ActiveCounts
<1>4. QED BY <1>2, <1>3

\* Types, one group of variables at a time.
LEMMA FlagStep == ASSUME TypeOK, Next PROVE FlagTypes'
<1> USE DEF TypeOK, FlagTypes
<1>1. ASSUME NEW w \in Writers, Fill(w) PROVE FlagTypes'
  BY <1>1, Zenon DEF Fill, NewPage, Ensure, Retire, Load, CasLoses, CasWins, Exhausted, LinkFirst, Put, EndTree, NewChain
<1>2. ASSUME NEW w \in Writers, Leave(w) \/ Fail(w) PROVE FlagTypes'
  BY <1>2, Zenon DEF Leave, Fail, CompleteCheck, CompleteReturn, CompleteLeave, DropFailed, DropLeave, TreeFails, ReturnFails, MarkFailed, Unwind
<1>3. CASE HandOut
  BY <1>3, Zenon DEF HandOut, BeginTree, Fork
<1>4. CASE Finish
  BY <1>4, Zenon DEF Finish, FinishActive, FinishFailed, FinishReturn
<1>5. QED BY <1>1, <1>2, <1>3, <1>4 DEF Next, Act

LEMMA PcStep == ASSUME TypeOK, Next PROVE PcType'
<1> USE DEF TypeOK, PcValues, Holding, Failing, Gone
<1> USE GotoType
<1>1. ASSUME NEW w \in Writers, Fill(w) PROVE PcType'
  <2>1. CASE Ensure(w) \/ CasWins(w)
    <3>1. back[w] \in PcValues
      BY DEF DemandTypes
    <3>2. QED BY <2>1, <3>1 DEF Ensure, CasWins
  <2>2. CASE CasLoses(w)
    BY <2>2 DEF CasLoses, PcType
  <2>3. QED
    BY <1>1, <2>1, <2>2 DEF Fill, NewChain, NewPage, Retire, Load, Exhausted, LinkFirst, Put, EndTree
<1>2. ASSUME NEW w \in Writers, Leave(w) \/ Fail(w) PROVE PcType'
  BY <1>2 DEF Leave, Fail, CompleteCheck, CompleteReturn, CompleteLeave, DropFailed, DropLeave, TreeFails, ReturnFails, MarkFailed, Unwind
<1>3. CASE HandOut
  BY <1>3 DEF Writers, HandOut, BeginTree, Fork
<1>4. CASE Finish
  BY <1>4 DEF Writers, Finish, FinishActive, FinishFailed, FinishReturn
<1>5. QED BY <1>1, <1>2, <1>3, <1>4 DEF Next, Act

LEMMA SharedStep == ASSUME PoolInv, Next PROVE SharedTypes'
<1>0. SharedTypes /\ BlockTypes /\ DemandTypes /\ next \in Nat
  BY PoolAssumption DEF PoolInv, TypeOK, SharedTypes
<1>1. ASSUME NEW w \in Writers, Fill(w) PROVE SharedTypes'
  <2>1. CASE Retire(w)
    BY <1>0, <2>1, ReturnTailType, Zenon DEF Retire, SharedTypes
  <2>2. CASE CasWins(w)
    <3>1. next' \in BootEnd .. Limit
      <4>1. next' = GrantEnd(next, need[w]) /\ next' <= Limit
        BY <2>2, Zenon DEF CasWins
      <4>2. next \in BootEnd .. Limit /\ need[w] \in Nat
        BY <1>0, Zenon DEF SharedTypes, DemandTypes
      <4>3. BootEnd \in Nat /\ Block \in Nat /\ Pending \in Nat /\ Limit \in Nat
        BY PoolAssumption
      <4>4. QED BY <4>1, <4>2, <4>3 DEF GrantEnd, Inside
    <3>2. QED BY <1>0, <2>2, <3>1, Zenon DEF CasWins, SharedTypes
  <2>3. CASE Put(w)
    BY <1>0, <2>3, CountType, Zenon DEF Put, SharedTypes
  <2>4. CASE EndTree(w)
    BY <1>0, <2>4, CountType, Zenon DEF EndTree, SharedTypes
  <2>5. QED
    BY <1>0, <1>1, <2>1, <2>2, <2>3, <2>4, Zenon
       DEF Fill, SharedTypes, NewChain, NewPage, Ensure, Load, CasLoses, Exhausted, LinkFirst
<1>2. ASSUME NEW w \in Writers, CompleteLeave(w) \/ DropLeave(w) PROVE SharedTypes'
  <2>1. w \in Workers /\ pc[w] \in Live
    BY <1>2 DEF Writers, CompleteLeave, DropLeave, PoolInv, ActiveCounts, Live, PcValues, Failing, Gone
  <2>2. active > 0
    BY <2>1, ActivePositive
  <2>3. active - 1 \in Nat
    BY <1>0, <2>2 DEF SharedTypes
  <2>4. QED BY <1>0, <1>2, <2>3, Zenon DEF CompleteLeave, DropLeave, SharedTypes
<1>3. ASSUME NEW w \in Writers, CompleteReturn(w) PROVE SharedTypes'
  BY <1>0, <1>3, ReturnTailType, Zenon DEF CompleteReturn, SharedTypes
<1>4. ASSUME NEW w \in Writers, CompleteCheck(w) \/ DropFailed(w) PROVE SharedTypes'
  BY <1>0, <1>4, Zenon DEF CompleteCheck, DropFailed, SharedTypes
<1>5. ASSUME NEW w \in Writers, Fail(w) PROVE SharedTypes'
  BY <1>0, <1>5, ReturnTailType, Zenon DEF SharedTypes, Fail, TreeFails, ReturnFails, MarkFailed, Unwind
<1>6. CASE HandOut
  <2>1. active + 1 \in Nat
    BY <1>0 DEF SharedTypes
  <2>2. ASSUME NEW r \in Roots PROVE roots \cup {r} \in SUBSET Roots
    BY <1>0, Zenon DEF SharedTypes
  <2>3. QED BY <1>0, <1>6, <2>1, <2>2, Zenon DEF HandOut, BeginTree, Fork, SharedTypes
<1>7. CASE Finish
  BY <1>0, <1>7, ReturnTailType, Zenon
     DEF Finish, FinishActive, FinishFailed, FinishReturn, SharedTypes
<1>8. QED
  BY <1>1, <1>2, <1>3, <1>4, <1>5, <1>6, <1>7, Zenon DEF Next, Act, Leave

LEMMA BlockStep == ASSUME PoolInv, Next PROVE BlockTypes'
<1>0. BlockTypes /\ DemandTypes /\ next \in Nat
  BY PoolAssumption DEF PoolInv, TypeOK, SharedTypes
<1> USE <1>0 DEF BlockTypes
<1>1. ASSUME NEW w \in Writers, Fill(w) PROVE BlockTypes'
  <2>1. CASE Retire(w)
    BY <2>1 DEF Retire
  <2>2. CASE Load(w)
    BY <2>2 DEF Load
  <2>3. CASE CasLoses(w)
    BY <2>3 DEF CasLoses
  <2>4. CASE CasWins(w)
    <3>1. GrantEnd(seen[w], need[w]) \in Nat
      BY PoolAssumption DEF GrantEnd, Inside, DemandTypes
    <3>2. QED BY <2>4, <3>1, SetType, Zenon DEF CasWins
  <2>5. CASE Put(w)
    <3>1. NextAvailable(at[w]) + 1 \in Nat
      BY DEF NextAvailable
    <3>2. QED BY <2>5, <3>1, SetType, Zenon DEF Put
  <2>6. QED
    BY <1>1, <2>1, <2>2, <2>3, <2>4, <2>5, Zenon
       DEF Fill, NewChain, NewPage, Ensure, Exhausted, LinkFirst, EndTree
<1>2. ASSUME NEW w \in Writers, Leave(w) \/ Fail(w) PROVE BlockTypes'
  BY <1>2, Zenon DEF Leave, Fail, CompleteCheck, CompleteReturn, CompleteLeave, DropFailed, DropLeave, TreeFails, ReturnFails, MarkFailed, Unwind
<1>3. CASE HandOut
  <2>1. ASSUME NEW r \in Roots PROVE r \in Nat
    BY PoolAssumption DEF Roots
  <2>2. ASSUME NEW r \in Roots, BeginTree(r) PROVE BlockTypes'
    BY <2>1, <2>2, SetType, Zenon DEF BeginTree
  <2>3. ASSUME NEW r \in Roots, NEW w \in Workers, Fork(w, r) PROVE BlockTypes'
    BY <2>1, <2>3, SetType, Zenon DEF Fork
  <2>4. QED BY <1>3, <2>2, <2>3, Zenon DEF HandOut
<1>4. CASE Finish
  BY <1>4, Zenon DEF Finish, FinishActive, FinishFailed, FinishReturn
<1>5. QED BY <1>1, <1>2, <1>3, <1>4, Zenon DEF Next, Act

LEMMA DemandStep == ASSUME PoolInv, Next PROVE DemandTypes'
<1>0. BlockTypes /\ DemandTypes
  BY DEF PoolInv, TypeOK
<1> USE <1>0 DEF BlockTypes, DemandTypes
<1>1. ASSUME NEW w \in Writers, Fill(w) PROVE DemandTypes'
  <2>1. CASE LinkFirst(w)
    <3>1. NextAvailable(at[w]) \in Nat
      BY DEF NextAvailable
    <3>2. QED BY <2>1, <3>1 DEF LinkFirst
  <2>2. CASE Put(w)
    <3>1. left[w] > 0
      BY <2>2 DEF PoolInv, ChainReserved, Reserved, Put
    <3>2. left[w] - 1 \in Nat /\ NextAvailable(NextAvailable(at[w]) + 1) \in Nat
      BY <3>1 DEF NextAvailable
    <3>3. left' = [left EXCEPT ![w] = left[w] - 1]
          /\ need' = need /\ back' = back
      BY <2>2, Zenon DEF Put
    <3>4. link' = [link EXCEPT ![w] = 0]
          \/ link' = [link EXCEPT ![w] = NextAvailable(NextAvailable(at[w]) + 1)]
      BY <2>2, Zenon DEF Put
    <3>5. QED BY <3>2, <3>3, <3>4
  <2>3. ASSUME NEW k \in 1 .. MaxChain, NewChain(w, k) PROVE DemandTypes'
    BY <2>3 DEF NewChain
  <2>4. CASE NewPage(w)
    BY <2>4 DEF NewPage
  <2>5. QED
    BY <1>1, <2>1, <2>2, <2>3, <2>4, Zenon
       DEF Fill, Ensure, Retire, Load, CasLoses, CasWins, Exhausted, EndTree
<1>2. ASSUME NEW w \in Writers, Leave(w) \/ Fail(w) PROVE DemandTypes'
  BY <1>2, Zenon DEF Leave, Fail, CompleteCheck, CompleteReturn, CompleteLeave, DropFailed, DropLeave, TreeFails, ReturnFails, MarkFailed, Unwind
<1>3. CASE HandOut
  BY <1>3, Zenon DEF HandOut, BeginTree, Fork
<1>4. CASE Finish
  BY <1>4, Zenon DEF Finish, FinishActive, FinishFailed, FinishReturn
<1>5. QED BY <1>1, <1>2, <1>3, <1>4, Zenon DEF Next, Act

LEMMA TypeStep == ASSUME PoolInv, Next PROVE TypeOK'
<1>1. TypeOK
  BY DEF PoolInv
<1>2. QED
  BY <1>1, FlagStep, PcStep, SharedStep, BlockStep, DemandStep, Zenon DEF TypeOK

-----------------------------------------------------------------------------
(* What a step may do to blocks and pages.                                 *)

LEMMA GrantFacts ==
  ASSUME NEW p \in Nat, NEW n \in Nat, n > 0
  PROVE  /\ GrantEnd(p, n) \in Nat
         /\ p < GrantEnd(p, n)
         /\ IF Inside(p, GrantEnd(p, n)) THEN GrantEnd(p, n) - p - 1 >= n
                                         ELSE GrantEnd(p, n) - p >= n
BY PoolAssumption DEF GrantEnd, Inside

\* A writer's step leaves the other writers' variables alone.
LEMMA OthersKeep ==
  ASSUME TypeOK, NEW w \in Writers, Act(w), NEW v \in Writers, v # w
  PROVE  /\ pc'[v] = pc[v] /\ at'[v] = at[v] /\ end'[v] = end[v]
         /\ root'[v] = root[v] /\ seen'[v] = seen[v] /\ need'[v] = need[v]
         /\ back'[v] = back[v] /\ left'[v] = left[v] /\ link'[v] = link[v]
<1> USE DEF TypeOK, BlockTypes, DemandTypes, PcType, Goto
<1>1. CASE Fill(w)
  BY <1>1 DEF Fill, NewChain, NewPage, Ensure, Retire, Load, CasLoses, CasWins, Exhausted, LinkFirst, Put, EndTree
<1>2. CASE Leave(w)
  BY <1>2 DEF Leave, CompleteCheck, CompleteReturn, CompleteLeave, DropFailed, DropLeave
<1>3. CASE Fail(w)
  BY <1>3 DEF Fail, TreeFails, ReturnFails, MarkFailed, Unwind
<1>4. QED BY <1>1, <1>2, <1>3 DEF Act

\* A writer keeps its block within bounds, and the counter only grows.
LEMMA ActorBounds ==
  ASSUME PoolInv, NEW w \in Writers, Act(w)
  PROVE  /\ next' \in Nat /\ next' >= next
         /\ Bounds(w)'
<1>0. /\ next \in Nat /\ next >= BootEnd /\ BootEnd \in Nat
      /\ at[w] \in Nat /\ end[w] \in Nat /\ seen[w] \in Nat /\ need[w] \in Nat
      /\ back[w] \in {"append", "chain"}
      /\ Bounds(w)
  BY PoolAssumption
     DEF PoolInv, TypeOK, SharedTypes, BlockTypes, DemandTypes, BlockBounds
<1>1. /\ at \in [Writers -> Nat] /\ end \in [Writers -> Nat]
      /\ seen \in [Writers -> Nat] /\ DOMAIN pc = Writers
  BY DEF PoolInv, TypeOK, BlockTypes, PcType
<1>2. CASE CasWins(w)
  <2>1. /\ next = seen[w] /\ next' = GrantEnd(next, need[w])
        /\ at'[w] = next /\ end'[w] = next'
        /\ pc'[w] \in {"append", "chain", "err"}
    BY <1>0, <1>1, <1>2 DEF CasWins, Goto
  <2>2. need[w] > 0
    BY <1>2 DEF CasWins, PoolInv, ChainReserved, Reserved, Asking
  <2>3. next' \in Nat /\ next < next'
    BY <1>0, <2>1, <2>2, GrantFacts
  <2>4. QED BY <1>0, <2>1, <2>3 DEF Bounds
<1>3. CASE Put(w)
  <2>1. /\ NextAvailable(at[w]) < end[w] /\ pc[w] = "append"
        /\ at'[w] = NextAvailable(at[w]) + 1 /\ end' = end /\ seen' = seen
        /\ next' = next /\ pc'[w] \in {"ensure", "tree"}
    BY <1>0, <1>1, <1>3 DEF Put, Goto
  <2>2. at[w] <= NextAvailable(at[w]) /\ NextAvailable(at[w]) \in Nat
    BY <1>0 DEF NextAvailable
  <2>3. QED BY <1>0, <2>1, <2>2 DEF Bounds, Holding
<1>4. CASE Retire(w)
  BY <1>0, <1>1, <1>4 DEF Retire, Goto, Bounds, Holding
<1>5. CASE Load(w) \/ CasLoses(w)
  BY <1>0, <1>1, <1>5 DEF Load, CasLoses, Goto, Bounds, Holding
<1>6. CASE \/ Ensure(w) \/ NewPage(w) \/ Exhausted(w) \/ LinkFirst(w) \/ EndTree(w)
           \/ \E k \in 1 .. MaxChain : NewChain(w, k)
  BY <1>0, <1>1, <1>6
     DEF Ensure, NewPage, NewChain, Exhausted, LinkFirst, EndTree, Goto, Bounds,
         Holding
<1>7. CASE Leave(w)
  BY <1>0, <1>1, <1>7
     DEF Leave, CompleteCheck, CompleteReturn, CompleteLeave, DropFailed,
         DropLeave, Goto, Bounds, Holding
<1>8. CASE Fail(w)
  BY <1>0, <1>1, <1>8
     DEF Fail, TreeFails, ReturnFails, MarkFailed, Unwind, Goto, Bounds, Holding
<1>9. QED
  BY <1>2, <1>3, <1>4, <1>5, <1>6, <1>7, <1>8 DEF Act, Fill

LEMMA BoundsStep == ASSUME PoolInv, Next PROVE BlockBounds'
<1>0. TypeOK /\ TypeOK'
  BY TypeStep DEF PoolInv
<1>1. ASSUME NEW w \in Writers, Act(w) PROVE BlockBounds'
  <2>1. next' \in Nat /\ next' >= next /\ next \in Nat /\ Bounds(w)'
    BY <1>0, <1>1, ActorBounds, PoolAssumption DEF TypeOK, SharedTypes
  <2>2. ASSUME NEW v \in Writers, v # w PROVE Bounds(v)'
    <3>1. Bounds(v) /\ at[v] \in Nat /\ end[v] \in Nat
      BY <1>0 DEF PoolInv, BlockBounds, TypeOK, BlockTypes
    <3>2. QED BY <1>0, <1>1, <2>1, <2>2, <3>1, OthersKeep DEF Bounds
  <2>3. QED BY <2>1, <2>2 DEF BlockBounds
<1>2. CASE HandOut \/ Finish
  <2>1. next' = next /\ at' = at /\ end' = end /\ seen' = seen
    BY <1>2, Zenon
       DEF HandOut, BeginTree, Fork, Finish, FinishActive, FinishFailed, FinishReturn
  <2>2. ASSUME NEW v \in Writers PROVE Bounds(v)'
    <3>1. Bounds(v) /\ at[v] \in Nat /\ end[v] \in Nat /\ next \in Nat
      BY <1>0, PoolAssumption DEF PoolInv, BlockBounds, TypeOK, BlockTypes, SharedTypes
    <3>2. \/ pc'[v] = pc[v]
          \/ pc[v] \in {"idle", "quiet", "closing"}
             /\ pc'[v] \in {"tree", "err", "quiet", "closing", "sealed", "refused"}
          \/ pc[v] = "none" /\ pc'[v] = "tree"
      BY <1>0, <1>2
         DEF HandOut, BeginTree, Fork, Finish, FinishActive, FinishFailed,
             FinishReturn, Goto, TypeOK, PcType, Writers
    <3>3. QED BY <2>1, <3>1, <3>2 DEF Bounds, Holding
  <2>3. QED BY <2>2 DEF BlockBounds
<1>3. QED BY <1>1, <1>2 DEF Next

\* What a step of writer w does to pages: it may use or free pages it holds,
\* which it then no longer holds, and it may take the pages between the old and
\* the new value of `next`.
Touches(w) ==
  /\ Tail(w)' \subseteq Tail(w) \cup Run(next, next')
  /\ \A p \in Pages :
       \/ used'[p] = used[p] /\ freed'[p] = freed[p]
       \/ /\ p \in Tail(w) /\ p \notin Tail(w)'
          /\ used'[p] + freed'[p] = used[p] + freed[p] + 1

\* Unless the writer fails, what it no longer holds is used or freed.
Accounts(w) ==
  \A p \in Pages :
    p \in Tail(w) \cup Run(next, next') /\ p \notin Tail(w)' =>
      used'[p] + freed'[p] = used[p] + freed[p] + 1

Effect(w) ==
  /\ Touches(w)
  /\ pc'[w] \notin Lossy => Accounts(w)
  /\ \A v \in Writers \ {w} : Tail(v)' = Tail(v) /\ pc'[v] = pc[v]

\* A page in the tail of a writer is a page of the pool that was granted.
LEMMA TailInPages ==
  ASSUME PoolInv, NEW w \in Writers, NEW p \in Tail(w)
  PROVE  /\ p \in Pages /\ p < next /\ p # Pending
         /\ pc[w] \in Holding /\ p \in Nat /\ at[w] <= p /\ p < end[w]
<1>1. /\ next \in BootEnd .. Limit /\ at[w] \in Nat /\ end[w] \in Nat
      /\ Bounds(w)
  BY DEF PoolInv, TypeOK, SharedTypes, BlockTypes, BlockBounds
<1>2. pc[w] \in Holding /\ p \in at[w] .. (end[w] - 1) /\ p # Pending
  BY DEF Tail, Run
<1>3. QED BY <1>1, <1>2, PoolAssumption DEF Bounds, Pages

\* A writer leaves the blocks of others alone.
LEMMA OthersTail ==
  ASSUME TypeOK, NEW w \in Writers, Act(w), NEW v \in Writers, v # w
  PROVE  Tail(v)' = Tail(v) /\ pc'[v] = pc[v]
BY OthersKeep DEF Tail, Run

\* Steps that leave the page space and the actor's block alone.
LEMMA QuietEffect ==
  ASSUME PoolInv, NEW w \in Writers, Act(w),
         UNCHANGED <<next, used, freed, at, end>>,
         \/ pc[w] \in Holding /\ pc'[w] \in Holding
         \/ pc'[w] \in Lossy \ Holding
         \/ pc[w] \notin Holding /\ pc'[w] \notin Holding
  PROVE  Effect(w)
<1>1. TypeOK BY DEF PoolInv
<1>2. next \in Nat BY PoolAssumption DEF PoolInv, TypeOK, SharedTypes
<1>3. Run(next, next') = {} BY <1>2 DEF Run
<1>4. Tail(w)' \subseteq Tail(w) BY DEF Tail, Run
<1>5. pc'[w] \notin Lossy => Tail(w)' = Tail(w) BY DEF Tail, Run
<1>6. Touches(w) BY <1>4, Zenon DEF Touches
<1>7. pc'[w] \notin Lossy => Accounts(w) BY <1>3, <1>5, Zenon DEF Accounts
<1>8. QED BY <1>1, <1>6, <1>7, OthersTail, Zenon DEF Effect

\* Steps that spool the pages from at[w] to b and give the block up.
LEMMA ReturnEffect ==
  ASSUME PoolInv, NEW w \in Writers, Act(w), NEW b \in {end[w], Pending},
         pc[w] \in Holding, b # end[w] => Inside(at[w], end[w]),
         ReturnTail(at[w], b), next' = next, used' = used,
         Tail(w)' = {}, b = end[w] \/ pc'[w] \in Lossy
  PROVE  Effect(w)
<1>1. /\ TypeOK /\ next \in Nat /\ at[w] \in Nat /\ end[w] \in Nat
      /\ Pending \in Nat
  BY PoolAssumption DEF PoolInv, TypeOK, SharedTypes, BlockTypes
<1>2. Tail(w) = Run(at[w], end[w]) /\ Run(at[w], b) \subseteq Tail(w)
  BY <1>1 DEF Tail, Run, Inside
<1>3. ASSUME NEW p \in Pages
      PROVE  /\ freed[p] \in Nat /\ used[p] \in Nat
             /\ p \in Run(at[w], b) =>
                  used'[p] + freed'[p] = used[p] + freed[p] + 1
             /\ p \notin Run(at[w], b) => freed'[p] = freed[p]
  <2>1. freed[p] \in Nat /\ used[p] \in Nat
    BY PoolAssumption DEF PoolInv, TypeOK, SharedTypes, Pages
  <2>2. freed'[p] = IF p \in Run(at[w], b) THEN freed[p] + 1 ELSE freed[p]
    BY Zenon DEF ReturnTail
  <2>3. QED BY <2>1, <2>2
<1>4. Touches(w)
  BY <1>2, <1>3, Zenon DEF Touches
<1>5. ASSUME pc'[w] \notin Lossy PROVE Accounts(w)
  <2>1. b = end[w] /\ Run(next, next') = {}
    BY <1>1, <1>5 DEF Run
  <2>2. QED BY <1>2, <1>3, <2>1, Zenon DEF Accounts
<1>6. QED BY <1>1, <1>4, <1>5, OthersTail, Zenon DEF Effect


LEMMA PutEffect ==
  ASSUME PoolInv, NEW w \in Writers, Put(w)
  PROVE  Effect(w)
<1> DEFINE id == NextAvailable(at[w])
<1>1. /\ TypeOK /\ next \in Nat /\ at[w] \in Nat /\ end[w] \in Nat
      /\ Pending \in Nat /\ used \in [2 .. (Limit - 1) -> Nat]
      /\ freed \in [Pages -> Nat] /\ at \in [Writers -> Nat]
      /\ DOMAIN pc = Writers
  BY PoolAssumption DEF PoolInv, TypeOK, SharedTypes, BlockTypes, PcType
<1>2. /\ pc[w] = "append" /\ id < end[w] /\ used' = [used EXCEPT ![id] = @ + 1]
      /\ at' = [at EXCEPT ![w] = id + 1] /\ end' = end /\ freed' = freed
      /\ next' = next /\ pc'[w] \in {"ensure", "tree"}
  BY <1>1 DEF Put, Goto
<1>3. id \in Nat /\ at[w] <= id /\ id # Pending /\ id + 1 \in Nat
      /\ id \in Tail(w)
  BY <1>1, <1>2 DEF NextAvailable, Tail, Run, Holding
<1>4. id \in Pages /\ id \in 2 .. (Limit - 1)
  BY <1>3, TailInPages, PoolAssumption DEF Pages
<1>5. Tail(w) = Run(at[w], end[w]) /\ Tail(w)' = Run(id + 1, end[w])
  BY <1>1, <1>2 DEF Tail, Run, Holding
<1>6. Tail(w)' = Tail(w) \ {id}
  BY <1>1, <1>3, <1>5 DEF Run, NextAvailable
<1>7. ASSUME NEW p \in Pages
      PROVE  /\ p = id => used'[p] + freed'[p] = used[p] + freed[p] + 1
             /\ p # id => used'[p] = used[p] /\ freed'[p] = freed[p]
  <2>1. freed[p] \in Nat /\ used[p] \in Nat /\ p \in 2 .. (Limit - 1)
    BY <1>1, PoolAssumption DEF Pages
  <2>2. QED BY <1>1, <1>2, <1>4, <2>1
<1>8. Run(next, next') = {}
  BY <1>1, <1>2 DEF Run
<1>9. Touches(w)
  BY <1>3, <1>6, <1>7, Zenon DEF Touches
<1>10. Accounts(w)
  BY <1>6, <1>7, <1>8, Zenon DEF Accounts
<1>11. QED
  BY <1>1, <1>9, <1>10, OthersTail, Zenon DEF Effect, Act, Fill

LEMMA CasEffect ==
  ASSUME PoolInv, NEW w \in Writers, CasWins(w)
  PROVE  Effect(w)
<1>1. /\ TypeOK /\ next \in Nat /\ at[w] \in Nat /\ end[w] \in Nat
      /\ seen[w] \in Nat /\ need[w] \in Nat /\ Bounds(w)
      /\ at \in [Writers -> Nat] /\ end \in [Writers -> Nat]
      /\ DOMAIN pc = Writers /\ back[w] \in {"append", "chain"}
  <2>1. TypeOK /\ Bounds(w)
    BY DEF PoolInv, BlockBounds
  <2>2. next \in Nat
    BY <2>1, PoolAssumption DEF TypeOK, SharedTypes
  <2>3. /\ at[w] \in Nat /\ end[w] \in Nat /\ seen[w] \in Nat
        /\ at \in [Writers -> Nat] /\ end \in [Writers -> Nat]
    BY <2>1 DEF TypeOK, BlockTypes
  <2>4. need[w] \in Nat /\ back[w] \in {"append", "chain"}
    BY <2>1 DEF TypeOK, DemandTypes
  <2>5. DOMAIN pc = Writers
    BY <2>1 DEF TypeOK, PcType
  <2>6. QED BY <2>1, <2>2, <2>3, <2>4, <2>5
<1>2. /\ pc[w] = "cas" /\ used' = used /\ freed' = freed
      /\ at'[w] = next /\ end'[w] = next'
      /\ pc'[w] \in {"append", "chain", "err"}
  BY <1>1 DEF CasWins, Goto
<1>3. Tail(w) = {}
  BY <1>1, <1>2 DEF Tail, Run, Bounds
<1>4. Tail(w)' = IF pc'[w] = "err" THEN {} ELSE Run(next, next')
  BY <1>2 DEF Tail, Run, Holding
<1>5. pc'[w] = "err" => pc'[w] \in Lossy
  BY DEF Lossy
<1>6. Touches(w)
  BY <1>2, <1>4, Zenon DEF Touches
<1>7. pc'[w] \notin Lossy => Accounts(w)
  BY <1>3, <1>4, <1>5, Zenon DEF Accounts
<1>8. QED
  BY <1>1, <1>6, <1>7, OthersTail, Zenon DEF Effect, Act, Fill

LEMMA ActEffect ==
  ASSUME PoolInv, NEW w \in Writers, Act(w)
  PROVE  Effect(w)
<1>1. /\ DOMAIN pc = Writers /\ at \in [Writers -> Nat] /\ at[w] \in Nat
      /\ end \in [Writers -> Nat] /\ Pending \in Nat
      /\ back[w] \in {"append", "chain"}
  BY PoolAssumption DEF PoolInv, TypeOK, PcType, BlockTypes, DemandTypes
<1>2. CASE Put(w)
  BY <1>2, PutEffect
<1>3. CASE CasWins(w)
  BY <1>3, CasEffect
<1>4. CASE Retire(w)
  <2>1. /\ pc[w] \in Holding /\ ReturnTail(at[w], end[w]) /\ next' = next
        /\ used' = used /\ at'[w] = at[w] /\ end'[w] = at[w]
    BY <1>1, <1>4 DEF Retire, Holding
  <2>2. Tail(w)' = {}
    BY <1>1, <2>1 DEF Tail, Run
  <2>3. QED BY <2>1, <2>2, ReturnEffect
<1>5. CASE CompleteReturn(w)
  <2>1. /\ pc[w] \in Holding /\ ReturnTail(at[w], end[w]) /\ next' = next
        /\ used' = used /\ pc'[w] = "leaving"
    BY <1>1, <1>5 DEF CompleteReturn, Goto, Holding
  <2>2. Tail(w)' = {}
    BY <2>1 DEF Tail, Holding
  <2>3. QED BY <2>1, <2>2, ReturnEffect
<1>6. CASE ReturnFails(w)
  <2>1. /\ pc[w] \in Holding /\ next' = next /\ used' = used /\ at' = at
        /\ end' = end /\ pc'[w] \in {"err", "drop", "refused"}
    BY <1>1, <1>6 DEF ReturnFails, Goto, Holding
  <2>2. Tail(w)' = {} /\ pc'[w] \in Lossy \ Holding
    BY <2>1 DEF Tail, Holding, Lossy
  <2>3. CASE freed' = freed
    BY <2>1, <2>2, <2>3, QuietEffect
  <2>4. CASE Inside(at[w], end[w]) /\ ReturnTail(at[w], Pending)
    BY <2>1, <2>2, <2>4, ReturnEffect
  <2>5. CASE ReturnTail(at[w], end[w])
    BY <2>1, <2>2, <2>5, ReturnEffect
  <2>6. QED BY <1>6, <2>3, <2>4, <2>5 DEF ReturnFails
<1>7. CASE EndTree(w)
  <2>1. /\ pc[w] \in Holding /\ pc'[w] \in Holding /\ next' = next
        /\ freed' = freed /\ at' = at /\ end' = end
        /\ used' = [used EXCEPT ![root[w]] = @ + 1] /\ root[w] \in Roots
    BY <1>1, <1>7
       DEF EndTree, Goto, Holding, InTree, PoolInv, RootsExclusive, TypeOK, SharedTypes
  <2>2. ASSUME NEW p \in Pages PROVE used'[p] = used[p]
    <3>1. p # root[w] /\ p \in 2 .. (Limit - 1)
      BY <2>1, PoolAssumption DEF Pages, Roots
    <3>2. QED BY <2>1, <3>1 DEF PoolInv, TypeOK, SharedTypes
  <2>3. Tail(w)' = Tail(w) /\ Run(next, next') = {}
    <3>1. next \in Nat
      BY PoolAssumption DEF PoolInv, TypeOK, SharedTypes
    <3>2. QED BY <2>1, <3>1 DEF Tail, Run
  <2>4. Touches(w) /\ Accounts(w)
    BY <2>1, <2>2, <2>3, Zenon DEF Touches, Accounts
  <2>5. QED BY <2>4, OthersTail, Zenon DEF Effect, PoolInv
<1>8. CASE \/ NewPage(w) \/ Ensure(w) \/ Load(w) \/ CasLoses(w) \/ Exhausted(w)
           \/ LinkFirst(w) \/ \E k \in 1 .. MaxChain : NewChain(w, k)
  <2>1. /\ UNCHANGED <<next, used, freed, at, end>>
        /\ pc[w] \in Holding /\ pc'[w] \in Holding \cup (Lossy \ Holding)
    BY <1>1, <1>8
       DEF NewPage, Ensure, Load, CasLoses, Exhausted, LinkFirst, NewChain, Goto,
           Holding, Lossy
  <2>2. QED BY <2>1, QuietEffect
<1>9. CASE \/ TreeFails(w) \/ MarkFailed(w) \/ Unwind(w)
           \/ CompleteCheck(w) \/ CompleteLeave(w) \/ DropFailed(w) \/ DropLeave(w)
  <2>1. /\ UNCHANGED <<next, used, freed, at, end>>
        /\ \/ pc[w] \in Holding /\ pc'[w] \in Holding
           \/ pc'[w] \in Lossy \ Holding
           \/ pc[w] \notin Holding /\ pc'[w] \notin Holding
    BY <1>1, <1>9
       DEF TreeFails, MarkFailed, Unwind, CompleteCheck, CompleteLeave, DropFailed,
           DropLeave, Goto, Holding, Lossy
  <2>2. QED BY <2>1, QuietEffect
<1>10. QED
  BY <1>2, <1>3, <1>4, <1>5, <1>6, <1>7, <1>8, <1>9, Zenon
     DEF Act, Fill, Leave, Fail


\* The coordinator's own steps: only FinishReturn touches pages.
LEMMA HandOutEffect ==
  ASSUME PoolInv, HandOut
  PROVE  \E w \in Writers : Effect(w)
<1>1. /\ UNCHANGED <<next, used, freed, at, end>>
      /\ next \in Nat /\ DOMAIN pc = Writers
  BY PoolAssumption
     DEF HandOut, BeginTree, Fork, PoolInv, TypeOK, SharedTypes, PcType
<1>2. Run(next, next') = {}
  BY <1>1 DEF Run
<1>3. ASSUME NEW r \in Roots, BeginTree(r)
      PROVE  Effect(Coordinator)
  <2>1. /\ pc[Coordinator] = "idle" /\ pc'[Coordinator] \in {"tree", "err"}
        /\ \A v \in Writers \ {Coordinator} : pc'[v] = pc[v]
    BY <1>1, <1>3 DEF BeginTree, Goto, Writers
  <2>2. /\ Tail(Coordinator)' \subseteq Tail(Coordinator)
        /\ pc'[Coordinator] \notin Lossy => Tail(Coordinator)' = Tail(Coordinator)
        /\ \A v \in Writers \ {Coordinator} : Tail(v)' = Tail(v)
    BY <1>1, <2>1 DEF Tail, Run, Holding, Lossy
  <2>3. QED BY <1>1, <1>2, <2>1, <2>2, Zenon DEF Effect, Touches, Accounts
<1>4. ASSUME NEW r \in Roots, NEW w \in Workers, Fork(w, r)
      PROVE  Effect(w)
  <2>1. /\ pc[w] = "none" /\ pc'[w] = "tree"
        /\ \A v \in Writers \ {w} : pc'[v] = pc[v]
    BY <1>1, <1>4 DEF Fork, Goto, Writers
  <2>2. at[w] = 0 /\ end[w] = 0
    BY <2>1 DEF PoolInv, BlockBounds, Bounds, Writers
  <2>3. /\ Tail(w)' = {} /\ Tail(w) = {}
        /\ \A v \in Writers \ {w} : Tail(v)' = Tail(v)
    BY <1>1, <2>1, <2>2 DEF Tail, Run, Holding
  <2>4. QED BY <1>1, <1>2, <2>1, <2>3, Zenon DEF Effect, Touches, Accounts
<1>5. QED
  BY <1>3, <1>4 DEF HandOut, Writers

LEMMA FinishEffect ==
  ASSUME PoolInv, Finish
  PROVE  Effect(Coordinator)
<1> DEFINE c == Coordinator
<1>1. /\ UNCHANGED <<next, used, at, end>>
      /\ next \in Nat /\ DOMAIN pc = Writers /\ at[c] \in Nat /\ end[c] \in Nat
      /\ c \in Writers /\ used \in [2 .. (Limit - 1) -> Nat]
      /\ freed \in [Pages -> Nat]
  BY PoolAssumption
     DEF Finish, FinishActive, FinishFailed, FinishReturn, PoolInv, TypeOK,
         SharedTypes, PcType, BlockTypes, Writers
<1>2. Run(next, next') = {}
  BY <1>1 DEF Run
<1>3. \A v \in Writers \ {c} : pc'[v] = pc[v] /\ Tail(v)' = Tail(v)
  BY <1>1 DEF Finish, FinishActive, FinishFailed, FinishReturn, Goto, Tail, Run
<1>4. CASE FinishActive \/ FinishFailed
  <2>1. /\ freed' = freed /\ pc[c] \in Holding
        /\ pc'[c] \in {"quiet", "closing", "refused"}
    BY <1>1, <1>4 DEF FinishActive, FinishFailed, Goto, Holding
  <2>2. /\ Tail(c)' \subseteq Tail(c)
        /\ pc'[c] \notin Lossy => Tail(c)' = Tail(c)
    BY <1>1, <2>1 DEF Tail, Run, Holding, Lossy
  <2>3. QED BY <1>1, <1>2, <1>3, <2>1, <2>2, Zenon DEF Effect, Touches, Accounts
<1>5. CASE FinishReturn
  <2>1. /\ ReturnTail(at[c], end[c]) /\ pc[c] = "closing" /\ pc'[c] = "sealed"
    BY <1>1, <1>5 DEF FinishReturn, Goto
  <2>2. Tail(c) = Run(at[c], end[c]) /\ Tail(c)' = {}
    BY <2>1 DEF Tail, Holding
  <2>3. ASSUME NEW p \in Pages
        PROVE  /\ p \in Tail(c) => used'[p] + freed'[p] = used[p] + freed[p] + 1
               /\ p \notin Tail(c) => freed'[p] = freed[p] /\ used'[p] = used[p]
    <3>1. freed'[p] = IF p \in Run(at[c], end[c]) THEN freed[p] + 1 ELSE freed[p]
      BY <2>1, Zenon DEF ReturnTail
    <3>2. freed[p] \in Nat
      BY <1>1, Zenon
    <3>3. p \in 2 .. (Limit - 1)
      BY PoolAssumption DEF Pages
    <3>4. used[p] \in Nat
      BY <1>1, <3>3, Zenon
    <3>5. used'[p] = used[p]
      BY <1>1, <1>5, Zenon DEF FinishReturn
    <3>6. QED BY <2>2, <3>1, <3>2, <3>4, <3>5
  <2>4. Touches(c) /\ Accounts(c)
    BY <1>2, <2>2, <2>3, Zenon DEF Touches, Accounts
  <2>5. QED BY <1>3, <2>4, Zenon DEF Effect
<1>6. QED BY <1>4, <1>5 DEF Finish

LEMMA NextEffect ==
  ASSUME PoolInv, Next
  PROVE  /\ next' \in Nat /\ next' >= next /\ next \in Nat
         /\ \E w \in Writers : Effect(w)
<1>1. next \in Nat
  BY PoolAssumption DEF PoolInv, TypeOK, SharedTypes
<1>2. CASE HandOut
  BY <1>1, <1>2, HandOutEffect DEF HandOut, BeginTree, Fork
<1>3. CASE Finish
  BY <1>1, <1>3, FinishEffect
     DEF Finish, FinishActive, FinishFailed, FinishReturn, Writers
<1>4. ASSUME NEW w \in Writers, Act(w)
      PROVE  next' \in Nat /\ next' >= next /\ Effect(w)
  BY <1>4, ActorBounds, ActEffect
<1>5. QED BY <1>1, <1>2, <1>3, <1>4 DEF Next

-----------------------------------------------------------------------------
(* The page invariants are preserved.                                      *)

LEMMA RunFacts ==
  ASSUME NEW a \in Nat, NEW b \in Nat, NEW p \in Run(a, b)
  PROVE  p \in Nat /\ a <= p /\ p < b /\ p # Pending
BY DEF Run

LEMMA FreshStep == ASSUME PoolInv, Next PROVE FreshBeyondNext'
<1>1. SUFFICES ASSUME NEW p \in Pages, p >= next' PROVE used'[p] = 0 /\ freed'[p] = 0
  BY DEF FreshBeyondNext
<1>2. next' >= next /\ next \in Nat /\ next' \in Nat /\ p \in Nat
  BY NextEffect, PoolAssumption DEF Pages
<1>3. PICK w \in Writers : Effect(w)
  BY NextEffect
<1>4. used[p] = 0 /\ freed[p] = 0
  BY <1>1, <1>2 DEF PoolInv, FreshBeyondNext
<1>5. p \notin Tail(w)
  BY <1>1, <1>2, TailInPages
<1>6. QED BY <1>3, <1>4, <1>5, Zenon DEF Effect, Touches

LEMMA DisjointStep == ASSUME PoolInv, Next PROVE BlocksDisjoint'
<1>1. /\ next' >= next /\ next \in Nat /\ next' \in Nat
  BY NextEffect
<1>2. PICK w \in Writers : Effect(w)
  BY NextEffect
<1>3. ASSUME NEW v \in Writers PROVE Tail(v) \cap Run(next, next') = {}
  <2>1. SUFFICES ASSUME NEW p \in Tail(v), p \in Run(next, next') PROVE FALSE
    OBVIOUS
  <2>2. p < next /\ p \in Nat
    BY TailInPages
  <2>3. QED BY <1>1, <2>1, <2>2 DEF Run
<1>4. ASSUME NEW u \in Writers, NEW v \in Writers, u # v
      PROVE  Tail(u)' \cap Tail(v)' = {}
  <2>1. Tail(u) \cap Tail(v) = {}
    BY <1>4, Zenon DEF PoolInv, BlocksDisjoint
  <2>2. /\ u # w => Tail(u)' = Tail(u)
        /\ v # w => Tail(v)' = Tail(v)
        /\ Tail(w)' \subseteq Tail(w) \cup Run(next, next')
    BY <1>2, Zenon DEF Effect, Touches
  <2>3. Tail(u) \cap Run(next, next') = {} /\ Tail(v) \cap Run(next, next') = {}
    BY <1>3, Zenon
  <2>4. CASE u = w BY <1>4, <2>1, <2>2, <2>3, <2>4
  <2>5. CASE v = w BY <1>4, <2>1, <2>2, <2>3, <2>5
  <2>6. CASE u # w /\ v # w BY <2>1, <2>2, <2>6
  <2>7. QED BY <2>4, <2>5, <2>6
<1>5. ASSUME NEW v \in Writers, NEW p, p \in Tail(v)'
      PROVE  p < next' /\ used'[p] = 0 /\ freed'[p] = 0
  <2>1. p \in Tail(v) \/ (v = w /\ p \in Run(next, next'))
    BY <1>2, <1>5, Zenon DEF Effect, Touches
  <2>2. /\ p \in Pages /\ p \in Nat /\ p < next' /\ used[p] = 0 /\ freed[p] = 0
    <3>1. CASE p \in Tail(v)
      <4>1. p \in Pages /\ p \in Nat /\ p < next
        BY <3>1, TailInPages
      <4>2. used[p] = 0 /\ freed[p] = 0
        BY <3>1, Zenon DEF PoolInv, BlocksDisjoint
      <4>3. QED BY <1>1, <4>1, <4>2
    <3>2. CASE p \in Run(next, next')
      <4>1. p \in Nat /\ next <= p /\ p < next'
        BY <1>1, <3>2, RunFacts
      <4>2. next' \in BootEnd .. Limit /\ next \in BootEnd .. Limit
        BY TypeStep DEF TypeOK, SharedTypes, PoolInv
      <4>3. p \in Pages
        BY <4>1, <4>2, PoolAssumption DEF Pages
      <4>4. QED BY <4>1, <4>3 DEF PoolInv, FreshBeyondNext
    <3>3. QED BY <2>1, <3>1, <3>2
  <2>3. used'[p] = used[p] /\ freed'[p] = freed[p]
    <3>1. p \in Tail(w) => p \in Tail(w)'
      <4>1. CASE v = w BY <1>5, <4>1
      <4>2. CASE v # w
        <5>1. p \in Tail(v) BY <2>1, <4>2
        <5>2. QED BY <4>2, <5>1, Zenon DEF PoolInv, BlocksDisjoint
      <4>3. QED BY <4>1, <4>2
    <3>2. QED BY <1>2, <2>2, <3>1, Zenon DEF Effect, Touches
  <2>4. QED BY <2>2, <2>3
<1>6. QED BY <1>4, <1>5, Zenon DEF BlocksDisjoint

\* Tree roots are written only at the end of their tree.
LEMMA RootUse ==
  ASSUME PoolInv, Next, NEW r \in Roots
  PROVE  \/ used'[r] = used[r]
         \/ \E w \in Writers : /\ EndTree(w) /\ r = root[w]
                               /\ used[r] = 0 /\ used'[r] = 1
<1>1. used \in [2 .. (Limit - 1) -> Nat] /\ r \in 2 .. (Limit - 1)
  BY PoolAssumption DEF PoolInv, TypeOK, SharedTypes, Roots
<1>2. CASE HandOut \/ Finish
  BY <1>2, Zenon
     DEF HandOut, BeginTree, Fork, Finish, FinishActive, FinishFailed, FinishReturn
<1>3. ASSUME NEW w \in Writers, Act(w) PROVE used' = used \/ EndTree(w) \/ Put(w)
  BY <1>3, Zenon
     DEF Act, Fill, Leave, Fail, NewPage, Ensure, Retire, Load, CasLoses, CasWins,
         Exhausted, LinkFirst, NewChain, CompleteCheck, CompleteReturn,
         CompleteLeave, DropFailed, DropLeave, TreeFails, ReturnFails, MarkFailed,
         Unwind
<1>4. ASSUME NEW w \in Writers, EndTree(w)
      PROVE  \/ used'[r] = used[r]
             \/ r = root[w] /\ used[r] = 0 /\ used'[r] = 1
  <2>1. used' = [used EXCEPT ![root[w]] = @ + 1] /\ pc[w] \in InTree
    BY <1>4 DEF EndTree, InTree
  <2>2. used[root[w]] = 0
    BY <2>1, Zenon DEF PoolInv, RootsExclusive
  <2>3. CASE r = root[w]
    <3>1. used'[r] = used[r] + 1
      BY <1>1, <2>1, <2>3
    <3>2. used[r] = 0
      BY <2>2, <2>3
    <3>3. QED BY <2>3, <3>1, <3>2
  <2>4. CASE r # root[w]
    BY <1>1, <2>1, <2>4
  <2>5. QED BY <2>3, <2>4
<1>5. ASSUME NEW w \in Writers, Put(w) PROVE used'[r] = used[r]
  <2>1. /\ used' = [used EXCEPT ![NextAvailable(at[w])] = @ + 1]
        /\ pc[w] = "append" /\ NextAvailable(at[w]) < end[w]
    BY <1>5 DEF Put
  <2>2. at[w] >= BootEnd /\ at[w] \in Nat /\ end[w] \in Nat
    BY <2>1, PoolAssumption
       DEF PoolInv, TypeOK, BlockTypes, BlockBounds, Bounds, NextAvailable
  <2>3. r # NextAvailable(at[w])
    BY <2>2, PoolAssumption DEF NextAvailable, Roots
  <2>4. QED BY <1>1, <2>1, <2>3
<1>6. QED BY <1>2, <1>3, <1>4, <1>5 DEF Next

LEMMA OneUseStep == ASSUME PoolInv, Next PROVE OneUsePerPage'
<1>1. PICK w \in Writers : Effect(w)
  BY NextEffect
<1>2. TypeOK /\ TypeOK'
  BY TypeStep DEF PoolInv
<1>3. ASSUME NEW p \in Pages
      PROVE  /\ used'[p] + freed'[p] <= 1
             /\ used'[p] <= 1
             /\ p = Pending => used'[p] + freed'[p] = 0
  <2>1. /\ used[p] \in Nat /\ freed[p] \in Nat /\ used'[p] \in Nat
        /\ freed'[p] \in Nat /\ used[p] + freed[p] <= 1
        /\ p = Pending => used[p] + freed[p] = 0
    <3>1. p \in 2 .. (Limit - 1)
      BY PoolAssumption DEF Pages
    <3>2. QED BY <1>2, <3>1 DEF TypeOK, SharedTypes, PoolInv, OneUsePerPage
  <2>2. \/ used'[p] = used[p] /\ freed'[p] = freed[p]
        \/ p \in Tail(w) /\ used'[p] + freed'[p] = used[p] + freed[p] + 1
    BY <1>1, Zenon DEF Effect, Touches
  <2>3. p \in Tail(w) => used[p] = 0 /\ freed[p] = 0 /\ p # Pending
    BY TailInPages, Zenon DEF PoolInv, BlocksDisjoint
  <2>4. QED BY <2>1, <2>2, <2>3
<1>4. ASSUME NEW r \in Roots PROVE used'[r] <= 1
  <2>1. r \in 2 .. (Limit - 1)
    BY PoolAssumption DEF Roots
  <2>2. used[r] <= 1
    BY <1>2, <2>1 DEF TypeOK, SharedTypes, PoolInv, OneUsePerPage
  <2>3. QED BY <2>2, RootUse
<1>5. ASSUME NEW p \in DOMAIN used' PROVE p \in Pages \/ p \in Roots
  BY <1>2, PoolAssumption DEF TypeOK, SharedTypes, Pages, Roots
<1>6. QED BY <1>3, <1>4, <1>5 DEF OneUsePerPage

LEMMA RootsStep == ASSUME PoolInv, Next PROVE RootsExclusive'
<1>1. /\ roots \subseteq Roots /\ DOMAIN pc = Writers
      /\ root \in [Writers -> Nat] /\ Coordinator \in Writers
      /\ \A w \in Workers : w \in Writers
  BY DEF PoolInv, TypeOK, SharedTypes, BlockTypes, PcType, Writers
<1>2. /\ \A r \in Roots \ roots : used[r] = 0
      /\ \A w \in Writers :
           pc[w] \in InTree => root[w] \in roots /\ used[root[w]] = 0
      /\ \A v, w \in Writers :
           v # w /\ pc[v] \in InTree /\ pc[w] \in InTree => root[v] # root[w]
  BY Zenon DEF PoolInv, RootsExclusive
<1>3. ASSUME NEW r \in Roots, BeginTree(r) \/ \E w \in Workers : Fork(w, r)
      PROVE  RootsExclusive'
  <2>1. CASE r \in roots
    <3>1. /\ roots' = roots /\ root' = root /\ used' = used
          /\ pc' = [pc EXCEPT ![Coordinator] = "err"]
      BY <1>3, <2>1 DEF BeginTree, Fork, Goto
    <3>2. \A v \in Writers : pc'[v] \in InTree => pc[v] \in InTree
      BY <1>1, <3>1 DEF InTree
    <3>3. QED BY <1>2, <3>1, <3>2, Zenon DEF RootsExclusive
  <2>2. CASE r \notin roots
    <3>1. PICK w \in Writers :
            /\ pc' = [pc EXCEPT ![w] = "tree"] /\ root' = [root EXCEPT ![w] = r]
            /\ roots' = roots \cup {r} /\ used' = used
      BY <1>1, <1>3, <2>2, Zenon DEF BeginTree, Fork, Goto
    <3>2. \A v \in Writers : v # w => pc'[v] = pc[v] /\ root'[v] = root[v]
      BY <1>1, <3>1
    <3>3. root'[w] = r
      BY <1>1, <3>1
    <3>4. ASSUME NEW v \in Writers, pc'[v] \in InTree
          PROVE  root'[v] \in roots' /\ used'[root'[v]] = 0
      <4>1. CASE v = w
        BY <1>2, <2>2, <3>1, <3>3, <4>1
      <4>2. CASE v # w
        BY <1>2, <3>1, <3>2, <3>4, <4>2
      <4>3. QED BY <4>1, <4>2
    <3>5. /\ \A v \in Writers : pc'[v] \in InTree => root'[v] \in roots'
          /\ \A v \in Writers : pc'[v] \in InTree => used'[root'[v]] = 0
      BY <3>4
    <3>6. \A u, v \in Writers :
            u # v /\ pc'[u] \in InTree /\ pc'[v] \in InTree => root'[u] # root'[v]
      <4>1. \A v \in Writers : v # w /\ pc'[v] \in InTree => root'[v] \in roots
        BY <1>2, <3>2, Zenon
      <4>2. r \notin roots
        BY <2>2, Zenon
      <4>3. ASSUME NEW u \in Writers, NEW v \in Writers, u # v,
                   pc'[u] \in InTree, pc'[v] \in InTree
            PROVE  root'[u] # root'[v]
        <5>1. CASE u = w \/ v = w
          BY <3>3, <4>1, <4>2, <4>3, <5>1, Zenon
        <5>2. CASE u # w /\ v # w
          BY <1>2, <3>2, <4>3, <5>2, Zenon
        <5>3. QED BY <5>1, <5>2
      <4>4. QED BY <4>3, Zenon
    <3>7. \A q \in Roots \ roots' : used'[q] = 0
      BY <1>2, <3>1, Zenon
    <3>8. QED BY <3>4, <3>5, <3>6, <3>7, Zenon DEF RootsExclusive
  <2>3. QED BY <2>1, <2>2
<1>4. CASE Finish
  <2>1. roots' = roots /\ root' = root /\ used' = used
    BY <1>4, Zenon DEF Finish, FinishActive, FinishFailed, FinishReturn
  <2>2. \A v \in Writers : pc'[v] \in InTree => pc[v] \in InTree
    BY <1>1, <1>4
       DEF Finish, FinishActive, FinishFailed, FinishReturn, Goto, InTree
  <2>3. QED BY <1>2, <2>1, <2>2, Zenon DEF RootsExclusive
<1>5. ASSUME NEW w \in Writers, Act(w) PROVE RootsExclusive'
  <2>1. roots' = roots /\ root' = root
    BY <1>5, Zenon
       DEF Act, Fill, Leave, Fail, NewPage, Ensure, Retire, Load, CasLoses, CasWins,
           Exhausted, LinkFirst, NewChain, CompleteCheck, CompleteReturn, Put,
           EndTree, CompleteLeave, DropFailed, DropLeave, TreeFails, ReturnFails,
           MarkFailed, Unwind
  <2>2. pc'[w] \in InTree => pc[w] \in InTree /\ ~EndTree(w)
    <3>1. CASE Fill(w)
      <4>1. back[w] \in InTree
        BY DEF PoolInv, TypeOK, DemandTypes, InTree
      <4>2. QED
        BY <1>1, <3>1, <4>1
           DEF Fill, NewPage, Ensure, Retire, Load, CasLoses, CasWins, Exhausted,
               LinkFirst, NewChain, Put, EndTree, Goto, InTree
    <3>2. CASE Leave(w) \/ Fail(w)
      BY <1>1, <3>2
         DEF Leave, Fail, CompleteCheck, CompleteReturn, CompleteLeave, DropFailed,
             DropLeave, TreeFails, ReturnFails, MarkFailed, Unwind, Goto, InTree
    <3>3. QED BY <1>5, <3>1, <3>2 DEF Act
  <2>3. \A v \in Writers : pc'[v] \in InTree => pc[v] \in InTree
    BY <1>5, <2>2, OthersKeep, Zenon DEF PoolInv
  <2>4. ASSUME NEW v \in Writers, pc'[v] \in InTree PROVE used'[root[v]] = 0
    <3>1. root[v] \in Roots /\ used[root[v]] = 0 /\ pc[v] \in InTree
      BY <1>1, <1>2, <2>3, <2>4
    <3>2. CASE used'[root[v]] = used[root[v]]
      BY <3>1, <3>2
    <3>3. CASE \E u \in Writers : EndTree(u) /\ root[v] = root[u]
      <4>1. PICK u \in Writers : EndTree(u) /\ root[v] = root[u]
        BY <3>3
      <4>2. pc[u] \in InTree /\ pc'[u] \notin InTree
        BY <1>1, <4>1 DEF EndTree, Goto, InTree
      <4>3. QED BY <1>2, <2>4, <3>1, <4>1, <4>2, Zenon
    <3>4. QED BY <1>5, <3>1, <3>2, <3>3, RootUse DEF Next
  <2>5. ASSUME NEW q \in Roots \ roots PROVE used'[q] = 0
    <3>1. used[q] = 0
      BY <1>2, <2>5, Zenon
    <3>2. \A u \in Writers : EndTree(u) => root[u] \in roots
      BY <1>2 DEF EndTree, InTree
    <3>3. QED BY <1>5, <2>5, <3>1, <3>2, RootUse, Zenon DEF Next
  <2>6. QED BY <1>2, <2>1, <2>3, <2>4, <2>5, Zenon DEF RootsExclusive
<1>6. QED BY <1>3, <1>4, <1>5, Zenon DEF Next, HandOut

\* Membership in a run of pages.
LEMMA InRun ==
  ASSUME NEW a \in Nat, NEW b \in Nat, NEW p \in Nat, a <= p, p < b, p # Pending
  PROVE  p \in Run(a, b)
BY DEF Run

\* Nobody recovers from a failure.
LEMMA LossyStays ==
  ASSUME PoolInv, Next, NEW w \in Writers, pc[w] \in Lossy
  PROVE  pc'[w] \in Lossy
<1>1. DOMAIN pc = Writers /\ Coordinator \in Writers
  BY DEF PoolInv, TypeOK, PcType, Writers
<1>2. ASSUME NEW v \in Writers, Act(v) PROVE pc'[w] \in Lossy
  <2>1. CASE v # w
    BY <1>2, <2>1, OthersKeep DEF PoolInv
  <2>2. CASE v = w /\ (Leave(w) \/ Fail(w))
    BY <1>1, <2>2
       DEF Leave, Fail, CompleteCheck, CompleteReturn, CompleteLeave, DropFailed,
           DropLeave, TreeFails, ReturnFails, MarkFailed, Unwind, Goto, Lossy
  <2>3. CASE v = w /\ Fill(w)
    BY <1>1, <2>3
       DEF Fill, NewPage, Ensure, Retire, Load, CasLoses, CasWins, Exhausted,
           LinkFirst, NewChain, Put, EndTree, Lossy
  <2>4. QED BY <1>2, <2>1, <2>2, <2>3 DEF Act
<1>3. CASE HandOut \/ Finish
  BY <1>1, <1>3
     DEF HandOut, BeginTree, Fork, Finish, FinishActive, FinishFailed,
         FinishReturn, Goto, Lossy
<1>4. QED BY <1>2, <1>3 DEF Next

LEMMA LossStep == ASSUME PoolInv, Next PROVE NothingLost'
<1>1. PICK w \in Writers : Effect(w)
  BY NextEffect
<1>2. next \in Nat /\ next' \in Nat /\ next' >= next
  BY NextEffect
<1>3. SUFFICES ASSUME \A v \in Writers : pc'[v] \notin Lossy,
                      NEW p \in Pages, p < next', p # Pending
               PROVE  \/ used'[p] + freed'[p] = 1
                      \/ \E v \in Writers : p \in Tail(v)'
  BY DEF NothingLost
<1>4. Accounts(w) /\ Touches(w)
  BY <1>1, <1>3, Zenon DEF Effect
<1>5. \A v \in Writers : v # w => Tail(v)' = Tail(v) /\ pc'[v] = pc[v]
  BY <1>1, Zenon DEF Effect
<1>6. CASE pc[w] \in Lossy
  \* A failed writer that leaves the failing states: there is none.
  <2>1. pc'[w] \in Lossy
    BY <1>6, LossyStays
  <2>2. QED BY <1>3, <2>1
<1>7. CASE pc[w] \notin Lossy
  <2>1. \A v \in Writers : pc[v] \notin Lossy
    BY <1>3, <1>5, <1>7
  <2>2. CASE p < next
    <3>1. \/ used[p] + freed[p] = 1
          \/ \E v \in Writers : p \in Tail(v)
      BY <1>3, <2>1, <2>2, Zenon DEF PoolInv, NothingLost
    <3>2. CASE \E v \in Writers : p \in Tail(v)
      <4>1. PICK v \in Writers : p \in Tail(v)
        BY <3>2
      <4>2. used[p] = 0 /\ freed[p] = 0
        BY <4>1, Zenon DEF PoolInv, BlocksDisjoint
      <4>3. CASE v # w
        BY <1>5, <4>1, <4>3, Zenon
      <4>4. CASE v = w
        BY <1>4, <4>1, <4>2, <4>4 DEF Accounts
      <4>5. QED BY <4>3, <4>4
    <3>3. CASE used[p] + freed[p] = 1
      <4>1. p \notin Tail(w)
        BY <3>3 DEF PoolInv, BlocksDisjoint
      <4>2. QED BY <1>4, <3>3, <4>1, Zenon DEF Touches
    <3>4. QED BY <3>1, <3>2, <3>3
  <2>3. CASE p >= next
    <3>1. p \in Run(next, next')
      <4>1. p \in Nat
        BY PoolAssumption DEF Pages
      <4>2. QED BY <1>2, <1>3, <2>3, <4>1, InRun
    <3>2. used[p] = 0 /\ freed[p] = 0
      BY <2>3, Zenon DEF PoolInv, FreshBeyondNext
    <3>3. QED BY <1>4, <3>1, <3>2 DEF Accounts
  <2>4. QED BY <1>2, <2>2, <2>3, PoolAssumption DEF Pages
<1>8. QED BY <1>6, <1>7

(* Overflow chains stay inside one block.                                  *)

LEMMA ActorReserved ==
  ASSUME PoolInv, NEW w \in Writers, Act(w)
  PROVE  Reserved(w)'
<1>1. /\ at \in [Writers -> Nat] /\ end \in [Writers -> Nat]
      /\ need \in [Writers -> Nat] /\ left \in [Writers -> Nat]
      /\ link \in [Writers -> Nat] /\ DOMAIN pc = Writers
      /\ back \in [Writers -> {"append", "chain"}] /\ Pending \in Nat
      /\ next \in Nat
  BY PoolAssumption
     DEF PoolInv, TypeOK, SharedTypes, BlockTypes, DemandTypes, PcType
<1>2. Reserved(w)
  BY DEF PoolInv, ChainReserved
<1> USE <1>1, <1>2 DEF Reserved, Asking, Goto
<1>3. CASE NewPage(w) \/ \E k \in 1 .. MaxChain : NewChain(w, k)
  <2>1. PICK k \in Nat :
          /\ k > 0 /\ pc[w] = "tree" /\ pc'[w] = "ensure"
          /\ need'[w] = k /\ left'[w] = k /\ link'[w] = link[w]
          /\ back'[w] = "chain" \/ (back'[w] = "append" /\ k = 1)
    <3>1. CASE NewPage(w)
      BY <3>1 DEF NewPage
    <3>2. ASSUME NEW k \in 1 .. MaxChain, NewChain(w, k)
          PROVE  /\ k \in Nat /\ k > 0 /\ pc[w] = "tree" /\ pc'[w] = "ensure"
                 /\ need'[w] = k /\ left'[w] = k /\ link'[w] = link[w]
                 /\ back'[w] = "chain"
      BY <3>2, PoolAssumption DEF NewChain
    <3>3. QED BY <1>3, <3>1, <3>2
  <2>2. QED BY <2>1
<1>4. CASE Ensure(w)
  <2>1. /\ pc[w] = "ensure" /\ UNCHANGED <<at, end, need, back, left, link>>
        /\ pc'[w] = IF Available(w) >= need[w] THEN back[w] ELSE "retire"
    BY <1>4 DEF Ensure
  <2>2. Available(w)' = Available(w) /\ Available(w) \in Int
    BY <2>1 DEF Available, Inside
  <2>3. QED BY <2>1, <2>2
<1>5. CASE Retire(w) \/ Load(w) \/ CasLoses(w)
  <2>1. /\ UNCHANGED <<need, back, left, link>>
        /\ pc[w] \in {"retire", "load", "cas"} /\ pc'[w] \in {"load", "cas"}
    BY <1>5 DEF Retire, Load, CasLoses
  <2>2. QED BY <2>1
<1>6. CASE CasWins(w)
  <2>1. /\ UNCHANGED <<need, back, left, link>> /\ pc[w] = "cas"
        /\ pc'[w] = back[w] \/ pc'[w] = "err"
        /\ at'[w] = next /\ end'[w] = GrantEnd(next, need[w])
    BY <1>6 DEF CasWins
  <2>2. need[w] > 0
    BY <2>1
  <2>3. Available(w)' >= need[w] /\ Available(w)' \in Int
    <3> DEFINE g == GrantEnd(next, need[w])
    <3>1. /\ g \in Nat /\ need[w] \in Nat
          /\ IF Inside(next, g) THEN g - next - 1 >= need[w] ELSE g - next >= need[w]
      BY <2>2, GrantFacts
    <3>2. Available(w)' = IF Inside(next, g) THEN g - next - 1 ELSE g - next
      BY <2>1, Zenon DEF Available, Inside
    <3>3. QED BY <3>1, <3>2
  <2>4. QED BY <2>1, <2>3
<1>7. CASE LinkFirst(w)
  <2>1. /\ UNCHANGED <<at, end, left>> /\ pc[w] = "chain" /\ pc'[w] = "ensure"
        /\ link'[w] = NextAvailable(at[w]) /\ need'[w] = 1
        /\ back'[w] = "append"
    BY <1>7 DEF LinkFirst, NextAvailable
  <2>2. Available(w)' = Available(w) /\ Available(w) \in Int
    BY <2>1 DEF Available, Inside
  <2>3. NextAvailable(at[w]) # 0
    <3>1. at[w] < end[w]
      BY <2>1 DEF Available, Inside
    <3>2. at[w] > 0
      BY <3>1, PoolAssumption DEF PoolInv, BlockBounds, Bounds
    <3>3. QED BY <3>2 DEF NextAvailable
  <2>4. QED BY <2>1, <2>2, <2>3
<1>8. CASE Put(w)
  <2> DEFINE id == NextAvailable(at[w])
  <2>1. /\ UNCHANGED <<end, need, back>> /\ pc[w] = "append" /\ id < end[w]
        /\ pc'[w] = IF left[w] > 1 THEN "ensure" ELSE "tree"
        /\ at'[w] = id + 1 /\ left'[w] = left[w] - 1
        /\ link'[w] = IF link[w] # 0 /\ left[w] > 1
                      THEN NextAvailable(id + 1) ELSE 0
    BY <1>8 DEF Put, NextAvailable
  <2>2. CASE left[w] > 1
    <3>1. link[w] # 0 /\ Available(w) >= left[w]
      BY <2>1, <2>2
    <3>2. Available(w)' >= left[w] - 1
      BY <2>1, <2>2, <3>1 DEF Available, Inside, NextAvailable
    <3>3. pc'[w] = "ensure" /\ link'[w] = NextAvailable(at[w])' /\ need'[w] = 1
          /\ back'[w] = "append" /\ left'[w] > 0 /\ link'[w] # 0
      BY <2>1, <2>2, <3>1 DEF NextAvailable
    <3>4. QED BY <2>1, <3>2, <3>3
  <2>3. CASE left[w] <= 1
    BY <2>1, <2>3
  <2>4. QED BY <2>2, <2>3
<1>9. CASE Exhausted(w) \/ EndTree(w)
  BY <1>9 DEF Exhausted, EndTree
<1>10. CASE Leave(w) \/ Fail(w)
  BY <1>10
     DEF Leave, Fail, CompleteCheck, CompleteReturn, CompleteLeave, DropFailed,
         DropLeave, TreeFails, ReturnFails, MarkFailed, Unwind
<1>11. QED
  BY <1>3, <1>4, <1>5, <1>6, <1>7, <1>8, <1>9, <1>10, Zenon DEF Act, Fill

LEMMA ChainStep == ASSUME PoolInv, Next PROVE ChainReserved'
<1>0. TypeOK
  BY DEF PoolInv
<1>1. ASSUME NEW w \in Writers, Act(w), NEW v \in Writers PROVE Reserved(v)'
  <2>1. CASE v = w
    BY <1>1, <2>1, ActorReserved
  <2>2. CASE v # w
    <3>1. Reserved(v)
      BY DEF PoolInv, ChainReserved
    <3>2. Available(v)' = Available(v)
      BY <1>0, <1>1, <2>2, OthersKeep, Zenon DEF Available
    <3>3. QED
      BY <1>0, <1>1, <2>2, <3>1, <3>2, OthersKeep, Zenon DEF Reserved
  <2>3. QED BY <2>1, <2>2
<1>2. ASSUME HandOut \/ Finish, NEW v \in Writers PROVE Reserved(v)'
  <2>1. /\ UNCHANGED <<at, end, need, back, left, link>> /\ Reserved(v)
        /\ DOMAIN pc = Writers /\ Available(v)' = Available(v)
    BY <1>2, Zenon
       DEF HandOut, BeginTree, Fork, Finish, FinishActive, FinishFailed,
           FinishReturn, PoolInv, ChainReserved, TypeOK, PcType, Available
  <2>2. \/ pc'[v] = pc[v]
        \/ pc[v] \in {"none", "idle"} /\ pc'[v] = "tree"
        \/ pc'[v] \in {"err", "quiet", "closing", "sealed", "refused"}
    BY <1>2, <2>1
       DEF HandOut, BeginTree, Fork, Finish, FinishActive, FinishFailed,
           FinishReturn, Goto, Writers
  <2>3. QED BY <2>1, <2>2 DEF Reserved, Asking
<1>3. QED BY <1>1, <1>2, Zenon DEF Next, ChainReserved

LEMMA TornStep == ASSUME PoolInv, Next PROVE ~torn'
<1>1. ~torn
  BY DEF PoolInv
<1>2. ASSUME NEW w \in Writers, Put(w) PROVE ~torn'
  <2>1. link[w] # 0 => link[w] = NextAvailable(at[w])
    BY <1>2 DEF PoolInv, ChainReserved, Reserved, Put
  <2>2. QED BY <1>1, <1>2, <2>1, Zenon DEF Put
<1>3. ASSUME NEW w \in Writers, Act(w), ~Put(w) PROVE torn' = torn
  BY <1>3, Zenon
     DEF Act, Fill, Leave, Fail, NewPage, Ensure, Retire, Load, CasLoses, CasWins,
         Exhausted, LinkFirst, NewChain, EndTree, CompleteCheck, CompleteReturn,
         CompleteLeave, DropFailed, DropLeave, TreeFails, ReturnFails, MarkFailed,
         Unwind
<1>4. CASE HandOut \/ Finish
  BY <1>1, <1>4, Zenon
     DEF HandOut, BeginTree, Fork, Finish, FinishActive, FinishFailed, FinishReturn
<1>5. QED BY <1>1, <1>2, <1>3, <1>4, Zenon DEF Next


(* The count of active writers.                                            *)

LiveWorkers == {w \in Workers : pc[w] \in Live}

\* Which steps change the set of counted workers, and which the counter.
LEMMA CountStep ==
  ASSUME PoolInv, Next
  PROVE  \/ LiveWorkers' = LiveWorkers /\ active' = active
         \/ \E w \in Workers \ LiveWorkers :
              LiveWorkers' = LiveWorkers \cup {w} /\ active' = active + 1
         \/ \E w \in LiveWorkers :
              LiveWorkers' = LiveWorkers \ {w} /\ active' = active - 1
<1>1. /\ DOMAIN pc = Writers /\ Coordinator \in Writers /\ Coordinator \notin Workers
      /\ \A w \in Workers : w \in Writers
      /\ pc[Coordinator] \notin {"leaving", "leave"}
  BY PoolAssumption DEF PoolInv, TypeOK, PcType, Writers, ActiveCounts
<1>2. ASSUME NEW w \in Writers, Act(w), ~CompleteLeave(w), ~DropLeave(w)
      PROVE  active' = active /\ (pc'[w] \in Live <=> pc[w] \in Live)
  <2>1. CASE Fill(w)
    <3>1. back[w] \in Live
      BY DEF PoolInv, TypeOK, DemandTypes, Live, PcValues, Holding
    <3>2. QED
      BY <1>1, <2>1, <3>1
         DEF Fill, NewPage, Ensure, Retire, Load, CasLoses, CasWins, Exhausted,
             LinkFirst, NewChain, Put, EndTree, Goto, Live, PcValues, Holding,
             Failing
  <2>2. CASE Leave(w) \/ Fail(w)
    BY <1>1, <1>2, <2>2
       DEF Leave, Fail, CompleteCheck, CompleteReturn, DropFailed, TreeFails,
           ReturnFails, MarkFailed, Unwind, Goto, Live, PcValues, Holding,
           Failing, Gone
  <2>3. QED BY <1>2, <2>1, <2>2 DEF Act
<1>3. ASSUME NEW w \in Writers, Act(w), ~CompleteLeave(w), ~DropLeave(w)
      PROVE  LiveWorkers' = LiveWorkers /\ active' = active
  <2>1. ASSUME NEW v \in Workers PROVE pc'[v] \in Live <=> pc[v] \in Live
    <3>1. CASE v = w
      BY <1>2, <1>3, <3>1, Zenon
    <3>2. CASE v # w
      <4>1. v \in Writers /\ pc'[v] = pc[v]
        BY <1>1, <1>3, <3>2, OthersKeep, Zenon DEF PoolInv
      <4>2. QED BY <4>1
    <3>3. QED BY <3>1, <3>2
  <2>2. QED BY <1>2, <1>3, <2>1, Zenon DEF LiveWorkers
<1>4. ASSUME NEW w \in Writers, CompleteLeave(w) \/ DropLeave(w)
      PROVE  \E v \in LiveWorkers :
               LiveWorkers' = LiveWorkers \ {v} /\ active' = active - 1
  <2>1. /\ w \in LiveWorkers /\ active' = active - 1
        /\ pc'[w] \notin Live
        /\ \A v \in Writers : v # w => pc'[v] = pc[v]
    BY <1>1, <1>4
       DEF CompleteLeave, DropLeave, Goto, LiveWorkers, Live, PcValues, Holding,
           Failing, Gone, Writers
  <2>2. LiveWorkers' = LiveWorkers \ {w}
    BY <1>1, <2>1 DEF LiveWorkers
  <2>3. QED BY <2>1, <2>2
<1>5. ASSUME NEW w \in Workers, NEW r \in Roots, Fork(w, r)
      PROVE  \E v \in Workers \ LiveWorkers :
               LiveWorkers' = LiveWorkers \cup {v} /\ active' = active + 1
  <2>1. /\ w \notin LiveWorkers /\ active' = active + 1
        /\ pc'[w] \in Live
        /\ \A v \in Writers : v # w => pc'[v] = pc[v]
    BY <1>1, <1>5
       DEF Fork, Goto, LiveWorkers, Live, PcValues, Holding, Failing, Gone
  <2>2. LiveWorkers' = LiveWorkers \cup {w}
    BY <1>1, <2>1 DEF LiveWorkers
  <2>3. QED BY <2>1, <2>2
<1>6. ASSUME Finish \/ \E r \in Roots : BeginTree(r)
      PROVE  LiveWorkers' = LiveWorkers /\ active' = active
  <2>1. active' = active /\ \A v \in Workers : pc'[v] = pc[v]
    BY <1>1, <1>6
       DEF Finish, FinishActive, FinishFailed, FinishReturn, BeginTree, Goto
  <2>2. QED BY <2>1, Zenon DEF LiveWorkers
<1>7. QED
  BY <1>3, <1>4, <1>5, <1>6, Zenon DEF Next, HandOut

\* The coordinator turns quiet only when no worker is counted, and closes the
\* file only when none has failed.
LEMMA CoordinatorMoves ==
  ASSUME PoolInv, Act(Coordinator) \/ HandOut \/ Finish
  PROVE  /\ \A v \in Workers : pc'[v] = pc[v] \/ pc'[v] = "tree"
         /\ failed => failed'
         /\ pc'[Coordinator] \notin {"none", "ended", "returning", "drop", "leave",
                                    "leaving", "done", "gone"}
         /\ pc'[Coordinator] \in {"quiet", "closing", "sealed"} =>
              \A v \in Workers : pc'[v] \in {"none", "done", "gone"}
         /\ pc'[Coordinator] \in {"closing", "sealed"} => ~failed'
<1> DEFINE c == Coordinator
<1>1. /\ pc \in [Writers -> PcValues] /\ c \in Writers /\ c \notin Workers
      /\ \A w \in Workers : w \in Writers
      /\ back[c] \in {"append", "chain"}
      /\ active = Cardinality(LiveWorkers) /\ IsFiniteSet(LiveWorkers)
  BY PoolAssumption, FS_Subset
     DEF PoolInv, TypeOK, PcType, DemandTypes, Writers, ActiveCounts, LiveWorkers
<1>2. /\ pc[c] \notin {"none", "ended", "returning", "drop", "leave",
                      "leaving", "done", "gone"}
      /\ pc[c] \in {"quiet", "closing", "sealed"} =>
           \A w \in Workers : pc[w] \in {"none", "done", "gone"}
      /\ pc[c] \in {"closing", "sealed"} => ~failed
  BY Zenon DEF PoolInv, ActiveCounts
<1>3. CASE Act(c)
  <2>1. \A v \in Workers : pc'[v] = pc[v]
    BY <1>1, <1>3, OthersKeep DEF PoolInv
  <2>2. failed => failed'
    BY <1>3, Zenon
       DEF Act, Fill, Leave, Fail, NewPage, Ensure, Retire, Load, CasLoses, CasWins,
           Exhausted, LinkFirst, NewChain, EndTree, Put, CompleteCheck,
           CompleteReturn, CompleteLeave, DropFailed, DropLeave, TreeFails,
           ReturnFails, MarkFailed, Unwind
  <2>3. pc'[c] \in {"ensure", "retire", "load", "cas", "chain", "append", "tree",
                    "err", "idle", "refused"}
    <3>1. CASE Fill(c)
      BY <1>1, <3>1
         DEF Fill, NewPage, Ensure, Retire, Load, CasLoses, CasWins, Exhausted,
             LinkFirst, NewChain, Put, EndTree, Goto
    <3>2. CASE Leave(c) \/ Fail(c)
      BY <1>1, <1>2, <3>2
         DEF Leave, Fail, CompleteCheck, CompleteReturn, CompleteLeave, DropFailed,
             DropLeave, TreeFails, ReturnFails, MarkFailed, Unwind, Goto
    <3>3. QED BY <1>3, <3>1, <3>2 DEF Act
  <2>4. QED BY <2>1, <2>2, <2>3
<1>4. CASE HandOut
  <2>1. failed' = failed
    BY <1>4, Zenon DEF HandOut, BeginTree, Fork
  <2>2. /\ \A v \in Workers : pc'[v] = pc[v] \/ pc'[v] = "tree"
        /\ pc'[c] \in {"idle", "err", "tree"}
    BY <1>1, <1>4 DEF HandOut, BeginTree, Fork, Goto
  <2>3. QED BY <2>1, <2>2
<1>5. CASE FinishActive
  <2>1. /\ \A v \in Workers : pc'[v] = pc[v]
        /\ pc'[c] = IF active # 0 THEN "refused" ELSE "quiet"
    BY <1>1, <1>5 DEF FinishActive, Goto
  <2>2. ASSUME active = 0
        PROVE  \A v \in Workers : pc[v] \in {"none", "done", "gone"}
    <3>1. LiveWorkers = {}
      BY <1>1, <2>2, FS_EmptySet
    <3>2. QED BY <1>1, <3>1 DEF LiveWorkers, Live
  <2>3. failed' = failed
    BY <1>5, Zenon DEF FinishActive
  <2>4. QED BY <2>1, <2>2, <2>3
<1>6. CASE FinishFailed \/ FinishReturn
  <2>1. /\ \A v \in Workers : pc'[v] = pc[v]
        /\ pc[c] \in {"quiet", "closing"}
        /\ pc'[c] \in {"refused", "closing", "sealed"}
    BY <1>1, <1>6 DEF FinishFailed, FinishReturn, Goto
  <2>2. failed' = failed
    BY <1>6, Zenon DEF FinishFailed, FinishReturn
  <2>3. pc'[c] \in {"closing", "sealed"} => ~failed
    <3>1. CASE FinishReturn
      BY <1>2, <3>1 DEF FinishReturn
    <3>2. CASE FinishFailed /\ failed
      BY <1>1, <3>2 DEF FinishFailed, Goto
    <3>3. QED BY <1>6, <3>1, <3>2
  <2>4. QED BY <1>2, <2>1, <2>2, <2>3
<1>7. QED BY <1>3, <1>4, <1>5, <1>6 DEF Finish

LEMMA ActiveStep == ASSUME PoolInv, Next PROVE ActiveCounts'
<1>1. /\ DOMAIN pc = Writers /\ Coordinator \in Writers /\ Coordinator \notin Workers
      /\ \A w \in Workers : w \in Writers
      /\ \A w \in Writers \ {Coordinator} : w \in Workers
      /\ active = Cardinality(LiveWorkers) /\ IsFiniteSet(LiveWorkers)
  BY PoolAssumption, FS_Subset
     DEF PoolInv, TypeOK, PcType, Writers, ActiveCounts, LiveWorkers
<1>2. active' = Cardinality(LiveWorkers')
  <2>1. Cardinality(LiveWorkers) \in Nat
    BY <1>1, FS_CardinalityType
  <2>2. CASE LiveWorkers' = LiveWorkers /\ active' = active
    BY <1>1, <2>2
  <2>3. ASSUME NEW w \in Workers \ LiveWorkers,
               LiveWorkers' = LiveWorkers \cup {w}, active' = active + 1
        PROVE  active' = Cardinality(LiveWorkers')
    BY <1>1, <2>1, <2>3, FS_AddElement
  <2>4. ASSUME NEW w \in LiveWorkers,
               LiveWorkers' = LiveWorkers \ {w}, active' = active - 1
        PROVE  active' = Cardinality(LiveWorkers')
    BY <1>1, <2>1, <2>4, FS_RemoveElement
  <2>5. QED BY <2>2, <2>3, <2>4, CountStep
<1>3. /\ \A w \in Workers : pc[w] \in {"leave", "gone"} => failed
      /\ \A w \in Workers : pc[w] \notin {"idle", "quiet", "closing", "sealed", "refused"}
      /\ pc[Coordinator] \notin {"none", "ended", "returning", "drop", "leave",
                                 "leaving", "done", "gone"}
      /\ pc[Coordinator] \in {"quiet", "closing", "sealed"} =>
           \A w \in Workers : pc[w] \in {"none", "done", "gone"}
      /\ pc[Coordinator] \in {"closing", "sealed"} => ~failed
  BY Zenon DEF PoolInv, ActiveCounts
<1> DEFINE Rest == /\ \A w \in Workers : pc[w] \in {"leave", "gone"} => failed
                   /\ \A w \in Workers :
                        pc[w] \notin {"idle", "quiet", "closing", "sealed", "refused"}
                   /\ pc[Coordinator] \notin {"none", "ended", "returning", "drop",
                                              "leave", "leaving", "done", "gone"}
                   /\ pc[Coordinator] \in {"quiet", "closing", "sealed"} =>
                        \A w \in Workers : pc[w] \in {"none", "done", "gone"}
                   /\ pc[Coordinator] \in {"closing", "sealed"} => ~failed
<1>4. ASSUME NEW w \in Workers, Act(w) PROVE Rest'
  <2>1. /\ pc[w] \notin {"none", "done", "gone"}
        /\ pc'[w] \notin {"idle", "quiet", "closing", "sealed", "refused"}
    <3>1. CASE Fill(w)
      <4>1. back[w] \in {"append", "chain"}
        BY <1>1 DEF PoolInv, TypeOK, DemandTypes
      <4>2. QED
        BY <1>1, <3>1, <4>1
           DEF Fill, NewPage, Ensure, Retire, Load, CasLoses, CasWins, Exhausted,
               LinkFirst, NewChain, Put, EndTree, Goto
    <3>2. CASE Leave(w) \/ Fail(w)
      BY <1>1, <1>3, <3>2
         DEF Leave, Fail, CompleteCheck, CompleteReturn, CompleteLeave, DropFailed,
             DropLeave, TreeFails, ReturnFails, MarkFailed, Unwind, Goto
    <3>3. QED BY <1>4, <3>1, <3>2 DEF Act
  <2>2. failed => failed'
    BY <1>4, Zenon
       DEF Act, Fill, Leave, Fail, NewPage, Ensure, Retire, Load, CasLoses, CasWins,
           Exhausted, LinkFirst, NewChain, EndTree, Put, CompleteCheck,
           CompleteReturn, CompleteLeave, DropFailed, DropLeave, TreeFails,
           ReturnFails, MarkFailed, Unwind
  <2>3. pc'[w] \in {"leave", "gone"} => failed'
    <3>1. CASE DropFailed(w)
      BY <3>1, Zenon DEF DropFailed
    <3>2. CASE DropLeave(w)
      BY <1>3, <2>2, <3>2, Zenon DEF DropLeave
    <3>3. CASE ~DropFailed(w) /\ ~DropLeave(w)
      <4>1. back[w] \in {"append", "chain"}
        BY <1>1 DEF PoolInv, TypeOK, DemandTypes
      <4>2. pc'[w] \notin {"leave", "gone"}
        <5>1. CASE Fill(w)
          BY <1>1, <4>1, <5>1
             DEF Fill, NewPage, Ensure, Retire, Load, CasLoses, CasWins, Exhausted,
                 LinkFirst, NewChain, Put, EndTree, Goto
        <5>2. CASE Leave(w) \/ Fail(w)
          BY <1>1, <3>3, <5>2
             DEF Leave, Fail, CompleteCheck, CompleteReturn, CompleteLeave,
                 TreeFails, ReturnFails, MarkFailed, Unwind, Goto
        <5>3. QED BY <1>4, <5>1, <5>2 DEF Act
      <4>3. QED BY <4>2
    <3>4. QED BY <3>1, <3>2, <3>3
  <2>4. \A v \in Writers : v # w => pc'[v] = pc[v]
    BY <1>1, <1>4, OthersKeep, Zenon DEF PoolInv
  <2>5. pc'[Coordinator] = pc[Coordinator]
        /\ pc[Coordinator] \notin {"quiet", "closing", "sealed"}
    BY <1>1, <1>3, <2>1, <2>4
  <2>6. QED BY <1>1, <1>3, <2>1, <2>2, <2>3, <2>4, <2>5, Zenon
<1>5. ASSUME Act(Coordinator) \/ HandOut \/ Finish PROVE Rest'
  <2>1. /\ \A v \in Workers : pc'[v] = pc[v] \/ pc'[v] = "tree"
        /\ failed => failed'
        /\ pc'[Coordinator] \notin {"none", "ended", "returning", "drop", "leave",
                                   "leaving", "done", "gone"}
        /\ pc'[Coordinator] \in {"quiet", "closing", "sealed"} =>
             \A v \in Workers : pc'[v] \in {"none", "done", "gone"}
        /\ pc'[Coordinator] \in {"closing", "sealed"} => ~failed'
    BY <1>5, CoordinatorMoves
  <2>2. \A w \in Workers : pc'[w] \in {"leave", "gone"} => failed'
    BY <1>3, <2>1
  <2>3. \A w \in Workers :
          pc'[w] \notin {"idle", "quiet", "closing", "sealed", "refused"}
    BY <1>3, <2>1
  <2>4. QED BY <2>1, <2>2, <2>3, Zenon
<1>6. Rest'
  BY <1>1, <1>4, <1>5, Zenon DEF Next
<1>7. QED BY <1>2, <1>6, Zenon DEF ActiveCounts, LiveWorkers

(* The theorems.                                                           *)

LEMMA InitInv == ASSUME Init PROVE PoolInv
<1>1. /\ BootEnd \in Nat /\ Limit \in Nat /\ Limit >= BootEnd /\ Pending \in Nat
      /\ Coordinator \in Writers /\ Coordinator \notin Workers
      /\ \A w \in Workers : w \in Writers /\ w # Coordinator
  BY PoolAssumption DEF Writers
<1>2. TypeOK
  <2>1. SharedTypes
    BY <1>1 DEF Init, SharedTypes
  <2>2. BlockTypes /\ DemandTypes
    BY <1>1 DEF Init, BlockTypes, DemandTypes
  <2>3. PcType
    BY DEF Init, PcType, PcValues, Holding, Gone
  <2>4. FlagTypes
    BY Zenon DEF Init, FlagTypes
  <2>5. QED BY <2>1, <2>2, <2>3, <2>4 DEF TypeOK
<1>3. \A w \in Writers : /\ pc[w] = IF w = Coordinator THEN "idle" ELSE "none"
                         /\ at[w] = end[w] /\ at[w] \in {0, BootEnd}
                         /\ w # Coordinator => at[w] = 0
                         /\ link[w] = 0
  BY DEF Init
<1>4. next = BootEnd
  BY DEF Init
<1>5. BlockBounds
  BY <1>1, <1>3, <1>4 DEF BlockBounds, Bounds, Holding
<1>6. /\ \A p \in Pages : used[p] = 0 /\ freed[p] = 0
      /\ \A p \in 2 .. (Limit - 1) : used[p] = 0
      /\ DOMAIN used = 2 .. (Limit - 1)
  BY <1>1, PoolAssumption DEF Init, Pages
<1>7. FreshBeyondNext
  BY <1>6 DEF FreshBeyondNext
<1>8. \A w \in Writers : Tail(w) = {}
  BY <1>1, <1>3 DEF Tail, Run
<1>9. BlocksDisjoint
  BY <1>8 DEF BlocksDisjoint
<1>10. OneUsePerPage
  BY <1>6 DEF OneUsePerPage
<1>11. RootsExclusive
  <2>1. \A r \in Roots : used[r] = 0
    BY <1>1, <1>6, PoolAssumption DEF Roots
  <2>2. \A w \in Writers : pc[w] \notin InTree
    BY <1>3 DEF InTree
  <2>3. QED BY <2>1, <2>2 DEF RootsExclusive
<1>12. ChainReserved
  BY <1>3 DEF ChainReserved, Reserved, Asking
<1>13. ~torn
  BY Zenon DEF Init
<1>14. ActiveCounts
  <2>1. {w \in Workers : pc[w] \in Live} = {}
    BY <1>1, <1>3 DEF Live
  <2>2. active = Cardinality({w \in Workers : pc[w] \in Live})
    BY <2>1, FS_EmptySet DEF Init
  <2>3. /\ \A w \in Workers : pc[w] = "none"
        /\ pc[Coordinator] = "idle"
    BY <1>1, <1>3
  <2>4. QED BY <2>2, <2>3 DEF ActiveCounts
<1>15. NothingLost
  BY <1>1, <1>4 DEF NothingLost, Pages
<1>16. QED
  BY <1>2, <1>5, <1>7, <1>9, <1>10, <1>11, <1>12, <1>13, <1>14, <1>15, Zenon
     DEF PoolInv

LEMMA NextInv == ASSUME PoolInv, Next PROVE PoolInv'
BY TypeStep, BoundsStep, FreshStep, DisjointStep, OneUseStep, RootsStep, ChainStep,
   TornStep, ActiveStep, LossStep, Zenon DEF PoolInv

LEMMA StutterInv == ASSUME PoolInv, UNCHANGED vars PROVE PoolInv'
<1>1. UNCHANGED <<next, active, failed, roots, freed, pc, at, end, root, seen, need,
                  back, left, link, used, torn>>
  BY DEF vars
<1>2. TypeOK' /\ BlockBounds' /\ FreshBeyondNext' /\ BlocksDisjoint' /\ OneUsePerPage'
  BY <1>1 DEF PoolInv, TypeOK, SharedTypes, BlockTypes, DemandTypes, PcType, FlagTypes,
              BlockBounds, Bounds, FreshBeyondNext, BlocksDisjoint, Tail, OneUsePerPage
<1>3. RootsExclusive' /\ ChainReserved' /\ ActiveCounts' /\ NothingLost' /\ ~torn'
  BY <1>1 DEF PoolInv, RootsExclusive, ChainReserved, Reserved, Available, ActiveCounts,
              NothingLost, Tail
<1>4. QED BY <1>2, <1>3, Zenon DEF PoolInv

(* The invariant of the page pool holds in every reachable state, for any   *)
(* number of threads: blocks, chains, roots, the counter `active` and the   *)
(* accounting of pages (BlockAllocator, PageWriter).                        *)
THEOREM PoolInvariant == Spec => []PoolInv
<1>1. Init => PoolInv
  BY InitInv
<1>2. PoolInv /\ [Next]_vars => PoolInv'
  BY NextInv, StutterInv
<1>3. QED BY <1>1, <1>2, PTL DEF Spec

(* No page is given content twice, freed twice, or both, and the lock-byte  *)
(* page is never used, however grant, append and return_tail interleave.    *)
THEOREM PagesUsedOnce == Spec => []OneUsePerPage
<1>1. PoolInv => OneUsePerPage
  BY DEF PoolInv
<1>2. QED BY <1>1, PoolInvariant, PTL

(* Two writers never hold the same page, although grant reads `next` and    *)
(* replaces it in two steps.                                                *)
THEOREM BlocksExclusive == Spec => []BlocksDisjoint
<1>1. PoolInv => BlocksDisjoint
  BY DEF PoolInv
<1>2. QED BY <1>1, PoolInvariant, PTL

(* The pages of an overflow chain land where cell() computed its pointers.  *)
THEOREM ChainsHold == Spec => []ChainsIntact
<1>1. PoolInv => ChainsIntact
  BY DEF PoolInv, ChainsIntact
<1>2. QED BY <1>1, PoolInvariant, PTL

\* The invariant accounts for every page of a sealed file.
LEMMA SealedComplete == ASSUME PoolInv PROVE SealedIsComplete
<1> SUFFICES ASSUME pc[Coordinator] = "sealed" PROVE
      /\ \A p \in Pages : p < next /\ p # Pending => used[p] + freed[p] = 1
      /\ \A w \in Workers : pc[w] \in {"none", "done"}
  BY DEF SealedIsComplete
<1>1. /\ \A w \in Workers : pc[w] \in {"none", "done", "gone"}
      /\ \A w \in Workers : pc[w] # "gone"
  BY Zenon DEF PoolInv, ActiveCounts
<1>2. \A w \in Writers : pc[w] \notin Lossy /\ Tail(w) = {}
  BY <1>1 DEF Writers, Lossy, Tail, Holding
<1>3. QED BY <1>1, <1>2 DEF PoolInv, NothingLost

(* A sealed file accounts for every granted page and every forked writer    *)
(* completed: finish() reads `active` before `failed`, while Drop writes    *)
(* `failed` before `active`.                                                *)
THEOREM SealedAccounts == Spec => []SealedIsComplete
<1>1. PoolInv => SealedIsComplete
  BY SealedComplete
<1>2. QED BY <1>1, PoolInvariant, PTL

\* Once the file is sealed, no step of any thread is possible.
LEMMA SealedStops ==
  ASSUME PoolInv, pc[Coordinator] = "sealed" PROVE ~Next
<1>1. \A w \in Workers : pc[w] \in {"none", "done"}
  <2>1. /\ \A w \in Workers : pc[w] \in {"none", "done", "gone"}
        /\ \A w \in Workers : pc[w] # "gone"
    BY Zenon DEF PoolInv, ActiveCounts
  <2>2. QED BY <2>1
<1>2. ASSUME NEW w \in Writers PROVE ~Act(w)
  <2>1. pc[w] \in {"none", "done", "sealed"}
    BY <1>1 DEF Writers
  <2>2. ~Fill(w)
    BY <2>1
       DEF Fill, NewPage, NewChain, Ensure, Retire, Load, CasLoses, CasWins,
           Exhausted, LinkFirst, Put, EndTree
  <2>3. ~Leave(w)
    BY <2>1
       DEF Leave, CompleteCheck, CompleteReturn, CompleteLeave, DropFailed,
           DropLeave
  <2>4. ~Fail(w)
    BY <2>1 DEF Fail, TreeFails, ReturnFails, MarkFailed, Unwind
  <2>5. QED BY <2>2, <2>3, <2>4 DEF Act
<1>3. ~HandOut /\ ~Finish
  BY DEF HandOut, BeginTree, Fork, Finish, FinishActive, FinishFailed,
              FinishReturn
<1>4. QED BY <1>2, <1>3 DEF Next

(* After finish() has sealed the file no thread changes a page, the spool   *)
(* or the page counter.                                                     *)
THEOREM SealedStaysFinal == Spec => SealedIsFinal
<1>1. ASSUME PoolInv, Next, pc[Coordinator] = "sealed"
      PROVE  UNCHANGED <<used, freed, next>>
  BY <1>1, SealedStops
<1>2. ASSUME PoolInv, [Next]_vars
      PROVE  [pc[Coordinator] = "sealed" => UNCHANGED <<used, freed, next>>]_vars
  BY <1>1, <1>2, Zenon DEF vars
<1>3. QED BY <1>2, PoolInvariant, PTL DEF Spec, SealedIsFinal

-----------------------------------------------------------------------------
(* The pool implements the page space of PageFile.                         *)

SealState == CASE pc[Coordinator] = "sealed"  -> "sealed"
               [] pc[Coordinator] = "refused" -> "abandoned"
               [] OTHER                       -> "open"

\* The ranges the page file's actions speak of.
LEMMA FileFacts ==
  ASSUME PoolInv
  PROVE  /\ next \in BootEnd .. Limit /\ next \in Nat
         /\ BootEnd \in Nat /\ Limit \in Nat /\ BootEnd > 1 /\ Pending \in Nat
         /\ Pages \subseteq 2 .. (Limit - 1)
         /\ used \in [2 .. (Limit - 1) -> Nat] /\ freed \in [Pages -> Nat]
         /\ DOMAIN pc = Writers /\ Coordinator \in Writers
         /\ at \in [Writers -> Nat] /\ end \in [Writers -> Nat]
BY PoolAssumption, SMTT(30)
   DEF PoolInv, TypeOK, SharedTypes, PcType, BlockTypes, Pages, Writers

\* Init of the pool is an empty, open file.
LEMMA FileInitMaps == ASSUME Init PROVE File!FileInit
<1>1. pc[Coordinator] = "idle"
  BY DEF Init, Writers
<1>2. Pages \subseteq 2 .. (Limit - 1)
  BY PoolAssumption DEF Pages
<1>3. QED
  BY <1>1, <1>2 DEF Init, File!FileInit, File!FilePages, Pages

\* Steps that leave the pages and the verdict on the file alone.
LEMMA FileStutters ==
  ASSUME PoolInv, next' = next, freed' = freed,
         \A p \in Pages : used'[p] = used[p], SealState' = SealState
  PROVE  UNCHANGED File!fileVars
BY DEF File!fileVars, SealState

\* A run of pages in a writer's hands is a run the file may free.
LEMMA RunReleased ==
  ASSUME PoolInv, NEW w \in Writers, pc[w] \in Holding, NEW b \in {end[w], Pending},
         b # end[w] => Inside(at[w], end[w]), ReturnTail(at[w], b)
  PROVE  \E a, e \in BootEnd .. Limit : a <= e /\ File!SpareRun(a, e)
<1>1. /\ Bounds(w) /\ at[w] \in Nat /\ end[w] \in Nat
  BY FileFacts DEF PoolInv, BlockBounds
<1>2. CASE at[w] >= b
  <2>1. /\ BootEnd \in BootEnd .. Limit /\ BootEnd .. (BootEnd - 1) = {}
        /\ Run(at[w], b) = {}
    BY <1>1, <1>2, FileFacts DEF Run
  <2>2. freed' = [p \in Pages |-> freed[p]]
    BY <2>1 DEF ReturnTail
  <2>3. File!SpareRun(BootEnd, BootEnd)
    BY <2>1, <2>2 DEF File!SpareRun, File!FilePages, Pages
  <2>4. QED BY <2>1, <2>3, FileFacts
<1>3. CASE at[w] < b
  <2>1. /\ at[w] \in BootEnd .. Limit /\ b \in BootEnd .. Limit /\ at[w] <= b
        /\ b <= end[w] /\ b \in Nat
    BY <1>1, <1>3, FileFacts DEF Bounds, Inside
  <2>2. ASSUME NEW p \in at[w] .. (b - 1), p # Pending PROVE File!Blank(p)
    <3>1. p \in Tail(w)
      BY <1>1, <2>1, <2>2 DEF Tail, Run
    <3>2. /\ p \in Pages /\ p < next /\ used[p] = 0 /\ freed[p] = 0
      BY <3>1, TailInPages DEF PoolInv, BlocksDisjoint
    <3>3. p \in BootEnd .. (next - 1)
      BY <3>2, FileFacts DEF Pages
    <3>4. QED BY <2>2, <3>2, <3>3 DEF File!Blank
  <2>3. File!SpareRun(at[w], b)
    BY <2>2 DEF ReturnTail, Run, File!SpareRun, File!FilePages, Pages
  <2>4. QED BY <2>1, <2>3
<1>4. QED BY <1>1, <1>2, <1>3, FileFacts

LEMMA PutMaps ==
  ASSUME PoolInv, NEW w \in Writers, Put(w), pc[Coordinator] # "sealed"
  PROVE  File!Keep
<1> DEFINE id == NextAvailable(at[w])
<1>1. /\ pc[w] = "append" /\ id < end[w] /\ used' = [used EXCEPT ![id] = @ + 1]
      /\ UNCHANGED <<next, freed>> /\ pc'[w] \in {"ensure", "tree"}
      /\ \A v \in Writers : v # w => pc'[v] = pc[v]
  BY FileFacts DEF Put, Goto
<1>2. id \in Tail(w)
  BY <1>1, FileFacts DEF NextAvailable, Tail, Run, Holding
<1>3. /\ id \in Pages /\ id < next /\ id # Pending /\ used[id] = 0 /\ freed[id] = 0
  BY <1>2, TailInPages DEF PoolInv, BlocksDisjoint
<1>4. SealState' = SealState /\ SealState # "sealed"
  BY <1>1, FileFacts DEF SealState
<1>5. File!Blank(id)
  BY <1>3, FileFacts DEF File!Blank, Pages
<1>6. [p \in Pages |-> used[p]]' = [[p \in Pages |-> used[p]] EXCEPT ![id] = 1]
  <2>1. \A p \in Pages : used'[p] = IF p = id THEN 1 ELSE used[p]
    BY <1>1, <1>3, FileFacts
  <2>2. QED BY <2>1, <1>3 DEF Pages
<1>7. QED
  BY <1>1, <1>3, <1>4, <1>5, <1>6 DEF File!Keep, File!FilePages, Pages, SealState

LEMMA CasMaps ==
  ASSUME PoolInv, NEW w \in Writers, CasWins(w), pc[Coordinator] # "sealed"
  PROVE  File!Extend
<1>1. /\ pc[w] = "cas" /\ next' = GrantEnd(next, need[w]) /\ next' <= Limit
      /\ UNCHANGED <<used, freed>> /\ pc'[w] \in {"append", "chain", "err"}
      /\ \A v \in Writers : v # w => pc'[v] = pc[v]
  BY FileFacts DEF CasWins, Goto, PoolInv, TypeOK, DemandTypes
<1>2. need[w] \in Nat
  BY DEF PoolInv, TypeOK, DemandTypes
<1>3. next' \in (next + 1) .. Limit
  <2>1. GrantEnd(next, need[w]) \in Nat /\ GrantEnd(next, need[w]) > next
    <3>1. /\ next \in Nat /\ Block \in Nat /\ Block > 0
      BY FileFacts, PoolAssumption
    <3> HIDE DEF PoolInv
    <3>2. QED BY <1>2, <3>1 DEF GrantEnd
  <2>2. QED BY <1>1, <2>1, FileFacts
<1>4. SealState' = SealState /\ SealState # "sealed"
  BY <1>1, FileFacts DEF SealState
<1>5. QED BY <1>1, <1>3, <1>4 DEF File!Extend, SealState

LEMMA ReleaseMaps ==
  ASSUME PoolInv, NEW w \in Writers, pc[Coordinator] # "sealed",
         Retire(w) \/ CompleteReturn(w)
  PROVE  File!Release
<1>1. /\ pc[w] \in Holding /\ ReturnTail(at[w], end[w])
      /\ UNCHANGED <<next, used>> /\ pc'[w] \in {"load", "leaving"}
      /\ pc[w] \in {"retire", "returning"}
      /\ \A v \in Writers : v # w => pc'[v] = pc[v]
  BY FileFacts DEF Retire, CompleteReturn, Goto, Holding
<1>2. SealState' = SealState /\ SealState # "sealed"
  BY <1>1, FileFacts DEF SealState
<1>3. \E a, e \in BootEnd .. Limit : a <= e /\ File!SpareRun(a, e)
  BY <1>1, RunReleased
<1>4. QED BY <1>1, <1>2, <1>3 DEF File!Release, SealState

LEMMA ReturnFailsMaps ==
  ASSUME PoolInv, NEW w \in Writers, ReturnFails(w), pc[Coordinator] # "sealed"
  PROVE  File!Release \/ File!Abandon
<1>1. /\ UNCHANGED <<next, used>>
      /\ \A v \in Writers : v # w => pc'[v] = pc[v]
      /\ pc[w] \in {"retire", "returning", "closing"} /\ pc[w] \in Holding
      /\ pc[w] # "closing" => pc'[w] \in {"err", "drop"}
      /\ pc[w] = "closing" => pc'[w] = "refused"
  BY FileFacts DEF ReturnFails, Goto, Holding
<1>2. \E a, e \in BootEnd .. Limit : a <= e /\ File!SpareRun(a, e)
  <2>1. CASE Inside(at[w], end[w]) /\ ReturnTail(at[w], Pending)
    BY <1>1, <2>1, RunReleased
  <2>2. CASE freed' = freed
    <3>1. File!SpareRun(BootEnd, BootEnd)
      BY <2>2, FileFacts DEF File!SpareRun, File!FilePages, Pages
    <3>2. QED BY <3>1, FileFacts
  <2>3. CASE ReturnTail(at[w], end[w])
    BY <1>1, <2>3, RunReleased
  <2>4. QED BY <2>1, <2>2, <2>3 DEF ReturnFails
<1>3. CASE pc[w] # "closing"
  <2>1. SealState' = SealState /\ SealState # "sealed"
    BY <1>1, <1>3, FileFacts DEF SealState
  <2>2. QED BY <1>1, <1>2, <2>1 DEF File!Release, SealState
<1>4. CASE pc[w] = "closing"
  <2>1. w = Coordinator
    BY <1>4 DEF PoolInv, ActiveCounts, Writers
  <2>2. SealState' = "abandoned" /\ SealState = "open"
    BY <1>1, <1>4, <2>1 DEF SealState
  <2>3. QED BY <1>1, <1>2, <2>2 DEF File!Abandon, SealState
<1>5. QED BY <1>3, <1>4

\* A coordinator that gives up without touching a page.
LEMMA RefusalMaps ==
  ASSUME PoolInv, UNCHANGED <<next, used, freed>>,
         pc[Coordinator] \notin {"sealed", "refused"}, pc'[Coordinator] = "refused"
  PROVE  File!Abandon
<1>1. SealState = "open" /\ SealState' = "abandoned"
  BY DEF SealState
<1>2. File!SpareRun(BootEnd, BootEnd)
  BY FileFacts DEF File!SpareRun, File!FilePages, Pages
<1>3. \E a, b \in BootEnd .. Limit : a <= b /\ File!SpareRun(a, b)
  <2>1. BootEnd \in BootEnd .. Limit /\ BootEnd <= BootEnd
    BY FileFacts
  <2>2. QED BY <1>2, <2>1, Zenon
<1>4. QED BY <1>1, <1>3 DEF File!Abandon, SealState

LEMMA SealMaps ==
  ASSUME PoolInv, SealedIsComplete', FinishReturn
  PROVE  File!Seal
<1>1. /\ pc[Coordinator] = "closing" /\ pc'[Coordinator] = "sealed"
      /\ UNCHANGED <<next, used>> /\ ReturnTail(at[Coordinator], end[Coordinator])
  BY FileFacts DEF FinishReturn, Goto
<1>2. \E a, e \in BootEnd .. Limit : a <= e /\ File!SpareRun(a, e)
  BY <1>1, FileFacts, RunReleased DEF Holding
<1>3. \A p \in Pages : p < next /\ p # Pending => used'[p] + freed'[p] = 1
  BY <1>1 DEF SealedIsComplete, Pages
<1>4. \A p \in BootEnd .. (next - 1) :
        p # Pending => [q \in Pages |-> used[q]][p] + freed'[p] = 1
  <2>1. ASSUME NEW p \in BootEnd .. (next - 1) PROVE p \in Pages /\ p < next
    BY <2>1, FileFacts DEF Pages
  <2>2. QED BY <1>1, <1>3, <2>1, Zenon
<1>5. SealState = "open" /\ SealState' = "sealed"
  BY <1>1 DEF SealState
<1>6. QED BY <1>1, <1>2, <1>4, <1>5 DEF File!Seal, SealState

\* A step of a writer's thread, seen from the file.
LEMMA ActMaps ==
  ASSUME PoolInv, NEW w \in Writers, Act(w), pc[Coordinator] # "sealed"
  PROVE  File!FileNext \/ UNCHANGED File!fileVars
<1>1. CASE \/ NewPage(w) \/ Ensure(w) \/ Load(w) \/ CasLoses(w) \/ Exhausted(w)
           \/ LinkFirst(w) \/ (\E k \in 1 .. MaxChain : NewChain(w, k))
           \/ CompleteCheck(w) \/ CompleteLeave(w) \/ DropFailed(w)
           \/ DropLeave(w) \/ TreeFails(w) \/ Unwind(w)
  <2>1. /\ UNCHANGED <<next, freed, used>>
        /\ pc[w] \notin {"sealed", "refused"} /\ pc'[w] \notin {"sealed", "refused"}
        /\ \A v \in Writers : v # w => pc'[v] = pc[v]
    BY <1>1, FileFacts
       DEF NewPage, NewChain, Ensure, Load, CasLoses, Exhausted, LinkFirst,
           CompleteCheck, CompleteLeave, DropFailed, DropLeave, TreeFails, Unwind,
           Goto, shared, PoolInv, TypeOK, DemandTypes
  <2>2. SealState' = SealState
    BY <2>1, FileFacts DEF SealState
  <2>3. QED BY <2>1, <2>2, FileStutters
<1>2. CASE EndTree(w)
  <2>1. /\ UNCHANGED <<next, freed>> /\ used' = [used EXCEPT ![root[w]] = @ + 1]
        /\ pc[w] = "tree" /\ pc'[w] \in {"idle", "ended"}
        /\ \A v \in Writers : v # w => pc'[v] = pc[v]
    BY <1>2, FileFacts DEF EndTree, Goto, shared
  <2>2. root[w] \in Roots
    BY <2>1 DEF PoolInv, RootsExclusive, InTree, TypeOK, SharedTypes
  <2>3. \A p \in Pages : used'[p] = used[p]
    BY <2>1, <2>2, FileFacts DEF Roots, Pages
  <2>4. SealState' = SealState
    BY <2>1, FileFacts DEF SealState
  <2>5. QED BY <2>1, <2>3, <2>4, FileStutters
<1>3. CASE Put(w)
  BY <1>3, PutMaps DEF File!FileNext
<1>4. CASE CasWins(w)
  BY <1>4, CasMaps DEF File!FileNext
<1>5. CASE Retire(w) \/ CompleteReturn(w)
  BY <1>5, ReleaseMaps DEF File!FileNext
<1>6. CASE ReturnFails(w)
  BY <1>6, ReturnFailsMaps DEF File!FileNext
<1>7. CASE MarkFailed(w)
  <2>1. /\ UNCHANGED <<next, used, freed>> /\ pc[w] = "err"
        /\ pc'[w] = (IF w = Coordinator THEN "refused" ELSE "drop")
        /\ \A v \in Writers : v # w => pc'[v] = pc[v]
    BY <1>7, FileFacts DEF MarkFailed, Goto
  <2>2. CASE w = Coordinator
    BY <2>1, <2>2, RefusalMaps DEF File!FileNext
  <2>3. CASE w # Coordinator
    <3>1. SealState' = SealState
      BY <2>1, <2>3, FileFacts DEF SealState
    <3>2. QED BY <2>1, <3>1, FileStutters
  <2>4. QED BY <2>2, <2>3
<1>8. QED BY <1>1, <1>2, <1>3, <1>4, <1>5, <1>6, <1>7 DEF Act, Fill, Leave, Fail

\* A step of the coordinator's own, seen from the file.
LEMMA CoordinatorMaps ==
  ASSUME PoolInv, SealedIsComplete', HandOut \/ Finish
  PROVE  File!FileNext \/ UNCHANGED File!fileVars
<1>1. CASE HandOut
  <2>1. /\ UNCHANGED <<next, used, freed>> /\ pc[Coordinator] = "idle"
        /\ pc'[Coordinator] \notin {"sealed", "refused"}
    BY <1>1, FileFacts, PoolAssumption DEF HandOut, BeginTree, Fork, Goto, Writers
  <2>2. SealState' = SealState
    BY <2>1 DEF SealState
  <2>3. QED BY <2>1, <2>2, FileStutters
<1>2. CASE FinishActive \/ FinishFailed
  <2>1. /\ UNCHANGED <<next, used, freed>> /\ pc[Coordinator] \in {"idle", "quiet"}
        /\ pc'[Coordinator] \in {"refused", "quiet", "closing"}
    BY <1>2, FileFacts DEF FinishActive, FinishFailed, Goto, shared
  <2>2. CASE pc'[Coordinator] = "refused"
    BY <2>1, <2>2, RefusalMaps DEF File!FileNext
  <2>3. CASE pc'[Coordinator] # "refused"
    <3>1. SealState' = SealState
      BY <2>1, <2>3 DEF SealState
    <3>2. QED BY <2>1, <3>1, FileStutters
  <2>4. QED BY <2>2, <2>3
<1>3. CASE FinishReturn
  BY <1>3, SealMaps DEF File!FileNext
<1>4. QED BY <1>1, <1>2, <1>3 DEF Finish

LEMMA FileNextMaps ==
  ASSUME PoolInv, SealedIsComplete', [Next]_vars
  PROVE  [File!FileNext]_(File!fileVars)
<1>1. CASE Next
  BY <1>1, SealedStops, ActMaps, CoordinatorMaps DEF Next
<1>2. CASE UNCHANGED vars
  <2>1. UNCHANGED <<next, used, freed, pc>>
    BY <1>2 DEF vars, shared, local
  <2>2. QED BY <2>1, FileStutters DEF SealState
<1>3. QED BY <1>1, <1>2

(* Whatever the threads do, the file behaves as PageFile promises: pages are *)
(* appended, filled at most once or freed at most once, and the file is      *)
(* sealed only when all of them are accounted for (BlockAllocator, append,   *)
(* return_tail, finish).                                                     *)
THEOREM PoolRefines == Spec => ImplementsPageFile
<1>1. Init => File!FileInit
  BY FileInitMaps
<1>2. PoolInv /\ SealedIsComplete' /\ [Next]_vars => [File!FileNext]_(File!fileVars)
  BY FileNextMaps
<1>3. QED
  BY <1>1, <1>2, PoolInvariant, SealedAccounts, PTL
     DEF Spec, ImplementsPageFile, File!FileSpec

=============================================================================
