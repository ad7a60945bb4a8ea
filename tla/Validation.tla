----------------------------- MODULE Validation -----------------------------
(***************************************************************************)
(* The validation of a finished database (native/validation.rs).  Workers  *)
(* with private connections take jobs from a shared counter: one walks     *)
(* every page pointer of the file, others run SQLite's check of one table  *)
(* or verify the foreign keys of one table, which for dense parents is a   *)
(* comparison with a range.  The first failure stops the others.           *)
(*                                                                         *)
(* SQLite's own checks are external: they know the records of a table and  *)
(* the rows of its parents, and may notice a damaged pointer or not.       *)
(***************************************************************************)
EXTENDS DatabaseFile, Integers

CONSTANTS Workers,   (* the threads: available_parallelism up to MAX_WORKERS *)
          Tables,    (* tables of sqlite_schema, in its order                *)
          Keys,      (* foreign keys of a table: parent, whether the parent  *)
                     (* column is a rowid alias, and place in its key        *)
          Databases, (* pairs of a file and its rows: ids of each parent,    *)
                     (* values of each key, tables with an unsound record    *)
          MaxDepth,  (* MAX_TREE_DEPTH                                       *)
          Payload,   (* the leaves a tree or chain page would name if it     *)
                     (* were read as a trunk; any more than TrunkSlots stand *)
                     (* for a number that is too large                       *)
          None

\* No tree is deeper than SQLite lets it be.
Shallow(im) ==
  \E depth \in [1 .. PageCount -> 0 .. MaxDepth - 1] :
    /\ \A i \in DOMAIN im.roots : depth[im.roots[i]] = 0
    /\ \A p \in 1 .. PageCount : im.content[p].kind = "tree" =>
         \A i \in DOMAIN im.content[p].children :
           depth[im.content[p].children[i]] = depth[p] + 1

ASSUME ValidationAssumption ==
  /\ Workers # {} /\ {d[1] : d \in Databases} = Images /\ MaxDepth \in Nat \ {0}
  /\ Tables \in Seq(DOMAIN Keys) /\ Range(Tables) \cup {"sqlite_schema"} = DOMAIN Keys
  /\ Payload \in [1 .. PageCount -> Seq(Nat)]
  /\ None \notin DOMAIN Keys \cup {"", "worker"}
  /\ \A im \in Images : Shallow(im)
  /\ \A d \in Databases : d[2].bad \subseteq DOMAIN Keys
  /\ \A d \in Databases : \A t \in DOMAIN Keys : \A k \in DOMAIN Keys[t] :
       /\ IsFiniteSet(d[2].ids[Keys[t][k].parent]) /\ d[2].ids[Keys[t][k].parent] \subseteq Int
       /\ \A v \in d[2].refs[t][k] : v[1] = "integer" => v[2] \in Int

VARIABLES
  db,       (* the rows                                                    *)
  phase,    (* "file", "check", "done"                                     *)
  jobs,     (* the list of jobs, fixed before the workers start            *)
  next,     (* the shared counter                                          *)
  pc,       (* what a worker does: "check", "take", "work" or "stopped"    *)
  job,      (* the job it has                                              *)
  walk,     (* the state of the ownership pass                             *)
  failed,   (* the first failure                                           *)
  broken,   (* threads that met an error of the system                     *)
  verdict   (* the result                                                  *)

vars == <<fileVars, db, phase, jobs, next, pc, job, walk, failed, broken, verdict>>
checkVars == <<db, phase, jobs, next, pc, job, walk, failed, broken, verdict>>

Greatest(S) == CHOOSE x \in S : \A y \in S : y <= x

-----------------------------------------------------------------------------
(* Foreign keys.  A value has a class and a number.                        *)

\* Mutation of IntegerDomain: the interval may have a gap.
AnyDomain(parent, alias) ==
  LET ids == db.ids[parent]
  IN  IF ~alias \/ ids = {} THEN None ELSE [min |-> Least(ids), max |-> Greatest(ids)]

\* The interval of the parent's ids, if it is a rowid alias without a gap.
IntegerDomain(parent, alias) ==
  LET ids == db.ids[parent]
  IN  IF ~alias \/ ids = {} \/ Greatest(ids) - Least(ids) + 1 # Cardinality(ids) THEN None
      ELSE [min |-> Least(ids), max |-> Greatest(ids)]

Native == <<>>

\* A range for each key of the table, or Native.
ForeignKeyPlan(table) ==
  LET keys    == Keys[table]
      domains == [k \in DOMAIN keys |-> IntegerDomain(keys[k].parent, keys[k].alias)]
  IN  IF \/ table \in {"node_property", "edge_property", "node", "label_group_member"}
         \/ keys = <<>> \/ \E k \in DOMAIN keys : keys[k].seq # 0 \/ domains[k] = None
      THEN Native ELSE domains

NeedsNative(table, plan) ==
  \/ plan = Native
  \/ \E k \in DOMAIN plan : \E v \in db.refs[table][k] :
       v[1] # "integer" \/ v[2] < plan[k].min \/ v[2] > plan[k].max

\* PRAGMA foreign_key_check: a value is NULL or names a row, also as a text or
\* a real, which the parent's column converts.
NativeHolds(table) ==
  \A k \in DOMAIN Keys[table] : \A v \in db.refs[table][k] :
    v[1] = "null" \/ v[2] \in db.ids[Keys[table][k].parent]

ForeignKeysHold(table, plan) == ~NeedsNative(table, plan) \/ NativeHolds(table)

-----------------------------------------------------------------------------
(* Page ownership.                                                         *)

\* mark: a page in range that was not marked before.
Mark(w, p) ==
  IF w.error \/ p \notin 1 .. PageCount \/ p \in w.marked THEN [w EXCEPT !.error = TRUE]
  ELSE [w EXCEPT !.marked = @ \cup {p}]

\* The first word of a page: that of a tree page is its type and more, no page; that
\* of a blank page is taken for 0, with which a chain may end there.
FirstWord(p) ==
  CASE content[p].kind \in {"chain", "trunk"} -> content[p].next
    [] content[p].kind = "tree"              -> PageCount + 1
    [] OTHER                                 -> 0

\* Pages one after the other.
MarkAll(w, pages) ==
  LET walked[i \in 0 .. Len(pages)] == IF i = 0 THEN w ELSE Mark(walked[i - 1], pages[i])
  IN  walked[Len(pages)]

\* One overflow chain: each page is marked and must lead on, the last one to 0.
WalkChain(w, overflow) ==
  LET after[i \in 0 .. overflow[2]] ==
        IF i = 0 THEN [walk |-> w, at |-> overflow[1]]
        ELSE LET at     == after[i - 1].at
                 marked == Mark(after[i - 1].walk, at)
             IN  IF marked.error THEN [walk |-> marked, at |-> 0]
                 ELSE [walk |-> [marked EXCEPT !.error = i = overflow[2] /\ FirstWord(at) # 0],
                       at   |-> FirstWord(at)]
  IN  after[overflow[2]].walk

WalkChains(w, overflows) ==
  LET walked[i \in 0 .. Len(overflows)] ==
        IF i = 0 THEN w ELSE WalkChain(walked[i - 1], overflows[i])
  IN  walked[Len(overflows)]

StartWalk ==
  LET w == [stage |-> "free", marked |-> {}, error |-> FALSE, trunk |-> header.first,
            free |-> 0, pending |-> <<>>, roots |-> image.roots]
  IN  IF Reserved \in 1 .. PageCount THEN Mark(w, Reserved) ELSE w

\* The leaves a page names as a trunk, whatever it is; a blank page names none.
Leaves(p) ==
  CASE content[p].kind = "trunk"            -> content[p].leaves
    [] content[p].kind \in {"tree", "chain"} -> Payload[p]
    [] OTHER                                -> <<>>

\* The leaves of the trunk, if they are not too many, and the next one. The pages are
\* counted in 32 bits, which suffice: each was marked.
ReadTrunk(w) ==
  LET leaves == Leaves(w.trunk)
  IN  IF Len(leaves) > TrunkSlots THEN [w EXCEPT !.error = TRUE]
      ELSE [MarkAll(w, leaves) EXCEPT !.free = @ + 1 + Len(leaves), !.trunk = FirstWord(w.trunk)]

\* Mutation of TakeTrunk: a trunk that was read before is passed, which is no error.
PassTrunk(w) ==
  IF w.trunk \in w.marked THEN [w EXCEPT !.trunk = FirstWord(w.trunk)]
  ELSE LET marked == Mark(w, w.trunk) IN IF marked.error THEN marked ELSE ReadTrunk(marked)

\* Nothing but its mark tells that a trunk was read before.
TakeTrunk(w) ==
  LET marked == Mark(w, w.trunk) IN IF marked.error THEN marked ELSE ReadTrunk(marked)

\* ownership_start: one trunk after the other, and at the end their count.
WalkTrunk(w) ==
  IF w.trunk = 0 THEN [w EXCEPT !.stage = "trees", !.error = w.free # header.free]
  ELSE TakeTrunk(w)

\* raw_page_ownership: the next page of the depth-first walk, or the next tree.
WalkPage(w) ==
  IF w.pending = <<>>
  THEN IF w.roots = <<>>
       THEN [w EXCEPT !.stage = "end", !.error = w.marked # 1 .. PageCount]
       ELSE [w EXCEPT !.pending = <<<<Head(w.roots), 0>>>>, !.roots = Tail(@)]
  ELSE LET page   == Head(w.pending)[1]
           depth  == Head(w.pending)[2]
           marked == Mark(w, page)
       IN  IF depth >= MaxDepth \/ marked.error \/ content[page].kind # "tree"
           THEN [w EXCEPT !.error = TRUE]
           ELSE LET tree == content[page]
                IN  [WalkChains(marked, tree.overflows) EXCEPT
                       !.pending = [i \in DOMAIN tree.children |-> <<tree.children[i], depth + 1>>]
                                     \o Tail(@)]

-----------------------------------------------------------------------------
Init ==
  /\ FileInit /\ db \in {d[2] : d \in {x \in Databases : x[1] = image}}
  /\ phase = "file" /\ jobs = <<>> /\ next = 1 /\ walk = None
  /\ pc = [w \in Workers |-> "check"] /\ job = [w \in Workers |-> None]
  /\ failed = None /\ broken = {} /\ verdict = None

\* PageWriter::finish and, later, damage.
Write == phase = "file" /\ (StartTrunks \/ WriteTrunk) /\ UNCHANGED checkVars
Harm  == phase = "file" /\ Damage /\ UNCHANGED checkVars

\* Without dbstat, ordinary pages or enough memory SQLite checks everything alone.
CheckNatively ==
  /\ phase = "file" /\ written = "written" /\ phase' = "done"
  /\ verdict' = IF /\ OwnershipSound /\ db.bad = {}
                   /\ \A t \in DOMAIN Keys : NativeHolds(t)
                THEN "ok" ELSE "error"
  /\ UNCHANGED <<fileVars, db, jobs, next, pc, job, walk, failed, broken>>

\* The tables of a list that are in a set, in the order of the list.
Only(list, S) ==
  LET only[i \in 0 .. Len(list)] ==
        IF i = 0 THEN <<>>
        ELSE IF list[i] \in S THEN Append(only[i - 1], list[i]) ELSE only[i - 1]
  IN  only[Len(list)]

WalkJob       == [kind |-> "walk", table |-> "", plan |-> Native]
CheckJobs(s)  == [i \in DOMAIN s |-> [kind |-> "table", table |-> s[i], plan |-> Native]]
VerifyJobs(s) == [i \in DOMAIN s |-> [kind |-> "keys", table |-> s[i], plan |-> ForeignKeyPlan(s[i])]]

\* The list of jobs: the walk, large tables, large foreign keys, the others.
Jobs ==
  LET every   == Append(Tables, "sqlite_schema")
      foreign == {t \in DOMAIN Keys : Keys[t] # <<>>}
      hot     == {"edge", "node_property", "edge_property"}
      busy    == {"edge", "node_property"}
  IN  <<WalkJob>>
        \o CheckJobs(Only(every, hot)) \o VerifyJobs(Only(every, foreign \cap busy))
        \o VerifyJobs(Only(every, foreign \ busy)) \o CheckJobs(Only(every, DOMAIN Keys \ hot))

StartWorkers ==
  /\ phase = "file" /\ written = "written" /\ phase' = "check"
  /\ jobs' = Jobs
  /\ UNCHANGED <<fileVars, db, next, pc, job, walk, failed, broken, verdict>>

\* A worker looks whether one has failed before it takes a job.
LookForFailure(w) ==
  /\ phase = "check" /\ pc[w] = "check"
  /\ pc' = [pc EXCEPT ![w] = IF failed # None THEN "stopped" ELSE "take"]
  /\ UNCHANGED <<fileVars, db, phase, jobs, next, job, walk, failed, broken, verdict>>

\* fetch_add.
Advance == next' = next + 1

TakeJob(w) ==
  /\ pc[w] = "take" /\ Advance
  /\ IF next > Len(jobs)
     THEN pc' = [pc EXCEPT ![w] = "stopped"] /\ UNCHANGED <<job, walk>>
     ELSE /\ pc' = [pc EXCEPT ![w] = "work"] /\ job' = [job EXCEPT ![w] = jobs[next]]
          /\ walk' = IF jobs[next].kind = "walk" THEN StartWalk ELSE walk
  /\ UNCHANGED <<fileVars, db, phase, jobs, failed, broken, verdict>>

\* A job is done, or it failed and its worker ends; the first failure is kept.
EndJob(w, holds) ==
  IF holds THEN pc' = [pc EXCEPT ![w] = "check"] /\ UNCHANGED failed
  ELSE /\ pc' = [pc EXCEPT ![w] = "stopped"]
       /\ failed' = IF failed = None THEN job[w].table ELSE failed

\* quick_check of a table; it may also stumble on a damaged pointer.
CheckTable(w) ==
  /\ pc[w] = "work" /\ job[w].kind = "table"
  /\ \E stumbles \in {FALSE, damaged} : EndJob(w, job[w].table \notin db.bad /\ ~stumbles)
  /\ UNCHANGED <<fileVars, db, phase, jobs, next, job, walk, broken, verdict>>

CheckKeys(w) ==
  /\ pc[w] = "work" /\ job[w].kind = "keys"
  /\ EndJob(w, ForeignKeysHold(job[w].table, job[w].plan))
  /\ UNCHANGED <<fileVars, db, phase, jobs, next, job, walk, broken, verdict>>

\* One page of the walk.
Walk(w) ==
  /\ pc[w] = "work" /\ job[w].kind = "walk"
  /\ IF walk.error \/ walk.stage = "end"
     THEN EndJob(w, ~walk.error) /\ UNCHANGED walk
     ELSE /\ walk' = IF walk.stage = "free" THEN WalkTrunk(walk) ELSE WalkPage(walk)
          /\ UNCHANGED <<pc, failed>>
  /\ UNCHANGED <<fileVars, db, phase, jobs, next, job, broken, verdict>>

\* Opening or reading the database fails, or a worker panics; a panic is only
\* seen when it is joined.
WorkerBreaks(w) ==
  /\ phase = "check" /\ pc[w] # "stopped"
  /\ pc' = [pc EXCEPT ![w] = "stopped"] /\ broken' = broken \cup {w}
  /\ failed' \in {failed, IF failed = None THEN "worker" ELSE failed}
  /\ UNCHANGED <<fileVars, db, phase, jobs, next, job, walk, verdict>>

\* Mutation of JoinWorkers: a panic is not turned into a failure.
JoinQuietly ==
  /\ phase = "check" /\ \A w \in Workers : pc[w] = "stopped"
  /\ phase' = "done" /\ verdict' = IF failed = None THEN "ok" ELSE "error"
  /\ UNCHANGED <<fileVars, db, jobs, next, pc, job, walk, failed, broken>>

JoinWorkers ==
  /\ phase = "check" /\ \A w \in Workers : pc[w] = "stopped"
  /\ phase' = "done"
  /\ verdict' = IF failed = None /\ broken = {} THEN "ok" ELSE "error"
  /\ UNCHANGED <<fileVars, db, jobs, next, pc, job, walk, failed, broken>>

Next == \/ Write \/ Harm \/ CheckNatively \/ StartWorkers \/ JoinWorkers
        \/ \E w \in Workers : \/ LookForFailure(w) \/ TakeJob(w) \/ CheckTable(w)
                              \/ CheckKeys(w) \/ Walk(w) \/ WorkerBreaks(w)

Spec == Init /\ [][Next]_vars

\* Threads that can run do run, and the file is closed and checked.
FairSpec ==
  /\ Spec /\ WF_vars(Write) /\ WF_vars(StartWorkers) /\ WF_vars(JoinWorkers)
  /\ \A w \in Workers :
       WF_vars(LookForFailure(w) \/ TakeJob(w) \/ CheckTable(w) \/ CheckKeys(w) \/ Walk(w))

-----------------------------------------------------------------------------
\* The freelist finish writes is complete: with the trees, it names every page
\* of the file once, whatever ranges were left over and whatever freelist there
\* was before ("free-page count mismatch", page_writer.rs 1079-1177).
FreelistComplete == written # "failed" /\ (written = "written" /\ ~damaged => OwnershipSound)

\* The workers accept a file exactly if every page has one owner, every table
\* is sound and every foreign key holds, whichever jobs ran when one failed;
\* an error of the system is never taken for a sound file (validation.rs
\* 613-810).
AcceptsSound ==
  LET sound == OwnershipSound /\ db.bad = {} /\ \A t \in DOMAIN Keys : NativeHolds(t)
  IN  phase = "done" => /\ verdict = "ok" => sound /\ broken = {}
                        /\ sound /\ broken = {} => verdict = "ok"

\* Comparing with a range never accepts foreign keys SQLite would refuse, with
\* gaps, NULLs and other storage classes (validation.rs 153-303).
ShortcutAgrees ==
  \A i \in DOMAIN jobs : jobs[i].kind = "keys" =>
    (ForeignKeysHold(jobs[i].table, jobs[i].plan) <=> NativeHolds(jobs[i].table))

\* Validation ends, also on a file whose damaged pointers form a cycle.
ValidationEnds == <>(phase = "done" \/ written = "failed")

-----------------------------------------------------------------------------
(* The inductive invariant behind the verdict of the workers.              *)

\* What a job was to find.
JobHolds(j) ==
  CASE j.kind = "walk"  -> walk.stage = "end" /\ ~walk.error
    [] j.kind = "table" -> j.table \notin db.bad
    [] j.kind = "keys"  -> ForeignKeysHold(j.table, j.plan)

OtherJobs == [kind : {"table"}, table : DOMAIN Keys, plan : {Native}]
               \cup {[kind |-> "keys", table |-> t, plan |-> ForeignKeyPlan(t)] : t \in DOMAIN Keys}

\* The walk comes first and only once; a plan is that of the rows as they are.
ListAt ==
  /\ \E d \in Databases : db = d[2]
  /\ jobs # <<>> => /\ jobs \in Seq({WalkJob} \cup OtherJobs) /\ jobs[1] = WalkJob
                    /\ \A i \in DOMAIN jobs : jobs[i] = WalkJob => i = 1

Working(w) == pc[w] = "work"

\* A job that was taken is being done, or was done, or something failed.
TakenAt ==
  /\ pc \in [Workers -> {"check", "take", "work", "stopped"}] /\ DOMAIN job = Workers
  /\ next \in Nat \ {0}
  /\ phase = "file" => /\ jobs = <<>> /\ next = 1 /\ failed = None /\ broken = {}
                       /\ \A w \in Workers : pc[w] = "check"
  /\ phase \in {"file", "check"} => verdict = None
  /\ phase = "check" => jobs # <<>>
  /\ phase # "check" => \A w \in Workers : pc[w] \in {"check", "stopped"}
  /\ \A w \in Workers : Working(w) => \E i \in DOMAIN jobs : i < next /\ job[w] = jobs[i]
  /\ \A v, w \in Workers : Working(v) /\ Working(w) /\ job[v] = WalkJob /\ job[w] = WalkJob => v = w
  /\ \A i \in DOMAIN jobs : i < next =>
       \/ failed # None \/ broken # {}
       \/ \E w \in Workers : Working(w) /\ job[w] = jobs[i]
       \/ JobHolds(jobs[i])
  /\ \A w \in Workers : pc[w] = "stopped" => failed # None \/ broken # {} \/ next > Len(jobs)

\* A failure has a reason that stays.
FailureAt ==
  failed # None => \/ broken # {} \/ damaged
                   \/ \E i \in DOMAIN jobs : jobs[i] # WalkJob /\ ~JobHolds(jobs[i])
                   \/ /\ next > 1 /\ ~JobHolds(WalkJob)
                      /\ \A w \in Workers : ~(Working(w) /\ job[w] = WalkJob)

\* The verdict of the workers, said of their jobs: it is "ok" only if every job of the
\* list was done and held, and an error has a reason.
VerdictAt ==
  phase = "done" /\ jobs # <<>> =>
    /\ verdict = "ok" => broken = {} /\ \A i \in DOMAIN jobs : JobHolds(jobs[i])
    /\ verdict # "ok" => \/ broken # {} \/ damaged
                         \/ \E i \in DOMAIN jobs : ~JobHolds(jobs[i])

ValidationInv == ListAt /\ TakenAt /\ FailureAt /\ VerdictAt

=============================================================================
