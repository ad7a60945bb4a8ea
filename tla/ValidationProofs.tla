-------------------------- MODULE ValidationProofs --------------------------
(***************************************************************************)
(* Machine-checked proofs about Validation.  For any pages left over, the   *)
(* freelist written into them names every one of them once.  For any        *)
(* tables, keys and rows, the comparison with a range decides what the      *)
(* complete check decides.  For any file with at most one damaged pointer,  *)
(* the walk ends without an error only if every page has one owner.  For    *)
(* any number of workers, however they divide the jobs and whichever of     *)
(* them fails, their verdict is that of their jobs, and "ok" exactly for a  *)
(* sound database.                                                          *)
(***************************************************************************)
EXTENDS Validation, FiniteSetTheorems, SequenceTheorems, WellFoundedInduction, TLAPS

-----------------------------------------------------------------------------
(* Induction.  The library's induction rule takes a predicate; the least    *)
(* element of a set of numbers does as well.                                *)

LEMMA LeastNatural ==
  ASSUME NEW S \in SUBSET Nat, S # {}
  PROVE  \E n \in S : \A m \in S : n <= m
<1>1. PICK x \in S : \A y \in S : ~(<<y, x>> \in OpToRel(<, Nat))
  BY NatLessThanWellFounded, WFMin
<1>2. \A y \in S : ~(y < x)
  BY <1>1 DEF OpToRel
<1>3. QED BY <1>2

\* Induction over the naturals, as a fact about a set: its least missing
\* number would follow one that is not missing.
LEMMA SetInduction ==
  ASSUME NEW S, 0 \in S, \A n \in Nat : n \in S => n + 1 \in S
  PROVE  Nat \subseteq S
<1> DEFINE T == {n \in Nat : n \notin S}
<1>1. CASE T # {}
  <2>1. PICK n \in T : \A m \in T : n <= m
    <3> HIDE DEF T
    <3>1. T \subseteq Nat
      BY DEF T
    <3>2. QED BY <1>1, <3>1, LeastNatural
  <2>2. n # 0 /\ n \in Nat
    OBVIOUS
  <2>3. n - 1 \in Nat /\ n - 1 \notin T
    BY <2>1, <2>2
  <2>4. n - 1 \in S
    BY <2>3
  <2>5. QED BY <2>2, <2>3, <2>4
<1>2. QED BY <1>1

-----------------------------------------------------------------------------
(* Foreign keys.                                                            *)

\* A finite set of integers has a greatest and a least member.
LEMMA FiniteExtremes ==
  ASSUME NEW S, S \subseteq Int, IsFiniteSet(S), S # {}
  PROVE  /\ Greatest(S) \in S /\ \A x \in S : x <= Greatest(S)
         /\ Least(S) \in S /\ \A x \in S : Least(S) <= x
<1> DEFINE HasBoth(T) == (\E x \in T : \A y \in T : y <= x) /\ (\E x \in T : \A y \in T : x <= y)
           Bad == {T \in FiniteSubsetsOf(S) : T # {} /\ ~HasBoth(T)}
<1>1. CASE Bad # {}
  <2>1. PICK T \in Bad : \A U \in Bad : ~(<<U, T>> \in StrictSubsetOrdering(S))
    <3>1. Bad \subseteq FiniteSubsetsOf(S)
      OBVIOUS
    <3> HIDE DEF Bad
    <3>2. QED BY <1>1, <3>1, FS_StrictSubsetOrderingWellFounded, WFMin, Zenon
  <2>2. T \subseteq S /\ IsFiniteSet(T) /\ T # {} /\ ~HasBoth(T)
    BY DEF FiniteSubsetsOf
  <2>3. PICK t : t \in T
    BY <2>2
  <2> DEFINE U == T \ {t}
  <2>4. U \subseteq S /\ IsFiniteSet(U) /\ U \subseteq T /\ U # T
    BY <2>2, <2>3, FS_RemoveElement
  <2>5. <<U, T>> \in StrictSubsetOrdering(S)
    BY <2>2, <2>4 DEF StrictSubsetOrdering
  <2>6. U \notin Bad
    BY <2>1, <2>5
  <2>7. CASE U = {}
    <3>1. T = {t} /\ t \in Int
      BY <2>2, <2>3, <2>7
    <3>2. QED BY <2>2, <3>1
  <2>8. CASE U # {}
    <3>1. HasBoth(U)
      BY <2>4, <2>6, <2>8 DEF FiniteSubsetsOf
    <3>2. PICK g \in U, l \in U : \A y \in U : y <= g /\ l <= y
      BY <3>1
    <3>3. g \in Int /\ l \in Int /\ t \in Int /\ U \subseteq Int /\ T = U \cup {t}
      BY <2>2, <2>3, <2>4
    <3>4. \E x \in T : \A y \in T : y <= x
      <4>1. CASE g <= t
        <5>1. \A y \in T : y <= t
          BY <3>2, <3>3, <4>1
        <5>2. QED BY <2>3, <5>1
      <4>2. CASE ~(g <= t)
        <5>1. \A y \in T : y <= g
          BY <3>2, <3>3, <4>2
        <5>2. QED BY <3>3, <5>1
      <4>3. QED BY <4>1, <4>2
    <3>5. \E x \in T : \A y \in T : x <= y
      <4>1. CASE t <= l
        <5>1. \A y \in T : t <= y
          BY <3>2, <3>3, <4>1
        <5>2. QED BY <2>3, <5>1
      <4>2. CASE ~(t <= l)
        <5>1. \A y \in T : l <= y
          BY <3>2, <3>3, <4>2
        <5>2. QED BY <3>3, <5>1
      <4>3. QED BY <4>1, <4>2
    <3>6. QED BY <2>2, <3>4, <3>5
  <2>9. QED BY <2>7, <2>8
<1>2. CASE Bad = {}
  <2>1. S \in FiniteSubsetsOf(S)
    BY DEF FiniteSubsetsOf
  <2>2. HasBoth(S)
    BY <1>2, <2>1
  <2>3. QED BY <2>2 DEF Greatest, Least
<1>3. QED BY <1>1, <1>2

\* IDs that are as many as their interval is long are the whole interval.
LEMMA DenseIds ==
  ASSUME NEW S, S \subseteq Int, IsFiniteSet(S), S # {},
         Greatest(S) - Least(S) + 1 = Cardinality(S)
  PROVE  S = Least(S) .. Greatest(S)
<1> DEFINE l == Least(S)
           g == Greatest(S)
<1>1. /\ g \in S /\ l \in S /\ g \in Int /\ l \in Int /\ l <= g
      /\ \A x \in S : l <= x /\ x <= g
  BY FiniteExtremes
<1>2. g - l + 1 = Cardinality(S)
  OBVIOUS
<1> HIDE DEF l, g
<1>3. S \subseteq l .. g
  BY <1>1
<1>4. IsFiniteSet(l .. g) /\ Cardinality(l .. g) = g - l + 1
  BY <1>1, FS_Interval
<1>5. S = l .. g
  BY <1>2, <1>3, <1>4, FS_Subset
<1>6. QED BY <1>5 DEF l, g

\* A plan of ranges accepts only what the complete check accepts.
LEMMA PlanExact ==
  ASSUME NEW d \in Databases, db = d[2], NEW t \in DOMAIN Keys
  PROVE  ForeignKeysHold(t, ForeignKeyPlan(t)) <=> NativeHolds(t)
<1> DEFINE keys == Keys[t]
           plan == ForeignKeyPlan(t)
           domains == [k \in DOMAIN keys |-> IntegerDomain(keys[k].parent, keys[k].alias)]
<1>1. SUFFICES ASSUME ~NeedsNative(t, plan)
               PROVE  NativeHolds(t)
  BY DEF ForeignKeysHold
<1>2. /\ plan # Native
      /\ \A k \in DOMAIN plan : \A v \in db.refs[t][k] :
           ~(v[1] # "integer" \/ v[2] < plan[k].min \/ v[2] > plan[k].max)
  BY <1>1 DEF NeedsNative
<1>3. plan = domains /\ \A k \in DOMAIN keys : domains[k] # None
  BY <1>2 DEF ForeignKeyPlan
<1>4. ASSUME NEW k \in DOMAIN Keys[t], NEW v \in db.refs[t][k]
      PROVE  v[2] \in db.ids[Keys[t][k].parent]
  <2> DEFINE ids == db.ids[Keys[t][k].parent]
  <2>1. domains[k] = IntegerDomain(keys[k].parent, keys[k].alias)
    BY <1>4
  <2>2. /\ ids # {} /\ Greatest(ids) - Least(ids) + 1 = Cardinality(ids)
        /\ domains[k] = [min |-> Least(ids), max |-> Greatest(ids)]
    BY <1>3, <1>4, <2>1 DEF IntegerDomain
  <2>3. IsFiniteSet(ids) /\ ids \subseteq Int /\ (v[1] = "integer" => v[2] \in Int)
    BY <1>4, ValidationAssumption
  <2>4. ids = Least(ids) .. Greatest(ids)
    <3> HIDE DEF ids
    <3>1. QED BY <2>2, <2>3, DenseIds
  <2>5. k \in DOMAIN plan /\ plan[k].min = Least(ids) /\ plan[k].max = Greatest(ids)
    BY <1>3, <2>2
  <2>6. v[1] = "integer" /\ ~(v[2] < Least(ids)) /\ ~(v[2] > Greatest(ids))
    BY <1>2, <1>4, <2>5
  <2>7. Least(ids) \in Int /\ Greatest(ids) \in Int
    <3> HIDE DEF ids
    <3>1. QED BY <2>2, <2>3, FiniteExtremes
  <2>8. v[2] \in Least(ids) .. Greatest(ids)
    <3> HIDE DEF ids
    <3>1. QED BY <2>3, <2>6, <2>7
  <2>9. QED BY <2>4, <2>8
<1>5. QED BY <1>4 DEF NativeHolds

-----------------------------------------------------------------------------
(* The list of jobs.                                                        *)

\* The recursive function of Only, up to the n-th element of the list.
OnlyUpTo(list, S, n, f) ==
  f = [i \in 0 .. n |-> IF i = 0 THEN <<>>
                        ELSE IF list[i] \in S THEN Append(f[i - 1], list[i]) ELSE f[i - 1]]

\* The recursive function of Only exists.
LEMMA OnlyExists ==
  ASSUME NEW list, NEW S
  PROVE  \A n \in Nat : \E f : OnlyUpTo(list, S, n, f)
<1> DEFINE T == {n \in Nat : \E f : OnlyUpTo(list, S, n, f)}
<1>1. 0 \in T
  <2> DEFINE f == [i \in 0 .. 0 |-> <<>>]
  <2>1. OnlyUpTo(list, S, 0, f)
    BY DEF OnlyUpTo
  <2> HIDE DEF f
  <2>2. QED BY <2>1
<1>2. ASSUME NEW n \in Nat, n \in T
      PROVE  n + 1 \in T
  <2>1. PICK f : OnlyUpTo(list, S, n, f)
    BY <1>2
  <2> DEFINE last == IF list[n + 1] \in S THEN Append(f[n], list[n + 1]) ELSE f[n]
             g == [i \in 0 .. n + 1 |-> IF i = n + 1 THEN last ELSE f[i]]
  <2>2. \A i \in 0 .. n : f[i] = IF i = 0 THEN <<>>
                                 ELSE IF list[i] \in S THEN Append(f[i - 1], list[i]) ELSE f[i - 1]
    BY <2>1 DEF OnlyUpTo
  <2>3. \A i \in 0 .. n : g[i] = f[i]
    OBVIOUS
  <2>4. g[n + 1] = last
    OBVIOUS
  <2>5. DOMAIN g = 0 .. n + 1 /\ g = [i \in 0 .. n + 1 |-> g[i]]
    OBVIOUS
  <2> HIDE DEF g
  <2>6. ASSUME NEW i \in 0 .. n + 1
        PROVE  g[i] = IF i = 0 THEN <<>>
                      ELSE IF list[i] \in S THEN Append(g[i - 1], list[i]) ELSE g[i - 1]
    <3>1. CASE i = n + 1
      BY <2>3, <2>4, <3>1
    <3>2. CASE i \in 0 .. n
      <4>1. i # 0 => i - 1 \in 0 .. n
        BY <3>2
      <4>2. QED BY <2>2, <2>3, <3>2, <4>1
    <3>3. QED BY <3>1, <3>2
  <2>7. OnlyUpTo(list, S, n + 1, g)
    BY <2>5, <2>6 DEF OnlyUpTo
  <2>8. QED BY <2>7
<1> HIDE DEF T
<1>3. Nat \subseteq T
  BY <1>1, <1>2, SetInduction
<1>4. QED BY <1>3 DEF T

\* Only keeps members of both.
LEMMA OnlyMembers ==
  ASSUME NEW A, NEW list \in Seq(A), NEW S
  PROVE  Only(list, S) \in Seq(A \cap S)
<1> DEFINE n == Len(list)
           only == CHOOSE f : f = [i \in 0 .. Len(list) |-> IF i = 0 THEN <<>>
                         ELSE IF list[i] \in S THEN Append(f[i - 1], list[i]) ELSE f[i - 1]]
<1>1. Only(list, S) = only[n]
  BY DEF Only
<1>2. n \in Nat /\ OnlyUpTo(list, S, n, only)
  <2>1. n \in Nat
    OBVIOUS
  <2>2. PICK f : OnlyUpTo(list, S, n, f)
    <3> HIDE DEF n
    <3>1. QED BY <2>1, OnlyExists
  <2>3. \E g : g = [i \in 0 .. Len(list) |-> IF i = 0 THEN <<>>
                         ELSE IF list[i] \in S THEN Append(g[i - 1], list[i]) ELSE g[i - 1]]
    BY <2>2, Zenon DEF OnlyUpTo
  <2>4. only = [i \in 0 .. Len(list) |-> IF i = 0 THEN <<>>
                         ELSE IF list[i] \in S THEN Append(only[i - 1], list[i]) ELSE only[i - 1]]
    BY <2>3, Zenon
  <2> HIDE DEF only
  <2>5. QED BY <2>1, <2>4, Zenon DEF OnlyUpTo
<1> DEFINE T == {k \in Nat : k <= n => only[k] \in Seq(A \cap S)}
<1> HIDE DEF only
<1>3. 0 \in T
  BY <1>2 DEF OnlyUpTo
<1>4. ASSUME NEW k \in Nat, k \in T
      PROVE  k + 1 \in T
  <2> SUFFICES ASSUME k + 1 <= n
               PROVE  only[k + 1] \in Seq(A \cap S)
    OBVIOUS
  <2>1. only[k] \in Seq(A \cap S)
    BY <1>2, <1>4
  <2>2. only[k + 1] = IF list[k + 1] \in S THEN Append(only[k], list[k + 1]) ELSE only[k]
    <3>1. k + 1 \in 0 .. n /\ k + 1 # 0 /\ (k + 1) - 1 = k
      BY <1>2
    <3>2. \A i \in 0 .. n : only[i] = IF i = 0 THEN <<>>
                         ELSE IF list[i] \in S THEN Append(only[i - 1], list[i]) ELSE only[i - 1]
      <4> HIDE DEF n
      <4>1. QED BY <1>2 DEF OnlyUpTo
    <3> HIDE DEF n
    <3>3. QED BY <3>1, <3>2
  <2>3. list[k + 1] \in A
    BY <1>2
  <2>4. QED BY <2>1, <2>2, <2>3
<1> HIDE DEF T
<1>5. Nat \subseteq T
  BY <1>3, <1>4, SetInduction
<1>6. QED BY <1>1, <1>2, <1>5 DEF T

\* The walk is the first job and the only one of its kind.
LEMMA JobList ==
  /\ Jobs \in Seq({WalkJob} \cup OtherJobs) /\ Jobs # <<>> /\ Jobs[1] = WalkJob
  /\ \A i \in DOMAIN Jobs : Jobs[i] = WalkJob => i = 1
<1> DEFINE every   == Append(Tables, "sqlite_schema")
           foreign == {t \in DOMAIN Keys : Keys[t] # <<>>}
           hot     == {"edge", "node_property", "edge_property"}
           busy    == {"edge", "node_property"}
           a == CheckJobs(Only(every, hot))
           b == VerifyJobs(Only(every, foreign \cap busy))
           c == VerifyJobs(Only(every, foreign \ busy))
           d == CheckJobs(Only(every, DOMAIN Keys \ hot))
<1>1. every \in Seq(DOMAIN Keys)
  <2>1. Tables \in Seq(DOMAIN Keys) /\ "sqlite_schema" \in DOMAIN Keys
    BY ValidationAssumption
  <2>2. QED BY <2>1
<1>2. \A S : Only(every, S) \in Seq(DOMAIN Keys)
  <2> HIDE DEF every
  <2>1. TAKE S
  <2>2. Only(every, S) \in Seq(DOMAIN Keys \cap S)
    BY <1>1, OnlyMembers
  <2>3. QED BY <2>2
<1>3. \A s \in Seq(DOMAIN Keys) : CheckJobs(s) \in Seq(OtherJobs) /\ VerifyJobs(s) \in Seq(OtherJobs)
  <2> SUFFICES ASSUME NEW s \in Seq(DOMAIN Keys)
               PROVE  CheckJobs(s) \in Seq(OtherJobs) /\ VerifyJobs(s) \in Seq(OtherJobs)
    OBVIOUS
  <2>1. DOMAIN s = 1 .. Len(s) /\ Len(s) \in Nat /\ \A i \in 1 .. Len(s) : s[i] \in DOMAIN Keys
    OBVIOUS
  <2>2. \A t \in DOMAIN Keys : /\ [kind |-> "table", table |-> t, plan |-> Native] \in OtherJobs
                               /\ [kind |-> "keys", table |-> t, plan |-> ForeignKeyPlan(t)] \in OtherJobs
    BY DEF OtherJobs
  <2>3. \A i \in 1 .. Len(s) : /\ [kind |-> "table", table |-> s[i], plan |-> Native] \in OtherJobs
                               /\ [kind |-> "keys", table |-> s[i], plan |-> ForeignKeyPlan(s[i])]
                                    \in OtherJobs
    BY <2>1, <2>2
  <2>4. CheckJobs(s) = [i \in 1 .. Len(s) |-> [kind |-> "table", table |-> s[i], plan |-> Native]]
    BY <2>1 DEF CheckJobs
  <2>5. VerifyJobs(s) = [i \in 1 .. Len(s) |->
                           [kind |-> "keys", table |-> s[i], plan |-> ForeignKeyPlan(s[i])]]
    BY <2>1 DEF VerifyJobs
  <2>6. CheckJobs(s) \in [1 .. Len(s) -> OtherJobs] /\ VerifyJobs(s) \in [1 .. Len(s) -> OtherJobs]
    BY <2>3, <2>4, <2>5
  <2>7. QED BY <2>1, <2>6, SMTT(30)
<1>4. a \in Seq(OtherJobs) /\ b \in Seq(OtherJobs) /\ c \in Seq(OtherJobs) /\ d \in Seq(OtherJobs)
  BY <1>2, <1>3, Zenon
<1>5. Jobs = <<WalkJob>> \o a \o b \o c \o d
  BY DEF Jobs
<1> HIDE DEF a, b, c, d
<1> DEFINE Good(s) == /\ s \in Seq({WalkJob} \cup OtherJobs) /\ Len(s) >= 1 /\ s[1] = WalkJob
                      /\ \A i \in 1 .. Len(s) : s[i] = WalkJob => i = 1
<1>6. WalkJob \notin OtherJobs
  BY DEF WalkJob, OtherJobs
<1>7. ASSUME NEW s, Good(s), NEW r \in Seq(OtherJobs)
      PROVE  Good(s \o r)
  <2>1. s \in Seq({WalkJob} \cup OtherJobs) /\ r \in Seq({WalkJob} \cup OtherJobs)
    BY <1>7
  <2>2. /\ s \o r \in Seq({WalkJob} \cup OtherJobs)
        /\ Len(s \o r) = Len(s) + Len(r)
        /\ \A i \in 1 .. Len(s) + Len(r) : (s \o r)[i] = IF i <= Len(s) THEN s[i] ELSE r[i - Len(s)]
    BY <2>1, ConcatProperties, Zenon
  <2>3. /\ Len(s) \in Nat /\ Len(r) \in Nat /\ Len(s) >= 1
        /\ \A i \in 1 .. Len(r) : r[i] \in OtherJobs
    BY <1>7
  <2> DEFINE u == s \o r
  <2> HIDE DEF u
  <2>4. Len(u) = Len(s) + Len(r) /\ u[1] = WalkJob /\ Len(u) >= 1
    <3>1. 1 \in 1 .. Len(s) + Len(r)
      BY <2>3
    <3>2. QED BY <1>7, <2>2, <2>3, <3>1 DEF u
  <2>5. ASSUME NEW i \in 1 .. Len(u), u[i] = WalkJob
        PROVE  i = 1
    <3>1. CASE i <= Len(s)
      <4>1. s[i] = WalkJob /\ i \in 1 .. Len(s)
        BY <2>2, <2>3, <2>4, <2>5, <3>1 DEF u
      <4>2. QED BY <1>7, <4>1
    <3>2. CASE ~(i <= Len(s))
      <4>1. i - Len(s) \in 1 .. Len(r) /\ u[i] = r[i - Len(s)]
        BY <2>2, <2>3, <2>4, <3>2 DEF u
      <4>2. QED BY <1>6, <2>3, <2>5, <4>1
    <3>3. QED BY <3>1, <3>2
  <2>6. u \in Seq({WalkJob} \cup OtherJobs)
    BY <2>2 DEF u
  <2>7. Good(u)
    BY <2>4, <2>5, <2>6
  <2>8. QED BY <2>7 DEF u
<1>8. Good(<<WalkJob>>)
  OBVIOUS
<1> DEFINE s1 == <<WalkJob>> \o a
           s2 == s1 \o b
           s3 == s2 \o c
           s4 == s3 \o d
<1>9. Good(s4)
  <2> HIDE DEF Good
  <2>1. Good(s1)
    BY <1>4, <1>7, <1>8
  <2> HIDE DEF s1
  <2>2. Good(s2)
    BY <1>4, <1>7, <2>1
  <2> HIDE DEF s2
  <2>3. Good(s3)
    BY <1>4, <1>7, <2>2
  <2> HIDE DEF s3
  <2>4. QED BY <1>4, <1>7, <2>3
<1>10. Jobs = s4
  BY <1>5
<1> HIDE DEF s4
<1>11. Good(Jobs)
  BY <1>9, <1>10
<1>12. QED BY <1>11

-----------------------------------------------------------------------------
(* The workers.                                                             *)

\* JobHolds with the rows d and the walk w.
Held(j, d, w) ==
  CASE j.kind = "walk"  -> w.stage = "end" /\ ~w.error
    [] j.kind = "table" -> j.table \notin d.bad
    [] j.kind = "keys"  ->
         \/ ~ \/ j.plan = Native
              \/ \E k \in DOMAIN j.plan : \E v \in d.refs[j.table][k] :
                   v[1] # "integer" \/ v[2] < j.plan[k].min \/ v[2] > j.plan[k].max
         \/ \A k \in DOMAIN Keys[j.table] : \A v \in d.refs[j.table][k] :
              v[1] = "null" \/ v[2] \in d.ids[Keys[j.table][k].parent]

\* The jobs that were taken, of the list s.
Taken(s, n, p, at, f, b, d, w) ==
  \A i \in DOMAIN s : i < n =>
    \/ f # None \/ b # {}
    \/ \E v \in Workers : p[v] = "work" /\ at[v] = s[i]
    \/ Held(s[i], d, w)

Reason(s, n, p, at, b, h, d, w) ==
  \/ b # {} \/ h
  \/ \E i \in DOMAIN s : s[i] # WalkJob /\ ~Held(s[i], d, w)
  \/ n > 1 /\ ~Held(WalkJob, d, w) /\ \A v \in Workers : ~(p[v] = "work" /\ at[v] = WalkJob)

\* What a job rests on: a job of a table on the rows alone, the walk on the
\* walk alone.
LEMMA HeldFacts ==
  /\ \A j, d, v, w : j.kind \in {"table", "keys"} => (Held(j, d, v) <=> Held(j, d, w))
  /\ \A j, d, w : j.kind = "walk" => (Held(j, d, w) <=> w.stage = "end" /\ ~w.error)
  /\ \A j, d, w : j.kind = "table" => (Held(j, d, w) <=> j.table \notin d.bad)
  /\ WalkJob.kind = "walk" /\ WalkJob.table = ""
<1>1. ASSUME NEW j, NEW d, NEW v, NEW w, j.kind \in {"table", "keys"}
      PROVE  Held(j, d, v) <=> Held(j, d, w)
  <2>1. CASE j.kind = "table"
    BY <2>1 DEF Held
  <2>2. CASE j.kind = "keys"
    BY <2>2 DEF Held
  <2>3. QED BY <1>1, <2>1, <2>2
<1>2. ASSUME NEW j, NEW d, NEW w
      PROVE  /\ j.kind = "walk" => (Held(j, d, w) <=> w.stage = "end" /\ ~w.error)
             /\ j.kind = "table" => (Held(j, d, w) <=> j.table \notin d.bad)
  BY DEF Held
<1>3. WalkJob.kind = "walk" /\ WalkJob.table = ""
  BY DEF WalkJob
<1>4. QED BY <1>1, <1>2, <1>3

\* JobHolds, TakenAt and FailureAt in terms of their parameters, before and
\* after a step.
LEMMA JobHoldsMeans ==
  /\ \A i : JobHolds(jobs[i]) <=> Held(jobs[i], db, walk)
  /\ JobHolds(WalkJob) <=> Held(WalkJob, db, walk)
BY DEF JobHolds, Held, ForeignKeysHold, NeedsNative, NativeHolds

LEMMA JobHoldsMeansNext ==
  /\ \A i : JobHolds(jobs[i])' <=> Held(jobs'[i], db', walk')
  /\ JobHolds(WalkJob)' <=> Held(WalkJob, db', walk')
BY DEF JobHolds, Held, ForeignKeysHold, NeedsNative, NativeHolds

\* The parts of TakenAt that are about the state of the workers.
Shape(ph, s, n, p, at, f, b, vd) ==
  /\ p \in [Workers -> {"check", "take", "work", "stopped"}] /\ n \in Nat \ {0}
  /\ ph = "file" => /\ s = <<>> /\ n = 1 /\ f = None /\ b = {}
                    /\ \A v \in Workers : p[v] = "check"
  /\ ph \in {"file", "check"} => vd = None
  /\ ph = "check" => s # <<>>
  /\ ph # "check" => \A v \in Workers : p[v] \in {"check", "stopped"}
  /\ DOMAIN at = Workers
  /\ \A v \in Workers : p[v] = "work" => \E i \in DOMAIN s : i < n /\ at[v] = s[i]
  /\ \A u, v \in Workers :
       p[u] = "work" /\ p[v] = "work" /\ at[u] = WalkJob /\ at[v] = WalkJob => u = v
  /\ \A v \in Workers : p[v] = "stopped" => f # None \/ b # {} \/ n > Len(s)

LEMMA TakenMeans ==
  TakenAt <=> /\ Shape(phase, jobs, next, pc, job, failed, broken, verdict)
              /\ Taken(jobs, next, pc, job, failed, broken, db, walk)
BY JobHoldsMeans, Zenon DEF TakenAt, Shape, Taken, Working

LEMMA TakenMeansNext ==
  TakenAt' <=> /\ Shape(phase', jobs', next', pc', job', failed', broken', verdict')
               /\ Taken(jobs', next', pc', job', failed', broken', db', walk')
BY JobHoldsMeansNext, Zenon DEF TakenAt, Shape, Taken, Working

LEMMA FailureMeans ==
  /\ FailureAt <=> (failed # None => Reason(jobs, next, pc, job, broken, damaged, db, walk))
  /\ FailureAt' <=> (failed' # None => Reason(jobs', next', pc', job', broken', damaged', db', walk'))
BY JobHoldsMeans, JobHoldsMeansNext, Zenon DEF FailureAt, Reason, Working

\* The members of the list.
LEMMA Listed ==
  ASSUME ListAt, NEW i \in DOMAIN jobs
  PROVE  /\ \/ jobs[i] = WalkJob /\ i = 1
            \/ jobs[i] \in OtherJobs
         /\ jobs[i].kind = "walk" <=> jobs[i] = WalkJob
         /\ jobs[i].kind = "walk" \/ jobs[i].kind \in {"table", "keys"}
         /\ jobs[i].table # None
         /\ jobs # <<>> /\ 1 \in DOMAIN jobs /\ jobs[1] = WalkJob
         /\ i \in Nat \ {0} /\ DOMAIN jobs = 1 .. Len(jobs) /\ Len(jobs) \in Nat
<1>1. jobs # <<>>
  OBVIOUS
<1>2. jobs \in Seq({WalkJob} \cup OtherJobs) /\ jobs[1] = WalkJob
  BY <1>1 DEF ListAt
<1>3. DOMAIN jobs = 1 .. Len(jobs) /\ Len(jobs) \in Nat
  BY <1>2
<1>4. \/ jobs[i] = WalkJob /\ i = 1
      \/ jobs[i] \in OtherJobs
  BY <1>1, <1>2, <1>3 DEF ListAt
<1>5. \A j \in OtherJobs : j.kind \in {"table", "keys"} /\ j.table \in DOMAIN Keys
  BY DEF OtherJobs
<1>6. /\ jobs[i].kind = "walk" <=> jobs[i] = WalkJob
      /\ jobs[i].kind = "walk" \/ jobs[i].kind \in {"table", "keys"}
  BY <1>4, <1>5, HeldFacts
<1>7. jobs[i].table # None
  BY <1>4, <1>5, HeldFacts, ValidationAssumption
<1>8. i \in Nat \ {0} /\ 1 \in DOMAIN jobs
  BY <1>3
<1>9. QED BY <1>1, <1>2, <1>3, <1>4, <1>6, <1>7, <1>8

\* What a step keeps that touches neither list nor verdict.
LEMMA ListStays ==
  ASSUME ListAt, UNCHANGED <<db, jobs>>
  PROVE  ListAt'
<1>1. OtherJobs' = OtherJobs
  BY DEF OtherJobs, ForeignKeyPlan, IntegerDomain
<1>2. QED BY <1>1 DEF ListAt

LEMMA VerdictStays ==
  ASSUME VerdictAt, UNCHANGED <<db, jobs, walk, phase, verdict, broken, damaged>>
  PROVE  VerdictAt'
BY JobHoldsMeans, JobHoldsMeansNext DEF VerdictAt

\* Steps before the workers start: nothing the invariant speaks of changes but the file.
LEMMA FileInv ==
  ASSUME ValidationInv, phase = "file", UNCHANGED checkVars
  PROVE  ValidationInv'
<1>1. UNCHANGED <<db, phase, jobs, next, pc, job, walk, failed, broken, verdict>>
  BY DEF checkVars
<1>2. ListAt'
  BY <1>1, ListStays DEF ValidationInv
<1>3. TakenAt'
  BY <1>1, TakenMeans, TakenMeansNext DEF ValidationInv
<1>4. failed = None
  BY DEF ValidationInv, TakenAt
<1>5. FailureAt' /\ VerdictAt'
  BY <1>1, <1>4 DEF FailureAt, VerdictAt
<1>6. QED BY <1>2, <1>3, <1>5 DEF ValidationInv

LEMMA CheckNativelyInv ==
  ASSUME ValidationInv, CheckNatively
  PROVE  ValidationInv'
<1>1. /\ phase = "file" /\ phase' = "done"
      /\ UNCHANGED <<db, jobs, next, pc, job, walk, failed, broken, damaged>>
  BY DEF CheckNatively, fileVars
<1>2. /\ jobs = <<>> /\ failed = None
      /\ Shape(phase, jobs, next, pc, job, failed, broken, verdict)
      /\ Taken(jobs, next, pc, job, failed, broken, db, walk)
  BY <1>1, TakenMeans DEF ValidationInv, TakenAt
<1>3. ListAt'
  BY <1>1, ListStays DEF ValidationInv
<1>4. Shape(phase', jobs', next', pc', job', failed', broken', verdict')
  BY <1>1, <1>2 DEF Shape
<1>5. TakenAt'
  BY <1>1, <1>2, <1>4, TakenMeansNext
<1>6. FailureAt' /\ VerdictAt'
  BY <1>1, <1>2 DEF FailureAt, VerdictAt
<1>7. QED BY <1>3, <1>5, <1>6 DEF ValidationInv

LEMMA StartWorkersInv ==
  ASSUME ValidationInv, StartWorkers
  PROVE  ValidationInv'
<1>1. /\ phase = "file" /\ phase' = "check" /\ jobs' = Jobs
      /\ UNCHANGED <<db, next, pc, job, walk, failed, broken, verdict, damaged>>
  BY DEF StartWorkers, fileVars
<1>2. /\ next = 1 /\ failed = None /\ verdict = None
      /\ Shape(phase, jobs, next, pc, job, failed, broken, verdict)
  BY <1>1, TakenMeans DEF ValidationInv, TakenAt
<1>3. ListAt'
  <2>1. OtherJobs' = OtherJobs
    BY <1>1 DEF OtherJobs, ForeignKeyPlan, IntegerDomain
  <2>2. \E d \in Databases : db' = d[2]
    BY <1>1 DEF ValidationInv, ListAt
  <2>3. QED BY <1>1, <2>1, <2>2, JobList DEF ListAt
<1>4. DOMAIN jobs' \subseteq Nat \ {0}
  BY <1>1, JobList
<1>5. Shape(phase', jobs', next', pc', job', failed', broken', verdict')
  BY <1>1, <1>2, JobList DEF Shape
<1>6. Taken(jobs', next', pc', job', failed', broken', db', walk')
  BY <1>1, <1>2, <1>4 DEF Taken
<1>7. FailureAt' /\ VerdictAt'
  BY <1>1, <1>2 DEF FailureAt, VerdictAt
<1>8. QED BY <1>3, <1>5, <1>6, <1>7, TakenMeansNext DEF ValidationInv

LEMMA LookForFailureInv ==
  ASSUME ValidationInv, NEW w \in Workers, LookForFailure(w)
  PROVE  ValidationInv'
<1>1. /\ phase = "check" /\ pc[w] = "check"
      /\ pc' = [pc EXCEPT ![w] = IF failed # None THEN "stopped" ELSE "take"]
      /\ UNCHANGED <<db, phase, jobs, next, job, walk, failed, broken, verdict, damaged>>
  BY DEF LookForFailure, fileVars
<1>2. /\ ListAt /\ FailureAt /\ VerdictAt
      /\ Shape(phase, jobs, next, pc, job, failed, broken, verdict)
      /\ Taken(jobs, next, pc, job, failed, broken, db, walk)
  BY TakenMeans DEF ValidationInv
<1>3. \A v \in Workers : pc'[v] = "work" <=> pc[v] = "work"
  BY <1>1, <1>2 DEF Shape
<1>4. \A v \in Workers : pc'[v] = "stopped" => pc[v] = "stopped" \/ failed # None
  BY <1>1, <1>2 DEF Shape
<1>5. Shape(phase', jobs', next', pc', job', failed', broken', verdict')
  <2>1. pc' \in [Workers -> {"check", "take", "work", "stopped"}]
    BY <1>1, <1>2 DEF Shape
  <2>2. QED BY <1>1, <1>2, <1>3, <1>4, <2>1 DEF Shape
<1>6. Taken(jobs', next', pc', job', failed', broken', db', walk')
  BY <1>1, <1>2, <1>3 DEF Taken
<1>7. FailureAt'
  <2>1. failed # None => Reason(jobs, next, pc, job, broken, damaged, db, walk)
    BY <1>2, FailureMeans
  <2>2. failed # None => Reason(jobs', next', pc', job', broken', damaged', db', walk')
    BY <1>1, <1>3, <2>1 DEF Reason
  <2>3. QED BY <1>1, <2>2, FailureMeans
<1>8. ListAt' /\ VerdictAt'
  BY <1>1, <1>2, ListStays, VerdictStays
<1>9. QED BY <1>5, <1>6, <1>7, <1>8, TakenMeansNext DEF ValidationInv

LEMMA TakeJobInv ==
  ASSUME ValidationInv, NEW w \in Workers, TakeJob(w)
  PROVE  ValidationInv'
<1>1. /\ pc[w] = "take" /\ next' = next + 1
      /\ UNCHANGED <<db, phase, jobs, failed, broken, verdict, damaged>>
  BY DEF TakeJob, fileVars, Advance
<1>2. /\ ListAt /\ FailureAt /\ VerdictAt
      /\ Shape(phase, jobs, next, pc, job, failed, broken, verdict)
      /\ Taken(jobs, next, pc, job, failed, broken, db, walk)
  BY TakenMeans DEF ValidationInv
<1>3. phase = "check" /\ jobs # <<>> /\ next \in Nat \ {0}
  <2>1. phase = "check"
    BY <1>1, <1>2 DEF Shape
  <2>2. QED BY <1>2, <2>1 DEF Shape
<1>4. DOMAIN jobs = 1 .. Len(jobs) /\ Len(jobs) \in Nat
  BY <1>2, <1>3 DEF ListAt
<1>5. failed # None => Reason(jobs, next, pc, job, broken, damaged, db, walk)
  BY <1>2, FailureMeans
<1>6. ListAt'
  BY <1>1, <1>2, ListStays
<1>7. VerdictAt'
  BY <1>1, <1>3 DEF VerdictAt
<1>8. CASE next > Len(jobs)
  <2>1. pc' = [pc EXCEPT ![w] = "stopped"] /\ UNCHANGED <<job, walk>>
    BY <1>8 DEF TakeJob
  <2>2. \A v \in Workers : pc'[v] = "work" <=> pc[v] = "work"
    BY <1>1, <1>2, <2>1 DEF Shape
  <2>3. pc' \in [Workers -> {"check", "take", "work", "stopped"}]
    BY <1>2, <2>1 DEF Shape
  <2>4. next' > Len(jobs) /\ next' \in Nat \ {0} /\ \A i \in DOMAIN jobs : i < next /\ i < next'
    BY <1>1, <1>3, <1>4, <1>8
  <2>5. Shape(phase', jobs', next', pc', job', failed', broken', verdict')
    BY <1>1, <1>2, <1>3, <2>1, <2>2, <2>3, <2>4 DEF Shape
  <2>6. Taken(jobs', next', pc', job', failed', broken', db', walk')
    BY <1>1, <1>2, <2>1, <2>2, <2>4 DEF Taken
  <2>7. failed # None => Reason(jobs', next', pc', job', broken', damaged', db', walk')
    <3>1. next > 1 => next' > 1
      BY <1>1, <1>3
    <3>2. QED BY <1>1, <1>5, <2>1, <2>2, <3>1 DEF Reason
  <2>8. QED BY <1>1, <1>6, <1>7, <2>5, <2>6, <2>7, TakenMeansNext, FailureMeans DEF ValidationInv
<1>9. CASE ~(next > Len(jobs))
  <2>1. /\ pc' = [pc EXCEPT ![w] = "work"] /\ job' = [job EXCEPT ![w] = jobs[next]]
        /\ walk' = IF jobs[next].kind = "walk" THEN StartWalk ELSE walk
    BY <1>9 DEF TakeJob
  <2>2. next \in DOMAIN jobs
    BY <1>3, <1>4, <1>9
  <2>3. /\ jobs[next] = WalkJob <=> next = 1
        /\ jobs[next].kind = "walk" <=> jobs[next] = WalkJob
    BY <1>2, <2>2, Listed DEF ListAt
  <2>4. next # 1 => walk' = walk
    BY <2>1, <2>3
  <2>5. /\ DOMAIN job' = Workers
        /\ \A v \in Workers \ {w} : pc'[v] = pc[v] /\ job'[v] = job[v]
        /\ pc'[w] = "work"
        /\ pc' \in [Workers -> {"check", "take", "work", "stopped"}]
    BY <1>2, <2>1 DEF Shape
  <2>6. next' \in Nat \ {0} /\ \A i \in DOMAIN jobs : i < next' <=> i < next \/ i = next
    BY <1>1, <1>3, <1>4
  <2>7. job'[w] = jobs[next]
    <3>1. DOMAIN job = Workers
      BY <1>2 DEF Shape
    <3>2. QED BY <2>1, <3>1
  <2>8. Shape(phase', jobs', next', pc', job', failed', broken', verdict')
    <3>1. \A v \in Workers : pc'[v] = "work" => \E i \in DOMAIN jobs : i < next' /\ job'[v] = jobs[i]
      BY <1>1, <1>2, <2>2, <2>5, <2>6, <2>7 DEF Shape
    <3>2. \A u, v \in Workers : pc'[u] = "work" /\ pc'[v] = "work" /\ job'[u] = WalkJob
                                  /\ job'[v] = WalkJob => u = v
      <4>1. ASSUME NEW v \in Workers \ {w}, pc'[v] = "work", job'[v] = WalkJob, jobs[next] = WalkJob
            PROVE  FALSE
        <5>1. next = 1 /\ pc[v] = "work"
          BY <2>3, <2>5, <4>1
        <5>2. QED BY <1>2, <1>4, <5>1 DEF Shape
      <4>2. QED BY <1>2, <2>5, <2>7, <4>1 DEF Shape
    <3>3. \A v \in Workers : pc'[v] = "stopped" => failed # None \/ broken # {} \/ next' > Len(jobs)
      <4>1. next > Len(jobs) => next' > Len(jobs)
        BY <1>1, <1>3, <1>4
      <4>2. QED BY <1>2, <2>5, <4>1 DEF Shape
    <3>4. QED BY <1>1, <1>2, <1>3, <2>5, <2>6, <3>1, <3>2, <3>3 DEF Shape
  <2>9. Taken(jobs', next', pc', job', failed', broken', db', walk')
    <3>1. ASSUME NEW i \in DOMAIN jobs, i < next
          PROVE  \/ failed # None \/ broken # {}
                 \/ \E v \in Workers : pc'[v] = "work" /\ job'[v] = jobs[i]
                 \/ Held(jobs[i], db, walk')
      <4>1. next # 1
        BY <1>4, <3>1
      <4>2. \/ failed # None \/ broken # {}
            \/ \E v \in Workers : pc[v] = "work" /\ job[v] = jobs[i]
            \/ Held(jobs[i], db, walk)
        BY <1>2, <3>1 DEF Taken
      <4>3. \A v \in Workers : pc[v] = "work" => pc'[v] = "work" /\ job'[v] = job[v]
        BY <1>1, <2>5
      <4>4. walk' = walk
        BY <2>4, <4>1
      <4>5. CASE \E v \in Workers : pc[v] = "work" /\ job[v] = jobs[i]
        BY <4>3, <4>5
      <4>6. QED BY <4>2, <4>4, <4>5
    <3>2. QED BY <1>1, <2>5, <2>6, <2>7, <3>1 DEF Taken
  <2>10. failed # None => Reason(jobs', next', pc', job', broken', damaged', db', walk')
    <3>1. CASE \E i \in DOMAIN jobs : jobs[i] # WalkJob /\ ~Held(jobs[i], db, walk)
      <4>1. PICK i \in DOMAIN jobs : jobs[i] # WalkJob /\ ~Held(jobs[i], db, walk)
        BY <3>1
      <4>2. jobs[i].kind \in {"table", "keys"}
        BY <1>2, <4>1, Listed
      <4>3. ~Held(jobs[i], db, walk')
        BY <4>1, <4>2, HeldFacts
      <4>4. QED BY <1>1, <4>1, <4>3 DEF Reason
    <3>2. CASE /\ next > 1 /\ ~Held(WalkJob, db, walk)
               /\ \A v \in Workers : ~(pc[v] = "work" /\ job[v] = WalkJob)
      <4>1. next' > 1 /\ walk' = walk /\ jobs[next] # WalkJob
        BY <1>1, <1>3, <2>3, <2>4, <3>2
      <4>2. \A v \in Workers : ~(pc'[v] = "work" /\ job'[v] = WalkJob)
        BY <2>5, <2>7, <3>2, <4>1
      <4>3. QED BY <1>1, <3>2, <4>1, <4>2 DEF Reason
    <3>3. CASE broken # {} \/ damaged
      BY <1>1, <3>3 DEF Reason
    <3>4. QED BY <1>5, <3>1, <3>2, <3>3 DEF Reason
  <2>11. QED BY <1>1, <1>6, <1>7, <2>8, <2>9, <2>10, TakenMeansNext, FailureMeans DEF ValidationInv
<1>10. QED BY <1>8, <1>9

\* A worker that has a job works on one of the list.
LEMMA AtWork ==
  ASSUME ValidationInv, NEW w \in Workers, pc[w] = "work"
  PROVE  /\ phase = "check" /\ jobs # <<>> /\ next > 1 /\ next \in Nat
         /\ \E i \in DOMAIN jobs : i < next /\ job[w] = jobs[i]
         /\ job[w].kind = "walk" <=> job[w] = WalkJob
         /\ job[w].kind = "walk" \/ job[w].kind \in {"table", "keys"}
         /\ job[w].table # None
         /\ ListAt /\ FailureAt /\ VerdictAt
         /\ Shape(phase, jobs, next, pc, job, failed, broken, verdict)
         /\ Taken(jobs, next, pc, job, failed, broken, db, walk)
<1>1. /\ ListAt /\ FailureAt /\ VerdictAt
      /\ Shape(phase, jobs, next, pc, job, failed, broken, verdict)
      /\ Taken(jobs, next, pc, job, failed, broken, db, walk)
  BY TakenMeans DEF ValidationInv
<1>2. phase = "check"
  BY <1>1 DEF Shape
<1>3. PICK i \in DOMAIN jobs : i < next /\ job[w] = jobs[i]
  BY <1>1 DEF Shape
<1>4. jobs # <<>> /\ next \in Nat
  BY <1>1, <1>2 DEF Shape
<1>5. next > 1
  BY <1>1, <1>3, <1>4, Listed
<1>6. QED BY <1>1, <1>2, <1>3, <1>4, <1>5, Listed

\* A worker ends a job that holds.
LEMMA JobDone ==
  ASSUME ValidationInv, NEW w \in Workers, pc[w] = "work",
         pc' = [pc EXCEPT ![w] = "check"], Held(job[w], db, walk),
         UNCHANGED <<db, phase, jobs, next, job, walk, failed, broken, verdict, damaged>>
  PROVE  ValidationInv'
<1>1. /\ phase = "check" /\ ListAt /\ FailureAt /\ VerdictAt
      /\ Shape(phase, jobs, next, pc, job, failed, broken, verdict)
      /\ Taken(jobs, next, pc, job, failed, broken, db, walk)
  BY AtWork
<1>2. /\ \A v \in Workers : pc'[v] = "work" <=> v # w /\ pc[v] = "work"
      /\ \A v \in Workers : pc'[v] = "stopped" => pc[v] = "stopped"
      /\ pc' \in [Workers -> {"check", "take", "work", "stopped"}]
  BY <1>1 DEF Shape
<1>3. Shape(phase', jobs', next', pc', job', failed', broken', verdict')
  BY <1>1, <1>2 DEF Shape
<1>4. Taken(jobs', next', pc', job', failed', broken', db', walk')
  <2>1. ASSUME NEW i \in DOMAIN jobs, i < next, failed = None, broken = {}
        PROVE  \/ \E v \in Workers : pc'[v] = "work" /\ job[v] = jobs[i]
               \/ Held(jobs[i], db, walk)
    <3>1. \/ \E v \in Workers : pc[v] = "work" /\ job[v] = jobs[i]
          \/ Held(jobs[i], db, walk)
      BY <1>1, <2>1 DEF Taken
    <3>2. CASE job[w] = jobs[i]
      BY <3>2
    <3>3. CASE \E v \in Workers \ {w} : pc[v] = "work" /\ job[v] = jobs[i]
      BY <1>2, <3>3
    <3>4. QED BY <3>1, <3>2, <3>3
  <2>2. QED BY <2>1 DEF Taken
<1>5. FailureAt'
  <2>1. failed # None => Reason(jobs, next, pc, job, broken, damaged, db, walk)
    BY <1>1, FailureMeans
  <2>2. failed # None => Reason(jobs', next', pc', job', broken', damaged', db', walk')
    BY <1>2, <2>1 DEF Reason
  <2>3. QED BY <2>2, FailureMeans
<1>6. ListAt' /\ VerdictAt'
  BY <1>1, ListStays, VerdictStays
<1>7. QED BY <1>3, <1>4, <1>5, <1>6, TakenMeansNext DEF ValidationInv

\* A worker ends because its job does not hold.
LEMMA JobFailed ==
  ASSUME ValidationInv, NEW w \in Workers, pc[w] = "work",
         pc' = [pc EXCEPT ![w] = "stopped"],
         failed' = IF failed = None THEN job[w].table ELSE failed,
         damaged \/ ~Held(job[w], db, walk),
         UNCHANGED <<db, phase, jobs, next, job, walk, broken, verdict, damaged>>
  PROVE  ValidationInv'
<1>1. /\ phase = "check" /\ ListAt /\ FailureAt /\ VerdictAt /\ next > 1
      /\ Shape(phase, jobs, next, pc, job, failed, broken, verdict)
      /\ Taken(jobs, next, pc, job, failed, broken, db, walk)
      /\ job[w].table # None
  BY AtWork
<1>2. /\ \A v \in Workers : pc'[v] = "work" <=> v # w /\ pc[v] = "work"
      /\ pc' \in [Workers -> {"check", "take", "work", "stopped"}]
  BY <1>1 DEF Shape
<1>3. failed' # None
  BY <1>1
<1>4. Shape(phase', jobs', next', pc', job', failed', broken', verdict')
  BY <1>1, <1>2, <1>3 DEF Shape
<1>5. Taken(jobs', next', pc', job', failed', broken', db', walk')
  BY <1>3 DEF Taken
<1>6. Reason(jobs', next', pc', job', broken', damaged', db', walk')
  <2>1. CASE job[w] = WalkJob /\ ~Held(job[w], db, walk)
    <3>1. \A v \in Workers : ~(pc'[v] = "work" /\ job'[v] = WalkJob)
      BY <1>1, <1>2, <2>1 DEF Shape
    <3>2. QED BY <1>1, <2>1, <3>1 DEF Reason
  <2>2. CASE job[w] # WalkJob /\ ~Held(job[w], db, walk)
    <3>1. PICK i \in DOMAIN jobs : i < next /\ job[w] = jobs[i]
      BY AtWork
    <3>2. QED BY <2>2, <3>1 DEF Reason
  <2>3. CASE damaged
    BY <2>3 DEF Reason
  <2>4. QED BY <2>1, <2>2, <2>3
<1>7. ListAt' /\ FailureAt' /\ VerdictAt'
  BY <1>1, <1>6, ListStays, VerdictStays, FailureMeans
<1>8. VerdictAt'
  BY <1>1 DEF VerdictAt
<1>9. QED BY <1>4, <1>5, <1>7, <1>8, TakenMeansNext DEF ValidationInv

LEMMA CheckTableInv ==
  ASSUME ValidationInv, NEW w \in Workers, CheckTable(w)
  PROVE  ValidationInv'
<1>1. /\ pc[w] = "work" /\ job[w].kind = "table"
      /\ UNCHANGED <<db, phase, jobs, next, job, walk, broken, verdict, damaged>>
  BY DEF CheckTable, fileVars
<1>2. Held(job[w], db, walk) <=> job[w].table \notin db.bad
  BY <1>1, HeldFacts
<1>3. PICK stumbles \in {FALSE, damaged} : EndJob(w, job[w].table \notin db.bad /\ ~stumbles)
  BY DEF CheckTable
<1>4. CASE job[w].table \notin db.bad /\ ~stumbles
  <2>1. pc' = [pc EXCEPT ![w] = "check"] /\ failed' = failed
    BY <1>3, <1>4, Zenon DEF EndJob
  <2>2. QED BY <1>1, <1>2, <1>4, <2>1, JobDone
<1>5. CASE ~(job[w].table \notin db.bad /\ ~stumbles)
  <2>1. /\ pc' = [pc EXCEPT ![w] = "stopped"]
        /\ failed' = IF failed = None THEN job[w].table ELSE failed
    BY <1>3, <1>5, Zenon DEF EndJob
  <2>2. stumbles => damaged
    BY <1>3, Zenon
  <2>3. damaged \/ ~Held(job[w], db, walk)
    BY <1>2, <1>5, <2>2, Zenon
  <2>4. QED BY <1>1, <2>1, <2>3, JobFailed
<1>6. QED BY <1>4, <1>5

LEMMA CheckKeysInv ==
  ASSUME ValidationInv, NEW w \in Workers, CheckKeys(w)
  PROVE  ValidationInv'
<1>1. /\ pc[w] = "work" /\ job[w].kind = "keys"
      /\ UNCHANGED <<db, phase, jobs, next, job, walk, broken, verdict, damaged>>
      /\ EndJob(w, ForeignKeysHold(job[w].table, job[w].plan))
  BY DEF CheckKeys, fileVars
<1>2. Held(job[w], db, walk) <=> ForeignKeysHold(job[w].table, job[w].plan)
  BY <1>1 DEF Held, ForeignKeysHold, NeedsNative, NativeHolds
<1>3. CASE ForeignKeysHold(job[w].table, job[w].plan)
  <2>1. pc' = [pc EXCEPT ![w] = "check"] /\ failed' = failed
    BY <1>1, <1>3, Zenon DEF EndJob
  <2>2. QED BY <1>1, <1>2, <1>3, <2>1, JobDone
<1>4. CASE ~ForeignKeysHold(job[w].table, job[w].plan)
  <2>1. /\ pc' = [pc EXCEPT ![w] = "stopped"]
        /\ failed' = IF failed = None THEN job[w].table ELSE failed
    BY <1>1, <1>4, Zenon DEF EndJob
  <2>2. QED BY <1>1, <1>2, <1>4, <2>1, JobFailed
<1>5. QED BY <1>3, <1>4

LEMMA WalkInv ==
  ASSUME ValidationInv, NEW w \in Workers, Walk(w)
  PROVE  ValidationInv'
<1>1. /\ pc[w] = "work" /\ job[w].kind = "walk"
      /\ UNCHANGED <<db, phase, jobs, next, job, broken, verdict, damaged>>
  BY DEF Walk, fileVars
<1>2. Held(job[w], db, walk) <=> walk.stage = "end" /\ ~walk.error
  BY <1>1, HeldFacts
<1>3. CASE walk.error \/ walk.stage = "end"
  <2>1. EndJob(w, ~walk.error) /\ walk' = walk
    BY <1>3, Zenon DEF Walk
  <2>2. CASE walk.error
    <3>1. /\ pc' = [pc EXCEPT ![w] = "stopped"]
          /\ failed' = IF failed = None THEN job[w].table ELSE failed
      BY <2>1, <2>2, Zenon DEF EndJob
    <3>2. QED BY <1>1, <1>2, <2>1, <2>2, <3>1, JobFailed
  <2>3. CASE ~walk.error
    <3>1. pc' = [pc EXCEPT ![w] = "check"] /\ failed' = failed
      BY <2>1, <2>3, Zenon DEF EndJob
    <3>2. QED BY <1>1, <1>2, <1>3, <2>1, <2>3, <3>1, JobDone
  <2>4. QED BY <2>2, <2>3
<1>4. CASE ~(walk.error \/ walk.stage = "end")
  <2>1. UNCHANGED <<pc, failed>>
    BY <1>4, Zenon DEF Walk
  <2>2. /\ phase = "check" /\ ListAt /\ FailureAt /\ VerdictAt /\ job[w] = WalkJob
        /\ Shape(phase, jobs, next, pc, job, failed, broken, verdict)
        /\ Taken(jobs, next, pc, job, failed, broken, db, walk)
    BY <1>1, AtWork
  <2>3. Shape(phase', jobs', next', pc', job', failed', broken', verdict')
    BY <1>1, <2>1, <2>2
  <2>4. \A i \in DOMAIN jobs :
          \/ jobs[i] = WalkJob
          \/ Held(jobs[i], db, walk') <=> Held(jobs[i], db, walk)
    <3>1. ASSUME NEW i \in DOMAIN jobs, jobs[i] # WalkJob
          PROVE  Held(jobs[i], db, walk') <=> Held(jobs[i], db, walk)
      <4>1. jobs[i].kind \in {"table", "keys"}
        BY <2>2, <3>1, Listed
      <4>2. QED BY <4>1, HeldFacts
    <3>2. QED BY <3>1
  <2>5. Taken(jobs', next', pc', job', failed', broken', db', walk')
    <3>1. ASSUME NEW i \in DOMAIN jobs, i < next
          PROVE  \/ failed # None \/ broken # {}
                 \/ \E v \in Workers : pc[v] = "work" /\ job[v] = jobs[i]
                 \/ Held(jobs[i], db, walk')
      BY <1>1, <2>2, <2>4, <3>1 DEF Taken
    <3>2. QED BY <1>1, <2>1, <3>1 DEF Taken
  <2>6. FailureAt'
    <3>1. failed # None => Reason(jobs, next, pc, job, broken, damaged, db, walk)
      BY <2>2, FailureMeans
    <3>2. failed # None => Reason(jobs', next', pc', job', broken', damaged', db', walk')
      BY <1>1, <2>1, <2>2, <2>4, <3>1 DEF Reason
    <3>3. QED BY <2>1, <3>2, FailureMeans
  <2>7. ListAt' /\ VerdictAt'
    BY <1>1, <2>2, ListStays DEF VerdictAt
  <2>8. QED BY <2>3, <2>5, <2>6, <2>7, TakenMeansNext DEF ValidationInv
<1>5. QED BY <1>3, <1>4

LEMMA WorkerBreaksInv ==
  ASSUME ValidationInv, NEW w \in Workers, WorkerBreaks(w)
  PROVE  ValidationInv'
<1>1. /\ phase = "check" /\ pc' = [pc EXCEPT ![w] = "stopped"] /\ broken' # {}
      /\ UNCHANGED <<db, phase, jobs, next, job, walk, verdict, damaged>>
  BY DEF WorkerBreaks, fileVars
<1>2. /\ ListAt /\ FailureAt /\ VerdictAt
      /\ Shape(phase, jobs, next, pc, job, failed, broken, verdict)
      /\ Taken(jobs, next, pc, job, failed, broken, db, walk)
  BY TakenMeans DEF ValidationInv
<1>3. /\ \A v \in Workers : pc'[v] = "work" <=> v # w /\ pc[v] = "work"
      /\ pc' \in [Workers -> {"check", "take", "work", "stopped"}]
  BY <1>1, <1>2 DEF Shape
<1>4. Shape(phase', jobs', next', pc', job', failed', broken', verdict')
  BY <1>1, <1>2, <1>3 DEF Shape
<1>5. Taken(jobs', next', pc', job', failed', broken', db', walk')
  BY <1>1 DEF Taken
<1>6. FailureAt'
  BY <1>1, FailureMeans DEF Reason
<1>7. ListAt' /\ VerdictAt'
  BY <1>1, <1>2, ListStays DEF VerdictAt
<1>8. QED BY <1>4, <1>5, <1>6, <1>7, TakenMeansNext DEF ValidationInv

\* When all workers have stopped without a failure the list is done.
LEMMA JoinWorkersInv ==
  ASSUME ValidationInv, JoinWorkers
  PROVE  ValidationInv'
<1>1. /\ phase = "check" /\ phase' = "done" /\ \A w \in Workers : pc[w] = "stopped"
      /\ verdict' = IF failed = None /\ broken = {} THEN "ok" ELSE "error"
      /\ UNCHANGED <<db, jobs, next, pc, job, walk, failed, broken, damaged>>
  BY DEF JoinWorkers, fileVars
<1>2. /\ ListAt /\ FailureAt
      /\ Shape(phase, jobs, next, pc, job, failed, broken, verdict)
      /\ Taken(jobs, next, pc, job, failed, broken, db, walk)
  BY TakenMeans DEF ValidationInv
<1>3. Shape(phase', jobs', next', pc', job', failed', broken', verdict')
  BY <1>1, <1>2 DEF Shape
<1>4. Taken(jobs', next', pc', job', failed', broken', db', walk')
  BY <1>1, <1>2 DEF Taken
<1>5. failed # None => Reason(jobs, next, pc, job, broken, damaged, db, walk)
  BY <1>2, FailureMeans
<1>6. FailureAt'
  <2>1. failed # None => Reason(jobs', next', pc', job', broken', damaged', db', walk')
    BY <1>1, <1>5
  <2>2. QED BY <1>1, <2>1, FailureMeans
<1>7. jobs # <<>> /\ jobs \in Seq({WalkJob} \cup OtherJobs) /\ jobs[1] = WalkJob
  BY <1>1, <1>2 DEF Shape, ListAt
<1>8. VerdictAt'
  <2>1. CASE failed = None /\ broken = {}
    <3>1. next > Len(jobs) /\ next \in Nat
      BY <1>1, <1>2, <2>1, ValidationAssumption DEF Shape
    <3>2. \A i \in DOMAIN jobs : i < next
      BY <1>7, <3>1
    <3>3. \A i \in DOMAIN jobs : Held(jobs[i], db, walk)
      BY <1>1, <1>2, <2>1, <3>2 DEF Taken
    <3>4. \A i \in DOMAIN jobs' : JobHolds(jobs[i])'
      BY <1>1, <3>3, JobHoldsMeansNext
    <3>5. QED BY <1>1, <2>1, <3>4 DEF VerdictAt
  <2>2. CASE broken # {} \/ (failed # None /\ damaged)
    BY <1>1, <2>2 DEF VerdictAt
  <2>3. CASE failed # None /\ \E i \in DOMAIN jobs : ~Held(jobs[i], db, walk)
    <3>1. \E i \in DOMAIN jobs' : ~JobHolds(jobs[i])'
      BY <1>1, <2>3, JobHoldsMeansNext
    <3>2. QED BY <1>1, <2>3, <3>1 DEF VerdictAt
  <2>4. failed # None /\ broken = {} /\ ~damaged => \E i \in DOMAIN jobs : ~Held(jobs[i], db, walk)
    <3>1. 1 \in DOMAIN jobs
      BY <1>7
    <3>2. ASSUME failed # None, broken = {}, ~damaged
          PROVE  \E i \in DOMAIN jobs : ~Held(jobs[i], db, walk)
      <4>1. \/ \E i \in DOMAIN jobs : jobs[i] # WalkJob /\ ~Held(jobs[i], db, walk)
            \/ ~Held(WalkJob, db, walk)
        BY <1>5, <3>2, Zenon DEF Reason
      <4>2. QED BY <1>7, <3>1, <4>1, Zenon
    <3>3. QED BY <3>2
  <2>5. QED BY <2>1, <2>2, <2>3, <2>4
<1>9. ListAt'
  BY <1>1, <1>2, ListStays
<1>10. QED BY <1>3, <1>4, <1>6, <1>8, <1>9, TakenMeansNext DEF ValidationInv

LEMMA StutterInv ==
  ASSUME ValidationInv, UNCHANGED vars
  PROVE  ValidationInv'
<1>1. UNCHANGED <<db, phase, jobs, next, pc, job, walk, failed, broken, verdict, damaged>>
  BY DEF vars, fileVars
<1>2. ListAt' /\ VerdictAt'
  BY <1>1, ListStays, VerdictStays DEF ValidationInv
<1>3. TakenAt'
  BY <1>1, TakenMeans, TakenMeansNext DEF ValidationInv
<1>4. FailureAt'
  <2>1. failed # None => Reason(jobs, next, pc, job, broken, damaged, db, walk)
    BY FailureMeans DEF ValidationInv
  <2>2. QED BY <1>1, <2>1, FailureMeans
<1>5. QED BY <1>2, <1>3, <1>4 DEF ValidationInv

LEMMA InitInv ==
  Init => ValidationInv
<1>1. SUFFICES ASSUME Init
               PROVE  ValidationInv
  OBVIOUS
<1>2. /\ phase = "file" /\ jobs = <<>> /\ next = 1 /\ failed = None /\ broken = {}
      /\ verdict = None /\ pc = [w \in Workers |-> "check"] /\ job = [w \in Workers |-> None]
  BY <1>1 DEF Init
<1>3. \E d \in Databases : db = d[2]
  <2>1. db \in {d[2] : d \in {x \in Databases : x[1] = image}}
    BY <1>1 DEF Init
  <2>2. QED BY <2>1
<1>4. ListAt /\ FailureAt /\ VerdictAt
  BY <1>2, <1>3 DEF ListAt, FailureAt, VerdictAt
<1>5. TakenAt
  BY <1>2 DEF TakenAt, Working
<1>6. QED BY <1>4, <1>5 DEF ValidationInv

LEMMA StepInv ==
  ValidationInv /\ [Next]_vars => ValidationInv'
<1>1. SUFFICES ASSUME ValidationInv, [Next]_vars
               PROVE  ValidationInv'
  OBVIOUS
<1>2. CASE Write \/ Harm
  <2>1. phase = "file" /\ UNCHANGED checkVars
    BY <1>2 DEF Write, Harm
  <2>2. QED BY <1>1, <2>1, FileInv
<1>3. CASE CheckNatively \/ StartWorkers \/ JoinWorkers
  BY <1>1, <1>3, CheckNativelyInv, StartWorkersInv, JoinWorkersInv
<1>4. ASSUME NEW w \in Workers,
             LookForFailure(w) \/ TakeJob(w) \/ CheckTable(w) \/ CheckKeys(w) \/ Walk(w)
               \/ WorkerBreaks(w)
      PROVE  ValidationInv'
  BY <1>1, <1>4, LookForFailureInv, TakeJobInv, CheckTableInv, CheckKeysInv, WalkInv, WorkerBreaksInv
<1>5. CASE UNCHANGED vars
  BY <1>1, <1>5, StutterInv
<1>6. QED BY <1>1, <1>2, <1>3, <1>4, <1>5 DEF Next

\* The invariant of the workers' protocol: a job that was taken is being done or was done,
\* unless something failed; only one worker has the walk; a failure has a reason that stays.
THEOREM ValidationInvariant == Spec => []ValidationInv
<1>1. Init => ValidationInv
  BY InitInv
<1>2. ValidationInv /\ [Next]_vars => ValidationInv'
  BY StepInv
<1>3. QED BY <1>1, <1>2, PTL DEF Spec

\* The verdict of the threads, whichever jobs ran when one failed: "ok" means every job of
\* the list was done and held, and an error means that a job does not hold, that a page
\* pointer is damaged or that a thread met an error of the system (validation.rs 640-810).
THEOREM VerdictOfJobs == Spec => []VerdictAt
<1>1. ValidationInv => VerdictAt
  BY DEF ValidationInv
<1>2. QED BY <1>1, ValidationInvariant, PTL

\* Comparing with a range never accepts foreign keys SQLite would refuse, nor refuses what
\* it would accept, in every list of jobs the workers are given (validation.rs 153-303).
THEOREM ShortcutExact == Spec => []ShortcutAgrees
<1>1. ValidationInv => ShortcutAgrees
  <2>1. SUFFICES ASSUME ValidationInv, NEW i \in DOMAIN jobs, jobs[i].kind = "keys"
                 PROVE  ForeignKeysHold(jobs[i].table, jobs[i].plan) <=> NativeHolds(jobs[i].table)
    BY DEF ShortcutAgrees
  <2>2. ListAt
    BY <2>1 DEF ValidationInv
  <2>3. jobs[i] \in OtherJobs
    BY <2>1, <2>2, Listed, HeldFacts
  <2>4. PICK t \in DOMAIN Keys :
          jobs[i] = [kind |-> "keys", table |-> t, plan |-> ForeignKeyPlan(t)]
    BY <2>1, <2>3 DEF OtherJobs
  <2>5. PICK d \in Databases : db = d[2]
    BY <2>2 DEF ListAt
  <2>6. jobs[i].table = t /\ jobs[i].plan = ForeignKeyPlan(t)
    BY <2>4
  <2>7. ForeignKeysHold(t, ForeignKeyPlan(t)) <=> NativeHolds(t)
    BY <2>5, PlanExact
  <2>8. QED BY <2>6, <2>7
<1>2. QED BY <1>1, ValidationInvariant, PTL

-----------------------------------------------------------------------------
(* The unused pages.                                                        *)

\* The pages of one range, and the recursive functions of FreePages and FreeCount.
Run(ranges, r) == [i \in 1 .. ranges[r][2] - ranges[r][1] |-> ranges[r][1] + i - 1]
PagesUpTo(ranges, n, f) ==
  f = [r \in 0 .. n |-> IF r = 0 THEN <<>> ELSE f[r - 1] \o Run(ranges, r)]
CountUpTo(ranges, n, f) ==
  f = [r \in 0 .. n |-> IF r = 0 THEN 0 ELSE f[r - 1] + ranges[r][2] - ranges[r][1]]

\* The recursive function of FreePages exists.
LEMMA PagesExist ==
  ASSUME NEW ranges
  PROVE  \A n \in Nat : \E f : PagesUpTo(ranges, n, f)
<1> DEFINE T == {n \in Nat : \E f : PagesUpTo(ranges, n, f)}
<1>1. 0 \in T
  <2> DEFINE f == [i \in 0 .. 0 |-> <<>>]
  <2>1. PagesUpTo(ranges, 0, f)
    BY DEF PagesUpTo
  <2> HIDE DEF f
  <2>2. QED BY <2>1
<1>2. ASSUME NEW n \in Nat, n \in T
      PROVE  n + 1 \in T
  <2>1. PICK f : PagesUpTo(ranges, n, f)
    BY <1>2
  <2> DEFINE last == f[n] \o Run(ranges, n + 1)
             g == [i \in 0 .. n + 1 |-> IF i = n + 1 THEN last ELSE f[i]]
  <2>2. \A i \in 0 .. n : f[i] = IF i = 0 THEN <<>> ELSE f[i - 1] \o Run(ranges, i)
    BY <2>1 DEF PagesUpTo
  <2>3. /\ \A i \in 0 .. n : g[i] = f[i]
        /\ g[n + 1] = last
        /\ g = [i \in 0 .. n + 1 |-> g[i]]
    OBVIOUS
  <2> HIDE DEF g
  <2>4. ASSUME NEW i \in 0 .. n + 1
        PROVE  g[i] = IF i = 0 THEN <<>> ELSE g[i - 1] \o Run(ranges, i)
    <3>1. CASE i = n + 1
      <4>1. i # 0 /\ i - 1 = n /\ n \in 0 .. n
        BY <3>1
      <4>2. QED BY <2>3, <3>1, <4>1
    <3>2. CASE i \in 0 .. n
      <4>1. i # 0 => i - 1 \in 0 .. n
        BY <3>2
      <4>2. QED BY <2>2, <2>3, <3>2, <4>1
    <3>3. QED BY <3>1, <3>2
  <2>5. PagesUpTo(ranges, n + 1, g)
    BY <2>3, <2>4 DEF PagesUpTo
  <2>6. QED BY <2>5
<1> HIDE DEF T
<1>3. Nat \subseteq T
  BY <1>1, <1>2, SetInduction
<1>4. QED BY <1>3 DEF T

\* The recursive function of FreeCount exists.
LEMMA CountExists ==
  ASSUME NEW ranges
  PROVE  \A n \in Nat : \E f : CountUpTo(ranges, n, f)
<1> DEFINE T == {n \in Nat : \E f : CountUpTo(ranges, n, f)}
           More(c, r) == c + ranges[r][2] - ranges[r][1]
<1> HIDE DEF More
<1>0. \A n, f : CountUpTo(ranges, n, f) <=>
                  f = [r \in 0 .. n |-> IF r = 0 THEN 0 ELSE More(f[r - 1], r)]
  BY Zenon DEF CountUpTo, More
<1>1. 0 \in T
  <2> DEFINE f == [i \in 0 .. 0 |-> 0]
  <2>1. f = [r \in 0 .. 0 |-> IF r = 0 THEN 0 ELSE More(f[r - 1], r)]
    OBVIOUS
  <2> HIDE DEF f
  <2>2. QED BY <1>0, <2>1
<1>2. ASSUME NEW n \in Nat, n \in T
      PROVE  n + 1 \in T
  <2>1. PICK f : f = [r \in 0 .. n |-> IF r = 0 THEN 0 ELSE More(f[r - 1], r)]
    BY <1>0, <1>2
  <2> DEFINE last == More(f[n], n + 1)
             g == [i \in 0 .. n + 1 |-> IF i = n + 1 THEN last ELSE f[i]]
  <2>2. \A i \in 0 .. n : f[i] = IF i = 0 THEN 0 ELSE More(f[i - 1], i)
    BY <2>1
  <2>3. /\ \A i \in 0 .. n : g[i] = f[i]
        /\ g[n + 1] = last
        /\ g = [i \in 0 .. n + 1 |-> g[i]]
    OBVIOUS
  <2> HIDE DEF g
  <2>4. ASSUME NEW i \in 0 .. n + 1
        PROVE  g[i] = IF i = 0 THEN 0 ELSE More(g[i - 1], i)
    <3>1. CASE i = n + 1
      <4>1. i # 0 /\ i - 1 = n /\ n \in 0 .. n
        BY <3>1
      <4>2. QED BY <2>3, <3>1, <4>1
    <3>2. CASE i \in 0 .. n
      <4>1. i # 0 => i - 1 \in 0 .. n
        BY <3>2
      <4>2. QED BY <2>2, <2>3, <3>2, <4>1
    <3>3. QED BY <3>1, <3>2
  <2>5. g = [r \in 0 .. n + 1 |-> IF r = 0 THEN 0 ELSE More(g[r - 1], r)]
    BY <2>3, <2>4
  <2>6. QED BY <1>0, <2>5
<1> HIDE DEF T
<1>3. Nat \subseteq T
  BY <1>1, <1>2, SetInduction
<1>4. QED BY <1>3 DEF T

\* As many pages as the allocator has counted.
LEMMA FreePagesCounted ==
  ASSUME NEW ranges, ranges = image.ranges, ranges \in Seq(Nat \X Nat),
         \A r \in DOMAIN ranges : ranges[r][1] < ranges[r][2]
  PROVE  /\ FreePages(ranges) \in Seq(Nat)
         /\ Len(FreePages(ranges)) = FreeCount
<1> DEFINE n == Len(ranges)
           f == CHOOSE f : f = [r \in 0 .. Len(ranges) |->
                                  IF r = 0 THEN <<>>
                                  ELSE f[r - 1] \o [i \in 1 .. ranges[r][2] - ranges[r][1] |->
                                                      ranges[r][1] + i - 1]]
           c == CHOOSE c : c = [r \in 0 .. Len(image.ranges) |->
                                  IF r = 0 THEN 0
                                  ELSE c[r - 1] + image.ranges[r][2] - image.ranges[r][1]]
<1>1. n \in Nat /\ DOMAIN ranges = 1 .. n
  OBVIOUS
<1>2. FreePages(ranges) = f[n]
  BY Zenon DEF FreePages
<1>3. FreeCount = c[Len(image.ranges)]
  BY Zenon DEF FreeCount
<1>4. PagesUpTo(ranges, Len(ranges), f)
  <2>1. \E g : PagesUpTo(ranges, Len(ranges), g)
    <3> HIDE DEF f, c
    <3>1. QED BY <1>1, PagesExist, Zenon
  <2>2. \E g : g = [r \in 0 .. Len(ranges) |->
                      IF r = 0 THEN <<>>
                      ELSE g[r - 1] \o [i \in 1 .. ranges[r][2] - ranges[r][1] |->
                                          ranges[r][1] + i - 1]]
    BY <2>1, Zenon DEF PagesUpTo, Run
  <2>3. f = [r \in 0 .. Len(ranges) |->
               IF r = 0 THEN <<>>
               ELSE f[r - 1] \o [i \in 1 .. ranges[r][2] - ranges[r][1] |->
                                   ranges[r][1] + i - 1]]
    BY <2>2, Zenon
  <2> HIDE DEF f, c
  <2>4. QED BY <2>3, Zenon DEF PagesUpTo, Run
<1>5. CountUpTo(image.ranges, Len(image.ranges), c)
  <2>1. \E g : CountUpTo(image.ranges, Len(image.ranges), g)
    <3> HIDE DEF f, c
    <3>1. \E g : CountUpTo(ranges, Len(ranges), g)
      BY <1>1, CountExists, Zenon
    <3>2. QED BY <3>1
  <2>2. \E g : g = [r \in 0 .. Len(image.ranges) |->
                      IF r = 0 THEN 0
                      ELSE g[r - 1] + image.ranges[r][2] - image.ranges[r][1]]
    BY <2>1, Zenon DEF CountUpTo
  <2>3. c = [r \in 0 .. Len(image.ranges) |->
               IF r = 0 THEN 0
               ELSE c[r - 1] + image.ranges[r][2] - image.ranges[r][1]]
    BY <2>2, Zenon
  <2> HIDE DEF f, c
  <2>4. QED BY <2>3, Zenon DEF CountUpTo
<1> HIDE DEF f, c
<1>6. \A r \in 0 .. n : f[r] = IF r = 0 THEN <<>> ELSE f[r - 1] \o Run(ranges, r)
  BY <1>4 DEF PagesUpTo
<1> DEFINE Gap(r) == ranges[r][2] - ranges[r][1]
<1>7. \A r \in 0 .. n : c[r] = IF r = 0 THEN 0 ELSE c[r - 1] + ranges[r][2] - ranges[r][1]
  <2>1. CountUpTo(ranges, n, c)
    BY <1>5
  <2> HIDE DEF n
  <2>2. QED BY <2>1, Zenon DEF CountUpTo
<1> DEFINE T == {k \in Nat : k <= n => f[k] \in Seq(Nat) /\ c[k] \in Nat /\ Len(f[k]) = c[k]}
<1> HIDE DEF n
<1>8. 0 \in T
  <2>1. f[0] = <<>> /\ c[0] = 0
    BY <1>1, <1>6, <1>7
  <2>2. f[0] \in Seq(Nat) /\ c[0] \in Nat /\ Len(f[0]) = c[0]
    <3>1. <<>> \in Seq(Nat) /\ Len(<<>>) = 0 /\ 0 \in Nat
      OBVIOUS
    <3>2. QED BY <2>1, <3>1, Zenon
  <2>3. QED BY <2>2
<1>9. ASSUME NEW k \in Nat, k \in T
      PROVE  k + 1 \in T
  <2> SUFFICES ASSUME k + 1 <= n
               PROVE  f[k + 1] \in Seq(Nat) /\ c[k + 1] \in Nat /\ Len(f[k + 1]) = c[k + 1]
    OBVIOUS
  <2>1. f[k] \in Seq(Nat) /\ c[k] \in Nat /\ Len(f[k]) = c[k]
    BY <1>1, <1>9
  <2>2. k + 1 \in 0 .. n /\ k + 1 # 0 /\ (k + 1) - 1 = k /\ k + 1 \in DOMAIN ranges
    BY <1>1
  <2>3. /\ f[k + 1] = f[k] \o Run(ranges, k + 1)
        /\ c[k + 1] = c[k] + ranges[k + 1][2] - ranges[k + 1][1]
    BY <1>6, <1>7, <2>2
  <2> DEFINE a == ranges[k + 1][1]
             b == ranges[k + 1][2]
  <2>4. a \in Nat /\ b \in Nat /\ a < b
    BY <2>2
  <2>5. Run(ranges, k + 1) = [i \in 1 .. b - a |-> a + i - 1]
    BY DEF Run
  <2>6. c[k + 1] = c[k] + b - a
    BY <2>3
  <2> HIDE DEF a, b
  <2>7. Run(ranges, k + 1) \in Seq(Nat) /\ Len(Run(ranges, k + 1)) = b - a
    <3>1. b - a \in Nat /\ \A i \in 1 .. b - a : a + i - 1 \in Nat
      BY <2>4
    <3> DEFINE m == b - a
               run == Run(ranges, k + 1)
    <3>2. m \in Nat /\ run \in [1 .. m -> Nat]
      BY <2>5, <3>1
    <3> HIDE DEF m, run
    <3>3. run \in Seq(Nat) /\ Len(run) = m
      BY <3>2
    <3>4. QED BY <3>3 DEF m, run
  <2>8. f[k + 1] \in Seq(Nat) /\ Len(f[k + 1]) = Len(f[k]) + Len(Run(ranges, k + 1))
    <3> DEFINE u == f[k]
               v == Run(ranges, k + 1)
    <3>1. u \in Seq(Nat) /\ v \in Seq(Nat)
      BY <2>1, <2>7
    <3> HIDE DEF u, v
    <3>2. /\ u \o v \in Seq(Nat)
          /\ Len(u \o v) = Len(u) + Len(v)
          /\ \A i \in 1 .. Len(u) + Len(v) : (u \o v)[i] = IF i <= Len(u) THEN u[i] ELSE v[i - Len(u)]
      BY <3>1, ConcatProperties, Zenon
    <3>3. QED BY <2>3, <3>2, Zenon DEF u, v
  <2> DEFINE x == f[k + 1]
             y == Len(f[k])
             z == Len(Run(ranges, k + 1))
             e == c[k + 1]
             g == c[k]
  <2>9. /\ x \in Seq(Nat) /\ Len(x) = y + z /\ y = g /\ z = b - a /\ e = g + b - a
        /\ g \in Nat /\ a \in Nat /\ b \in Nat /\ a < b
    BY <2>1, <2>4, <2>6, <2>7, <2>8, Zenon
  <2> HIDE DEF x, y, z, e, g
  <2>10. x \in Seq(Nat) /\ e \in Nat /\ Len(x) = e
    <3> DEFINE s == Len(x)
    <3>1. s = y + z /\ y = g /\ z = b - a /\ e = g + b - a /\ g \in Nat /\ a \in Nat /\ b \in Nat /\ a < b
      BY <2>9, Zenon
    <3> HIDE DEF s
    <3>2. e \in Nat /\ s = e
      BY <3>1
    <3>3. QED BY <2>9, <3>2 DEF s
  <2>11. QED BY <2>10 DEF x, e
<1> HIDE DEF T
<1>10. Nat \subseteq T
  BY <1>8, <1>9, SetInduction
<1>11. f[n] \in Seq(Nat) /\ Len(f[n]) = c[n]
  <2>1. n \in T
    BY <1>1, <1>10, Zenon
  <2>2. n <= n
    BY <1>1
  <2>3. QED BY <2>1, <2>2, Zenon DEF T
<1>12. FreeCount = c[n]
  BY <1>3 DEF n
<1>13. QED BY <1>2, <1>11, <1>12

-----------------------------------------------------------------------------
(* Pointers.                                                                *)

\* The pointers of a page stand on it.
LEMMA PointersStand ==
  ASSUME NEW pages, NEW p
  PROVE  \A x \in PointersOf(pages, p) : x[1] = p
<1>1. ASSUME NEW x \in PointersOf(pages, p)
      PROVE  x[1] = p
  <2>1. CASE pages[p].kind = "tree"
    BY <1>1, <2>1 DEF PointersOf
  <2>2. CASE pages[p].kind = "chain"
    BY <1>1, <2>2 DEF PointersOf
  <2>3. CASE pages[p].kind = "trunk"
    BY <1>1, <2>3 DEF PointersOf
  <2>4. CASE pages[p].kind \notin {"tree", "chain", "trunk"}
    BY <1>1, <2>4 DEF PointersOf
  <2>5. QED BY <2>1, <2>2, <2>3, <2>4
<1>2. QED BY <1>1

\* They depend on the page alone.
LEMMA SamePointers ==
  ASSUME NEW pages, NEW other, NEW p, other[p] = pages[p]
  PROVE  PointersOf(other, p) = PointersOf(pages, p)
BY Zenon DEF PointersOf

\* A blank page has none.
LEMMA BlankPointers ==
  ASSUME NEW pages, NEW p, pages[p] = Blank
  PROVE  PointersOf(pages, p) = {}
BY DEF PointersOf, Blank

-----------------------------------------------------------------------------
(* One trunk page.                                                          *)

\* A list of different pages, to be linked before the page first.
PageList(free, first) ==
  /\ free \in Seq(Nat \ {0}) /\ \A i \in 1 .. Len(free) : free[i] # first
  /\ \A i, j \in 1 .. Len(free) : free[i] = free[j] => i = j

\* The page after the k first is written as a trunk with l leaves: the content of the
\* pages changes from c to d.
Extends(free, first, c, d, k, l, leaves, onward) ==
  /\ k \in Nat /\ l \in Nat /\ k + 1 + l <= Len(free)
  /\ \A i \in k + 1 .. Len(free) : c[free[i]] = Blank
  /\ DOMAIN leaves = 1 .. l /\ \A i \in 1 .. l : leaves[i] = free[k + 1 + i]
  /\ onward = IF k + 1 + l = Len(free) THEN first ELSE free[k + l + 2]
  /\ d[free[k + 1]] = Trunk(onward, leaves)
  /\ \A i \in 1 .. Len(free) : i # k + 1 => d[free[i]] = c[free[i]]

\* The numbers up to m: those up to k, the next one and the rest.
LEMMA ThreeParts ==
  ASSUME NEW k \in Nat, NEW m \in Nat, k + 1 <= m
  PROVE  \A i : i \in 1 .. m <=> i \in 1 .. k \/ i = k + 1 \/ i \in k + 2 .. m
OBVIOUS

LEMMA ListFacts ==
  ASSUME NEW free, NEW first, PageList(free, first)
  PROVE  /\ Len(free) \in Nat
         /\ \A i \in 1 .. Len(free) : free[i] \in Nat \ {0} /\ free[i] # first
         /\ \A i, j \in 1 .. Len(free) : free[i] = free[j] => i = j
BY DEF PageList

\* It links the trunk and its leaves.
LEMMA LinkTrunk ==
  ASSUME NEW free, NEW first, NEW c, NEW d, NEW k, NEW l, NEW leaves, NEW onward,
         PageList(free, first), Linked(free, first, c, k),
         Extends(free, first, c, d, k, l, leaves, onward)
  PROVE  Linked(free, first, d, k + 1 + l)
<1>0. /\ k \in Nat /\ l \in Nat /\ k + 1 + l <= Len(free)
      /\ \A i \in k + 1 .. Len(free) : c[free[i]] = Blank
      /\ DOMAIN leaves = 1 .. l /\ \A i \in 1 .. l : leaves[i] = free[k + 1 + i]
      /\ onward = IF k + 1 + l = Len(free) THEN first ELSE free[k + l + 2]
      /\ d[free[k + 1]] = Trunk(onward, leaves)
      /\ \A i \in 1 .. Len(free) : i # k + 1 => d[free[i]] = c[free[i]]
  BY DEF Extends
<1> USE <1>0
<1> DEFINE n   == Len(free)
           old == Links(free, c, k)
           m   == k + 1 + l
           new == Links(free, d, m)
           t   == free[k + 1]
           last == m # 0 /\ m = Len(free) /\ first # 0
<1>1. /\ n \in Nat /\ k + 1 \in 1 .. n /\ m \in 1 .. n /\ k < m /\ k < n
      /\ \A i \in 1 .. n : free[i] \in Nat \ {0} /\ free[i] # first
      /\ \A i, j \in 1 .. n : free[i] = free[j] => i = j
  <2>1. /\ n \in Nat /\ \A i \in 1 .. n : free[i] \in Nat \ {0} /\ free[i] # first
        /\ \A i, j \in 1 .. n : free[i] = free[j] => i = j
    BY ListFacts, Zenon
  <2>2. k \in Nat /\ l \in Nat /\ k + 1 + l <= n
    BY Zenon
  <2> HIDE <1>0
  <2> HIDE DEF n
  <2>3. QED BY <2>1, <2>2
\* What is known of the pointers of the first k pages.
<1>2. /\ \A i \in 1 .. k : /\ c[free[i]].kind \in {"trunk", "blank"}
                           /\ i = 1 => c[free[i]].kind = "trunk"
      /\ \A x \in old : x[2] \in {"free", "trunk"}
      /\ \A x \in old : \E i \in 1 .. k : x[1] = free[i] /\
            \E j \in i + 1 .. n : /\ j <= k + 1 /\ x[4] = free[j]
                                  /\ IF j <= k THEN Fits(c, x) ELSE x[2] = "trunk"
      /\ k # 0 => \A j \in 2 .. n : j <= k + 1 => \E x \in old : x[4] = free[j]
      /\ \A x, y \in old : x[4] = y[4] => x = y
  BY <1>1 DEF Linked
\* What the new trunk adds.
<1>3. \A x : x \in PointersOf(d, t) <=>
               \/ \E i \in 1 .. l : x = <<t, "free", i, free[k + 1 + i]>>
               \/ onward # 0 /\ x = <<t, "trunk", 0, onward>>
  <2>1. d[t] = Trunk(onward, leaves)
    OBVIOUS
  <2> HIDE DEF t
  <2>2. d[t].kind = "trunk" /\ d[t].next = onward /\ d[t].leaves = leaves
    BY <2>1 DEF Trunk
  <2>3. PointersOf(d, t) = {<<t, "free", i, leaves[i]>> : i \in DOMAIN leaves}
                             \cup (IF onward = 0 THEN {} ELSE {<<t, "trunk", 0, onward>>})
    BY <2>2 DEF PointersOf
  <2>4. ASSUME NEW x
        PROVE  (\E i \in DOMAIN leaves : x = <<t, "free", i, leaves[i]>>)
                 <=> \E i \in 1 .. l : x = <<t, "free", i, free[k + 1 + i]>>
    <3>1. ASSUME NEW i
          PROVE  /\ i \in DOMAIN leaves <=> i \in 1 .. l
                 /\ i \in 1 .. l => leaves[i] = free[k + 1 + i]
      OBVIOUS
    <3>2. QED BY <3>1, Zenon
  <2>5. \A x : x \in PointersOf(d, t) <=>
               \/ \E i \in DOMAIN leaves : x = <<t, "free", i, leaves[i]>>
               \/ onward # 0 /\ x = <<t, "trunk", 0, onward>>
    BY <2>3
  <2>6. QED BY <2>4, <2>5, Zenon
<1>4. \A x : x \in new <=> x \in old \/ x \in PointersOf(d, t)
  <2>1. \A i \in 1 .. k : PointersOf(d, free[i]) = PointersOf(c, free[i])
    <3>1. ASSUME NEW i \in 1 .. k
          PROVE  PointersOf(d, free[i]) = PointersOf(c, free[i])
      <4>1. d[free[i]] = c[free[i]]
        BY <1>1, <3>1
      <4> DEFINE p == free[i]
      <4> HIDE DEF p
      <4>2. d[p] = c[p]
        BY <4>1 DEF p
      <4>3. PointersOf(d, p) = PointersOf(c, p)
        BY <4>2, SamePointers
      <4>4. QED BY <4>3 DEF p
    <3>2. QED BY <3>1
  <2>2. \A i \in k + 2 .. m : PointersOf(d, free[i]) = {}
    <3>1. ASSUME NEW i \in k + 2 .. m
          PROVE  d[free[i]] = Blank
      <4>1. i \in 1 .. n /\ i # k + 1 /\ i \in k + 1 .. n
        BY <1>1, <3>1
      <4>2. d[free[i]] = c[free[i]] /\ c[free[i]] = Blank
        BY <4>1, Zenon
      <4>3. QED BY <4>2
    <3>2. ASSUME NEW i \in k + 2 .. m
          PROVE  PointersOf(d, free[i]) = {}
      <4>1. d[free[i]] = Blank
        BY <3>1, <3>2
      <4>2. QED BY <4>1, BlankPointers, Zenon
    <3>3. QED BY <3>2, Zenon
  <2> HIDE DEF t
  <2>3. \A x : x \in new <=> \E i \in 1 .. m : x \in PointersOf(d, free[i])
    BY DEF Links
  <2>4. \A x : x \in old <=> \E i \in 1 .. k : x \in PointersOf(c, free[i])
    BY DEF Links
  <2>5. \A i : i \in 1 .. m <=> i \in 1 .. k \/ i = k + 1 \/ i \in k + 2 .. m
    <3>1. m \in Nat /\ k \in Nat /\ k + 1 <= m
      BY <1>1
    <3> HIDE DEF m
    <3>2. QED BY <3>1, ThreeParts, Zenon
  <2> HIDE DEF m, old, new
  <2>6. QED BY <2>1, <2>2, <2>3, <2>4, <2>5, Zenon DEF t
<1>5. onward = 0 \/ (m < n /\ onward = free[m + 1]) \/ (last /\ onward = first)
  BY <1>1
<1>6. m < n => onward # 0 /\ onward = free[m + 1]
  BY <1>1
<1>7. last => onward = first
  OBVIOUS
<1>8. ASSUME NEW x \in PointersOf(d, t)
      PROVE  /\ x[1] = t
             /\ \/ \E j \in k + 2 .. m : x[2] = "free" /\ x[4] = free[j] /\ x[3] = j - k - 1
                \/ /\ x[2] = "trunk" /\ x[3] = 0 /\ x[4] = onward /\ onward # 0
  <2>1. CASE onward # 0 /\ x = <<t, "trunk", 0, onward>>
    BY <2>1
  <2>2. ASSUME NEW i \in 1 .. l, x = <<t, "free", i, free[k + 1 + i]>>
        PROVE  /\ x[1] = t
               /\ \E j \in k + 2 .. m : x[2] = "free" /\ x[4] = free[j] /\ x[3] = j - k - 1
    <3>1. k + 1 + i \in k + 2 .. m /\ (k + 1 + i) - k - 1 = i
      BY <1>1, <2>2
    <3>2. QED BY <2>2, <3>1
  <2>3. QED BY <1>3, <1>8, <2>1, <2>2
<1> HIDE DEF old, new, t, PageList
<1>9. \A i \in 1 .. m : /\ d[free[i]].kind \in {"trunk", "blank"}
                        /\ i = 1 => d[free[i]].kind = "trunk"
  <2> SUFFICES ASSUME NEW i \in 1 .. m
               PROVE  /\ d[free[i]].kind \in {"trunk", "blank"}
                      /\ i = 1 => d[free[i]].kind = "trunk"
    OBVIOUS
  <2>1. CASE i <= k
    <3>1. i \in 1 .. k /\ i \in 1 .. n /\ i # k + 1
      BY <1>1, <2>1
    <3>2. d[free[i]] = c[free[i]]
      BY <3>1, Zenon
    <3>3. c[free[i]].kind \in {"trunk", "blank"} /\ (i = 1 => c[free[i]].kind = "trunk")
      BY <1>2, <3>1, Zenon
    <3>4. QED BY <3>2, <3>3
  <2>2. CASE i = k + 1
    BY <2>2 DEF Trunk
  <2>3. CASE i > k + 1
    <3>1. d[free[i]] = Blank /\ i # 1
      <4>1. i \in 1 .. n /\ i # k + 1 /\ i \in k + 1 .. n /\ i # 1
        BY <1>1, <2>3
      <4>2. d[free[i]] = c[free[i]] /\ c[free[i]] = Blank
        BY <4>1, Zenon
      <4>3. QED BY <4>1, <4>2
    <3>2. QED BY <3>1 DEF Blank
  <2>4. QED BY <1>1, <2>1, <2>2, <2>3
<1>10. \A x \in new :
         /\ x[2] \in {"free", "trunk"}
         /\ \E i \in 1 .. m :
              /\ x[1] = free[i]
              /\ \/ last /\ x[4] = first /\ x[2] = "trunk"
                 \/ \E j \in i + 1 .. n :
                      /\ j <= m + 1 /\ x[4] = free[j]
                      /\ IF j <= m THEN Fits(d, x) ELSE x[2] = "trunk"
  <2> SUFFICES ASSUME NEW x \in new
               PROVE  /\ x[2] \in {"free", "trunk"}
                      /\ \E i \in 1 .. m :
                           /\ x[1] = free[i]
                           /\ \/ last /\ x[4] = first /\ x[2] = "trunk"
                              \/ \E j \in i + 1 .. n :
                                   /\ j <= m + 1 /\ x[4] = free[j]
                                   /\ IF j <= m THEN Fits(d, x) ELSE x[2] = "trunk"
    OBVIOUS
  <2>1. CASE x \in old
    <3>1. PICK i \in 1 .. k : /\ x[1] = free[i]
              /\ \E j \in i + 1 .. n : /\ j <= k + 1 /\ x[4] = free[j]
                                       /\ IF j <= k THEN Fits(c, x) ELSE x[2] = "trunk"
      BY <1>2, <2>1
    <3>2. PICK j \in i + 1 .. n : /\ j <= k + 1 /\ x[4] = free[j]
                                  /\ IF j <= k THEN Fits(c, x) ELSE x[2] = "trunk"
      BY <3>1
    <3>3. i \in 1 .. m /\ j <= m /\ j <= m + 1 /\ j \in 1 .. n
      BY <1>1, <3>2
    <3>4. Fits(d, x)
      <4>1. CASE j = k + 1
        <5>1. x[2] = "trunk" /\ x[4] = free[k + 1]
          BY <1>1, <3>2, <4>1
        <5>2. QED BY <5>1 DEF Trunk, Fits
      <4>2. CASE j # k + 1
        <5>1. j <= k
          BY <1>1, <3>2, <3>3, <4>2
        <5>2. d[x[4]] = c[x[4]]
          <6>1. x[4] = free[j]
            BY <3>2, Zenon
          <6>2. d[free[j]] = c[free[j]]
            BY <3>3, <4>2, Zenon
          <6>3. QED BY <6>1, <6>2, Zenon
        <5>3. Fits(c, x)
          BY <3>2, <5>1
        <5>4. QED BY <5>2, <5>3 DEF Fits
      <4>3. QED BY <4>1, <4>2
    <3>5. QED BY <1>2, <2>1, <3>1, <3>2, <3>3, <3>4, Zenon
  <2>2. CASE x \in PointersOf(d, t)
    <3>1. k + 1 \in 1 .. m /\ x[1] = free[k + 1] /\ x[2] \in {"free", "trunk"}
      BY <1>1, <1>8, <2>2 DEF t
    <3>2. CASE \E j \in k + 2 .. m : x[2] = "free" /\ x[4] = free[j]
      <4>1. PICK j \in k + 2 .. m : x[2] = "free" /\ x[4] = free[j]
        BY <3>2
      <4>2. j \in (k + 1) + 1 .. n /\ j <= m + 1 /\ j <= m
        BY <1>1, <4>1
      <4>3. Fits(d, x)
        <5>1. j \in 1 .. n /\ j # k + 1 /\ j \in k + 1 .. n
          BY <1>1, <4>1
        <5>2. d[free[j]] = Blank
          BY <5>1, Zenon
        <5>3. QED BY <4>1, <5>2 DEF Fits, Blank
      <4>4. (j <= m + 1 /\ x[4] = free[j]) /\ IF j <= m THEN Fits(d, x) ELSE x[2] = "trunk"
        BY <4>1, <4>2, <4>3
      <4>5. \E i \in (k + 1) + 1 .. n :
              (i <= m + 1 /\ x[4] = free[i]) /\ IF i <= m THEN Fits(d, x) ELSE x[2] = "trunk"
        BY <4>2, <4>4, Zenon
      <4>6. QED BY <3>1, <4>5
    <3>3. CASE x[4] = onward /\ onward # 0 /\ x[2] = "trunk"
      <4>1. CASE last /\ onward = first
        BY <3>1, <3>3, <4>1, Zenon
      <4>2. CASE m < n /\ onward = free[m + 1]
        <5>1. m + 1 \in (k + 1) + 1 .. n /\ m + 1 <= m + 1 /\ ~(m + 1 <= m)
          BY <1>1, <4>2
        <5>2. QED BY <3>1, <3>3, <4>2, <5>1, Zenon
      <4>3. QED BY <1>5, <3>3, <4>1, <4>2
    <3>4. QED BY <1>8, <2>2, <3>2, <3>3
  <2>3. QED BY <1>4, <2>1, <2>2
<1>11. \A j \in 2 .. n : j <= m + 1 => \E x \in new : x[4] = free[j]
  <2> SUFFICES ASSUME NEW j \in 2 .. n, j <= m + 1
               PROVE  \E x \in new : x[4] = free[j]
    OBVIOUS
  <2>1. CASE j <= k + 1
    <3>1. k # 0
      BY <2>1
    <3>2. PICK x \in old : x[4] = free[j]
      BY <1>2, <2>1, <3>1
    <3>3. QED BY <1>4, <3>2
  <2>2. CASE j > k + 1 /\ j <= m
    <3> DEFINE i == j - k - 1
               x == <<t, "free", i, free[j]>>
    <3>1. i \in 1 .. l /\ k + 1 + i = j
      BY <2>2
    <3>2. x \in PointersOf(d, t)
      BY <1>3, <3>1
    <3>3. x[4] = free[j]
      OBVIOUS
    <3> HIDE DEF x
    <3>4. QED BY <1>4, <3>2, <3>3
  <2>3. CASE j = m + 1
    <3> DEFINE x == <<t, "trunk", 0, onward>>
    <3>1. x \in PointersOf(d, t) /\ x[4] = free[j]
      BY <1>1, <1>3, <1>6, <2>3
    <3> HIDE DEF x
    <3>2. QED BY <1>4, <3>1
  <2>4. QED BY <1>1, <2>1, <2>2, <2>3
<1>12. last => \E x \in new : x[4] = first
  <2> SUFFICES ASSUME last
               PROVE  \E x \in new : x[4] = first
    OBVIOUS
  <2> DEFINE x == <<t, "trunk", 0, onward>>
  <2>1. x \in PointersOf(d, t) /\ x[4] = first
    BY <1>3, <1>7
  <2> HIDE DEF x
  <2>2. QED BY <1>4, <2>1
\* The old pointers name pages up to the trunk, the new ones pages beyond it.
<1>13. \A x \in old : \E j \in 1 .. n : j <= k + 1 /\ x[4] = free[j]
  <2> SUFFICES ASSUME NEW x \in old
               PROVE  \E j \in 1 .. n : j <= k + 1 /\ x[4] = free[j]
    OBVIOUS
  <2>1. PICK i \in 1 .. k : \E j \in i + 1 .. n : j <= k + 1 /\ x[4] = free[j]
    <3>1. PICK i \in 1 .. k : x[1] = free[i] /\
            \E j \in i + 1 .. n : /\ j <= k + 1 /\ x[4] = free[j]
                                  /\ IF j <= k THEN Fits(c, x) ELSE x[2] = "trunk"
      BY <1>2
    <3>2. QED BY <3>1
  <2>2. PICK j \in i + 1 .. n : j <= k + 1 /\ x[4] = free[j]
    BY <2>1
  <2>3. j \in 1 .. n
    BY <2>1
  <2>4. QED BY <2>2, <2>3
<1>14. \A x \in PointersOf(d, t) : \A j \in 1 .. n : j <= k + 1 => x[4] # free[j]
  <2> SUFFICES ASSUME NEW x \in PointersOf(d, t), NEW j \in 1 .. n, j <= k + 1
               PROVE  x[4] # free[j]
    OBVIOUS
  <2>1. CASE \E i \in k + 2 .. m : x[4] = free[i]
    <3>1. PICK i \in k + 2 .. m : x[4] = free[i]
      BY <2>1
    <3>2. i \in 1 .. n /\ i # j
      BY <1>1, <3>1
    <3>3. QED BY <1>1, <3>1, <3>2
  <2>2. CASE x[4] = onward /\ onward # 0
    <3>1. CASE last /\ onward = first
      BY <1>1, <2>2, <3>1
    <3>2. CASE m < n /\ onward = free[m + 1]
      <4>1. m + 1 \in 1 .. n /\ m + 1 # j
        BY <1>1, <3>2
      <4>2. QED BY <1>1, <2>2, <3>2, <4>1
    <3>3. QED BY <1>5, <2>2, <3>1, <3>2
  <2>3. QED BY <1>8, <2>1, <2>2
<1>15. \A x, y \in new : x[4] = y[4] => x = y
  <2>1. ASSUME NEW x \in PointersOf(d, t), NEW y \in PointersOf(d, t), x[4] = y[4]
        PROVE  x = y
    <3>1. ASSUME NEW i \in 1 .. l
          PROVE  /\ k + 1 + i \in 1 .. n /\ k + 1 + i # m + 1
                 /\ free[k + 1 + i] # onward \/ onward = 0
      <4>1. k + 1 + i \in 1 .. n /\ k + 1 + i # m + 1
        BY <1>1
      <4>2. CASE last /\ onward = first
        BY <1>1, <4>1, <4>2
      <4>3. CASE m < n /\ onward = free[m + 1]
        <5>1. m + 1 \in 1 .. n
          BY <1>1, <4>3
        <5>2. QED BY <1>1, <4>1, <4>3, <5>1
      <4>4. QED BY <1>5, <4>1, <4>2, <4>3
    <3>2. ASSUME NEW i \in 1 .. l, NEW j \in 1 .. l, free[k + 1 + i] = free[k + 1 + j]
          PROVE  i = j
      <4>1. k + 1 + i \in 1 .. n /\ k + 1 + j \in 1 .. n
        BY <3>1
      <4>2. k + 1 + i = k + 1 + j
        BY <1>1, <3>2, <4>1
      <4>3. QED BY <4>2
    <3>3. \/ \E i \in 1 .. l : x = <<t, "free", i, free[k + 1 + i]>>
          \/ onward # 0 /\ x = <<t, "trunk", 0, onward>>
      BY <1>3
    <3>4. \/ \E i \in 1 .. l : y = <<t, "free", i, free[k + 1 + i]>>
          \/ onward # 0 /\ y = <<t, "trunk", 0, onward>>
      BY <1>3
    <3>5. CASE x[2] = "free" /\ y[2] = "free"
      <4>1. PICK i \in 1 .. l : x = <<t, "free", i, free[k + 1 + i]>>
        BY <3>3, <3>5
      <4>2. PICK j \in 1 .. l : y = <<t, "free", j, free[k + 1 + j]>>
        BY <3>4, <3>5
      <4>3. free[k + 1 + i] = free[k + 1 + j]
        <5>1. x[4] = free[k + 1 + i]
          BY <4>1
        <5>2. y[4] = free[k + 1 + j]
          BY <4>2
        <5>3. QED BY <2>1, <5>1, <5>2, Zenon
      <4>4. i = j
        BY <3>2, <4>3
      <4>5. QED BY <4>1, <4>2, <4>4
    <3>6. CASE x[2] # "free" /\ y[2] # "free"
      <4>1. x = <<t, "trunk", 0, onward>>
        <5>1. ASSUME NEW i \in 1 .. l, x = <<t, "free", i, free[k + 1 + i]>>
              PROVE  x[2] = "free"
          BY <5>1
        <5>2. QED BY <3>3, <3>6, <5>1, Zenon
      <4>2. y = <<t, "trunk", 0, onward>>
        <5>1. ASSUME NEW i \in 1 .. l, y = <<t, "free", i, free[k + 1 + i]>>
              PROVE  y[2] = "free"
          BY <5>1
        <5>2. QED BY <3>4, <3>6, <5>1, Zenon
      <4>3. QED BY <4>1, <4>2, Zenon
    <3>7. CASE x[2] = "free" /\ y[2] # "free"
      <4>1. PICK i \in 1 .. l : x = <<t, "free", i, free[k + 1 + i]>>
        BY <3>3, <3>7
      <4>2. y[4] = onward /\ onward # 0
        BY <3>4, <3>7
      <4>3. x[4] = free[k + 1 + i]
        BY <4>1
      <4>4. QED BY <2>1, <3>1, <4>2, <4>3
    <3>8. CASE x[2] # "free" /\ y[2] = "free"
      <4>1. PICK i \in 1 .. l : y = <<t, "free", i, free[k + 1 + i]>>
        BY <3>4, <3>8
      <4>2. x[4] = onward /\ onward # 0
        BY <3>3, <3>8
      <4>3. y[4] = free[k + 1 + i]
        BY <4>1
      <4>4. QED BY <2>1, <3>1, <4>2, <4>3
    <3>9. QED BY <3>5, <3>6, <3>7, <3>8
  <2>2. ASSUME NEW x \in old, NEW y \in PointersOf(d, t)
        PROVE  x[4] # y[4]
    BY <1>13, <1>14
  <2>3. QED BY <1>2, <1>4, <2>1, <2>2
<1>16. m \in 0 .. Len(free) /\ m # 0
  BY <1>1
<1> HIDE DEF m
<1>17. Linked(free, first, d, m)
  BY <1>9, <1>10, <1>11, <1>12, <1>15, <1>16, Zenon DEF Linked, last, new
<1>18. QED BY <1>17 DEF m

-----------------------------------------------------------------------------
(* The whole file.                                                          *)

\* With all free pages linked the trees, the older freelist and the new trunks own
\* every page: the pointer to the older freelist now stands on the last trunk.
LEMMA LinkedIsSound ==
  ASSUME NEW c, NEW d, NEW roots, NEW first, NEW count, NEW owned, NEW free,
         PageList(free, first), Len(free) # 0,
         Range(free) \subseteq Ownable, owned = Ownable \ Range(free), PageCount \in Nat,
         Sound(c, roots, [first |-> first, free |-> count], owned),
         \A p \in Range(free) : c[p] = Blank,
         \A p \in 1 .. PageCount : p \notin Range(free) => d[p] = c[p],
         Linked(free, first, d, Len(free))
  PROVE  Sound(d, roots, [first |-> free[1], free |-> count + Len(free)], Ownable)
<1> DEFINE n == Len(free)
           F == Range(free)
           header0 == <<0, "trunk", 0, first>>
           header1 == <<0, "trunk", 0, free[1]>>
           trees == {<<0, "child", i, roots[i]>> : i \in DOMAIN roots}
           base == trees \cup UNION {PointersOf(c, p) : p \in (1 .. PageCount) \ F}
           old == Pointers(c, roots, first)
           all == Pointers(d, roots, free[1])
           links == Links(free, d, n)
<1>1. /\ n \in Nat /\ n # 0 /\ 1 \in 1 .. n /\ DOMAIN free = 1 .. n
      /\ \A i \in 1 .. n : free[i] \in F /\ free[i] # first /\ free[i] \in Nat \ {0}
      /\ \A i, j \in 1 .. n : free[i] = free[j] => i = j
      /\ \A p \in F : \E i \in 1 .. n : p = free[i]
  BY DEF PageList, Range
<1>2. /\ F \subseteq Ownable /\ owned = Ownable \ F /\ Ownable \subseteq 1 .. PageCount
      /\ 0 \notin Ownable
  BY DEF Ownable
<1>3. /\ header0[1] = 0 /\ header0[2] = "trunk" /\ header0[4] = first
      /\ header1[1] = 0 /\ header1[2] = "trunk" /\ header1[4] = free[1]
  OBVIOUS
<1>4. \A x \in trees : x[2] = "child" /\ x[1] = 0
  OBVIOUS
<1>5. ASSUME NEW x
      PROVE  x \in old <=> x \in base \/ (first # 0 /\ x = header0)
  <2>1. \A p \in F : PointersOf(c, p) = {}
    BY BlankPointers
  <2>2. old = Anchors(roots, first) \cup UNION {PointersOf(c, p) : p \in 1 .. PageCount}
    BY Zenon DEF Pointers
  <2>3. x \in Anchors(roots, first) <=> x \in trees \/ (first # 0 /\ x = header0)
    BY DEF Anchors
  <2> HIDE DEF old, trees, header0, F
  <2>4. QED BY <2>1, <2>2, <2>3
<1>6. ASSUME NEW x
      PROVE  x \in all <=> x \in base \/ x = header1 \/ x \in links
  <2>1. \A p \in (1 .. PageCount) \ F : PointersOf(d, p) = PointersOf(c, p)
    BY SamePointers
  <2>2. all = Anchors(roots, free[1]) \cup UNION {PointersOf(d, p) : p \in 1 .. PageCount}
    BY Zenon DEF Pointers
  <2>3. x \in Anchors(roots, free[1]) <=> x \in trees \/ x = header1
    BY <1>1 DEF Anchors
  <2>4. x \in links <=> \E p \in F : x \in PointersOf(d, p)
    <3> HIDE DEF F, n
    <3>1. x \in links <=> \E i \in 1 .. n : x \in PointersOf(d, free[i])
      BY DEF Links
    <3>2. QED BY <1>1, <3>1
  <2>5. F \subseteq 1 .. PageCount
    BY <1>2
  <2> HIDE DEF all, trees, header1, F, links
  <2>6. QED BY <2>1, <2>2, <2>3, <2>4, <2>5
<1>7. /\ \A x \in links : x[2] \in {"free", "trunk"}
      /\ \A x \in links : \E i \in 1 .. n : /\ x[1] = free[i]
           /\ \/ first # 0 /\ x[4] = first /\ x[2] = "trunk"
              \/ \E j \in i + 1 .. n : x[4] = free[j] /\ Fits(d, x)
      /\ \A j \in 2 .. n : \E x \in links : x[4] = free[j]
      /\ first # 0 => \E x \in links : x[4] = first
      /\ \A x, y \in links : x[4] = y[4] => x = y
      /\ \A i \in 1 .. n : d[free[i]].kind \in {"trunk", "blank"}
      /\ d[free[1]].kind = "trunk"
  BY <1>1 DEF Linked
<1>8. /\ \A x \in old : x[4] \in owned /\ Fits(c, x)
      /\ \A p \in owned : \E x \in old : \A y \in old : y[4] = p <=> y = x
      /\ \A S \in (SUBSET owned) \ {{}} : \E x \in old : x[4] \in S /\ x[1] \notin S
      /\ \A p \in owned : c[p].kind = "tree" =>
           \A i \in DOMAIN c[p].overflows :
             ChainFits(c, c[p].overflows[i][1], c[p].overflows[i][2])
      /\ count = Cardinality({p \in owned : \E x \in old : x[4] = p /\ x[2] \in {"free", "trunk"}})
  <2> DEFINE h == [first |-> first, free |-> count]
  <2>1. h.first = first /\ h.free = count /\ Sound(c, roots, h, owned)
    OBVIOUS
  <2>2. old = Pointers(c, roots, h.first) /\ count = h.free
    BY <2>1
  <2> HIDE DEF h
  <2> DEFINE P == Pointers(c, roots, h.first)
  <2>3. /\ \A x \in P : x[4] \in owned /\ Fits(c, x)
        /\ \A p \in owned : \E x \in P : \A y \in P : y[4] = p <=> y = x
        /\ \A S \in (SUBSET owned) \ {{}} : \E x \in P : x[4] \in S /\ x[1] \notin S
        /\ \A p \in owned : c[p].kind = "tree" =>
             \A i \in DOMAIN c[p].overflows :
               ChainFits(c, c[p].overflows[i][1], c[p].overflows[i][2])
        /\ h.free = Cardinality({p \in owned : \E x \in P : x[4] = p /\ x[2] \in {"free", "trunk"}})
    BY <2>1, Zenon DEF Sound
  <2> HIDE DEF old, P
  <2>4. old = P
    BY <2>2 DEF P
  <2> DEFINE Q(A) == {p \in owned : \E x \in A : x[4] = p /\ x[2] \in {"free", "trunk"}}
  <2>5. h.free = Cardinality(Q(P)) /\ h.free = count
    BY <2>1, <2>3, Zenon
  <2>6. Q(old) = Q(P)
    BY <2>4
  <2>7. count = Cardinality(Q(old))
    <3> HIDE DEF Q
    <3>1. QED BY <2>5, <2>6
  <2>8. /\ \A x \in old : x[4] \in owned /\ Fits(c, x)
        /\ \A p \in owned : \E x \in old : \A y \in old : y[4] = p <=> y = x
        /\ \A S \in (SUBSET owned) \ {{}} : \E x \in old : x[4] \in S /\ x[1] \notin S
    BY <2>3, <2>4
  <2>9. QED BY <2>3, <2>7, <2>8, Zenon
<1>9. header0 \notin base
  <2>1. \A p \in (1 .. PageCount) \ F : \A x \in PointersOf(c, p) : x[1] = p
    BY PointersStand
  <2> HIDE DEF trees, header0, F
  <2>2. QED BY <1>3, <1>4, <2>1
<1> HIDE DEF n, F, header0, header1, trees, base, old, all, links
<1>10. /\ \A x \in base : x[4] \in owned /\ Fits(c, x) /\ x[4] \notin F /\ (first # 0 => x[4] # first)
       /\ first # 0 => first \in owned /\ Fits(c, header0)
       /\ \A x \in links : x[4] \in F \/ (first # 0 /\ x[4] = first)
       /\ \A x \in links : x[4] # free[1]
  <2>1. \A x \in base : x \in old /\ x[4] \in owned /\ Fits(c, x) /\ x[4] \notin F
    BY <1>2, <1>5, <1>8
  <2>2. first # 0 => header0 \in old /\ first \in owned /\ Fits(c, header0)
    BY <1>3, <1>5, <1>8
  <2>3. ASSUME first # 0, NEW x \in base, x[4] = first
        PROVE  FALSE
    <3>1. PICK z \in old : \A y \in old : y[4] = first <=> y = z
      BY <1>8, <2>2, <2>3
    <3>2. x = header0
      BY <1>3, <2>1, <2>2, <2>3, <3>1
    <3>3. QED BY <1>9, <2>3, <3>2
  <2>4. ASSUME NEW x \in links
        PROVE  (x[4] \in F \/ (first # 0 /\ x[4] = first)) /\ x[4] # free[1]
    <3>1. CASE first # 0 /\ x[4] = first
      BY <1>1, <3>1
    <3>2. CASE \E i \in 1 .. n : \E j \in i + 1 .. n : x[4] = free[j]
      <4>1. PICK i \in 1 .. n : \E j \in i + 1 .. n : x[4] = free[j]
        BY <3>2
      <4>2. PICK j \in i + 1 .. n : x[4] = free[j]
        BY <4>1
      <4>3. j \in 1 .. n /\ j # 1
        BY <1>1
      <4>4. QED BY <1>1, <4>2, <4>3
    <3>3. QED BY <1>7, <3>1, <3>2
  <2>5. QED BY <2>1, <2>2, <2>3, <2>4
\* Pointers name pages that can be owned and fit.
<1>11. \A x \in all : x[4] \in Ownable /\ Fits(d, x)
  <2>1. ASSUME NEW p \in owned
        PROVE  d[p] = c[p]
    BY <1>2, <2>1 DEF F
  <2>2. ASSUME NEW x \in base
        PROVE  x[4] \in Ownable /\ Fits(d, x)
    <3>1. d[x[4]] = c[x[4]] /\ x[4] \in Ownable /\ Fits(c, x)
      BY <1>2, <1>10, <2>1
    <3>2. QED BY <3>1 DEF Fits
  <2>3. header1[4] \in Ownable /\ Fits(d, header1)
    BY <1>1, <1>2, <1>3, <1>7 DEF Fits
  <2>4. ASSUME NEW x \in links
        PROVE  x[4] \in Ownable /\ Fits(d, x)
    <3>1. x[2] \in {"free", "trunk"} /\ x[4] \in Ownable
      BY <1>2, <1>7, <1>10
    <3>2. CASE first # 0 /\ x[4] = first /\ x[2] = "trunk"
      <4>1. d[first] = c[first] /\ c[first].kind = "trunk"
        <5>1. Fits(c, header0) /\ header0[2] = "trunk" /\ header0[4] = first
          BY <1>3, <1>10, <3>2
        <5>2. c[first].kind = "trunk"
          BY <5>1 DEF Fits
        <5>3. QED BY <1>10, <2>1, <3>2, <5>2
      <4>2. QED BY <3>1, <3>2, <4>1 DEF Fits
    <3>3. CASE \E i \in 1 .. n : \E j \in i + 1 .. n : Fits(d, x)
      BY <3>1, <3>3
    <3>4. QED BY <1>7, <3>2, <3>3
  <2>5. QED BY <1>6, <2>2, <2>3, <2>4
\* Every page is named once.
<1>12. \A p \in Ownable : \E x \in all : \A y \in all : y[4] = p <=> y = x
  <2> SUFFICES ASSUME NEW p \in Ownable
               PROVE  \E x \in all : \A y \in all : y[4] = p <=> y = x
    OBVIOUS
  <2>1. CASE p = free[1]
    <3>1. header1 \in all
      BY <1>6
    <3>2. ASSUME NEW y \in all
          PROVE  y[4] = p <=> y = header1
      BY <1>1, <1>3, <1>6, <1>10, <2>1, <3>2
    <3>3. QED BY <3>1, <3>2
  <2>2. ASSUME NEW j \in 2 .. n, p = free[j]
        PROVE  \E x \in all : \A y \in all : y[4] = p <=> y = x
    <3>1. PICK x \in links : x[4] = p
      BY <1>7, <2>2
    <3>2. p \in F /\ p # free[1]
      BY <1>1, <2>2
    <3>3. ASSUME NEW y \in all
          PROVE  y[4] = p <=> y = x
      BY <1>3, <1>6, <1>7, <1>10, <3>1, <3>2, <3>3
    <3>4. QED BY <1>6, <3>1, <3>3
  <2>3. CASE p \notin F
    <3>1. PICK x \in old : \A y \in old : y[4] = p <=> y = x
      BY <1>2, <1>8, <2>3
    <3>2. CASE x \in base
      <4>1. p # first \/ first = 0
        BY <1>5, <1>10, <3>1, <3>2
      <4>2. ASSUME NEW y \in all
            PROVE  y[4] = p <=> y = x
        BY <1>1, <1>3, <1>5, <1>6, <1>10, <2>3, <3>1, <3>2, <4>1, <4>2
      <4>3. QED BY <1>6, <3>2, <4>2
    <3>3. CASE first # 0 /\ x = header0
      <4>1. p = first
        BY <1>3, <3>1, <3>3
      <4>2. PICK z \in links : z[4] = first
        BY <1>7, <3>3
      <4>3. ASSUME NEW y \in all
            PROVE  y[4] = p <=> y = z
        <5>1. CASE y \in base
          BY <1>10, <3>3, <4>1, <4>2, <5>1
        <5>2. CASE y = header1
          BY <1>1, <1>3, <3>3, <4>1, <4>2, <5>2
        <5>3. CASE y \in links
          BY <1>7, <4>1, <4>2, <5>3
        <5>4. QED BY <1>6, <4>3, <5>1, <5>2, <5>3
      <4>4. QED BY <1>6, <4>2, <4>3
    <3>4. QED BY <1>5, <3>1, <3>2, <3>3
  <2>4. QED BY <1>1, <2>1, <2>2, <2>3
\* No group of pages is only named from within.
<1>13. \A S \in (SUBSET Ownable) \ {{}} : \E x \in all : x[4] \in S /\ x[1] \notin S
  <2> SUFFICES ASSUME NEW S \in (SUBSET Ownable) \ {{}}
               PROVE  \E x \in all : x[4] \in S /\ x[1] \notin S
    OBVIOUS
  <2>1. S \subseteq Ownable /\ S # {} /\ 0 \notin S
    BY <1>2
  <2>2. CASE S \cap F = {}
    <3>1. S \in (SUBSET owned) \ {{}}
      BY <1>2, <2>1, <2>2
    <3>2. PICK x \in old : x[4] \in S /\ x[1] \notin S
      BY <1>8, <3>1
    <3>3. CASE x \in base
      BY <1>6, <3>2, <3>3
    <3>4. CASE first # 0 /\ x = header0
      <4>1. PICK z \in links : z[4] = first
        BY <1>7, <3>4
      <4>2. z[1] \in F
        BY <1>1, <1>7
      <4>3. z[1] \notin S /\ z[4] \in S
        BY <1>3, <2>2, <3>2, <3>4, <4>1, <4>2
      <4>4. QED BY <1>6, <4>3
    <3>5. QED BY <1>5, <3>2, <3>3, <3>4
  <2>3. CASE S \cap F # {}
    <3> DEFINE places == {i \in 1 .. n : free[i] \in S}
    <3>1. places # {} /\ places \in SUBSET Nat
      BY <1>1, <2>3
    <3> HIDE DEF places
    <3>2. PICK j \in places : \A i \in places : j <= i
      BY <3>1, LeastNatural
    <3>3. j \in 1 .. n /\ free[j] \in S
      BY DEF places
    <3>4. CASE j = 1
      <4>1. header1[4] \in S /\ header1[1] \notin S
        BY <1>3, <2>1, <3>3, <3>4
      <4>2. QED BY <1>6, <4>1
    <3>5. CASE j # 1
      <4>1. j \in 2 .. n
        BY <1>1, <3>3, <3>5
      <4>2. PICK x \in links : x[4] = free[j]
        BY <1>7, <4>1
      <4>3. PICK i \in 1 .. n : /\ x[1] = free[i]
                                /\ \/ first # 0 /\ x[4] = first
                                   \/ \E k \in i + 1 .. n : x[4] = free[k]
        BY <1>7
      <4>4. PICK k \in i + 1 .. n : x[4] = free[k]
        BY <1>1, <3>3, <4>2, <4>3
      <4>5. k \in 1 .. n
        BY <1>1
      <4>6. k = j
        BY <1>1, <3>3, <4>2, <4>4, <4>5
      <4>7. i \notin places
        BY <1>1, <3>2, <3>3, <4>6
      <4>8. x[1] \notin S
        BY <4>3, <4>7 DEF places
      <4>9. QED BY <1>6, <3>3, <4>2, <4>8
    <3>6. QED BY <3>4, <3>5
  <2>4. QED BY <2>2, <2>3
\* The overflow chains are as they were.
<1>14. ASSUME NEW p \in Ownable, d[p].kind = "tree", NEW i \in DOMAIN d[p].overflows
       PROVE  ChainFits(d, d[p].overflows[i][1], d[p].overflows[i][2])
  <2>1. p \notin F
    <3>1. \A q \in F : d[q].kind \in {"trunk", "blank"}
      BY <1>1, <1>7
    <3>2. QED BY <1>14, <3>1
  <2>2. d[p] = c[p] /\ p \in owned
    BY <1>2, <1>14, <2>1 DEF F
  <2> DEFINE from == d[p].overflows[i][1]
             long == d[p].overflows[i][2]
  <2>3. ChainFits(c, from, long)
    BY <1>8, <1>14, <2>2
  <2> HIDE DEF from, long
  <2>4. \A q \in 1 .. PageCount : c[q].kind = "chain" => d[q] = c[q]
    <3>1. \A q \in F : c[q].kind # "chain"
      BY DEF Blank, F
    <3>2. QED BY <3>1 DEF F
  <2>5. /\ long \in Nat \ {0}
        /\ \E g \in [1 .. long -> {q \in 1 .. PageCount : c[q].kind = "chain"}] :
             /\ g[1] = from /\ c[g[long]].next = 0
             /\ \A e \in 1 .. long - 1 : c[g[e]].next = g[e + 1]
    BY <2>3, Zenon DEF ChainFits
  <2>6. PICK g \in [1 .. long -> {q \in 1 .. PageCount : c[q].kind = "chain"}] :
             /\ g[1] = from /\ c[g[long]].next = 0
             /\ \A e \in 1 .. long - 1 : c[g[e]].next = g[e + 1]
    BY <2>5
  <2>7. \A e \in 1 .. long : /\ g[e] \in 1 .. PageCount /\ c[g[e]].kind = "chain"
                             /\ d[g[e]] = c[g[e]]
    BY <2>4
  <2>8. long \in 1 .. long /\ \A e \in 1 .. long - 1 : e \in 1 .. long
    BY <2>5
  <2>9. g \in [1 .. long -> {q \in 1 .. PageCount : d[q].kind = "chain"}]
    BY <2>7
  <2>10. d[g[long]].next = 0 /\ \A e \in 1 .. long - 1 : d[g[e]].next = g[e + 1]
    BY <2>6, <2>7, <2>8
  <2>11. ChainFits(d, from, long)
    BY <2>5, <2>6, <2>9, <2>10, Zenon DEF ChainFits
  <2>12. QED BY <2>11 DEF from, long
\* The free pages are those of the older freelist and the new ones.
<1>15. count + n = Cardinality({p \in Ownable : \E x \in all : x[4] = p /\ x[2] \in {"free", "trunk"}})
  <2> DEFINE Q0 == {p \in owned : \E x \in old : x[4] = p /\ x[2] \in {"free", "trunk"}}
             Q1 == {p \in Ownable : \E x \in all : x[4] = p /\ x[2] \in {"free", "trunk"}}
  <2>1. ASSUME NEW p \in Q1
        PROVE  p \in Q0 \cup F
    <3>1. PICK x \in all : x[4] = p /\ x[2] \in {"free", "trunk"}
      OBVIOUS
    <3>2. CASE x \in base
      BY <1>5, <1>10, <3>1, <3>2
    <3>3. CASE x = header1
      BY <1>1, <1>3, <3>1, <3>3
    <3>4. CASE x \in links /\ first # 0 /\ p = first
      <4>1. header0 \in old /\ header0[4] = p /\ header0[2] = "trunk" /\ p \in owned
        BY <1>3, <1>5, <1>10, <3>4
      <4>2. QED BY <4>1
    <3>5. QED BY <1>6, <1>10, <3>1, <3>2, <3>3, <3>4
  <2>2. ASSUME NEW p \in F
        PROVE  p \in Q1
    <3>1. PICK i \in 1 .. n : p = free[i]
      BY <1>1
    <3>2. p \in Ownable
      BY <1>2
    <3>3. CASE i = 1
      <4>1. header1 \in all /\ header1[4] = p /\ header1[2] = "trunk"
        BY <1>3, <1>6, <3>1, <3>3
      <4>2. QED BY <3>2, <4>1
    <3>4. CASE i # 1
      <4>1. i \in 2 .. n
        BY <1>1, <3>1, <3>4
      <4>2. PICK x \in links : x[4] = p
        BY <1>7, <3>1, <4>1
      <4>3. x \in all /\ x[2] \in {"free", "trunk"}
        BY <1>6, <1>7
      <4>4. QED BY <3>2, <4>2, <4>3
    <3>5. QED BY <3>3, <3>4
  <2>3. ASSUME NEW p \in Q0
        PROVE  p \in Q1
    <3>1. PICK x \in old : x[4] = p /\ x[2] \in {"free", "trunk"}
      OBVIOUS
    <3>2. p \in Ownable
      BY <1>2
    <3>3. CASE x \in base
      BY <1>6, <3>1, <3>2, <3>3
    <3>4. CASE first # 0 /\ x = header0
      <4>1. PICK z \in links : z[4] = first
        BY <1>7, <3>4
      <4>2. z \in all /\ z[2] \in {"free", "trunk"} /\ z[4] = p
        BY <1>3, <1>6, <1>7, <3>1, <3>4, <4>1
      <4>3. QED BY <3>2, <4>2
    <3>5. QED BY <1>5, <3>1, <3>3, <3>4
  <2>4. Q1 = Q0 \cup F /\ Q0 \cap F = {}
    <3>1. Q0 \cap F = {}
      BY <1>2
    <3> HIDE DEF Q0, Q1
    <3>2. QED BY <2>1, <2>2, <2>3, <3>1
  <2>5. Q0 \subseteq 1 .. PageCount /\ F \subseteq 1 .. PageCount
    BY <1>2
  <2>6. count = Cardinality(Q0)
    BY <1>8
  <2> HIDE DEF Q0, Q1
  <2>7. IsFiniteSet(1 .. PageCount)
    BY FS_Interval
  <2>8. IsFiniteSet(Q0) /\ IsFiniteSet(F)
    BY <2>5, <2>7, FS_Subset
  <2>9. Cardinality(F) = n
    <3>1. free \in Bijection(1 .. n, F)
      <4>1. free \in [1 .. n -> F]
        <5>1. free \in Seq(Nat \ {0})
          BY DEF PageList
        <5>2. free = [i \in 1 .. n |-> free[i]]
          BY <5>1 DEF n
        <5>3. QED BY <1>1, <5>2
      <4>2. QED BY <1>1, <4>1 DEF Bijection, Injection, Surjection, IsInjective
    <3>2. IsFiniteSet(1 .. n) /\ Cardinality(1 .. n) = n
      BY <1>1, FS_Interval
    <3> HIDE DEF n
    <3>3. ExistsBijection(1 .. n, F)
      BY <3>1 DEF ExistsBijection
    <3>4. QED BY <3>2, <3>3, FS_Bijection, Zenon
  <2>10. Cardinality(Q0 \cup F) = Cardinality(Q0) + Cardinality(F)
    <3>1. Cardinality(Q0 \cup F) = Cardinality(Q0) + Cardinality(F) - Cardinality(Q0 \cap F)
      BY <2>8, FS_Union, Zenon
    <3>2. Cardinality(Q0 \cap F) = 0
      BY <2>4, FS_EmptySet
    <3>3. Cardinality(Q0) \in Nat /\ Cardinality(F) \in Nat
      BY <2>8, FS_CardinalityType
    <3>4. QED BY <3>1, <3>2, <3>3
  <2>11. QED BY <2>4, <2>6, <2>9, <2>10 DEF Q1
<1>16. QED
  <2> DEFINE h == [first |-> free[1], free |-> count + Len(free)]
  <2>1. h.first = free[1] /\ h.free = count + n
    BY DEF n
  <2> HIDE DEF h
  <2> DEFINE P == Pointers(d, roots, h.first)
  <2>2. all = P
    BY <2>1 DEF all
  <2> HIDE DEF P
  <2> DEFINE Q(A) == {p \in Ownable : \E x \in A : x[4] = p /\ x[2] \in {"free", "trunk"}}
  <2>3. h.free = Cardinality(Q(P))
    <3>1. Q(all) = Q(P)
      BY <2>2
    <3>2. count + n = Cardinality(Q(all))
      BY <1>15, Zenon
    <3> HIDE DEF Q
    <3>3. QED BY <2>1, <3>1, <3>2
  <2>4. /\ \A x \in P : x[4] \in Ownable /\ Fits(d, x)
        /\ \A p \in Ownable : \E x \in P : \A y \in P : y[4] = p <=> y = x
        /\ \A S \in (SUBSET Ownable) \ {{}} : \E x \in P : x[4] \in S /\ x[1] \notin S
    BY <1>11, <1>12, <1>13, <2>2
  <2>5. Sound(d, roots, h, Ownable)
    BY <1>14, <2>3, <2>4, Zenon DEF Sound, P
  <2>6. QED BY <2>5 DEF h

-----------------------------------------------------------------------------
(* Writing the freelist.                                                    *)

LEMMA LeastOfTwo ==
  ASSUME NEW a \in Nat, NEW b \in Nat
  PROVE  Least({a, b}) = IF a <= b THEN a ELSE b
<1> DEFINE least == IF a <= b THEN a ELSE b
<1>1. least \in {a, b} /\ \A y \in {a, b} : least <= y
  OBVIOUS
<1>2. \A x \in {a, b} : (\A y \in {a, b} : x <= y) => x = least
  OBVIOUS
<1> HIDE DEF least
<1>3. \E x \in {a, b} : \A y \in {a, b} : x <= y
  BY <1>1
<1>4. Least({a, b}) \in {a, b} /\ \A y \in {a, b} : Least({a, b}) <= y
  BY <1>3, Zenon DEF Least
<1>5. Least({a, b}) = least
  BY <1>2, <1>4
<1>6. QED BY <1>5 DEF least

\* A part of a sequence.
Piece(A, s, p, e) ==
  /\ SubSeq(s, p, e) \in Seq(A)
  /\ Len(SubSeq(s, p, e)) = IF p <= e THEN e - p + 1 ELSE 0
  /\ \A i \in 1 .. e - p + 1 : SubSeq(s, p, e)[i] = s[p + i - 1]

LEMMA PieceOf ==
  ASSUME NEW A, NEW s, NEW p \in Int, NEW e \in Int, \A i \in p .. e : s[i] \in A
  PROVE  Piece(A, s, p, e)
BY SubSeqProperties DEF Piece

\* u holds the pages after the k+1-th of a list; l of them are cut off, and what is left
\* is empty or begins with the next trunk.
After(A, free, k, l, u) ==
  /\ free \in Seq(A) /\ k \in Nat /\ l \in Nat /\ k + 1 + l <= Len(free)
  /\ u = SubSeq(free, k + 2, Len(free))
Cut(free, k, l, u) ==
  /\ Len(u) = Len(free) - k - 1
  /\ Len(SubSeq(u, 1, l)) = l /\ DOMAIN SubSeq(u, 1, l) = 1 .. l
  /\ \A i \in 1 .. l : SubSeq(u, 1, l)[i] = free[k + 1 + i]
  /\ SubSeq(u, l + 1, Len(u)) = <<>> <=> k + 1 + l = Len(free)
  /\ k + 1 + l # Len(free) =>
       /\ Head(SubSeq(u, l + 1, Len(u))) = free[k + l + 2]
       /\ Tail(SubSeq(u, l + 1, Len(u))) = SubSeq(free, k + l + 3, Len(free))

\* The pages after the trunk: its leaves, the next trunk and the others.
LEMMA Slices ==
  ASSUME NEW A, NEW free, NEW k, NEW l, NEW u, After(A, free, k, l, u)
  PROVE  Cut(free, k, l, u)
<1>0. /\ free \in Seq(A) /\ k \in Nat /\ l \in Nat /\ k + 1 + l <= Len(free)
      /\ u = SubSeq(free, k + 2, Len(free))
  BY DEF After
<1> USE <1>0
<1> DEFINE n == Len(free)
<1>1. n \in Nat /\ \A i \in 1 .. n : free[i] \in A
  OBVIOUS
<1>2. /\ u \in Seq(A) /\ Len(u) = IF k + 2 <= n THEN n - (k + 2) + 1 ELSE 0
      /\ \A i \in 1 .. n - (k + 2) + 1 : u[i] = free[(k + 2) + i - 1]
  <2>1. k + 2 \in Int /\ n \in Int /\ \A i \in k + 2 .. n : free[i] \in A
    BY <1>1
  <2>2. /\ SubSeq(free, k + 2, n) \in Seq(A)
        /\ Len(SubSeq(free, k + 2, n)) = IF k + 2 <= n THEN n - (k + 2) + 1 ELSE 0
        /\ \A i \in 1 .. n - (k + 2) + 1 : SubSeq(free, k + 2, n)[i] = free[(k + 2) + i - 1]
    <3> HIDE DEF n
    <3>1. QED BY <2>1, SubSeqProperties
  <2>3. QED BY <2>2
<1>3. /\ Len(u) = n - k - 1 /\ Len(u) \in Nat /\ l <= Len(u)
      /\ \A i \in 1 .. Len(u) : u[i] = free[k + 1 + i] /\ u[i] \in A
  <2> HIDE DEF n
  <2>1. Len(u) = n - k - 1 /\ Len(u) \in Nat /\ l <= Len(u)
    BY <1>1, <1>2 DEF n
  <2>2. ASSUME NEW i \in 1 .. Len(u)
        PROVE  u[i] = free[k + 1 + i] /\ u[i] \in A
    <3>1. i \in 1 .. n - (k + 2) + 1 /\ (k + 2) + i - 1 = k + 1 + i
      BY <1>1, <2>1, <2>2
    <3>2. u[i] = free[k + 1 + i]
      BY <1>2, <3>1
    <3>3. QED BY <1>2, <3>2
  <2>3. QED BY <2>1, <2>2
<1> DEFINE w == Len(u)
<1>4. /\ SubSeq(u, 1, l) \in Seq(A) /\ Len(SubSeq(u, 1, l)) = l
      /\ \A i \in 1 .. l : SubSeq(u, 1, l)[i] = u[i]
  <2>1. \A i \in 1 .. l : u[i] \in A
    BY <1>3
  <2>2. /\ SubSeq(u, 1, l) \in Seq(A)
        /\ Len(SubSeq(u, 1, l)) = IF 1 <= l THEN l - 1 + 1 ELSE 0
        /\ \A i \in 1 .. l - 1 + 1 : SubSeq(u, 1, l)[i] = u[1 + i - 1]
    BY <2>1, SubSeqProperties
  <2> DEFINE s == SubSeq(u, 1, l)
  <2> HIDE DEF s
  <2>3. s \in Seq(A) /\ Len(s) = l /\ \A i \in 1 .. l : s[i] = u[i]
    BY <2>2 DEF s
  <2>4. QED BY <2>3 DEF s
<1>5. DOMAIN SubSeq(u, 1, l) = 1 .. l
  BY <1>4, LenProperties
<1>6. \A i \in 1 .. l : SubSeq(u, 1, l)[i] = free[k + 1 + i]
  BY <1>3, <1>4
<1> USE DEF Cut
<1>7. CASE k + 1 + l = n
  <2>1. l + 1 \in Int /\ Len(u) \in Int /\ Len(u) < l + 1
    BY <1>1, <1>3, <1>7
  <2>2. SubSeq(u, l + 1, Len(u)) = <<>>
    BY <2>1, SubSeqEmpty
  <2>3. QED BY <1>2, <1>3, <1>4, <1>5, <1>6, <1>7, <2>2
<1>8. CASE k + 1 + l # n
  <2>1. /\ l + 1 \in 1 .. w /\ w \in l + 1 .. w /\ u[l + 1] = free[k + l + 2] /\ w = n - k - 1
    <3>1. l + 1 \in 1 .. w /\ w \in l + 1 .. w /\ k + 1 + (l + 1) = k + l + 2
      BY <1>1, <1>3, <1>8
    <3>2. u[l + 1] = free[k + 1 + (l + 1)]
      BY <1>3, <3>1, Zenon
    <3>3. QED BY <1>3, <3>1, <3>2
  <2>2. /\ Head(SubSeq(u, l + 1, w)) = u[l + 1]
        /\ Tail(SubSeq(u, l + 1, w)) = SubSeq(u, (l + 1) + 1, w)
    <3> HIDE DEF w
    <3>1. \A m \in 1 .. Len(u) : \A e \in m .. Len(u) :
            /\ Head(SubSeq(u, m, e)) = u[m]
            /\ Tail(SubSeq(u, m, e)) = SubSeq(u, m + 1, e)
      BY <1>2, HeadTailOfSubSeq
    <3>2. QED BY <2>1, <3>1 DEF w
  <2>3. SubSeq(u, l + 1, w) # <<>>
    <3>1. \A i \in l + 1 .. w : u[i] \in A
      BY <1>3
    <3>2. l + 1 \in Int /\ w \in Int
      BY <1>3
    <3> HIDE DEF w
    <3>3. Len(SubSeq(u, l + 1, w)) = IF l + 1 <= w THEN w - (l + 1) + 1 ELSE 0
      BY <3>1, <3>2, SubSeqProperties
    <3>4. w - (l + 1) + 1 # 0 /\ l + 1 <= w
      BY <2>1, <3>2
    <3>5. QED BY <3>3, <3>4
  <2>4. SubSeq(u, (l + 1) + 1, w) = SubSeq(free, k + l + 3, n)
    <3> DEFINE a == SubSeq(u, (l + 1) + 1, w)
               b == SubSeq(free, k + l + 3, n)
               e == w - l - 1
    <3>1. /\ \A i \in (l + 1) + 1 .. w : u[i] \in A
          /\ \A i \in k + l + 3 .. n : free[i] \in A
      BY <1>1, <1>3
    <3>2. (l + 1) + 1 \in Int /\ w \in Int /\ n \in Int /\ k + l + 3 \in Int
      BY <1>1, <1>3
    <3>3. /\ a \in Seq(A) /\ Len(a) = IF (l + 1) + 1 <= w THEN w - ((l + 1) + 1) + 1 ELSE 0
          /\ \A i \in 1 .. w - ((l + 1) + 1) + 1 : a[i] = u[((l + 1) + 1) + i - 1]
      <4>1. PICK p, z : p = (l + 1) + 1 /\ z = w
        OBVIOUS
      <4>2. p \in Int /\ z \in Int /\ \A i \in p .. z : u[i] \in A
        BY <3>1, <3>2, <4>1
      <4>3. Piece(A, u, p, z)
        BY <4>2, PieceOf
      <4> HIDE DEF w
      <4>4. QED BY <4>1, <4>3 DEF Piece
    <3>4. /\ b \in Seq(A) /\ Len(b) = IF k + l + 3 <= n THEN n - (k + l + 3) + 1 ELSE 0
          /\ \A i \in 1 .. n - (k + l + 3) + 1 : b[i] = free[(k + l + 3) + i - 1]
      <4> HIDE DEF n
      <4>1. QED BY <3>1, <3>2, SubSeqProperties
    <3> HIDE DEF a, b
    <3>5. e \in Nat /\ Len(a) = e /\ Len(b) = e
      <4> HIDE DEF w, n
      <4>1. QED BY <2>1, <3>2, <3>3, <3>4
    <3>6. ASSUME NEW i \in 1 .. e
          PROVE  a[i] = b[i]
      <4> HIDE DEF w, n
      <4>1. /\ i \in 1 .. w - ((l + 1) + 1) + 1 /\ i \in 1 .. n - (k + l + 3) + 1
            /\ ((l + 1) + 1) + i - 1 \in 1 .. w
            /\ k + 1 + (((l + 1) + 1) + i - 1) = (k + l + 3) + i - 1
        BY <2>1, <3>2, <3>6
      <4>2. a[i] = u[((l + 1) + 1) + i - 1] /\ b[i] = free[(k + l + 3) + i - 1]
        BY <3>3, <3>4, <4>1, Zenon
      <4>3. u[((l + 1) + 1) + i - 1] = free[k + 1 + (((l + 1) + 1) + i - 1)]
        BY <1>3, <4>1, Zenon DEF w
      <4>4. QED BY <4>1, <4>2, <4>3, Zenon
    <3> HIDE DEF e
    <3>7. a = b
      BY <3>3, <3>4, <3>5, <3>6, SeqEqual
    <3>8. QED BY <3>7 DEF a, b
  <2>5. QED BY <1>2, <1>3, <1>4, <1>5, <1>6, <1>8, <2>1, <2>2, <2>3, <2>4
<1>9. QED BY <1>7, <1>8

-----------------------------------------------------------------------------
(* The steps.                                                               *)

\* The unused pages of a file as the trees leave it.
LEMMA ImageList ==
  ASSUME NEW im \in Images, image = im
  PROVE  /\ PageList(FreePages(im.ranges), im.first)
         /\ Len(FreePages(im.ranges)) = FreeCount
         /\ Range(FreePages(im.ranges)) \subseteq Ownable /\ PageCount \in Nat
         /\ \A p \in Range(FreePages(im.ranges)) : im.content[p] = Blank
         /\ DOMAIN im.content = 1 .. PageCount
         /\ Sound(im.content, im.roots, [first |-> im.first, free |-> im.free],
                  Ownable \ Range(FreePages(im.ranges)))
<1> DEFINE free == FreePages(im.ranges)
           h == [first |-> im.first, free |-> im.free]
<1>1. /\ im.content \in [1 .. PageCount -> Pages] /\ im.roots \in Seq(Nat) /\ im.first \in Nat
      /\ Reserved \in 1 .. PageCount => im.content[Reserved] = Blank
      /\ im.ranges \in Seq(Nat \X Nat)
      /\ \A r \in DOMAIN im.ranges : im.ranges[r][1] < im.ranges[r][2]
      /\ IsInjective(free) /\ Range(free) \subseteq Ownable
      /\ \A p \in Range(free) : im.content[p] = Blank
      /\ Sound(im.content, im.roots, h, Ownable \ Range(free))
      /\ PageCount \in Nat
  <2>1. Left(im) /\ PageCount \in Nat
    BY FileAssumption
  <2>2. QED BY <2>1, Zenon DEF Left
<1>2. free \in Seq(Nat) /\ Len(free) = FreeCount
  <2>1. PICK ranges : ranges = im.ranges
    OBVIOUS
  <2>2. FreePages(ranges) \in Seq(Nat) /\ Len(FreePages(ranges)) = FreeCount
    BY <1>1, <2>1, FreePagesCounted
  <2>3. QED BY <2>1, <2>2, Zenon
<1>3. h.first = im.first
  OBVIOUS
<1> HIDE DEF free, h
<1>4. /\ DOMAIN free = 1 .. Len(free) /\ Len(free) \in Nat
      /\ \A i \in 1 .. Len(free) : free[i] \in Range(free)
  BY <1>2 DEF Range
<1>5. \A i \in 1 .. Len(free) : free[i] \in Nat \ {0}
  BY <1>1, <1>4 DEF Ownable
<1>6. free \in Seq(Nat \ {0})
  BY <1>2, <1>4, <1>5
<1>7. im.first # 0 => im.first \notin Range(free)
  <2> SUFFICES ASSUME im.first # 0
               PROVE  im.first \notin Range(free)
    OBVIOUS
  <2> DEFINE x == <<0, "trunk", 0, h.first>>
  <2>1. x \in Pointers(im.content, im.roots, h.first) /\ x[4] = im.first
    BY <1>3 DEF Pointers, Anchors
  <2> HIDE DEF x
  <2>2. \A y \in Pointers(im.content, im.roots, h.first) : y[4] \in Ownable \ Range(free)
    BY <1>1, Zenon DEF Sound
  <2>3. QED BY <2>1, <2>2
<1>8. \A i \in 1 .. Len(free) : free[i] # im.first
  BY <1>4, <1>5, <1>7
<1>9. \A i, j \in 1 .. Len(free) : free[i] = free[j] => i = j
  BY <1>1, <1>4 DEF IsInjective
<1>10. PageList(free, im.first)
  BY <1>6, <1>8, <1>9 DEF PageList
<1>11. DOMAIN im.content = 1 .. PageCount
  BY <1>1
<1>12. QED BY <1>1, <1>2, <1>10, <1>11 DEF free, h

\* FileAt in terms of its parameters: what is still to be written, what was written,
\* and the pages.
Unwritten(im, free, h, u, t, k, dmg) ==
  /\ ~dmg /\ h = [first |-> im.first, free |-> im.free]
  /\ t = 0 => k = 0 /\ u = free
  /\ t # 0 => k < Len(free) /\ t = free[k + 1] /\ u = SubSeq(free, k + 2, Len(free))
Complete(im, free, h, k) ==
  /\ k = Len(free)
  /\ free = <<>> => h = [first |-> im.first, free |-> im.free]
  /\ free # <<>> => h = [first |-> free[1], free |-> im.free + k]
PagesAt(im, free, c, k) ==
  /\ DOMAIN c = 1 .. PageCount
  /\ k = 0 => c = im.content
  /\ \A p \in 1 .. PageCount : p \notin {free[i] : i \in 1 .. k} => c[p] = im.content[p]
  /\ Linked(free, im.first, c, k)
FileState(im, free, c, h, u, t, k, w, dmg) ==
  /\ im \in Images /\ w \in {"trunks", "written"}
  /\ w = "trunks" => Unwritten(im, free, h, u, t, k, dmg)
  /\ w = "written" /\ ~dmg => Complete(im, free, h, k)
  /\ ~dmg => PagesAt(im, free, c, k)

LEMMA FileMeans ==
  /\ FileAt <=> FileState(image, FreePages(image.ranges), content, header, unused, trunk,
                          counted, written, damaged)
  /\ FileAt' <=> FileState(image', FreePages(image'.ranges), content', header', unused', trunk',
                           counted', written', damaged')
<1>1. FileAt <=> FileState(image, FreePages(image.ranges), content, header, unused, trunk,
                          counted, written, damaged)
  BY DEF FileAt, FileState, Unwritten, Complete, PagesAt
<1>2. FileAt' <=> FileState(image', FreePages(image'.ranges), content', header', unused', trunk',
                           counted', written', damaged')
  BY DEF FileAt, FileState, Unwritten, Complete, PagesAt
<1>3. QED BY <1>1, <1>2

\* No page is linked yet.
LEMMA NothingLinked ==
  ASSUME NEW free, NEW first, NEW c, PageList(free, first)
  PROVE  Linked(free, first, c, 0)
<1>1. Links(free, c, 0) = {}
  BY DEF Links
<1>2. Len(free) \in Nat
  BY DEF PageList
<1> DEFINE links == Links(free, c, 0)
<1> HIDE DEF links
<1>3. links = {}
  BY <1>1 DEF links
<1>4. 0 \in 0 .. Len(free) /\ \A i : i \notin 1 .. 0
  BY <1>2
<1>5. QED BY <1>3, <1>4 DEF Linked, links

LEMMA FileStart ==
  ASSUME FileInit
  PROVE  FileAt
<1>1. /\ image \in Images /\ content = image.content
      /\ header = [first |-> image.first, free |-> image.free]
      /\ unused = FreePages(image.ranges) /\ trunk = 0 /\ counted = 0
      /\ written = "trunks" /\ ~damaged
  BY DEF FileInit
<1>2. PICK im \in Images : image = im
  BY <1>1
<1> DEFINE free == FreePages(im.ranges)
<1>3. PageList(free, im.first) /\ DOMAIN im.content = 1 .. PageCount
  BY <1>2, ImageList
<1>4. Linked(free, im.first, im.content, 0)
  BY <1>3, NothingLinked
<1> HIDE DEF free
<1>5. PagesAt(im, free, content, 0)
  BY <1>1, <1>2, <1>3, <1>4 DEF PagesAt
<1>6. Unwritten(im, free, header, unused, trunk, 0, damaged)
  BY <1>1, <1>2, Zenon DEF Unwritten, free
<1>7. FileState(im, free, content, header, unused, trunk, 0, written, damaged)
  BY <1>1, <1>5, <1>6, Zenon DEF FileState
<1>8. QED BY <1>1, <1>2, <1>7, FileMeans DEF free

LEMMA StartTrunksAt ==
  ASSUME FileAt, StartTrunks
  PROVE  FileAt'
<1>1. /\ written = "trunks" /\ trunk = 0
      /\ UNCHANGED <<image, content, header, counted, damaged>>
  BY DEF StartTrunks
<1>2. PICK im \in Images : image = im
  BY FileMeans DEF FileState
<1> DEFINE free == FreePages(im.ranges)
<1>3. PageList(free, im.first)
  BY <1>2, ImageList
<1> HIDE DEF free
<1>4. FileState(im, free, content, header, unused, trunk, counted, written, damaged)
  BY <1>2, FileMeans DEF free
<1>5. /\ Unwritten(im, free, header, unused, trunk, counted, damaged)
      /\ PagesAt(im, free, content, counted)
  BY <1>1, <1>4 DEF FileState, Unwritten
<1>6. ~damaged /\ counted = 0 /\ unused = free /\ header = [first |-> im.first, free |-> im.free]
  BY <1>1, <1>5 DEF Unwritten
<1>7. CASE unused = <<>>
  <2>1. written' = "written" /\ UNCHANGED <<unused, trunk>>
    BY <1>7, Zenon DEF StartTrunks
  <2>2. Complete(im, free, header, counted)
    BY <1>6, <1>7 DEF Complete
  <2>3. FileState(im, free, content, header, unused, trunk, counted, written', damaged)
    BY <1>5, <2>1, <2>2 DEF FileState
  <2>4. QED BY <1>1, <1>2, <2>1, <2>3, FileMeans DEF free
<1>8. CASE unused # <<>>
  <2>1. trunk' = Head(unused) /\ unused' = Tail(unused) /\ written' = written
    BY <1>8, Zenon DEF StartTrunks
  <2>2. /\ free \in Seq(Nat \ {0}) /\ Len(free) \in Nat /\ Len(free) # 0 /\ free # <<>>
        /\ Head(free) = free[1] /\ free[1] # 0
    BY <1>3, <1>6, <1>8 DEF PageList
  <2>3. Tail(free) = SubSeq(free, 2, Len(free))
    BY <2>2, TailIsSubSeq
  <2>4. Unwritten(im, free, header, unused', trunk', counted, damaged)
    BY <1>6, <2>1, <2>2, <2>3 DEF Unwritten
  <2>5. FileState(im, free, content, header, unused', trunk', counted, written, damaged)
    BY <1>1, <1>5, <2>4 DEF FileState
  <2>6. QED BY <1>1, <1>2, <2>1, <2>5, FileMeans DEF free
<1>9. QED BY <1>7, <1>8

LEMMA WriteTrunkAt ==
  ASSUME FileAt, WriteTrunk
  PROVE  FileAt'
<1> DEFINE leaves == SubSeq(unused, 1, Least({TrunkSlots, Len(unused)}))
           rest   == SubSeq(unused, Len(leaves) + 1, Len(unused))
           onward == IF rest = <<>> THEN image.first ELSE Head(rest)
<1>1. /\ written = "trunks" /\ trunk # 0 /\ UNCHANGED <<image, damaged>>
      /\ content' = [content EXCEPT ![trunk] = Trunk(onward, leaves)]
      /\ counted' = counted + Len(leaves) + 1
      /\ rest # <<>> => trunk' = onward /\ unused' = Tail(rest) /\ UNCHANGED <<written, header>>
      /\ rest = <<>> =>
           /\ unused' = <<>> /\ UNCHANGED trunk
           /\ counted' # FreeCount => written' = "failed" /\ UNCHANGED header
           /\ counted' = FreeCount =>
                /\ written' = "written"
                /\ header' = [first |-> FreePages(image.ranges)[1], free |-> image.free + counted']
  BY Zenon DEF WriteTrunk, NextTrunk
<1>2. PICK im \in Images : image = im
  BY FileMeans DEF FileState
<1> DEFINE free == FreePages(im.ranges)
           n == Len(free)
           l == Len(leaves)
<1>3. /\ PageList(free, im.first) /\ n = FreeCount /\ Range(free) \subseteq Ownable
      /\ \A p \in Range(free) : im.content[p] = Blank
  BY <1>2, ImageList
<1> HIDE DEF free
<1>4. FileState(im, free, content, header, unused, trunk, counted, written, damaged)
  BY <1>2, FileMeans DEF free
<1>5. /\ Unwritten(im, free, header, unused, trunk, counted, damaged)
      /\ PagesAt(im, free, content, counted)
  BY <1>1, <1>4 DEF FileState, Unwritten
<1>6. /\ ~damaged /\ header = [first |-> im.first, free |-> im.free]
      /\ counted < n /\ trunk = free[counted + 1] /\ unused = SubSeq(free, counted + 2, n)
  BY <1>1, <1>5 DEF Unwritten
<1>7. /\ DOMAIN content = 1 .. PageCount /\ Linked(free, im.first, content, counted)
      /\ \A p \in 1 .. PageCount : p \notin {free[i] : i \in 1 .. counted} => content[p] = im.content[p]
  BY <1>5 DEF PagesAt
<1>8. /\ counted \in Nat /\ n \in Nat /\ free \in Seq(Nat \ {0}) /\ DOMAIN free = 1 .. n
      /\ \A i \in 1 .. n : free[i] \in Range(free) /\ free[i] \in 1 .. PageCount /\ free[i] # 0
      /\ \A i, j \in 1 .. n : free[i] = free[j] => i = j
  <2>1. counted \in 0 .. n
    BY <1>7 DEF Linked
  <2>2. free \in Seq(Nat \ {0}) /\ n \in Nat /\ \A i, j \in 1 .. n : free[i] = free[j] => i = j
    BY <1>3 DEF PageList
  <2>3. DOMAIN free = 1 .. n /\ \A i \in 1 .. n : free[i] \in Range(free)
    BY <2>2 DEF Range
  <2>4. QED BY <1>3, <2>1, <2>2, <2>3 DEF Ownable
<1> HIDE DEF n
\* How many leaves the trunk has.
<1>9. l \in Nat /\ counted + 1 + l <= n /\ leaves = SubSeq(unused, 1, l)
  <2>1. Len(unused) = n - counted - 1 /\ Len(unused) \in Nat
    <3>1. After(Nat \ {0}, free, counted, 0, unused)
      BY <1>6, <1>8 DEF n, After
    <3>2. Cut(free, counted, 0, unused)
      BY <3>1, Slices
    <3>3. Len(unused) = Len(free) - counted - 1
      BY <3>2, Zenon DEF Cut
    <3>4. counted \in Nat /\ n \in Nat /\ counted < n /\ Len(free) = n
      BY <1>6, <1>8 DEF n
    <3>5. Len(unused) = n - counted - 1
      BY <3>3, <3>4
    <3>6. QED BY <3>4, <3>5
  <2>2. TrunkSlots \in Nat
    BY FileAssumption
  <2> DEFINE m == Least({TrunkSlots, Len(unused)})
  <2>3. m = IF TrunkSlots <= Len(unused) THEN TrunkSlots ELSE Len(unused)
    BY <2>1, <2>2, LeastOfTwo
  <2> HIDE DEF m
  <2>4. m \in Nat /\ counted + 1 + m <= Len(free) /\ unused = SubSeq(free, counted + 2, Len(free))
    <3>1. /\ counted \in Nat /\ n \in Nat /\ counted < n /\ Len(free) = n
          /\ unused = SubSeq(free, counted + 2, Len(free))
      BY <1>6, <1>8 DEF n
    <3>2. m \in Nat /\ m <= Len(unused)
      BY <2>1, <2>2, <2>3
    <3>3. counted + 1 + m <= n
      BY <2>1, <3>1, <3>2
    <3>4. QED BY <3>1, <3>2, <3>3
  <2>5. Len(SubSeq(unused, 1, m)) = m
    <3>1. After(Nat \ {0}, free, counted, m, unused)
      BY <1>8, <2>4, Zenon DEF After
    <3>2. Cut(free, counted, m, unused)
      BY <3>1, Slices
    <3>3. QED BY <3>2, Zenon DEF Cut
  <2>6. QED BY <2>4, <2>5 DEF m, n
<1> HIDE DEF l, leaves
<1>10. /\ DOMAIN leaves = 1 .. l /\ \A i \in 1 .. l : leaves[i] = free[counted + 1 + i]
       /\ rest = SubSeq(unused, l + 1, Len(unused))
       /\ rest = <<>> <=> counted + 1 + l = n
       /\ counted + 1 + l # n =>
            Head(rest) = free[counted + l + 2] /\ Tail(rest) = SubSeq(free, counted + l + 3, n)
  <2>1. rest = SubSeq(unused, l + 1, Len(unused))
    BY DEF l
  <2> HIDE DEF rest
  <2>2. counted + 1 + l <= Len(free) /\ unused = SubSeq(free, counted + 2, Len(free))
    BY <1>6, <1>9 DEF n
  <2>3. /\ DOMAIN SubSeq(unused, 1, l) = 1 .. l
        /\ \A i \in 1 .. l : SubSeq(unused, 1, l)[i] = free[counted + 1 + i]
        /\ SubSeq(unused, l + 1, Len(unused)) = <<>> <=> counted + 1 + l = Len(free)
        /\ counted + 1 + l # Len(free) =>
             /\ Head(SubSeq(unused, l + 1, Len(unused))) = free[counted + l + 2]
             /\ Tail(SubSeq(unused, l + 1, Len(unused))) = SubSeq(free, counted + l + 3, Len(free))
    <3>1. After(Nat \ {0}, free, counted, l, unused)
      BY <1>8, <1>9, <2>2, Zenon DEF After
    <3>2. Cut(free, counted, l, unused)
      BY <3>1, Slices
    <3>3. QED BY <3>2, Zenon DEF Cut
  <2>4. QED BY <1>9, <2>1, <2>3, Zenon DEF n
<1>11. onward = IF counted + 1 + l = n THEN im.first ELSE free[counted + l + 2]
  BY <1>2, <1>10
<1> HIDE DEF onward, rest
<1>12. counted' = counted + 1 + l
  BY <1>1, <1>8, <1>9 DEF l
\* The pages.
<1>13. /\ DOMAIN content' = 1 .. PageCount /\ content'[trunk] = Trunk(onward, leaves)
       /\ \A p \in 1 .. PageCount : p # trunk => content'[p] = content[p]
  <2>1. trunk \in DOMAIN content
    <3>1. counted + 1 \in 1 .. n
      BY <1>6, <1>8
    <3>2. QED BY <1>6, <1>7, <1>8, <3>1, Zenon
  <2>2. QED BY <1>1, <1>7, <2>1
<1>14. Linked(free, im.first, content', counted + 1 + l)
  <2>1. PICK k \in Nat : k = counted
    BY <1>8
  <2>2. \A i \in k + 1 .. Len(free) : content[free[i]] = Blank
    <3>1. ASSUME NEW i \in k + 1 .. Len(free)
          PROVE  content[free[i]] = Blank
      <4>1. i \in 1 .. n /\ i \notin 1 .. k
        BY <1>8, <2>1 DEF n
      <4>2. free[i] \in 1 .. PageCount /\ free[i] \in Range(free)
        BY <1>8, <4>1
      <4>3. free[i] \notin {free[j] : j \in 1 .. counted}
        BY <1>6, <1>8, <2>1, <4>1
      <4>4. QED BY <1>3, <1>7, <4>2, <4>3
    <3>2. QED BY <3>1
  <2>3. \A i \in 1 .. Len(free) : i # k + 1 => content'[free[i]] = content[free[i]]
    <3>1. ASSUME NEW i \in 1 .. Len(free), i # k + 1
          PROVE  content'[free[i]] = content[free[i]]
      <4>1. i \in 1 .. n /\ k + 1 \in 1 .. n
        BY <1>6, <1>8, <2>1 DEF n
      <4>2. free[i] # trunk /\ free[i] \in 1 .. PageCount
        BY <1>6, <1>8, <2>1, <3>1, <4>1
      <4>3. QED BY <1>13, <4>2
    <3>2. QED BY <3>1
  <2>4. /\ k + 1 + l <= Len(free) /\ DOMAIN leaves = 1 .. l
        /\ \A i \in 1 .. l : leaves[i] = free[k + 1 + i]
        /\ onward = IF k + 1 + l = Len(free) THEN im.first ELSE free[k + l + 2]
    BY <1>9, <1>10, <1>11, <2>1 DEF n
  <2>5. content'[free[k + 1]] = Trunk(onward, leaves)
    BY <1>6, <1>13, <2>1
  <2>6. Linked(free, im.first, content, k)
    BY <1>7, <2>1
  <2>7. Linked(free, im.first, content', k + 1 + l)
    <3>1. Extends(free, im.first, content, content', k, l, leaves, onward)
      BY <1>9, <2>2, <2>3, <2>4, <2>5, Zenon DEF Extends
    <3>2. PICK c, d, some, to, e :
            c = content /\ d = content' /\ some = leaves /\ to = onward /\ e = l
      OBVIOUS
    <3>3. Extends(free, im.first, c, d, k, e, some, to) /\ Linked(free, im.first, c, k)
      BY <2>6, <3>1, <3>2
    <3>4. Linked(free, im.first, d, k + 1 + e)
      BY <1>3, <3>3, LinkTrunk
    <3>5. QED BY <3>2, <3>4, Zenon
  <2>8. QED BY <2>1, <2>7
<1>15. PagesAt(im, free, content', counted')
  <2>1. ASSUME NEW p \in 1 .. PageCount, p \notin {free[i] : i \in 1 .. counted + 1 + l}
        PROVE  content'[p] = im.content[p]
    <3>1. counted + 1 \in 1 .. counted + 1 + l /\ 1 .. counted \subseteq 1 .. counted + 1 + l
      BY <1>8, <1>9
    <3>2. p # trunk /\ p \notin {free[i] : i \in 1 .. counted}
      BY <1>6, <2>1, <3>1
    <3>3. QED BY <1>7, <1>13, <3>2
  <2>2. counted + 1 + l # 0
    BY <1>8, <1>9
  <2>3. QED BY <1>12, <1>13, <1>14, <2>1, <2>2 DEF PagesAt
<1>16. CASE rest # <<>>
  <2>1. trunk' = onward /\ unused' = Tail(rest) /\ UNCHANGED <<written, header>>
    BY <1>1, <1>16
  <2>2. /\ counted + 1 + l < n /\ trunk' = free[(counted + 1 + l) + 1] /\ trunk' # 0
        /\ unused' = SubSeq(free, (counted + 1 + l) + 2, n)
    <3>1. /\ counted + 1 + l # n /\ (counted + 1 + l) + 1 = counted + l + 2
          /\ (counted + 1 + l) + 2 = counted + l + 3
      BY <1>8, <1>9, <1>10, <1>16
    <3>2. counted + l + 2 \in 1 .. n
      BY <1>8, <1>9, <3>1
    <3>3. trunk' = free[counted + l + 2] /\ trunk' # 0
      BY <1>8, <1>11, <2>1, <3>1, <3>2
    <3>4. unused' = SubSeq(free, counted + l + 3, n)
      BY <1>10, <2>1, <3>1
    <3>5. QED BY <1>8, <1>9, <3>1, <3>3, <3>4
  <2>3. Unwritten(im, free, header', unused', trunk', counted', damaged')
    BY <1>1, <1>6, <1>12, <2>1, <2>2, Zenon DEF Unwritten, n
  <2>4. FileState(im, free, content', header', unused', trunk', counted', written', damaged')
    BY <1>1, <1>15, <2>1, <2>3 DEF FileState
  <2>5. QED BY <1>1, <1>2, <2>4, FileMeans DEF free
<1>17. CASE rest = <<>>
  <2>1. counted' = n /\ counted' = FreeCount
    BY <1>3, <1>10, <1>12, <1>17 DEF n
  <2>2. written' = "written" /\ header' = [first |-> free[1], free |-> im.free + counted']
    BY <1>1, <1>2, <1>17, <2>1 DEF free
  <2>3. free # <<>>
    BY <1>6, <1>8 DEF n
  <2>4. Complete(im, free, header', counted')
    BY <2>1, <2>2, <2>3, Zenon DEF Complete, n
  <2>5. FileState(im, free, content', header', unused', trunk', counted', written', damaged')
    BY <1>15, <2>2, <2>4 DEF FileState
  <2>6. QED BY <1>1, <1>2, <2>5, FileMeans DEF free
<1>18. QED BY <1>16, <1>17

\* Damage comes after the file was written, and what follows is not FileAt's concern.
LEMMA DamageAt ==
  ASSUME FileAt, Damage
  PROVE  FileAt'
<1>1. written = "written" /\ damaged' = TRUE /\ UNCHANGED <<image, written>>
  BY DEF Damage
<1>2. image \in Images
  BY FileMeans DEF FileState
<1>3. FileState(image', FreePages(image'.ranges), content', header', unused', trunk',
                counted', written', damaged')
  BY <1>1, <1>2, Zenon DEF FileState
<1>4. QED BY <1>3, FileMeans

LEMMA FileStays ==
  ASSUME FileAt, UNCHANGED fileVars
  PROVE  FileAt'
<1>1. UNCHANGED <<image, content, header, unused, trunk, counted, written, damaged>>
  BY DEF fileVars
<1>2. QED BY <1>1, FileMeans

\* The pages put on the freelist make the file sound.
LEMMA FileIsSound ==
  ASSUME FileAt
  PROVE  FreelistComplete
<1>1. written # "failed"
  BY FileMeans DEF FileState
<1>2. ASSUME written = "written", ~damaged
      PROVE  OwnershipSound
  <2>1. PICK im \in Images : image = im
    BY FileMeans DEF FileState
  <2> DEFINE free == FreePages(im.ranges)
             h == [first |-> im.first, free |-> im.free]
  <2>2. /\ PageList(free, im.first) /\ Range(free) \subseteq Ownable /\ PageCount \in Nat
        /\ \A p \in Range(free) : im.content[p] = Blank
        /\ Sound(im.content, im.roots, h, Ownable \ Range(free))
    BY <2>1, ImageList
  <2> HIDE DEF free
  <2>3. FileState(im, free, content, header, unused, trunk, counted, written, damaged)
    BY <2>1, FileMeans DEF free
  <2>4. Complete(im, free, header, counted) /\ PagesAt(im, free, content, counted)
    BY <1>2, <2>3 DEF FileState
  <2>5. free \in Seq(Nat \ {0}) /\ Len(free) \in Nat /\ DOMAIN free = 1 .. Len(free)
    BY <2>2 DEF PageList
  <2>6. CASE free = <<>>
    <3>1. counted = 0 /\ header = h /\ content = im.content
      BY <2>4, <2>6 DEF Complete, PagesAt
    <3>2. Range(free) = {}
      BY <2>5, <2>6 DEF Range
    <3>3. Ownable \ Range(free) = Ownable
      BY <3>2
    <3> HIDE DEF h
    <3>4. QED BY <2>1, <2>2, <3>1, <3>3 DEF OwnershipSound
  <2>7. CASE free # <<>>
    <3>1. /\ counted = Len(free) /\ Len(free) # 0
          /\ header = [first |-> free[1], free |-> im.free + Len(free)]
      BY <2>4, <2>5, <2>7 DEF Complete
    <3>2. Linked(free, im.first, content, Len(free))
      BY <2>4, <3>1 DEF PagesAt
    <3>3. \A p \in 1 .. PageCount : p \notin Range(free) => content[p] = im.content[p]
      BY <2>4, <2>5, <3>1 DEF PagesAt, Range
    <3>4. Sound(content, im.roots, [first |-> free[1], free |-> im.free + Len(free)], Ownable)
      BY <2>2, <3>1, <3>2, <3>3, LinkedIsSound
    <3>5. QED BY <2>1, <3>1, <3>4 DEF OwnershipSound
  <2>8. QED BY <2>6, <2>7
<1>3. QED BY <1>1, <1>2 DEF FreelistComplete

\* What is said of the file is kept by every step: those of the workers do not touch it.
LEMMA FileKept ==
  ASSUME FileAt, [Next]_vars
  PROVE  FileAt'
<1>1. CASE Write
  BY <1>1, StartTrunksAt, WriteTrunkAt DEF Write
<1>2. CASE Harm
  BY <1>2, DamageAt DEF Harm
<1>3. CASE CheckNatively \/ StartWorkers \/ JoinWorkers
  BY <1>3, FileStays DEF CheckNatively, StartWorkers, JoinWorkers
<1>4. ASSUME NEW w \in Workers,
             LookForFailure(w) \/ TakeJob(w) \/ CheckTable(w) \/ CheckKeys(w) \/ Walk(w)
               \/ WorkerBreaks(w)
      PROVE  FileAt'
  BY <1>4, FileStays DEF LookForFailure, TakeJob, CheckTable, CheckKeys, Walk, WorkerBreaks
<1>5. CASE UNCHANGED vars
  BY <1>5, FileStays DEF vars
<1>6. QED BY <1>1, <1>2, <1>3, <1>4, <1>5 DEF Next

\* The freelist is complete, for any number of pages and of slots of a trunk, whatever
\* ranges were left over and whatever freelist there was before: PageWriter::finish never
\* fails on its count, and with the trees the pages it links own every page of the file
\* once (page_writer.rs 1079-1177).
THEOREM FreelistWritten == Spec => []FreelistComplete
<1>1. Init => FileAt
  BY FileStart DEF Init
<1>2. FileAt /\ [Next]_vars => FileAt'
  BY FileKept
<1>3. FileAt => FreelistComplete
  BY FileIsSound
<1>4. QED BY <1>1, <1>2, <1>3, PTL DEF Spec

-----------------------------------------------------------------------------
(* The walk over the pages of a file.                                       *)

\* The pages a page points to; those of 0 are the ones the schema and the header name.
Targets(pointers, p) == {q \in Ownable : \E x \in pointers : x[1] = p /\ x[4] = q}

\* The pages walked and the pages ahead: all pointers of the former lead to one of them,
\* and no other pointer does.
Frontier(pointers, walked, ahead) ==
  /\ ahead \cap walked = {} /\ walked \subseteq Ownable /\ ahead \subseteq Ownable
  /\ \A x \in pointers : x[1] \in walked \cup {0} <=> x[4] \in walked \cup ahead

\* No two pointers name the same page, and all of them name pages that can be owned.
NamesOnce(pointers) ==
  /\ \A x \in pointers : x[4] \in Ownable
  /\ \A x, y \in pointers : x[4] = y[4] => x = y

\* At first nothing was walked.
LEMMA FrontierStarts ==
  ASSUME NEW pointers, NamesOnce(pointers)
  PROVE  Frontier(pointers, {}, Targets(pointers, 0))
<1>1. ASSUME NEW x \in pointers
      PROVE  x[1] = 0 <=> x[4] \in Targets(pointers, 0)
  <2>1. ASSUME x[4] \in Targets(pointers, 0)
        PROVE  x[1] = 0
    <3>1. PICK y \in pointers : y[1] = 0 /\ y[4] = x[4]
      BY <2>1 DEF Targets
    <3>2. x = y
      BY <3>1, Zenon DEF NamesOnce
    <3>3. QED BY <3>1, <3>2
  <2>2. ASSUME x[1] = 0
        PROVE  x[4] \in Targets(pointers, 0)
    BY <2>2 DEF Targets, NamesOnce
  <2>3. QED BY <2>1, <2>2
<1>2. Targets(pointers, 0) \subseteq Ownable
  BY DEF Targets
<1>3. QED BY <1>1, <1>2 DEF Frontier

\* A page ahead is walked, and its targets are ahead from then on: none of them was.
LEMMA FrontierMoves ==
  ASSUME NEW pointers, NamesOnce(pointers), NEW walked, NEW ahead,
         Frontier(pointers, walked, ahead), NEW p \in ahead
  PROVE  /\ Frontier(pointers, walked \cup {p}, (ahead \ {p}) \cup Targets(pointers, p))
         /\ Targets(pointers, p) \cap (walked \cup ahead) = {}
<1> DEFINE T == Targets(pointers, p)
<1>1. p \in Ownable /\ p # 0 /\ p \notin walked
  BY DEF Frontier, Ownable
<1>2. ASSUME NEW q \in T
      PROVE  q \in Ownable /\ q \notin walked \cup ahead
  <2>1. PICK x \in pointers : x[1] = p /\ x[4] = q
    BY <1>2 DEF Targets
  <2>2. x[1] \notin walked \cup {0}
    BY <1>1, <2>1
  <2>3. x[4] \notin walked \cup ahead
    BY <2>2 DEF Frontier
  <2>4. QED BY <1>2, <2>1, <2>3 DEF Targets
<1>3. ASSUME NEW x \in pointers
      PROVE  x[1] \in (walked \cup {p}) \cup {0} <=> x[4] \in (walked \cup {p}) \cup ((ahead \ {p}) \cup T)
  <2>1. CASE x[1] = p
    BY <2>1 DEF Targets, NamesOnce
  <2>2. CASE x[1] # p
    <3>1. x[4] \notin T
      <4>1. ASSUME x[4] \in T
            PROVE  FALSE
        <5>1. PICK y \in pointers : y[1] = p /\ y[4] = x[4]
          BY <4>1 DEF Targets
        <5>2. x = y
          BY <5>1, Zenon DEF NamesOnce
        <5>3. QED BY <2>2, <5>1, <5>2
      <4>2. QED BY <4>1
    <3>2. x[1] \in walked \cup {0} <=> x[4] \in walked \cup ahead
      BY Zenon DEF Frontier
    <3> HIDE DEF T
    <3>3. QED BY <2>2, <3>1, <3>2
  <2>3. QED BY <2>1, <2>2
<1> HIDE DEF T
<1>4. walked \subseteq Ownable /\ ahead \subseteq Ownable /\ ahead \cap walked = {}
  BY DEF Frontier
<1>5. T \subseteq Ownable
  BY <1>2
<1>6. Frontier(pointers, walked \cup {p}, (ahead \ {p}) \cup T)
  <2>1. ((ahead \ {p}) \cup T) \cap (walked \cup {p}) = {}
    BY <1>2, <1>4
  <2>2. walked \cup {p} \subseteq Ownable /\ (ahead \ {p}) \cup T \subseteq Ownable
    BY <1>1, <1>4, <1>5
  <2>3. QED BY <1>3, <2>1, <2>2, Zenon DEF Frontier
<1>7. QED BY <1>2, <1>6 DEF T

\* No group of pages is named only from within.
Reached(pointers) ==
  \A S \in (SUBSET Ownable) \ {{}} : \E x \in pointers : x[4] \in S /\ x[1] \notin S

\* With nothing ahead every page was walked.
LEMMA FrontierEnds ==
  ASSUME NEW pointers, NEW walked, Frontier(pointers, walked, {}), Reached(pointers),
         \A x \in pointers : x[1] \in Ownable \cup {0}
  PROVE  walked = Ownable
<1> DEFINE S == Ownable \ walked
<1>1. CASE S # {}
  <2>1. PICK x \in pointers : x[4] \in S /\ x[1] \notin S
    BY <1>1 DEF Reached
  <2>2. x[1] \in walked \cup {0}
    BY <2>1
  <2>3. QED BY <2>1, <2>2 DEF Frontier
<1>2. CASE S = {}
  BY <1>2 DEF Frontier
<1>3. QED BY <1>1, <1>2

\* The pages of the freelist.
FreePart(pointers) == {p \in Ownable : \E x \in pointers : x[4] = p /\ x[2] \in {"free", "trunk"}}

\* When no page of the freelist is ahead, all of them were walked.
LEMMA FreePartWalked ==
  ASSUME NEW c, NEW pointers, NEW walked, NEW ahead, Frontier(pointers, walked, ahead),
         Reached(pointers), NamesOnce(pointers),
         \A x \in pointers : x[1] \in Ownable \cup {0},
         \A p \in Ownable : \E x \in pointers : x[4] = p,
         \A x \in pointers : Fits(c, x) /\ x[2] \in {"child", "chain", "free", "trunk"},
         \A x \in pointers : x[2] \in {"free", "trunk"} /\ x[1] # 0 => c[x[1]].kind = "trunk",
         \A x \in pointers : x[4] \in walked => x[2] \in {"free", "trunk"},
         \A x \in pointers : x[4] \in ahead => x[2] = "child"
  PROVE  walked = FreePart(pointers)
<1> DEFINE F == FreePart(pointers)
           S == F \ walked
<1>1. walked \subseteq F
  BY DEF FreePart, Frontier
<1>2. CASE S # {}
  <2>1. S \in (SUBSET Ownable) \ {{}}
    BY <1>2 DEF FreePart
  <2>2. PICK x \in pointers : x[4] \in S /\ x[1] \notin S
    BY <2>1 DEF Reached
  <2>3. x[2] \in {"free", "trunk"}
    <3>1. PICK y \in pointers : y[4] = x[4] /\ y[2] \in {"free", "trunk"}
      BY <2>2 DEF FreePart
    <3>2. x = y
      BY <3>1, Zenon DEF NamesOnce
    <3>3. QED BY <3>1, <3>2
  <2>4. x[4] \notin walked \cup ahead
    BY <2>2, <2>3
  <2>5. x[1] \notin walked \cup {0}
    BY <2>4 DEF Frontier
  <2>6. x[1] \in Ownable /\ c[x[1]].kind = "trunk"
    BY <2>3, <2>5
  <2>7. PICK z \in pointers : z[4] = x[1]
    BY <2>6
  <2>8. z[2] = "trunk"
    BY <2>6, <2>7 DEF Fits
  <2>9. x[1] \in F
    BY <2>6, <2>7, <2>8 DEF FreePart
  <2>10. QED BY <2>2, <2>5, <2>9
<1>3. CASE S = {}
  BY <1>1, <1>3
<1>4. QED BY <1>2, <1>3

-----------------------------------------------------------------------------
(* What the pointers of a sound file name.                                  *)

\* A sound file, but for the count in its header.
Intact(c, roots, first) ==
  /\ c \in [1 .. PageCount -> Pages] /\ roots \in Seq(Nat) /\ first \in Nat
  /\ Reserved \in 1 .. PageCount => c[Reserved] = Blank
  /\ NamesOnce(Pointers(c, roots, first)) /\ Reached(Pointers(c, roots, first))
  /\ \A p \in Ownable : \E x \in Pointers(c, roots, first) : x[4] = p
  /\ \A x \in Pointers(c, roots, first) : Fits(c, x)
  /\ \A p \in Ownable : c[p].kind = "tree" =>
       \A i \in DOMAIN c[p].overflows : ChainFits(c, c[p].overflows[i][1], c[p].overflows[i][2])

\* The four kinds of pages.
LEMMA PageKinds ==
  ASSUME NEW page \in Pages
  PROVE  /\ page.kind = "tree" => page.children \in Seq(Nat) /\ page.overflows \in Seq(Nat \X Nat)
         /\ page.kind = "chain" => page.next \in Nat
         /\ page.kind = "trunk" => page.next \in Nat /\ page.leaves \in Seq(Nat)
         /\ page.kind = "trunk" => Len(page.leaves) <= TrunkSlots
         /\ page.kind \in {"tree", "chain", "trunk", "blank"}
         /\ page.kind = "blank" => page = Blank
BY DEF Pages, Blank, LeafLists

\* A pointer stands where its first part says.
LEMMA PointersAt ==
  ASSUME NEW c, NEW roots, NEW first, NEW x
  PROVE  /\ x \in Pointers(c, roots, first) <=>
              x \in Anchors(roots, first) \/ \E p \in 1 .. PageCount : x \in PointersOf(c, p)
         /\ x \in Anchors(roots, first) => x[1] = 0
         /\ \A p : x \in PointersOf(c, p) => x[1] = p
         /\ \A p \in 1 .. PageCount :
              x[1] = p => (x \in Pointers(c, roots, first) <=> x \in PointersOf(c, p))
         /\ x[1] = 0 => (x \in Pointers(c, roots, first) <=> x \in Anchors(roots, first))
<1>1. x \in Pointers(c, roots, first) <=>
        x \in Anchors(roots, first) \/ \E p \in 1 .. PageCount : x \in PointersOf(c, p)
  BY DEF Pointers
<1>2. x \in Anchors(roots, first) => x[1] = 0
  BY DEF Anchors
<1>3. \A p : x \in PointersOf(c, p) => x[1] = p
  BY PointersStand
<1>4. \A p \in 1 .. PageCount : p # 0
  OBVIOUS
<1>5. QED BY <1>1, <1>2, <1>3, <1>4

\* What the pointers name can be owned, is named once and is of the kind it is taken for.
LEMMA NamedPages ==
  ASSUME NEW c, NEW roots, NEW first, Intact(c, roots, first),
         NEW x \in Pointers(c, roots, first)
  PROVE  /\ x[4] \in Ownable /\ x[4] \in 1 .. PageCount /\ x[4] # 0
         /\ x[1] \in Ownable \cup {0}
         /\ x[2] \in {"child", "chain", "free", "trunk"}
         /\ x[2] = "child" <=> c[x[4]].kind = "tree"
         /\ x[2] = "chain" <=> c[x[4]].kind = "chain"
         /\ x[2] = "free" <=> c[x[4]].kind = "blank"
         /\ x[2] = "trunk" <=> c[x[4]].kind = "trunk"
         /\ x[2] \in {"free", "trunk"} /\ x[1] # 0 => c[x[1]].kind = "trunk"
         /\ \A y \in Pointers(c, roots, first) : x[4] = y[4] => x = y
<1>1. x[4] \in Ownable /\ \A y \in Pointers(c, roots, first) : x[4] = y[4] => x = y
  BY DEF Intact, NamesOnce
<1>2. Fits(c, x)
  BY DEF Intact
<1>3. x[2] \in {"child", "chain", "free", "trunk"}
      /\ (x[2] \in {"free", "trunk"} /\ x[1] # 0 => c[x[1]].kind = "trunk")
      /\ x[1] \in Ownable \cup {0}
  <2>1. CASE x \in Anchors(roots, first)
    <3>1. x[2] \in {"child", "trunk"} /\ x[1] = 0
      BY <2>1 DEF Anchors
    <3>2. QED BY <3>1
  <2>2. CASE \E p \in 1 .. PageCount : x \in PointersOf(c, p)
    <3>1. PICK p \in 1 .. PageCount : x \in PointersOf(c, p)
      BY <2>2
    <3>2. x[1] = p
      BY <3>1, PointersStand
    <3>3. c[p] \in Pages
      BY DEF Intact
    <3>4. p # Reserved
      <4>1. p = Reserved => c[p] = Blank
        BY DEF Intact
      <4>2. QED BY <3>1, <4>1, BlankPointers
    <3>5. CASE c[p].kind = "tree"
      <4>1. x[2] \in {"child", "chain"}
        BY <3>1, <3>5 DEF PointersOf
      <4>2. QED BY <3>2, <3>4, <4>1 DEF Ownable
    <3>6. CASE c[p].kind = "chain"
      <4>1. x[2] = "chain"
        BY <3>1, <3>6 DEF PointersOf
      <4>2. QED BY <3>2, <3>4, <4>1 DEF Ownable
    <3>7. CASE c[p].kind = "trunk"
      <4>1. x[2] \in {"free", "trunk"}
        BY <3>1, <3>7 DEF PointersOf
      <4>2. QED BY <3>2, <3>4, <3>7, <4>1 DEF Ownable
    <3>8. CASE c[p].kind = "blank"
      BY <3>1, <3>8 DEF PointersOf
    <3>9. QED BY <3>3, <3>5, <3>6, <3>7, <3>8, PageKinds
  <2>3. QED BY <2>1, <2>2, PointersAt
<1>4. /\ x[2] = "child" <=> c[x[4]].kind = "tree"
      /\ x[2] = "chain" <=> c[x[4]].kind = "chain"
      /\ x[2] = "free" <=> c[x[4]].kind = "blank"
      /\ x[2] = "trunk" <=> c[x[4]].kind = "trunk"
  BY <1>2, <1>3 DEF Fits
<1>5. QED BY <1>1, <1>3, <1>4 DEF Ownable

\* Every page that can be owned is named by a pointer.
LEMMA Named ==
  ASSUME NEW c, NEW roots, NEW first, Intact(c, roots, first), NEW p \in Ownable
  PROVE  \E x \in Pointers(c, roots, first) : x[4] = p
BY DEF Intact

\* The pages of the freelist are its trunks and those nobody reads.
LEMMA FreeKinds ==
  ASSUME NEW c, NEW roots, NEW first, Intact(c, roots, first)
  PROVE  FreePart(Pointers(c, roots, first)) = {p \in Ownable : c[p].kind \in {"trunk", "blank"}}
<1> DEFINE Q == Pointers(c, roots, first)
<1> HIDE DEF Q
<1>1. ASSUME NEW p \in Ownable, NEW x \in Q, x[4] = p
      PROVE  x[2] \in {"free", "trunk"} <=> c[p].kind \in {"trunk", "blank"}
  BY <1>1, NamedPages DEF Q
<1>2. \A p \in Ownable : \E x \in Q : x[4] = p
  BY Named DEF Q
<1>3. \A p \in Ownable : (\E x \in Q : x[4] = p /\ x[2] \in {"free", "trunk"})
                            <=> c[p].kind \in {"trunk", "blank"}
  BY <1>1, <1>2
<1>4. QED BY <1>3 DEF Q, FreePart

\* What the schema and the header name.
LEMMA RootTargets ==
  ASSUME NEW c, NEW roots, NEW first, Intact(c, roots, first)
  PROVE  /\ Targets(Pointers(c, roots, first), 0) = Range(roots) \cup ({first} \ {0})
         /\ \A i \in 1 .. Len(roots) : roots[i] \in Ownable /\ c[roots[i]].kind = "tree"
         /\ first # 0 => first \in Ownable /\ c[first].kind = "trunk"
         /\ \A i, j \in 1 .. Len(roots) : roots[i] = roots[j] => i = j
<1> DEFINE Q == Pointers(c, roots, first)
           root(i) == <<0, "child", i, roots[i]>>
           head == <<0, "trunk", 0, first>>
<1>0. roots \in Seq(Nat) /\ DOMAIN roots = 1 .. Len(roots)
  BY DEF Intact
<1>1. /\ \A i \in 1 .. Len(roots) : root(i) \in Q
      /\ first # 0 => head \in Q
  <2>1. /\ \A i \in 1 .. Len(roots) : root(i) \in Anchors(roots, first)
        /\ first # 0 => head \in Anchors(roots, first)
    BY <1>0 DEF Anchors
  <2> HIDE DEF root, head
  <2>2. QED BY <2>1, PointersAt
<1>2. ASSUME NEW x \in Q, x[1] = 0
      PROVE  (\E i \in 1 .. Len(roots) : x = root(i)) \/ (first # 0 /\ x = head)
  BY <1>0, <1>2, PointersAt DEF Anchors
<1>3. /\ \A i : root(i)[1] = 0 /\ root(i)[2] = "child" /\ root(i)[3] = i /\ root(i)[4] = roots[i]
      /\ head[1] = 0 /\ head[2] = "trunk" /\ head[4] = first
  OBVIOUS
<1> HIDE DEF root, head
<1>4. \A i \in 1 .. Len(roots) : roots[i] \in Ownable /\ c[roots[i]].kind = "tree"
  BY <1>1, <1>3, NamedPages
<1>5. first # 0 => first \in Ownable /\ c[first].kind = "trunk"
  BY <1>1, <1>3, NamedPages
<1>6. ASSUME NEW i \in 1 .. Len(roots), NEW j \in 1 .. Len(roots), roots[i] = roots[j]
      PROVE  i = j
  <2>1. root(i) = root(j)
    BY <1>1, <1>3, <1>6, NamedPages
  <2>2. QED BY <1>3, <2>1
<1>7. Range(roots) = {roots[i] : i \in 1 .. Len(roots)}
  BY <1>0 DEF Range
<1> HIDE DEF Q
<1>8. ASSUME NEW q
      PROVE  q \in Targets(Q, 0) <=> q \in Range(roots) \cup ({first} \ {0})
  <2>1. ASSUME q \in Targets(Q, 0)
        PROVE  q \in Range(roots) \cup ({first} \ {0})
    <3>1. PICK x \in Q : x[1] = 0 /\ x[4] = q
      BY <2>1 DEF Targets
    <3>2. QED BY <1>2, <1>3, <1>7, <3>1
  <2>2. ASSUME NEW i \in 1 .. Len(roots), q = roots[i]
        PROVE  q \in Targets(Q, 0)
    BY <1>1, <1>3, <1>4, <2>2 DEF Targets
  <2>3. ASSUME first # 0, q = first
        PROVE  q \in Targets(Q, 0)
    BY <1>1, <1>3, <1>5, <2>3 DEF Targets
  <2>4. QED BY <1>7, <2>1, <2>2, <2>3
<1>9. Targets(Q, 0) = Range(roots) \cup ({first} \ {0})
  BY <1>8
<1>10. QED BY <1>4, <1>5, <1>6, <1>9 DEF Q

\* What a trunk of the freelist names: its leaves and the next trunk.
LEMMA TrunkTargets ==
  ASSUME NEW c, NEW roots, NEW first, Intact(c, roots, first),
         NEW p \in 1 .. PageCount, c[p].kind = "trunk"
  PROVE  /\ Targets(Pointers(c, roots, first), p) = Range(c[p].leaves) \cup ({c[p].next} \ {0})
         /\ \A i \in 1 .. Len(c[p].leaves) :
              c[p].leaves[i] \in Ownable /\ c[c[p].leaves[i]].kind = "blank"
         /\ c[p].next # 0 => c[p].next \in Ownable /\ c[c[p].next].kind = "trunk"
         /\ \A i, j \in 1 .. Len(c[p].leaves) : c[p].leaves[i] = c[p].leaves[j] => i = j
<1> DEFINE Q == Pointers(c, roots, first)
           leaves == c[p].leaves
           onward == c[p].next
           leaf(i) == <<p, "free", i, leaves[i]>>
           last == <<p, "trunk", 0, onward>>
<1>0. leaves \in Seq(Nat) /\ DOMAIN leaves = 1 .. Len(leaves) /\ onward \in Nat
  <2>1. c[p] \in Pages
    BY DEF Intact
  <2>2. QED BY <2>1, PageKinds
<1>1. /\ \A i \in 1 .. Len(leaves) : leaf(i) \in Q
      /\ onward # 0 => last \in Q
  <2>1. /\ \A i \in 1 .. Len(leaves) : leaf(i) \in PointersOf(c, p)
        /\ onward # 0 => last \in PointersOf(c, p)
    BY <1>0 DEF PointersOf
  <2> HIDE DEF leaf, last
  <2>2. QED BY <2>1, PointersAt
<1>2. ASSUME NEW x \in Q, x[1] = p
      PROVE  (\E i \in 1 .. Len(leaves) : x = leaf(i)) \/ (onward # 0 /\ x = last)
  <2>1. x \in PointersOf(c, p)
    BY <1>2, PointersAt
  <2>2. QED BY <1>0, <2>1 DEF PointersOf
<1>3. /\ \A i : leaf(i)[1] = p /\ leaf(i)[2] = "free" /\ leaf(i)[3] = i /\ leaf(i)[4] = leaves[i]
      /\ last[1] = p /\ last[2] = "trunk" /\ last[4] = onward
  OBVIOUS
<1> HIDE DEF leaf, last
<1>4. \A i \in 1 .. Len(leaves) : leaves[i] \in Ownable /\ c[leaves[i]].kind = "blank"
  BY <1>1, <1>3, NamedPages
<1>5. onward # 0 => onward \in Ownable /\ c[onward].kind = "trunk"
  BY <1>1, <1>3, NamedPages
<1>6. ASSUME NEW i \in 1 .. Len(leaves), NEW j \in 1 .. Len(leaves), leaves[i] = leaves[j]
      PROVE  i = j
  <2>1. leaf(i) = leaf(j)
    BY <1>1, <1>3, <1>6, NamedPages
  <2>2. QED BY <1>3, <2>1
<1>7. Range(leaves) = {leaves[i] : i \in 1 .. Len(leaves)}
  BY <1>0 DEF Range
<1> HIDE DEF Q, leaves, onward
<1>8. ASSUME NEW q
      PROVE  q \in Targets(Q, p) <=> q \in Range(leaves) \cup ({onward} \ {0})
  <2>1. ASSUME q \in Targets(Q, p)
        PROVE  q \in Range(leaves) \cup ({onward} \ {0})
    <3>1. PICK x \in Q : x[1] = p /\ x[4] = q
      BY <2>1 DEF Targets
    <3>2. QED BY <1>2, <1>3, <1>7, <3>1
  <2>2. ASSUME NEW i \in 1 .. Len(leaves), q = leaves[i]
        PROVE  q \in Targets(Q, p)
    BY <1>1, <1>3, <1>4, <2>2 DEF Targets
  <2>3. ASSUME onward # 0, q = onward
        PROVE  q \in Targets(Q, p)
    BY <1>1, <1>3, <1>5, <2>3 DEF Targets
  <2>4. QED BY <1>7, <2>1, <2>2, <2>3
<1>9. Targets(Q, p) = Range(leaves) \cup ({onward} \ {0})
  BY <1>8
<1>10. QED BY <1>4, <1>5, <1>6, <1>9 DEF Q, leaves, onward

\* What a page of an overflow chain names: the next one.
LEMMA ChainTargets ==
  ASSUME NEW c, NEW roots, NEW first, Intact(c, roots, first),
         NEW p \in 1 .. PageCount, c[p].kind = "chain"
  PROVE  Targets(Pointers(c, roots, first), p) = {c[p].next} \ {0}
<1> DEFINE Q == Pointers(c, roots, first)
           onward == c[p].next
           x == <<p, "chain", 0, onward>>
<1>1. \A y : y[1] = p => (y \in Q <=> onward # 0 /\ y = x)
  <2>1. PointersOf(c, p) = IF onward = 0 THEN {} ELSE {x}
    BY DEF PointersOf
  <2> HIDE DEF x
  <2>2. QED BY <2>1, PointersAt
<1>2. x[1] = p /\ x[4] = onward
  OBVIOUS
<1> HIDE DEF x, Q, onward
<1>3. onward # 0 => onward \in Ownable
  BY <1>1, <1>2, NamedPages DEF Q
<1>4. Targets(Q, p) = {onward} \ {0}
  BY <1>1, <1>2, <1>3 DEF Targets
<1>5. QED BY <1>4 DEF Q, onward

\* A page nobody reads names none.
LEMMA BlankTargets ==
  ASSUME NEW c, NEW roots, NEW first, Intact(c, roots, first),
         NEW p \in 1 .. PageCount, c[p].kind = "blank"
  PROVE  Targets(Pointers(c, roots, first), p) = {}
<1>1. PointersOf(c, p) = {}
  BY DEF PointersOf
<1>2. \A x \in Pointers(c, roots, first) : x[1] # p
  BY <1>1, PointersAt
<1>3. QED BY <1>2 DEF Targets

\* What a page of a tree names: its children and the overflow pages of its records.
LEMMA TreeTargets ==
  ASSUME NEW c, NEW roots, NEW first, Intact(c, roots, first),
         NEW p \in 1 .. PageCount, c[p].kind = "tree"
  PROVE  /\ Targets(Pointers(c, roots, first), p)
              = Range(c[p].children) \cup {c[p].overflows[i][1] : i \in 1 .. Len(c[p].overflows)}
         /\ \A i \in 1 .. Len(c[p].children) :
              c[p].children[i] \in Ownable /\ c[c[p].children[i]].kind = "tree"
         /\ \A i \in 1 .. Len(c[p].overflows) :
              c[p].overflows[i][1] \in Ownable /\ c[c[p].overflows[i][1]].kind = "chain"
         /\ \A i, j \in 1 .. Len(c[p].children) : c[p].children[i] = c[p].children[j] => i = j
         /\ \A i, j \in 1 .. Len(c[p].overflows) :
              c[p].overflows[i][1] = c[p].overflows[j][1] => i = j
<1> DEFINE Q == Pointers(c, roots, first)
           children == c[p].children
           heads == [i \in 1 .. Len(c[p].overflows) |-> c[p].overflows[i][1]]
           child(i) == <<p, "child", i, children[i]>>
           chain(i) == <<p, "chain", i, heads[i]>>
           n == Len(children)
           m == Len(c[p].overflows)
<1>0. /\ children \in Seq(Nat) /\ DOMAIN children = 1 .. n
      /\ DOMAIN c[p].overflows = 1 .. m
  <2>1. c[p] \in Pages
    BY DEF Intact
  <2>2. QED BY <2>1, PageKinds
<1>1. /\ \A i \in 1 .. n : child(i) \in Q
      /\ \A i \in 1 .. m : chain(i) \in Q
  <2>1. /\ \A i \in 1 .. n : child(i) \in PointersOf(c, p)
        /\ \A i \in 1 .. m : chain(i) \in PointersOf(c, p)
    BY <1>0 DEF PointersOf
  <2> HIDE DEF child, chain
  <2>2. QED BY <2>1, PointersAt
<1>2. ASSUME NEW x \in Q, x[1] = p
      PROVE  (\E i \in 1 .. n : x = child(i)) \/ (\E i \in 1 .. m : x = chain(i))
  <2>1. x \in PointersOf(c, p)
    BY <1>2, PointersAt
  <2>2. QED BY <1>0, <2>1 DEF PointersOf
<1>3. /\ \A i : child(i)[1] = p /\ child(i)[2] = "child" /\ child(i)[3] = i /\ child(i)[4] = children[i]
      /\ \A i : chain(i)[1] = p /\ chain(i)[2] = "chain" /\ chain(i)[3] = i /\ chain(i)[4] = heads[i]
  OBVIOUS
<1> HIDE DEF child, chain
<1>4. \A i \in 1 .. n : children[i] \in Ownable /\ c[children[i]].kind = "tree"
  BY <1>1, <1>3, NamedPages
<1>5. \A i \in 1 .. m : heads[i] \in Ownable /\ c[heads[i]].kind = "chain"
  <2> HIDE DEF heads, m, n
  <2>1. QED BY <1>1, <1>3, NamedPages
<1>6. ASSUME NEW i \in 1 .. n, NEW j \in 1 .. n, children[i] = children[j]
      PROVE  i = j
  <2>1. child(i) = child(j)
    BY <1>1, <1>3, <1>6, NamedPages
  <2>2. QED BY <1>3, <2>1
<1>7. ASSUME NEW i \in 1 .. m, NEW j \in 1 .. m, heads[i] = heads[j]
      PROVE  i = j
  <2> HIDE DEF heads, m, n
  <2>1. chain(i) = chain(j)
    BY <1>1, <1>3, <1>7, NamedPages
  <2>2. QED BY <1>3, <2>1
<1>8. Range(children) = {children[i] : i \in 1 .. n}
  BY <1>0 DEF Range
<1>9. \A i \in 1 .. m : heads[i] = c[p].overflows[i][1]
  OBVIOUS
<1> HIDE DEF Q, children, heads, m, n
<1>10. ASSUME NEW q
       PROVE  q \in Targets(Q, p) <=> q \in Range(children) \cup {heads[i] : i \in 1 .. m}
  <2>1. ASSUME q \in Targets(Q, p)
        PROVE  q \in Range(children) \cup {heads[i] : i \in 1 .. m}
    <3>1. PICK x \in Q : x[1] = p /\ x[4] = q
      BY <2>1 DEF Targets
    <3>2. QED BY <1>2, <1>3, <1>8, <3>1
  <2>2. ASSUME NEW i \in 1 .. n, q = children[i]
        PROVE  q \in Targets(Q, p)
    BY <1>1, <1>3, <1>4, <2>2 DEF Targets
  <2>3. ASSUME NEW i \in 1 .. m, q = heads[i]
        PROVE  q \in Targets(Q, p)
    BY <1>1, <1>3, <1>5, <2>3 DEF Targets
  <2>4. QED BY <1>8, <2>1, <2>2, <2>3
<1>11. Targets(Q, p) = Range(children) \cup {c[p].overflows[i][1] : i \in 1 .. m}
  <2>1. {heads[i] : i \in 1 .. m} = {c[p].overflows[i][1] : i \in 1 .. m}
    BY <1>9
  <2>2. QED BY <1>10, <2>1
<1>12. /\ \A i \in 1 .. m : c[p].overflows[i][1] \in Ownable /\ c[c[p].overflows[i][1]].kind = "chain"
       /\ \A i, j \in 1 .. m : c[p].overflows[i][1] = c[p].overflows[j][1] => i = j
  BY <1>5, <1>7, <1>9
<1>13. QED BY <1>4, <1>6, <1>11, <1>12 DEF Q, children, m, n

-----------------------------------------------------------------------------
(* Marking pages.                                                           *)

WalkStates ==
  [stage : {"free", "trees", "end"}, marked : SUBSET Nat, error : BOOLEAN, trunk : Nat,
   free : Nat, pending : Seq(Nat \X Nat), roots : Seq(Nat)]

\* More pages are marked, and no more than that.
With(w, S) == [w EXCEPT !.marked = @ \cup S]
Alike(r, w) ==
  /\ r.stage = w.stage /\ r.trunk = w.trunk /\ r.free = w.free
  /\ r.pending = w.pending /\ r.roots = w.roots
Grown(r, w, S) ==
  /\ r \in WalkStates /\ Alike(r, w) /\ w.marked \subseteq r.marked
  /\ r.marked \subseteq w.marked \cup S /\ (w.error => r.error)

LEMMA Grows ==
  /\ \A w \in WalkStates : \A S \in SUBSET Nat :
       /\ Grown(With(w, S), w, S) /\ With(w, S).marked = w.marked \cup S
       /\ With(w, S).error = w.error
       /\ \A T \in SUBSET Nat : With(With(w, S), T) = With(w, S \cup T)
  /\ \A w \in WalkStates : \A S : Grown(w, w, S) /\ With(w, {}) = w
  /\ \A u, v, w, S : Grown(u, v, S) /\ Grown(v, w, S) => Grown(u, w, S)
  /\ \A u, w, S, T : Grown(u, w, S) /\ S \subseteq T => Grown(u, w, T)
<1>1. ASSUME NEW w \in WalkStates, NEW S \in SUBSET Nat
      PROVE  /\ Grown(With(w, S), w, S) /\ With(w, S).marked = w.marked \cup S
             /\ With(w, S).error = w.error
             /\ \A T \in SUBSET Nat : With(With(w, S), T) = With(w, S \cup T)
  <2>1. With(w, S) = [w EXCEPT !.marked = w.marked \cup S]
    BY DEF With
  <2>2. w.marked \cup S \in SUBSET Nat
    BY DEF WalkStates
  <2>3. With(w, S) \in WalkStates /\ With(w, S).marked = w.marked \cup S
        /\ With(w, S).error = w.error /\ Alike(With(w, S), w)
    BY <2>1, <2>2 DEF WalkStates, Alike
  <2>4. ASSUME NEW T \in SUBSET Nat
        PROVE  With(With(w, S), T) = With(w, S \cup T)
    <3>1. (w.marked \cup S) \cup T = w.marked \cup (S \cup T)
      OBVIOUS
    <3>2. With(With(w, S), T) = [[w EXCEPT !.marked = w.marked \cup S] EXCEPT !.marked = (w.marked \cup S) \cup T]
      BY <2>1, <2>3 DEF With
    <3>3. With(w, S \cup T) = [w EXCEPT !.marked = w.marked \cup (S \cup T)]
      BY DEF With
    <3>4. QED BY <3>1, <3>2, <3>3 DEF WalkStates
  <2>5. QED BY <2>3, <2>4 DEF Grown
<1>2. ASSUME NEW w \in WalkStates, NEW S
      PROVE  Grown(w, w, S) /\ With(w, {}) = w
  <2>1. w.marked \cup {} = w.marked
    OBVIOUS
  <2>2. With(w, {}) = w
    BY <2>1 DEF With, WalkStates
  <2>3. QED BY <2>2 DEF Grown, Alike
<1>3. ASSUME NEW u, NEW v, NEW w, NEW S, Grown(u, v, S), Grown(v, w, S)
      PROVE  Grown(u, w, S)
  BY <1>3 DEF Grown, Alike
<1>4. ASSUME NEW u, NEW w, NEW S, NEW T, Grown(u, w, S), S \subseteq T
      PROVE  Grown(u, w, T)
  BY <1>4 DEF Grown
<1>5. QED BY <1>1, <1>2, <1>3, <1>4

LEMMA WithTwice ==
  ASSUME NEW w \in WalkStates, NEW S \in SUBSET Nat, NEW T \in SUBSET Nat
  PROVE  With(With(w, S), T) = With(w, S \cup T)
<1>1. \A U \in SUBSET Nat : With(With(w, S), U) = With(w, S \cup U)
  BY Grows
<1>2. QED BY <1>1

\* A page is marked if it was not before.
LEMMA Marking ==
  ASSUME NEW w \in WalkStates, NEW p \in Nat
  PROVE  /\ Grown(Mark(w, p), w, {p})
         /\ ~Mark(w, p).error =>
              ~w.error /\ p \in 1 .. PageCount /\ p \notin w.marked /\ Mark(w, p) = With(w, {p})
         /\ ~w.error /\ p \in 1 .. PageCount /\ p \notin w.marked => Mark(w, p) = With(w, {p})
<1>1. CASE w.error \/ p \notin 1 .. PageCount \/ p \in w.marked
  <2>1. Mark(w, p) = [w EXCEPT !.error = TRUE]
    BY <1>1 DEF Mark
  <2>2. Mark(w, p) \in WalkStates /\ Mark(w, p).marked = w.marked /\ Mark(w, p).error = TRUE
        /\ Alike(Mark(w, p), w)
    BY <2>1 DEF WalkStates, Alike
  <2>3. QED BY <1>1, <2>2 DEF Grown
<1>2. CASE ~(w.error \/ p \notin 1 .. PageCount \/ p \in w.marked)
  <2>1. Mark(w, p) = With(w, {p})
    BY <1>2 DEF Mark, With
  <2>2. QED BY <1>2, <2>1, Grows
<1>3. QED BY <1>1, <1>2

\* The function of MarkAll.
MarkAllBy(f, w, pages) ==
  /\ f[0] = w /\ MarkAll(w, pages) = f[Len(pages)]
  /\ \A i \in 1 .. Len(pages) : f[i] = Mark(f[i - 1], pages[i])

LEMMA MarkAllUnfolds ==
  ASSUME NEW w, NEW pages, Len(pages) \in Nat
  PROVE  \E f : MarkAllBy(f, w, pages)
<1> DEFINE Upto(n, f) == f = [i \in 0 .. n |-> IF i = 0 THEN w ELSE Mark(f[i - 1], pages[i])]
           T == {n \in Nat : \E f : Upto(n, f)}
<1>1. 0 \in T
  <2> DEFINE f == [i \in 0 .. 0 |-> w]
  <2>1. f = [i \in 0 .. 0 |-> IF i = 0 THEN w ELSE Mark(f[i - 1], pages[i])]
    OBVIOUS
  <2> HIDE DEF f
  <2>2. QED BY <2>1
<1>2. ASSUME NEW n \in Nat, n \in T
      PROVE  n + 1 \in T
  <2>1. PICK f : f = [i \in 0 .. n |-> IF i = 0 THEN w ELSE Mark(f[i - 1], pages[i])]
    BY <1>2
  <2> DEFINE last == Mark(f[n], pages[n + 1])
             g == [i \in 0 .. n + 1 |-> IF i = n + 1 THEN last ELSE f[i]]
  <2>2. \A i \in 0 .. n : f[i] = IF i = 0 THEN w ELSE Mark(f[i - 1], pages[i])
    BY <2>1
  <2>3. /\ \A i \in 0 .. n : g[i] = f[i]
        /\ g[n + 1] = last
        /\ g = [i \in 0 .. n + 1 |-> g[i]]
    OBVIOUS
  <2> HIDE DEF g
  <2>4. ASSUME NEW i \in 0 .. n + 1
        PROVE  g[i] = IF i = 0 THEN w ELSE Mark(g[i - 1], pages[i])
    <3>1. CASE i = n + 1
      <4>1. i # 0 /\ i - 1 = n /\ n \in 0 .. n
        BY <3>1
      <4>2. QED BY <2>3, <3>1, <4>1
    <3>2. CASE i \in 0 .. n
      <4>1. i # 0 => i - 1 \in 0 .. n
        BY <3>2
      <4>2. QED BY <2>2, <2>3, <3>2, <4>1
    <3>3. QED BY <3>1, <3>2
  <2>5. g = [i \in 0 .. n + 1 |-> IF i = 0 THEN w ELSE Mark(g[i - 1], pages[i])]
    BY <2>3, <2>4
  <2>6. QED BY <2>5
<1> HIDE DEF T
<1>3. Nat \subseteq T
  BY <1>1, <1>2, SetInduction
<1> DEFINE f == CHOOSE f : f = [i \in 0 .. Len(pages) |->
                                  IF i = 0 THEN w ELSE Mark(f[i - 1], pages[i])]
<1>4. MarkAll(w, pages) = f[Len(pages)]
  BY Zenon DEF MarkAll
<1>5. f = [i \in 0 .. Len(pages) |-> IF i = 0 THEN w ELSE Mark(f[i - 1], pages[i])]
  <2>1. \E g : Upto(Len(pages), g)
    <3> HIDE DEF Upto
    <3>1. QED BY <1>3 DEF T
  <2>2. QED BY <2>1, Zenon
<1> HIDE DEF f
<1>6. \A i \in 0 .. Len(pages) : f[i] = IF i = 0 THEN w ELSE Mark(f[i - 1], pages[i])
  BY <1>5
<1>7. MarkAllBy(f, w, pages)
  BY <1>4, <1>6 DEF MarkAllBy
<1>8. QED BY <1>7

\* One page of an overflow chain, the last one or not.
ChainStep(s, last) ==
  IF Mark(s.walk, s.at).error THEN [walk |-> Mark(s.walk, s.at), at |-> 0]
  ELSE [walk |-> [Mark(s.walk, s.at) EXCEPT !.error = last /\ FirstWord(s.at) # 0],
        at   |-> FirstWord(s.at)]

\* The function of WalkChain.
WalkChainBy(f, w, overflow) ==
  /\ f[0] = [walk |-> w, at |-> overflow[1]]
  /\ WalkChain(w, overflow) = f[overflow[2]].walk
  /\ \A i \in 1 .. overflow[2] : f[i] = ChainStep(f[i - 1], i = overflow[2])

LEMMA WalkChainUnfolds ==
  ASSUME NEW w, NEW overflow, overflow[2] \in Nat
  PROVE  \E f : WalkChainBy(f, w, overflow)
<1> DEFINE start == [walk |-> w, at |-> overflow[1]]
           Upto(n, f) == f = [i \in 0 .. n |-> IF i = 0 THEN start
                                               ELSE ChainStep(f[i - 1], i = overflow[2])]
           T == {n \in Nat : \E f : Upto(n, f)}
<1> HIDE DEF start
<1>1. 0 \in T
  <2> DEFINE f == [i \in 0 .. 0 |-> start]
  <2>1. f = [i \in 0 .. 0 |-> IF i = 0 THEN start ELSE ChainStep(f[i - 1], i = overflow[2])]
    OBVIOUS
  <2> HIDE DEF f
  <2>2. QED BY <2>1
<1>2. ASSUME NEW n \in Nat, n \in T
      PROVE  n + 1 \in T
  <2>1. PICK f : f = [i \in 0 .. n |-> IF i = 0 THEN start ELSE ChainStep(f[i - 1], i = overflow[2])]
    BY <1>2
  <2> DEFINE last == ChainStep(f[n], n + 1 = overflow[2])
             g == [i \in 0 .. n + 1 |-> IF i = n + 1 THEN last ELSE f[i]]
  <2>2. \A i \in 0 .. n : f[i] = IF i = 0 THEN start ELSE ChainStep(f[i - 1], i = overflow[2])
    BY <2>1
  <2>3. /\ \A i \in 0 .. n : g[i] = f[i]
        /\ g[n + 1] = last
        /\ g = [i \in 0 .. n + 1 |-> g[i]]
    OBVIOUS
  <2> HIDE DEF g
  <2>4. ASSUME NEW i \in 0 .. n + 1
        PROVE  g[i] = IF i = 0 THEN start ELSE ChainStep(g[i - 1], i = overflow[2])
    <3>1. CASE i = n + 1
      <4>1. i # 0 /\ i - 1 = n /\ n \in 0 .. n
        BY <3>1
      <4>2. QED BY <2>3, <3>1, <4>1
    <3>2. CASE i \in 0 .. n
      <4>1. i # 0 => i - 1 \in 0 .. n
        BY <3>2
      <4>2. QED BY <2>2, <2>3, <3>2, <4>1
    <3>3. QED BY <3>1, <3>2
  <2>5. g = [i \in 0 .. n + 1 |-> IF i = 0 THEN start ELSE ChainStep(g[i - 1], i = overflow[2])]
    BY <2>3, <2>4
  <2>6. QED BY <2>5
<1> HIDE DEF T
<1>3. Nat \subseteq T
  BY <1>1, <1>2, SetInduction
<1> DEFINE f == CHOOSE f : f = [i \in 0 .. overflow[2] |->
                 IF i = 0 THEN [walk |-> w, at |-> overflow[1]]
                 ELSE IF Mark(f[i - 1].walk, f[i - 1].at).error
                      THEN [walk |-> Mark(f[i - 1].walk, f[i - 1].at), at |-> 0]
                      ELSE [walk |-> [Mark(f[i - 1].walk, f[i - 1].at) EXCEPT
                                        !.error = i = overflow[2] /\ FirstWord(f[i - 1].at) # 0],
                            at   |-> FirstWord(f[i - 1].at)]]
<1>4. WalkChain(w, overflow) = f[overflow[2]].walk
  BY Zenon DEF WalkChain
<1>5. f = [i \in 0 .. overflow[2] |-> IF i = 0 THEN start ELSE ChainStep(f[i - 1], i = overflow[2])]
  <2>1. \E g : Upto(overflow[2], g)
    <3> HIDE DEF Upto
    <3>1. QED BY <1>3 DEF T
  <2>2. \E g : g = [i \in 0 .. overflow[2] |->
                 IF i = 0 THEN [walk |-> w, at |-> overflow[1]]
                 ELSE IF Mark(g[i - 1].walk, g[i - 1].at).error
                      THEN [walk |-> Mark(g[i - 1].walk, g[i - 1].at), at |-> 0]
                      ELSE [walk |-> [Mark(g[i - 1].walk, g[i - 1].at) EXCEPT
                                        !.error = i = overflow[2] /\ FirstWord(g[i - 1].at) # 0],
                            at   |-> FirstWord(g[i - 1].at)]]
    BY <2>1, Zenon DEF ChainStep, start
  <2>3. f = [i \in 0 .. overflow[2] |->
                 IF i = 0 THEN [walk |-> w, at |-> overflow[1]]
                 ELSE IF Mark(f[i - 1].walk, f[i - 1].at).error
                      THEN [walk |-> Mark(f[i - 1].walk, f[i - 1].at), at |-> 0]
                      ELSE [walk |-> [Mark(f[i - 1].walk, f[i - 1].at) EXCEPT
                                        !.error = i = overflow[2] /\ FirstWord(f[i - 1].at) # 0],
                            at   |-> FirstWord(f[i - 1].at)]]
    BY <2>2, Zenon
  <2> HIDE DEF f
  <2>4. QED BY <2>3, Zenon DEF ChainStep, start
<1> HIDE DEF f
<1>6. \A i \in 0 .. overflow[2] : f[i] = IF i = 0 THEN start ELSE ChainStep(f[i - 1], i = overflow[2])
  BY <1>5
<1>7. WalkChainBy(f, w, overflow)
  BY <1>4, <1>6 DEF start, WalkChainBy
<1>8. QED BY <1>7

\* The function of WalkChains.
WalkChainsBy(f, w, overflows) ==
  /\ f[0] = w /\ WalkChains(w, overflows) = f[Len(overflows)]
  /\ \A i \in 1 .. Len(overflows) : f[i] = WalkChain(f[i - 1], overflows[i])

LEMMA WalkChainsUnfolds ==
  ASSUME NEW w, NEW overflows, Len(overflows) \in Nat
  PROVE  \E f : WalkChainsBy(f, w, overflows)
<1> DEFINE Upto(n, f) == f = [i \in 0 .. n |-> IF i = 0 THEN w ELSE WalkChain(f[i - 1], overflows[i])]
           T == {n \in Nat : \E f : Upto(n, f)}
<1>1. 0 \in T
  <2> DEFINE f == [i \in 0 .. 0 |-> w]
  <2>1. f = [i \in 0 .. 0 |-> IF i = 0 THEN w ELSE WalkChain(f[i - 1], overflows[i])]
    OBVIOUS
  <2> HIDE DEF f
  <2>2. QED BY <2>1
<1>2. ASSUME NEW n \in Nat, n \in T
      PROVE  n + 1 \in T
  <2>1. PICK f : f = [i \in 0 .. n |-> IF i = 0 THEN w ELSE WalkChain(f[i - 1], overflows[i])]
    BY <1>2
  <2> DEFINE last == WalkChain(f[n], overflows[n + 1])
             g == [i \in 0 .. n + 1 |-> IF i = n + 1 THEN last ELSE f[i]]
  <2>2. \A i \in 0 .. n : f[i] = IF i = 0 THEN w ELSE WalkChain(f[i - 1], overflows[i])
    BY <2>1
  <2>3. /\ \A i \in 0 .. n : g[i] = f[i]
        /\ g[n + 1] = last
        /\ g = [i \in 0 .. n + 1 |-> g[i]]
    OBVIOUS
  <2> HIDE DEF g
  <2>4. ASSUME NEW i \in 0 .. n + 1
        PROVE  g[i] = IF i = 0 THEN w ELSE WalkChain(g[i - 1], overflows[i])
    <3>1. CASE i = n + 1
      <4>1. i # 0 /\ i - 1 = n /\ n \in 0 .. n
        BY <3>1
      <4>2. QED BY <2>3, <3>1, <4>1
    <3>2. CASE i \in 0 .. n
      <4>1. i # 0 => i - 1 \in 0 .. n
        BY <3>2
      <4>2. QED BY <2>2, <2>3, <3>2, <4>1
    <3>3. QED BY <3>1, <3>2
  <2>5. g = [i \in 0 .. n + 1 |-> IF i = 0 THEN w ELSE WalkChain(g[i - 1], overflows[i])]
    BY <2>3, <2>4
  <2>6. QED BY <2>5
<1> HIDE DEF T
<1>3. Nat \subseteq T
  BY <1>1, <1>2, SetInduction
<1> DEFINE f == CHOOSE f : f = [i \in 0 .. Len(overflows) |->
                                  IF i = 0 THEN w ELSE WalkChain(f[i - 1], overflows[i])]
<1>4. WalkChains(w, overflows) = f[Len(overflows)]
  BY Zenon DEF WalkChains
<1>5. f = [i \in 0 .. Len(overflows) |-> IF i = 0 THEN w ELSE WalkChain(f[i - 1], overflows[i])]
  <2>1. \E g : Upto(Len(overflows), g)
    <3> HIDE DEF Upto
    <3>1. QED BY <1>3 DEF T
  <2>2. QED BY <2>1, Zenon
<1> HIDE DEF f
<1>6. \A i \in 0 .. Len(overflows) : f[i] = IF i = 0 THEN w ELSE WalkChain(f[i - 1], overflows[i])
  BY <1>5
<1>7. WalkChainsBy(f, w, overflows)
  BY <1>4, <1>6 DEF WalkChainsBy
<1>8. QED BY <1>7

\* Walking over pages marks only what they name, whatever they hold.
LEMMA MarkAllGrows ==
  ASSUME NEW w \in WalkStates, NEW pages \in Seq(Nat)
  PROVE  Grown(MarkAll(w, pages), w, Range(pages))
<1> DEFINE n == Len(pages)
<1>1. n \in Nat /\ Range(pages) = {pages[i] : i \in 1 .. n} /\ \A i \in 1 .. n : pages[i] \in Nat
  BY DEF Range
<1>0. PICK f : MarkAllBy(f, w, pages)
  BY <1>1, MarkAllUnfolds
<1>2. /\ f[0] = w /\ MarkAll(w, pages) = f[n]
      /\ \A i \in 1 .. n : f[i] = Mark(f[i - 1], pages[i])
  BY <1>0 DEF MarkAllBy
<1> DEFINE T == {i \in Nat : i <= n => Grown(f[i], w, Range(pages))}
<1> HIDE DEF n
<1>3. 0 \in T
  BY <1>2, Grows
<1>4. ASSUME NEW i \in Nat, i \in T
      PROVE  i + 1 \in T
  <2> SUFFICES ASSUME i + 1 <= n
               PROVE  Grown(f[i + 1], w, Range(pages))
    OBVIOUS
  <2>1. i + 1 \in 1 .. n /\ (i + 1) - 1 = i /\ i <= n
    BY <1>1
  <2>2. Grown(f[i], w, Range(pages)) /\ f[i] \in WalkStates
    BY <1>4, <2>1 DEF Grown
  <2>3. f[i + 1] = Mark(f[i], pages[i + 1]) /\ pages[i + 1] \in Nat /\ pages[i + 1] \in Range(pages)
    BY <1>1, <1>2, <2>1
  <2>4. Grown(f[i + 1], f[i], Range(pages))
    <3>1. Grown(f[i + 1], f[i], {pages[i + 1]})
      BY <2>2, <2>3, Marking
    <3>2. {pages[i + 1]} \subseteq Range(pages)
      BY <2>3
    <3>3. QED BY <3>1, <3>2, Grows
  <2>5. QED BY <2>2, <2>4, Grows
<1> HIDE DEF T
<1>5. Nat \subseteq T
  BY <1>3, <1>4, SetInduction
<1>6. n \in T
  BY <1>1, <1>5
<1>7. Grown(f[n], w, Range(pages))
  BY <1>1, <1>6 DEF T
<1>8. QED BY <1>2, <1>7

\* Where overflow pages may lead.
Onward == {0} \cup {FirstWord(p) : p \in 1 .. PageCount}

LEMMA OnwardIsNat ==
  ASSUME content \in [1 .. PageCount -> Pages]
  PROVE  Onward \subseteq Nat /\ \A p \in 1 .. PageCount : FirstWord(p) \in Onward
<1>1. PageCount \in Nat
  BY FileAssumption
<1>2. ASSUME NEW p \in 1 .. PageCount
      PROVE  FirstWord(p) \in Nat
  <2>1. content[p] \in Pages
    OBVIOUS
  <2>2. QED BY <1>1, <2>1, PageKinds DEF FirstWord
<1>3. QED BY <1>2 DEF Onward

LEMMA WalkChainGrows ==
  ASSUME content \in [1 .. PageCount -> Pages],
         NEW w \in WalkStates, NEW overflow \in Nat \X Nat
  PROVE  Grown(WalkChain(w, overflow), w, {overflow[1]} \cup Onward)
<1> DEFINE n == overflow[2]
           S == {overflow[1]} \cup Onward
<1>1. n \in Nat /\ S \subseteq Nat /\ overflow[1] \in S /\ 0 \in S
  BY OnwardIsNat DEF Onward
<1>0. PICK f : WalkChainBy(f, w, overflow)
  BY <1>1, WalkChainUnfolds
<1>2. /\ f[0] = [walk |-> w, at |-> overflow[1]] /\ WalkChain(w, overflow) = f[n].walk
      /\ \A i \in 1 .. n : f[i] = ChainStep(f[i - 1], i = n)
  BY <1>0 DEF WalkChainBy
<1> DEFINE T == {i \in Nat : i <= n => Grown(f[i].walk, w, S) /\ f[i].at \in S}
<1> HIDE DEF n, S
<1>3. 0 \in T
  BY <1>1, <1>2, Grows
<1>4. ASSUME NEW i \in Nat, i \in T
      PROVE  i + 1 \in T
  <2> SUFFICES ASSUME i + 1 <= n
               PROVE  Grown(f[i + 1].walk, w, S) /\ f[i + 1].at \in S
    OBVIOUS
  <2>1. i + 1 \in 1 .. n /\ (i + 1) - 1 = i /\ i <= n
    BY <1>1
  <2> DEFINE v == f[i].walk
             at == f[i].at
             marked == Mark(v, at)
  <2>2. Grown(v, w, S) /\ v \in WalkStates /\ at \in S /\ at \in Nat
    BY <1>1, <1>4, <2>1 DEF Grown
  <2>3. f[i + 1] = ChainStep(f[i], i + 1 = n)
    BY <1>2, <2>1
  <2>4. Grown(marked, v, {at}) /\ (~marked.error => ~v.error /\ at \in 1 .. PageCount)
    BY <2>2, Marking
  <2>5. Grown(marked, w, S)
    <3>1. {at} \subseteq S
      BY <2>2
    <3>2. Grown(marked, v, S)
      BY <2>4, <3>1, Grows
    <3>3. QED BY <2>2, <3>2, Grows
  <2> HIDE DEF v, at, marked
  <2>6. CASE marked.error
    <3>1. f[i + 1] = [walk |-> marked, at |-> 0]
      BY <2>3, <2>6 DEF ChainStep, marked, v, at
    <3>2. QED BY <1>1, <2>5, <3>1
  <2>7. CASE ~marked.error
    <3> DEFINE bad == i + 1 = n /\ FirstWord(at) # 0
    <3>1. f[i + 1] = [walk |-> [marked EXCEPT !.error = bad], at |-> FirstWord(at)]
      BY <2>3, <2>7 DEF ChainStep, marked, v, at
    <3>2. FirstWord(at) \in S
      BY <2>4, <2>7, OnwardIsNat DEF S
    <3>3. bad \in BOOLEAN
      OBVIOUS
    <3> HIDE DEF bad
    <3>4. Grown([marked EXCEPT !.error = bad], marked, S)
      <4>1. marked \in WalkStates
        BY <2>5 DEF Grown
      <4>2. [marked EXCEPT !.error = bad] \in WalkStates
            /\ [marked EXCEPT !.error = bad].marked = marked.marked
            /\ Alike([marked EXCEPT !.error = bad], marked)
        BY <3>3, <4>1 DEF WalkStates, Alike
      <4>3. QED BY <2>7, <4>2 DEF Grown
    <3>5. Grown([marked EXCEPT !.error = bad], w, S)
      BY <2>5, <3>4, Grows
    <3>6. QED BY <3>1, <3>2, <3>5
  <2>8. QED BY <2>6, <2>7
<1> HIDE DEF T
<1>5. Nat \subseteq T
  BY <1>3, <1>4, SetInduction
<1>6. n \in T
  BY <1>1, <1>5
<1>7. Grown(f[n].walk, w, S)
  BY <1>1, <1>6 DEF T
<1>8. QED BY <1>2, <1>7 DEF S

LEMMA WalkChainsGrows ==
  ASSUME content \in [1 .. PageCount -> Pages],
         NEW w \in WalkStates, NEW overflows \in Seq(Nat \X Nat)
  PROVE  Grown(WalkChains(w, overflows), w,
               {overflows[i][1] : i \in 1 .. Len(overflows)} \cup Onward)
<1> DEFINE n == Len(overflows)
           S == {overflows[i][1] : i \in 1 .. n} \cup Onward
<1>1. n \in Nat /\ \A i \in 1 .. n : overflows[i] \in Nat \X Nat
  OBVIOUS
<1>0. PICK f : WalkChainsBy(f, w, overflows)
  BY <1>1, WalkChainsUnfolds
<1>2. /\ f[0] = w /\ WalkChains(w, overflows) = f[n]
      /\ \A i \in 1 .. n : f[i] = WalkChain(f[i - 1], overflows[i])
  BY <1>0 DEF WalkChainsBy
<1> DEFINE T == {i \in Nat : i <= n => Grown(f[i], w, S)}
<1>3. \A i \in 1 .. n : {overflows[i][1]} \cup Onward \subseteq S
  OBVIOUS
<1> HIDE DEF n, S
<1>4. 0 \in T
  BY <1>2, Grows
<1>5. ASSUME NEW i \in Nat, i \in T
      PROVE  i + 1 \in T
  <2> SUFFICES ASSUME i + 1 <= n
               PROVE  Grown(f[i + 1], w, S)
    OBVIOUS
  <2>1. i + 1 \in 1 .. n /\ (i + 1) - 1 = i /\ i <= n
    BY <1>1
  <2>2. Grown(f[i], w, S) /\ f[i] \in WalkStates
    BY <1>5, <2>1 DEF Grown
  <2>3. f[i + 1] = WalkChain(f[i], overflows[i + 1]) /\ overflows[i + 1] \in Nat \X Nat
    BY <1>1, <1>2, <2>1
  <2>4. Grown(f[i + 1], f[i], {overflows[i + 1][1]} \cup Onward)
    BY <2>2, <2>3, WalkChainGrows
  <2>5. Grown(f[i + 1], f[i], S)
    BY <1>3, <2>1, <2>4, Grows
  <2>6. QED BY <2>2, <2>5, Grows
<1> HIDE DEF T
<1>6. Nat \subseteq T
  BY <1>4, <1>5, SetInduction
<1>7. n \in T
  BY <1>1, <1>6
<1>8. Grown(f[n], w, S)
  BY <1>1, <1>7 DEF T
<1>9. QED BY <1>2, <1>8 DEF S, n

-----------------------------------------------------------------------------
(* Walking over a file that is sound, or was until a pointer went astray.    *)

\* A chain or a freelist goes on where it ended.
Stray(c, e, p) ==
  /\ c[p].kind \in {"chain", "trunk"} /\ c[p].next = 0
  /\ \E v \in Nat \ {0} : e[p] = [c[p] EXCEPT !.next = v]
NearBy(c, e) == \A p \in 1 .. PageCount : e[p] = c[p] \/ Stray(c, e, p)

LEMMA NearPages ==
  ASSUME NEW c \in [1 .. PageCount -> Pages], NEW e, NearBy(c, e), NEW p \in 1 .. PageCount
  PROVE  /\ e[p].kind = c[p].kind
         /\ c[p].kind \in {"tree", "blank"} => e[p] = c[p]
         /\ c[p].kind = "trunk" => e[p].leaves = c[p].leaves
         /\ c[p].kind \in {"chain", "trunk"} /\ c[p].next # 0 => e[p] = c[p]
         /\ c[p].kind \in {"chain", "trunk"} /\ e[p].next = 0 => e[p] = c[p]
         /\ c[p].kind \in {"chain", "trunk"} => e[p].next \in Nat
<1>1. c[p] \in Pages
  OBVIOUS
<1>2. CASE e[p] = c[p]
  BY <1>1, <1>2, PageKinds
<1>3. CASE Stray(c, e, p)
  <2>1. c[p].kind \in {"chain", "trunk"} /\ c[p].next = 0
    BY <1>3 DEF Stray
  <2>2. PICK v \in Nat \ {0} : e[p] = [c[p] EXCEPT !.next = v]
    BY <1>3 DEF Stray
  <2>3. CASE c[p].kind = "chain"
    <3>1. c[p] \in [kind : {"chain"}, next : Nat]
      BY <1>1, <2>3 DEF Pages, Blank
    <3>2. e[p].kind = "chain" /\ e[p].next = v
      BY <2>2, <3>1
    <3>3. QED BY <2>1, <2>3, <3>2
  <2>4. CASE c[p].kind = "trunk"
    <3>1. c[p] \in [kind : {"trunk"}, next : Nat, leaves : LeafLists]
      BY <1>1, <2>4 DEF Pages, Blank
    <3>2. e[p].kind = "trunk" /\ e[p].next = v /\ e[p].leaves = c[p].leaves
      BY <2>2, <3>1
    <3>3. QED BY <2>1, <2>4, <3>2
  <2>5. QED BY <2>1, <2>3, <2>4
<1>4. QED BY <1>2, <1>3 DEF NearBy

LEMMA NearKinds ==
  ASSUME NEW c \in [1 .. PageCount -> Pages], NEW e, NearBy(c, e)
  PROVE  \A p \in 1 .. PageCount : e[p].kind = c[p].kind
BY NearPages

NearTrunk(c, e, p) ==
  /\ e[p].kind = "trunk" /\ e[p].leaves = c[p].leaves /\ e[p].next \in Nat
  /\ c[p].next # 0 => e[p] = c[p]
  /\ e[p].next = 0 => e[p] = c[p]

LEMMA NearTrunks ==
  ASSUME NEW c \in [1 .. PageCount -> Pages], NEW e, NearBy(c, e)
  PROVE  \A p \in 1 .. PageCount : c[p].kind = "trunk" => NearTrunk(c, e, p)
BY NearPages DEF NearTrunk

LEMMA NearBlanks ==
  ASSUME NEW c \in [1 .. PageCount -> Pages], NEW e, NearBy(c, e)
  PROVE  \A p \in 1 .. PageCount : c[p].kind \in {"tree", "blank"} => e[p] = c[p]
BY NearPages

\* Different pages that were not marked are all marked.
LEMMA MarkAllFresh ==
  ASSUME NEW w \in WalkStates, ~w.error, NEW pages \in Seq(Nat),
         \A i \in 1 .. Len(pages) : pages[i] \in 1 .. PageCount /\ pages[i] \notin w.marked,
         \A i, j \in 1 .. Len(pages) : pages[i] = pages[j] => i = j
  PROVE  MarkAll(w, pages) = With(w, Range(pages))
<1> DEFINE n == Len(pages)
           S(i) == {pages[j] : j \in 1 .. i}
<1>1. n \in Nat /\ Range(pages) = S(n) /\ \A i \in 1 .. n : pages[i] \in Nat
  BY DEF Range
<1>0. PICK f : MarkAllBy(f, w, pages)
  BY <1>1, MarkAllUnfolds
<1>2. /\ f[0] = w /\ MarkAll(w, pages) = f[n]
      /\ \A i \in 1 .. n : f[i] = Mark(f[i - 1], pages[i])
  BY <1>0 DEF MarkAllBy
<1> DEFINE T == {i \in Nat : i <= n => f[i] = With(w, S(i))}
<1>3. 0 \in T
  <2>1. S(0) = {}
    OBVIOUS
  <2> HIDE DEF S
  <2>2. QED BY <1>2, <2>1, Grows
<1>4. ASSUME NEW i \in Nat, i \in T
      PROVE  i + 1 \in T
  <2> SUFFICES ASSUME i + 1 <= n
               PROVE  f[i + 1] = With(w, S(i + 1))
    OBVIOUS
  <2> DEFINE q == pages[i + 1]
  <2>1. i + 1 \in 1 .. n /\ (i + 1) - 1 = i /\ i <= n /\ i + 1 \notin 1 .. i
        /\ \A j \in 1 .. i : j \in 1 .. n
    BY <1>1
  <2>2. q \in 1 .. PageCount /\ q \notin w.marked /\ q \in Nat
    BY <1>1, <2>1
  <2>3. q \notin S(i)
    <3>1. \A j \in 1 .. i : pages[j] # q
      BY <2>1
    <3>2. QED BY <3>1
  <2>4. S(i) \cup {q} = S(i + 1) /\ S(i) \subseteq Nat
    <3>1. \A j : j \in 1 .. i + 1 <=> j \in 1 .. i \/ j = i + 1
      OBVIOUS
    <3>2. S(i) \subseteq Nat
      BY <1>1, <2>1
    <3>3. QED BY <3>1, <3>2
  <2>5. f[i] = With(w, S(i)) /\ f[i + 1] = Mark(f[i], q)
    BY <1>2, <1>4, <2>1
  <2> HIDE DEF S, q, n
  <2>6. Mark(f[i], q) = With(f[i], {q})
    <3>1. f[i] \in WalkStates /\ ~f[i].error /\ f[i].marked = w.marked \cup S(i)
      BY <2>4, <2>5, Grows DEF Grown
    <3>2. q \notin f[i].marked
      BY <2>2, <2>3, <3>1
    <3>3. QED BY <2>2, <3>1, <3>2, Marking
  <2>7. With(With(w, S(i)), {q}) = With(w, S(i) \cup {q})
    BY <2>2, <2>4, WithTwice
  <2>8. QED BY <2>4, <2>5, <2>6, <2>7
<1> HIDE DEF T, S, n
<1>5. Nat \subseteq T
  BY <1>3, <1>4, SetInduction
<1>6. n \in T
  BY <1>1, <1>5
<1>7. f[n] = With(w, S(n))
  BY <1>1, <1>6 DEF T
<1>8. QED BY <1>1, <1>2, <1>7

\* Some pages of overflow chains were walked, exactly as they were written.
ChainPages(c, S) == \A p \in S : p \in Ownable /\ c[p].kind = "chain" /\ content[p] = c[p]

\* A chain is walked up to its end, unless it goes on there.
LEMMA ChainWalked ==
  ASSUME NEW c, NEW roots, NEW first, Intact(c, roots, first), NearBy(c, content),
         NEW w \in WalkStates, ~w.error, NEW overflow \in Nat \X Nat, NEW ahead,
         Frontier(Pointers(c, roots, first), w.marked \ {Reserved}, ahead),
         overflow[1] \in ahead, ChainFits(c, overflow[1], overflow[2]),
         content \in [1 .. PageCount -> Pages]
  PROVE  \/ WalkChain(w, overflow).error /\ content # c
         \/ \E C \in SUBSET Nat :
              /\ WalkChain(w, overflow) = With(w, C) /\ ChainPages(c, C)
              /\ Frontier(Pointers(c, roots, first), (w.marked \cup C) \ {Reserved},
                          ahead \ {overflow[1]})
<1> DEFINE Q == Pointers(c, roots, first)
           n == overflow[2]
           head == overflow[1]
           rest == ahead \ {head}
<1>1. n \in Nat \ {0} /\ head \in ahead /\ head \in Nat
  BY DEF ChainFits
<1>2. PICK ch \in [1 .. n -> {p \in 1 .. PageCount : c[p].kind = "chain"}] :
        /\ ch[1] = head /\ c[ch[n]].next = 0
        /\ \A i \in 1 .. n - 1 : c[ch[i]].next = ch[i + 1]
  BY DEF ChainFits
<1>3. \A i \in 1 .. n : ch[i] \in 1 .. PageCount /\ c[ch[i]].kind = "chain" /\ ch[i] \in Nat /\ ch[i] # 0
  OBVIOUS
<1>4. PICK f : WalkChainBy(f, w, overflow)
  BY <1>1, WalkChainUnfolds
<1>5. /\ f[0] = [walk |-> w, at |-> head] /\ WalkChain(w, overflow) = f[n].walk
      /\ \A i \in 1 .. n : f[i] = ChainStep(f[i - 1], i = n)
  BY <1>4 DEF WalkChainBy
<1>6. NamesOnce(Q)
  BY DEF Intact
<1>7. Frontier(Q, w.marked \ {Reserved}, ahead)
  OBVIOUS
<1> HIDE DEF Q, n, head, rest
<1> DEFINE S(i) == {ch[j] : j \in 1 .. i}
           M(i) == (w.marked \cup S(i)) \ {Reserved}
           Claim(i) == /\ f[i] = [walk |-> With(w, S(i)), at |-> ch[i + 1]]
                       /\ Frontier(Q, M(i), rest \cup {ch[i + 1]})
                       /\ ch[i + 1] \notin rest /\ ChainPages(c, S(i)) /\ S(i) \subseteq Nat
           T == {i \in Nat : i < n => Claim(i)}
\* What a step does to the pages walked and ahead.
<1>8. ASSUME NEW i \in Nat, i < n, Claim(i)
      PROVE  /\ ch[i + 1] \in Ownable /\ ch[i + 1] \notin w.marked \cup S(i)
             /\ S(i + 1) = S(i) \cup {ch[i + 1]} /\ S(i + 1) \subseteq Nat
             /\ M(i + 1) = M(i) \cup {ch[i + 1]}
             /\ f[i + 1] = ChainStep(f[i], i + 1 = n)
             /\ Mark(With(w, S(i)), ch[i + 1]) = With(w, S(i + 1))
             /\ Frontier(Q, M(i + 1), rest \cup ({c[ch[i + 1]].next} \ {0}))
             /\ c[ch[i + 1]].next # 0 => c[ch[i + 1]].next \notin rest
  <2> DEFINE q == ch[i + 1]
  <2>1. i + 1 \in 1 .. n /\ (i + 1) - 1 = i /\ q \in 1 .. PageCount /\ q \in Nat /\ c[q].kind = "chain"
    BY <1>1, <1>3, <1>8
  <2>2. f[i + 1] = ChainStep(f[i], i + 1 = n)
    BY <1>5, <2>1
  <2>3. S(i + 1) = S(i) \cup {q}
    <3>1. \A j : j \in 1 .. i + 1 <=> j \in 1 .. i \/ j = i + 1
      OBVIOUS
    <3>2. QED BY <3>1
  <2>4. Frontier(Q, M(i), rest \cup {q}) /\ q \notin rest /\ S(i) \subseteq Nat
    BY <1>8
  <2> HIDE DEF S, q
  <2>5. q \in Ownable /\ q \notin M(i) /\ q # Reserved
    BY <2>4 DEF Frontier, Ownable
  <2>6. q \notin w.marked \cup S(i) /\ M(i + 1) = M(i) \cup {q}
    BY <2>3, <2>5
  <2>7. Mark(With(w, S(i)), q) = With(w, S(i + 1))
    <3>1. With(w, S(i)) \in WalkStates /\ ~With(w, S(i)).error
          /\ With(w, S(i)).marked = w.marked \cup S(i)
      BY <2>4, Grows DEF Grown
    <3>2. Mark(With(w, S(i)), q) = With(With(w, S(i)), {q})
      BY <2>1, <2>6, <3>1, Marking
    <3>3. With(With(w, S(i)), {q}) = With(w, S(i) \cup {q})
      BY <2>1, <2>4, WithTwice
    <3>4. QED BY <2>3, <3>2, <3>3
  <2> HIDE DEF M
  <2>8. /\ Frontier(Q, M(i) \cup {q}, ((rest \cup {q}) \ {q}) \cup Targets(Q, q))
        /\ Targets(Q, q) \cap (M(i) \cup (rest \cup {q})) = {}
    <3>1. q \in rest \cup {q}
      OBVIOUS
    <3>2. QED BY <1>6, <2>4, <3>1, FrontierMoves
  <2>9. Targets(Q, q) = {c[q].next} \ {0}
    BY <2>1, ChainTargets DEF Q
  <2>10. ((rest \cup {q}) \ {q}) \cup Targets(Q, q) = rest \cup ({c[q].next} \ {0})
    BY <2>4, <2>9
  <2>11. Frontier(Q, M(i + 1), rest \cup ({c[q].next} \ {0}))
    BY <2>6, <2>8, <2>10
  <2>12. c[q].next # 0 => c[q].next \notin rest
    BY <2>8, <2>9
  <2>13. S(i + 1) \subseteq Nat
    BY <2>1, <2>3, <2>4
  <2>14. QED BY <2>2, <2>3, <2>5, <2>6, <2>7, <2>11, <2>12, <2>13 DEF q
\* What the first word of a page is.
<1>9. ASSUME NEW i \in Nat, i < n
      PROVE  /\ FirstWord(ch[i + 1]) = content[ch[i + 1]].next
             /\ i + 1 < n => /\ content[ch[i + 1]] = c[ch[i + 1]] /\ c[ch[i + 1]].next = ch[i + 2]
                             /\ ch[i + 2] # 0
             /\ content[ch[i + 1]].next = 0 => content[ch[i + 1]] = c[ch[i + 1]]
  <2> DEFINE q == ch[i + 1]
  <2>1. i + 1 \in 1 .. n /\ q \in 1 .. PageCount /\ c[q].kind = "chain"
    BY <1>1, <1>3, <1>9
  <2>2. c \in [1 .. PageCount -> Pages]
    BY DEF Intact
  <2>3. i + 1 < n => c[q].next = ch[i + 2] /\ ch[i + 2] # 0
    <3>1. i + 1 < n => i + 1 \in 1 .. n - 1 /\ i + 2 \in 1 .. n /\ (i + 1) + 1 = i + 2
      BY <1>1
    <3>2. QED BY <1>2, <1>3, <3>1
  <2> HIDE DEF q
  <2>4. /\ content[q].kind = "chain" /\ (c[q].next # 0 => content[q] = c[q])
        /\ content[q].next = 0 => content[q] = c[q]
    BY <2>1, <2>2, NearPages
  <2>5. FirstWord(q) = content[q].next
    BY <2>4 DEF FirstWord
  <2>6. QED BY <2>3, <2>4, <2>5 DEF q
<1>10. 0 \in T
  <2>1. S(0) = {}
    OBVIOUS
  <2>2. ch[0 + 1] = head /\ rest \cup {head} = ahead /\ head \notin rest
    BY <1>1, <1>2 DEF rest
  <2> HIDE DEF S
  <2>3. M(0) = w.marked \ {Reserved} /\ ChainPages(c, S(0)) /\ With(w, S(0)) = w
    BY <2>1, Grows DEF ChainPages
  <2> HIDE DEF M
  <2>4. Claim(0)
    BY <1>5, <1>7, <2>1, <2>2, <2>3
  <2>5. QED BY <2>4
<1>11. ASSUME NEW i \in Nat, i \in T
       PROVE  i + 1 \in T
  <2> SUFFICES ASSUME i + 1 < n
               PROVE  Claim(i + 1)
    OBVIOUS
  <2> DEFINE q == ch[i + 1]
             v == With(w, S(i + 1))
  <2>1. i < n /\ Claim(i) /\ (i + 1) + 1 = i + 2 /\ ~(i + 1 = n)
    BY <1>1, <1>11
  <2>2. /\ q \in Ownable /\ S(i + 1) = S(i) \cup {q} /\ S(i + 1) \subseteq Nat
        /\ f[i + 1] = ChainStep(f[i], i + 1 = n) /\ Mark(With(w, S(i)), q) = v
        /\ Frontier(Q, M(i + 1), rest \cup ({c[q].next} \ {0}))
        /\ c[q].next # 0 => c[q].next \notin rest
    BY <1>8, <2>1
  <2>3. /\ FirstWord(q) = content[q].next /\ content[q] = c[q] /\ c[q].next = ch[i + 2]
        /\ ch[i + 2] # 0
    BY <1>9, <2>1
  <2>4. f[i] = [walk |-> With(w, S(i)), at |-> q] /\ ChainPages(c, S(i))
    BY <2>1
  <2>5. c[q].kind = "chain"
    BY <1>1, <1>3, <2>1
  <2> HIDE DEF S, M, q
  <2>6. ~v.error /\ v \in WalkStates
    BY <2>2, Grows DEF Grown
  <2>7. f[i + 1] = [walk |-> v, at |-> ch[i + 2]]
    <3> HIDE DEF v
    <3>1. Mark(f[i].walk, f[i].at) = v /\ FirstWord(f[i].at) = ch[i + 2]
      BY <2>2, <2>3, <2>4
    <3>2. [v EXCEPT !.error = (i + 1 = n) /\ FirstWord(f[i].at) # 0] = v
      <4>1. ((i + 1 = n) /\ FirstWord(f[i].at) # 0) = FALSE
        BY <2>1
      <4>2. v.error = FALSE
        BY <2>6 DEF WalkStates
      <4>3. [v EXCEPT !.error = FALSE] = v
        BY <2>6, <4>2 DEF WalkStates
      <4>4. QED BY <4>1, <4>3
    <3>3. QED BY <2>2, <2>6, <3>1, <3>2 DEF ChainStep
  <2>8. ChainPages(c, S(i + 1))
    BY <2>2, <2>3, <2>4, <2>5 DEF ChainPages
  <2>9. Frontier(Q, M(i + 1), rest \cup {ch[i + 2]}) /\ ch[i + 2] \notin rest
    BY <2>2, <2>3
  <2>10. QED BY <2>1, <2>2, <2>7, <2>8, <2>9
<1> HIDE DEF T, Claim
<1>12. Nat \subseteq T
  BY <1>10, <1>11, SetInduction
\* The last page.
<1> DEFINE m == n - 1
<1>13. m \in Nat /\ m < n /\ m + 1 = n /\ m \in T
  BY <1>1, <1>12
<1>14. Claim(m)
  BY <1>13 DEF T
<1> HIDE DEF m
<1> DEFINE q == ch[m + 1]
           v == With(w, S(m + 1))
           bad == FirstWord(q) # 0
<1>15. /\ q \in Ownable /\ S(m + 1) = S(m) \cup {q} /\ S(m + 1) \subseteq Nat
       /\ f[m + 1] = ChainStep(f[m], m + 1 = n) /\ Mark(With(w, S(m)), q) = v
       /\ Frontier(Q, M(m + 1), rest \cup ({c[q].next} \ {0}))
  BY <1>8, <1>13, <1>14
<1>16. /\ f[m] = [walk |-> With(w, S(m)), at |-> q] /\ ChainPages(c, S(m))
       /\ c[q].kind = "chain" /\ c[q].next = 0
  BY <1>1, <1>2, <1>3, <1>13, <1>14 DEF Claim
<1>17. /\ FirstWord(q) = content[q].next /\ (content[q].next = 0 => content[q] = c[q])
  BY <1>9, <1>13
<1>18. Frontier(Q, M(m + 1), rest)
  <2>1. rest \cup ({c[q].next} \ {0}) = rest
    BY <1>16
  <2>2. QED BY <1>15, <2>1
<1> HIDE DEF S, q
<1>19. ~v.error /\ v \in WalkStates
  BY <1>15, Grows DEF Grown
<1>20. WalkChain(w, overflow) = [v EXCEPT !.error = bad]
  <2> HIDE DEF v
  <2>1. Mark(f[m].walk, f[m].at) = v /\ f[m].at = q
    BY <1>15, <1>16
  <2>2. f[m + 1] = [walk |-> [v EXCEPT !.error = (m + 1 = n) /\ FirstWord(q) # 0], at |-> FirstWord(q)]
    BY <1>15, <1>19, <2>1 DEF ChainStep
  <2>3. ((m + 1 = n) /\ FirstWord(q) # 0) = bad
    BY <1>13
  <2> HIDE DEF bad
  <2>4. f[m + 1].walk = [v EXCEPT !.error = bad]
    BY <2>2, <2>3
  <2>5. QED BY <1>5, <1>13, <2>4
<1> HIDE DEF v
<1>21. CASE content[q].next = 0
  <2>1. bad = FALSE /\ v.error = FALSE
    BY <1>17, <1>19, <1>21 DEF WalkStates
  <2>2. [v EXCEPT !.error = FALSE] = v
    BY <1>19, <2>1 DEF WalkStates
  <2>3. WalkChain(w, overflow) = v
    BY <1>20, <2>1, <2>2
  <2>4. ChainPages(c, S(m + 1))
    BY <1>15, <1>16, <1>17, <1>21 DEF ChainPages
  <2>5. S(m + 1) \in SUBSET Nat
    BY <1>15
  <2>6. Frontier(Q, (w.marked \cup S(m + 1)) \ {Reserved}, ahead \ {overflow[1]})
    BY <1>18 DEF rest, head
  <2>7. QED BY <2>3, <2>4, <2>5, <2>6 DEF v, Q
<1>22. CASE content[q].next # 0
  <2>1. content # c
    BY <1>16, <1>22
  <2>2. bad = TRUE
    BY <1>17, <1>22
  <2>3. WalkChain(w, overflow).error
    BY <1>19, <1>20, <2>2 DEF WalkStates
  <2>4. QED BY <2>1, <2>3
<1>23. QED BY <1>21, <1>22

\* The chains of a tree page are walked one after the other.
ChainsAhead(c, overflows, ahead) ==
  /\ \A i \in 1 .. Len(overflows) :
       overflows[i][1] \in ahead /\ ChainFits(c, overflows[i][1], overflows[i][2])
  /\ \A i, j \in 1 .. Len(overflows) : overflows[i][1] = overflows[j][1] => i = j
ChainsDone(c, roots, first, w, overflows, ahead) ==
  \/ WalkChains(w, overflows).error /\ content # c
  \/ \E C \in SUBSET Nat :
       /\ WalkChains(w, overflows) = With(w, C) /\ ChainPages(c, C)
       /\ Frontier(Pointers(c, roots, first), (w.marked \cup C) \ {Reserved},
                   ahead \ {overflows[i][1] : i \in 1 .. Len(overflows)})

LEMMA ChainsWalked ==
  ASSUME NEW c, NEW roots, NEW first, Intact(c, roots, first), NearBy(c, content),
         NEW w \in WalkStates, ~w.error, NEW overflows \in Seq(Nat \X Nat), NEW ahead,
         Frontier(Pointers(c, roots, first), w.marked \ {Reserved}, ahead),
         ChainsAhead(c, overflows, ahead), content \in [1 .. PageCount -> Pages]
  PROVE  ChainsDone(c, roots, first, w, overflows, ahead)
<1> DEFINE Q == Pointers(c, roots, first)
           n == Len(overflows)
           S(i) == {overflows[j][1] : j \in 1 .. i}
           Good(r, i) == \E C \in SUBSET Nat :
                           /\ r = With(w, C) /\ ChainPages(c, C)
                           /\ Frontier(Q, (w.marked \cup C) \ {Reserved}, ahead \ S(i))
           Bad(r) == r \in WalkStates /\ r.error /\ content # c
<1>1. n \in Nat /\ \A i \in 1 .. n : overflows[i] \in Nat \X Nat
  OBVIOUS
<1>0. PICK f : WalkChainsBy(f, w, overflows)
  BY <1>1, WalkChainsUnfolds
<1>2. /\ f[0] = w /\ WalkChains(w, overflows) = f[n]
      /\ \A i \in 1 .. n : f[i] = WalkChain(f[i - 1], overflows[i])
  BY <1>0 DEF WalkChainsBy
<1>3. /\ Frontier(Q, w.marked \ {Reserved}, ahead)
      /\ \A i \in 1 .. n : overflows[i][1] \in ahead /\ ChainFits(c, overflows[i][1], overflows[i][2])
      /\ \A i, j \in 1 .. n : overflows[i][1] = overflows[j][1] => i = j
  BY DEF ChainsAhead
<1> HIDE DEF Q, n
<1> DEFINE Walked(i) == Bad(f[i]) \/ Good(f[i], i)
           T == {i \in Nat : i <= n => Walked(i)}
<1>4. 0 \in T
  <2>1. S(0) = {}
    OBVIOUS
  <2> HIDE DEF S
  <2>2. w.marked \cup {} = w.marked /\ ahead \ S(0) = ahead /\ With(w, {}) = w /\ ChainPages(c, {})
    BY <2>1, Grows DEF ChainPages
  <2>3. Good(w, 0)
    BY <1>3, <2>2
  <2> HIDE DEF Good, Bad
  <2>4. Walked(0)
    BY <1>2, <2>3
  <2> HIDE DEF Walked
  <2>5. QED BY <2>4
<1>5. ASSUME NEW i \in Nat, i \in T
      PROVE  i + 1 \in T
  <2> SUFFICES ASSUME i + 1 <= n
               PROVE  Walked(i + 1)
    <3> HIDE DEF Walked
    <3>1. QED OBVIOUS
  <2>0. i <= n /\ Walked(i)
    <3> HIDE DEF Walked
    <3>1. QED BY <1>1, <1>5
  <2> DEFINE o == overflows[i + 1]
  <2>1. /\ i + 1 \in 1 .. n /\ (i + 1) - 1 = i /\ i <= n /\ i + 1 \notin 1 .. i
        /\ \A j \in 1 .. i : j \in 1 .. n
    BY <1>1
  <2>2. f[i + 1] = WalkChain(f[i], o) /\ o \in Nat \X Nat /\ o[1] \in ahead /\ ChainFits(c, o[1], o[2])
    BY <1>1, <1>2, <1>3, <2>1
  <2>3. o[1] \notin S(i)
    BY <1>3, <2>1
  <2>4. S(i + 1) = S(i) \cup {o[1]}
    <3>1. \A j : j \in 1 .. i + 1 <=> j \in 1 .. i \/ j = i + 1
      OBVIOUS
    <3>2. QED BY <3>1
  <2> HIDE DEF S, o
  <2>5. CASE Bad(f[i])
    <3>1. Grown(f[i + 1], f[i], {o[1]} \cup Onward)
      BY <2>2, <2>5, WalkChainGrows
    <3>2. Bad(f[i + 1])
      BY <2>5, <3>1 DEF Grown
    <3>3. QED BY <3>2
  <2>6. CASE Good(f[i], i)
    <3>1. PICK C \in SUBSET Nat :
            /\ f[i] = With(w, C) /\ ChainPages(c, C)
            /\ Frontier(Q, (w.marked \cup C) \ {Reserved}, ahead \ S(i))
      BY <2>6
    <3>2. f[i] \in WalkStates /\ ~f[i].error /\ f[i].marked = w.marked \cup C
      BY <3>1, Grows DEF Grown
    <3>3. /\ Frontier(Q, f[i].marked \ {Reserved}, ahead \ S(i)) /\ o[1] \in ahead \ S(i)
      BY <2>2, <2>3, <3>1, <3>2
    <3>4. \/ WalkChain(f[i], o).error /\ content # c
          \/ \E D \in SUBSET Nat :
               /\ WalkChain(f[i], o) = With(f[i], D) /\ ChainPages(c, D)
               /\ Frontier(Q, (f[i].marked \cup D) \ {Reserved}, (ahead \ S(i)) \ {o[1]})
      BY <2>2, <3>2, <3>3, ChainWalked DEF Q
    <3>5. CASE WalkChain(f[i], o).error /\ content # c
      <4>1. Grown(f[i + 1], f[i], {o[1]} \cup Onward)
        <5>1. PICK v \in WalkStates, overflow \in Nat \X Nat : v = f[i] /\ overflow = o
          BY <2>2, <3>2
        <5>2. Grown(WalkChain(v, overflow), v, {overflow[1]} \cup Onward)
          BY WalkChainGrows
        <5>3. QED BY <2>2, <5>1, <5>2
      <4>2. Bad(f[i + 1])
        BY <2>2, <3>5, <4>1 DEF Grown
      <4>3. QED BY <4>2
    <3>6. ASSUME NEW D \in SUBSET Nat, WalkChain(f[i], o) = With(f[i], D), ChainPages(c, D),
                 Frontier(Q, (f[i].marked \cup D) \ {Reserved}, (ahead \ S(i)) \ {o[1]})
          PROVE  Good(f[i + 1], i + 1)
      <4>1. f[i + 1] = With(w, C \cup D)
        <5>1. With(With(w, C), D) = With(w, C \cup D)
          BY WithTwice
        <5>2. QED BY <2>2, <3>1, <3>6, <5>1
      <4>2. ChainPages(c, C \cup D)
        BY <3>1, <3>6 DEF ChainPages
      <4>3. (ahead \ S(i)) \ {o[1]} = ahead \ S(i + 1)
        BY <2>4
      <4>4. f[i].marked \cup D = w.marked \cup (C \cup D)
        BY <3>2
      <4>5. QED BY <3>6, <4>1, <4>2, <4>3, <4>4
    <3>7. QED BY <3>4, <3>5, <3>6
  <2>7. QED BY <2>0, <2>5, <2>6
<1> HIDE DEF T, Walked
<1>6. Nat \subseteq T
  BY <1>4, <1>5, SetInduction
<1>7. n \in T
  BY <1>1, <1>6
<1>8. Walked(n)
  BY <1>1, <1>7 DEF T
<1>9. CASE Bad(f[n])
  BY <1>2, <1>9 DEF ChainsDone
<1>10. CASE Good(f[n], n)
  BY <1>2, <1>10 DEF ChainsDone, n, Q
<1>11. QED BY <1>8, <1>9, <1>10 DEF Walked

\* The walk has passed nothing but pages of the freelist, and only trees are left.
LEMMA FreelistDone ==
  ASSUME NEW c, NEW roots, NEW first, Intact(c, roots, first), NEW walked, NEW ahead,
         Frontier(Pointers(c, roots, first), walked, ahead),
         \A p \in walked : c[p].kind \in {"trunk", "blank"},
         \A p \in ahead : c[p].kind = "tree"
  PROVE  walked = FreePart(Pointers(c, roots, first))
<1> DEFINE Q == Pointers(c, roots, first)
<1>1. NamesOnce(Q) /\ Reached(Q) /\ \A x \in Q : Fits(c, x)
  BY DEF Intact
<1>2. /\ \A x \in Q : x[1] \in Ownable \cup {0}
      /\ \A x \in Q : x[2] \in {"child", "chain", "free", "trunk"}
      /\ \A x \in Q : x[2] \in {"free", "trunk"} /\ x[1] # 0 => c[x[1]].kind = "trunk"
  BY NamedPages
<1>3. \A x \in Q : x[4] \in walked => x[2] \in {"free", "trunk"}
  BY NamedPages
<1>4. \A x \in Q : x[4] \in ahead => x[2] = "child"
  BY NamedPages
<1>5. \A p \in Ownable : \E x \in Q : x[4] = p
  BY Named
<1>6. Frontier(Q, walked, ahead)
  OBVIOUS
<1> HIDE DEF Q
<1>7. walked = FreePart(Q)
  BY <1>1, <1>2, <1>3, <1>4, <1>5, <1>6, FreePartWalked
<1>8. QED BY <1>7 DEF Q

\* Nobody reads the leaves of a trunk: all of them are walked at once.
LEMMA FrontierLeaves ==
  ASSUME NEW c, NEW roots, NEW first, Intact(c, roots, first), NEW walked, NEW ahead,
         Frontier(Pointers(c, roots, first), walked, ahead),
         NEW L \in SUBSET ahead, \A p \in L : c[p].kind = "blank"
  PROVE  Frontier(Pointers(c, roots, first), walked \cup L, ahead \ L)
<1> DEFINE Q == Pointers(c, roots, first)
<1>1. L \subseteq Ownable
  BY DEF Frontier
<1>2. \A x \in Q : x[1] \notin L
  <2>1. ASSUME NEW x \in Q, x[1] \in L
        PROVE  FALSE
    <3>1. x[1] \in 1 .. PageCount /\ c[x[1]].kind = "blank"
      BY <1>1, <2>1 DEF Ownable
    <3>2. Targets(Q, x[1]) = {}
      BY <3>1, BlankTargets
    <3>3. x[4] \in Ownable
      BY NamedPages
    <3>4. QED BY <3>2, <3>3 DEF Targets
  <2>2. QED BY <2>1
<1> HIDE DEF Q
<1>3. Frontier(Q, walked, ahead)
  BY DEF Q
<1>4. Frontier(Q, walked \cup L, ahead \ L)
  BY <1>2, <1>3 DEF Frontier
<1>5. QED BY <1>4 DEF Q

-----------------------------------------------------------------------------
(* The walk follows the file that was written.                               *)

\* A sound file with n free pages, and what is left of it: a freelist or a chain may go on
\* where it ended, and the count may be wrong.
Given(c, roots, first, n, level, e, h) ==
  /\ Intact(c, roots, first) /\ NearBy(c, e) /\ e \in [1 .. PageCount -> Pages]
  /\ n = Cardinality(FreePart(Pointers(c, roots, first)))
  /\ level \in [1 .. PageCount -> 0 .. MaxDepth - 1]
  /\ \A i \in 1 .. Len(roots) : level[roots[i]] = 0
  /\ \A p \in 1 .. PageCount : c[p].kind = "tree" =>
       \A i \in 1 .. Len(c[p].children) : level[c[p].children[i]] = level[p] + 1
  /\ h.first \in Nat /\ (h.first = first \/ first = 0)

Differs(c, first, n, e, h) == e # c \/ h.first # first \/ h.free # n

\* The pages walked are as they were written.
Same(c, first, e, h, walked) == h.first = first /\ \A p \in walked : e[p] = c[p]

\* On the freelist: it is followed, or it was passed and led on.
OnFreelist(c, roots, first, n, e, h, w, walked) ==
  /\ w.pending = <<>> /\ w.roots = roots /\ w.free = Cardinality(walked)
  /\ \A p \in walked : c[p].kind \in {"trunk", "blank"}
  /\ \/ /\ Same(c, first, e, h, walked)
        /\ w.trunk # 0 => c[w.trunk].kind = "trunk"
        /\ Frontier(Pointers(c, roots, first), walked, Range(roots) \cup ({w.trunk} \ {0}))
     \/ /\ Differs(c, first, n, e, h) /\ w.trunk # 0
        /\ walked = FreePart(Pointers(c, roots, first))

\* The pages ahead in the trees.
Ahead(w) == {w.pending[i][1] : i \in 1 .. Len(w.pending)} \cup Range(w.roots)
Apart(w) ==
  /\ \A i, j \in 1 .. Len(w.pending) : w.pending[i][1] = w.pending[j][1] => i = j
  /\ \A i, j \in 1 .. Len(w.roots) : w.roots[i] = w.roots[j] => i = j
  /\ \A i \in 1 .. Len(w.pending) : \A j \in 1 .. Len(w.roots) : w.pending[i][1] # w.roots[j]
OnTrees(c, roots, first, n, level, e, h, w, walked) ==
  /\ Same(c, first, e, h, walked) /\ h.free = n /\ Apart(w)
  /\ Frontier(Pointers(c, roots, first), walked, Ahead(w))
  /\ \A i \in 1 .. Len(w.pending) : /\ c[w.pending[i][1]].kind = "tree"
                                    /\ level[w.pending[i][1]] = w.pending[i][2]
  /\ \A i \in 1 .. Len(w.roots) : c[w.roots[i]].kind = "tree" /\ level[w.roots[i]] = 0

Trail(c, roots, first, n, level, e, h, w) ==
  /\ w \in WalkStates
  /\ w.error => Differs(c, first, n, e, h)
  /\ ~w.error =>
       /\ w.marked \subseteq 1 .. PageCount /\ (Reserved \in 1 .. PageCount => Reserved \in w.marked)
       /\ w.stage = "free" => OnFreelist(c, roots, first, n, e, h, w, w.marked \ {Reserved})
       /\ w.stage = "trees" => OnTrees(c, roots, first, n, level, e, h, w, w.marked \ {Reserved})
       /\ w.stage = "end" => ~Differs(c, first, n, e, h)

\* What it takes to follow.
LEMMA Follows ==
  ASSUME NEW c, NEW roots, NEW first, NEW n, NEW level, NEW e, NEW h, NEW w \in WalkStates
  PROVE  /\ w.error /\ Differs(c, first, n, e, h) => Trail(c, roots, first, n, level, e, h, w)
         /\ /\ ~w.error /\ w.marked \subseteq 1 .. PageCount
            /\ Reserved \in 1 .. PageCount => Reserved \in w.marked
            /\ \/ w.stage = "free" /\ OnFreelist(c, roots, first, n, e, h, w, w.marked \ {Reserved})
               \/ w.stage = "trees" /\ OnTrees(c, roots, first, n, level, e, h, w, w.marked \ {Reserved})
               \/ w.stage = "end" /\ ~Differs(c, first, n, e, h)
            => Trail(c, roots, first, n, level, e, h, w)
BY DEF Trail

\* The numbers of pages are finite.
LEMMA PagesFinite ==
  /\ PageCount \in Nat /\ Ownable \subseteq 1 .. PageCount /\ 1 .. PageCount \subseteq Nat
  /\ \A S : S \subseteq 1 .. PageCount => IsFiniteSet(S) /\ Cardinality(S) \in Nat
<1>1. PageCount \in Nat
  BY FileAssumption
<1>2. IsFiniteSet(1 .. PageCount)
  BY <1>1, FS_Interval
<1>3. ASSUME NEW S, S \subseteq 1 .. PageCount
      PROVE  IsFiniteSet(S) /\ Cardinality(S) \in Nat
  BY <1>2, <1>3, FS_Subset, FS_CardinalityType
<1>4. QED BY <1>1, <1>3 DEF Ownable

LEMMA StartWalked ==
  ASSUME NEW c, NEW roots, NEW first, NEW n, NEW level,
         Given(c, roots, first, n, level, content, header), roots = image.roots
  PROVE  /\ Trail(c, roots, first, n, level, content, header, StartWalk)
         /\ StartWalk.stage = "free" /\ ~StartWalk.error
<1> DEFINE Q == Pointers(c, roots, first)
           w == [stage |-> "free", marked |-> {}, error |-> FALSE, trunk |-> header.first,
                 free |-> 0, pending |-> <<>>, roots |-> roots]
           S == IF Reserved \in 1 .. PageCount THEN {Reserved} ELSE {}
           M == S \ {Reserved}
<1>1. /\ Intact(c, roots, first) /\ n = Cardinality(FreePart(Q))
      /\ header.first \in Nat /\ (header.first = first \/ first = 0)
  BY DEF Given
<1>2. roots \in Seq(Nat)
  BY <1>1 DEF Intact
<1>3. w \in WalkStates /\ ~w.error /\ w.marked = {}
  BY <1>1, <1>2 DEF WalkStates
<1>4. S \subseteq 1 .. PageCount /\ S \in SUBSET Nat /\ M = {}
  BY PagesFinite
<1>5. StartWalk = With(w, S)
  <2>1. CASE Reserved \in 1 .. PageCount
    <3>1. StartWalk = Mark(w, Reserved)
      BY <2>1 DEF StartWalk
    <3> HIDE DEF w
    <3>2. Mark(w, Reserved) = With(w, {Reserved})
      BY <1>3, <2>1, PagesFinite, Marking
    <3>3. QED BY <2>1, <3>1, <3>2
  <2>2. CASE Reserved \notin 1 .. PageCount
    <3>1. StartWalk = w
      BY <2>2 DEF StartWalk
    <3> HIDE DEF w
    <3>2. With(w, {}) = w
      BY <1>3, Grows
    <3>3. QED BY <2>2, <3>1, <3>2
  <2>3. QED BY <2>1, <2>2
<1>6. /\ StartWalk \in WalkStates /\ StartWalk.marked = S /\ ~StartWalk.error
      /\ StartWalk.stage = "free" /\ StartWalk.pending = <<>> /\ StartWalk.roots = roots
      /\ StartWalk.free = 0 /\ StartWalk.trunk = header.first
  <2>1. /\ w.stage = "free" /\ w.pending = <<>> /\ w.roots = roots /\ w.free = 0
        /\ w.trunk = header.first
    OBVIOUS
  <2> HIDE DEF w, S
  <2>2. Grown(With(w, S), w, S) /\ With(w, S).marked = w.marked \cup S /\ With(w, S).error = w.error
    BY <1>3, <1>4, Grows
  <2>3. QED BY <1>3, <1>5, <2>1, <2>2 DEF Grown, Alike
<1>7. /\ Frontier(Q, {}, Range(roots) \cup ({first} \ {0}))
      /\ first # 0 => c[first].kind = "trunk"
      /\ \A i \in 1 .. Len(roots) : c[roots[i]].kind = "tree"
  <2>1. /\ Targets(Q, 0) = Range(roots) \cup ({first} \ {0})
        /\ first # 0 => c[first].kind = "trunk"
        /\ \A i \in 1 .. Len(roots) : c[roots[i]].kind = "tree"
    BY <1>1, RootTargets
  <2>2. NamesOnce(Q)
    BY <1>1 DEF Intact
  <2> HIDE DEF Q
  <2>3. Frontier(Q, {}, Targets(Q, 0))
    BY <2>2, FrontierStarts
  <2>4. QED BY <2>1, <2>3
<1> HIDE DEF S, w, Q
<1>8. CASE header.first = first
  <2>1. OnFreelist(c, roots, first, n, content, header, StartWalk, {})
    BY <1>6, <1>7, <1>8, FS_EmptySet DEF OnFreelist, Same, Q
  <2>2. QED BY <1>4, <1>6, <2>1 DEF Trail, S
<1>9. CASE header.first # first
  <2>1. header.first # 0 /\ Differs(c, first, n, content, header)
    BY <1>1, <1>9 DEF Differs
  <2>2. FreePart(Q) = {}
    <3>1. Frontier(Q, {}, Range(roots))
      <4>1. Range(roots) \cup ({first} \ {0}) = Range(roots)
        BY <1>1, <1>9
      <4>2. QED BY <1>7, <4>1
    <3>2. \A p \in Range(roots) : c[p].kind = "tree"
      BY <1>2, <1>7 DEF Range
    <3>3. QED BY <1>1, <3>1, <3>2, FreelistDone DEF Q
  <2>3. OnFreelist(c, roots, first, n, content, header, StartWalk, {})
    BY <1>6, <2>1, <2>2, FS_EmptySet DEF OnFreelist, Q
  <2>4. QED BY <1>4, <1>6, <2>3 DEF Trail, S
<1>10. QED BY <1>6, <1>8, <1>9

\* The end of the freelist: its count is compared.
LEMMA TrunksEnd ==
  ASSUME NEW c, NEW roots, NEW first, NEW n, NEW level, NEW w,
         Given(c, roots, first, n, level, content, header),
         Trail(c, roots, first, n, level, content, header, w), ~w.error, w.stage = "free",
         w.trunk = 0
  PROVE  Trail(c, roots, first, n, level, content, header, WalkTrunk(w))
<1> DEFINE Q == Pointers(c, roots, first)
           M == w.marked \ {Reserved}
           r == WalkTrunk(w)
<1>1. /\ Intact(c, roots, first) /\ n = Cardinality(FreePart(Q))
      /\ \A i \in 1 .. Len(roots) : level[roots[i]] = 0
  BY DEF Given
<1>2. /\ w \in WalkStates /\ w.marked \subseteq 1 .. PageCount
      /\ Reserved \in 1 .. PageCount => Reserved \in w.marked
      /\ OnFreelist(c, roots, first, n, content, header, w, M)
  BY DEF Trail
<1>3. /\ w.pending = <<>> /\ w.roots = roots /\ w.free = Cardinality(M)
      /\ \A p \in M : c[p].kind \in {"trunk", "blank"}
      /\ Same(c, first, content, header, M) /\ Frontier(Q, M, Range(roots))
  <2>1. Range(roots) \cup ({w.trunk} \ {0}) = Range(roots)
    OBVIOUS
  <2>2. QED BY <1>2, <2>1 DEF OnFreelist
<1>4. r = [w EXCEPT !.stage = "trees", !.error = w.free # header.free]
  BY DEF WalkTrunk
<1> DEFINE bad == w.free # header.free
<1>5. /\ r \in WalkStates /\ (r.error <=> w.free # header.free) /\ r.marked = w.marked
      /\ r.stage = "trees" /\ r.pending = <<>> /\ r.roots = roots
  <2>1. bad \in BOOLEAN
    OBVIOUS
  <2>2. r = [w EXCEPT !.stage = "trees", !.error = bad]
    BY <1>4
  <2> HIDE DEF r, bad
  <2>3. r \in WalkStates /\ r.error = bad /\ r.marked = w.marked
        /\ r.stage = "trees" /\ r.pending = w.pending /\ r.roots = w.roots
    BY <1>2, <2>1, <2>2 DEF WalkStates
  <2>4. QED BY <1>3, <2>3 DEF bad
<1> HIDE DEF r, Q
<1>6. /\ roots \in Seq(Nat) /\ Range(roots) = {roots[i] : i \in 1 .. Len(roots)}
      /\ \A i \in 1 .. Len(roots) : c[roots[i]].kind = "tree"
      /\ \A i, j \in 1 .. Len(roots) : roots[i] = roots[j] => i = j
  <2>1. roots \in Seq(Nat)
    BY <1>1 DEF Intact
  <2>2. QED BY <1>1, <2>1, RootTargets DEF Range
<1>7. M = FreePart(Q)
  <2>1. \A p \in Range(roots) : c[p].kind = "tree"
    BY <1>6
  <2> HIDE DEF M
  <2>2. QED BY <1>1, <1>3, <2>1, FreelistDone DEF Q
<1>8. CASE r.error
  <2>1. header.free # n
    BY <1>1, <1>3, <1>5, <1>7, <1>8
  <2>2. Differs(c, first, n, content, header)
    BY <2>1 DEF Differs
  <2>3. QED BY <1>5, <1>8, <2>2, Follows DEF r
<1>9. CASE ~r.error
  <2>1. header.free = n
    BY <1>1, <1>3, <1>5, <1>7, <1>9
  <2>2. Ahead(r) = Range(roots)
    <3>1. Len(r.pending) = 0
      BY <1>5
    <3>2. QED BY <1>5, <3>1 DEF Ahead
  <2>3. Apart(r)
    <3>1. Len(r.pending) = 0
      BY <1>5
    <3>2. QED BY <1>5, <1>6, <3>1 DEF Apart
  <2> HIDE DEF M
  <2>4. OnTrees(c, roots, first, n, level, content, header, r, M)
    <3>1. Frontier(Pointers(c, roots, first), M, Ahead(r))
      BY <1>3, <2>2 DEF Q
    <3>2. \A i : i \notin 1 .. Len(r.pending)
      BY <1>5
    <3>3. QED BY <1>1, <1>3, <1>5, <1>6, <2>1, <2>3, <3>1, <3>2 DEF OnTrees
  <2>5. QED BY <1>2, <1>5, <1>9, <2>4, Follows DEF M, r
<1>10. QED BY <1>8, <1>9 DEF r

\* What a page names as a trunk.
LEMMA LeavesTyped ==
  ASSUME content \in [1 .. PageCount -> Pages], NEW p \in 1 .. PageCount
  PROVE  /\ Leaves(p) \in Seq(Nat) /\ FirstWord(p) \in Nat
         /\ content[p].kind = "trunk" =>
              /\ Leaves(p) = content[p].leaves /\ Len(Leaves(p)) <= TrunkSlots
              /\ FirstWord(p) = content[p].next
         /\ content[p].kind = "blank" => Leaves(p) = <<>> /\ FirstWord(p) = 0
<1>1. content[p] \in Pages
  OBVIOUS
<1>2. content[p].kind \in {"tree", "chain", "trunk", "blank"}
  BY <1>1, PageKinds
<1>3. FirstWord(p) \in Nat
  BY OnwardIsNat
<1>4. CASE content[p].kind = "trunk"
  BY <1>1, <1>3, <1>4, PageKinds DEF Leaves, FirstWord
<1>5. CASE content[p].kind \in {"tree", "chain"}
  <2>1. Payload[p] \in Seq(Nat)
    BY ValidationAssumption, Zenon
  <2>2. Leaves(p) = Payload[p]
    BY <1>5 DEF Leaves
  <2>3. QED BY <1>3, <1>5, <2>1, <2>2
<1>6. CASE content[p].kind = "blank"
  BY <1>3, <1>6 DEF Leaves, FirstWord
<1>7. QED BY <1>2, <1>4, <1>5, <1>6

\* A page of a tree or of an overflow chain.
InTrees(e, p) == p \in 1 .. PageCount /\ e[p].kind \in {"tree", "chain"}

\* A page of the freelist was read, whatever it is.
Passed(w, r) ==
  /\ w.trunk \in 1 .. PageCount /\ w.trunk \notin w.marked
  /\ r \in WalkStates /\ r.stage = w.stage /\ r.pending = w.pending /\ r.roots = w.roots
  /\ r.trunk = FirstWord(w.trunk) /\ w.marked \cup {w.trunk} \subseteq r.marked
  /\ r.marked \subseteq (w.marked \cup {w.trunk}) \cup Range(Leaves(w.trunk))

LEMMA TrunkRead ==
  ASSUME content \in [1 .. PageCount -> Pages], NEW w \in WalkStates, ~w.error, w.trunk # 0
  PROVE  \/ WalkTrunk(w).error /\ Grown(WalkTrunk(w), w, {w.trunk})
         \/ Passed(w, WalkTrunk(w))
<1> DEFINE t == w.trunk
           marked == Mark(w, t)
           leaves == Leaves(t)
           onward == FirstWord(t)
           n == Len(leaves)
           v == MarkAll(marked, leaves)
           r == WalkTrunk(w)
<1>1. t \in Nat /\ t # 0
  BY DEF WalkStates
<1>2. /\ Grown(marked, w, {t}) /\ marked \in WalkStates
      /\ ~marked.error => t \in 1 .. PageCount /\ t \notin w.marked /\ marked = With(w, {t})
  BY <1>1, Marking DEF Grown
<1>3. CASE marked.error
  <2>1. r = marked
    BY <1>1, <1>3 DEF WalkTrunk, TakeTrunk
  <2>2. QED BY <1>2, <1>3, <2>1
<1>4. CASE ~marked.error
  <2>1. t \in 1 .. PageCount /\ t \notin w.marked /\ marked.marked = w.marked \cup {t}
    <3>1. {t} \in SUBSET Nat
      BY <1>1
    <3>2. QED BY <1>2, <1>4, <3>1, Grows
  <2>2. leaves \in Seq(Nat) /\ n \in Nat /\ onward \in Nat
    <3>1. leaves \in Seq(Nat) /\ onward \in Nat
      BY <2>1, LeavesTyped
    <3> HIDE DEF leaves
    <3>2. QED BY <3>1
  <2>3. marked.trunk = t /\ marked.stage = w.stage /\ marked.pending = w.pending /\ marked.roots = w.roots
    BY <1>2 DEF Grown, Alike
  <2>4. r = ReadTrunk(marked)
    BY <1>1, <1>4 DEF WalkTrunk, TakeTrunk
  <2> HIDE DEF r, marked, leaves, onward, n
  <2>5. CASE n > TrunkSlots
    <3>1. r = [marked EXCEPT !.error = TRUE]
      BY <2>3, <2>4, <2>5 DEF ReadTrunk, n, leaves
    <3>2. r \in WalkStates /\ r.error /\ r.marked = marked.marked /\ Alike(r, marked)
      BY <1>2, <3>1 DEF WalkStates, Alike
    <3>3. Grown(r, w, {t})
      BY <1>2, <3>2 DEF Grown, Alike
    <3>4. QED BY <3>2, <3>3 DEF r
  <2>6. CASE ~(n > TrunkSlots)
    <3>1. r = [v EXCEPT !.free = v.free + 1 + n, !.trunk = onward]
      BY <2>3, <2>4, <2>6 DEF ReadTrunk, n, leaves, onward
    <3>2. Grown(v, marked, Range(leaves)) /\ v \in WalkStates
      BY <1>2, <2>2, MarkAllGrows DEF Grown
    <3> HIDE DEF v
    <3>3. v.free + 1 + n \in Nat
      BY <2>2, <3>2 DEF WalkStates
    <3>4. /\ r \in WalkStates /\ r.marked = v.marked /\ r.stage = v.stage /\ r.roots = v.roots
          /\ r.pending = v.pending /\ r.trunk = onward
      BY <2>2, <3>1, <3>2, <3>3 DEF WalkStates
    <3>5. Passed(w, r)
      BY <2>1, <2>3, <3>2, <3>4 DEF Passed, Grown, Alike, leaves, onward
    <3>6. QED BY <3>5 DEF r
  <2>7. QED BY <2>5, <2>6
<1>5. QED BY <1>3, <1>4

\* A trunk that was passed led on: to a page of the trees, or one that was walked before.
LEMMA TrunkAstray ==
  ASSUME NEW c, NEW roots, NEW first, NEW n, NEW level, NEW w,
         Given(c, roots, first, n, level, content, header), w \in WalkStates, ~w.error,
         Differs(c, first, n, content, header), w.trunk # 0,
         Reserved \in 1 .. PageCount => Reserved \in w.marked,
         w.marked \ {Reserved} = FreePart(Pointers(c, roots, first))
  PROVE  \/ Trail(c, roots, first, n, level, content, header, WalkTrunk(w))
         \/ Passed(w, WalkTrunk(w)) /\ content[w.trunk].kind \in {"tree", "chain"}
<1> DEFINE Q == Pointers(c, roots, first)
           r == WalkTrunk(w)
<1>1. Intact(c, roots, first) /\ NearBy(c, content) /\ content \in [1 .. PageCount -> Pages]
  BY DEF Given
<1>2. (r.error /\ Grown(r, w, {w.trunk})) \/ Passed(w, r)
  BY <1>1, TrunkRead
<1> HIDE DEF r
<1>3. CASE r.error /\ Grown(r, w, {w.trunk})
  <2>1. r \in WalkStates
    BY <1>3 DEF Grown
  <2>2. Trail(c, roots, first, n, level, content, header, r)
    BY <1>3, <2>1, Follows
  <2>3. QED BY <2>2 DEF r
<1>4. CASE Passed(w, r)
  <2>1. PICK t \in 1 .. PageCount : t = w.trunk /\ t \notin w.marked
    BY <1>4 DEF Passed
  <2>2. t \in Ownable /\ t \notin FreePart(Q)
    BY <2>1 DEF Ownable
  <2>3. c[t].kind \notin {"trunk", "blank"}
    BY <1>1, <2>2, FreeKinds
  <2>4. content[t].kind = c[t].kind
    <3>1. c \in [1 .. PageCount -> Pages]
      BY <1>1 DEF Intact
    <3>2. \A p \in 1 .. PageCount : content[p].kind = c[p].kind
      BY <1>1, <3>1, NearKinds
    <3>3. QED BY <3>2
  <2>5. content[t].kind \in {"tree", "chain", "trunk", "blank"}
    BY <1>1, PageKinds
  <2>6. QED BY <1>4, <2>1, <2>3, <2>4, <2>5 DEF r
<1>5. QED BY <1>2, <1>3, <1>4

\* One trunk and its leaves.
LEMMA TrunkFollowed ==
  ASSUME NEW c, NEW roots, NEW first, NEW n, NEW level, NEW w,
         Given(c, roots, first, n, level, content, header), w \in WalkStates, ~w.error,
         w.marked \subseteq 1 .. PageCount, Reserved \in 1 .. PageCount => Reserved \in w.marked,
         w.stage = "free", w.pending = <<>>, w.roots = roots, w.trunk # 0,
         w.free = Cardinality(w.marked \ {Reserved}),
         \A p \in w.marked \ {Reserved} : c[p].kind \in {"trunk", "blank"},
         Same(c, first, content, header, w.marked \ {Reserved}), c[w.trunk].kind = "trunk",
         Frontier(Pointers(c, roots, first), w.marked \ {Reserved}, Range(roots) \cup {w.trunk})
  PROVE  Trail(c, roots, first, n, level, content, header, WalkTrunk(w))
<1> DEFINE Q == Pointers(c, roots, first)
           t == w.trunk
           M == w.marked \ {Reserved}
           page == content[t]
           leaves == c[t].leaves
           L == Range(leaves)
           onward == c[t].next
           r == WalkTrunk(w)
<1>1. /\ Intact(c, roots, first) /\ NearBy(c, content) /\ content \in [1 .. PageCount -> Pages]
      /\ c \in [1 .. PageCount -> Pages] /\ roots \in Seq(Nat)
      /\ n = Cardinality(FreePart(Q))
  BY DEF Given, Intact
<1>2. /\ t \in Ownable /\ t \in 1 .. PageCount /\ t \in Nat /\ t \notin w.marked /\ t # Reserved
      /\ t \notin M /\ M \subseteq Ownable /\ w.free \in Nat
  BY PagesFinite DEF Frontier, Ownable
<1>3. /\ \A p \in Range(roots) : c[p].kind = "tree"
      /\ t \notin Range(roots)
  <2>1. \A i \in 1 .. Len(roots) : c[roots[i]].kind = "tree"
    BY <1>1, RootTargets
  <2>2. Range(roots) = {roots[i] : i \in 1 .. Len(roots)}
    BY <1>1 DEF Range
  <2>3. QED BY <2>1, <2>2
<1>4. /\ Targets(Q, t) = L \cup ({onward} \ {0})
      /\ L \subseteq Ownable /\ \A p \in L : c[p].kind = "blank"
      /\ onward # 0 => onward \in Ownable /\ c[onward].kind = "trunk"
      /\ \A i, j \in 1 .. Len(leaves) : leaves[i] = leaves[j] => i = j
      /\ leaves \in Seq(Nat) /\ DOMAIN leaves = 1 .. Len(leaves) /\ Len(leaves) \in Nat
      /\ L = {leaves[i] : i \in 1 .. Len(leaves)}
  <2>1. leaves \in Seq(Nat)
    <3>1. c[t] \in Pages
      BY <1>1, <1>2
    <3>2. QED BY <3>1, PageKinds
  <2>2. /\ Targets(Q, t) = L \cup ({onward} \ {0})
        /\ \A i \in 1 .. Len(leaves) : leaves[i] \in Ownable /\ c[leaves[i]].kind = "blank"
        /\ onward # 0 => onward \in Ownable /\ c[onward].kind = "trunk"
        /\ \A i, j \in 1 .. Len(leaves) : leaves[i] = leaves[j] => i = j
    <3>1. t \in 1 .. PageCount /\ c[t].kind = "trunk"
      BY <1>2
    <3>2. PICK p \in 1 .. PageCount : p = t /\ c[p].kind = "trunk"
      BY <3>1
    <3>3. Intact(c, roots, first)
      BY <1>1
    <3>4. /\ Targets(Q, p) = Range(c[p].leaves) \cup ({c[p].next} \ {0})
          /\ \A i \in 1 .. Len(c[p].leaves) :
               c[p].leaves[i] \in Ownable /\ c[c[p].leaves[i]].kind = "blank"
          /\ c[p].next # 0 => c[p].next \in Ownable /\ c[c[p].next].kind = "trunk"
          /\ \A i, j \in 1 .. Len(c[p].leaves) : c[p].leaves[i] = c[p].leaves[j] => i = j
      BY <3>2, <3>3, TrunkTargets
    <3> HIDE DEF t
    <3>5. QED BY <3>2, <3>4
  <2>3. DOMAIN leaves = 1 .. Len(leaves) /\ L = {leaves[i] : i \in 1 .. Len(leaves)}
        /\ Len(leaves) \in Nat
    <3> HIDE DEF leaves
    <3>1. DOMAIN leaves = 1 .. Len(leaves) /\ Len(leaves) \in Nat
      BY <2>1
    <3>2. L = {leaves[i] : i \in 1 .. Len(leaves)}
      BY <3>1 DEF Range
    <3>3. QED BY <3>1, <3>2
  <2>4. QED BY <2>1, <2>2, <2>3
<1>5. /\ page.kind = "trunk" /\ page.leaves = leaves /\ page.next \in Nat
      /\ onward # 0 => page = c[t]
      /\ page.next = 0 => page = c[t]
  <2>1. c \in [1 .. PageCount -> Pages] /\ NearBy(c, content) /\ t \in 1 .. PageCount /\ c[t].kind = "trunk"
    BY <1>1, <1>2
  <2>2. \A p \in 1 .. PageCount : c[p].kind = "trunk" =>
           /\ content[p].kind = "trunk" /\ content[p].leaves = c[p].leaves /\ content[p].next \in Nat
           /\ c[p].next # 0 => content[p] = c[p]
           /\ content[p].next = 0 => content[p] = c[p]
    <3>1. \A p \in 1 .. PageCount : c[p].kind = "trunk" => NearTrunk(c, content, p)
      BY <2>1, NearTrunks
    <3>2. QED BY <3>1 DEF NearTrunk
  <2> HIDE DEF t
  <2>3. QED BY <2>1, <2>2
\* The pages walked and ahead.
<1>6. /\ Frontier(Q, M \cup {t}, Range(roots) \cup (L \cup ({onward} \ {0})))
      /\ L \cap (M \cup {t}) = {}
      /\ (L \cup ({onward} \ {0})) \cap Range(roots) = {}
  <2>1. t \in Range(roots) \cup {t} /\ NamesOnce(Q) /\ Frontier(Q, M, Range(roots) \cup {t})
    BY <1>1 DEF Intact
  <2> HIDE DEF Q, M, t
  <2>2. /\ Frontier(Q, M \cup {t}, ((Range(roots) \cup {t}) \ {t}) \cup Targets(Q, t))
        /\ Targets(Q, t) \cap (M \cup (Range(roots) \cup {t})) = {}
    <3> DEFINE ahead == Range(roots) \cup {t}
    <3>1. t \in ahead /\ NamesOnce(Q) /\ Frontier(Q, M, ahead)
      BY <2>1
    <3> HIDE DEF ahead
    <3>2. /\ Frontier(Q, M \cup {t}, (ahead \ {t}) \cup Targets(Q, t))
          /\ Targets(Q, t) \cap (M \cup ahead) = {}
      BY <3>1, FrontierMoves, Zenon
    <3>3. QED BY <3>2, Zenon DEF ahead
  <2> HIDE DEF L, onward
  <2>3. ((Range(roots) \cup {t}) \ {t}) \cup Targets(Q, t) = Range(roots) \cup (L \cup ({onward} \ {0}))
    BY <1>3, <1>4
  <2>4. QED BY <1>4, <2>2, <2>3
<1>7. Frontier(Q, (M \cup {t}) \cup L, Range(roots) \cup ({onward} \ {0}))
  <2>1. L \subseteq Range(roots) \cup (L \cup ({onward} \ {0}))
    OBVIOUS
  <2>2. Frontier(Q, (M \cup {t}) \cup L, (Range(roots) \cup (L \cup ({onward} \ {0}))) \ L)
    BY <1>1, <1>4, <1>6, <2>1, FrontierLeaves
  <2>3. onward # 0 => onward \notin L
    BY <1>4
  <2> HIDE DEF L, onward, Q, M, t
  <2>4. (Range(roots) \cup (L \cup ({onward} \ {0}))) \ L = Range(roots) \cup ({onward} \ {0})
    BY <1>6, <2>3
  <2>5. QED BY <2>2, <2>4
<1> HIDE DEF L, onward, page, leaves, t, Q
<1>8. Cardinality((M \cup {t}) \cup L) = Cardinality(M) + 1 + Len(leaves)
  <2>1. IsFiniteSet(M) /\ Cardinality(M) \in Nat
    BY PagesFinite
  <2>2. IsFiniteSet(M \cup {t}) /\ Cardinality(M \cup {t}) = Cardinality(M) + 1
    BY <1>2, <2>1, FS_AddElement
  <2>3. L \subseteq 1 .. PageCount /\ IsFiniteSet(L)
    BY <1>4, PagesFinite
  <2>4. Cardinality(L) = Len(leaves)
    <3>1. leaves \in [1 .. Len(leaves) -> L]
      BY <1>4
    <3>2. \A q \in L : \E i \in 1 .. Len(leaves) : leaves[i] = q
      BY <1>4
    <3>3. ExistsBijection(1 .. Len(leaves), L)
      <4>1. leaves \in Bijection(1 .. Len(leaves), L)
        BY <1>4, <3>1, <3>2 DEF Bijection, Injection, Surjection, IsInjective
      <4>2. QED BY <4>1 DEF ExistsBijection
    <3>4. QED BY <1>4, <3>3, FS_CountingElements
  <2>5. Cardinality((M \cup {t}) \cup L) = Cardinality(M \cup {t}) + Cardinality(L)
    <3>1. (M \cup {t}) \cap L = {}
      BY <1>6
    <3>2. Cardinality((M \cup {t}) \cap L) = 0
      BY <3>1, FS_EmptySet
    <3>3. Cardinality((M \cup {t}) \cup L)
            = Cardinality(M \cup {t}) + Cardinality(L) - Cardinality((M \cup {t}) \cap L)
      BY <2>2, <2>3, FS_Union
    <3>4. Cardinality(L) \in Nat
      BY <1>4, <2>4
    <3>5. QED BY <2>1, <2>2, <3>2, <3>3, <3>4
  <2>6. QED BY <2>2, <2>4, <2>5
\* What becomes of the walk.
<1>9. r = [With(w, {t} \cup L) EXCEPT !.free = @ + 1 + Len(leaves), !.trunk = page.next]
  <2>1. Mark(w, t) = With(w, {t}) /\ With(w, {t}) \in WalkStates /\ ~With(w, {t}).error
        /\ With(w, {t}).marked = w.marked \cup {t}
    <3>1. {t} \in SUBSET Nat
      BY <1>2
    <3>2. QED BY <1>2, <3>1, Marking, Grows DEF Grown
  <2>2. r = [MarkAll(With(w, {t}), leaves) EXCEPT !.free = @ + 1 + Len(leaves), !.trunk = page.next]
    <3>1. /\ Leaves(t) = leaves /\ Len(leaves) <= TrunkSlots /\ FirstWord(t) = page.next
          /\ Len(leaves) \in Nat
      BY <1>1, <1>2, <1>4, <1>5, LeavesTyped DEF page
    <3>2. With(w, {t}).trunk = t
      BY <2>1 DEF WalkStates, With, t
    <3>3. ~(Len(leaves) > TrunkSlots)
      BY <3>1, FileAssumption
    <3>4. r = ReadTrunk(With(w, {t}))
      BY <2>1 DEF WalkTrunk, TakeTrunk, t
    <3> HIDE DEF r
    <3>5. QED BY <3>1, <3>2, <3>3, <3>4 DEF ReadTrunk
  <2>3. MarkAll(With(w, {t}), leaves) = With(With(w, {t}), L)
    <3>1. ASSUME NEW i \in 1 .. Len(leaves)
          PROVE  leaves[i] \in 1 .. PageCount /\ leaves[i] \notin w.marked \cup {t}
      <4>1. leaves[i] \in L
        BY <1>4
      <4>2. leaves[i] \in Ownable /\ leaves[i] \notin M \cup {t}
        BY <1>4, <1>6, <4>1
      <4>3. QED BY <4>2 DEF Ownable
    <3> HIDE DEF r, M
    <3>2. QED BY <1>4, <2>1, <3>1, MarkAllFresh DEF L
  <2>4. With(With(w, {t}), L) = With(w, {t} \cup L)
    <3>1. {t} \in SUBSET Nat /\ L \in SUBSET Nat
      BY <1>2, <1>4, PagesFinite
    <3>2. QED BY <3>1, WithTwice
  <2> HIDE DEF r
  <2>5. QED BY <2>2, <2>3, <2>4
<1>10. /\ r \in WalkStates /\ ~r.error /\ r.stage = "free" /\ r.pending = <<>> /\ r.roots = roots
       /\ r.free = w.free + 1 + Len(leaves) /\ r.trunk = page.next
       /\ r.marked = w.marked \cup ({t} \cup L)
  <2> DEFINE v == With(w, {t} \cup L)
             m == Len(leaves)
             u == page.next
  <2>1. {t} \cup L \in SUBSET Nat
    BY <1>2, <1>4, PagesFinite
  <2>2. /\ v \in WalkStates /\ ~v.error /\ v.stage = "free" /\ v.pending = <<>> /\ v.roots = roots
        /\ v.free = w.free /\ v.marked = w.marked \cup ({t} \cup L)
    BY <2>1, Grows DEF Grown, Alike
  <2>3. v.free + 1 + m \in Nat /\ u \in Nat
    BY <1>2, <1>4, <1>5, <2>2
  <2>4. r = [v EXCEPT !.free = v.free + 1 + m, !.trunk = u]
    BY <1>9
  <2> HIDE DEF v, m, u, r
  <2>5. /\ r \in WalkStates /\ r.error = v.error /\ r.stage = v.stage /\ r.pending = v.pending
        /\ r.roots = v.roots /\ r.free = v.free + 1 + m /\ r.trunk = u /\ r.marked = v.marked
    BY <2>2, <2>3, <2>4 DEF WalkStates
  <2>6. QED BY <2>2, <2>5 DEF m, u
<1> DEFINE N == r.marked \ {Reserved}
<1>11. /\ N = (M \cup {t}) \cup L /\ r.free = Cardinality(N)
       /\ r.marked \subseteq 1 .. PageCount
       /\ Reserved \in 1 .. PageCount => Reserved \in r.marked
       /\ \A p \in N : c[p].kind \in {"trunk", "blank"}
  <2>1. Reserved \notin L /\ L \subseteq 1 .. PageCount
    BY <1>4 DEF Ownable
  <2>2. N = (M \cup {t}) \cup L
    BY <1>2, <1>10, <2>1
  <2>3. r.free = Cardinality(N)
    <3>1. r.free = Cardinality(M) + 1 + Len(leaves)
      BY <1>10
    <3>2. QED BY <1>8, <2>2, <3>1
  <2>4. c[t].kind = "trunk"
    BY DEF t
  <2> HIDE DEF r
  <2>5. QED BY <1>2, <1>4, <1>10, <2>1, <2>2, <2>3, <2>4
<1> HIDE DEF r, N
<1>12. OnFreelist(c, roots, first, n, content, header, r, N)
  <2>1. CASE page = c[t]
    <3>1. page.next = onward
      BY <2>1 DEF onward
    <3>2. Same(c, first, content, header, N)
      <4>1. \A p \in L : content[p] = c[p]
        <5>1. \A p \in L : p \in 1 .. PageCount /\ c[p].kind = "blank"
          BY <1>4 DEF Ownable
        <5>2. \A p \in 1 .. PageCount : c[p].kind \in {"tree", "blank"} => content[p] = c[p]
          BY <1>1, NearBlanks
        <5>3. QED BY <5>1, <5>2
      <4>2. content[t] = c[t]
        BY <2>1 DEF page
      <4>3. QED BY <1>11, <4>1, <4>2 DEF Same
    <3>3. r.trunk # 0 => c[r.trunk].kind = "trunk"
      BY <1>4, <1>10, <3>1
    <3>4. Frontier(Q, N, Range(roots) \cup ({r.trunk} \ {0}))
      BY <1>7, <1>10, <1>11, <3>1
    <3>5. QED BY <1>10, <1>11, <3>2, <3>3, <3>4 DEF OnFreelist, Q
  <2>2. CASE page # c[t]
    <3>1. onward = 0 /\ page.next # 0
      BY <1>5, <2>2
    <3>2. Differs(c, first, n, content, header)
      BY <2>2 DEF Differs, page
    <3>3. N = FreePart(Q)
      <4>1. Range(roots) \cup ({onward} \ {0}) = Range(roots)
        BY <3>1
      <4>2. Frontier(Q, N, Range(roots))
        BY <1>7, <1>11, <4>1
      <4>3. QED BY <1>1, <1>3, <1>11, <4>2, FreelistDone DEF Q
    <3>4. QED BY <1>10, <1>11, <3>1, <3>2, <3>3 DEF OnFreelist, Q
  <2>3. QED BY <2>1, <2>2
<1>13. Trail(c, roots, first, n, level, content, header, r)
  BY <1>10, <1>11, <1>12, Follows DEF N
<1>14. QED BY <1>13 DEF r

\* The freelist is followed.
LEMMA TrunkKept ==
  ASSUME NEW c, NEW roots, NEW first, NEW n, NEW level, NEW w,
         Given(c, roots, first, n, level, content, header),
         Trail(c, roots, first, n, level, content, header, w), ~w.error, w.stage = "free"
  PROVE  \/ Trail(c, roots, first, n, level, content, header, WalkTrunk(w))
         \/ /\ Passed(w, WalkTrunk(w)) /\ InTrees(content, w.trunk)
            /\ w.pending = <<>> /\ w.roots = roots /\ Differs(c, first, n, content, header)
<1>1. /\ w \in WalkStates /\ w.marked \subseteq 1 .. PageCount
      /\ Reserved \in 1 .. PageCount => Reserved \in w.marked
      /\ OnFreelist(c, roots, first, n, content, header, w, w.marked \ {Reserved})
  BY DEF Trail
<1>2. CASE w.trunk = 0
  BY <1>2, TrunksEnd
<1>3. CASE w.trunk # 0
  <2>1. CASE /\ Same(c, first, content, header, w.marked \ {Reserved})
             /\ w.trunk # 0 => c[w.trunk].kind = "trunk"
             /\ Frontier(Pointers(c, roots, first), w.marked \ {Reserved},
                         Range(roots) \cup ({w.trunk} \ {0}))
    <3>1. {w.trunk} \ {0} = {w.trunk}
      BY <1>3
    <3>2. /\ w.pending = <<>> /\ w.roots = roots /\ w.free = Cardinality(w.marked \ {Reserved})
          /\ \A p \in w.marked \ {Reserved} : c[p].kind \in {"trunk", "blank"}
      BY <1>1 DEF OnFreelist
    <3>3. /\ c[w.trunk].kind = "trunk"
          /\ Frontier(Pointers(c, roots, first), w.marked \ {Reserved}, Range(roots) \cup {w.trunk})
      BY <1>3, <2>1, <3>1
    <3>4. QED BY <1>1, <1>3, <2>1, <3>2, <3>3, TrunkFollowed
  <2>2. CASE /\ Differs(c, first, n, content, header) /\ w.trunk # 0
             /\ w.marked \ {Reserved} = FreePart(Pointers(c, roots, first))
    BY <1>1, <2>2, TrunkAstray DEF OnFreelist, Passed, InTrees
  <2>3. QED BY <1>1, <2>1, <2>2, Zenon DEF OnFreelist
<1>4. QED BY <1>2, <1>3

\* The next tree is begun: the pages ahead are the same.
LEMMA RootMoves ==
  ASSUME NEW w \in WalkStates, w.pending = <<>>, w.roots # <<>>, NEW r,
         r.pending = <<<<Head(w.roots), 0>>>>, r.roots = Tail(w.roots)
  PROVE  /\ (Apart(w) => Apart(r)) /\ Ahead(r) = Ahead(w) /\ Len(r.pending) = 1
         /\ r.pending[1] = <<w.roots[1], 0>> /\ r.pending \in Seq(Nat \X Nat) /\ r.roots \in Seq(Nat)
         /\ 1 \in 1 .. Len(w.roots)
         /\ \A i \in 1 .. Len(r.roots) : i + 1 \in 1 .. Len(w.roots) /\ r.roots[i] = w.roots[i + 1]
<1> DEFINE s == w.roots
           q == r.roots
           n == Len(s)
<1>1. s \in Seq(Nat) /\ n \in Nat /\ s # <<>>
  BY DEF WalkStates
<1>2. n > 0 /\ Head(s) = s[1] /\ s[1] \in Nat /\ q = Tail(s)
  BY <1>1
<1>3. q \in Seq(Nat) /\ Len(q) = n - 1 /\ \A i \in 1 .. n - 1 : q[i] = s[i + 1]
  <2> HIDE DEF s, q
  <2>1. QED BY <1>1, <1>2 DEF n
<1>4. Len(r.pending) = 1 /\ r.pending[1] = <<s[1], 0>> /\ r.pending \in Seq(Nat \X Nat)
  BY <1>2
<1>6. Ahead(w) = {s[i] : i \in 1 .. n}
  <2>1. Len(w.pending) = 0 /\ Range(s) = {s[i] : i \in 1 .. n}
    BY <1>1 DEF Range
  <2>2. \A i : i \notin 1 .. Len(w.pending)
    BY <2>1
  <2> HIDE DEF s, n
  <2>3. QED BY <2>1, <2>2 DEF Ahead, s
<1>7. Ahead(r) = {s[1]} \cup {q[i] : i \in 1 .. n - 1}
  <2>1. Range(q) = {q[i] : i \in 1 .. n - 1}
    <3> HIDE DEF q, s, n
    <3>1. DOMAIN q = 1 .. n - 1
      BY <1>1, <1>3
    <3>2. QED BY <3>1 DEF Range
  <2>2. {r.pending[i][1] : i \in 1 .. Len(r.pending)} = {s[1]}
    BY <1>4
  <2> HIDE DEF q, s, n
  <2>3. QED BY <2>1, <2>2 DEF Ahead, q
<1> HIDE DEF s, q, n
<1>8. {s[i] : i \in 1 .. n} = {s[1]} \cup {q[i] : i \in 1 .. n - 1}
  <2>1. ASSUME NEW i \in 1 .. n
        PROVE  s[i] \in {s[1]} \cup {q[j] : j \in 1 .. n - 1}
    <3>1. CASE i = 1
      BY <3>1
    <3>2. CASE i # 1
      <4>1. i - 1 \in 1 .. n - 1 /\ (i - 1) + 1 = i
        BY <1>1, <3>2
      <4>2. q[i - 1] = s[i]
        BY <1>3, <4>1
      <4>3. QED BY <4>1, <4>2
    <3>3. QED BY <3>1, <3>2
  <2>2. \A i \in 1 .. n - 1 : q[i] = s[i + 1] /\ i + 1 \in 1 .. n
    BY <1>1, <1>3
  <2>3. 1 \in 1 .. n
    BY <1>1, <1>2
  <2>4. QED BY <2>1, <2>2, <2>3
<1>9. ASSUME Apart(w)
      PROVE  Apart(r)
  <2>5. \A i, j \in 1 .. n : s[i] = s[j] => i = j
    BY <1>9 DEF Apart, s, n
  <2>1. \A i, j \in 1 .. n - 1 : q[i] = q[j] => i = j
    <3>1. \A i \in 1 .. n - 1 : q[i] = s[i + 1] /\ i + 1 \in 1 .. n
      BY <1>1, <1>3
    <3>2. \A i, j \in 1 .. n - 1 : i + 1 = j + 1 => i = j
      OBVIOUS
    <3>3. QED BY <2>5, <3>1, <3>2
  <2>2. \A j \in 1 .. n - 1 : q[j] # s[1]
    <3>1. \A i \in 1 .. n - 1 : q[i] = s[i + 1] /\ i + 1 \in 1 .. n /\ i + 1 # 1
      BY <1>1, <1>3
    <3>2. 1 \in 1 .. n
      BY <1>1, <1>2
    <3>3. QED BY <2>5, <3>1, <3>2
  <2>3. \A i \in 1 .. Len(r.pending) : i = 1 /\ r.pending[i][1] = s[1]
    BY <1>4
  <2>4. QED BY <1>3, <2>1, <2>2, <2>3 DEF Apart, q
<1>10. 1 \in 1 .. n /\ \A i \in 1 .. n - 1 : i + 1 \in 1 .. n /\ q[i] = s[i + 1]
  BY <1>1, <1>2, <1>3
<1>11. Ahead(r) = Ahead(w)
  BY <1>6, <1>7, <1>8
<1>12. QED BY <1>3, <1>4, <1>9, <1>10, <1>11 DEF q, s, n

\* One sequence and then another.
LEMMA Joined ==
  ASSUME NEW S, NEW a \in Seq(S), NEW b \in Seq(S)
  PROVE  /\ a \o b \in Seq(S) /\ Len(a \o b) = Len(a) + Len(b)
         /\ \A i \in 1 .. Len(a) + Len(b) :
              (a \o b)[i] = IF i <= Len(a) THEN a[i] ELSE b[i - Len(a)]
OBVIOUS

\* The children of a page come before the pages that were pending.
Fresh(w, children) ==
  /\ \A i, j \in 1 .. Len(children) : children[i] = children[j] => i = j
  /\ \A i \in 1 .. Len(children) : children[i] \notin Ahead(w)
Pushed(w, children, d) == [i \in DOMAIN children |-> <<children[i], d>>] \o Tail(w.pending)
Moved(r, w, children, d) ==
  /\ Apart(r) /\ Ahead(r) = (Ahead(w) \ {Head(w.pending)[1]}) \cup Range(children)
  /\ r.pending \in Seq(Nat \X Nat)
  /\ \A i \in 1 .. Len(r.pending) :
       \/ \E j \in 1 .. Len(children) : r.pending[i] = <<children[j], d>>
       \/ \E j \in 1 .. Len(w.pending) : r.pending[i] = w.pending[j]

LEMMA PushedOrder ==
  ASSUME NEW w \in WalkStates, w.pending # <<>>, NEW children \in Seq(Nat), NEW d \in Nat
  PROVE  /\ Pushed(w, children, d) \in Seq(Nat \X Nat)
         /\ Len(Pushed(w, children, d)) = Len(children) + (Len(w.pending) - 1)
         /\ \A i \in 1 .. Len(children) : Pushed(w, children, d)[i] = <<children[i], d>>
         /\ \A i \in 1 .. Len(w.pending) - 1 :
              Pushed(w, children, d)[Len(children) + i] = w.pending[i + 1]
<1> DEFINE s == w.pending
           t == Tail(s)
           k == Len(children)
           n == Len(s)
           kids == [i \in DOMAIN children |-> <<children[i], d>>]
           pending == Pushed(w, children, d)
<1>1. s \in Seq(Nat \X Nat) /\ n \in Nat /\ n > 0 /\ k \in Nat /\ DOMAIN children = 1 .. k
      /\ Head(s) = s[1] /\ w.roots \in Seq(Nat)
  BY DEF WalkStates
<1>2. t \in Seq(Nat \X Nat) /\ Len(t) = n - 1 /\ \A i \in 1 .. n - 1 : t[i] = s[i + 1]
  <2> HIDE DEF s
  <2>1. QED BY <1>1 DEF n
<1>3. kids \in Seq(Nat \X Nat) /\ Len(kids) = k /\ \A i \in 1 .. k : kids[i] = <<children[i], d>>
  <2>1. \A i \in 1 .. k : children[i] \in Nat
    BY <1>1
  <2> HIDE DEF k
  <2>2. kids = [i \in 1 .. k |-> <<children[i], d>>]
    BY <1>1
  <2>3. \A i \in 1 .. k : <<children[i], d>> \in Nat \X Nat
    BY <2>1
  <2> HIDE DEF kids
  <2>4. QED BY <1>1, <2>2, <2>3
<1>4. pending = kids \o t
  BY DEF Pushed
<1> HIDE DEF kids, t, s, k, n, pending
<1>5. /\ pending \in Seq(Nat \X Nat) /\ Len(pending) = k + (n - 1)
      /\ \A i \in 1 .. k : pending[i] = <<children[i], d>>
      /\ \A i \in 1 .. n - 1 : pending[k + i] = s[i + 1]
  <2>1. /\ pending \in Seq(Nat \X Nat) /\ Len(pending) = k + (n - 1)
        /\ \A i \in 1 .. k + (n - 1) : pending[i] = IF i <= k THEN kids[i] ELSE t[i - k]
    <3>1. PICK a \in Seq(Nat \X Nat), b \in Seq(Nat \X Nat) : a = kids /\ b = t
      BY <1>2, <1>3
    <3>2. /\ a \o b \in Seq(Nat \X Nat) /\ Len(a \o b) = Len(a) + Len(b)
          /\ \A i \in 1 .. Len(a) + Len(b) :
               (a \o b)[i] = IF i <= Len(a) THEN a[i] ELSE b[i - Len(a)]
      BY Joined
    <3>3. pending = a \o b
      BY <1>4, <3>1
    <3>4. Len(a) = k /\ Len(b) = n - 1
      BY <1>2, <1>3, <3>1
    <3>5. /\ pending \in Seq(Nat \X Nat) /\ Len(pending) = k + (n - 1)
          /\ \A i \in 1 .. k + (n - 1) : pending[i] = IF i <= k THEN a[i] ELSE b[i - k]
      BY <3>2, <3>3, <3>4
    <3>6. QED BY <3>1, <3>5
  <2>2. ASSUME NEW i \in 1 .. k
        PROVE  pending[i] = <<children[i], d>>
    <3>1. i \in 1 .. k + (n - 1) /\ i <= k
      BY <1>1
    <3>2. QED BY <1>3, <2>1, <3>1
  <2>3. ASSUME NEW i \in 1 .. n - 1
        PROVE  pending[k + i] = s[i + 1]
    <3>1. k + i \in 1 .. k + (n - 1) /\ ~(k + i <= k) /\ (k + i) - k = i
      BY <1>1
    <3>2. QED BY <1>2, <2>1, <3>1
  <2>4. QED BY <2>1, <2>2, <2>3
<1>6. QED BY <1>5 DEF s, k, n, pending

LEMMA PendingMoves ==
  ASSUME NEW w \in WalkStates, w.pending # <<>>, Apart(w), NEW children \in Seq(Nat), NEW d \in Nat,
         Fresh(w, children), NEW r, r.pending = Pushed(w, children, d), r.roots = w.roots
  PROVE  Moved(r, w, children, d)
<1> DEFINE s == w.pending
           k == Len(children)
           n == Len(s)
           pending == r.pending
           at(i) == pending[i][1]
<1>1. /\ s \in Seq(Nat \X Nat) /\ n \in Nat /\ n > 0 /\ k \in Nat /\ DOMAIN children = 1 .. k
      /\ Head(s) = s[1] /\ w.roots \in Seq(Nat)
  BY DEF WalkStates
<1>0. /\ \A i, j \in 1 .. k : children[i] = children[j] => i = j
      /\ \A i \in 1 .. k : children[i] \notin Ahead(w)
  BY DEF Fresh
<1>5. /\ pending \in Seq(Nat \X Nat) /\ Len(pending) = k + (n - 1)
      /\ \A i \in 1 .. k : pending[i] = <<children[i], d>>
      /\ \A i \in 1 .. n - 1 : pending[k + i] = s[i + 1]
  BY PushedOrder
<1> HIDE DEF s, k, n, pending
\* An element is a child or was pending before, after the first.
<1>6. ASSUME NEW i \in 1 .. Len(pending)
      PROVE  \/ i \in 1 .. k /\ pending[i] = <<children[i], d>> /\ at(i) = children[i]
             \/ /\ i - k \in 1 .. n - 1 /\ (i - k) + 1 \in 1 .. n /\ (i - k) + 1 # 1
                /\ pending[i] = s[(i - k) + 1]
  <2>1. CASE i <= k
    <3>1. i \in 1 .. k
      BY <1>1, <1>5, <2>1
    <3>2. pending[i] = <<children[i], d>>
      BY <1>5, <3>1
    <3>3. at(i) = children[i]
      <4>1. <<children[i], d>>[1] = children[i]
        OBVIOUS
      <4>2. QED BY <3>2, <4>1, Zenon
    <3> HIDE DEF at
    <3>4. QED BY <3>1, <3>2, <3>3, Zenon
  <2>2. CASE ~(i <= k)
    <3>1. i - k \in 1 .. n - 1 /\ k + (i - k) = i /\ (i - k) + 1 \in 1 .. n /\ (i - k) + 1 # 1
      <4>1. k \in Nat /\ n \in Nat /\ n > 0 /\ i \in 1 .. (k + n - 1) /\ ~(i <= k)
        BY <1>1, <1>5, <2>2
      <4> HIDE DEF k, n
      <4>2. i - k \in 1 .. n - 1 /\ k + (i - k) = i
        BY <4>1
      <4>3. (i - k) + 1 \in 1 .. n /\ (i - k) + 1 # 1
        BY <4>1, <4>2
      <4>4. QED BY <4>2, <4>3
    <3>2. QED BY <1>5, <3>1
  <2>3. QED BY <2>1, <2>2
<1>7. /\ \A i, j \in 1 .. n : s[i][1] = s[j][1] => i = j
      /\ \A i, j \in 1 .. Len(w.roots) : w.roots[i] = w.roots[j] => i = j
      /\ \A i \in 1 .. n : \A j \in 1 .. Len(w.roots) : s[i][1] # w.roots[j]
  BY DEF Apart, s, n
<1>8. /\ \A i \in 1 .. n : s[i][1] \in Ahead(w)
      /\ \A i \in 1 .. Len(w.roots) : w.roots[i] \in Ahead(w)
      /\ Ahead(w) = {s[i][1] : i \in 1 .. n} \cup Range(w.roots)
  <2>1. Ahead(w) = {s[i][1] : i \in 1 .. n} \cup Range(w.roots)
    BY DEF Ahead, s, n
  <2>2. \A i \in 1 .. Len(w.roots) : w.roots[i] \in Range(w.roots)
    BY <1>1 DEF Range
  <2>3. QED BY <2>1, <2>2
<1>9. \A i \in 1 .. k : \A j \in 1 .. n : children[i] # s[j][1]
  BY <1>0, <1>8
<1>10. ASSUME NEW i \in 1 .. Len(pending), NEW j \in 1 .. Len(pending), at(i) = at(j)
       PROVE  i = j
  <2>1. CASE i \in 1 .. k /\ at(i) = children[i]
    <3>1. CASE j \in 1 .. k /\ at(j) = children[j]
      BY <1>0, <1>10, <2>1, <3>1
    <3>2. CASE (j - k) + 1 \in 1 .. n /\ pending[j] = s[(j - k) + 1]
      BY <1>9, <1>10, <2>1, <3>2
    <3>3. QED BY <1>6, <3>1, <3>2
  <2>2. CASE (i - k) + 1 \in 1 .. n /\ pending[i] = s[(i - k) + 1]
    <3>1. CASE j \in 1 .. k /\ at(j) = children[j]
      BY <1>9, <1>10, <2>2, <3>1
    <3>2. CASE (j - k) + 1 \in 1 .. n /\ pending[j] = s[(j - k) + 1]
      <4>1. (i - k) + 1 = (j - k) + 1
        BY <1>7, <1>10, <2>2, <3>2
      <4>2. QED BY <1>1, <1>5, <4>1
    <3>3. QED BY <1>6, <3>1, <3>2
  <2>3. QED BY <1>6, <2>1, <2>2
<1>11. ASSUME NEW i \in 1 .. Len(pending), NEW j \in 1 .. Len(w.roots)
       PROVE  at(i) # w.roots[j]
  <2>1. CASE i \in 1 .. k /\ at(i) = children[i]
    BY <1>0, <1>8, <2>1
  <2>2. CASE (i - k) + 1 \in 1 .. n /\ pending[i] = s[(i - k) + 1]
    BY <1>7, <2>2
  <2>3. QED BY <1>6, <2>1, <2>2
<1>12. Apart(r)
  BY <1>7, <1>10, <1>11 DEF Apart, pending
\* The pages ahead.
<1>13. Range(children) = {children[i] : i \in 1 .. k}
  BY <1>1 DEF Range
<1>14. ASSUME NEW q
       PROVE  q \in Ahead(r) <=> q \in (Ahead(w) \ {s[1][1]}) \cup Range(children)
  <2>0. q \in Ahead(r) <=> (\E i \in 1 .. Len(pending) : q = at(i)) \/ q \in Range(w.roots)
    BY DEF Ahead, pending
  <2>1. ASSUME NEW i \in 1 .. Len(pending), q = at(i)
        PROVE  q \in (Ahead(w) \ {s[1][1]}) \cup Range(children)
    <3>1. CASE i \in 1 .. k /\ at(i) = children[i]
      BY <1>13, <2>1, <3>1
    <3>2. CASE (i - k) + 1 \in 1 .. n /\ (i - k) + 1 # 1 /\ pending[i] = s[(i - k) + 1]
      <4>1. 1 \in 1 .. n
        BY <1>1
      <4>2. QED BY <1>7, <1>8, <2>1, <3>2, <4>1
    <3>3. QED BY <1>6, <3>1, <3>2
  <2>2. ASSUME q \in Range(w.roots)
        PROVE  q \in (Ahead(w) \ {s[1][1]}) \cup Range(children)
    <3>1. PICK j \in 1 .. Len(w.roots) : q = w.roots[j]
      BY <1>1, <2>2 DEF Range
    <3>2. 1 \in 1 .. n
      BY <1>1
    <3>3. QED BY <1>7, <1>8, <3>1, <3>2
  <2>3. ASSUME q \in Range(children)
        PROVE  \E i \in 1 .. Len(pending) : q = at(i)
    <3>1. PICK i \in 1 .. k : q = children[i]
      BY <1>13, <2>3
    <3>2. Len(pending) = k + n - 1 /\ k \in Nat /\ n \in Nat /\ n > 0
      BY <1>1, <1>5
    <3>3. i \in 1 .. Len(pending)
      BY <3>2
    <3>4. pending[i] = <<children[i], d>>
      BY <1>5
    <3>5. QED BY <3>1, <3>3, <3>4
  <2>4. ASSUME q \in Ahead(w), q # s[1][1], q \notin Range(w.roots)
        PROVE  \E i \in 1 .. Len(pending) : q = at(i)
    <3>1. PICK j \in 1 .. n : q = s[j][1]
      BY <1>8, <2>4
    <3>0. j # 1
      BY <2>4, <3>1
    <3>2. j - 1 \in 1 .. n - 1 /\ (j - 1) + 1 = j /\ k + (j - 1) \in 1 .. Len(pending)
      <4>1. Len(pending) = k + (n - 1) /\ j \in Nat /\ 1 <= j /\ j <= n /\ n \in Nat /\ k \in Nat
        BY <1>1, <1>5
      <4> HIDE DEF at
      <4>2. QED BY <3>0, <4>1
    <3>3. pending[k + (j - 1)] = s[j]
      BY <1>5, <3>2
    <3>4. at(k + (j - 1)) = q
      BY <3>1, <3>3
    <3> HIDE DEF at
    <3>5. QED BY <3>2, <3>4
  <2>5. QED BY <2>0, <2>1, <2>2, <2>3, <2>4
<1>15. Ahead(r) = (Ahead(w) \ {s[1][1]}) \cup Range(children)
  BY <1>14
<1>16. ASSUME NEW i \in 1 .. Len(pending)
       PROVE  \/ \E j \in 1 .. k : pending[i] = <<children[j], d>>
              \/ \E j \in 1 .. n : pending[i] = s[j]
  BY <1>6
<1>17. Head(w.pending)[1] = s[1][1]
  BY <1>1 DEF s
<1>18. QED BY <1>5, <1>12, <1>15, <1>16, <1>17 DEF s, n, k, pending, Moved

\* Files with the same pages are the same.
LEMMA SamePages ==
  ASSUME NEW f \in [1 .. PageCount -> Pages], NEW g \in [1 .. PageCount -> Pages],
         \A p \in 1 .. PageCount : f[p] = g[p]
  PROVE  f = g
<1> DEFINE S == 1 .. PageCount
<1>1. f \in [S -> Pages] /\ g \in [S -> Pages] /\ \A x \in S : f[x] = g[x]
  OBVIOUS
<1> HIDE DEF S
<1>2. f = [x \in S |-> f[x]]
  BY <1>1
<1>3. g = [x \in S |-> g[x]]
  BY <1>1
<1>4. [x \in S |-> f[x]] = [x \in S |-> g[x]]
  BY <1>1, Zenon
<1>5. QED BY <1>2, <1>3, <1>4, Zenon

\* The end of the walk: every page was marked, and the file is the one that was written.
LEMMA PagesEnd ==
  ASSUME NEW c, NEW roots, NEW first, NEW n, NEW level, NEW w,
         Given(c, roots, first, n, level, content, header),
         Trail(c, roots, first, n, level, content, header, w), ~w.error, w.stage = "trees",
         w.pending = <<>>, w.roots = <<>>
  PROVE  Trail(c, roots, first, n, level, content, header, WalkPage(w))
<1> DEFINE Q == Pointers(c, roots, first)
           M == w.marked \ {Reserved}
           r == WalkPage(w)
           bad == w.marked # 1 .. PageCount
<1>1. /\ Intact(c, roots, first) /\ NearBy(c, content) /\ content \in [1 .. PageCount -> Pages]
      /\ c \in [1 .. PageCount -> Pages]
  BY DEF Given, Intact
<1>2. /\ w \in WalkStates /\ w.marked \subseteq 1 .. PageCount
      /\ Reserved \in 1 .. PageCount => Reserved \in w.marked
      /\ OnTrees(c, roots, first, n, level, content, header, w, M)
  BY DEF Trail
<1>3. /\ Same(c, first, content, header, M) /\ header.free = n /\ Frontier(Q, M, Ahead(w))
  BY <1>2 DEF OnTrees
<1>4. Ahead(w) = {}
  <2>1. Range(w.roots) = {}
    <3>1. DOMAIN w.roots = {}
      OBVIOUS
    <3>2. QED BY <3>1 DEF Range
  <2>2. \A i : i \notin 1 .. Len(w.pending)
    OBVIOUS
  <2>3. QED BY <2>1, <2>2 DEF Ahead
<1>5. M = Ownable
  <2>1. Reached(Q)
    BY <1>1 DEF Intact
  <2>2. \A x \in Q : x[1] \in Ownable \cup {0}
    BY <1>1, NamedPages
  <2>3. Frontier(Q, M, {})
    BY <1>3, <1>4
  <2> HIDE DEF Q, M
  <2>4. QED BY <2>1, <2>2, <2>3, FrontierEnds
<1>6. w.marked = 1 .. PageCount
  BY <1>2, <1>5 DEF Ownable
<1>7. r = [w EXCEPT !.stage = "end", !.error = bad]
  BY DEF WalkPage
<1>8. r \in WalkStates /\ ~r.error /\ r.stage = "end" /\ r.marked = w.marked
  <2>1. bad = FALSE
    BY <1>6
  <2> HIDE DEF r, bad
  <2>2. QED BY <1>2, <1>7, <2>1 DEF WalkStates
<1>9. ~Differs(c, first, n, content, header)
  <2>1. \A p \in 1 .. PageCount : c[p].kind \in {"tree", "blank"} => content[p] = c[p]
    BY <1>1, NearBlanks
  <2>2. ASSUME NEW p \in 1 .. PageCount
        PROVE  content[p] = c[p]
    <3>1. CASE p \in Ownable
      BY <1>3, <1>5, <3>1 DEF Same
    <3>2. CASE p = Reserved
      <4>1. c[p] = Blank
        BY <1>1, <3>2 DEF Intact
      <4>2. c[p].kind = "blank"
        BY <4>1 DEF Blank
      <4>3. QED BY <2>1, <4>2
    <3>3. QED BY <3>1, <3>2 DEF Ownable
  <2>3. content = c
    <3>1. PICK e \in [1 .. PageCount -> Pages] : e = content
      BY <1>1
    <3>2. \A p \in 1 .. PageCount : e[p] = c[p]
      BY <2>2, <3>1
    <3>3. e = c
      <4>1. c \in [1 .. PageCount -> Pages]
        BY <1>1
      <4>2. QED BY <3>2, <4>1, SamePages, Zenon
    <3>4. QED BY <3>1, <3>3
  <2>4. QED BY <1>3, <2>3 DEF Differs, Same
<1> HIDE DEF r
<1>10. Trail(c, roots, first, n, level, content, header, r)
  BY <1>2, <1>8, <1>9, Follows
<1>11. QED BY <1>10 DEF r

\* The next tree is begun.
LEMMA RootFollowed ==
  ASSUME NEW c, NEW roots, NEW first, NEW n, NEW level, NEW w,
         Given(c, roots, first, n, level, content, header),
         Trail(c, roots, first, n, level, content, header, w), ~w.error, w.stage = "trees",
         w.pending = <<>>, w.roots # <<>>
  PROVE  Trail(c, roots, first, n, level, content, header, WalkPage(w))
<1> DEFINE M == w.marked \ {Reserved}
           r == WalkPage(w)
           begun == <<<<Head(w.roots), 0>>>>
           rest == Tail(w.roots)
<1>1. /\ w \in WalkStates /\ w.marked \subseteq 1 .. PageCount
      /\ Reserved \in 1 .. PageCount => Reserved \in w.marked
      /\ OnTrees(c, roots, first, n, level, content, header, w, M)
  BY DEF Trail
<1>2. /\ Same(c, first, content, header, M) /\ header.free = n /\ Apart(w)
      /\ Frontier(Pointers(c, roots, first), M, Ahead(w))
      /\ \A i \in 1 .. Len(w.roots) : c[w.roots[i]].kind = "tree" /\ level[w.roots[i]] = 0
  BY <1>1 DEF OnTrees
<1>3. begun \in Seq(Nat \X Nat) /\ rest \in Seq(Nat)
  <2>1. w.roots \in Seq(Nat)
    BY <1>1 DEF WalkStates
  <2>2. Head(w.roots) \in Nat
    BY <2>1
  <2>3. QED BY <2>1, <2>2
<1>4. r = [w EXCEPT !.pending = begun, !.roots = rest]
  BY DEF WalkPage
<1> HIDE DEF begun, rest, r
<1>5. /\ r \in WalkStates /\ r.error = w.error /\ r.stage = w.stage /\ r.marked = w.marked
      /\ r.pending = begun /\ r.roots = rest
  BY <1>1, <1>3, <1>4 DEF WalkStates
<1>6. /\ Apart(r) /\ Ahead(r) = Ahead(w) /\ Len(r.pending) = 1
      /\ r.pending[1] = <<w.roots[1], 0>> /\ 1 \in 1 .. Len(w.roots)
      /\ \A i \in 1 .. Len(r.roots) : i + 1 \in 1 .. Len(w.roots) /\ r.roots[i] = w.roots[i + 1]
  BY <1>1, <1>2, <1>5, RootMoves DEF begun, rest
<1>7. OnTrees(c, roots, first, n, level, content, header, r, M)
  <2>1. \A i \in 1 .. Len(r.roots) : c[r.roots[i]].kind = "tree" /\ level[r.roots[i]] = 0
    BY <1>2, <1>6
  <2>2. \A i \in 1 .. Len(r.pending) : /\ c[r.pending[i][1]].kind = "tree"
                                       /\ level[r.pending[i][1]] = r.pending[i][2]
    <3>1. \A i \in 1 .. Len(r.pending) : i = 1
      BY <1>6
    <3>2. r.pending[1][1] = w.roots[1] /\ r.pending[1][2] = 0
      BY <1>6
    <3>3. c[w.roots[1]].kind = "tree" /\ level[w.roots[1]] = 0
      BY <1>2, <1>6
    <3>4. QED BY <3>1, <3>2, <3>3
  <2>3. Frontier(Pointers(c, roots, first), M, Ahead(r))
    BY <1>2, <1>6
  <2> HIDE DEF M
  <2>4. QED BY <1>2, <1>6, <2>1, <2>2, <2>3 DEF OnTrees
<1>8. Trail(c, roots, first, n, level, content, header, r)
  BY <1>1, <1>5, <1>7, Follows
<1>9. QED BY <1>8 DEF r

\* One page of a tree, with the overflow chains of its records.
LEMMA PageFollowed ==
  ASSUME NEW c, NEW roots, NEW first, NEW n, NEW level, NEW w,
         Given(c, roots, first, n, level, content, header),
         Trail(c, roots, first, n, level, content, header, w), ~w.error, w.stage = "trees",
         w.pending # <<>>
  PROVE  Trail(c, roots, first, n, level, content, header, WalkPage(w))
<1> DEFINE Q == Pointers(c, roots, first)
           M == w.marked \ {Reserved}
           r == WalkPage(w)
           page == Head(w.pending)[1]
           depth == Head(w.pending)[2]
           children == c[page].children
           overflows == c[page].overflows
           v == With(w, {page})
           chained == WalkChains(v, overflows)
           pending == [i \in DOMAIN children |-> <<children[i], depth + 1>>] \o Tail(w.pending)
           heads == {overflows[i][1] : i \in 1 .. Len(overflows)}
           away == Ahead(w) \ {page}
           A == away \cup Targets(Q, page)
<1>1. /\ Intact(c, roots, first) /\ NearBy(c, content) /\ content \in [1 .. PageCount -> Pages]
      /\ c \in [1 .. PageCount -> Pages] /\ level \in [1 .. PageCount -> 0 .. MaxDepth - 1]
      /\ \A p \in 1 .. PageCount : c[p].kind = "tree" =>
           \A i \in 1 .. Len(c[p].children) : level[c[p].children[i]] = level[p] + 1
  BY DEF Given, Intact
<1>2. /\ w \in WalkStates /\ w.marked \subseteq 1 .. PageCount
      /\ Reserved \in 1 .. PageCount => Reserved \in w.marked
      /\ OnTrees(c, roots, first, n, level, content, header, w, M)
  BY DEF Trail
<1>3. /\ Same(c, first, content, header, M) /\ header.free = n /\ Apart(w)
      /\ Frontier(Q, M, Ahead(w))
      /\ \A i \in 1 .. Len(w.pending) : /\ c[w.pending[i][1]].kind = "tree"
                                        /\ level[w.pending[i][1]] = w.pending[i][2]
      /\ \A i \in 1 .. Len(w.roots) : c[w.roots[i]].kind = "tree" /\ level[w.roots[i]] = 0
  BY <1>2 DEF OnTrees
<1>4. /\ w.pending \in Seq(Nat \X Nat) /\ 1 \in 1 .. Len(w.pending) /\ Head(w.pending) = w.pending[1]
      /\ page \in Nat /\ depth \in Nat
  <2>1. w.pending \in Seq(Nat \X Nat)
    BY <1>2 DEF WalkStates
  <2>2. Head(w.pending) = w.pending[1] /\ Head(w.pending) \in Nat \X Nat /\ 1 \in 1 .. Len(w.pending)
    BY <2>1
  <2>3. QED BY <2>1, <2>2
<1>5. /\ page \in Ahead(w) /\ c[page].kind = "tree" /\ level[page] = depth
      /\ page \in Ownable /\ page \in 1 .. PageCount /\ page # Reserved
      /\ page \notin M /\ page \notin w.marked
  <2>1. c[page].kind = "tree" /\ level[page] = depth
    BY <1>3, <1>4
  <2>2. page \in Ahead(w)
    BY <1>4 DEF Ahead
  <2>3. page \in Ownable /\ page \notin M
    BY <1>3, <2>2 DEF Frontier
  <2>4. QED BY <2>1, <2>2, <2>3 DEF Ownable
<1> HIDE DEF page, depth
<1>6. depth < MaxDepth
  <2>1. level[page] \in 0 .. MaxDepth - 1 /\ MaxDepth \in Nat
    <3>1. MaxDepth \in Nat
      BY ValidationAssumption, Zenon
    <3>2. QED BY <1>1, <1>5, <3>1
  <2>2. QED BY <1>4, <1>5, <2>1
<1>7. content[page] = c[page]
  <2>1. \A p \in 1 .. PageCount : c[p].kind \in {"tree", "blank"} => content[p] = c[p]
    BY <1>1, NearBlanks
  <2>2. QED BY <1>5, <2>1
<1>8. children \in Seq(Nat) /\ overflows \in Seq(Nat \X Nat)
  <2>1. c[page] \in Pages
    BY <1>1, <1>5
  <2>2. QED BY <1>5, <2>1, PageKinds
<1>9. /\ Mark(w, page) = v /\ v \in WalkStates /\ ~v.error /\ v.marked = w.marked \cup {page}
      /\ v.stage = "trees" /\ v.pending = w.pending /\ v.roots = w.roots
  <2>1. {page} \in SUBSET Nat
    BY <1>4
  <2>2. Mark(w, page) = v
    BY <1>2, <1>4, <1>5, Marking
  <2>3. Grown(v, w, {page}) /\ v.marked = w.marked \cup {page} /\ v.error = w.error
    BY <1>2, <2>1, Grows
  <2>4. QED BY <2>2, <2>3 DEF Grown, Alike
<1>10. r = [chained EXCEPT !.pending = [i \in DOMAIN children |-> <<children[i], depth + 1>>] \o Tail(@)]
  <2>1. ~(depth >= MaxDepth)
    <3>1. MaxDepth \in Nat
      BY ValidationAssumption, Zenon
    <3>2. QED BY <1>4, <1>6, <3>1
  <2>2. ~(depth >= MaxDepth \/ Mark(w, page).error \/ content[page].kind # "tree")
    BY <1>5, <1>7, <1>9, <2>1
  <2>3. r = [WalkChains(Mark(w, page), content[page].overflows) EXCEPT
               !.pending = [i \in DOMAIN content[page].children |-> <<content[page].children[i], depth + 1>>]
                             \o Tail(@)]
    BY <2>2, Zenon DEF WalkPage, page, depth
  <2> HIDE DEF r, v
  <2>4. QED BY <1>7, <1>9, <2>3
<1> HIDE DEF v
<1>11. chained \in WalkStates /\ chained.pending = w.pending /\ chained.roots = w.roots /\ chained.stage = "trees"
  <2>1. PICK x \in WalkStates, o \in Seq(Nat \X Nat) : x = v /\ o = overflows
    BY <1>8, <1>9
  <2>2. Grown(WalkChains(x, o), x, {o[i][1] : i \in 1 .. Len(o)} \cup Onward)
    BY <1>1, WalkChainsGrows
  <2>3. chained \in WalkStates /\ Alike(chained, v)
    BY <2>1, <2>2 DEF Grown
  <2>4. QED BY <1>9, <2>3 DEF Alike
\* The pages walked and ahead.
<1>12. /\ Targets(Q, page) = Range(children) \cup heads
       /\ \A i \in 1 .. Len(children) : children[i] \in Ownable /\ c[children[i]].kind = "tree"
       /\ \A i \in 1 .. Len(overflows) : overflows[i][1] \in Ownable /\ c[overflows[i][1]].kind = "chain"
       /\ \A i, j \in 1 .. Len(children) : children[i] = children[j] => i = j
       /\ \A i, j \in 1 .. Len(overflows) : overflows[i][1] = overflows[j][1] => i = j
  <2>1. PICK p \in 1 .. PageCount : p = page /\ c[p].kind = "tree"
    BY <1>5
  <2>2. Intact(c, roots, first)
    BY <1>1
  <2>3. /\ Targets(Q, p) = Range(c[p].children) \cup {c[p].overflows[i][1] : i \in 1 .. Len(c[p].overflows)}
        /\ \A i \in 1 .. Len(c[p].children) :
             c[p].children[i] \in Ownable /\ c[c[p].children[i]].kind = "tree"
        /\ \A i \in 1 .. Len(c[p].overflows) :
             c[p].overflows[i][1] \in Ownable /\ c[c[p].overflows[i][1]].kind = "chain"
        /\ \A i, j \in 1 .. Len(c[p].children) : c[p].children[i] = c[p].children[j] => i = j
        /\ \A i, j \in 1 .. Len(c[p].overflows) :
             c[p].overflows[i][1] = c[p].overflows[j][1] => i = j
    BY <2>1, <2>2, TreeTargets
  <2>4. QED BY <2>1, <2>3
<1>13. \A i \in 1 .. Len(overflows) : ChainFits(c, overflows[i][1], overflows[i][2])
  <2>1. DOMAIN overflows = 1 .. Len(overflows)
    <3> HIDE DEF overflows
    <3>1. QED BY <1>8
  <2>2. QED BY <1>1, <1>5, <2>1 DEF Intact
<1>14. Frontier(Q, M \cup {page}, A) /\ Targets(Q, page) \cap (M \cup Ahead(w)) = {}
  <2>1. NamesOnce(Q)
    BY <1>1 DEF Intact
  <2> HIDE DEF Q, M
  <2>2. QED BY <1>3, <1>5, <2>1, FrontierMoves
<1> HIDE DEF children, overflows, Q
<1>15. v.marked \ {Reserved} = M \cup {page}
  BY <1>5, <1>9
<1>16. heads \cap Range(children) = {} /\ Range(children) = {children[i] : i \in 1 .. Len(children)}
  <2>1. Range(children) = {children[i] : i \in 1 .. Len(children)}
    <3>1. DOMAIN children = 1 .. Len(children)
      BY <1>8
    <3>2. QED BY <3>1 DEF Range
  <2>2. \A q \in Range(children) : c[q].kind = "tree"
    BY <1>12, <2>1
  <2>3. \A q \in heads : c[q].kind = "chain"
    BY <1>12
  <2> HIDE DEF heads
  <2>4. QED BY <2>1, <2>2, <2>3
<1>17. \/ chained.error /\ content # c
       \/ \E C \in SUBSET Nat :
            /\ chained = With(v, C) /\ ChainPages(c, C)
            /\ Frontier(Q, (v.marked \cup C) \ {Reserved}, A \ heads)
  <2>1. Frontier(Q, v.marked \ {Reserved}, A)
    BY <1>14, <1>15
  <2>2. \A i \in 1 .. Len(overflows) : overflows[i][1] \in A /\ ChainFits(c, overflows[i][1], overflows[i][2])
    BY <1>12, <1>13
  <2> HIDE DEF A
  <2>3. PICK x \in WalkStates, o \in Seq(Nat \X Nat) : x = v /\ o = overflows
    BY <1>8, <1>9
  <2>4. /\ Intact(c, roots, first) /\ NearBy(c, content) /\ content \in [1 .. PageCount -> Pages]
        /\ ~x.error /\ Frontier(Q, x.marked \ {Reserved}, A) /\ ChainsAhead(c, o, A)
    BY <1>1, <1>9, <1>12, <2>1, <2>2, <2>3 DEF ChainsAhead
  <2>5. ChainsDone(c, roots, first, x, o, A)
    BY <2>4, ChainsWalked DEF Q
  <2>6. ChainsDone(c, roots, first, v, overflows, A)
    BY <2>3, <2>5
  <2>7. QED BY <2>6 DEF ChainsDone, Q
<1>18. r = [chained EXCEPT !.pending = pending]
  BY <1>10, <1>11
<1> DEFINE moved == [w EXCEPT !.pending = pending]
<1>19. moved.pending = pending /\ moved.roots = w.roots
  BY <1>2 DEF WalkStates
<1>20. /\ Apart(moved) /\ Ahead(moved) = away \cup Range(children) /\ pending \in Seq(Nat \X Nat)
       /\ \A i \in 1 .. Len(pending) :
            \/ \E j \in 1 .. Len(children) : pending[i] = <<children[j], depth + 1>>
            \/ \E j \in 1 .. Len(w.pending) : pending[i] = w.pending[j]
  <2>1. \A i \in 1 .. Len(children) : children[i] \notin Ahead(w)
    BY <1>12, <1>14, <1>16
  <2>2. depth + 1 \in Nat
    BY <1>4
  <2> HIDE DEF moved
  <2>3. moved.pending = Pushed(w, children, depth + 1) /\ Fresh(w, children)
    BY <1>12, <1>19, <2>1 DEF Pushed, Fresh
  <2> HIDE DEF pending
  <2>4. Moved(moved, w, children, depth + 1)
    BY <1>2, <1>3, <1>8, <1>19, <2>2, <2>3, PendingMoves
  <2>5. QED BY <1>19, <2>4 DEF Moved, page
<1> HIDE DEF r, chained, pending, moved
<1>21. /\ r \in WalkStates /\ r.error = chained.error /\ r.marked = chained.marked /\ r.stage = "trees"
       /\ r.pending = pending /\ r.roots = w.roots
  BY <1>11, <1>18, <1>20 DEF WalkStates
<1>22. CASE chained.error /\ content # c
  <2>1. Differs(c, first, n, content, header)
    BY <1>22 DEF Differs
  <2>2. Trail(c, roots, first, n, level, content, header, r)
    BY <1>21, <1>22, <2>1, Follows
  <2>3. QED BY <2>2 DEF r
<1>23. ASSUME NEW C \in SUBSET Nat, chained = With(v, C), ChainPages(c, C),
              Frontier(Q, (v.marked \cup C) \ {Reserved}, A \ heads)
       PROVE  Trail(c, roots, first, n, level, content, header, WalkPage(w))
  <2> DEFINE N == r.marked \ {Reserved}
  <2>1. r.marked = v.marked \cup C /\ ~r.error
    <3>1. With(v, C).marked = v.marked \cup C /\ With(v, C).error = v.error
      BY <1>9, Grows
    <3>2. QED BY <1>9, <1>21, <1>23, <3>1
  <2>2. C \subseteq 1 .. PageCount /\ \A p \in C : content[p] = c[p]
    BY <1>23 DEF ChainPages, Ownable
  <2>3. /\ r.marked \subseteq 1 .. PageCount
        /\ Reserved \in 1 .. PageCount => Reserved \in r.marked
        /\ \A p \in N : p \in M \/ p = page \/ p \in C
    BY <1>2, <1>5, <1>9, <2>1, <2>2
  <2>4. Same(c, first, content, header, N)
    BY <1>3, <1>7, <2>2, <2>3 DEF Same
  <2>5. Ahead(r) = A \ heads
    <3>1. Ahead(r) = Ahead(moved)
      BY <1>19, <1>21 DEF Ahead
    <3>2. heads \cap away = {} /\ heads \cap Range(children) = {}
      BY <1>12, <1>14, <1>16
    <3> HIDE DEF heads, away
    <3>3. A \ heads = away \cup Range(children)
      BY <1>12, <3>2
    <3>4. QED BY <1>20, <3>1, <3>3
  <2>6. Frontier(Pointers(c, roots, first), N, Ahead(r))
    BY <1>23, <2>1, <2>5 DEF Q
  <2>7. Apart(r)
    BY <1>19, <1>20, <1>21 DEF Apart
  <2>8. \A i \in 1 .. Len(r.pending) : /\ c[r.pending[i][1]].kind = "tree"
                                       /\ level[r.pending[i][1]] = r.pending[i][2]
    <3>1. ASSUME NEW i \in 1 .. Len(pending)
          PROVE  c[pending[i][1]].kind = "tree" /\ level[pending[i][1]] = pending[i][2]
      <4>1. ASSUME NEW j \in 1 .. Len(children), pending[i] = <<children[j], depth + 1>>
            PROVE  c[pending[i][1]].kind = "tree" /\ level[pending[i][1]] = pending[i][2]
        <5>1. pending[i][1] = children[j] /\ pending[i][2] = depth + 1
          BY <4>1
        <5>2. level[children[j]] = level[page] + 1
          BY <1>1, <1>5 DEF children
        <5>3. QED BY <1>5, <1>12, <5>1, <5>2
      <4>2. ASSUME NEW j \in 1 .. Len(w.pending), pending[i] = w.pending[j]
            PROVE  c[pending[i][1]].kind = "tree" /\ level[pending[i][1]] = pending[i][2]
        BY <1>3, <4>2
      <4>3. QED BY <1>20, <4>1, <4>2
    <3>2. QED BY <1>21, <3>1
  <2>9. \A i \in 1 .. Len(r.roots) : c[r.roots[i]].kind = "tree" /\ level[r.roots[i]] = 0
    BY <1>3, <1>21
  <2> HIDE DEF N
  <2>10. OnTrees(c, roots, first, n, level, content, header, r, N)
    BY <1>3, <2>4, <2>6, <2>7, <2>8, <2>9 DEF OnTrees
  <2>11. Trail(c, roots, first, n, level, content, header, r)
    BY <1>21, <2>1, <2>3, <2>10, Follows DEF N
  <2>12. QED BY <2>11 DEF r
<1>24. QED BY <1>17, <1>22, <1>23

\* The walk over the trees follows them.
LEMMA PageKept ==
  ASSUME NEW c, NEW roots, NEW first, NEW n, NEW level, NEW w,
         Given(c, roots, first, n, level, content, header),
         Trail(c, roots, first, n, level, content, header, w), ~w.error, w.stage = "trees"
  PROVE  Trail(c, roots, first, n, level, content, header, WalkPage(w))
BY PagesEnd, RootFollowed, PageFollowed

-----------------------------------------------------------------------------
(* A page that no pointer names any more is never reached.                   *)

Unnamed(a) ==
  a \in Ownable /\ \A x \in Pointers(content, image.roots, header.first) : x[4] # a

\* A freelist that leads to no page of the trees.
Straight(e, first) ==
  /\ ~InTrees(e, first)
  /\ \A p \in 1 .. PageCount : e[p].kind = "trunk" => ~InTrees(e, e[p].next)

Missed(a, w) ==
  /\ w \in WalkStates /\ a \notin w.marked /\ w.trunk # a
  /\ \A i \in 1 .. Len(w.roots) : w.roots[i] # a
  /\ \A i \in 1 .. Len(w.pending) : w.pending[i][1] # a
  /\ w.stage = "free" => w.pending = <<>> /\ w.roots = image.roots
  /\ Straight(content, header.first) => ~InTrees(content, w.trunk)
  /\ w.stage = "end" => w.error

\* What does not name the page: the pages the schema and the header name, and those
\* the pages of the file name.
LEMMA NamedNot ==
  ASSUME NEW a, Unnamed(a), content \in [1 .. PageCount -> Pages], image.roots \in Seq(Nat)
  PROVE  /\ a \in 1 .. PageCount /\ a # 0 /\ a # Reserved /\ a # PageCount + 1
         /\ header.first # a /\ \A i \in 1 .. Len(image.roots) : image.roots[i] # a
         /\ \A p \in 1 .. PageCount : content[p].kind = "tree" =>
              /\ \A i \in 1 .. Len(content[p].children) : content[p].children[i] # a
              /\ \A i \in 1 .. Len(content[p].overflows) : content[p].overflows[i][1] # a
         /\ \A p \in 1 .. PageCount : content[p].kind = "trunk" =>
              \A i \in 1 .. Len(content[p].leaves) : content[p].leaves[i] # a
         /\ \A p \in 1 .. PageCount : content[p].kind \in {"chain", "trunk"} => content[p].next # a
<1> DEFINE Q == Pointers(content, image.roots, header.first)
<1>1. a \in 1 .. PageCount /\ a # 0 /\ a # Reserved /\ a # PageCount + 1
  BY PagesFinite DEF Unnamed, Ownable
<1>2. \A x \in Q : x[4] # a
  BY DEF Unnamed
<1>3. /\ Anchors(image.roots, header.first) \subseteq Q
      /\ \A p \in 1 .. PageCount : PointersOf(content, p) \subseteq Q
  BY DEF Pointers
<1> HIDE DEF Q
<1>4. header.first # a
  <2>1. CASE header.first = 0
    BY <1>1, <2>1
  <2>2. CASE header.first # 0
    <3>1. <<0, "trunk", 0, header.first>> \in Q
      BY <1>3, <2>2 DEF Anchors
    <3>2. QED BY <1>2, <3>1
  <2>3. QED BY <2>1, <2>2
<1>5. ASSUME NEW i \in 1 .. Len(image.roots)
      PROVE  image.roots[i] # a
  <2>1. <<0, "child", i, image.roots[i]>> \in Q
    <3>1. i \in DOMAIN image.roots
      OBVIOUS
    <3>2. QED BY <1>3, <3>1 DEF Anchors
  <2>2. QED BY <1>2, <2>1
<1>6. ASSUME NEW p \in 1 .. PageCount, content[p].kind = "tree"
      PROVE  /\ \A i \in 1 .. Len(content[p].children) : content[p].children[i] # a
             /\ \A i \in 1 .. Len(content[p].overflows) : content[p].overflows[i][1] # a
  <2> DEFINE children == content[p].children
             overflows == content[p].overflows
  <2>1. children \in Seq(Nat) /\ overflows \in Seq(Nat \X Nat)
    <3>1. content[p] \in Pages
      OBVIOUS
    <3>2. QED BY <1>6, <3>1, PageKinds
  <2>2. /\ \A i \in DOMAIN children : <<p, "child", i, children[i]>> \in PointersOf(content, p)
        /\ \A i \in DOMAIN overflows : <<p, "chain", i, overflows[i][1]>> \in PointersOf(content, p)
    BY <1>6 DEF PointersOf
  <2> HIDE DEF children, overflows
  <2>3. /\ \A i \in DOMAIN children : <<p, "child", i, children[i]>>[4] # a
        /\ \A i \in DOMAIN overflows : <<p, "chain", i, overflows[i][1]>>[4] # a
    BY <1>2, <1>3, <2>2
  <2>4. /\ \A i \in 1 .. Len(children) : children[i] # a
        /\ \A i \in 1 .. Len(overflows) : overflows[i][1] # a
    BY <2>1, <2>3
  <2>5. QED BY <2>4 DEF children, overflows
<1>7. ASSUME NEW p \in 1 .. PageCount, content[p].kind = "trunk"
      PROVE  \A i \in 1 .. Len(content[p].leaves) : content[p].leaves[i] # a
  <2> DEFINE leaves == content[p].leaves
  <2>1. leaves \in Seq(Nat)
    <3>1. content[p] \in Pages
      OBVIOUS
    <3>2. QED BY <1>7, <3>1, PageKinds
  <2>2. \A i \in DOMAIN leaves : <<p, "free", i, leaves[i]>> \in PointersOf(content, p)
    BY <1>7 DEF PointersOf
  <2> HIDE DEF leaves
  <2>3. \A i \in DOMAIN leaves : <<p, "free", i, leaves[i]>>[4] # a
    BY <1>2, <1>3, <2>2
  <2>4. \A i \in 1 .. Len(leaves) : leaves[i] # a
    BY <2>1, <2>3
  <2>5. QED BY <2>4 DEF leaves
<1>8. ASSUME NEW p \in 1 .. PageCount, content[p].kind \in {"chain", "trunk"}
      PROVE  content[p].next # a
  <2> DEFINE onward == content[p].next
  <2>1. CASE onward = 0
    BY <1>1, <2>1
  <2>2. CASE onward # 0
    <3>1. \E k : <<p, k, 0, onward>> \in PointersOf(content, p)
      <4>1. CASE content[p].kind = "chain"
        <5>1. <<p, "chain", 0, onward>> \in PointersOf(content, p)
          BY <2>2, <4>1 DEF PointersOf
        <5>2. QED BY <5>1
      <4>2. CASE content[p].kind = "trunk"
        <5>1. <<p, "trunk", 0, onward>> \in PointersOf(content, p)
          BY <2>2, <4>2 DEF PointersOf
        <5>2. QED BY <5>1
      <4>3. QED BY <1>8, <4>1, <4>2
    <3> HIDE DEF onward
    <3>2. PICK k : <<p, k, 0, onward>> \in Q
      BY <1>3, <3>1
    <3>3. <<p, k, 0, onward>>[4] = onward
      OBVIOUS
    <3>4. QED BY <1>2, <3>2, <3>3 DEF onward
  <2>3. QED BY <2>1, <2>2
<1>9. QED BY <1>1, <1>4, <1>5, <1>6, <1>7, <1>8

LEMMA StartMissed ==
  ASSUME NEW a, Unnamed(a), content \in [1 .. PageCount -> Pages], image.roots \in Seq(Nat),
         header.first \in Nat
  PROVE  Missed(a, StartWalk)
<1> DEFINE w == [stage |-> "free", marked |-> {}, error |-> FALSE, trunk |-> header.first,
                 free |-> 0, pending |-> <<>>, roots |-> image.roots]
<1>1. /\ a # Reserved /\ header.first # a /\ \A i \in 1 .. Len(image.roots) : image.roots[i] # a
  BY NamedNot
<1>2. /\ w \in WalkStates /\ w.marked = {} /\ w.trunk = header.first /\ w.roots = image.roots
      /\ w.pending = <<>> /\ w.stage = "free"
  BY DEF WalkStates
<1>3. StartWalk = w \/ (Reserved \in Nat /\ StartWalk = Mark(w, Reserved))
  BY FileAssumption DEF StartWalk
<1> HIDE DEF w
<1>4. Missed(a, w)
  <2>1. \A i : i \notin 1 .. Len(w.pending)
    BY <1>2
  <2>2. QED BY <1>1, <1>2, <2>1 DEF Missed, Straight
<1>5. CASE Reserved \in Nat /\ StartWalk = Mark(w, Reserved)
  <2>1. Grown(Mark(w, Reserved), w, {Reserved})
    BY <1>2, <1>5, Marking
  <2>2. QED BY <1>1, <1>2, <1>4, <1>5, <2>1 DEF Missed, Grown, Alike
<1>6. QED BY <1>3, <1>4, <1>5

LEMMA TrunkMissed ==
  ASSUME NEW a, Unnamed(a), content \in [1 .. PageCount -> Pages], image.roots \in Seq(Nat),
         NEW w, Missed(a, w), ~w.error, w.stage = "free"
  PROVE  \/ Missed(a, WalkTrunk(w))
         \/ Passed(w, WalkTrunk(w)) /\ InTrees(content, w.trunk)
<1> DEFINE r == WalkTrunk(w)
           t == w.trunk
<1>1. /\ w \in WalkStates /\ a \notin w.marked /\ t # a
      /\ \A i \in 1 .. Len(w.roots) : w.roots[i] # a
      /\ \A i \in 1 .. Len(w.pending) : w.pending[i][1] # a
      /\ w.pending = <<>> /\ w.roots = image.roots
      /\ Straight(content, header.first) => ~InTrees(content, w.trunk)
  BY DEF Missed
<1>2. CASE t = 0
  <2> DEFINE bad == w.free # header.free
  <2>1. r = [w EXCEPT !.stage = "trees", !.error = bad] /\ bad \in BOOLEAN
    BY <1>2 DEF WalkTrunk
  <2> HIDE DEF r, bad
  <2>2. r \in WalkStates /\ r.stage = "trees" /\ r.marked = w.marked /\ r.trunk = w.trunk
        /\ r.roots = w.roots /\ r.pending = w.pending
    BY <1>1, <2>1 DEF WalkStates
  <2>3. Missed(a, r)
    BY <1>1, <2>2 DEF Missed
  <2>4. QED BY <2>3 DEF r
<1>3. CASE t # 0
  <2>1. (r.error /\ Grown(r, w, {t})) \/ Passed(w, r)
    BY <1>1, <1>3, TrunkRead
  <2> HIDE DEF r
  <2>2. CASE r.error /\ Grown(r, w, {t})
    <3>1. /\ r \in WalkStates /\ r.stage = w.stage /\ r.trunk = w.trunk /\ r.roots = w.roots
          /\ r.pending = w.pending /\ a \notin r.marked /\ r.error
      BY <1>1, <2>2 DEF Grown, Alike
    <3>2. Missed(a, r)
      BY <1>1, <3>1 DEF Missed
    <3>3. QED BY <3>2 DEF r
  <2>3. CASE Passed(w, r) /\ ~InTrees(content, t)
    <3>1. PICK p \in 1 .. PageCount : p = t
      BY <2>3 DEF Passed
    <3>2. content[p].kind \in {"trunk", "blank"}
      <4>1. content[p].kind \in {"tree", "chain", "trunk", "blank"}
        BY PageKinds
      <4>2. QED BY <2>3, <3>1, <4>1 DEF InTrees
    <3>3. /\ a \notin Range(Leaves(p)) /\ FirstWord(p) # a
          /\ Straight(content, header.first) => ~InTrees(content, FirstWord(p))
      <4>1. CASE content[p].kind = "trunk"
        <5>1. Leaves(p) = content[p].leaves /\ FirstWord(p) = content[p].next /\ Leaves(p) \in Seq(Nat)
          BY <4>1, LeavesTyped
        <5>2. \A i \in 1 .. Len(content[p].leaves) : content[p].leaves[i] # a
          BY <4>1, NamedNot
        <5>3. content[p].next # a
          BY <4>1, NamedNot
        <5>4. a \notin Range(Leaves(p))
          <6>1. DOMAIN Leaves(p) = 1 .. Len(Leaves(p))
            BY <5>1
          <6>2. QED BY <5>1, <5>2, <6>1 DEF Range
        <5>5. QED BY <4>1, <5>1, <5>3, <5>4 DEF Straight
      <4>2. CASE content[p].kind = "blank"
        <5>1. Leaves(p) = <<>> /\ FirstWord(p) = 0
          BY <4>2, LeavesTyped
        <5>2. a # 0
          BY NamedNot
        <5>3. QED BY <5>1, <5>2 DEF Range, InTrees
      <4>3. QED BY <3>2, <4>1, <4>2
    <3>4. /\ r \in WalkStates /\ r.stage = w.stage /\ r.pending = w.pending /\ r.roots = w.roots
          /\ r.trunk = FirstWord(p) /\ a \notin r.marked
      BY <1>1, <2>3, <3>1, <3>3 DEF Passed
    <3>5. Missed(a, r)
      <4>1. r.stage # "end"
        BY <3>4
      <4>2. QED BY <1>1, <3>3, <3>4, <4>1 DEF Missed
    <3>6. QED BY <3>5 DEF r
  <2>4. QED BY <2>1, <2>2, <2>3 DEF r
<1>4. QED BY <1>2, <1>3

LEMMA PageMissed ==
  ASSUME NEW a, Unnamed(a), content \in [1 .. PageCount -> Pages], image.roots \in Seq(Nat),
         NEW w, Missed(a, w), ~w.error, w.stage = "trees"
  PROVE  Missed(a, WalkPage(w))
<1> DEFINE r == WalkPage(w)
<1>1. /\ w \in WalkStates /\ a \notin w.marked /\ w.trunk # a
      /\ \A i \in 1 .. Len(w.roots) : w.roots[i] # a
      /\ \A i \in 1 .. Len(w.pending) : w.pending[i][1] # a
      /\ w.roots \in Seq(Nat) /\ w.pending \in Seq(Nat \X Nat)
      /\ Straight(content, header.first) => ~InTrees(content, w.trunk)
  BY DEF Missed, WalkStates
<1>2. CASE w.pending = <<>> /\ w.roots = <<>>
  <2> DEFINE bad == w.marked # 1 .. PageCount
  <2>1. r = [w EXCEPT !.stage = "end", !.error = bad]
    BY <1>2 DEF WalkPage
  <2>2. bad = TRUE
    BY <1>1, NamedNot
  <2> HIDE DEF r, bad
  <2>3. r \in WalkStates /\ r.error /\ r.stage = "end" /\ r.marked = w.marked /\ r.trunk = w.trunk
        /\ r.roots = w.roots /\ r.pending = w.pending
    BY <1>1, <2>1, <2>2 DEF WalkStates
  <2>4. Missed(a, r)
    BY <1>1, <2>3 DEF Missed
  <2>5. QED BY <2>4 DEF r
<1>3. CASE w.pending = <<>> /\ w.roots # <<>>
  <2> DEFINE begun == <<<<Head(w.roots), 0>>>>
             rest == Tail(w.roots)
  <2>1. r = [w EXCEPT !.pending = begun, !.roots = rest]
    BY <1>3 DEF WalkPage
  <2>2. /\ begun \in Seq(Nat \X Nat) /\ rest \in Seq(Nat)
        /\ \A i \in 1 .. Len(begun) : begun[i][1] # a
        /\ \A i \in 1 .. Len(rest) : rest[i] # a
    <3> DEFINE s == w.roots
               q == Tail(s)
    <3>1. s \in Seq(Nat) /\ s # <<>> /\ \A i \in 1 .. Len(s) : s[i] # a
      BY <1>1, <1>3
    <3> HIDE DEF s
    <3>2. Head(s) = s[1] /\ s[1] \in Nat /\ 1 \in 1 .. Len(s) /\ Len(s) \in Nat
      BY <3>1
    <3>3. q \in Seq(Nat) /\ Len(q) = Len(s) - 1 /\ \A i \in 1 .. Len(s) - 1 : q[i] = s[i + 1]
      BY <3>1
    <3> HIDE DEF q
    <3>4. \A i \in 1 .. Len(q) : q[i] # a
      <4>1. \A i \in 1 .. Len(q) : i \in 1 .. Len(s) - 1 /\ i + 1 \in 1 .. Len(s)
        BY <3>2, <3>3
      <4>2. QED BY <3>1, <3>3, <4>1
    <3>5. s[1] # a
      BY <3>1, <3>2
    <3>6. /\ begun \in Seq(Nat \X Nat) /\ \A i \in 1 .. Len(begun) : begun[i][1] # a
      BY <3>2, <3>5 DEF s
    <3> HIDE DEF begun
    <3>7. QED BY <3>3, <3>4, <3>6 DEF q, s
  <2> HIDE DEF r, begun, rest
  <2>3. r \in WalkStates /\ r.marked = w.marked /\ r.trunk = w.trunk
        /\ r.roots = rest /\ r.pending = begun /\ r.stage = "trees"
    BY <1>1, <2>1, <2>2 DEF WalkStates
  <2>4. Missed(a, r)
    BY <1>1, <2>2, <2>3 DEF Missed
  <2>5. QED BY <2>4 DEF r
<1>4. CASE w.pending # <<>>
  <2> DEFINE page == Head(w.pending)[1]
             depth == Head(w.pending)[2]
             marked == Mark(w, page)
  <2>1. page \in Nat /\ depth \in Nat /\ page # a
    <3> DEFINE s == w.pending
    <3>1. s \in Seq(Nat \X Nat) /\ s # <<>> /\ \A i \in 1 .. Len(s) : s[i][1] # a
      BY <1>1, <1>4
    <3> HIDE DEF s
    <3>2. Head(s) = s[1] /\ s[1] \in Nat \X Nat /\ 1 \in 1 .. Len(s)
      BY <3>1
    <3>3. Head(s)[1] \in Nat /\ Head(s)[2] \in Nat /\ Head(s)[1] # a
      BY <3>1, <3>2
    <3>4. QED BY <3>3 DEF s
  <2>2. /\ marked \in WalkStates /\ a \notin marked.marked /\ marked.stage = "trees"
        /\ marked.trunk = w.trunk /\ marked.roots = w.roots /\ marked.pending = w.pending
        /\ ~marked.error => page \in 1 .. PageCount
    <3> HIDE DEF page
    <3>1. Grown(marked, w, {page}) /\ (~marked.error => page \in 1 .. PageCount)
      BY <1>1, <2>1, Marking
    <3> HIDE DEF marked
    <3>2. QED BY <1>1, <2>1, <3>1 DEF Grown, Alike
  <2>3. CASE depth >= MaxDepth \/ marked.error \/ content[page].kind # "tree"
    <3>1. r = [w EXCEPT !.error = TRUE]
      BY <1>4, <2>3, Zenon DEF WalkPage
    <3> HIDE DEF r
    <3>2. r \in WalkStates /\ r.error /\ r.stage = "trees" /\ r.marked = w.marked /\ r.trunk = w.trunk
          /\ r.roots = w.roots /\ r.pending = w.pending
      BY <1>1, <3>1 DEF WalkStates
    <3>3. Missed(a, r)
      BY <1>1, <3>2 DEF Missed
    <3>4. QED BY <3>3 DEF r
  <2>4. CASE ~(depth >= MaxDepth \/ marked.error \/ content[page].kind # "tree")
    <3> DEFINE children == content[page].children
               overflows == content[page].overflows
               v == WalkChains(marked, overflows)
               kids == [i \in DOMAIN children |-> <<children[i], depth + 1>>]
               pending == kids \o Tail(w.pending)
    <3>1. page \in 1 .. PageCount /\ content[page].kind = "tree"
      BY <2>2, <2>4
    <3>2. children \in Seq(Nat) /\ overflows \in Seq(Nat \X Nat)
      <4>1. content[page] \in Pages
        BY <3>1
      <4>2. QED BY <3>1, <4>1, PageKinds
    <3>3. /\ \A i \in 1 .. Len(children) : children[i] # a
          /\ \A i \in 1 .. Len(overflows) : overflows[i][1] # a
      BY <3>1, NamedNot
    <3>4. r = [v EXCEPT !.pending = kids \o Tail(@)]
      BY <1>4, <2>4, Zenon DEF WalkPage
    <3> HIDE DEF page, depth, r, marked, children, overflows
    <3>5. a \notin Onward
      <4>1. ASSUME NEW p \in 1 .. PageCount
            PROVE  FirstWord(p) # a
        BY NamedNot DEF FirstWord
      <4>2. a # 0
        BY NamedNot
      <4>3. QED BY <4>1, <4>2 DEF Onward
    <3>6. /\ v \in WalkStates /\ a \notin v.marked /\ v.stage = "trees" /\ v.roots = w.roots
          /\ v.pending = w.pending /\ v.trunk = w.trunk
      <4> DEFINE S == {overflows[i][1] : i \in 1 .. Len(overflows)} \cup Onward
      <4>1. Grown(v, marked, S)
        BY <2>2, <3>2, WalkChainsGrows
      <4>2. a \notin S
        BY <3>3, <3>5
      <4> HIDE DEF v, S
      <4>3. QED BY <2>2, <4>1, <4>2 DEF Grown, Alike
    <3>7. /\ pending \in Seq(Nat \X Nat) /\ \A i \in 1 .. Len(pending) : pending[i][1] # a
      <4> DEFINE s == Tail(w.pending)
                 k == Len(children)
                 n == Len(s)
      <4>1. kids \in Seq(Nat \X Nat) /\ Len(kids) = k /\ k \in Nat
            /\ \A i \in 1 .. k : kids[i] = <<children[i], depth + 1>>
        <5>1. k \in Nat /\ DOMAIN children = 1 .. k /\ \A i \in 1 .. k : children[i] \in Nat
          BY <3>2
        <5> HIDE DEF k
        <5>2. kids = [i \in 1 .. k |-> <<children[i], depth + 1>>]
          BY <5>1
        <5>3. \A i \in 1 .. k : <<children[i], depth + 1>> \in Nat \X Nat
          BY <2>1, <5>1
        <5> HIDE DEF kids
        <5>4. QED BY <5>1, <5>2, <5>3
      <4>2. s \in Seq(Nat \X Nat) /\ n \in Nat /\ \A i \in 1 .. n : s[i][1] # a
        <5> DEFINE x == w.pending
        <5>1. x \in Seq(Nat \X Nat) /\ x # <<>> /\ \A i \in 1 .. Len(x) : x[i][1] # a
          BY <1>1, <1>4
        <5> HIDE DEF x
        <5>2. /\ Tail(x) \in Seq(Nat \X Nat) /\ Len(Tail(x)) = Len(x) - 1 /\ Len(x) \in Nat /\ Len(x) > 0
              /\ \A i \in 1 .. Len(x) - 1 : Tail(x)[i] = x[i + 1]
          BY <5>1
        <5>3. \A i \in 1 .. Len(x) - 1 : i + 1 \in 1 .. Len(x)
          BY <5>2
        <5>4. \A i \in 1 .. Len(Tail(x)) : Tail(x)[i][1] # a
          BY <5>1, <5>2, <5>3
        <5>5. Len(Tail(x)) \in Nat
          BY <5>2
        <5>6. QED BY <5>2, <5>4, <5>5 DEF x
      <4> HIDE DEF s, n, k, kids
      <4>3. pending = kids \o s
        BY DEF s
      <4> HIDE DEF pending
      <4>4. PICK b \in Seq(Nat \X Nat), e \in Seq(Nat \X Nat) : b = kids /\ e = s
        BY <4>1, <4>2
      <4>5. /\ b \o e \in Seq(Nat \X Nat) /\ Len(b \o e) = Len(b) + Len(e)
            /\ \A i \in 1 .. Len(b) + Len(e) :
                 (b \o e)[i] = IF i <= Len(b) THEN b[i] ELSE e[i - Len(b)]
        BY Joined
      <4>6. pending = b \o e /\ Len(b) = k /\ Len(e) = n
        BY <4>1, <4>3, <4>4 DEF n
      <4>7. /\ pending \in Seq(Nat \X Nat) /\ Len(pending) = k + n
            /\ \A i \in 1 .. k + n : pending[i] = IF i <= k THEN kids[i] ELSE s[i - k]
        BY <4>4, <4>5, <4>6
      <4>8. ASSUME NEW i \in 1 .. Len(pending)
            PROVE  pending[i][1] # a
        <5>1. CASE i <= k
          <6>1. i \in 1 .. k /\ pending[i] = kids[i]
            BY <4>1, <4>2, <4>7, <5>1
          <6>2. pending[i] = <<children[i], depth + 1>> /\ children[i] # a
            BY <3>3, <4>1, <6>1 DEF k
          <6>3. QED BY <6>2
        <5>2. CASE ~(i <= k)
          <6>0. k \in Nat /\ n \in Nat /\ i \in 1 .. k + n
            BY <4>1, <4>2, <4>7
          <6>1. i - k \in 1 .. n /\ pending[i] = s[i - k]
            <7>1. i - k \in 1 .. n
              BY <5>2, <6>0
            <7>2. pending[i] = s[i - k]
              BY <4>7, <5>2, <6>0
            <7>3. QED BY <7>1, <7>2
          <6>2. QED BY <4>2, <6>1
        <5>3. QED BY <5>1, <5>2
      <4>9. QED BY <4>7, <4>8
    <3>8. r = [v EXCEPT !.pending = pending]
      BY <3>4, <3>6
    <3> HIDE DEF v, pending
    <3>9. /\ r \in WalkStates /\ r.marked = v.marked /\ r.stage = v.stage /\ r.roots = v.roots
          /\ r.pending = pending /\ r.trunk = v.trunk
      BY <3>6, <3>7, <3>8 DEF WalkStates
    <3>10. Missed(a, r)
      BY <1>1, <3>6, <3>7, <3>9 DEF Missed
    <3>11. QED BY <3>10 DEF r
  <2>5. QED BY <2>3, <2>4
<1>5. QED BY <1>2, <1>3, <1>4

-----------------------------------------------------------------------------
(* A page of the trees that was read as a trunk is never forgotten: what     *)
(* names it in the trees is reached, and marks it again.                     *)

\* No pages of the trees are only named from within, and no chain is empty.
Entered(e, roots, S) ==
  \/ \E i \in 1 .. Len(roots) : roots[i] \in S
  \/ \E q \in (1 .. PageCount) \ S :
       \/ /\ e[q].kind = "tree"
          /\ \/ \E i \in 1 .. Len(e[q].children) : e[q].children[i] \in S
             \/ \E i \in 1 .. Len(e[q].overflows) : e[q].overflows[i][1] \in S
       \/ e[q].kind = "chain" /\ e[q].next \in S
Rooted(e, roots) ==
  /\ \A S \in (SUBSET (1 .. PageCount)) \ {{}} :
       (\A p \in S : InTrees(e, p)) => Entered(e, roots, S)
  /\ \A q \in 1 .. PageCount : e[q].kind = "tree" =>
       \A i \in 1 .. Len(e[q].overflows) : e[q].overflows[i][2] # 0

\* The pages of a chain lead to pages of the chain, the last one to none.
Chained(C) == \A p \in C : FirstWord(p) \in C \cup {0}

LEMMA ChainClosed ==
  ASSUME content \in [1 .. PageCount -> Pages], NEW w \in WalkStates,
         NEW overflow \in Nat \X Nat, overflow[2] # 0, ~WalkChain(w, overflow).error
  PROVE  \E C \in SUBSET (1 .. PageCount) :
           /\ WalkChain(w, overflow) = With(w, C) /\ C \cap w.marked = {}
           /\ overflow[1] \in C /\ Chained(C) /\ ~w.error
<1> DEFINE n == overflow[2]
           head == overflow[1]
<1>1. n \in Nat /\ n > 0 /\ head \in Nat
  OBVIOUS
<1>0. PICK f : WalkChainBy(f, w, overflow)
  BY <1>1, WalkChainUnfolds
<1>2. /\ f[0] = [walk |-> w, at |-> head] /\ WalkChain(w, overflow) = f[n].walk
      /\ \A i \in 1 .. n : f[i] = ChainStep(f[i - 1], i = n)
  BY <1>0 DEF WalkChainBy
<1> HIDE DEF n, head
<1> DEFINE Good(i, C) == /\ f[i].walk = With(w, C) /\ C \cap w.marked = {}
                         /\ \A p \in C : FirstWord(p) \in C \cup {f[i].at}
                         /\ IF i = 0 THEN C = {} /\ f[i].at = head ELSE head \in C
                         /\ i = n => f[i].at = 0
                         /\ ~w.error \/ i = 0
           Claim(i) == /\ f[i].walk \in WalkStates /\ f[i].at \in Nat
                       /\ f[i].walk.error \/ \E C \in SUBSET (1 .. PageCount) : Good(i, C)
           T == {i \in Nat : i <= n => Claim(i)}
<1>3. 0 \in T
  <2>1. f[0].walk = w /\ f[0].at = head
    BY <1>2
  <2>2. With(w, {}) = w
    BY Grows
  <2>3. Good(0, {})
    BY <1>1, <2>1, <2>2
  <2>4. {} \in SUBSET (1 .. PageCount)
    OBVIOUS
  <2> HIDE DEF Good
  <2>5. Claim(0)
    BY <1>1, <2>1, <2>3, <2>4
  <2>6. QED BY <2>5
<1>4. ASSUME NEW i \in Nat, i \in T
      PROVE  i + 1 \in T
  <2> SUFFICES ASSUME i + 1 <= n
               PROVE  Claim(i + 1)
    OBVIOUS
  <2>1. i + 1 \in 1 .. n /\ (i + 1) - 1 = i /\ i <= n /\ i # n /\ i + 1 # 0
    BY <1>1
  <2> DEFINE v == f[i].walk
             at == f[i].at
             marked == Mark(v, at)
  <2>2. /\ v \in WalkStates /\ at \in Nat
        /\ v.error \/ \E C \in SUBSET (1 .. PageCount) : Good(i, C)
    BY <1>4, <2>1
  <2>3. f[i + 1] = ChainStep(f[i], i + 1 = n)
    BY <1>2, <2>1
  <2>4. /\ marked \in WalkStates
        /\ ~marked.error => ~v.error /\ at \in 1 .. PageCount /\ at \notin v.marked /\ marked = With(v, {at})
    <3>1. PICK x \in WalkStates, q \in Nat : x = v /\ q = at
      BY <2>2
    <3>2. /\ Mark(x, q) \in WalkStates
          /\ ~Mark(x, q).error => ~x.error /\ q \in 1 .. PageCount /\ q \notin x.marked /\ Mark(x, q) = With(x, {q})
      BY Marking DEF Grown
    <3>3. QED BY <3>1, <3>2
  <2>5. CASE marked.error
    <3>1. f[i + 1] = [walk |-> marked, at |-> 0]
      BY <2>3, <2>5 DEF ChainStep
    <3> HIDE DEF Good, marked
    <3>2. f[i + 1].walk = marked /\ f[i + 1].at = 0
      BY <3>1
    <3>3. QED BY <2>4, <2>5, <3>2
  <2>6. CASE ~marked.error
    <3> DEFINE bad == i + 1 = n /\ FirstWord(at) # 0
    <3>1. f[i + 1] = [walk |-> [marked EXCEPT !.error = bad], at |-> FirstWord(at)]
      BY <2>3, <2>6 DEF ChainStep
    <3>2. bad \in BOOLEAN /\ at \in 1 .. PageCount /\ FirstWord(at) \in Nat
      BY <2>4, <2>6, OnwardIsNat
    <3>3. PICK C \in SUBSET (1 .. PageCount) : Good(i, C)
      BY <2>2, <2>4, <2>6
    <3>4. ~v.error /\ at \notin v.marked /\ marked = With(v, {at})
      BY <2>4, <2>6
    <3>5. C \subseteq Nat /\ {at} \subseteq Nat
      BY <2>2, PagesFinite
    <3>6. marked = With(w, C \cup {at}) /\ v.marked = w.marked \cup C /\ v.error = w.error
      <4>1. v = With(w, C)
        BY <3>3
      <4> HIDE DEF Good, v, at, marked
      <4>2. QED BY <3>4, <3>5, <4>1, Grows
    <3> HIDE DEF marked, v, bad
    <3>7. /\ [marked EXCEPT !.error = bad] \in WalkStates
          /\ [marked EXCEPT !.error = bad].error = bad
          /\ ~bad => [marked EXCEPT !.error = bad] = marked
      BY <2>4, <2>6, <3>2 DEF WalkStates
    <3>8. f[i + 1].walk = [marked EXCEPT !.error = bad] /\ f[i + 1].at = FirstWord(at)
      BY <3>1
    <3>9. CASE bad
      BY <3>2, <3>7, <3>8, <3>9
    <3>10. CASE ~bad
      <4> DEFINE D == C \cup {at}
      <4>1. f[i + 1].walk = With(w, D) /\ D \cap w.marked = {}
        BY <3>3, <3>4, <3>6, <3>7, <3>8, <3>10
      <4>2. \A p \in D : FirstWord(p) \in D \cup {f[i + 1].at}
        BY <3>3, <3>8
      <4>3. head \in D
        BY <3>3
      <4>4. i + 1 = n => f[i + 1].at = 0
        BY <3>8, <3>10 DEF bad
      <4>5. D \in SUBSET (1 .. PageCount)
        BY <3>2
      <4>6. Good(i + 1, D)
        BY <2>1, <3>4, <3>6, <4>1, <4>2, <4>3, <4>4
      <4> HIDE DEF Good, D
      <4>7. QED BY <3>2, <3>7, <3>8, <4>5, <4>6
    <3>11. QED BY <3>9, <3>10
  <2>7. QED BY <2>5, <2>6
<1>5. n \in T
  <2> HIDE DEF T
  <2>1. Nat \subseteq T
    BY <1>3, <1>4, SetInduction
  <2>2. QED BY <1>1, <2>1
<1>6. PICK C \in SUBSET (1 .. PageCount) : Good(n, C)
  BY <1>1, <1>2, <1>5
<1>7. /\ WalkChain(w, overflow) = With(w, C) /\ C \cap w.marked = {}
      /\ overflow[1] \in C /\ Chained(C) /\ ~w.error
  BY <1>1, <1>2, <1>6 DEF Chained, head
<1>8. QED BY <1>7

LEMMA ChainsClosed ==
  ASSUME content \in [1 .. PageCount -> Pages], NEW w \in WalkStates,
         NEW overflows \in Seq(Nat \X Nat), \A i \in 1 .. Len(overflows) : overflows[i][2] # 0,
         ~WalkChains(w, overflows).error
  PROVE  \E C \in SUBSET (1 .. PageCount) :
           /\ WalkChains(w, overflows) = With(w, C) /\ C \cap w.marked = {} /\ Chained(C)
           /\ \A i \in 1 .. Len(overflows) : overflows[i][1] \in C
<1> DEFINE n == Len(overflows)
<1>1. n \in Nat /\ \A i \in 1 .. n : overflows[i] \in Nat \X Nat
  OBVIOUS
<1>0. PICK f : WalkChainsBy(f, w, overflows)
  BY <1>1, WalkChainsUnfolds
<1>2. /\ f[0] = w /\ WalkChains(w, overflows) = f[n]
      /\ \A i \in 1 .. n : f[i] = WalkChain(f[i - 1], overflows[i])
  BY <1>0 DEF WalkChainsBy
<1> HIDE DEF n
<1> DEFINE Good(i, C) == /\ f[i] = With(w, C) /\ C \cap w.marked = {} /\ Chained(C)
                         /\ \A j \in 1 .. i : overflows[j][1] \in C
           Claim(i) == /\ f[i] \in WalkStates
                       /\ f[i].error \/ \E C \in SUBSET (1 .. PageCount) : Good(i, C)
           T == {i \in Nat : i <= n => Claim(i)}
<1>3. 0 \in T
  <2>1. With(w, {}) = w
    BY Grows
  <2>2. Good(0, {}) /\ {} \in SUBSET (1 .. PageCount)
    BY <1>2, <2>1 DEF Chained
  <2> HIDE DEF Good
  <2>3. QED BY <1>2, <2>2
<1>4. ASSUME NEW i \in Nat, i \in T
      PROVE  i + 1 \in T
  <2> SUFFICES ASSUME i + 1 <= n
               PROVE  Claim(i + 1)
    OBVIOUS
  <2>1. i + 1 \in 1 .. n /\ (i + 1) - 1 = i /\ i <= n
    BY <1>1
  <2>2. /\ f[i] \in WalkStates /\ f[i + 1] = WalkChain(f[i], overflows[i + 1])
        /\ f[i].error \/ \E C \in SUBSET (1 .. PageCount) : Good(i, C)
    BY <1>2, <1>4, <2>1
  <2>3. overflows[i + 1] \in Nat \X Nat /\ overflows[i + 1][2] # 0
    BY <1>1, <2>1 DEF n
  <2>4. f[i + 1] \in WalkStates
    BY <2>2, <2>3, WalkChainGrows DEF Grown
  <2>5. CASE ~f[i + 1].error
    <3>1. PICK C \in SUBSET (1 .. PageCount) :
            /\ f[i + 1] = With(f[i], C) /\ C \cap f[i].marked = {}
            /\ overflows[i + 1][1] \in C /\ Chained(C) /\ ~f[i].error
      <4>1. PICK x \in WalkStates, o \in Nat \X Nat : x = f[i] /\ o = overflows[i + 1]
        BY <2>2, <2>3
      <4>2. WalkChain(x, o) = f[i + 1] /\ ~WalkChain(x, o).error /\ o[2] # 0
        BY <2>2, <2>3, <2>5, <4>1
      <4>3. \E C \in SUBSET (1 .. PageCount) :
               /\ WalkChain(x, o) = With(x, C) /\ C \cap x.marked = {}
               /\ o[1] \in C /\ Chained(C) /\ ~x.error
        BY <4>2, ChainClosed
      <4>4. QED BY <4>1, <4>2, <4>3, Zenon
    <3>2. PICK B \in SUBSET (1 .. PageCount) : Good(i, B)
      BY <2>2, <3>1
    <3>3. f[i + 1] = With(w, B \cup C) /\ f[i].marked = w.marked \cup B
      <4>1. B \subseteq Nat /\ C \subseteq Nat
        BY PagesFinite
      <4>2. f[i] = With(w, B)
        BY <3>2
      <4>3. f[i + 1] = With(With(w, B), C)
        BY <3>1, <4>2
      <4> HIDE DEF Good
      <4>4. B \in SUBSET Nat /\ C \in SUBSET Nat
        BY <4>1
      <4>5. \A S, U \in SUBSET Nat : With(With(w, S), U) = With(w, S \cup U)
        BY WithTwice, Zenon
      <4>6. With(With(w, B), C) = With(w, B \cup C)
        BY <4>4, <4>5, Zenon
      <4>7. With(w, B).marked = w.marked \cup B
        BY <4>4, Grows
      <4>8. QED BY <4>2, <4>3, <4>6, <4>7
    <3>4. (B \cup C) \cap w.marked = {} /\ Chained(B \cup C)
      BY <3>1, <3>2, <3>3 DEF Chained
    <3>5. \A j \in 1 .. i + 1 : overflows[j][1] \in B \cup C
      <4>1. \A j \in 1 .. i + 1 : j \in 1 .. i \/ j = i + 1
        OBVIOUS
      <4>2. QED BY <3>1, <3>2, <4>1
    <3>6. Good(i + 1, B \cup C) /\ B \cup C \in SUBSET (1 .. PageCount)
      BY <3>3, <3>4, <3>5
    <3> HIDE DEF Good
    <3>7. QED BY <2>4, <3>6
  <2> HIDE DEF Good
  <2>6. QED BY <2>4, <2>5
<1>5. n \in T
  <2> HIDE DEF T
  <2>1. Nat \subseteq T
    BY <1>3, <1>4, SetInduction
  <2>2. QED BY <1>1, <2>1
<1>6. PICK C \in SUBSET (1 .. PageCount) : Good(n, C)
  <2>1. ~f[n].error
    BY <1>2
  <2>2. Claim(n)
    BY <1>1, <1>5
  <2> HIDE DEF Good
  <2>3. QED BY <2>1, <2>2
<1>7. QED BY <1>2, <1>6 DEF n

\* What was marked in the trees, and what is ahead, has all that it names.
Closed(roots, w, T) ==
  /\ \A i \in 1 .. Len(roots) : roots[i] \in T \cup Ahead(w)
  /\ \A p \in T : content[p].kind = "tree" =>
       /\ \A i \in 1 .. Len(content[p].children) : content[p].children[i] \in T \cup Ahead(w)
       /\ \A i \in 1 .. Len(content[p].overflows) : content[p].overflows[i][1] \in T
  /\ \A p \in T : content[p].kind = "chain" => content[p].next \in T \cup {0}

\* A page of the trees was marked on the way along the freelist; since then no marked page
\* was marked again.
Misread(roots, w) ==
  /\ w \in WalkStates
  /\ ~w.error =>
       /\ w.stage # "end"
       /\ w.stage = "free" => /\ w.pending = <<>> /\ w.roots = roots
                              /\ \E p \in w.marked : InTrees(content, p)
       /\ w.stage = "trees" => \E F \in SUBSET w.marked :
                                 /\ \E p \in F : InTrees(content, p)
                                 /\ Closed(roots, w, w.marked \ F)

LEMMA MisreadStarts ==
  ASSUME NEW w, NEW r, Passed(w, r), w.stage = "free", w.pending = <<>>, NEW roots, w.roots = roots,
         InTrees(content, w.trunk)
  PROVE  Misread(roots, r)
BY DEF Passed, Misread

LEMMA TrunkMisread ==
  ASSUME content \in [1 .. PageCount -> Pages], NEW roots \in Seq(Nat), NEW w, Misread(roots, w),
         ~w.error, w.stage = "free"
  PROVE  Misread(roots, WalkTrunk(w))
<1> DEFINE r == WalkTrunk(w)
<1>1. /\ w \in WalkStates /\ w.pending = <<>> /\ w.roots = roots
  BY DEF Misread
<1>0. PICK m \in w.marked : InTrees(content, m)
  BY DEF Misread
<1>2. CASE w.trunk = 0
  <2> DEFINE bad == w.free # header.free
  <2>1. r = [w EXCEPT !.stage = "trees", !.error = bad] /\ bad \in BOOLEAN
    BY <1>2 DEF WalkTrunk
  <2> HIDE DEF r, bad
  <2>2. r \in WalkStates /\ r.stage = "trees" /\ r.marked = w.marked /\ r.roots = w.roots
    BY <1>1, <2>1 DEF WalkStates
  <2>3. Range(r.roots) \subseteq Ahead(r) /\ \A i \in 1 .. Len(roots) : roots[i] \in Range(roots)
    BY DEF Ahead, Range
  <2>4. Closed(roots, r, {})
    BY <1>1, <2>2, <2>3 DEF Closed
  <2>5. r.marked \ r.marked = {}
    OBVIOUS
  <2>6. Closed(roots, r, r.marked \ r.marked) /\ \E p \in r.marked : InTrees(content, p)
    BY <1>0, <2>2, <2>4, <2>5
  <2>7. Misread(roots, r)
    BY <2>2, <2>6 DEF Misread
  <2>8. QED BY <2>7 DEF r
<1>3. CASE w.trunk # 0
  <2>1. (r.error /\ Grown(r, w, {w.trunk})) \/ Passed(w, r)
    BY <1>1, <1>3, TrunkRead
  <2> HIDE DEF r
  <2>2. Misread(roots, r)
    BY <1>0, <1>1, <2>1 DEF Misread, Passed, Grown
  <2>3. QED BY <2>2 DEF r
<1>4. QED BY <1>2, <1>3

\* At the end some page is not marked: nothing that was walked names the pages that were
\* read as trunks.
LEMMA EndMisread ==
  ASSUME NEW roots, Rooted(content, roots), NEW w, Ahead(w) = {}, NEW F \in SUBSET w.marked,
         \E p \in F : InTrees(content, p), Closed(roots, w, w.marked \ F)
  PROVE  w.marked # 1 .. PageCount
<1> SUFFICES ASSUME w.marked = 1 .. PageCount
             PROVE  FALSE
  OBVIOUS
<1> DEFINE S == {p \in F : InTrees(content, p)}
           T == w.marked \ F
<1>1. S \in (SUBSET (1 .. PageCount)) \ {{}} /\ \A p \in S : InTrees(content, p)
  OBVIOUS
<1>2. Entered(content, roots, S)
  BY <1>1 DEF Rooted
<1>3. /\ \A i \in 1 .. Len(roots) : roots[i] \in T
      /\ \A p \in T : content[p].kind = "tree" =>
           /\ \A i \in 1 .. Len(content[p].children) : content[p].children[i] \in T
           /\ \A i \in 1 .. Len(content[p].overflows) : content[p].overflows[i][1] \in T
      /\ \A p \in T : content[p].kind = "chain" => content[p].next \in T \cup {0}
  BY DEF Closed
<1>4. T \cap S = {} /\ 0 \notin S
  OBVIOUS
<1>5. \A q \in (1 .. PageCount) \ S : content[q].kind \in {"tree", "chain"} => q \in T
  BY DEF InTrees
<1> HIDE DEF S, T
<1>6. CASE \E i \in 1 .. Len(roots) : roots[i] \in S
  BY <1>3, <1>4, <1>6
<1>7. ASSUME NEW q \in (1 .. PageCount) \ S, content[q].kind = "tree",
             \/ \E i \in 1 .. Len(content[q].children) : content[q].children[i] \in S
             \/ \E i \in 1 .. Len(content[q].overflows) : content[q].overflows[i][1] \in S
      PROVE  FALSE
  <2>1. q \in T
    BY <1>5, <1>7
  <2>2. QED BY <1>3, <1>4, <1>7, <2>1
<1>8. ASSUME NEW q \in (1 .. PageCount) \ S, content[q].kind = "chain", content[q].next \in S
      PROVE  FALSE
  <2>1. q \in T
    BY <1>5, <1>8
  <2>2. QED BY <1>3, <1>4, <1>8, <2>1
<1>9. QED BY <1>2, <1>6, <1>7, <1>8 DEF Entered

\* A page of a tree that was marked with its overflow chains.
LEMMA ClosedGrows ==
  ASSUME content \in [1 .. PageCount -> Pages], NEW roots, NEW w, NEW r, NEW T,
         NEW page \in 1 .. PageCount, NEW C \in SUBSET (1 .. PageCount),
         Closed(roots, w, T), Chained(C), content[page].kind = "tree",
         Ahead(w) \subseteq {page} \cup Ahead(r),
         \A i \in 1 .. Len(content[page].children) : content[page].children[i] \in Ahead(r),
         \A i \in 1 .. Len(content[page].overflows) : content[page].overflows[i][1] \in C
  PROVE  Closed(roots, r, T \cup ({page} \cup C))
<1> DEFINE D == T \cup ({page} \cup C)
<1>1. T \cup Ahead(w) \subseteq D \cup Ahead(r)
  OBVIOUS
<1>2. ASSUME NEW p \in C
      PROVE  content[p].kind # "tree" /\ (content[p].kind = "chain" => content[p].next \in C \cup {0})
  <2>1. FirstWord(p) \in C \cup {0}
    BY DEF Chained
  <2>2. PageCount + 1 \notin C \cup {0}
    BY FileAssumption
  <2>3. QED BY <2>1, <2>2 DEF FirstWord
<1>3. \A i \in 1 .. Len(roots) : roots[i] \in D \cup Ahead(r)
  BY <1>1 DEF Closed
<1>4. ASSUME NEW p \in D, content[p].kind = "tree"
      PROVE  /\ \A i \in 1 .. Len(content[p].children) : content[p].children[i] \in D \cup Ahead(r)
             /\ \A i \in 1 .. Len(content[p].overflows) : content[p].overflows[i][1] \in D
  <2>1. CASE p \in T
    <3>1. /\ \A i \in 1 .. Len(content[p].children) : content[p].children[i] \in T \cup Ahead(w)
          /\ \A i \in 1 .. Len(content[p].overflows) : content[p].overflows[i][1] \in T
      BY <1>4, <2>1 DEF Closed
    <3>2. QED BY <1>1, <3>1
  <2>2. CASE p = page
    BY <2>2
  <2>3. QED BY <1>2, <1>4, <2>1, <2>2
<1>5. ASSUME NEW p \in D, content[p].kind = "chain"
      PROVE  content[p].next \in D \cup {0}
  <2>1. CASE p \in T
    BY <1>5, <2>1 DEF Closed
  <2>2. CASE p \in C
    BY <1>2, <1>5, <2>2
  <2>3. QED BY <1>5, <2>1, <2>2
<1> HIDE DEF D
<1>6. Closed(roots, r, D)
  BY <1>3, <1>4, <1>5 DEF Closed
<1>7. QED BY <1>6 DEF D

\* The children of a page are ahead, and all that was ahead but the page itself.
LEMMA AheadOfPage ==
  ASSUME NEW w \in WalkStates, w.pending # <<>>, NEW children \in Seq(Nat), NEW d \in Nat,
         NEW r, r.pending = Pushed(w, children, d), r.roots = w.roots
  PROVE  /\ Ahead(w) \subseteq {Head(w.pending)[1]} \cup Ahead(r)
         /\ \A i \in 1 .. Len(children) : children[i] \in Ahead(r)
         /\ r.pending \in Seq(Nat \X Nat)
<1> DEFINE s == w.pending
           k == Len(children)
           n == Len(s)
           pending == r.pending
<1>1. s \in Seq(Nat \X Nat) /\ n \in Nat /\ n > 0 /\ k \in Nat /\ Head(s) = s[1]
  BY DEF WalkStates
<1>2. /\ pending \in Seq(Nat \X Nat) /\ Len(pending) = k + (n - 1)
      /\ \A i \in 1 .. k : pending[i] = <<children[i], d>>
      /\ \A i \in 1 .. n - 1 : pending[k + i] = s[i + 1]
  BY PushedOrder
<1> HIDE DEF s, k, n, pending
<1>3. \A i \in 1 .. Len(pending) : pending[i][1] \in Ahead(r)
  BY DEF Ahead, pending
<1>4. ASSUME NEW i \in 1 .. k
      PROVE  children[i] \in Ahead(r)
  <2>1. i \in 1 .. Len(pending)
    BY <1>1, <1>2
  <2>2. pending[i][1] = children[i]
    BY <1>2
  <2>3. QED BY <1>3, <2>1, <2>2
<1>5. ASSUME NEW j \in 1 .. n
      PROVE  s[j][1] \in {s[1][1]} \cup Ahead(r)
  <2>1. CASE j = 1
    BY <2>1
  <2>2. CASE j # 1
    <3>1. j - 1 \in 1 .. n - 1 /\ (j - 1) + 1 = j /\ k + (j - 1) \in 1 .. Len(pending)
      BY <1>1, <1>2, <2>2
    <3>2. pending[k + (j - 1)] = s[j]
      BY <1>2, <3>1
    <3>3. QED BY <1>3, <3>1, <3>2
  <2>3. QED BY <2>1, <2>2
<1>6. Ahead(w) = {s[j][1] : j \in 1 .. n} \cup Range(w.roots) /\ Range(w.roots) \subseteq Ahead(r)
  BY DEF Ahead, s, n
<1>7. Ahead(w) \subseteq {s[1][1]} \cup Ahead(r)
  BY <1>5, <1>6
<1>8. QED BY <1>1, <1>2, <1>4, <1>7 DEF s, k, pending

LEMMA PageMisread ==
  ASSUME content \in [1 .. PageCount -> Pages], NEW roots \in Seq(Nat), Rooted(content, roots),
         NEW w, Misread(roots, w), ~w.error, w.stage = "trees"
  PROVE  Misread(roots, WalkPage(w))
<1> DEFINE r == WalkPage(w)
<1>1. /\ w \in WalkStates /\ w.roots \in Seq(Nat) /\ w.pending \in Seq(Nat \X Nat)
  BY DEF Misread, WalkStates
<1>0. PICK F \in SUBSET w.marked : (\E p \in F : InTrees(content, p)) /\ Closed(roots, w, w.marked \ F)
  BY DEF Misread
<1>2. CASE w.pending = <<>> /\ w.roots = <<>>
  <2> DEFINE bad == w.marked # 1 .. PageCount
  <2>1. r = [w EXCEPT !.stage = "end", !.error = bad]
    BY <1>2 DEF WalkPage
  <2>2. Ahead(w) = {}
    BY <1>2 DEF Ahead, Range
  <2>3. bad = TRUE
    BY <1>0, <2>2, EndMisread
  <2> HIDE DEF r, bad
  <2>4. r \in WalkStates /\ r.error
    BY <1>1, <2>1, <2>3 DEF WalkStates
  <2>5. Misread(roots, r)
    BY <2>4 DEF Misread
  <2>6. QED BY <2>5 DEF r
<1>3. CASE w.pending = <<>> /\ w.roots # <<>>
  <2> DEFINE begun == <<<<Head(w.roots), 0>>>>
             rest == Tail(w.roots)
  <2>1. r = [w EXCEPT !.pending = begun, !.roots = rest]
    BY <1>3 DEF WalkPage
  <2>2. begun \in Seq(Nat \X Nat) /\ rest \in Seq(Nat)
    <3>1. Head(w.roots) \in Nat
      BY <1>1, <1>3
    <3>2. QED BY <1>1, <1>3, <3>1
  <2> HIDE DEF r, begun, rest
  <2>3. /\ r \in WalkStates /\ r.marked = w.marked /\ r.roots = rest /\ r.pending = begun
        /\ r.stage = "trees"
    BY <1>1, <2>1, <2>2 DEF WalkStates
  <2>4. Ahead(r) = Ahead(w)
    BY <1>1, <1>3, <2>3, RootMoves DEF begun, rest
  <2>5. Closed(roots, r, r.marked \ F)
    BY <1>0, <2>3, <2>4 DEF Closed
  <2>6. Misread(roots, r)
    BY <1>0, <2>3, <2>5 DEF Misread
  <2>7. QED BY <2>6 DEF r
<1>4. CASE w.pending # <<>>
  <2> DEFINE page == Head(w.pending)[1]
             depth == Head(w.pending)[2]
             marked == Mark(w, page)
  <2>1. page \in Nat /\ depth \in Nat
    <3> DEFINE s == w.pending
    <3>1. s \in Seq(Nat \X Nat) /\ s # <<>>
      BY <1>1, <1>4
    <3> HIDE DEF s
    <3>2. Head(s) \in Nat \X Nat
      BY <3>1
    <3>3. QED BY <3>2 DEF s
  <2>2. /\ marked \in WalkStates
        /\ ~marked.error => page \in 1 .. PageCount /\ page \notin w.marked /\ marked = With(w, {page})
    <3> HIDE DEF page
    <3>1. Grown(marked, w, {page})
          /\ (~marked.error => page \in 1 .. PageCount /\ page \notin w.marked /\ marked = With(w, {page}))
      BY <1>1, <2>1, Marking
    <3> HIDE DEF marked
    <3>2. QED BY <3>1 DEF Grown
  <2>3. CASE depth >= MaxDepth \/ marked.error \/ content[page].kind # "tree"
    <3>1. r = [w EXCEPT !.error = TRUE]
      BY <1>4, <2>3, Zenon DEF WalkPage
    <3> HIDE DEF r
    <3>2. r \in WalkStates /\ r.error
      BY <1>1, <3>1 DEF WalkStates
    <3>3. Misread(roots, r)
      BY <3>2 DEF Misread
    <3>4. QED BY <3>3 DEF r
  <2>4. CASE ~(depth >= MaxDepth \/ marked.error \/ content[page].kind # "tree")
    <3> DEFINE children == content[page].children
               overflows == content[page].overflows
               v == WalkChains(marked, overflows)
               pending == Pushed(w, children, depth + 1)
    <3>1. page \in 1 .. PageCount /\ content[page].kind = "tree" /\ page \notin w.marked
          /\ marked = With(w, {page}) /\ marked \in WalkStates
      BY <2>2, <2>4
    <3>2. children \in Seq(Nat) /\ overflows \in Seq(Nat \X Nat)
      <4>1. content[page] \in Pages
        BY <3>1
      <4>2. QED BY <3>1, <4>1, PageKinds
    <3>3. \A i \in 1 .. Len(overflows) : overflows[i][2] # 0
      BY <3>1 DEF Rooted
    <3>4. r = [v EXCEPT !.pending = [i \in DOMAIN children |-> <<children[i], depth + 1>>] \o Tail(@)]
      BY <1>4, <2>4, Zenon DEF WalkPage
    <3>5. /\ Head(w.pending)[1] = page
          /\ Len(children) = Len(content[page].children)
          /\ \A i \in 1 .. Len(content[page].children) : content[page].children[i] = children[i]
          /\ Len(overflows) = Len(content[page].overflows)
          /\ \A i \in 1 .. Len(content[page].overflows) : content[page].overflows[i] = overflows[i]
      OBVIOUS
    <3> HIDE DEF page, depth, r, marked, children, overflows
    <3>6. v \in WalkStates /\ Alike(v, marked)
      BY <3>1, <3>2, WalkChainsGrows DEF Grown
    <3>7. Alike(marked, w) /\ marked.marked = w.marked \cup {page}
      <4>1. {page} \in SUBSET Nat
        BY <2>1
      <4>2. QED BY <1>1, <3>1, <4>1, Grows DEF Grown
    <3>8. /\ v.pending = w.pending /\ v.roots = w.roots /\ v.stage = "trees"
      BY <3>6, <3>7 DEF Alike
    <3>9. depth + 1 \in Nat
      BY <2>1
    <3>10. r = [v EXCEPT !.pending = pending]
      BY <3>4, <3>8 DEF Pushed
    <3>11. pending \in Seq(Nat \X Nat)
      BY <1>1, <1>4, <3>2, <3>9, PushedOrder
    <3> HIDE DEF v, pending
    <3>12. /\ r \in WalkStates /\ r.pending = pending /\ r.roots = w.roots /\ r.error = v.error
           /\ r.marked = v.marked /\ r.stage = "trees"
      BY <3>6, <3>8, <3>10, <3>11 DEF WalkStates
    <3>13. CASE v.error
      <4>1. Misread(roots, r)
        BY <3>12, <3>13 DEF Misread
      <4>2. QED BY <4>1 DEF r
    <3>14. CASE ~v.error
      <4>1. PICK C \in SUBSET (1 .. PageCount) :
              /\ v = With(marked, C) /\ C \cap marked.marked = {} /\ Chained(C)
              /\ \A i \in 1 .. Len(overflows) : overflows[i][1] \in C
        BY <3>1, <3>2, <3>3, <3>14, ChainsClosed DEF v
      <4>2. v.marked = (w.marked \cup {page}) \cup C
        <5>1. C \in SUBSET Nat
          BY PagesFinite
        <5>2. With(marked, C).marked = marked.marked \cup C
          BY <3>1, <5>1, Grows
        <5>3. QED BY <3>7, <4>1, <5>2
      <4>3. /\ Ahead(w) \subseteq {page} \cup Ahead(r)
            /\ \A i \in 1 .. Len(children) : children[i] \in Ahead(r)
        <5>1. PICK e \in Nat : e = depth + 1
          BY <3>9
        <5>2. r.pending = Pushed(w, children, e) /\ r.roots = w.roots
          BY <3>12, <5>1 DEF pending
        <5>3. /\ Ahead(w) \subseteq {Head(w.pending)[1]} \cup Ahead(r)
              /\ \A i \in 1 .. Len(children) : children[i] \in Ahead(r)
          BY <1>1, <1>4, <3>2, <5>2, AheadOfPage, Zenon
        <5>4. QED BY <3>5, <5>3 DEF page
      <4>4. Closed(roots, r, (w.marked \ F) \cup ({page} \cup C))
        <5>1. \A i \in 1 .. Len(content[page].children) : content[page].children[i] \in Ahead(r)
          BY <3>5, <4>3
        <5>2. \A i \in 1 .. Len(content[page].overflows) : content[page].overflows[i][1] \in C
          BY <3>5, <4>1
        <5>3. QED BY <1>0, <3>1, <4>1, <4>3, <5>1, <5>2, ClosedGrows
      <4>5. r.marked \ F = (w.marked \ F) \cup ({page} \cup C) /\ F \in SUBSET r.marked
        BY <3>1, <3>7, <3>12, <4>1, <4>2
      <4>6. Closed(roots, r, r.marked \ F)
        BY <4>4, <4>5
      <4>7. Misread(roots, r)
        BY <1>0, <3>12, <4>5, <4>6 DEF Misread
      <4>8. QED BY <4>7 DEF r
    <3>15. QED BY <3>13, <3>14
  <2>5. QED BY <2>3, <2>4
<1>5. QED BY <1>2, <1>3, <1>4

\* In a sound file nothing is only named from within, and what does not concern the trees
\* may change.
LEMMA RootedStays ==
  ASSUME NEW c, NEW roots, NEW first, Intact(c, roots, first), NEW e,
         \A p \in 1 .. PageCount : e[p].kind = c[p].kind,
         \A p \in 1 .. PageCount : c[p].kind = "tree" => e[p] = c[p],
         \A p \in 1 .. PageCount : c[p].kind = "chain" /\ c[p].next # 0 => e[p] = c[p]
  PROVE  Rooted(e, roots)
<1> DEFINE Q == Pointers(c, roots, first)
<1>1. /\ c \in [1 .. PageCount -> Pages] /\ roots \in Seq(Nat) /\ Reached(Q)
      /\ Reserved \in 1 .. PageCount => c[Reserved] = Blank
      /\ \A p \in Ownable : c[p].kind = "tree" =>
           \A i \in DOMAIN c[p].overflows : ChainFits(c, c[p].overflows[i][1], c[p].overflows[i][2])
  BY DEF Intact
<1>2. \A p \in 1 .. PageCount : c[p].kind \in {"tree", "chain"} => p \in Ownable
  <2>1. Blank.kind = "blank"
    BY DEF Blank
  <2>2. QED BY <1>1, <2>1 DEF Ownable
<1>3. ASSUME NEW S \in (SUBSET (1 .. PageCount)) \ {{}}, \A p \in S : InTrees(e, p)
      PROVE  Entered(e, roots, S)
  <2>1. S \in (SUBSET Ownable) \ {{}} /\ \A p \in S : c[p].kind \in {"tree", "chain"}
    <3>1. \A p \in S : c[p].kind \in {"tree", "chain"}
      BY <1>3 DEF InTrees
    <3>2. QED BY <1>2, <3>1
  <2>2. PICK x \in Q : x[4] \in S /\ x[1] \notin S
    BY <1>1, <2>1 DEF Reached
  <2>3. /\ x[2] \in {"child", "chain"}
        /\ x[1] \in Ownable \cup {0}
    BY <2>1, <2>2, NamedPages
  <2>4. CASE x[1] = 0
    <3>1. x \in Anchors(roots, first)
      BY <2>4, PointersAt
    <3>2. PICK i \in DOMAIN roots : x = <<0, "child", i, roots[i]>>
      BY <2>3, <3>1 DEF Anchors
    <3>3. i \in 1 .. Len(roots) /\ roots[i] \in S
      BY <1>1, <2>2, <3>2
    <3>4. QED BY <3>3 DEF Entered
  <2>5. CASE x[1] # 0
    <3>1. PICK q \in 1 .. PageCount : q = x[1]
      BY <2>3, <2>5 DEF Ownable
    <3>2. q \in (1 .. PageCount) \ S /\ x \in PointersOf(c, q) /\ c[q] \in Pages
      BY <1>1, <2>2, <3>1, PointersAt
    <3>3. CASE c[q].kind = "tree"
      <4>1. e[q] = c[q] /\ e[q].kind = "tree"
        BY <3>3
      <4>2. /\ DOMAIN c[q].children = 1 .. Len(c[q].children)
            /\ DOMAIN c[q].overflows = 1 .. Len(c[q].overflows)
        <5>1. c[q].children \in Seq(Nat) /\ c[q].overflows \in Seq(Nat \X Nat)
          BY <3>2, <3>3, PageKinds
        <5>2. QED BY <5>1
      <4>3. \/ \E i \in DOMAIN c[q].children : x = <<q, "child", i, c[q].children[i]>>
            \/ \E i \in DOMAIN c[q].overflows : x = <<q, "chain", i, c[q].overflows[i][1]>>
        BY <3>2, <3>3 DEF PointersOf
      <4>4. \/ \E i \in 1 .. Len(e[q].children) : e[q].children[i] \in S
            \/ \E i \in 1 .. Len(e[q].overflows) : e[q].overflows[i][1] \in S
        <5>1. CASE \E i \in DOMAIN c[q].children : x = <<q, "child", i, c[q].children[i]>>
          BY <2>2, <4>1, <4>2, <5>1
        <5>2. CASE \E i \in DOMAIN c[q].overflows : x = <<q, "chain", i, c[q].overflows[i][1]>>
          BY <2>2, <4>1, <4>2, <5>2
        <5>3. QED BY <4>3, <5>1, <5>2
      <4>5. QED BY <3>2, <4>1, <4>4 DEF Entered
    <3>4. CASE c[q].kind = "chain"
      <4>1. c[q].next # 0 /\ x = <<q, "chain", 0, c[q].next>>
        BY <3>2, <3>4 DEF PointersOf
      <4>2. e[q] = c[q] /\ e[q].next \in S
        BY <2>2, <3>4, <4>1
      <4>3. QED BY <3>2, <3>4, <4>2 DEF Entered
    <3>5. CASE c[q].kind = "trunk"
      <4>1. x[2] \in {"free", "trunk"}
        BY <3>2, <3>5 DEF PointersOf
      <4>2. QED BY <2>3, <4>1
    <3>6. CASE c[q].kind = "blank"
      BY <3>2, <3>6 DEF PointersOf
    <3>7. QED BY <3>2, <3>3, <3>4, <3>5, <3>6, PageKinds
  <2>6. QED BY <2>4, <2>5
<1>4. ASSUME NEW q \in 1 .. PageCount, e[q].kind = "tree", NEW i \in 1 .. Len(e[q].overflows)
      PROVE  e[q].overflows[i][2] # 0
  <2>1. e[q] = c[q] /\ c[q].kind = "tree" /\ q \in Ownable /\ c[q] \in Pages
    BY <1>1, <1>2, <1>4
  <2>2. i \in DOMAIN c[q].overflows
    <3>1. c[q].overflows \in Seq(Nat \X Nat)
      BY <2>1, PageKinds
    <3>2. QED BY <2>1, <3>1
  <2>3. ChainFits(c, c[q].overflows[i][1], c[q].overflows[i][2])
    BY <1>1, <2>1, <2>2
  <2>4. c[q].overflows[i][2] # 0
    BY <2>3 DEF ChainFits
  <2>5. QED BY <2>1, <2>4
<1>5. QED BY <1>3, <1>4 DEF Rooted

LEMMA GivenRooted ==
  ASSUME NEW c, NEW roots, NEW first, NEW n, NEW level, NEW e, NEW h,
         Given(c, roots, first, n, level, e, h)
  PROVE  Rooted(e, roots)
<1>1. Intact(c, roots, first) /\ NearBy(c, e) /\ c \in [1 .. PageCount -> Pages]
  BY DEF Given, Intact
<1>2. \A p \in 1 .. PageCount : e[p].kind = c[p].kind
  BY <1>1, NearKinds
<1>3. ASSUME NEW p \in 1 .. PageCount
      PROVE  /\ c[p].kind = "tree" => e[p] = c[p]
             /\ c[p].kind = "chain" /\ c[p].next # 0 => e[p] = c[p]
  BY <1>1 DEF NearBy, Stray
<1>4. QED BY <1>1, <1>2, <1>3, RootedStays

-----------------------------------------------------------------------------
(* What becomes of a sound file when one pointer changes.                    *)

\* A pointer of a page is changed.
Onwards(a, b, v) == a.kind \in {"chain", "trunk"} /\ b = [a EXCEPT !.next = v]
Reheaded(a, b, i, v) == b = [a EXCEPT !.overflows[i] = <<v, @[2]>>]
Changed(a, b, v) ==
  \/ /\ a.kind = "tree"
     /\ \/ \E i \in DOMAIN a.children : b = [a EXCEPT !.children[i] = v]
        \/ \E i \in DOMAIN a.overflows : Reheaded(a, b, i, v)
  \/ Onwards(a, b, v)
  \/ a.kind = "trunk" /\ \E i \in DOMAIN a.leaves : b = [a EXCEPT !.leaves[i] = v]

\* One pointer leads elsewhere, or there is one more than before.
Redirected(P, R) == \E x \in P : \A y \in R : (y \in P /\ y # x) \/ y[4] # x[4]
Added(P, R) == P \subseteq R /\ R \ P # {}

LEMMA ChildAstray ==
  ASSUME NEW c \in [1 .. PageCount -> Pages], NEW p \in 1 .. PageCount, NEW v \in Nat, NEW e,
         c[p].kind = "tree", NEW i \in DOMAIN c[p].children,
         e[p] = [c[p] EXCEPT !.children[i] = v], e[p] # c[p]
  PROVE  e[p] \in Pages /\ Redirected(PointersOf(c, p), PointersOf(e, p))
<1> DEFINE a == c[p]
           b == e[p]
           children == a.children
           new == [children EXCEPT ![i] = v]
           x == <<p, "child", i, children[i]>>
<1>1. a \in [kind : {"tree"}, children : Seq(Nat), overflows : Seq(Nat \X Nat)]
  <2>1. a \in Pages
    OBVIOUS
  <2>2. QED BY <2>1 DEF Pages, Blank
<1>2. children \in Seq(Nat)
  BY <1>1
<1>3. new \in Seq(Nat) /\ DOMAIN new = DOMAIN children /\ new[i] = v
      /\ \A j \in DOMAIN children : j # i => new[j] = children[j]
  <2>1. i \in DOMAIN children
    OBVIOUS
  <2> HIDE DEF children
  <2>2. QED BY <1>2, <2>1
<1>4. b = [a EXCEPT !.children = new]
  OBVIOUS
<1> HIDE DEF new
<1>5. b \in Pages /\ b.kind = "tree" /\ b.children = new /\ b.overflows = a.overflows
  <2>1. b \in [kind : {"tree"}, children : Seq(Nat), overflows : Seq(Nat \X Nat)]
        /\ b.children = new /\ b.overflows = a.overflows
    <3> HIDE DEF a, b
    <3>1. QED BY <1>1, <1>3, <1>4
  <2>2. QED BY <2>1 DEF Pages
<1>6. v # children[i]
  <2>1. ASSUME v = children[i]
        PROVE  FALSE
    <3>1. new = children
      <4> HIDE DEF children
      <4>1. QED BY <1>2, <1>3, <2>1
    <3>2. [a EXCEPT !.children = children] = a
      <4> HIDE DEF a
      <4>1. QED BY <1>1
    <3>3. b = a
      BY <1>4, <3>1, <3>2
    <3>4. QED BY <3>3
  <2>2. QED BY <2>1
<1>7. x \in PointersOf(c, p)
  BY DEF PointersOf
<1>8. ASSUME NEW y \in PointersOf(e, p)
      PROVE  (y \in PointersOf(c, p) /\ y # x) \/ y[4] # x[4]
  <2>1. \/ \E j \in DOMAIN new : y = <<p, "child", j, new[j]>>
        \/ \E j \in DOMAIN a.overflows : y = <<p, "chain", j, a.overflows[j][1]>>
    BY <1>5, <1>8 DEF PointersOf
  <2>2. ASSUME NEW j \in DOMAIN a.overflows, y = <<p, "chain", j, a.overflows[j][1]>>
        PROVE  y \in PointersOf(c, p) /\ y # x
    <3>1. y \in PointersOf(c, p)
      BY <2>2 DEF PointersOf
    <3>2. QED BY <2>2, <3>1
  <2>3. ASSUME NEW j \in DOMAIN children, y = <<p, "child", j, new[j]>>, j # i
        PROVE  y \in PointersOf(c, p) /\ y # x
    <3>1. y = <<p, "child", j, children[j]>>
      BY <1>3, <2>3
    <3>2. y \in PointersOf(c, p)
      BY <3>1 DEF PointersOf
    <3>3. QED BY <2>3, <3>1, <3>2
  <2>4. ASSUME y = <<p, "child", i, new[i]>>
        PROVE  y[4] # x[4]
    BY <1>3, <1>6, <2>4
  <2>5. QED BY <1>3, <2>1, <2>2, <2>3, <2>4
<1>9. QED BY <1>5, <1>7, <1>8 DEF Redirected

LEMMA OverflowAstray ==
  ASSUME NEW c \in [1 .. PageCount -> Pages], NEW p \in 1 .. PageCount, NEW v \in Nat, NEW e,
         c[p].kind = "tree", NEW i \in DOMAIN c[p].overflows,
         Reheaded(c[p], e[p], i, v), e[p] # c[p]
  PROVE  e[p] \in Pages /\ Redirected(PointersOf(c, p), PointersOf(e, p))
<1> DEFINE a == c[p]
           b == e[p]
           overflows == a.overflows
           new == [overflows EXCEPT ![i] = <<v, overflows[i][2]>>]
           x == <<p, "chain", i, overflows[i][1]>>
<1>1. a \in [kind : {"tree"}, children : Seq(Nat), overflows : Seq(Nat \X Nat)]
  <2>1. a \in Pages
    OBVIOUS
  <2>2. QED BY <2>1 DEF Pages, Blank
<1>2. overflows \in Seq(Nat \X Nat) /\ overflows[i] \in Nat \X Nat
  <2>1. overflows \in Seq(Nat \X Nat) /\ i \in DOMAIN overflows
    BY <1>1
  <2> HIDE DEF overflows
  <2>2. QED BY <2>1
<1>3. new \in Seq(Nat \X Nat) /\ DOMAIN new = DOMAIN overflows /\ new[i] = <<v, overflows[i][2]>>
      /\ \A j \in DOMAIN overflows : j # i => new[j] = overflows[j]
  <2>1. i \in DOMAIN overflows
    OBVIOUS
  <2> HIDE DEF overflows
  <2>2. <<v, overflows[i][2]>> \in Nat \X Nat
    BY <1>2
  <2>3. QED BY <1>2, <2>1, <2>2
<1>4. b = [a EXCEPT !.overflows = new]
  BY DEF Reheaded
<1> HIDE DEF new
<1>5. b \in Pages /\ b.kind = "tree" /\ b.overflows = new /\ b.children = a.children
  <2>1. b \in [kind : {"tree"}, children : Seq(Nat), overflows : Seq(Nat \X Nat)]
        /\ b.overflows = new /\ b.children = a.children
    <3> HIDE DEF a, b
    <3>1. QED BY <1>1, <1>3, <1>4
  <2>2. QED BY <2>1 DEF Pages
<1>6. v # overflows[i][1]
  <2>1. ASSUME v = overflows[i][1]
        PROVE  FALSE
    <3>0. <<v, overflows[i][2]>> = overflows[i]
      <4> HIDE DEF overflows
      <4>1. QED BY <1>2, <2>1
    <3>1. new = overflows
      <4> HIDE DEF overflows
      <4>1. new = [overflows EXCEPT ![i] = overflows[i]]
        BY <3>0, Zenon DEF new
      <4>2. [overflows EXCEPT ![i] = overflows[i]] = overflows
        BY <1>2
      <4>3. QED BY <4>1, <4>2, Zenon
    <3>2. [a EXCEPT !.overflows = overflows] = a
      <4> HIDE DEF a
      <4>1. QED BY <1>1
    <3>3. b = a
      BY <1>4, <3>1, <3>2
    <3>4. QED BY <3>3
  <2>2. QED BY <2>1
<1>7. x \in PointersOf(c, p)
  BY DEF PointersOf
<1>8. ASSUME NEW y \in PointersOf(e, p)
      PROVE  (y \in PointersOf(c, p) /\ y # x) \/ y[4] # x[4]
  <2>1. \/ \E j \in DOMAIN a.children : y = <<p, "child", j, a.children[j]>>
        \/ \E j \in DOMAIN new : y = <<p, "chain", j, new[j][1]>>
    BY <1>5, <1>8 DEF PointersOf
  <2>2. ASSUME NEW j \in DOMAIN a.children, y = <<p, "child", j, a.children[j]>>
        PROVE  y \in PointersOf(c, p) /\ y # x
    <3>1. y \in PointersOf(c, p)
      BY <2>2 DEF PointersOf
    <3>2. QED BY <2>2, <3>1
  <2>3. ASSUME NEW j \in DOMAIN overflows, y = <<p, "chain", j, new[j][1]>>, j # i
        PROVE  y \in PointersOf(c, p) /\ y # x
    <3>1. y = <<p, "chain", j, overflows[j][1]>>
      BY <1>3, <2>3
    <3>2. y \in PointersOf(c, p)
      BY <3>1 DEF PointersOf
    <3>3. QED BY <2>3, <3>1, <3>2
  <2>4. ASSUME y = <<p, "chain", i, new[i][1]>>
        PROVE  y[4] # x[4]
    <3>1. new[i][1] = v
      BY <1>3
    <3>2. QED BY <1>6, <2>4, <3>1
  <2>5. QED BY <1>3, <2>1, <2>2, <2>3, <2>4
<1>9. QED BY <1>5, <1>7, <1>8 DEF Redirected

LEMMA LeafAstray ==
  ASSUME NEW c \in [1 .. PageCount -> Pages], NEW p \in 1 .. PageCount, NEW v \in Nat, NEW e,
         c[p].kind = "trunk", NEW i \in DOMAIN c[p].leaves,
         e[p] = [c[p] EXCEPT !.leaves[i] = v], e[p] # c[p]
  PROVE  e[p] \in Pages /\ Redirected(PointersOf(c, p), PointersOf(e, p))
<1> DEFINE a == c[p]
           b == e[p]
           leaves == a.leaves
           new == [leaves EXCEPT ![i] = v]
           x == <<p, "free", i, leaves[i]>>
<1>1. a \in [kind : {"trunk"}, next : Nat, leaves : LeafLists]
  <2>1. a \in Pages
    OBVIOUS
  <2>2. QED BY <2>1 DEF Pages, Blank
<1>2. leaves \in Seq(Nat) /\ Len(leaves) <= TrunkSlots
  <2>1. leaves \in LeafLists
    BY <1>1
  <2> HIDE DEF leaves
  <2>2. QED BY <2>1 DEF LeafLists
<1>3. new \in LeafLists /\ new \in Seq(Nat) /\ DOMAIN new = DOMAIN leaves /\ new[i] = v
      /\ \A j \in DOMAIN leaves : j # i => new[j] = leaves[j]
  <2>1. i \in DOMAIN leaves
    OBVIOUS
  <2> HIDE DEF leaves
  <2>2. /\ new \in Seq(Nat) /\ DOMAIN new = DOMAIN leaves /\ new[i] = v
        /\ \A j \in DOMAIN leaves : j # i => new[j] = leaves[j]
    BY <1>2, <2>1
  <2>3. Len(new) = Len(leaves)
    BY <1>2, <2>2
  <2> HIDE DEF new
  <2>4. new \in LeafLists
    BY <1>2, <2>2, <2>3 DEF LeafLists
  <2>5. QED BY <2>2, <2>4
<1>4. b = [a EXCEPT !.leaves = new]
  OBVIOUS
<1> HIDE DEF new
<1>5. b \in Pages /\ b.kind = "trunk" /\ b.leaves = new /\ b.next = a.next
  <2>1. b \in [kind : {"trunk"}, next : Nat, leaves : LeafLists]
        /\ b.leaves = new /\ b.next = a.next
    <3> HIDE DEF a, b
    <3>1. QED BY <1>1, <1>3, <1>4
  <2>2. QED BY <2>1 DEF Pages
<1>6. v # leaves[i]
  <2>1. ASSUME v = leaves[i]
        PROVE  FALSE
    <3>1. new = leaves
      <4> HIDE DEF leaves
      <4>1. QED BY <1>2, <1>3, <2>1
    <3>2. [a EXCEPT !.leaves = leaves] = a
      <4> HIDE DEF a
      <4>1. QED BY <1>1
    <3>3. b = a
      BY <1>4, <3>1, <3>2
    <3>4. QED BY <3>3
  <2>2. QED BY <2>1
<1>7. x \in PointersOf(c, p)
  BY DEF PointersOf
<1>8. ASSUME NEW y \in PointersOf(e, p)
      PROVE  (y \in PointersOf(c, p) /\ y # x) \/ y[4] # x[4]
  <2>1. \/ \E j \in DOMAIN new : y = <<p, "free", j, new[j]>>
        \/ a.next # 0 /\ y = <<p, "trunk", 0, a.next>>
    BY <1>5, <1>8 DEF PointersOf
  <2>2. ASSUME a.next # 0, y = <<p, "trunk", 0, a.next>>
        PROVE  y \in PointersOf(c, p) /\ y # x
    <3>1. y \in PointersOf(c, p)
      BY <2>2 DEF PointersOf
    <3>2. QED BY <2>2, <3>1
  <2>3. ASSUME NEW j \in DOMAIN leaves, y = <<p, "free", j, new[j]>>, j # i
        PROVE  y \in PointersOf(c, p) /\ y # x
    <3>1. y = <<p, "free", j, leaves[j]>>
      BY <1>3, <2>3
    <3>2. y \in PointersOf(c, p)
      BY <3>1 DEF PointersOf
    <3>3. QED BY <2>3, <3>1, <3>2
  <2>4. ASSUME y = <<p, "free", i, new[i]>>
        PROVE  y[4] # x[4]
    BY <1>3, <1>6, <2>4
  <2>5. QED BY <1>3, <2>1, <2>2, <2>3, <2>4
<1>9. QED BY <1>5, <1>7, <1>8 DEF Redirected

LEMMA OnwardAstray ==
  ASSUME NEW c \in [1 .. PageCount -> Pages], NEW p \in 1 .. PageCount, NEW v \in Nat, NEW e,
         Onwards(c[p], e[p], v), e[p] # c[p]
  PROVE  /\ e[p] \in Pages
         /\ \/ Redirected(PointersOf(c, p), PointersOf(e, p))
            \/ Stray(c, e, p) /\ Added(PointersOf(c, p), PointersOf(e, p))
<1> DEFINE a == c[p]
           b == e[p]
           kind == a.kind
           onward == a.next
           old == <<p, kind, 0, onward>>
           new == <<p, kind, 0, v>>
           others == IF kind = "trunk" THEN {<<p, "free", i, a.leaves[i]>> : i \in DOMAIN a.leaves} ELSE {}
<1>1. a \in Pages /\ a.kind \in {"chain", "trunk"} /\ b = [a EXCEPT !.next = v]
  BY Zenon DEF Onwards
<1>2. /\ b \in Pages /\ b.kind = kind /\ b.next = v /\ onward \in Nat
      /\ kind = "trunk" => b.leaves = a.leaves
      /\ v # onward
  <2>1. CASE kind = "chain"
    <3>1. a \in [kind : {"chain"}, next : Nat]
      BY <1>1, <2>1 DEF Pages, Blank
    <3>2. b = [a EXCEPT !.next = v] /\ b # a
      BY <1>1
    <3> HIDE DEF a, b
    <3>3. b \in [kind : {"chain"}, next : Nat] /\ b.next = v /\ v # onward
      BY <3>1, <3>2
    <3>4. QED BY <2>1, <3>1, <3>3 DEF Pages
  <2>2. CASE kind = "trunk"
    <3>1. a \in [kind : {"trunk"}, next : Nat, leaves : LeafLists]
      BY <1>1, <2>2 DEF Pages, Blank
    <3>2. b = [a EXCEPT !.next = v] /\ b # a
      BY <1>1
    <3> HIDE DEF a, b
    <3>3. b \in [kind : {"trunk"}, next : Nat, leaves : LeafLists] /\ b.next = v /\ v # onward
          /\ b.leaves = a.leaves
      BY <3>1, <3>2
    <3>4. QED BY <2>2, <3>1, <3>3 DEF Pages
  <2>3. QED BY <1>1, <2>1, <2>2
<1>3. /\ PointersOf(c, p) = others \cup (IF onward = 0 THEN {} ELSE {old})
      /\ PointersOf(e, p) = others \cup (IF v = 0 THEN {} ELSE {new})
  <2>1. CASE kind = "chain"
    BY <1>2, <2>1 DEF PointersOf
  <2>2. CASE kind = "trunk"
    BY <1>2, <2>2 DEF PointersOf
  <2>3. QED BY <1>1, <2>1, <2>2
<1>4. \A y \in others : y[2] = "free" /\ y # old /\ y # new
  <2>1. ASSUME NEW y \in others
        PROVE  y[2] = "free"
    BY <2>1
  <2>2. old[2] # "free" /\ new[2] # "free"
    BY <1>1
  <2> HIDE DEF others, old, new
  <2>3. QED BY <2>1, <2>2
<1>5. old[4] = onward /\ new[4] = v /\ old # new
  BY <1>2
<1> HIDE DEF others, old, new
<1>6. CASE onward # 0
  <2>1. \A y \in PointersOf(e, p) : (y \in PointersOf(c, p) /\ y # old) \/ y[4] # old[4]
    BY <1>2, <1>3, <1>4, <1>5
  <2>2. old \in PointersOf(c, p)
    BY <1>3, <1>6
  <2>3. QED BY <1>2, <2>1, <2>2 DEF Redirected
<1>7. CASE onward = 0
  <2>1. v # 0
    BY <1>2, <1>7
  <2>2. Stray(c, e, p)
    BY <1>1, <1>7, <2>1 DEF Stray
  <2>3. PointersOf(c, p) \subseteq PointersOf(e, p) /\ new \in PointersOf(e, p) /\ new \notin PointersOf(c, p)
    BY <1>3, <1>4, <1>7, <2>1
  <2>4. QED BY <1>2, <2>2, <2>3 DEF Added
<1>8. QED BY <1>6, <1>7

\* All cases at once.
LEMMA PageAstray ==
  ASSUME NEW c \in [1 .. PageCount -> Pages], NEW p \in 1 .. PageCount, NEW v \in Nat, NEW e,
         Changed(c[p], e[p], v), e[p] # c[p]
  PROVE  /\ e[p] \in Pages
         /\ \/ Redirected(PointersOf(c, p), PointersOf(e, p))
            \/ Stray(c, e, p) /\ Added(PointersOf(c, p), PointersOf(e, p))
<1>1. CASE c[p].kind = "tree" /\ \E i \in DOMAIN c[p].children : e[p] = [c[p] EXCEPT !.children[i] = v]
  BY <1>1, ChildAstray
<1>2. CASE c[p].kind = "tree" /\ \E i \in DOMAIN c[p].overflows :
             Reheaded(c[p], e[p], i, v)
  BY <1>2, OverflowAstray
<1>3. CASE Onwards(c[p], e[p], v)
  BY <1>3, OnwardAstray
<1>4. CASE c[p].kind = "trunk" /\ \E i \in DOMAIN c[p].leaves : e[p] = [c[p] EXCEPT !.leaves[i] = v]
  BY <1>4, LeafAstray
<1>5. QED BY <1>1, <1>2, <1>3, <1>4, Zenon DEF Changed

\* A page that can be owned is named by no pointer.
Orphan(e, roots, first) == \E a \in Ownable : \A x \in Pointers(e, roots, first) : x[4] # a

LEMMA OrphanUnsound ==
  ASSUME NEW e, NEW roots, NEW h, Orphan(e, roots, h.first)
  PROVE  ~Sound(e, roots, h, Ownable)
<1> DEFINE R == Pointers(e, roots, h.first)
<1>1. PICK a \in Ownable : \A x \in R : x[4] # a
  BY DEF Orphan
<1>2. ASSUME Sound(e, roots, h, Ownable)
      PROVE  FALSE
  <2>1. \A p \in Ownable : \E x \in R : \A y \in R : y[4] = p <=> y = x
    BY <1>2, Zenon DEF Sound
  <2> HIDE DEF R
  <2>2. PICK x \in R : \A y \in R : y[4] = a <=> y = x
    BY <1>1, <2>1, Zenon
  <2>3. QED BY <1>1, <2>2, Zenon
<1>3. QED BY <1>2

\* One pointer too many: what it names is named already.
LEMMA AddedUnsound ==
  ASSUME NEW c, NEW roots, NEW first, Intact(c, roots, first), NEW e, NEW h,
         Added(Pointers(c, roots, first), Pointers(e, roots, h.first))
  PROVE  ~Sound(e, roots, h, Ownable)
<1> DEFINE Q == Pointers(c, roots, first)
           R == Pointers(e, roots, h.first)
<1>1. Q \subseteq R
  BY DEF Added
<1>2. PICK x \in R : x \notin Q
  BY DEF Added
<1>3. ASSUME Sound(e, roots, h, Ownable)
      PROVE  FALSE
  <2>1. /\ \A y \in R : y[4] \in Ownable
        /\ \A p \in Ownable : \E y \in R : \A z \in R : z[4] = p <=> z = y
    BY <1>3, Zenon DEF Sound
  <2>2. \A p \in Ownable : \E y \in Q : y[4] = p
    BY Named
  <2> HIDE DEF Q, R
  <2>3. x[4] \in Ownable
    BY <2>1
  <2>4. PICK y \in Q : y[4] = x[4]
    BY <2>2, <2>3
  <2>5. y \in R
    BY <1>1
  <2>6. PICK z \in R : \A u \in R : u[4] = x[4] <=> u = z
    BY <2>1, <2>3, Zenon
  <2>7. x = z /\ y = z
    BY <1>2, <2>4, <2>5, <2>6, Zenon
  <2>8. QED BY <1>2, <2>7
<1>4. QED BY <1>3

\* The pointers of place p are now R and were P; the others are as they were.
Elsewhere(Q, S, P, R, p) ==
  /\ \A x \in Q : x[1] = p <=> x \in P
  /\ \A x \in S : x[1] = p <=> x \in R
  /\ P \subseteq Q /\ R \subseteq S
  /\ \A x : x[1] # p => (x \in Q <=> x \in S)

LEMMA Astray ==
  ASSUME NEW c, NEW roots, NEW first, Intact(c, roots, first), NEW e, NEW h, NEW p, NEW P, NEW R,
         Elsewhere(Pointers(c, roots, first), Pointers(e, roots, h.first), P, R, p)
  PROVE  /\ Redirected(P, R) => Orphan(e, roots, h.first)
         /\ Added(P, R) => Added(Pointers(c, roots, first), Pointers(e, roots, h.first))
<1> DEFINE Q == Pointers(c, roots, first)
           S == Pointers(e, roots, h.first)
<1>1. \A x \in Q : x[4] \in Ownable /\ \A y \in Q : x[4] = y[4] => x = y
  BY NamedPages
<1>2. Elsewhere(Q, S, P, R, p)
  OBVIOUS
<1> HIDE DEF Q, S
<1>3. ASSUME Redirected(P, R)
      PROVE  \E a \in Ownable : \A x \in S : x[4] # a
  <2>1. PICK x \in P : \A y \in R : (y \in P /\ y # x) \/ y[4] # x[4]
    BY <1>3 DEF Redirected
  <2>2. x \in Q /\ x[4] \in Ownable /\ x[1] = p
    BY <1>1, <1>2 DEF Elsewhere
  <2>3. ASSUME NEW y \in S
        PROVE  y[4] # x[4]
    <3>1. CASE y[1] # p
      <4>1. y \in Q /\ y # x
        BY <1>2, <2>2, <3>1 DEF Elsewhere
      <4>2. QED BY <1>1, <2>2, <4>1
    <3>2. CASE y[1] = p
      <4>1. y \in R
        BY <1>2, <3>2 DEF Elsewhere
      <4>2. CASE y \in P /\ y # x
        <5>1. y \in Q
          BY <1>2, <4>2 DEF Elsewhere
        <5>2. QED BY <1>1, <2>2, <4>2, <5>1
      <4>3. QED BY <2>1, <4>1, <4>2
    <3>3. QED BY <3>1, <3>2
  <2>4. QED BY <2>2, <2>3
<1>4. ASSUME Added(P, R)
      PROVE  Added(Q, S)
  <2>1. ASSUME NEW x \in Q
        PROVE  x \in S
    BY <1>2, <1>4 DEF Elsewhere, Added
  <2>2. PICK x \in R : x \notin P
    BY <1>4 DEF Added
  <2>3. x \in S /\ x[1] = p /\ x \notin Q
    BY <1>2, <2>2 DEF Elsewhere
  <2>4. QED BY <2>1, <2>3 DEF Added
<1>5. QED BY <1>3, <1>4 DEF Q, S, Orphan

\* The freelist does not lead into the trees, or the trees are as they were.
Traced(e, roots, first) == Straight(e, first) \/ Rooted(e, roots)

LEMMA ChangedKind ==
  ASSUME NEW a \in Pages, NEW b, NEW v \in Nat, Changed(a, b, v)
  PROVE  b.kind = a.kind
<1>1. CASE a.kind = "tree"
  <2>1. a \in [kind : {"tree"}, children : Seq(Nat), overflows : Seq(Nat \X Nat)]
    BY <1>1 DEF Pages, Blank
  <2>2. QED BY <1>1, <2>1 DEF Changed, Onwards, Reheaded
<1>2. CASE a.kind = "chain"
  <2>1. a \in [kind : {"chain"}, next : Nat]
    BY <1>2 DEF Pages, Blank
  <2>2. QED BY <1>2, <2>1 DEF Changed, Onwards
<1>3. CASE a.kind = "trunk"
  <2>1. a \in [kind : {"trunk"}, next : Nat, leaves : LeafLists]
    BY <1>3 DEF Pages, Blank
  <2>2. QED BY <1>3, <2>1 DEF Changed, Onwards
<1>4. QED BY <1>1, <1>2, <1>3 DEF Changed, Onwards

\* One page is changed: a trunk, and then the trees are as they were, or a page of the trees,
\* and then the freelist is as it was.
LEMMA PageTraced ==
  ASSUME NEW c, NEW roots, NEW first, Intact(c, roots, first),
         NEW p \in 1 .. PageCount, NEW v \in Nat, NEW e,
         \A q \in 1 .. PageCount : q # p => e[q] = c[q], Changed(c[p], e[p], v)
  PROVE  Traced(e, roots, first)
<1>1. c \in [1 .. PageCount -> Pages] /\ first \in Nat
  BY DEF Intact
<1>2. \A q \in 1 .. PageCount : e[q].kind = c[q].kind
  <2>1. c[p] \in Pages
    BY <1>1
  <2>2. e[p].kind = c[p].kind
    BY <2>1, ChangedKind
  <2>3. QED BY <2>2
<1>3. CASE c[p].kind = "trunk"
  <2>1. \A q \in 1 .. PageCount : c[q].kind \in {"tree", "chain"} => e[q] = c[q]
    BY <1>3
  <2>2. QED BY <1>2, <2>1, RootedStays DEF Traced
<1>4. CASE c[p].kind # "trunk"
  <2>1. ~InTrees(e, first)
    BY <1>2, RootTargets DEF InTrees
  <2>2. ASSUME NEW q \in 1 .. PageCount, e[q].kind = "trunk"
        PROVE  ~InTrees(e, e[q].next)
    <3>1. e[q] = c[q] /\ c[q].kind = "trunk"
      BY <1>2, <1>4, <2>2
    <3>2. CASE c[q].next = 0
      BY <3>1, <3>2 DEF InTrees
    <3>3. CASE c[q].next # 0
      <4>1. c[c[q].next].kind = "trunk"
        BY <3>1, <3>3, TrunkTargets
      <4>2. QED BY <1>2, <3>1, <4>1 DEF InTrees
    <3>4. QED BY <3>2, <3>3
  <2>3. QED BY <2>1, <2>2 DEF Traced, Straight
<1>5. QED BY <1>3, <1>4

\* A pointer of a sound file is changed: the file is not sound any more, and either a page
\* is not named at all or what is left is near the file.
Harmed(c, roots, first, n, level, e, g) ==
  /\ e \in [1 .. PageCount -> Pages] /\ g.first \in Nat
  /\ ~Sound(e, roots, g, Ownable) /\ Traced(e, roots, g.first)
  /\ \/ Orphan(e, roots, g.first)
     \/ Given(c, roots, first, n, level, e, g) /\ Differs(c, first, n, e, g)

LEMMA PageHarmed ==
  ASSUME NEW c, NEW roots, NEW first, NEW n, NEW level, NEW h,
         Given(c, roots, first, n, level, c, h), ~Differs(c, first, n, c, h),
         NEW p \in 1 .. PageCount, NEW v \in Nat, NEW e,
         DOMAIN e = 1 .. PageCount, e = [q \in 1 .. PageCount |-> e[q]],
         \A q \in 1 .. PageCount : q # p => e[q] = c[q],
         Changed(c[p], e[p], v), e[p] # c[p]
  PROVE  Harmed(c, roots, first, n, level, e, h)
<1> DEFINE Q == Pointers(c, roots, first)
           S == Pointers(e, roots, first)
           P == PointersOf(c, p)
           R == PointersOf(e, p)
<1>1. /\ Intact(c, roots, first) /\ c \in [1 .. PageCount -> Pages]
      /\ h.first = first /\ h.first \in Nat
  BY DEF Given, Differs
<1>2. e[p] \in Pages /\ (Redirected(P, R) \/ (Stray(c, e, p) /\ Added(P, R)))
  BY <1>1, PageAstray
<1>3. e \in [1 .. PageCount -> Pages]
  <2>1. \A q \in 1 .. PageCount : e[q] \in Pages
    BY <1>1, <1>2
  <2>2. QED BY <2>1
<1>4. Traced(e, roots, h.first)
  BY <1>1, PageTraced
<1>5. Elsewhere(Q, S, P, R, p)
  <2>1. /\ \A x \in Q : x[1] = p <=> x \in P
        /\ \A x \in S : x[1] = p <=> x \in R
        /\ P \subseteq Q /\ R \subseteq S
    BY PointersAt
  <2>2. ASSUME NEW x, x[1] # p
        PROVE  x \in Q <=> x \in S
    <3>1. ASSUME NEW q \in 1 .. PageCount
          PROVE  x \in PointersOf(c, q) <=> x \in PointersOf(e, q)
      <4>1. CASE q = p
        BY <2>2, <4>1, PointersAt
      <4>2. CASE q # p
        <5>1. e[q] = c[q]
          BY <4>2
        <5>2. QED BY <5>1, SamePointers
      <4>3. QED BY <4>1, <4>2
    <3>2. QED BY <3>1, PointersAt
  <2>3. QED BY <2>1, <2>2 DEF Elsewhere
<1> HIDE DEF P, R
<1>6. CASE Redirected(P, R)
  <2>1. Orphan(e, roots, h.first)
    BY <1>1, <1>5, <1>6, Astray
  <2>2. QED BY <1>1, <1>3, <1>4, <2>1, OrphanUnsound DEF Harmed
<1>7. CASE Stray(c, e, p) /\ Added(P, R)
  <2>1. ~Sound(e, roots, h, Ownable)
    BY <1>1, <1>5, <1>7, Astray, AddedUnsound
  <2>2. NearBy(c, e)
    BY <1>7 DEF NearBy
  <2>3. Given(c, roots, first, n, level, e, h)
    BY <1>3, <2>2 DEF Given
  <2>4. Differs(c, first, n, e, h)
    <3>1. e # c
      OBVIOUS
    <3>2. QED BY <3>1 DEF Differs
  <2>5. QED BY <1>1, <1>3, <1>4, <2>1, <2>3, <2>4 DEF Harmed
<1>8. QED BY <1>2, <1>6, <1>7

LEMMA HeaderHarmed ==
  ASSUME NEW c, NEW roots, NEW first, NEW n, NEW level, NEW h,
         Given(c, roots, first, n, level, c, h), ~Differs(c, first, n, c, h),
         NEW g, g.first \in Nat, g.first = first <=> g.free # n
  PROVE  Harmed(c, roots, first, n, level, c, g)
<1> DEFINE Q == Pointers(c, roots, first)
           S == Pointers(c, roots, g.first)
           old == <<0, "trunk", 0, first>>
           new == <<0, "trunk", 0, g.first>>
           others == {<<0, "child", i, roots[i]>> : i \in DOMAIN roots}
           P == Anchors(roots, first)
           R == Anchors(roots, g.first)
<1>1. /\ Intact(c, roots, first) /\ c \in [1 .. PageCount -> Pages] /\ first \in Nat
      /\ n = Cardinality(FreePart(Q)) /\ h.first = first
  BY DEF Given, Differs, Intact
<1>2. Differs(c, first, n, c, g)
  BY DEF Differs
<1>3. Traced(c, roots, g.first)
  BY <1>1, RootedStays DEF Traced
<1>4. CASE g.first = first
  <2>1. Given(c, roots, first, n, level, c, g)
    BY <1>1, <1>4 DEF Given
  <2>2. ASSUME Sound(c, roots, g, Ownable)
        PROVE  FALSE
    <3>1. g.free = Cardinality(FreePart(S))
      BY <2>2, Zenon DEF Sound, FreePart
    <3>2. QED BY <1>1, <1>4, <3>1
  <2>3. QED BY <1>1, <1>2, <1>3, <2>1, <2>2 DEF Harmed
<1>5. CASE g.first # first
  <2>1. Elsewhere(Q, S, P, R, 0)
    <3>1. /\ \A x \in Q : x[1] = 0 <=> x \in P
          /\ \A x \in S : x[1] = 0 <=> x \in R
          /\ P \subseteq Q /\ R \subseteq S
      BY PointersAt
    <3>2. ASSUME NEW x, x[1] # 0
          PROVE  x \in Q <=> x \in S
      BY <3>2, PointersAt
    <3>3. QED BY <3>1, <3>2 DEF Elsewhere
  <2>2. /\ P = others \cup (IF first = 0 THEN {} ELSE {old})
        /\ R = others \cup (IF g.first = 0 THEN {} ELSE {new})
    BY DEF Anchors
  <2>3. \A y \in others : y # old /\ y # new
    <3>1. \A y \in others : y[2] = "child"
      OBVIOUS
    <3>2. old[2] = "trunk" /\ new[2] = "trunk"
      OBVIOUS
    <3> HIDE DEF others, old, new
    <3>3. QED BY <3>1, <3>2
  <2>4. old[4] = first /\ new[4] = g.first
    OBVIOUS
  <2> HIDE DEF Q, S, P, R, others, old, new
  <2>5. CASE first # 0
    <3>1. \A y \in R : (y \in P /\ y # old) \/ y[4] # old[4]
      BY <1>5, <2>2, <2>3, <2>4
    <3>2. old \in P
      BY <2>2, <2>5
    <3>3. Redirected(P, R)
      BY <3>1, <3>2 DEF Redirected
    <3>4. Orphan(c, roots, g.first)
      BY <1>1, <2>1, <3>3, Astray DEF Q, S
    <3>5. QED BY <1>1, <1>3, <3>4, OrphanUnsound DEF Harmed
  <2>6. CASE first = 0
    <3>1. P \subseteq R /\ new \in R /\ new \notin P
      BY <1>5, <2>2, <2>3, <2>6
    <3>2. Added(P, R)
      BY <3>1 DEF Added
    <3>3. ~Sound(c, roots, g, Ownable)
      BY <1>1, <2>1, <3>2, Astray, AddedUnsound DEF Q, S
    <3>4. Given(c, roots, first, n, level, c, g)
      BY <1>1, <2>6 DEF Given, Q
    <3>5. QED BY <1>1, <1>2, <1>3, <3>3, <3>4 DEF Harmed
  <2>7. QED BY <2>5, <2>6
<1>6. QED BY <1>4, <1>5

-----------------------------------------------------------------------------
(* The file as it was written can be followed by the walk.                   *)

\* The pages hold what pages may hold.
Typed(c) == c \in [1 .. PageCount -> Pages]

LEMMA ImageTyped ==
  ASSUME NEW im \in Images
  PROVE  /\ Typed(im.content) /\ im.roots \in Seq(Nat) /\ im.first \in Nat
         /\ Reserved \in 1 .. PageCount => im.content[Reserved] = Blank
<1>1. Left(im)
  BY FileAssumption
<1>2. QED BY <1>1, Zenon DEF Left, Typed

LEMMA TrunkTyped ==
  ASSUME FileAt, Typed(content), WriteTrunk
  PROVE  Typed(content')
<1> DEFINE leaves == SubSeq(unused, 1, Least({TrunkSlots, Len(unused)}))
           rest   == SubSeq(unused, Len(leaves) + 1, Len(unused))
           onward == IF rest = <<>> THEN image.first ELSE Head(rest)
<1>1. /\ written = "trunks" /\ trunk # 0
      /\ content' = [content EXCEPT ![trunk] = Trunk(onward, leaves)]
  BY Zenon DEF WriteTrunk, NextTrunk
<1>2. PICK im \in Images : image = im
  BY FileMeans DEF FileState
<1> DEFINE free == FreePages(im.ranges)
<1>3. PageList(free, im.first) /\ im.first \in Nat
  BY <1>2, ImageList, ImageTyped
<1> HIDE DEF free
<1>4. FileState(im, free, content, header, unused, trunk, counted, written, damaged)
  BY <1>2, FileMeans DEF free
<1>5. /\ Unwritten(im, free, header, unused, trunk, counted, damaged)
      /\ PagesAt(im, free, content, counted)
  BY <1>1, <1>4 DEF FileState, Unwritten
<1>6. unused = SubSeq(free, counted + 2, Len(free)) /\ counted \in Nat
  <2>1. Linked(free, im.first, content, counted)
    BY <1>5 DEF PagesAt
  <2>2. counted \in 0 .. Len(free)
    BY <2>1 DEF Linked
  <2>3. QED BY <1>1, <1>5, <2>2 DEF Unwritten
<1>7. unused \in Seq(Nat)
  <2>1. free \in Seq(Nat)
    BY <1>3 DEF PageList
  <2>2. Len(free) \in Int /\ counted + 2 \in Int /\ \A i \in counted + 2 .. Len(free) : free[i] \in Nat
    BY <1>6, <2>1
  <2>3. Piece(Nat, free, counted + 2, Len(free))
    BY <2>2, PieceOf
  <2>4. QED BY <1>6, <2>3 DEF Piece
<1>8. leaves \in Seq(Nat) /\ Len(leaves) <= TrunkSlots
  <2> DEFINE m == Least({TrunkSlots, Len(unused)})
  <2>1. Len(unused) \in Nat /\ TrunkSlots \in Nat
    BY <1>7, FileAssumption
  <2>2. m = IF TrunkSlots <= Len(unused) THEN TrunkSlots ELSE Len(unused)
    BY <2>1, LeastOfTwo
  <2> HIDE DEF m
  <2>3. m \in Nat /\ m <= TrunkSlots /\ \A i \in 1 .. m : unused[i] \in Nat
    BY <1>7, <2>1, <2>2
  <2>4. Piece(Nat, unused, 1, m)
    BY <2>3, PieceOf
  <2>5. SubSeq(unused, 1, m) \in Seq(Nat) /\ Len(SubSeq(unused, 1, m)) = m
    BY <2>3, <2>4 DEF Piece
  <2>6. QED BY <2>3, <2>5 DEF m
<1> HIDE DEF leaves
<1>9. rest \in Seq(Nat)
  <2> DEFINE l == Len(leaves)
  <2>1. l \in Nat
    BY <1>8
  <2> HIDE DEF l
  <2>2. l + 1 \in Int /\ Len(unused) \in Int /\ \A i \in l + 1 .. Len(unused) : unused[i] \in Nat
    BY <1>7, <2>1
  <2>3. Piece(Nat, unused, l + 1, Len(unused))
    BY <2>2, PieceOf
  <2>4. QED BY <2>3 DEF Piece, l
<1> HIDE DEF rest
<1>10. onward \in Nat
  BY <1>2, <1>3, <1>9
<1> HIDE DEF onward
<1>11. Trunk(onward, leaves) \in Pages
  BY <1>8, <1>10 DEF Trunk, Pages, LeafLists
<1>12. QED BY <1>1, <1>11 DEF Typed

\* A sound file is intact, and its header has the count.
LEMMA SoundIsIntact ==
  ASSUME NEW c, Typed(c), NEW roots \in Seq(Nat), NEW h, h.first \in Nat,
         Reserved \in 1 .. PageCount => c[Reserved] = Blank,
         Sound(c, roots, h, Ownable)
  PROVE  /\ Intact(c, roots, h.first)
         /\ h.free = Cardinality(FreePart(Pointers(c, roots, h.first)))
<1> DEFINE Q == Pointers(c, roots, h.first)
<1>1. /\ \A x \in Q : x[4] \in Ownable /\ Fits(c, x)
      /\ \A p \in Ownable : \E x \in Q : \A y \in Q : y[4] = p <=> y = x
      /\ \A S \in (SUBSET Ownable) \ {{}} : \E x \in Q : x[4] \in S /\ x[1] \notin S
      /\ \A p \in Ownable : c[p].kind = "tree" =>
           \A i \in DOMAIN c[p].overflows :
             ChainFits(c, c[p].overflows[i][1], c[p].overflows[i][2])
      /\ h.free = Cardinality({p \in Ownable : \E x \in Q : x[4] = p /\ x[2] \in {"free", "trunk"}})
  BY Zenon DEF Sound
<1>2. h.free = Cardinality(FreePart(Q))
  BY <1>1, Zenon DEF FreePart
<1>3. Reached(Q)
  BY <1>1, Zenon DEF Reached
<1> HIDE DEF Q
<1>4. NamesOnce(Q)
  <2>1. ASSUME NEW x \in Q, NEW y \in Q, x[4] = y[4]
        PROVE  x = y
    <3>1. PICK z \in Q : \A u \in Q : u[4] = x[4] <=> u = z
      BY <1>1, Zenon
    <3>2. QED BY <2>1, <3>1, Zenon
  <2>2. QED BY <1>1, <2>1 DEF NamesOnce
<1>5. \A p \in Ownable : \E x \in Q : x[4] = p
  <2>1. ASSUME NEW p \in Ownable
        PROVE  \E x \in Q : x[4] = p
    <3>1. PICK z \in Q : \A u \in Q : u[4] = p <=> u = z
      BY <1>1, Zenon
    <3>2. QED BY <3>1, Zenon
  <2>2. QED BY <2>1
<1>6. Intact(c, roots, h.first)
  BY <1>1, <1>3, <1>4, <1>5 DEF Intact, Q, Typed
<1>7. QED BY <1>2, <1>6 DEF Q

\* What the walk can follow: a sound file whose trees are not too deep.
Followed(c, h) ==
  \E first, n, level : /\ Given(c, image.roots, first, n, level, c, h)
                       /\ ~Differs(c, first, n, c, h)

LEMMA WrittenFollowed ==
  ASSUME FileAt, Typed(content), written = "written", ~damaged
  PROVE  Followed(content, header)
<1>1. PICK im \in Images : image = im
  BY FileMeans DEF FileState
<1> DEFINE free == FreePages(im.ranges)
           first == header.first
           n == header.free
<1>2. /\ PageList(free, im.first) /\ Range(free) \subseteq Ownable /\ DOMAIN im.content = 1 .. PageCount
  BY <1>1, ImageList
<1>3. /\ Typed(im.content) /\ im.roots \in Seq(Nat) /\ im.first \in Nat
      /\ Reserved \in 1 .. PageCount => im.content[Reserved] = Blank
  BY ImageTyped
<1> HIDE DEF free
<1>4. FileState(im, free, content, header, unused, trunk, counted, written, damaged)
  BY <1>1, FileMeans DEF free
<1>5. Complete(im, free, header, counted) /\ PagesAt(im, free, content, counted)
  BY <1>4 DEF FileState
<1>6. free \in Seq(Nat) /\ Len(free) \in Nat /\ DOMAIN free = 1 .. Len(free) /\ counted = Len(free)
  BY <1>2, <1>5 DEF PageList, Complete
<1>7. header.first \in Nat
  <2>1. CASE free = <<>>
    BY <1>3, <1>5, <2>1 DEF Complete
  <2>2. CASE free # <<>>
    BY <1>5, <1>6, <2>2 DEF Complete
  <2>3. QED BY <2>1, <2>2
<1>8. \A p \in 1 .. PageCount : p \notin Range(free) => content[p] = im.content[p]
  BY <1>5, <1>6 DEF PagesAt, Range
<1>9. \A p \in Range(free) : content[p].kind \in {"trunk", "blank"}
  <2>1. Linked(free, im.first, content, Len(free))
    BY <1>5, <1>6 DEF PagesAt
  <2>2. QED BY <1>6, <2>1 DEF Linked, Range
<1>10. Reserved \in 1 .. PageCount => content[Reserved] = Blank
  BY <1>2, <1>3, <1>8 DEF Ownable
<1>11. Sound(content, im.roots, header, Ownable)
  BY <1>1, FileIsSound DEF FreelistComplete, OwnershipSound
<1>12. /\ Intact(content, im.roots, first)
       /\ n = Cardinality(FreePart(Pointers(content, im.roots, first)))
  BY <1>3, <1>7, <1>10, <1>11, SoundIsIntact
<1>13. PICK level \in [1 .. PageCount -> 0 .. MaxDepth - 1] :
         /\ \A i \in DOMAIN im.roots : level[im.roots[i]] = 0
         /\ \A p \in 1 .. PageCount : im.content[p].kind = "tree" =>
              \A i \in DOMAIN im.content[p].children :
                level[im.content[p].children[i]] = level[p] + 1
  <2>1. Shallow(im)
    BY ValidationAssumption, Zenon
  <2>2. QED BY <2>1, Zenon DEF Shallow
<1>14. \A i \in 1 .. Len(im.roots) : level[im.roots[i]] = 0
  <2>1. DOMAIN im.roots = 1 .. Len(im.roots)
    BY <1>3
  <2>2. QED BY <1>13, <2>1
<1>15. ASSUME NEW p \in 1 .. PageCount, content[p].kind = "tree"
       PROVE  \A i \in 1 .. Len(content[p].children) : level[content[p].children[i]] = level[p] + 1
  <2>1. p \notin Range(free)
    BY <1>9, <1>15
  <2>2. content[p] = im.content[p]
    BY <1>8, <2>1
  <2>3. content[p].children \in Seq(Nat)
    <3>1. content[p] \in Pages
      BY DEF Typed
    <3>2. QED BY <1>15, <3>1, PageKinds
  <2>4. DOMAIN content[p].children = 1 .. Len(content[p].children)
    BY <2>3
  <2>5. \A i \in DOMAIN content[p].children : level[content[p].children[i]] = level[p] + 1
    BY <1>13, <1>15, <2>2, Zenon
  <2>6. QED BY <2>4, <2>5
<1>16. NearBy(content, content)
  BY DEF NearBy
<1>17. Given(content, im.roots, first, n, level, content, header)
  BY <1>7, <1>12, <1>14, <1>15, <1>16 DEF Given, Typed
<1>18. ~Differs(content, first, n, content, header)
  BY DEF Differs
<1>19. QED BY <1>1, <1>17, <1>18, Zenon DEF Followed

-----------------------------------------------------------------------------
(* Damage, and the walk over what it left.                                   *)

\* The file was sound, and then a pointer was changed.
Struck ==
  \E c, first, n, level : Harmed(c, image.roots, first, n, level, content, header)

LEMMA PageStrikes ==
  ASSUME Typed(content), Followed(content, header), header' = header, image' = image,
         NEW v \in Nat, NEW p \in 1 .. PageCount,
         DOMAIN content' = 1 .. PageCount, content' = [q \in 1 .. PageCount |-> content'[q]],
         \A q \in 1 .. PageCount : q # p => content'[q] = content[q],
         Changed(content[p], content'[p], v), content'[p] # content[p]
  PROVE  Struck'
<1>1. PICK first, n, level : /\ Given(content, image.roots, first, n, level, content, header)
                             /\ ~Differs(content, first, n, content, header)
  BY Zenon DEF Followed
<1>2. PICK c, roots, h, e : c = content /\ roots = image.roots /\ h = header /\ e = content'
  OBVIOUS
<1>3. Given(c, roots, first, n, level, c, h) /\ ~Differs(c, first, n, c, h)
  BY <1>1, <1>2, Zenon
<1>4. /\ DOMAIN e = 1 .. PageCount /\ e = [q \in 1 .. PageCount |-> e[q]]
      /\ \A q \in 1 .. PageCount : q # p => e[q] = c[q]
      /\ Changed(c[p], e[p], v) /\ e[p] # c[p]
  BY <1>2, Zenon
<1>5. Harmed(c, roots, first, n, level, e, h)
  BY <1>3, <1>4, PageHarmed
<1>6. Harmed(c, image'.roots, first, n, level, content', header')
  BY <1>2, <1>5, Zenon
<1>7. QED BY <1>6, Zenon DEF Struck

LEMMA HeaderStrikes ==
  ASSUME Followed(content, header), content' = content, image' = image,
         header'.first \in Nat,
         \A first, n : header.first = first /\ header.free = n =>
           (header'.first = first <=> header'.free # n)
  PROVE  Struck'
<1>1. PICK first, n, level : /\ Given(content, image.roots, first, n, level, content, header)
                             /\ ~Differs(content, first, n, content, header)
  BY Zenon DEF Followed
<1>2. PICK c, roots, h, g : c = content /\ roots = image.roots /\ h = header /\ g = header'
  OBVIOUS
<1>3. Given(c, roots, first, n, level, c, h) /\ ~Differs(c, first, n, c, h)
  BY <1>1, <1>2, Zenon
<1>4. g.first \in Nat /\ (g.first = first <=> g.free # n)
  <2>1. h.first = first /\ h.free = n
    BY <1>3 DEF Differs
  <2>2. QED BY <1>2, <2>1, Zenon
<1>5. Harmed(c, roots, first, n, level, c, g)
  BY <1>3, <1>4, HeaderHarmed
<1>6. Harmed(c, image'.roots, first, n, level, content', header')
  BY <1>2, <1>5, Zenon
<1>7. QED BY <1>6, Zenon DEF Struck

LEMMA DamageStrikes ==
  ASSUME FileAt, Typed(content), Damage
  PROVE  Typed(content') /\ Struck'
<1>1. /\ written = "written" /\ ~damaged /\ image' = image
      /\ <<content, header>>' # <<content, header>>
  BY DEF Damage
<1>2. Followed(content, header)
  BY <1>1, WrittenFollowed
<1>3. header = [first |-> header.first, free |-> header.free]
  BY <1>1, FileMeans, Zenon DEF FileState, Complete
<1>4. PICK v \in Wrong :
       \/ \E p \in 1 .. PageCount :
            /\ \/ /\ content[p].kind = "tree"
                  /\ \/ \E i \in DOMAIN content[p].children :
                          content' = [content EXCEPT ![p].children[i] = v]
                     \/ \E i \in DOMAIN content[p].overflows :
                          content' = [content EXCEPT ![p].overflows[i] = <<v, @[2]>>]
               \/ /\ content[p].kind \in {"chain", "trunk"}
                  /\ content' = [content EXCEPT ![p].next = v]
               \/ /\ content[p].kind = "trunk"
                  /\ \E i \in DOMAIN content[p].leaves :
                       content' = [content EXCEPT ![p].leaves[i] = v]
            /\ UNCHANGED header
       \/ header' = [header EXCEPT !.first = v] /\ UNCHANGED content
       \/ header' = [header EXCEPT !.free = v] /\ UNCHANGED content
  BY DEF Damage
<1>5. v \in Nat
  BY FileAssumption
<1>6. ASSUME NEW p \in 1 .. PageCount, UNCHANGED header, NEW page,
             content' = [content EXCEPT ![p] = page], Changed(content[p], page, v)
      PROVE  Typed(content') /\ Struck'
  <2>1. /\ DOMAIN content' = 1 .. PageCount /\ content' = [q \in 1 .. PageCount |-> content'[q]]
        /\ \A q \in 1 .. PageCount : q # p => content'[q] = content[q]
        /\ content'[p] = page
    BY <1>6 DEF Typed
  <2>2. page # content[p]
    <3>1. ASSUME page = content[p]
          PROVE  FALSE
      <4>1. content' = content
        BY <1>6, <3>1 DEF Typed
      <4>2. QED BY <1>1, <1>6, <4>1
    <3>2. QED BY <3>1
  <2>3. Struck'
    BY <1>1, <1>2, <1>5, <1>6, <2>1, <2>2, PageStrikes
  <2>4. Typed(content')
    BY <2>3, Zenon DEF Struck, Harmed, Typed
  <2>5. QED BY <2>3, <2>4
<1>7. ASSUME UNCHANGED content, header' = [header EXCEPT !.first = v] \/ header' = [header EXCEPT !.free = v]
      PROVE  Typed(content') /\ Struck'
  <2>1. header' # header
    BY <1>1, <1>7
  <2>2. \/ header'.first = v /\ header'.free = header.free /\ v # header.first
        \/ header'.free = v /\ header'.first = header.first /\ v # header.free
    BY <1>3, <1>7, <2>1
  <2>3. header.first \in Nat
    BY <1>2 DEF Followed, Given
  <2>4. header'.first \in Nat /\ (header'.first = header.first <=> header'.free # header.free)
    BY <1>5, <2>2, <2>3
  <2>5. Struck'
    BY <1>1, <1>2, <1>7, <2>4, HeaderStrikes
  <2>6. QED BY <1>7, <2>5
<1>8. CASE header' = header
  <2>1. PICK p \in 1 .. PageCount :
          \/ /\ content[p].kind = "tree"
             /\ \/ \E i \in DOMAIN content[p].children :
                     content' = [content EXCEPT ![p].children[i] = v]
                \/ \E i \in DOMAIN content[p].overflows :
                     content' = [content EXCEPT ![p].overflows[i] = <<v, @[2]>>]
          \/ /\ content[p].kind \in {"chain", "trunk"}
             /\ content' = [content EXCEPT ![p].next = v]
          \/ /\ content[p].kind = "trunk"
             /\ \E i \in DOMAIN content[p].leaves :
                  content' = [content EXCEPT ![p].leaves[i] = v]
    <3>1. content' # content
      BY <1>1, <1>8
    <3>2. QED BY <1>4, <3>1, Zenon
  <2>2. \E page : content' = [content EXCEPT ![p] = page] /\ Changed(content[p], page, v)
    <3>1. ASSUME content[p].kind = "tree", NEW i \in DOMAIN content[p].children,
                 content' = [content EXCEPT ![p].children[i] = v]
          PROVE  \E page : content' = [content EXCEPT ![p] = page] /\ Changed(content[p], page, v)
      <4>1. content' = [content EXCEPT ![p] = [content[p] EXCEPT !.children[i] = v]]
        BY <3>1
      <4>2. Changed(content[p], [content[p] EXCEPT !.children[i] = v], v)
        BY <3>1, Zenon DEF Changed
      <4>3. QED BY <4>1, <4>2, Zenon
    <3>2. ASSUME content[p].kind = "tree", NEW i \in DOMAIN content[p].overflows,
                 content' = [content EXCEPT ![p].overflows[i] = <<v, @[2]>>]
          PROVE  \E page : content' = [content EXCEPT ![p] = page] /\ Changed(content[p], page, v)
      <4>1. content' = [content EXCEPT ![p] = [content[p] EXCEPT !.overflows[i] = <<v, @[2]>>]]
        BY <3>2
      <4>2. Changed(content[p], [content[p] EXCEPT !.overflows[i] = <<v, @[2]>>], v)
        BY <3>2, Zenon DEF Changed, Reheaded
      <4>3. QED BY <4>1, <4>2, Zenon
    <3>3. ASSUME content[p].kind \in {"chain", "trunk"}, content' = [content EXCEPT ![p].next = v]
          PROVE  \E page : content' = [content EXCEPT ![p] = page] /\ Changed(content[p], page, v)
      <4>1. content' = [content EXCEPT ![p] = [content[p] EXCEPT !.next = v]]
        BY <3>3
      <4>2. Changed(content[p], [content[p] EXCEPT !.next = v], v)
        BY <3>3, Zenon DEF Changed, Onwards
      <4>3. QED BY <4>1, <4>2, Zenon
    <3>4. ASSUME content[p].kind = "trunk", NEW i \in DOMAIN content[p].leaves,
                 content' = [content EXCEPT ![p].leaves[i] = v]
          PROVE  \E page : content' = [content EXCEPT ![p] = page] /\ Changed(content[p], page, v)
      <4>1. content' = [content EXCEPT ![p] = [content[p] EXCEPT !.leaves[i] = v]]
        BY <3>4
      <4>2. Changed(content[p], [content[p] EXCEPT !.leaves[i] = v], v)
        BY <3>4, Zenon DEF Changed
      <4>3. QED BY <4>1, <4>2, Zenon
    <3>5. QED BY <2>1, <3>1, <3>2, <3>3, <3>4, Zenon
  <2>3. QED BY <1>6, <1>8, <2>2
<1>9. CASE header' # header
  BY <1>4, <1>7, <1>9
<1>10. QED BY <1>8, <1>9

-----------------------------------------------------------------------------
(* No table is left out of the list of jobs.                                 *)

Holds(s, x) == \E j \in 1 .. Len(s) : s[j] = x

\* Only keeps all members of both.
LEMMA OnlyKeeps ==
  ASSUME NEW A, NEW list \in Seq(A), NEW S
  PROVE  \A x \in S : Holds(list, x) => Holds(Only(list, S), x)
<1> DEFINE n == Len(list)
           only == CHOOSE f : f = [i \in 0 .. Len(list) |-> IF i = 0 THEN <<>>
                         ELSE IF list[i] \in S THEN Append(f[i - 1], list[i]) ELSE f[i - 1]]
<1>1. Only(list, S) = only[n]
  BY DEF Only
<1>2. n \in Nat /\ OnlyUpTo(list, S, n, only)
  <2>1. n \in Nat
    OBVIOUS
  <2>2. PICK f : OnlyUpTo(list, S, n, f)
    <3> HIDE DEF n
    <3>1. QED BY <2>1, OnlyExists
  <2>3. \E g : g = [i \in 0 .. Len(list) |-> IF i = 0 THEN <<>>
                         ELSE IF list[i] \in S THEN Append(g[i - 1], list[i]) ELSE g[i - 1]]
    BY <2>2, Zenon DEF OnlyUpTo
  <2>4. only = [i \in 0 .. Len(list) |-> IF i = 0 THEN <<>>
                         ELSE IF list[i] \in S THEN Append(only[i - 1], list[i]) ELSE only[i - 1]]
    BY <2>3, Zenon
  <2> HIDE DEF only
  <2>5. QED BY <2>1, <2>4, Zenon DEF OnlyUpTo
<1> DEFINE T == {k \in Nat : k <= n => /\ only[k] \in Seq(A)
                                       /\ \A i \in 1 .. k : list[i] \in S => Holds(only[k], list[i])}
<1> HIDE DEF only
<1>3. 0 \in T
  BY <1>2 DEF OnlyUpTo
<1>4. ASSUME NEW k \in Nat, k \in T
      PROVE  k + 1 \in T
  <2> SUFFICES ASSUME k + 1 <= n
               PROVE  /\ only[k + 1] \in Seq(A)
                      /\ \A i \in 1 .. k + 1 : list[i] \in S => Holds(only[k + 1], list[i])
    OBVIOUS
  <2>1. only[k] \in Seq(A) /\ \A i \in 1 .. k : list[i] \in S => Holds(only[k], list[i])
    BY <1>2, <1>4
  <2>2. only[k + 1] = IF list[k + 1] \in S THEN Append(only[k], list[k + 1]) ELSE only[k]
    <3>1. k + 1 \in 0 .. n /\ k + 1 # 0 /\ (k + 1) - 1 = k
      BY <1>2
    <3>2. \A i \in 0 .. n : only[i] = IF i = 0 THEN <<>>
                         ELSE IF list[i] \in S THEN Append(only[i - 1], list[i]) ELSE only[i - 1]
      <4> HIDE DEF n
      <4>1. QED BY <1>2 DEF OnlyUpTo
    <3> HIDE DEF n
    <3>3. QED BY <3>1, <3>2
  <2>3. list[k + 1] \in A
    BY <1>2
  <2>4. /\ only[k + 1] \in Seq(A)
        /\ \A x : Holds(only[k], x) => Holds(only[k + 1], x)
        /\ list[k + 1] \in S => Holds(only[k + 1], list[k + 1])
    <3> DEFINE s == only[k]
               r == only[k + 1]
               y == list[k + 1]
    <3>1. s \in Seq(A) /\ y \in A /\ r = IF y \in S THEN Append(s, y) ELSE s
      BY <2>1, <2>2, <2>3
    <3> HIDE DEF s, r, y
    <3>2. CASE y \in S
      <4>1. /\ r \in Seq(A) /\ Len(r) = Len(s) + 1 /\ Len(s) \in Nat /\ r[Len(s) + 1] = y
            /\ \A j \in 1 .. Len(s) : r[j] = s[j]
        BY <3>1, <3>2
      <4>2. Len(s) + 1 \in 1 .. Len(r) /\ \A j \in 1 .. Len(s) : j \in 1 .. Len(r)
        BY <4>1
      <4>3. QED BY <4>1, <4>2 DEF Holds, s, r, y
    <3>3. CASE y \notin S
      BY <3>1, <3>3 DEF s, r, y
    <3>4. QED BY <3>2, <3>3
  <2>5. \A i \in 1 .. k + 1 : i \in 1 .. k \/ i = k + 1
    OBVIOUS
  <2>6. QED BY <2>1, <2>4, <2>5
<1> HIDE DEF T
<1>5. Nat \subseteq T
  BY <1>3, <1>4, SetInduction
<1>6. \A i \in 1 .. n : list[i] \in S => Holds(only[n], list[i])
  BY <1>2, <1>5 DEF T
<1>7. QED BY <1>1, <1>6 DEF Holds

\* All tables and foreign keys are on the list s.
CheckOf(t)  == [kind |-> "table", table |-> t, plan |-> Native]
VerifyOf(t) == [kind |-> "keys", table |-> t, plan |-> ForeignKeyPlan(t)]
Covers(s) ==
  \A t \in DOMAIN Keys : /\ Holds(s, CheckOf(t))
                         /\ Keys[t] # <<>> => Holds(s, VerifyOf(t))

LEMMA JobsCover ==
  Covers(Jobs)
<1> DEFINE every   == Append(Tables, "sqlite_schema")
           foreign == {t \in DOMAIN Keys : Keys[t] # <<>>}
           hot     == {"edge", "node_property", "edge_property"}
           busy    == {"edge", "node_property"}
           a == CheckJobs(Only(every, hot))
           b == VerifyJobs(Only(every, foreign \cap busy))
           c == VerifyJobs(Only(every, foreign \ busy))
           d == CheckJobs(Only(every, DOMAIN Keys \ hot))
<1>1. every \in Seq(DOMAIN Keys) /\ \A t \in DOMAIN Keys : Holds(every, t)
  <2>1. /\ Tables \in Seq(DOMAIN Keys) /\ "sqlite_schema" \in DOMAIN Keys
        /\ Range(Tables) \cup {"sqlite_schema"} = DOMAIN Keys
    BY ValidationAssumption
  <2>2. /\ every \in Seq(DOMAIN Keys) /\ Len(every) = Len(Tables) + 1 /\ Len(Tables) \in Nat
        /\ every[Len(Tables) + 1] = "sqlite_schema"
        /\ \A i \in 1 .. Len(Tables) : every[i] = Tables[i]
    BY <2>1
  <2> HIDE DEF every
  <2>3. ASSUME NEW t \in DOMAIN Keys
        PROVE  Holds(every, t)
    <3>1. CASE t = "sqlite_schema"
      <4>1. Len(Tables) + 1 \in 1 .. Len(every)
        BY <2>2
      <4>2. QED BY <2>2, <3>1, <4>1 DEF Holds
    <3>2. CASE t \in Range(Tables)
      <4>1. PICK i \in 1 .. Len(Tables) : Tables[i] = t
        BY <2>1, <3>2 DEF Range
      <4>2. i \in 1 .. Len(every)
        BY <2>2
      <4>3. QED BY <2>2, <4>1, <4>2 DEF Holds
    <3>3. QED BY <2>1, <3>1, <3>2
  <2>4. QED BY <2>2, <2>3
<1> HIDE DEF every
<1>2. ASSUME NEW S, NEW t \in DOMAIN Keys, t \in S
      PROVE  /\ Holds(CheckJobs(Only(every, S)), CheckOf(t))
             /\ Holds(VerifyJobs(Only(every, S)), VerifyOf(t))
  <2>1. PICK s : s = Only(every, S)
    OBVIOUS
  <2>2. s \in Seq(DOMAIN Keys \cap S) /\ Holds(s, t)
    BY <1>1, <1>2, <2>1, OnlyMembers, OnlyKeeps
  <2>3. DOMAIN s = 1 .. Len(s) /\ Len(s) \in Nat
    BY <2>2
  <2>4. PICK i \in 1 .. Len(s) : s[i] = t
    BY <2>2 DEF Holds
  <2>5. /\ CheckJobs(s) = [j \in 1 .. Len(s) |-> CheckOf(s[j])]
        /\ VerifyJobs(s) = [j \in 1 .. Len(s) |-> VerifyOf(s[j])]
    BY <2>3 DEF CheckJobs, VerifyJobs, CheckOf, VerifyOf
  <2>6. Len(CheckJobs(s)) = Len(s) /\ Len(VerifyJobs(s)) = Len(s)
    BY <2>3, <2>5
  <2>7. CheckJobs(s)[i] = CheckOf(t) /\ VerifyJobs(s)[i] = VerifyOf(t)
    BY <2>4, <2>5
  <2>8. Holds(CheckJobs(s), CheckOf(t)) /\ Holds(VerifyJobs(s), VerifyOf(t))
    BY <2>6, <2>7 DEF Holds
  <2>9. QED BY <2>1, <2>8
<1>3. ASSUME NEW S
      PROVE  /\ CheckJobs(Only(every, S)) \in Seq({WalkJob} \cup OtherJobs)
             /\ VerifyJobs(Only(every, S)) \in Seq({WalkJob} \cup OtherJobs)
  <2>1. PICK s : s = Only(every, S)
    OBVIOUS
  <2>2. s \in Seq(DOMAIN Keys \cap S)
    BY <1>1, <2>1, OnlyMembers
  <2>3. /\ DOMAIN s = 1 .. Len(s) /\ Len(s) \in Nat
        /\ \A j \in 1 .. Len(s) : s[j] \in DOMAIN Keys
    BY <2>2
  <2>4. /\ CheckJobs(s) = [j \in 1 .. Len(s) |-> CheckOf(s[j])]
        /\ VerifyJobs(s) = [j \in 1 .. Len(s) |-> VerifyOf(s[j])]
    BY <2>3 DEF CheckJobs, VerifyJobs, CheckOf, VerifyOf
  <2>5. \A t \in DOMAIN Keys : CheckOf(t) \in OtherJobs /\ VerifyOf(t) \in OtherJobs
    BY DEF CheckOf, VerifyOf, OtherJobs
  <2>6. PICK B : B = {WalkJob} \cup OtherJobs
    OBVIOUS
  <2>7. \A j \in 1 .. Len(s) : CheckOf(s[j]) \in B /\ VerifyOf(s[j]) \in B
    BY <2>3, <2>5, <2>6
  <2>8. CheckJobs(s) \in Seq(B) /\ VerifyJobs(s) \in Seq(B)
    BY <2>3, <2>4, <2>7
  <2>9. QED BY <2>1, <2>6, <2>8
<1>4. Jobs = <<WalkJob>> \o a \o b \o c \o d
  BY DEF Jobs, every
<1>5. PICK B : B = {WalkJob} \cup OtherJobs
  OBVIOUS
<1>6. <<WalkJob>> \in Seq(B) /\ a \in Seq(B) /\ b \in Seq(B) /\ c \in Seq(B) /\ d \in Seq(B)
  <2>1. WalkJob \in B
    BY <1>5
  <2>2. a \in Seq(B) /\ b \in Seq(B) /\ c \in Seq(B) /\ d \in Seq(B)
    BY <1>3, <1>5, Zenon
  <2>3. QED BY <2>1, <2>2
<1>7. ASSUME NEW t \in DOMAIN Keys
      PROVE  /\ Holds(a, CheckOf(t)) \/ Holds(d, CheckOf(t))
             /\ Keys[t] # <<>> => Holds(b, VerifyOf(t)) \/ Holds(c, VerifyOf(t))
  <2>1. t \in hot \/ t \in DOMAIN Keys \ hot
    OBVIOUS
  <2>2. Keys[t] # <<>> => t \in foreign \cap busy \/ t \in foreign \ busy
    OBVIOUS
  <2> HIDE DEF hot, foreign, busy
  <2>3. QED BY <1>2, <2>1, <2>2, Zenon
<1> HIDE DEF a, b, c, d
<1>8. \A s, r \in Seq(B) : /\ s \o r \in Seq(B)
                            /\ \A x : Holds(s, x) \/ Holds(r, x) => Holds(s \o r, x)
  <2> SUFFICES ASSUME NEW s \in Seq(B), NEW r \in Seq(B), NEW x
               PROVE  s \o r \in Seq(B) /\ (Holds(s, x) \/ Holds(r, x) => Holds(s \o r, x))
    OBVIOUS
  <2>1. /\ s \o r \in Seq(B) /\ Len(s \o r) = Len(s) + Len(r)
        /\ \A i \in 1 .. Len(s) + Len(r) : (s \o r)[i] = IF i <= Len(s) THEN s[i] ELSE r[i - Len(s)]
    BY ConcatProperties, Zenon
  <2> DEFINE u == s \o r
  <2> HIDE DEF u
  <2>2. Len(s) \in Nat /\ Len(r) \in Nat /\ Len(u) = Len(s) + Len(r)
    BY <2>1 DEF u
  <2>3. ASSUME Holds(s, x)
        PROVE  Holds(u, x)
    <3>1. PICK i \in 1 .. Len(s) : s[i] = x
      BY <2>3 DEF Holds
    <3>2. i \in 1 .. Len(u) /\ u[i] = x
      BY <2>1, <2>2, <3>1 DEF u
    <3>3. QED BY <3>2 DEF Holds
  <2>4. ASSUME Holds(r, x)
        PROVE  Holds(u, x)
    <3>1. PICK i \in 1 .. Len(r) : r[i] = x
      BY <2>4 DEF Holds
    <3>2. Len(s) + i \in 1 .. Len(s) + Len(r) /\ ~(Len(s) + i <= Len(s)) /\ Len(s) + i - Len(s) = i
      BY <2>2
    <3>3. u[Len(s) + i] = x
      BY <2>1, <3>1, <3>2 DEF u
    <3>4. QED BY <2>2, <3>2, <3>3 DEF Holds
  <2>5. QED BY <2>1, <2>3, <2>4 DEF u
<1>9. \A x : Holds(a, x) \/ Holds(b, x) \/ Holds(c, x) \/ Holds(d, x) => Holds(Jobs, x)
  <2> DEFINE s1 == <<WalkJob>> \o a
             s2 == s1 \o b
             s3 == s2 \o c
             s4 == s3 \o d
  <2>1. Jobs = s4
    BY <1>4
  <2>2. s1 \in Seq(B) /\ \A x : Holds(a, x) => Holds(s1, x)
    BY <1>6, <1>8, Zenon
  <2> HIDE DEF s1
  <2>3. s2 \in Seq(B) /\ \A x : Holds(s1, x) \/ Holds(b, x) => Holds(s2, x)
    BY <1>6, <1>8, <2>2, Zenon
  <2> HIDE DEF s2
  <2>4. s3 \in Seq(B) /\ \A x : Holds(s2, x) \/ Holds(c, x) => Holds(s3, x)
    BY <1>6, <1>8, <2>3, Zenon
  <2> HIDE DEF s3
  <2>5. \A x : Holds(s3, x) \/ Holds(d, x) => Holds(s4, x)
    BY <1>6, <1>8, <2>4, Zenon
  <2> HIDE DEF s4
  <2>6. QED BY <2>1, <2>2, <2>3, <2>4, <2>5, Zenon
<1>10. QED BY <1>7, <1>9, Zenon DEF Covers

-----------------------------------------------------------------------------
(* The walk of the workers.                                                  *)

\* The walk misses a page that no pointer names, it took a page of the trees for one of the
\* freelist, or it follows a file, and damage is where the two differ.
Reading(w) ==
  \/ /\ damaged /\ Traced(content, image.roots, header.first)
     /\ \E a : Unnamed(a) /\ Missed(a, w)
  \/ damaged /\ Rooted(content, image.roots) /\ Misread(image.roots, w)
  \/ \E c, first, n, level :
       /\ Given(c, image.roots, first, n, level, content, header)
       /\ damaged <=> Differs(c, first, n, content, header)
       /\ Trail(c, image.roots, first, n, level, content, header, w)

\* The file while it is checked, and what the walk has seen of it.
FollowInv ==
  /\ FileAt /\ Typed(content) /\ (damaged => Struck)
  /\ phase # "file" => written = "written"
  /\ next > 1 => Reading(walk)

LEMMA RootsTyped ==
  ASSUME FileAt
  PROVE  image.roots \in Seq(Nat)
<1>1. PICK im \in Images : image = im
  BY FileMeans DEF FileState
<1>2. QED BY <1>1, ImageTyped

LEMMA StruckMeans ==
  ASSUME Struck
  PROVE  /\ Typed(content) /\ header.first \in Nat /\ ~OwnershipSound
         /\ Traced(content, image.roots, header.first)
         /\ \/ \E a : Unnamed(a)
            \/ \E c, first, n, level :
                 /\ Given(c, image.roots, first, n, level, content, header)
                 /\ Differs(c, first, n, content, header)
<1>1. PICK c, first, n, level : Harmed(c, image.roots, first, n, level, content, header)
  BY Zenon DEF Struck
<1>2. /\ Typed(content) /\ header.first \in Nat
      /\ ~Sound(content, image.roots, header, Ownable)
      /\ Traced(content, image.roots, header.first)
      /\ \/ Orphan(content, image.roots, header.first)
         \/ Given(c, image.roots, first, n, level, content, header) /\ Differs(c, first, n, content, header)
  BY <1>1, Zenon DEF Harmed, Typed
<1>3. Orphan(content, image.roots, header.first) => \E a : Unnamed(a)
  BY Zenon DEF Orphan, Unnamed
<1>4. QED BY <1>2, <1>3, Zenon DEF OwnershipSound

LEMMA StartRead ==
  ASSUME FileAt, Typed(content), damaged => Struck, written = "written"
  PROVE  Reading(StartWalk)
<1>1. image.roots \in Seq(Nat)
  BY RootsTyped
<1>2. ASSUME NEW c, NEW first, NEW n, NEW level,
             Given(c, image.roots, first, n, level, content, header),
             damaged <=> Differs(c, first, n, content, header)
      PROVE  Reading(StartWalk)
  <2>1. PICK roots : roots = image.roots
    OBVIOUS
  <2>2. Given(c, roots, first, n, level, content, header)
    BY <1>2, <2>1, Zenon
  <2>3. Trail(c, roots, first, n, level, content, header, StartWalk)
    BY <2>1, <2>2, StartWalked
  <2>4. QED BY <1>2, <2>1, <2>3, Zenon DEF Reading
<1>3. CASE damaged
  <2>1. /\ header.first \in Nat /\ Traced(content, image.roots, header.first)
        /\ \/ \E a : Unnamed(a)
           \/ \E c, first, n, level :
                /\ Given(c, image.roots, first, n, level, content, header)
                /\ Differs(c, first, n, content, header)
    BY <1>3, StruckMeans, Zenon
  <2>2. CASE \E a : Unnamed(a)
    <3>1. PICK a : Unnamed(a)
      BY <2>2
    <3>2. Missed(a, StartWalk)
      BY <1>1, <2>1, <3>1, StartMissed DEF Typed
    <3>3. QED BY <1>3, <2>1, <3>1, <3>2, Zenon DEF Reading
  <2>3. CASE \E c, first, n, level :
               /\ Given(c, image.roots, first, n, level, content, header)
               /\ Differs(c, first, n, content, header)
    BY <1>2, <1>3, <2>3, Zenon
  <2>4. QED BY <2>1, <2>2, <2>3, Zenon
<1>4. CASE ~damaged
  <2>1. PICK first, n, level : /\ Given(content, image.roots, first, n, level, content, header)
                               /\ ~Differs(content, first, n, content, header)
    BY <1>4, WrittenFollowed, Zenon DEF Followed
  <2>2. PICK c : c = content
    OBVIOUS
  <2>3. Given(c, image.roots, first, n, level, content, header)
        /\ ~Differs(c, first, n, content, header)
    BY <2>1, <2>2, Zenon
  <2>4. QED BY <1>2, <1>4, <2>3, Zenon
<1>5. QED BY <1>3, <1>4

LEMMA StepRead ==
  ASSUME FileAt, Typed(content), Reading(walk), ~walk.error, walk.stage # "end", NEW r,
         r = IF walk.stage = "free" THEN WalkTrunk(walk) ELSE WalkPage(walk)
  PROVE  Reading(r)
<1>1. image.roots \in Seq(Nat)
  BY RootsTyped
<1>2. PICK w, roots : w = walk /\ roots = image.roots
  OBVIOUS
<1>3. ~w.error /\ w.stage # "end" /\ r = IF w.stage = "free" THEN WalkTrunk(w) ELSE WalkPage(w)
  BY <1>2, Zenon
<1>4. ASSUME damaged, Traced(content, roots, header.first), NEW a, Unnamed(a), Missed(a, w)
      PROVE  Reading(r)
  <2>1. /\ w.stage \in {"free", "trees", "end"}
        /\ w.stage = "free" => w.pending = <<>> /\ w.roots = roots
        /\ Straight(content, header.first) => ~InTrees(content, w.trunk)
    BY <1>2, <1>4 DEF Missed, WalkStates
  <2>2. CASE w.stage = "free"
    <3>1. r = WalkTrunk(w)
      BY <1>3, <2>2
    <3>2. \/ Missed(a, WalkTrunk(w))
          \/ Passed(w, WalkTrunk(w)) /\ InTrees(content, w.trunk)
      BY <1>1, <1>3, <1>4, <2>2, TrunkMissed DEF Typed
    <3>3. CASE Missed(a, r)
      BY <1>2, <1>4, <3>3, Zenon DEF Reading
    <3>4. CASE Passed(w, r) /\ InTrees(content, w.trunk)
      <4>1. Misread(roots, r)
        BY <2>1, <2>2, <3>4, MisreadStarts
      <4>2. Rooted(content, roots)
        BY <1>4, <2>1, <3>4 DEF Traced
      <4>3. QED BY <1>2, <1>4, <4>1, <4>2, Zenon DEF Reading
    <3>5. QED BY <3>1, <3>2, <3>3, <3>4
  <2>3. CASE w.stage = "trees"
    <3>1. Missed(a, WalkPage(w))
      BY <1>1, <1>3, <1>4, <2>3, PageMissed DEF Typed
    <3>2. w.stage # "free"
      BY <2>3
    <3>3. QED BY <1>2, <1>3, <1>4, <3>1, <3>2, Zenon DEF Reading
  <2>4. QED BY <1>3, <2>1, <2>2, <2>3
<1>5. ASSUME damaged, Rooted(content, roots), Misread(roots, w)
      PROVE  Reading(r)
  <2>1. roots \in Seq(Nat) /\ w.stage \in {"free", "trees", "end"}
    BY <1>1, <1>2, <1>5 DEF Misread, WalkStates
  <2>2. Misread(roots, r)
    <3>1. CASE w.stage = "free"
      <4>1. Misread(roots, WalkTrunk(w))
        BY <1>3, <1>5, <2>1, <3>1, TrunkMisread DEF Typed
      <4>2. QED BY <1>3, <3>1, <4>1, Zenon
    <3>2. CASE w.stage = "trees"
      <4>1. Misread(roots, WalkPage(w))
        BY <1>3, <1>5, <2>1, <3>2, PageMisread DEF Typed
      <4>2. w.stage # "free"
        BY <3>2
      <4>3. QED BY <1>3, <4>1, <4>2, Zenon
    <3>3. QED BY <1>3, <2>1, <3>1, <3>2
  <2>3. QED BY <1>2, <1>5, <2>2, Zenon DEF Reading
<1>6. ASSUME NEW c, NEW first, NEW n, NEW level,
             Given(c, roots, first, n, level, content, header),
             damaged <=> Differs(c, first, n, content, header),
             Trail(c, roots, first, n, level, content, header, w)
      PROVE  Reading(r)
  <2>1. w.stage \in {"free", "trees", "end"}
    BY <1>6 DEF Trail, WalkStates
  <2>2. ASSUME Trail(c, roots, first, n, level, content, header, r)
        PROVE  Reading(r)
    BY <1>2, <1>6, <2>2, Zenon DEF Reading
  <2>3. CASE w.stage = "free"
    <3>1. r = WalkTrunk(w)
      BY <1>3, <2>3
    <3>2. \/ Trail(c, roots, first, n, level, content, header, WalkTrunk(w))
          \/ /\ Passed(w, WalkTrunk(w)) /\ InTrees(content, w.trunk)
             /\ w.pending = <<>> /\ w.roots = roots /\ Differs(c, first, n, content, header)
      BY <1>3, <1>6, <2>3, TrunkKept
    <3>3. CASE /\ Passed(w, r) /\ InTrees(content, w.trunk)
               /\ w.pending = <<>> /\ w.roots = roots /\ Differs(c, first, n, content, header)
      <4>1. Misread(roots, r)
        BY <2>3, <3>3, MisreadStarts
      <4>2. Rooted(content, roots)
        BY <1>6, GivenRooted
      <4>3. QED BY <1>2, <1>6, <3>3, <4>1, <4>2, Zenon DEF Reading
    <3>4. QED BY <2>2, <3>1, <3>2, <3>3
  <2>4. CASE w.stage = "trees"
    <3>1. Trail(c, roots, first, n, level, content, header, WalkPage(w))
      BY <1>3, <1>6, <2>4, PageKept
    <3>2. r = WalkPage(w)
      BY <1>3, <2>4
    <3>3. QED BY <2>2, <3>1, <3>2, Zenon
  <2>5. QED BY <1>3, <2>1, <2>3, <2>4
<1>7. QED BY <1>2, <1>4, <1>5, <1>6, Zenon DEF Reading

\* What the walk has found when the file does not change.
LEMMA ReadNext ==
  ASSUME UNCHANGED <<image, content, header, damaged>>, NEW w, walk' = w, Reading(w)
  PROVE  Reading(walk)'
<1>1. CASE /\ damaged /\ Traced(content, image.roots, header.first)
           /\ \E a : Unnamed(a) /\ Missed(a, w)
  <2>1. PICK a : Unnamed(a) /\ Missed(a, w)
    BY <1>1
  <2>2. Unnamed(a)'
    BY <2>1 DEF Unnamed
  <2>3. Missed(a, walk)'
    <3>1. image' = image /\ content' = content /\ header' = header /\ walk' = w
      OBVIOUS
    <3>2. Missed(a, w)
      BY <2>1
    <3>3. QED BY <3>1, <3>2 DEF Missed, Straight
  <2>4. damaged' /\ Traced(content', image'.roots, header'.first)
    BY <1>1
  <2>5. QED BY <2>2, <2>3, <2>4, Zenon DEF Reading
<1>2. CASE damaged /\ Rooted(content, image.roots) /\ Misread(image.roots, w)
  <2>1. damaged' /\ Rooted(content', image'.roots)
    BY <1>2
  <2>2. image' = image /\ content' = content /\ walk' = w
    OBVIOUS
  <2>3. ASSUME NEW F, Closed(image.roots, w, w.marked \ F)
        PROVE  Closed(image.roots, walk, walk.marked \ F)'
    BY <2>2, <2>3 DEF Closed, Ahead
  <2>4. Misread(image.roots, walk)'
    <3>1. w \in WalkStates /\ (~w.error => w.stage # "end")
      BY <1>2 DEF Misread
    <3>2. ~w.error /\ w.stage = "free" => /\ w.pending = <<>> /\ w.roots = image.roots
                                          /\ \E p \in w.marked : InTrees(content, p)
      BY <1>2 DEF Misread
    <3>3. ASSUME ~w.error, w.stage = "trees"
          PROVE  \E F \in SUBSET walk'.marked : /\ \E p \in F : InTrees(content', p)
                                                /\ Closed(image.roots, walk, walk.marked \ F)'
      <4>1. PICK F \in SUBSET w.marked : /\ \E p \in F : InTrees(content, p)
                                         /\ Closed(image.roots, w, w.marked \ F)
        BY <1>2, <3>3 DEF Misread
      <4>2. Closed(image.roots, walk, walk.marked \ F)'
        BY <2>3, <4>1
      <4>3. QED BY <2>2, <4>1, <4>2
    <3>4. QED BY <2>2, <3>1, <3>2, <3>3 DEF Misread
  <2>5. QED BY <2>1, <2>4, Zenon DEF Reading
<1>3. CASE \E c, first, n, level :
             /\ Given(c, image.roots, first, n, level, content, header)
             /\ damaged <=> Differs(c, first, n, content, header)
             /\ Trail(c, image.roots, first, n, level, content, header, w)
  <2>1. PICK c, first, n, level :
          /\ Given(c, image.roots, first, n, level, content, header)
          /\ damaged <=> Differs(c, first, n, content, header)
          /\ Trail(c, image.roots, first, n, level, content, header, w)
    BY <1>3, Zenon
  <2>2. /\ image' = image /\ content' = content /\ header' = header /\ damaged' = damaged
    OBVIOUS
  <2>3. /\ Given(c, image'.roots, first, n, level, content', header')
        /\ Trail(c, image'.roots, first, n, level, content', header', walk')
        /\ Differs(c, first, n, content', header') = Differs(c, first, n, content, header)
    BY <2>1, <2>2, Zenon
  <2>4. damaged' <=> Differs(c, first, n, content', header')
    BY <2>1, <2>2, <2>3
  <2>5. QED BY <2>3, <2>4, Zenon DEF Reading
<1>4. QED BY <1>1, <1>3, <1>2, Zenon DEF Reading

LEMMA StruckStays ==
  ASSUME damaged => Struck, UNCHANGED <<image, content, header, damaged>>
  PROVE  damaged' => Struck'
<1>1. ASSUME damaged
      PROVE  Struck'
  <2>1. PICK c, first, n, level : Harmed(c, image.roots, first, n, level, content, header)
    BY <1>1, Zenon DEF Struck
  <2>2. image' = image /\ content' = content /\ header' = header
    OBVIOUS
  <2>3. Harmed(c, image'.roots, first, n, level, content', header')
    BY <2>1, <2>2, Zenon
  <2>4. QED BY <2>3, Zenon DEF Struck
<1>2. QED BY <1>1

\* Steps that change neither the file nor the walk.
LEMMA FollowStays ==
  ASSUME FollowInv, FileAt', UNCHANGED <<image, content, header, written, damaged, next, walk>>,
         phase' # "file" => written = "written"
  PROVE  FollowInv'
<1>1. Typed(content')
  BY DEF FollowInv
<1>2. damaged' => Struck'
  BY StruckStays DEF FollowInv
<1>3. next' > 1 => Reading(walk)'
  <2>1. ASSUME next > 1
        PROVE  Reading(walk)'
    <3>1. PICK w : w = walk
      OBVIOUS
    <3>2. Reading(w) /\ walk' = w
      BY <2>1, <3>1, Zenon DEF FollowInv
    <3>3. QED BY <3>2, ReadNext
  <2>2. QED BY <2>1
<1>4. QED BY <1>1, <1>2, <1>3 DEF FollowInv

LEMMA FollowStarts ==
  Init => FollowInv
<1> SUFFICES ASSUME Init
             PROVE  FollowInv
  OBVIOUS
<1>1. /\ FileInit /\ phase = "file" /\ next = 1
  BY DEF Init
<1>2. image \in Images /\ content = image.content /\ damaged = FALSE
  BY <1>1 DEF FileInit
<1>3. Typed(content)
  <2>1. PICK im \in Images : image = im
    BY <1>2
  <2>2. QED BY <1>2, <2>1, ImageTyped
<1>4. QED BY <1>1, <1>2, <1>3, FileStart DEF FollowInv

LEMMA FollowKept ==
  ASSUME ValidationInv, FollowInv, [Next]_vars
  PROVE  FollowInv'
<1>1. FileAt /\ FileAt' /\ Typed(content) /\ (damaged => Struck)
  BY FileKept DEF FollowInv
<1>2. /\ ListAt /\ Shape(phase, jobs, next, pc, job, failed, broken, verdict)
  BY TakenMeans DEF ValidationInv
<1>3. CASE Write
  <2>1. /\ phase = "file" /\ (StartTrunks \/ WriteTrunk)
        /\ phase' = phase /\ next' = next
    BY <1>3 DEF Write, checkVars
  <2>2. written = "trunks" /\ damaged' = damaged
    BY <2>1 DEF StartTrunks, WriteTrunk
  <2>3. ~damaged'
    <3>1. ~damaged
      BY <1>1, <2>2, FileMeans, Zenon DEF FileState, Unwritten
    <3>2. QED BY <2>2, <3>1
  <2>4. Typed(content')
    <3>1. CASE StartTrunks
      <4>1. content' = content
        BY <3>1 DEF StartTrunks
      <4>2. QED BY <1>1, <4>1
    <3>2. CASE WriteTrunk
      BY <1>1, <3>2, TrunkTyped
    <3>3. QED BY <2>1, <3>1, <3>2
  <2>5. next' = 1
    BY <1>2, <2>1 DEF Shape
  <2>6. QED BY <1>1, <2>1, <2>3, <2>4, <2>5 DEF FollowInv
<1>4. CASE Harm
  <2>1. phase = "file" /\ Damage /\ phase' = phase /\ next' = next
    BY <1>4 DEF Harm, checkVars
  <2>2. Typed(content') /\ Struck'
    BY <1>1, <2>1, DamageStrikes
  <2>3. next' = 1
    BY <1>2, <2>1 DEF Shape
  <2>4. QED BY <1>1, <2>1, <2>2, <2>3 DEF FollowInv
<1>5. CASE CheckNatively \/ StartWorkers
  <2>1. written = "written" /\ UNCHANGED <<image, content, header, written, damaged, next, walk>>
    BY <1>5 DEF CheckNatively, StartWorkers, fileVars
  <2>2. QED BY <1>1, <2>1, FollowStays
<1>6. CASE JoinWorkers
  <2>1. phase = "check" /\ UNCHANGED <<image, content, header, written, damaged, next, walk>>
    BY <1>6 DEF JoinWorkers, fileVars
  <2>2. written = "written"
    BY <2>1 DEF FollowInv
  <2>3. QED BY <1>1, <2>1, <2>2, FollowStays
<1>7. ASSUME NEW w \in Workers,
             LookForFailure(w) \/ CheckTable(w) \/ CheckKeys(w) \/ WorkerBreaks(w)
      PROVE  FollowInv'
  <2>1. UNCHANGED <<image, content, header, written, damaged, phase, next, walk>>
    BY <1>7 DEF LookForFailure, CheckTable, CheckKeys, WorkerBreaks, fileVars
  <2>2. phase # "file" => written = "written"
    BY DEF FollowInv
  <2>3. QED BY <1>1, <2>1, <2>2, FollowStays
<1>8. CASE UNCHANGED vars
  <2>1. UNCHANGED <<image, content, header, written, damaged, phase, next, walk>>
    BY <1>8 DEF vars, fileVars
  <2>2. phase # "file" => written = "written"
    BY DEF FollowInv
  <2>3. QED BY <1>1, <2>1, <2>2, FollowStays
<1>9. ASSUME NEW w \in Workers, TakeJob(w)
      PROVE  FollowInv'
  <2>1. /\ pc[w] = "take" /\ next' = next + 1
        /\ UNCHANGED <<image, content, header, written, damaged, phase, jobs>>
    BY <1>9 DEF TakeJob, fileVars, Advance
  <2>2. phase = "check" /\ jobs # <<>> /\ next \in Nat \ {0} /\ written = "written"
    <3>1. phase = "check"
      BY <1>2, <2>1 DEF Shape
    <3>2. QED BY <1>2, <3>1 DEF Shape, FollowInv
  <2>3. DOMAIN jobs = 1 .. Len(jobs) /\ Len(jobs) \in Nat /\ Len(jobs) >= 1
    BY <1>2, <2>2 DEF ListAt
  <2>4. Reading(walk)'
    <3>1. CASE next = 1
      <4>1. 1 \in DOMAIN jobs
        BY <2>3
      <4>2. jobs[1].kind = "walk"
        BY <1>2, <4>1, Listed
      <4>3. walk' = StartWalk
        <5>1. ~(next > Len(jobs))
          BY <2>3, <3>1
        <5>2. walk' = IF jobs[next].kind = "walk" THEN StartWalk ELSE walk
          BY <1>9, <5>1, Zenon DEF TakeJob
        <5>3. QED BY <3>1, <4>2, <5>2
      <4>4. Reading(StartWalk)
        BY <1>1, <2>2, StartRead
      <4>5. PICK r : r = StartWalk
        OBVIOUS
      <4>6. walk' = r /\ Reading(r)
        BY <4>3, <4>4, <4>5, Zenon
      <4>7. QED BY <2>1, <4>6, ReadNext
    <3>2. CASE next # 1
      <4>1. walk' = walk
        <5>1. CASE next > Len(jobs)
          BY <1>9, <5>1, Zenon DEF TakeJob
        <5>2. CASE ~(next > Len(jobs))
          <6>1. next \in DOMAIN jobs
            BY <2>2, <2>3, <5>2
          <6>2. jobs[next].kind # "walk"
            BY <1>2, <3>2, <6>1, Listed DEF ListAt
          <6>3. walk' = IF jobs[next].kind = "walk" THEN StartWalk ELSE walk
            BY <1>9, <5>2, Zenon DEF TakeJob
          <6>4. QED BY <6>2, <6>3
        <5>3. QED BY <5>1, <5>2
      <4>2. next > 1
        BY <2>2, <3>2
      <4>3. PICK r : r = walk
        OBVIOUS
      <4>4. walk' = r /\ Reading(r)
        BY <4>1, <4>2, <4>3, Zenon DEF FollowInv
      <4>5. QED BY <2>1, <4>4, ReadNext
    <3>3. QED BY <3>1, <3>2
  <2>5. Typed(content') /\ (damaged' => Struck')
    BY <1>1, <2>1, StruckStays
  <2>6. QED BY <1>1, <2>1, <2>2, <2>4, <2>5 DEF FollowInv
<1>10. ASSUME NEW w \in Workers, Walk(w)
       PROVE  FollowInv'
  <2>1. /\ pc[w] = "work" /\ job[w].kind = "walk"
        /\ UNCHANGED <<image, content, header, written, damaged, phase, next>>
    BY <1>10 DEF Walk, fileVars
  <2>2. phase = "check" /\ next > 1 /\ written = "written"
    BY <2>1, AtWork DEF FollowInv
  <2>3. CASE walk.error \/ walk.stage = "end"
    <3>1. walk' = walk
      BY <1>10, <2>3, Zenon DEF Walk
    <3>2. QED BY <1>1, <2>1, <2>2, <3>1, FollowStays
  <2>4. CASE ~(walk.error \/ walk.stage = "end")
    <3>1. PICK r : r = IF walk.stage = "free" THEN WalkTrunk(walk) ELSE WalkPage(walk)
      OBVIOUS
    <3>2. walk' = r
      BY <1>10, <2>4, <3>1, Zenon DEF Walk
    <3>3. Reading(walk)
      BY <2>2 DEF FollowInv
    <3>4. Reading(r)
      BY <1>1, <2>4, <3>1, <3>3, StepRead
    <3>5. Reading(walk)'
      BY <2>1, <3>2, <3>4, ReadNext
    <3>6. Typed(content') /\ (damaged' => Struck')
      BY <1>1, <2>1, StruckStays
    <3>7. QED BY <1>1, <2>1, <2>2, <3>5, <3>6 DEF FollowInv
  <2>5. QED BY <2>3, <2>4
<1>11. QED BY <1>3, <1>4, <1>5, <1>6, <1>7, <1>8, <1>9, <1>10 DEF Next

-----------------------------------------------------------------------------
(* The verdict.                                                              *)

RowsSound == db.bad = {} /\ \A t \in DOMAIN Keys : NativeHolds(t)

\* The list leaves out no table; SQLite alone judges file and rows; the workers have
\* stopped when they are joined; and nobody leaves the walk before it ends.
CoversAt == jobs # <<>> => Covers(jobs)
NativeAt ==
  phase = "done" /\ jobs = <<>> => /\ broken = {}
                                   /\ verdict = "ok" <=> OwnershipSound /\ RowsSound
JoinedAt ==
  phase = "done" /\ jobs # <<>> => /\ \A w \in Workers : pc[w] = "stopped"
                                   /\ verdict = "ok" <=> failed = None /\ broken = {}
WalkedAt ==
  next > 1 /\ broken = {} /\ (\A w \in Workers : ~(Working(w) /\ job[w] = WalkJob))
    => walk.error \/ walk.stage = "end"

LEMMA CoversKept ==
  ASSUME CoversAt, [Next]_vars
  PROVE  CoversAt'
<1>1. db' = db /\ (jobs' = jobs \/ jobs' = Jobs)
  <2>1. CASE StartWorkers
    BY <2>1 DEF StartWorkers
  <2>2. CASE ~StartWorkers
    BY <2>2 DEF Next, vars, checkVars, Write, Harm, CheckNatively, JoinWorkers, LookForFailure,
                TakeJob, CheckTable, CheckKeys, Walk, WorkerBreaks
  <2>3. QED BY <2>1, <2>2
<1>2. \A t : CheckOf(t)' = CheckOf(t) /\ VerifyOf(t)' = VerifyOf(t)
  BY <1>1 DEF CheckOf, VerifyOf, ForeignKeyPlan, IntegerDomain
<1>3. \A s : Covers(s)' <=> Covers(s)
  BY <1>2, Zenon DEF Covers
<1>4. CASE jobs' = jobs
  <2>1. PICK s : s = jobs
    OBVIOUS
  <2>2. jobs' = s /\ (s # <<>> => Covers(s))
    BY <1>4, <2>1 DEF CoversAt
  <2>3. QED BY <1>2, <2>2, Zenon DEF CoversAt, Covers
<1>5. CASE jobs' = Jobs
  <2>1. PICK s : s = Jobs
    OBVIOUS
  <2>2. jobs' = s /\ Covers(s)
    BY <1>5, <2>1, JobsCover, Zenon
  <2>3. QED BY <1>2, <2>2, Zenon DEF CoversAt, Covers
<1>6. QED BY <1>1, <1>4, <1>5

\* How the validation comes to its end.
LEMMA DoneNext ==
  ASSUME ValidationInv, [Next]_vars, phase' = "done"
  PROVE  CheckNatively \/ JoinWorkers \/ UNCHANGED vars
<1>1. Shape(phase, jobs, next, pc, job, failed, broken, verdict)
  BY TakenMeans DEF ValidationInv
<1>2. ~Write /\ ~Harm /\ ~StartWorkers
  BY DEF Write, Harm, StartWorkers, checkVars
<1>3. ASSUME NEW w \in Workers,
             LookForFailure(w) \/ TakeJob(w) \/ CheckTable(w) \/ CheckKeys(w) \/ Walk(w)
               \/ WorkerBreaks(w)
      PROVE  FALSE
  <2>1. phase = "check" \/ pc[w] \in {"take", "work"}
    BY <1>3 DEF LookForFailure, TakeJob, CheckTable, CheckKeys, Walk, WorkerBreaks
  <2>2. phase = "check"
    BY <1>1, <2>1 DEF Shape
  <2>3. phase' = phase
    BY <1>3 DEF LookForFailure, TakeJob, CheckTable, CheckKeys, Walk, WorkerBreaks
  <2>4. QED BY <2>2, <2>3
<1>4. QED BY <1>2, <1>3 DEF Next

LEMMA NativeKept ==
  ASSUME ValidationInv, NativeAt, [Next]_vars
  PROVE  NativeAt'
<1> SUFFICES ASSUME phase' = "done", jobs' = <<>>
             PROVE  broken' = {} /\ (verdict' = "ok" <=> OwnershipSound' /\ RowsSound')
  BY Zenon DEF NativeAt
<1>1. Shape(phase, jobs, next, pc, job, failed, broken, verdict)
  BY TakenMeans DEF ValidationInv
<1>2. CASE CheckNatively
  <2>1. /\ phase = "file" /\ UNCHANGED <<image, content, header, db, broken>>
        /\ verdict' = IF OwnershipSound /\ RowsSound THEN "ok" ELSE "error"
    BY <1>2 DEF CheckNatively, fileVars, RowsSound
  <2>2. broken = {}
    BY <1>1, <2>1 DEF Shape
  <2>3. (OwnershipSound' <=> OwnershipSound) /\ (RowsSound' <=> RowsSound)
    BY <2>1 DEF OwnershipSound, RowsSound, NativeHolds
  <2>4. QED BY <2>1, <2>2, <2>3
<1>3. CASE JoinWorkers
  <2>1. phase = "check" /\ jobs' = jobs
    BY <1>3 DEF JoinWorkers
  <2>2. QED BY <1>1, <2>1 DEF Shape
<1>4. CASE UNCHANGED vars
  <2>1. UNCHANGED <<image, content, header, db, phase, jobs, broken, verdict>>
    BY <1>4 DEF vars, fileVars
  <2>2. (OwnershipSound' <=> OwnershipSound) /\ (RowsSound' <=> RowsSound)
    BY <2>1 DEF OwnershipSound, RowsSound, NativeHolds
  <2>3. QED BY <2>1, <2>2 DEF NativeAt
<1>5. QED BY <1>2, <1>3, <1>4, DoneNext

LEMMA JoinedKept ==
  ASSUME ValidationInv, JoinedAt, [Next]_vars
  PROVE  JoinedAt'
<1> SUFFICES ASSUME phase' = "done", jobs' # <<>>
             PROVE  /\ \A w \in Workers : pc'[w] = "stopped"
                    /\ verdict' = "ok" <=> failed' = None /\ broken' = {}
  BY Zenon DEF JoinedAt
<1>1. Shape(phase, jobs, next, pc, job, failed, broken, verdict)
  BY TakenMeans DEF ValidationInv
<1>2. CASE CheckNatively
  <2>1. phase = "file" /\ jobs' = jobs
    BY <1>2 DEF CheckNatively
  <2>2. QED BY <1>1, <2>1 DEF Shape
<1>3. CASE JoinWorkers
  BY <1>3 DEF JoinWorkers
<1>4. CASE UNCHANGED vars
  BY <1>4 DEF vars, JoinedAt
<1>5. QED BY <1>2, <1>3, <1>4, DoneNext

LEMMA WalkedKept ==
  ASSUME ValidationInv, WalkedAt, [Next]_vars
  PROVE  WalkedAt'
<1> SUFFICES ASSUME next' > 1, broken' = {},
                    \A w \in Workers : ~(pc'[w] = "work" /\ job'[w] = WalkJob)
             PROVE  walk'.error \/ walk'.stage = "end"
  BY Zenon DEF WalkedAt, Working, WalkJob, Native
<1>1. Shape(phase, jobs, next, pc, job, failed, broken, verdict) /\ ListAt
  BY TakenMeans DEF ValidationInv
<1>2. ASSUME UNCHANGED <<next, walk>>, broken = {},
             \A w \in Workers : pc[w] = "work" /\ job[w] = WalkJob =>
                                  pc'[w] = "work" /\ job'[w] = WalkJob
      PROVE  walk'.error \/ walk'.stage = "end"
  BY <1>2 DEF WalkedAt, Working
<1>3. CASE Write \/ Harm \/ CheckNatively \/ StartWorkers
  <2>1. phase = "file" /\ next' = next
    BY <1>3 DEF Write, Harm, CheckNatively, StartWorkers, checkVars
  <2>2. next = 1
    BY <1>1, <2>1 DEF Shape
  <2>3. QED BY <2>1, <2>2
<1>4. CASE JoinWorkers \/ UNCHANGED vars
  <2>1. UNCHANGED <<next, walk, broken, pc, job>>
    BY <1>4 DEF JoinWorkers, vars
  <2>2. QED BY <1>2, <2>1
<1>5. ASSUME NEW w \in Workers, LookForFailure(w)
      PROVE  walk'.error \/ walk'.stage = "end"
  <2>1. /\ pc[w] = "check" /\ UNCHANGED <<next, walk, broken, job>>
        /\ pc' = [pc EXCEPT ![w] = IF failed # None THEN "stopped" ELSE "take"]
    BY <1>5 DEF LookForFailure
  <2>2. \A v \in Workers : pc[v] = "work" => pc'[v] = "work"
    BY <1>1, <2>1 DEF Shape
  <2>3. QED BY <1>2, <2>1, <2>2
<1>6. ASSUME NEW w \in Workers, CheckTable(w) \/ CheckKeys(w)
      PROVE  walk'.error \/ walk'.stage = "end"
  <2>1. /\ pc[w] = "work" /\ job[w].kind \in {"table", "keys"}
        /\ UNCHANGED <<next, walk, broken, job>>
        /\ pc' = [pc EXCEPT ![w] = "check"] \/ pc' = [pc EXCEPT ![w] = "stopped"]
    BY <1>6 DEF CheckTable, CheckKeys, EndJob
  <2>2. job[w] # WalkJob
    BY <2>1, HeldFacts
  <2>3. \A v \in Workers : v # w => pc'[v] = pc[v]
    BY <1>1, <2>1 DEF Shape
  <2>4. QED BY <1>2, <2>1, <2>2, <2>3
<1>7. ASSUME NEW w \in Workers, WorkerBreaks(w)
      PROVE  FALSE
  BY <1>7 DEF WorkerBreaks
<1>8. ASSUME NEW w \in Workers, TakeJob(w)
      PROVE  walk'.error \/ walk'.stage = "end"
  <2>1. /\ pc[w] = "take" /\ next' = next + 1 /\ UNCHANGED <<phase, jobs, broken>>
    BY <1>8 DEF TakeJob, Advance
  <2>2. phase = "check" /\ jobs # <<>> /\ next \in Nat \ {0}
    <3>1. phase = "check"
      BY <1>1, <2>1 DEF Shape
    <3>2. QED BY <1>1, <3>1 DEF Shape
  <2>3. DOMAIN jobs = 1 .. Len(jobs) /\ Len(jobs) \in Nat /\ Len(jobs) >= 1 /\ jobs[1] = WalkJob
    BY <1>1, <2>2 DEF ListAt
  <2>4. CASE next > Len(jobs)
    <3>1. pc' = [pc EXCEPT ![w] = "stopped"] /\ UNCHANGED <<job, walk>>
      BY <1>8, <2>4, Zenon DEF TakeJob
    <3>2. \A v \in Workers : pc[v] = "work" => pc'[v] = "work"
      BY <1>1, <2>1, <3>1 DEF Shape
    <3>3. next > 1
      BY <2>2, <2>3, <2>4
    <3>4. QED BY <2>1, <3>1, <3>2, <3>3 DEF WalkedAt, Working
  <2>5. CASE ~(next > Len(jobs))
    <3>1. /\ pc' = [pc EXCEPT ![w] = "work"] /\ job' = [job EXCEPT ![w] = jobs[next]]
          /\ walk' = IF jobs[next].kind = "walk" THEN StartWalk ELSE walk
      BY <1>8, <2>5, Zenon DEF TakeJob
    <3>2. /\ pc'[w] = "work" /\ job'[w] = jobs[next]
          /\ \A v \in Workers : v # w => pc'[v] = pc[v] /\ job'[v] = job[v]
      BY <1>1, <3>1 DEF Shape
    <3>3. next \in DOMAIN jobs
      BY <2>2, <2>3, <2>5
    <3>4. next # 1 /\ jobs[next] # WalkJob
      BY <2>3, <3>2
    <3>5. jobs[next].kind # "walk"
      BY <1>1, <3>3, <3>4, Listed
    <3>6. walk' = walk /\ next > 1
      <4>1. walk' = walk
        BY <3>1, <3>5, Zenon
      <4>2. QED BY <2>2, <3>4, <4>1
    <3>7. \A v \in Workers : ~(pc[v] = "work" /\ job[v] = WalkJob)
      BY <2>1, <3>2
    <3>8. QED BY <2>1, <3>6, <3>7 DEF WalkedAt, Working
  <2>6. QED BY <2>4, <2>5
<1>9. ASSUME NEW w \in Workers, Walk(w)
      PROVE  walk'.error \/ walk'.stage = "end"
  <2>1. pc[w] = "work" /\ job[w] = WalkJob /\ job' = job
    <3>1. pc[w] = "work" /\ job[w].kind = "walk" /\ job' = job
      BY <1>9 DEF Walk
    <3>2. QED BY <3>1, AtWork
  <2>2. CASE walk.error \/ walk.stage = "end"
    <3>1. walk' = walk
      BY <1>9, <2>2, Zenon DEF Walk
    <3>2. QED BY <2>2, <3>1
  <2>3. CASE ~(walk.error \/ walk.stage = "end")
    <3>1. pc' = pc
      BY <1>9, <2>3, Zenon DEF Walk
    <3>2. QED BY <2>1, <3>1
  <2>4. QED BY <2>2, <2>3
<1>10. QED BY <1>3, <1>4, <1>5, <1>6, <1>7, <1>8, <1>9 DEF Next

\* What the walk found out about the file.
LEMMA WalkTells ==
  ASSUME FollowInv, next > 1, phase # "file"
  PROVE  /\ walk.error => damaged
         /\ walk.stage = "end" /\ ~walk.error => ~damaged
<1>1. FileAt /\ written = "written" /\ Reading(walk)
  BY DEF FollowInv
<1>2. CASE damaged /\ \E a : Unnamed(a) /\ Missed(a, walk)
  <2>1. PICK a : Unnamed(a) /\ Missed(a, walk)
    BY <1>2
  <2>2. walk.stage = "end" => walk.error
    BY <2>1 DEF Missed
  <2>3. QED BY <1>2, <2>2
<1>3. CASE damaged /\ Misread(image.roots, walk)
  BY <1>3 DEF Misread
<1>4. CASE \E c, first, n, level :
             /\ Given(c, image.roots, first, n, level, content, header)
             /\ damaged <=> Differs(c, first, n, content, header)
             /\ Trail(c, image.roots, first, n, level, content, header, walk)
  <2>1. PICK c, first, n, level :
          /\ damaged <=> Differs(c, first, n, content, header)
          /\ Trail(c, image.roots, first, n, level, content, header, walk)
    BY <1>4, Zenon
  <2>2. /\ walk.error => Differs(c, first, n, content, header)
        /\ walk.stage = "end" /\ ~walk.error => ~Differs(c, first, n, content, header)
    BY <2>1, Zenon DEF Trail
  <2>3. QED BY <2>1, <2>2
<1>5. QED BY <1>1, <1>2, <1>4, <1>3, Zenon DEF Reading

\* Damage is what makes the file unsound.
LEMMA DamageMatters ==
  ASSUME FollowInv, phase # "file"
  PROVE  OwnershipSound <=> ~damaged
<1>1. damaged => ~OwnershipSound
  BY StruckMeans DEF FollowInv
<1>2. ~damaged => OwnershipSound
  BY FileIsSound DEF FollowInv, FreelistComplete
<1>3. QED BY <1>1, <1>2

\* The jobs of tables and keys find out about the rows.
LEMMA RowsTold ==
  ASSUME ListAt, jobs # <<>>, Covers(jobs)
  PROVE  RowsSound <=> \A i \in DOMAIN jobs : jobs[i] # WalkJob => JobHolds(jobs[i])
<1>1. PICK d \in Databases : db = d[2]
  BY DEF ListAt
<1>2. /\ d[2].bad \subseteq DOMAIN Keys
      /\ \A t \in DOMAIN Keys : ForeignKeysHold(t, ForeignKeyPlan(t)) <=> NativeHolds(t)
  <2>1. d[2].bad \subseteq DOMAIN Keys
    BY ValidationAssumption
  <2>2. QED BY <1>1, <2>1, PlanExact
<1>3. /\ \A t : CheckOf(t).kind = "table" /\ CheckOf(t).table = t
      /\ \A t : VerifyOf(t).kind = "keys" /\ VerifyOf(t).table = t /\ VerifyOf(t).plan = ForeignKeyPlan(t)
      /\ WalkJob.kind = "walk"
  BY DEF CheckOf, VerifyOf, WalkJob
<1>4. DOMAIN jobs = 1 .. Len(jobs)
  BY DEF ListAt
<1>5. ASSUME RowsSound, NEW i \in DOMAIN jobs, jobs[i] # WalkJob
      PROVE  JobHolds(jobs[i])
  <2>1. jobs[i] \in OtherJobs
    BY <1>5, Listed
  <2>2. CASE jobs[i].kind = "table"
    BY <1>5, <2>2 DEF JobHolds, RowsSound
  <2>3. CASE \E t \in DOMAIN Keys : jobs[i] = VerifyOf(t)
    <3>1. PICK t \in DOMAIN Keys : jobs[i] = VerifyOf(t)
      BY <2>3
    <3>2. NativeHolds(t)
      BY <1>5 DEF RowsSound
    <3>3. /\ jobs[i].kind = "keys"
          /\ ForeignKeysHold(jobs[i].table, jobs[i].plan)
      BY <1>2, <1>3, <3>1, <3>2
    <3>4. QED BY <3>3 DEF JobHolds
  <2>4. jobs[i].kind = "table" \/ \E t \in DOMAIN Keys : jobs[i] = VerifyOf(t)
    BY <2>1 DEF OtherJobs, VerifyOf
  <2>5. QED BY <2>2, <2>3, <2>4
<1>6. ASSUME \A i \in DOMAIN jobs : jobs[i] # WalkJob => JobHolds(jobs[i])
      PROVE  RowsSound
  <2>1. ASSUME NEW t \in DOMAIN Keys
        PROVE  t \notin db.bad
    <3>1. PICK i \in DOMAIN jobs : jobs[i] = CheckOf(t)
      BY <1>4, <2>1 DEF Covers, Holds
    <3>2. jobs[i] # WalkJob /\ jobs[i].kind = "table" /\ jobs[i].table = t
      BY <1>3, <3>1
    <3>3. JobHolds(jobs[i])
      BY <1>6, <3>2
    <3>4. QED BY <3>2, <3>3 DEF JobHolds
  <2>2. ASSUME NEW t \in DOMAIN Keys
        PROVE  NativeHolds(t)
    <3>1. CASE Keys[t] = <<>>
      BY <3>1 DEF NativeHolds
    <3>2. CASE Keys[t] # <<>>
      <4>1. PICK i \in DOMAIN jobs : jobs[i] = VerifyOf(t)
        BY <1>4, <2>2, <3>2 DEF Covers, Holds
      <4>2. jobs[i] # WalkJob /\ jobs[i].kind = "keys"
            /\ jobs[i].table = t /\ jobs[i].plan = ForeignKeyPlan(t)
        BY <1>3, <4>1
      <4>3. JobHolds(jobs[i])
        BY <1>6, <4>2
      <4>4. ForeignKeysHold(t, ForeignKeyPlan(t))
        BY <4>2, <4>3 DEF JobHolds
      <4>5. QED BY <1>2, <4>4
    <3>3. QED BY <3>1, <3>2
  <2>3. db.bad = {}
    BY <1>1, <1>2, <2>1
  <2>4. QED BY <2>2, <2>3 DEF RowsSound
<1>7. QED BY <1>5, <1>6

LEMMA Judged ==
  ASSUME ValidationInv, FollowInv, CoversAt, NativeAt, JoinedAt, WalkedAt
  PROVE  AcceptsSound
<1> SUFFICES ASSUME phase = "done"
             PROVE  /\ verdict = "ok" => OwnershipSound /\ RowsSound /\ broken = {}
                    /\ OwnershipSound /\ RowsSound /\ broken = {} => verdict = "ok"
  BY Zenon DEF AcceptsSound, RowsSound
<1>1. CASE jobs = <<>>
  BY <1>1 DEF NativeAt
<1>2. CASE jobs # <<>>
  <2>1. /\ ListAt /\ FailureAt /\ VerdictAt /\ Covers(jobs)
        /\ Shape(phase, jobs, next, pc, job, failed, broken, verdict)
    BY <1>2, TakenMeans DEF ValidationInv, CoversAt
  <2>2. /\ \A w \in Workers : pc[w] = "stopped"
        /\ verdict = "ok" <=> failed = None /\ broken = {}
    BY <1>2 DEF JoinedAt
  <2>3. DOMAIN jobs = 1 .. Len(jobs) /\ Len(jobs) \in Nat /\ 1 \in DOMAIN jobs /\ jobs[1] = WalkJob
    BY <1>2, <2>1 DEF ListAt
  <2>4. RowsSound <=> \A i \in DOMAIN jobs : jobs[i] # WalkJob => JobHolds(jobs[i])
    BY <1>2, <2>1, RowsTold
  <2>5. JobHolds(WalkJob) <=> walk.stage = "end" /\ ~walk.error
    BY HeldFacts, JobHoldsMeans
  <2>6. OwnershipSound <=> ~damaged
    BY DamageMatters
  <2>7. ASSUME verdict = "ok"
        PROVE  OwnershipSound /\ RowsSound /\ broken = {}
    <3>1. failed = None /\ broken = {} /\ \A i \in DOMAIN jobs : JobHolds(jobs[i])
      BY <1>2, <2>1, <2>2, <2>7 DEF VerdictAt
    <3>2. next > 1
      <4>1. PICK w \in Workers : pc[w] = "stopped"
        BY <2>2, ValidationAssumption
      <4>2. next > Len(jobs) /\ next \in Nat
        BY <2>1, <3>1, <4>1 DEF Shape
      <4>3. QED BY <2>3, <4>2
    <3>3. walk.stage = "end" /\ ~walk.error
      BY <2>3, <2>5, <3>1, Zenon
    <3>4. ~damaged
      BY <3>2, <3>3, WalkTells
    <3>5. QED BY <2>4, <2>6, <3>1, <3>4
  <2>8. ASSUME OwnershipSound, RowsSound, broken = {}
        PROVE  verdict = "ok"
    <3>1. ASSUME failed # None
          PROVE  FALSE
      <4>1. \/ \E i \in DOMAIN jobs : jobs[i] # WalkJob /\ ~JobHolds(jobs[i])
            \/ next > 1 /\ ~JobHolds(WalkJob)
        BY <2>1, <2>6, <2>8, <3>1, Zenon DEF FailureAt
      <4>2. next > 1 /\ ~JobHolds(WalkJob)
        BY <2>4, <2>8, <4>1
      <4>3. \A w \in Workers : ~(Working(w) /\ job[w] = WalkJob)
        BY <2>2 DEF Working
      <4>4. walk.error \/ walk.stage = "end"
        BY <2>8, <4>2, <4>3 DEF WalkedAt
      <4>5. walk.error
        BY <2>5, <4>2, <4>4
      <4>6. damaged
        BY <4>2, <4>5, WalkTells
      <4>7. QED BY <2>6, <2>8, <4>6
    <3>2. QED BY <2>2, <2>8, <3>1
  <2>9. QED BY <2>7, <2>8
<1>3. QED BY <1>1, <1>2

\* The verdict is right, for any file the trees leave, any damage to one of its pointers,
\* any rows and any number of workers: it is "ok" exactly if every page has one owner,
\* every table is sound and every foreign key holds, whichever jobs ran when one failed,
\* and an error of the system is never taken for a sound file (validation.rs 613-810).
THEOREM AcceptsExactly == Spec => []AcceptsSound
<1> DEFINE Inv == ValidationInv /\ FollowInv /\ CoversAt /\ NativeAt /\ JoinedAt /\ WalkedAt
<1>1. Init => Inv
  <2> SUFFICES ASSUME Init
               PROVE  Inv
    OBVIOUS
  <2>1. ValidationInv /\ FollowInv
    BY InitInv, FollowStarts
  <2>2. phase = "file" /\ jobs = <<>> /\ next = 1
    BY DEF Init
  <2>3. CoversAt /\ NativeAt /\ JoinedAt /\ WalkedAt
    BY <2>2 DEF CoversAt, NativeAt, JoinedAt, WalkedAt
  <2>4. QED BY <2>1, <2>3
<1>2. Inv /\ [Next]_vars => Inv'
  BY StepInv, FollowKept, CoversKept, NativeKept, JoinedKept, WalkedKept
<1>3. Inv => AcceptsSound
  BY Judged
<1>4. QED BY <1>1, <1>2, <1>3, PTL DEF Spec
=============================================================================
