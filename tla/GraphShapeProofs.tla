-------------------------- MODULE GraphShapeProofs --------------------------
(***************************************************************************)
(* Machine-checked proofs about GraphShape: for any rows in any batches,    *)
(* every node has the label group of the labels its row named, and the      *)
(* aggregates the importer publishes, counted by label group through runs,  *)
(* a bounded map and spill tables, are those of the schema's backfill.      *)
(***************************************************************************)
EXTENDS GraphShape, FiniteSetTheorems, SequenceTheorems, WellFoundedInduction, TLAPS

-----------------------------------------------------------------------------
(* Induction over numbers, by the least one that is missing.                *)

LEMMA LeastNatural ==
  ASSUME NEW S \in SUBSET Nat, S # {}
  PROVE  \E n \in S : \A m \in S : n <= m
<1>1. PICK x \in S : \A y \in S : ~(<<y, x>> \in OpToRel(<, Nat))
  BY NatLessThanWellFounded, WFMin
<1>2. \A y \in S : ~(y < x)
  BY <1>1 DEF OpToRel
<1>3. QED BY <1>2

\* Induction over the naturals, as a fact about a set: its least missing
\* number would follow one that is not missing.
LEMMA SetInduction ==
  ASSUME NEW S, 0 \in S, \A n \in Nat : n \in S => n + 1 \in S
  PROVE  Nat \subseteq S
<1> DEFINE T == {n \in Nat : n \notin S}
<1>1. CASE T # {}
  <2>1. PICK n \in T : \A m \in T : n <= m
    <3> HIDE DEF T
    <3>1. T \subseteq Nat
      BY DEF T
    <3>2. QED BY <1>1, <3>1, LeastNatural
  <2>2. n # 0 /\ n \in Nat
    OBVIOUS
  <2>3. n - 1 \in Nat /\ n - 1 \notin T
    BY <2>1, <2>2
  <2>4. n - 1 \in S
    BY <2>3
  <2>5. QED BY <2>2, <2>3, <2>4
<1>2. QED BY <1>1

-----------------------------------------------------------------------------
(* Lists.                                                                   *)

LEMMA ListFacts ==
  ASSUME NEW s, IsList(s)
  PROVE  /\ Len(s) \in Nat /\ DOMAIN s = 1 .. Len(s)
         /\ \A i \in 1 .. Len(s) : s[i] \in Range(s)
         /\ \A x \in Range(s) : \E i \in 1 .. Len(s) : s[i] = x
BY DEF IsList, Range

\* Lists and what appending and joining do to them.
LEMMA SeqIsList ==
  ASSUME NEW S, NEW s \in Seq(S)
  PROVE  IsList(s) /\ Range(s) \subseteq S
BY DEF IsList, Range

LEMMA AppendFacts ==
  ASSUME NEW d, IsList(d), NEW x
  PROVE  /\ IsList(Append(d, x)) /\ Len(Append(d, x)) = Len(d) + 1
         /\ Range(Append(d, x)) = Range(d) \cup {x}
         /\ \A i \in DOMAIN d : Append(d, x)[i] = d[i]
         /\ Append(d, x)[Len(d) + 1] = x
         /\ IsInjective(d) /\ x \notin Range(d) => IsInjective(Append(d, x))
<1> DEFINE S == Range(d) \cup {x}
           e == Append(d, x)
<1>1. d \in Seq(S) /\ x \in S
  BY DEF IsList, Range
<1>2. /\ e \in Seq(S) /\ Len(e) = Len(d) + 1 /\ Len(d) \in Nat
      /\ DOMAIN d = 1 .. Len(d) /\ DOMAIN e = 1 .. Len(d) + 1
      /\ \A i \in 1 .. Len(d) : e[i] = d[i]
      /\ e[Len(d) + 1] = x
  <2> HIDE DEF S
  <2>1. QED BY <1>1
<1> HIDE DEF e
<1>3. Range(e) = Range(d) \cup {x}
  <2>1. ASSUME NEW y \in Range(e) PROVE y \in Range(d) \cup {x}
    BY <1>2 DEF Range
  <2>2. x \in Range(e)
    <3>1. Len(d) + 1 \in DOMAIN e
      BY <1>2
    <3>2. QED BY <1>2, <3>1 DEF Range
  <2>3. ASSUME NEW y \in Range(d) PROVE y \in Range(e)
    <3>1. PICK i \in DOMAIN d : d[i] = y
      BY DEF Range
    <3>2. i \in DOMAIN e /\ e[i] = y
      BY <1>2, <3>1
    <3>3. QED BY <3>2 DEF Range
  <2>4. QED BY <2>1, <2>2, <2>3
<1>4. IsInjective(d) /\ x \notin Range(d) => IsInjective(e)
  BY <1>2 DEF IsInjective, Range
<1>5. IsList(e)
  BY <1>2, SeqIsList
<1>6. QED BY <1>2, <1>3, <1>4, <1>5 DEF e

\* A list that begins with another one.
Extension(d, e) == /\ IsList(e) /\ DOMAIN d \subseteq DOMAIN e
                   /\ \A i \in DOMAIN d : e[i] = d[i]

\* Extension of dictionaries is reflexive, transitive, and what appending
\* does.
LEMMA ExtensionFacts ==
  /\ \A d : IsList(d) => Extension(d, d)
  /\ \A d, e, f : Extension(d, e) /\ Extension(e, f) => Extension(d, f)
  /\ \A d, x : IsList(d) => Extension(d, Append(d, x))
<1>1. ASSUME NEW d, NEW x, IsList(d)
      PROVE  Extension(d, Append(d, x))
  <2>1. DOMAIN d = 1 .. Len(d) /\ Len(d) \in Nat
    BY <1>1, ListFacts
  <2>2. IsList(Append(d, x)) /\ Len(Append(d, x)) = Len(d) + 1
    BY <1>1, AppendFacts
  <2>3. DOMAIN Append(d, x) = 1 .. Len(d) + 1
    BY <2>2, ListFacts
  <2>4. \A i \in DOMAIN d : Append(d, x)[i] = d[i]
    BY <1>1, AppendFacts
  <2>5. DOMAIN d \subseteq DOMAIN Append(d, x)
    BY <2>1, <2>3
  <2>6. QED BY <2>2, <2>4, <2>5 DEF Extension
<1>2. QED BY <1>1 DEF Extension

-----------------------------------------------------------------------------
(* Dictionaries.                                                            *)

\* The recursive function of Known, up to the n-th name.
KnownUpTo(d, names, n, f) ==
  f = [i \in 0 .. n |-> IF i = 0 THEN d
                        ELSE IF names[i] \in Range(f[i - 1]) THEN f[i - 1]
                             ELSE Append(f[i - 1], names[i])]

\* The recursive functions of Known and Named exist.
LEMMA KnownExists ==
  ASSUME NEW d, NEW names
  PROVE  \A n \in Nat : \E f : KnownUpTo(d, names, n, f)
<1> DEFINE Next1(e, i) == IF names[i] \in Range(e) THEN e ELSE Append(e, names[i])
           T == {n \in Nat : \E f : KnownUpTo(d, names, n, f)}
<1> HIDE DEF Next1
<1>0. \A n, f : KnownUpTo(d, names, n, f) <=>
                  f = [i \in 0 .. n |-> IF i = 0 THEN d ELSE Next1(f[i - 1], i)]
  BY Zenon DEF KnownUpTo, Next1
<1>1. 0 \in T
  <2> DEFINE f == [i \in 0 .. 0 |-> d]
  <2>1. f = [i \in 0 .. 0 |-> IF i = 0 THEN d ELSE Next1(f[i - 1], i)]
    OBVIOUS
  <2> HIDE DEF f
  <2>2. QED BY <1>0, <2>1
<1>2. ASSUME NEW n \in Nat, n \in T
      PROVE  n + 1 \in T
  <2>1. PICK f : f = [i \in 0 .. n |-> IF i = 0 THEN d ELSE Next1(f[i - 1], i)]
    BY <1>0, <1>2
  <2> DEFINE g == [i \in 0 .. n + 1 |-> IF i = n + 1 THEN Next1(f[n], n + 1) ELSE f[i]]
  <2>2. \A i \in 0 .. n : f[i] = IF i = 0 THEN d ELSE Next1(f[i - 1], i)
    BY <2>1
  <2>3. /\ \A i \in 0 .. n : g[i] = f[i]
        /\ g[n + 1] = Next1(f[n], n + 1)
        /\ g = [i \in 0 .. n + 1 |-> g[i]]
    OBVIOUS
  <2> HIDE DEF g
  <2>4. ASSUME NEW i \in 0 .. n + 1
        PROVE  g[i] = IF i = 0 THEN d ELSE Next1(g[i - 1], i)
    <3>1. CASE i = n + 1
      <4>1. i # 0 /\ i - 1 = n /\ n \in 0 .. n
        BY <3>1
      <4>2. g[i] = Next1(f[n], i) /\ g[n] = f[n]
        BY <2>3, <3>1, <4>1
      <4>3. QED BY <4>1, <4>2
    <3>2. CASE i \in 0 .. n
      <4>1. i # 0 => i - 1 \in 0 .. n
        BY <3>2
      <4>2. QED BY <2>2, <2>3, <3>2, <4>1
    <3>3. QED BY <3>1, <3>2
  <2>5. g = [i \in 0 .. n + 1 |-> IF i = 0 THEN d ELSE Next1(g[i - 1], i)]
    BY <2>3, <2>4
  <2>6. KnownUpTo(d, names, n + 1, g)
    BY <1>0, <2>5
  <2>7. QED BY <2>6
<1> HIDE DEF T
<1>3. QED BY <1>1, <1>2, SetInduction DEF T

\* resolve_dict keeps every ID, gives each new name one of its own, and forgets none.
LEMMA KnownFacts ==
  ASSUME NEW d, IsList(d), NEW names, IsList(names)
  PROVE  /\ Extension(d, Known(d, names))
         /\ Range(Known(d, names)) = Range(d) \cup Range(names)
         /\ IsInjective(d) => IsInjective(Known(d, names))
<1> DEFINE n == Len(names)
           known == CHOOSE f : f = [i \in 0 .. n |-> IF i = 0 THEN d
                                      ELSE IF names[i] \in Range(f[i - 1]) THEN f[i - 1]
                                           ELSE Append(f[i - 1], names[i])]
<1>1. Known(d, names) = known[n]
  BY DEF Known
<1>2. n \in Nat /\ DOMAIN names = 1 .. n
  BY ListFacts
<1>3. KnownUpTo(d, names, n, known)
  <2>1. PICK f : KnownUpTo(d, names, n, f)
    <3> HIDE DEF n
    <3>1. QED BY <1>2, KnownExists
  <2> HIDE DEF n
  <2>2. QED BY <2>1, Zenon DEF KnownUpTo
<1> HIDE DEF known, n
<1>4. /\ known[0] = d
      /\ \A i \in 1 .. n : known[i] = IF names[i] \in Range(known[i - 1]) THEN known[i - 1]
                                      ELSE Append(known[i - 1], names[i])
  <2>1. \A i \in 0 .. n : known[i] = IF i = 0 THEN d
                                     ELSE IF names[i] \in Range(known[i - 1]) THEN known[i - 1]
                                          ELSE Append(known[i - 1], names[i])
    BY <1>3 DEF KnownUpTo
  <2>2. 0 \in 0 .. n /\ \A i \in 1 .. n : i \in 0 .. n /\ i # 0
    BY <1>2
  <2>3. QED BY <2>1, <2>2
<1> DEFINE First(k) == {names[i] : i \in 1 .. k}
           Good(k) == /\ Extension(d, known[k]) /\ IsList(known[k])
                      /\ Range(known[k]) = Range(d) \cup First(k)
                      /\ IsInjective(d) => IsInjective(known[k])
           T == {k \in Nat : k <= n => Good(k)}
<1>5. 0 \in T
  BY <1>4, ExtensionFacts
<1>6. ASSUME NEW k \in Nat, k \in T
      PROVE  k + 1 \in T
  <2> SUFFICES ASSUME k + 1 <= n PROVE Good(k + 1)
    OBVIOUS
  <2> DEFINE e == known[k]
             x == names[k + 1]
  <2>1. /\ Extension(d, e) /\ IsList(e) /\ Range(e) = Range(d) \cup First(k)
        /\ IsInjective(d) => IsInjective(e)
    BY <1>2, <1>6
  <2>2. known[k + 1] = IF x \in Range(e) THEN e ELSE Append(e, x)
    <3>1. k + 1 \in 1 .. n /\ (k + 1) - 1 = k
      BY <1>2
    <3>2. QED BY <1>4, <3>1
  <2>3. First(k + 1) = First(k) \cup {x}
    <3>1. 1 .. k + 1 = (1 .. k) \cup {k + 1}
      OBVIOUS
    <3>2. QED BY <3>1
  <2> HIDE DEF e, x, First
  <2>4. CASE x \in Range(e)
    BY <2>1, <2>2, <2>3, <2>4
  <2>5. CASE x \notin Range(e)
    <3>1. /\ IsList(Append(e, x)) /\ Range(Append(e, x)) = Range(e) \cup {x}
          /\ IsInjective(e) => IsInjective(Append(e, x))
      BY <2>1, <2>5, AppendFacts
    <3>2. Extension(d, Append(e, x))
      BY <2>1, ExtensionFacts
    <3>3. QED BY <2>1, <2>2, <2>3, <2>5, <3>1, <3>2
  <2>6. QED BY <2>4, <2>5
<1> HIDE DEF T
<1>7. Nat \subseteq T
  BY <1>5, <1>6, SetInduction
<1>8. Good(n)
  BY <1>2, <1>7 DEF T
<1>9. First(n) = Range(names)
  BY <1>2 DEF Range
<1>10. QED BY <1>1, <1>8, <1>9

\* A list of one element.
LEMMA SingleFacts ==
  ASSUME NEW x
  PROVE  IsList(<<x>>) /\ Range(<<x>>) = {x}
<1>1. <<x>> \in Seq({x}) /\ DOMAIN <<x>> = {1} /\ <<x>>[1] = x
  OBVIOUS
<1>2. QED BY <1>1 DEF IsList, Range

\* An id finds its name.
LEMMA IdFacts ==
  ASSUME NEW d, NEW x \in Range(d)
  PROVE  IdOf(d, x) \in DOMAIN d /\ d[IdOf(d, x)] = x
BY DEF IdOf, Range

-----------------------------------------------------------------------------
(* Labels of a row.                                                         *)

\* The recursive function of Named, up to the n-th name.
NamedUpTo(cell, n, f) ==
  f = [i \in 0 .. n |-> IF i = 0 THEN <<>>
                        ELSE IF cell[i] \in {Null, Empty} THEN f[i - 1]
                             ELSE Append(f[i - 1], cell[i])]

\* The recursive function of Named exists.
LEMMA NamedExists ==
  ASSUME NEW cell
  PROVE  \A n \in Nat : \E f : NamedUpTo(cell, n, f)
<1> DEFINE Next1(e, i) == IF cell[i] \in {Null, Empty} THEN e ELSE Append(e, cell[i])
           T == {n \in Nat : \E f : NamedUpTo(cell, n, f)}
<1> HIDE DEF Next1
<1>0. \A n, f : NamedUpTo(cell, n, f) <=>
                  f = [i \in 0 .. n |-> IF i = 0 THEN <<>> ELSE Next1(f[i - 1], i)]
  BY Zenon DEF NamedUpTo, Next1
<1>1. 0 \in T
  <2> DEFINE f == [i \in 0 .. 0 |-> <<>>]
  <2>1. f = [i \in 0 .. 0 |-> IF i = 0 THEN <<>> ELSE Next1(f[i - 1], i)]
    OBVIOUS
  <2> HIDE DEF f
  <2>2. QED BY <1>0, <2>1
<1>2. ASSUME NEW n \in Nat, n \in T
      PROVE  n + 1 \in T
  <2>1. PICK f : f = [i \in 0 .. n |-> IF i = 0 THEN <<>> ELSE Next1(f[i - 1], i)]
    BY <1>0, <1>2
  <2> DEFINE g == [i \in 0 .. n + 1 |-> IF i = n + 1 THEN Next1(f[n], n + 1) ELSE f[i]]
  <2>2. \A i \in 0 .. n : f[i] = IF i = 0 THEN <<>> ELSE Next1(f[i - 1], i)
    BY <2>1
  <2>3. /\ \A i \in 0 .. n : g[i] = f[i]
        /\ g[n + 1] = Next1(f[n], n + 1)
        /\ g = [i \in 0 .. n + 1 |-> g[i]]
    OBVIOUS
  <2> HIDE DEF g
  <2>4. ASSUME NEW i \in 0 .. n + 1
        PROVE  g[i] = IF i = 0 THEN <<>> ELSE Next1(g[i - 1], i)
    <3>1. CASE i = n + 1
      <4>1. i # 0 /\ i - 1 = n /\ n \in 0 .. n
        BY <3>1
      <4>2. g[i] = Next1(f[n], i) /\ g[n] = f[n]
        BY <2>3, <3>1, <4>1
      <4>3. QED BY <4>1, <4>2
    <3>2. CASE i \in 0 .. n
      <4>1. i # 0 => i - 1 \in 0 .. n
        BY <3>2
      <4>2. QED BY <2>2, <2>3, <3>2, <4>1
    <3>3. QED BY <3>1, <3>2
  <2>5. g = [i \in 0 .. n + 1 |-> IF i = 0 THEN <<>> ELSE Next1(g[i - 1], i)]
    BY <2>3, <2>4
  <2>6. NamedUpTo(cell, n + 1, g)
    BY <1>0, <2>5
  <2>7. QED BY <2>6
<1> HIDE DEF T
<1>3. QED BY <1>1, <1>2, SetInduction DEF T

\* Named drops what is empty and nothing else.
LEMMA NamedFacts ==
  ASSUME NEW cell, IsList(cell)
  PROVE  IsList(Named(cell)) /\ Range(Named(cell)) = Range(cell) \ {Null, Empty}
<1> DEFINE n == Len(cell)
           named == CHOOSE f : f = [i \in 0 .. n |-> IF i = 0 THEN <<>>
                                      ELSE IF cell[i] \in {Null, Empty} THEN f[i - 1]
                                           ELSE Append(f[i - 1], cell[i])]
<1>1. Named(cell) = named[n]
  BY DEF Named
<1>2. n \in Nat /\ DOMAIN cell = 1 .. n
  BY ListFacts
<1>3. NamedUpTo(cell, n, named)
  <2>1. PICK f : NamedUpTo(cell, n, f)
    <3> HIDE DEF n
    <3>1. QED BY <1>2, NamedExists
  <2> HIDE DEF n
  <2>2. QED BY <2>1, Zenon DEF NamedUpTo
<1> HIDE DEF named, n
<1>4. /\ named[0] = <<>>
      /\ \A i \in 1 .. n : named[i] = IF cell[i] \in {Null, Empty} THEN named[i - 1]
                                      ELSE Append(named[i - 1], cell[i])
  <2>1. \A i \in 0 .. n : named[i] = IF i = 0 THEN <<>>
                                     ELSE IF cell[i] \in {Null, Empty} THEN named[i - 1]
                                          ELSE Append(named[i - 1], cell[i])
    BY <1>3 DEF NamedUpTo
  <2>2. 0 \in 0 .. n /\ \A i \in 1 .. n : i \in 0 .. n /\ i # 0
    BY <1>2
  <2>3. QED BY <2>1, <2>2
<1> DEFINE First(k) == {cell[i] : i \in 1 .. k}
           Good(k) == IsList(named[k]) /\ Range(named[k]) = First(k) \ {Null, Empty}
           T == {k \in Nat : k <= n => Good(k)}
<1>5. 0 \in T
  <2>1. IsList(<<>>) /\ Range(<<>>) = {}
    BY DEF IsList, Range
  <2>2. QED BY <1>4, <2>1
<1>6. ASSUME NEW k \in Nat, k \in T
      PROVE  k + 1 \in T
  <2> SUFFICES ASSUME k + 1 <= n PROVE Good(k + 1)
    OBVIOUS
  <2> DEFINE e == named[k]
             x == cell[k + 1]
  <2>1. IsList(e) /\ Range(e) = First(k) \ {Null, Empty}
    BY <1>2, <1>6
  <2>2. named[k + 1] = IF x \in {Null, Empty} THEN e ELSE Append(e, x)
    <3>1. k + 1 \in 1 .. n /\ (k + 1) - 1 = k
      BY <1>2
    <3>2. QED BY <1>4, <3>1
  <2>3. First(k + 1) = First(k) \cup {x}
    <3>1. 1 .. k + 1 = (1 .. k) \cup {k + 1}
      OBVIOUS
    <3>2. QED BY <3>1
  <2>4. IsList(Append(e, x)) /\ Range(Append(e, x)) = Range(e) \cup {x}
    <3> HIDE DEF e, x
    <3>1. QED BY <2>1, AppendFacts
  <2> HIDE DEF e, x, First
  <2>5. QED BY <2>1, <2>2, <2>3, <2>4
<1> HIDE DEF T
<1>7. Nat \subseteq T
  BY <1>5, <1>6, SetInduction
<1>8. Good(n)
  BY <1>2, <1>7 DEF T
<1>9. First(n) = Range(cell)
  BY <1>2 DEF Range
<1>10. QED BY <1>1, <1>8, <1>9

\* The elements of two lists joined.
LEMMA ConcatFacts ==
  ASSUME NEW d, NEW e, IsList(d), IsList(e)
  PROVE  IsList(d \o e) /\ Range(d \o e) = Range(d) \cup Range(e)
<1> DEFINE S == Range(d) \cup Range(e)
<1>1. d \in Seq(S) /\ e \in Seq(S)
  BY DEF IsList, Range
<1>2. d \o e \in Seq(S)
  BY <1>1, ConcatProperties
<1>3. /\ Len(d) \in Nat /\ Len(e) \in Nat /\ Len(d \o e) = Len(d) + Len(e)
      /\ \A i \in 1 .. Len(d) + Len(e) :
           (d \o e)[i] = IF i <= Len(d) THEN d[i] ELSE e[i - Len(d)]
  <2> HIDE DEF S
  <2>1. QED BY <1>1, ConcatProperties
<1> DEFINE c == d \o e
<1> HIDE DEF c
<1>4. Range(d) \subseteq Range(c) /\ Range(e) \subseteq Range(c)
  <2>1. DOMAIN c = 1 .. Len(d) + Len(e)
    BY <1>2, <1>3 DEF c
  <2>2. ASSUME NEW x \in Range(d) PROVE x \in Range(c)
    <3>1. PICK i \in 1 .. Len(d) : d[i] = x
      BY ListFacts
    <3>2. i \in 1 .. Len(d) + Len(e) /\ c[i] = x
      BY <1>3, <3>1 DEF c
    <3>3. QED BY <2>1, <3>2 DEF Range
  <2>3. ASSUME NEW x \in Range(e) PROVE x \in Range(c)
    <3>1. PICK i \in 1 .. Len(e) : e[i] = x
      BY ListFacts
    <3>2. i + Len(d) \in 1 .. Len(d) + Len(e) /\ ~(i + Len(d) <= Len(d)) /\ (i + Len(d)) - Len(d) = i
      BY <1>3
    <3>3. c[i + Len(d)] = x
      BY <1>3, <3>1, <3>2 DEF c
    <3>4. QED BY <2>1, <3>2, <3>3 DEF Range
  <2>4. QED BY <2>2, <2>3
<1>5. IsList(c) /\ Range(c) \subseteq S
  <2> HIDE DEF S
  <2>1. QED BY <1>2, SeqIsList DEF c
<1>6. QED BY <1>4, <1>5 DEF c

\* A row names the labels of the header and, if there is one, of its column.
LEMMA RowLabelsFacts ==
  ASSUME NEW s, NEW cell, IsList(s.labels), s.column => IsList(cell)
  PROVE  /\ IsList(RowLabels(s, cell))
         /\ Range(RowLabels(s, cell)) =
              Range(s.labels) \cup (IF s.column THEN Range(cell) \ {Null, Empty} ELSE {})
<1> DEFINE e == IF s.column THEN Named(cell) ELSE <<>>
<1>1. IsList(e) /\ Range(e) = IF s.column THEN Range(cell) \ {Null, Empty} ELSE {}
  <2>1. IsList(<<>>) /\ Range(<<>>) = {}
    BY DEF IsList, Range
  <2>2. QED BY <2>1, NamedFacts
<1> HIDE DEF e
<1>2. IsList(s.labels \o e) /\ Range(s.labels \o e) = Range(s.labels) \cup Range(e)
  BY <1>1, ConcatFacts
<1>3. RowLabels(s, cell) = s.labels \o e
  BY DEF RowLabels, e
<1>4. QED BY <1>1, <1>2, <1>3

-----------------------------------------------------------------------------
(* Label groups.                                                            *)

\* Every element of a finite set of IDs has a rank of its own, and every rank is taken.
LEMMA RankFacts ==
  ASSUME NEW S, S \subseteq Int, IsFiniteSet(S)
  PROVE  /\ Cardinality(S) \in Nat
         /\ \A k \in 1 .. Cardinality(S) : \E i \in S : Cardinality({j \in S : j < i}) = k - 1
         /\ \A i \in S : /\ Cardinality({j \in S : j < i}) + 1 \in 1 .. Cardinality(S)
                         /\ \A h \in S : Cardinality({j \in S : j < i}) = Cardinality({j \in S : j < h})
                                        => h = i
<1> DEFINE Below(i) == {j \in S : j < i}
           n        == Cardinality(S)
           T        == 0 .. n - 1
           rank     == [i \in S |-> Cardinality(Below(i))]
<1>1. n \in Nat
  BY FS_CardinalityType
<1>2. \A i \in S : IsFiniteSet(Below(i)) /\ Cardinality(Below(i)) \in Nat
  <2>1. \A i \in S : Below(i) \in SUBSET S
    OBVIOUS
  <2> HIDE DEF Below
  <2>2. QED BY <2>1, FS_Subset, FS_CardinalityType
<1>3. \A i \in S : Cardinality(Below(i)) < n
  <2> SUFFICES ASSUME NEW i \in S PROVE Cardinality(Below(i)) < n
    OBVIOUS
  <2>1. Below(i) \in SUBSET S /\ i \notin Below(i)
    OBVIOUS
  <2>2. Cardinality(Below(i)) <= n /\ (n = Cardinality(Below(i)) => S = Below(i))
    <3> HIDE DEF Below
    <3>1. QED BY <2>1, FS_Subset
  <2>3. Below(i) # S
    BY <2>1
  <2> HIDE DEF Below, n
  <2>4. QED BY <1>1, <1>2, <2>2, <2>3
<1>4. \A i, h \in S : i < h => Cardinality(Below(i)) < Cardinality(Below(h))
  <2> SUFFICES ASSUME NEW i \in S, NEW h \in S, i < h
               PROVE  Cardinality(Below(i)) < Cardinality(Below(h))
    OBVIOUS
  <2>1. Below(i) \in SUBSET Below(h) /\ i \in Below(h) /\ i \notin Below(i)
    <3>1. i \in Int /\ h \in Int /\ \A j \in S : j \in Int
      OBVIOUS
    <3>2. \A j \in S : j < i => j < h
      BY <3>1
    <3>3. ~(i < i)
      BY <3>1
    <3>4. QED BY <3>2, <3>3
  <2> HIDE DEF Below
  <2>2. /\ Cardinality(Below(i)) <= Cardinality(Below(h))
        /\ Cardinality(Below(h)) = Cardinality(Below(i)) => Below(h) = Below(i)
    BY <1>2, <2>1, FS_Subset
  <2>3. Below(i) # Below(h)
    BY <2>1
  <2>4. QED BY <1>2, <2>2, <2>3
<1>5. \A i, h \in S : Cardinality(Below(i)) = Cardinality(Below(h)) => h = i
  <2> HIDE DEF Below
  <2>1. QED BY <1>2, <1>4
<1>6. rank \in [S -> T] /\ \A i \in S : rank[i] = Cardinality(Below(i))
  <2> HIDE DEF Below, n
  <2>1. \A i \in S : Cardinality(Below(i)) \in T
    BY <1>1, <1>2, <1>3
  <2> HIDE DEF T
  <2>2. QED BY <2>1
<1>7. rank \in Injection(S, T)
  <2> HIDE DEF rank, Below, T
  <2>1. \A i, h \in S : rank[i] = rank[h] => i = h
    BY <1>5, <1>6
  <2>2. QED BY <1>6, <2>1 DEF Injection, IsInjective
<1>8. IsFiniteSet(T) /\ Cardinality(T) = n
  <2> HIDE DEF n
  <2>1. QED BY <1>1, FS_Interval
<1>9. rank \in Surjection(S, T)
  <2> HIDE DEF rank, T
  <2>1. QED BY <1>7, <1>8, FS_Injection
<1>10. \A r \in T : \E i \in S : rank[i] = r
  <2> HIDE DEF rank, T
  <2>1. QED BY <1>9 DEF Surjection
<1>11. \A k \in 1 .. n : \E i \in S : Cardinality(Below(i)) = k - 1
  <2> SUFFICES ASSUME NEW k \in 1 .. n PROVE \E i \in S : Cardinality(Below(i)) = k - 1
    OBVIOUS
  <2> HIDE DEF rank, Below, n
  <2>1. k - 1 \in T
    BY <1>1
  <2>2. QED BY <1>6, <1>10, <2>1
<1>12. \A i \in S : Cardinality(Below(i)) + 1 \in 1 .. n
  <2> HIDE DEF rank, Below, n
  <2>1. QED BY <1>1, <1>2, <1>3
<1>13. QED BY <1>1, <1>5, <1>11, <1>12

\* What sorting and deduplicating does: it keeps the IDs, and nothing else matters to it.
LEMMA CanonicalFacts ==
  ASSUME NEW ids, IsList(ids), Range(ids) \subseteq Nat \ {0}
  PROVE  /\ IsList(Canonical(ids)) /\ Range(Canonical(ids)) = Range(ids)
         /\ \A other : Range(other) = Range(ids) => Canonical(other) = Canonical(ids)
<1> DEFINE S == Range(ids)
           n == Cardinality(S)
           Rank(i) == Cardinality({j \in S : j < i})
           c == [k \in 1 .. n |-> CHOOSE i \in S : Rank(i) = k - 1]
<1>1. \A other : Range(other) = S => Canonical(other) = c
  <2> SUFFICES ASSUME NEW other, Range(other) = S PROVE Canonical(other) = c
    OBVIOUS
  <2>1. {i \in Range(other) : i > 0} = S
    <3>1. \A i \in S : i > 0
      OBVIOUS
    <3> HIDE DEF S
    <3>2. {i \in S : i > 0} = S
      BY <3>1
    <3>3. QED BY <3>2
  <2>2. Canonical(other) = InOrder({i \in Range(other) : i > 0})
    BY DEF Canonical
  <2>3. Canonical(other) = InOrder(S)
    BY <2>1, <2>2
  <2> HIDE DEF S
  <2>4. QED BY <2>3 DEF InOrder
<1>2. IsFiniteSet(S)
  <2>1. Len(ids) \in Nat /\ ids \in [1 .. Len(ids) -> S]
        /\ \A x \in S : \E i \in 1 .. Len(ids) : ids[i] = x
    <3>1. Len(ids) \in Nat /\ DOMAIN ids = 1 .. Len(ids) /\ ids \in Seq(S)
      BY ListFacts DEF IsList
    <3>2. \A x \in S : \E i \in 1 .. Len(ids) : ids[i] = x
      BY ListFacts
    <3> HIDE DEF S
    <3>3. QED BY <3>1, <3>2
  <2> HIDE DEF S
  <2>2. ids \in Surjection(1 .. Len(ids), S)
    BY <2>1 DEF Surjection
  <2>3. IsFiniteSet(1 .. Len(ids))
    BY <2>1, FS_Interval
  <2>4. QED BY <2>2, <2>3, FS_Surjection
<1>3. S \subseteq Int
  OBVIOUS
<1>4. /\ n \in Nat
      /\ \A k \in 1 .. n : \E i \in S : Rank(i) = k - 1
      /\ \A i \in S : /\ Rank(i) + 1 \in 1 .. n
                      /\ \A h \in S : Rank(i) = Rank(h) => h = i
  <2> HIDE DEF S
  <2>1. QED BY <1>2, <1>3, RankFacts
<1>5. \A i \in S : Rank(i) \in Nat
  <2> SUFFICES ASSUME NEW i \in S PROVE Rank(i) \in Nat
    OBVIOUS
  <2>1. {j \in S : j < i} \in SUBSET S
    OBVIOUS
  <2>2. IsFiniteSet({j \in S : j < i})
    <3> HIDE DEF S
    <3>1. QED BY <1>2, <2>1, FS_Subset
  <2> HIDE DEF S
  <2>3. QED BY <2>2, FS_CardinalityType
<1> HIDE DEF S, n, Rank
<1>6. \A k \in 1 .. n : c[k] \in S /\ Rank(c[k]) = k - 1
  BY <1>4
<1>7. \A i \in S : \E k \in 1 .. n : c[k] = i
  <2> SUFFICES ASSUME NEW i \in S PROVE \E k \in 1 .. n : c[k] = i
    OBVIOUS
  <2>1. PICK k \in 1 .. n : k = Rank(i) + 1
    BY <1>4
  <2>2. c[k] \in S /\ Rank(c[k]) = k - 1
    BY <1>6
  <2> HIDE DEF c
  <2>3. Rank(i) = Rank(c[k])
    BY <1>5, <2>1, <2>2
  <2>4. QED BY <1>4, <2>2, <2>3
<1>8. DOMAIN c = 1 .. n /\ c \in Seq(S)
  BY <1>4, <1>6
<1>9. IsList(c) /\ Range(c) = S
  <2> HIDE DEF c
  <2>1. QED BY <1>6, <1>7, <1>8 DEF IsList, Range
<1> HIDE DEF c
<1>10. Canonical(ids) = c
  BY <1>1 DEF S
<1>11. QED BY <1>1, <1>9, <1>10 DEF S

\* CatalogAt, of any labels, signatures, members and cache.
Catalog(l, s, m, c) ==
  /\ IsList(l) /\ IsInjective(l) /\ IsList(s) /\ IsInjective(s)
  /\ \A g \in DOMAIN s : Range(s[g]) \subseteq DOMAIN l /\ s[g] = Canonical(s[g])
  /\ m = UNION {{g} \X Range(s[g]) : g \in DOMAIN s}
  /\ \A x \in DOMAIN c : c[x] \in DOMAIN s /\ s[c[x]] = x

\* What LabelGroup returns is a catalog that keeps what it has and has the group.
LEMMA LabelGroupFacts ==
  ASSUME Catalog(dict.label, signatures, members, groups), NEW names, IsList(names),
         NEW g, g = LabelGroup(names)
  PROVE  /\ Catalog(g.labels, g.signatures, g.members, g.groups)
         /\ g.labels = Known(dict.label, names)
         /\ Extension(dict.label, g.labels) /\ Extension(signatures, g.signatures)
         /\ g.id \in DOMAIN g.signatures
         /\ {g.labels[i] : i \in Range(g.signatures[g.id])} = Range(names)
<1> DEFINE labels == Known(dict.label, names)
           named  == [i \in DOMAIN names |-> IdOf(labels, names[i])]
           ids    == Canonical(named)
           rows   == Known(signatures, <<ids>>)
           cached == ids \in DOMAIN groups
           group  == IF cached THEN groups[ids] ELSE IdOf(rows, ids)
           cache  == [s \in DOMAIN groups \cup {ids} |-> IF s = ids THEN group ELSE groups[s]]
<1>1. /\ g.labels = labels /\ g.id = group /\ g.groups = cache
      /\ g.signatures = IF cached THEN signatures ELSE rows
      /\ g.members = IF cached THEN members ELSE members \cup ({group} \X Range(ids))
  BY DEF LabelGroup, GroupRow
<1>2. /\ IsList(dict.label) /\ IsInjective(dict.label)
      /\ IsList(signatures) /\ IsInjective(signatures)
      /\ \A h \in DOMAIN signatures : /\ Range(signatures[h]) \subseteq DOMAIN dict.label
                                      /\ signatures[h] = Canonical(signatures[h])
      /\ members = UNION {{h} \X Range(signatures[h]) : h \in DOMAIN signatures}
      /\ \A x \in DOMAIN groups : groups[x] \in DOMAIN signatures /\ signatures[groups[x]] = x
  BY DEF Catalog
<1>3. /\ Extension(dict.label, labels) /\ IsList(labels) /\ IsInjective(labels)
      /\ Range(names) \subseteq Range(labels)
  BY <1>2, KnownFacts DEF Extension
<1>4. /\ Range(ids) \subseteq DOMAIN labels /\ {labels[i] : i \in Range(ids)} = Range(names)
      /\ ids = Canonical(ids)
  <2>1. \A n \in Range(names) : IdOf(labels, n) \in DOMAIN labels /\ labels[IdOf(labels, n)] = n
    BY <1>3, IdFacts
  <2>2. \A i \in DOMAIN labels : i \in Nat \ {0}
    BY <1>3, ListFacts
  <2>3. DOMAIN names = 1 .. Len(names) /\ Len(names) \in Nat
    BY ListFacts
  <2> HIDE DEF labels
  <2>4. Range(named) = {IdOf(labels, n) : n \in Range(names)}
    BY DEF Range
  <2>5. IsList(named)
    BY <2>3 DEF IsList, Range
  <2> HIDE DEF named
  <2>6. Range(named) \subseteq DOMAIN labels /\ {labels[i] : i \in Range(named)} = Range(names)
    BY <2>1, <2>4
  <2>7. Range(named) \subseteq Nat \ {0}
    BY <2>2, <2>6
  <2>8. /\ Range(ids) = Range(named)
        /\ \A other : Range(other) = Range(named) => Canonical(other) = Canonical(named)
    BY <2>5, <2>7, CanonicalFacts
  <2>9. Canonical(ids) = ids
    BY <2>8
  <2> HIDE DEF ids
  <2>10. QED BY <2>6, <2>8, <2>9
<1>5. IsList(<<ids>>) /\ Range(<<ids>>) = {ids}
  <2> HIDE DEF ids
  <2>1. QED BY SingleFacts
<1>6. /\ Extension(signatures, rows) /\ IsList(rows) /\ IsInjective(rows)
      /\ Range(rows) = Range(signatures) \cup {ids}
  <2> HIDE DEF ids
  <2>1. QED BY <1>2, <1>5, KnownFacts DEF Extension
<1> HIDE DEF labels, named, ids, rows
<1>7. IdOf(rows, ids) \in DOMAIN rows /\ rows[IdOf(rows, ids)] = ids
  BY <1>6, IdFacts
<1>8. \A h \in DOMAIN signatures : /\ Range(signatures[h]) \subseteq DOMAIN labels
                                  /\ signatures[h] = Canonical(signatures[h])
  BY <1>2, <1>3 DEF Extension
<1>9. CASE cached
  <2>1. group \in DOMAIN signatures /\ signatures[group] = ids
    BY <1>2, <1>9
  <2>2. g.signatures = signatures /\ g.members = members
    BY <1>1, <1>9
  <2> HIDE DEF group
  <2>3. \A x \in DOMAIN cache : cache[x] \in DOMAIN signatures /\ signatures[cache[x]] = x
    BY <1>2, <2>1
  <2> HIDE DEF cache
  <2>4. Catalog(labels, signatures, members, cache)
    BY <1>2, <1>3, <1>8, <2>3 DEF Catalog
  <2>5. Extension(signatures, signatures)
    BY <1>2, ExtensionFacts
  <2>6. QED BY <1>1, <1>3, <1>4, <2>1, <2>2, <2>4, <2>5 DEF labels
<1>10. CASE ~cached
  <2>1. group \in DOMAIN rows /\ rows[group] = ids
    BY <1>7, <1>10
  <2>2. g.signatures = rows /\ g.members = members \cup ({group} \X Range(ids))
    BY <1>1, <1>10
  <2> HIDE DEF group
  <2>3. \A x \in DOMAIN cache : cache[x] \in DOMAIN rows /\ rows[cache[x]] = x
    BY <1>2, <1>6, <2>1 DEF Extension
  <2> HIDE DEF cache
  <2>4. \A h \in DOMAIN rows : h \in DOMAIN signatures \/ h = group
    <3> SUFFICES ASSUME NEW h \in DOMAIN rows, h # group PROVE h \in DOMAIN signatures
      OBVIOUS
    <3>1. rows[h] # ids
      BY <1>6, <2>1 DEF IsInjective
    <3>2. rows[h] \in Range(signatures)
      BY <1>6, <3>1 DEF Range
    <3>3. PICK j \in DOMAIN signatures : signatures[j] = rows[h]
      BY <3>2 DEF Range
    <3>4. j \in DOMAIN rows /\ rows[j] = rows[h]
      BY <1>6, <3>3 DEF Extension
    <3>5. QED BY <1>6, <3>3, <3>4 DEF IsInjective
  <2>5. \A h \in DOMAIN signatures : h \in DOMAIN rows /\ rows[h] = signatures[h]
    BY <1>6 DEF Extension
  <2>6. members \cup ({group} \X Range(ids)) = UNION {{h} \X Range(rows[h]) : h \in DOMAIN rows}
    <3>1. ASSUME NEW x \in members \cup ({group} \X Range(ids))
          PROVE  \E h \in DOMAIN rows : x \in {h} \X Range(rows[h])
      BY <1>2, <2>1, <2>5
    <3>2. ASSUME NEW h \in DOMAIN rows, NEW x \in {h} \X Range(rows[h])
          PROVE  x \in members \cup ({group} \X Range(ids))
      BY <1>2, <2>1, <2>4, <2>5
    <3>3. QED BY <3>1, <3>2
  <2>7. \A h \in DOMAIN rows : Range(rows[h]) \subseteq DOMAIN labels /\ rows[h] = Canonical(rows[h])
    BY <1>4, <1>8, <2>1, <2>4, <2>5
  <2>8. Catalog(labels, rows, members \cup ({group} \X Range(ids)), cache)
    BY <1>3, <1>6, <2>3, <2>6, <2>7 DEF Catalog
  <2>9. g.labels = labels /\ g.id = group /\ g.groups = cache
    BY <1>1
  <2> HIDE DEF cached
  <2>10. {g.labels[i] : i \in Range(g.signatures[g.id])} = Range(names)
    BY <1>4, <2>1, <2>2, <2>9
  <2>11. g.labels = Known(dict.label, names)
    BY <2>9 DEF labels
  <2>12. QED BY <1>3, <1>6, <2>1, <2>2, <2>8, <2>9, <2>10, <2>11
<1>11. QED BY <1>9, <1>10

-----------------------------------------------------------------------------
(* ShapeInv, action by action.                                              *)

LEMMA CatalogMeans ==
  ASSUME CatalogAt
  PROVE  Catalog(dict.label, signatures, members, groups)
BY DEF CatalogAt, Catalog

\* Growing dictionaries do not change the labels of a group.
LEMMA LabelledStays ==
  ASSUME CatalogAt, Extension(dict.label, dict'.label), Extension(signatures, signatures'),
         NEW g, NEW names, Labelled(g, names)
  PROVE  Labelled(g, names)'
<1>1. /\ g \in DOMAIN signatures /\ Range(signatures[g]) \subseteq DOMAIN dict.label
      /\ {dict.label[i] : i \in Range(signatures[g])} = names
  BY DEF CatalogAt, Labelled
<1>2. PICK l2, s2 : l2 = dict'.label /\ s2 = signatures'
  OBVIOUS
<1>3. g \in DOMAIN s2 /\ s2[g] = signatures[g] /\ \A i \in Range(signatures[g]) : l2[i] = dict.label[i]
  BY <1>1, <1>2 DEF Extension
<1>4. {l2[i] : i \in Range(s2[g])} = names
  BY <1>1, <1>3
<1>5. QED BY <1>2, <1>3, <1>4 DEF Labelled

LEMMA FailKeeps == ASSUME ShapeInv, Fail PROVE ShapeInv'
<1>1. CatalogAt'
  BY DEF ShapeInv, Fail, CatalogAt, catalog
<1>2. GraphAt'
  BY DEF ShapeInv, Fail, GraphAt, Labelled, Owners, catalog, graph
<1>3. BatchAt'
  BY DEF ShapeInv, Fail, BatchAt
<1>4. QED BY <1>1, <1>2, <1>3 DEF ShapeInv

\* Distinct keys have distinct IDs.
LEMMA KeyIdFacts ==
  ASSUME NEW d, IsList(d), NEW keys, IsList(keys), Range(keys) \subseteq Range(d)
  PROVE  /\ KeyIds(d, keys) \in Seq(Nat) /\ Len(KeyIds(d, keys)) = Len(keys)
         /\ IsInjective(keys) => IsInjective(KeyIds(d, keys))
<1>1. DOMAIN keys = 1 .. Len(keys) /\ Len(keys) \in Nat /\ DOMAIN d = 1 .. Len(d) /\ Len(d) \in Nat
  BY ListFacts
<1>2. \A i \in DOMAIN keys : IdOf(d, keys[i]) \in DOMAIN d /\ d[IdOf(d, keys[i])] = keys[i]
  BY IdFacts DEF Range
<1>3. \A i \in 1 .. Len(keys) : IdOf(d, keys[i]) \in Nat
  BY <1>1, <1>2
<1>4. KeyIds(d, keys) \in Seq(Nat) /\ Len(KeyIds(d, keys)) = Len(keys)
  BY <1>1, <1>3 DEF KeyIds
<1>5. IsInjective(keys) => IsInjective(KeyIds(d, keys))
  BY <1>2 DEF KeyIds, IsInjective
<1>6. QED BY <1>4, <1>5

\* A batch begins: its header is resolved, or refused.
LEMMA BeginNodesKeeps ==
  ASSUME ShapeInv, NEW s \in NodeBatches, BeginNodes(s)
  PROVE  ShapeInv' /\ (Fail \/ batch' \in HandBatches)
<1>1. CASE Fail
  BY <1>1, FailKeeps
<1>2. CASE ~Fail
  <2> DEFINE keys  == Known(dict.key, s.keys)
             fixed == LabelGroup(s.labels)
  <2>1. /\ Distinct(s.keys)
        /\ dict' = [dict EXCEPT !.key = keys, !.label = IF s.column THEN @ ELSE fixed.labels]
        /\ IF s.column THEN UNCHANGED <<groups, signatures, members>> ELSE Enter(fixed)
        /\ batch' = [kind |-> "nodes", spec |-> s, keys |-> KeyIds(keys, s.keys),
                     fixed |-> IF s.column THEN 0 ELSE fixed.id]
        /\ UNCHANGED <<nodes, edges, values, status, asked>>
    BY <1>2 DEF BeginNodes, graph
  <2>2. IsList(s.labels) /\ IsList(s.keys)
    BY GraphShapeAssumption
  <2>3. /\ CatalogAt /\ GraphAt /\ BatchAt /\ Catalog(dict.label, signatures, members, groups)
        /\ DOMAIN dict = {"label", "type", "key"}
        /\ IsList(dict.key) /\ IsInjective(dict.key) /\ IsList(dict.type)
        /\ IsList(dict.label) /\ IsList(signatures)
    BY CatalogMeans DEF ShapeInv, CatalogAt
  <2>4. /\ IsList(keys) /\ IsInjective(keys) /\ Range(s.keys) \subseteq Range(keys)
    BY <2>2, <2>3, KnownFacts DEF Extension
  <2>5. /\ KeyIds(keys, s.keys) \in Seq(Nat) /\ IsInjective(KeyIds(keys, s.keys))
    <3> HIDE DEF keys
    <3>1. IsInjective(s.keys)
      BY <2>1 DEF Distinct
    <3>2. QED BY <2>2, <2>4, <3>1, KeyIdFacts
  <2>6. /\ Catalog(fixed.labels, fixed.signatures, fixed.members, fixed.groups)
        /\ Extension(dict.label, fixed.labels) /\ Extension(signatures, fixed.signatures)
        /\ fixed.id \in DOMAIN fixed.signatures
        /\ {fixed.labels[i] : i \in Range(fixed.signatures[fixed.id])} = Range(s.labels)
    <3> HIDE DEF fixed
    <3>1. \A g : g = LabelGroup(s.labels) =>
            /\ Catalog(g.labels, g.signatures, g.members, g.groups)
            /\ Extension(dict.label, g.labels) /\ Extension(signatures, g.signatures)
            /\ g.id \in DOMAIN g.signatures
            /\ {g.labels[i] : i \in Range(g.signatures[g.id])} = Range(s.labels)
      BY <2>2, <2>3, LabelGroupFacts
    <3>2. QED BY <3>1 DEF fixed
  <2> HIDE DEF keys, fixed
  <2>7. /\ DOMAIN dict' = {"label", "type", "key"} /\ dict'.key = keys /\ dict'.type = dict.type
        /\ dict'.label = IF s.column THEN dict.label ELSE fixed.labels
    BY <2>1, <2>3
  <2>8. /\ Catalog(dict'.label, signatures', members', groups')
        /\ Extension(dict.label, dict'.label) /\ Extension(signatures, signatures')
    <3>1. CASE s.column
      BY <2>1, <2>3, <2>7, <3>1, ExtensionFacts
    <3>2. CASE ~s.column
      BY <2>1, <2>6, <2>7, <3>2 DEF Enter
    <3>3. QED BY <3>1, <3>2
  <2>9. CatalogAt'
    BY <2>3, <2>4, <2>7, <2>8 DEF CatalogAt, Catalog
  <2>10. GraphAt'
    <3>1. \A n \in DOMAIN nodes : Labelled(nodes[n], asked[n])'
      <4> SUFFICES ASSUME NEW n \in DOMAIN nodes PROVE Labelled(nodes[n], asked[n])'
        OBVIOUS
      <4>1. Labelled(nodes[n], asked[n])
        BY <2>3 DEF GraphAt
      <4>2. PICK g, names : g = nodes[n] /\ names = asked[n]
        OBVIOUS
      <4>3. Labelled(g, names)'
        BY <2>3, <2>8, <4>1, <4>2, LabelledStays
      <4>4. QED BY <2>1, <4>2, <4>3 DEF Labelled
    <3>2. QED BY <2>1, <2>3, <3>1 DEF GraphAt, Owners
  <2>11. BatchAt' /\ batch' \in HandBatches
    <3>1. fixed.id \in Nat
      <4>1. IsList(fixed.signatures)
        BY <2>6 DEF Catalog
      <4>2. QED BY <2>6, <4>1, ListFacts
    <3>2. batch' \in HandBatches
      BY <2>1, <2>5, <3>1 DEF HandBatches
    <3>3. /\ batch'.keys = KeyIds(keys, s.keys) /\ batch'.spec = s
          /\ ~s.column => batch'.fixed = fixed.id
      BY <2>1
    <3>4. ~s.column => Labelled(batch.fixed, Range(batch.spec.labels))'
      <4> SUFFICES ASSUME ~s.column PROVE Labelled(batch.fixed, Range(batch.spec.labels))'
        OBVIOUS
      <4>1. signatures' = fixed.signatures /\ dict'.label = fixed.labels
        BY <2>1, <2>7 DEF Enter
      <4>2. QED BY <2>6, <3>3, <4>1 DEF Labelled
    <3>5. QED BY <2>1, <2>3, <2>5, <3>2, <3>3, <3>4 DEF BatchAt
  <2>12. QED BY <2>9, <2>10, <2>11 DEF ShapeInv
<1>3. QED BY <1>1, <1>2

LEMMA BeginEdgesKeeps ==
  ASSUME ShapeInv, NEW s \in EdgeBatches, BeginEdges(s)
  PROVE  ShapeInv' /\ (Fail \/ batch' \in HandBatches)
<1>1. CASE Fail
  BY <1>1, FailKeeps
<1>2. CASE ~Fail
  <2> DEFINE keys  == Known(dict.key, s.keys)
             types == IF s.type = Null THEN dict.type ELSE Known(dict.type, <<s.type>>)
  <2>1. /\ Distinct(s.keys)
        /\ dict' = [dict EXCEPT !.key = keys, !.type = types]
        /\ batch' = [kind |-> "edges", spec |-> s, keys |-> KeyIds(keys, s.keys),
                     fixed |-> IF s.type = Null THEN 0 ELSE IdOf(types, s.type)]
        /\ UNCHANGED <<groups, signatures, members, nodes, edges, values, status, asked>>
    BY <1>2 DEF BeginEdges, graph
  <2>2. IsList(s.keys)
    BY GraphShapeAssumption
  <2>3. /\ CatalogAt /\ GraphAt /\ BatchAt
        /\ DOMAIN dict = {"label", "type", "key"}
        /\ IsList(dict.key) /\ IsInjective(dict.key) /\ IsList(dict.type)
    BY DEF ShapeInv, CatalogAt
  <2>4. IsList(keys) /\ IsInjective(keys) /\ Range(s.keys) \subseteq Range(keys)
    BY <2>2, <2>3, KnownFacts DEF Extension
  <2>5. KeyIds(keys, s.keys) \in Seq(Nat) /\ IsInjective(KeyIds(keys, s.keys))
    <3> HIDE DEF keys
    <3>1. IsInjective(s.keys)
      BY <2>1 DEF Distinct
    <3>2. QED BY <2>2, <2>4, <3>1, KeyIdFacts
  <2>6. IsList(types) /\ (s.type # Null => IdOf(types, s.type) \in Nat)
    <3>1. CASE s.type = Null
      BY <2>3, <3>1
    <3>2. CASE s.type # Null
      <4> DEFINE new == Known(dict.type, <<s.type>>)
      <4>1. IsList(new) /\ s.type \in Range(new)
        BY <2>3, SingleFacts, KnownFacts DEF Extension
      <4>2. types = new
        BY <3>2
      <4> HIDE DEF new, types
      <4>3. IdOf(new, s.type) \in DOMAIN new /\ DOMAIN new = 1 .. Len(new)
        BY <4>1, IdFacts, ListFacts
      <4>4. QED BY <4>1, <4>2, <4>3
    <3>3. QED BY <3>1, <3>2
  <2> HIDE DEF keys, types
  <2>7. /\ DOMAIN dict' = {"label", "type", "key"} /\ dict'.key = keys /\ dict'.type = types
        /\ dict'.label = dict.label
    BY <2>1, <2>3
  <2>8. CatalogAt'
    BY <2>1, <2>3, <2>4, <2>6, <2>7 DEF CatalogAt
  <2>9. GraphAt'
    BY <2>1, <2>3, <2>7 DEF GraphAt, Labelled, Owners
  <2>10. BatchAt' /\ batch' \in HandBatches
    <3>1. batch' \in HandBatches /\ batch'.kind = "edges" /\ batch'.keys = KeyIds(keys, s.keys)
      BY <2>1, <2>5, <2>6 DEF HandBatches
    <3>2. QED BY <2>1, <2>3, <2>5, <3>1 DEF BatchAt
  <2>11. QED BY <2>8, <2>9, <2>10 DEF ShapeInv
<1>3. QED BY <1>1, <1>2

LEMMA EndBatchKeeps == ASSUME ShapeInv, EndBatch PROVE ShapeInv'
<1>1. CatalogAt' /\ GraphAt'
  BY DEF ShapeInv, EndBatch, CatalogAt, GraphAt, Labelled, Owners, catalog, graph
<1>2. BatchAt'
  BY DEF ShapeInv, EndBatch, BatchAt
<1>3. QED BY <1>1, <1>2 DEF ShapeInv

LEMMA FinishKeeps == ASSUME ShapeInv, Finish PROVE ShapeInv'
<1>1. CatalogAt' /\ GraphAt'
  BY DEF ShapeInv, Finish, CatalogAt, GraphAt, Labelled, Owners, catalog, graph
<1>2. BatchAt'
  BY DEF ShapeInv, Finish, BatchAt
<1>3. QED BY <1>1, <1>2 DEF ShapeInv

\* The records of a row in hand are those of its owner.
LEMMA StoredFacts ==
  ASSUME NEW owner, NEW id, NEW cells, NEW v \in Stored(owner, id, cells)
  PROVE  v[1] = owner /\ v[2] = id
BY DEF Stored

LEMMA EdgeRowKeeps ==
  ASSUME ShapeInv, batch # Null, NEW a, NEW b, NEW cell, NEW cells, a \in 0 .. Len(nodes),
         b \in 0 .. Len(nodes), EdgeRow(a, b, cell, cells)
  PROVE  ShapeInv'
<1> DEFINE name  == TypeName(batch.spec, cell)
           types == Known(dict.type, <<name>>)
           type  == IdOf(types, name)
<1>0. /\ status \in {"nodes", "edges"} /\ batch.kind = "edges"
      /\ \/ /\ status' = "edges"
            /\ UNCHANGED <<catalog, graph, batch, asked>>
         \/ Fail
         \/ /\ 0 \notin {a, b}
            /\ dict' = [dict EXCEPT !.type = types]
            /\ edges' = Append(edges, [type |-> type, from |-> a, to |-> b])
            /\ values' = values \cup Stored("edge", Len(edges) + 1, cells)
            /\ status' = "edges"
            /\ UNCHANGED <<groups, signatures, members, nodes, batch, asked>>
  BY DEF EdgeRow
<1>1. CASE Fail
  BY <1>1, FailKeeps
<1>2. CASE status' = "edges" /\ UNCHANGED <<catalog, graph, batch, asked>>
  <2>1. CatalogAt' /\ GraphAt'
    BY <1>2 DEF ShapeInv, CatalogAt, GraphAt, Labelled, Owners, catalog, graph
  <2>2. BatchAt'
    BY <1>2 DEF ShapeInv, BatchAt, Labelled, catalog
  <2>3. QED BY <2>1, <2>2 DEF ShapeInv
<1>3. CASE /\ 0 \notin {a, b}
           /\ dict' = [dict EXCEPT !.type = types]
           /\ edges' = Append(edges, [type |-> type, from |-> a, to |-> b])
           /\ values' = values \cup Stored("edge", Len(edges) + 1, cells)
           /\ status' = "edges"
           /\ UNCHANGED <<groups, signatures, members, nodes, batch, asked>>
  <2>1. /\ CatalogAt /\ GraphAt /\ BatchAt /\ IsList(dict.type) /\ IsList(nodes) /\ IsList(edges)
        /\ DOMAIN dict = {"label", "type", "key"}
    BY DEF ShapeInv, CatalogAt, GraphAt
  <2>2. IsList(types)
    BY <2>1, SingleFacts, KnownFacts DEF Extension
  <2> HIDE DEF types, type
  <2>3. /\ DOMAIN dict' = {"label", "type", "key"} /\ dict'.key = dict.key
        /\ dict'.type = types /\ dict'.label = dict.label
    BY <1>3, <2>1
  <2>4. CatalogAt'
    BY <1>3, <2>1, <2>2, <2>3 DEF CatalogAt
  <2>5. a \in DOMAIN nodes /\ b \in DOMAIN nodes
    <3>1. DOMAIN nodes = 1 .. Len(nodes) /\ Len(nodes) \in Nat
      BY <2>1, ListFacts
    <3>2. QED BY <1>3, <3>1
  <2>6. GraphAt'
    <3> DEFINE e == [type |-> type, from |-> a, to |-> b]
    <3>0. e.from = a /\ e.to = b
      OBVIOUS
    <3> HIDE DEF e
    <3>1. /\ IsList(edges') /\ DOMAIN edges = 1 .. Len(edges) /\ Len(edges) \in Nat
          /\ DOMAIN edges' = 1 .. Len(edges) + 1
          /\ \A i \in DOMAIN edges : edges'[i] = edges[i]
          /\ edges'[Len(edges) + 1] = e
      <4>1. edges' = Append(edges, e)
        BY <1>3 DEF e
      <4>2. /\ IsList(Append(edges, e)) /\ Len(Append(edges, e)) = Len(edges) + 1
            /\ \A i \in DOMAIN edges : Append(edges, e)[i] = edges[i]
            /\ Append(edges, e)[Len(edges) + 1] = e
        BY <2>1, AppendFacts
      <4>3. DOMAIN Append(edges, e) = 1 .. Len(edges) + 1
        BY <4>2, ListFacts
      <4>4. DOMAIN edges = 1 .. Len(edges) /\ Len(edges) \in Nat
        BY <2>1, ListFacts
      <4>5. QED BY <4>1, <4>2, <4>3, <4>4
    <3>2. \A i \in DOMAIN edges' : edges'[i].from \in DOMAIN nodes /\ edges'[i].to \in DOMAIN nodes
      <4> SUFFICES ASSUME NEW i \in DOMAIN edges'
                   PROVE  edges'[i].from \in DOMAIN nodes /\ edges'[i].to \in DOMAIN nodes
        OBVIOUS
      <4>1. CASE i \in DOMAIN edges
        BY <2>1, <3>1, <4>1 DEF GraphAt
      <4>2. CASE i = Len(edges) + 1
        BY <2>5, <3>0, <3>1, <4>2
      <4>3. QED BY <3>1, <4>1, <4>2
    <3>3. \A v \in values' : v[1] \in {"node", "edge"} /\ v[2] \in Owners(v[1])'
      <4> SUFFICES ASSUME NEW v \in values'
                   PROVE  v[1] \in {"node", "edge"} /\ v[2] \in Owners(v[1])'
        OBVIOUS
      <4>1. CASE v \in values
        BY <1>3, <2>1, <3>1, <4>1 DEF GraphAt, Owners
      <4>2. CASE v \in Stored("edge", Len(edges) + 1, cells)
        <5>1. v[1] = "edge" /\ v[2] = Len(edges) + 1
          BY <4>2, StoredFacts
        <5>2. QED BY <3>1, <5>1 DEF Owners
      <4>3. QED BY <1>3, <4>1, <4>2
    <3>4. \A n \in DOMAIN nodes' : Labelled(nodes[n], asked[n])'
      BY <1>3, <2>1, <2>3 DEF GraphAt, Labelled
    <3>5. QED BY <1>3, <2>1, <3>1, <3>2, <3>3, <3>4 DEF GraphAt
  <2>7. BatchAt'
    BY <1>3, <2>1, <2>3 DEF BatchAt, Labelled
  <2>8. QED BY <2>4, <2>6, <2>7 DEF ShapeInv
<1>4. QED BY <1>0, <1>1, <1>2, <1>3

\* The catalog after a row's labels were entered.
LEMMA RowEntered ==
  ASSUME CatalogAt, NEW names, IsList(names), NEW g, g = LabelGroup(names),
         Enter(g), dict' = [dict EXCEPT !.label = g.labels]
  PROVE  /\ CatalogAt'
         /\ Extension(dict.label, dict'.label) /\ Extension(signatures, signatures')
         /\ Labelled(g.id, Range(names))'
         /\ dict'.key = dict.key
<1>1. /\ Catalog(g.labels, g.signatures, g.members, g.groups)
      /\ Extension(dict.label, g.labels) /\ Extension(signatures, g.signatures)
      /\ g.id \in DOMAIN g.signatures
      /\ {g.labels[i] : i \in Range(g.signatures[g.id])} = Range(names)
  BY CatalogMeans, LabelGroupFacts
<1>2. /\ DOMAIN dict' = {"label", "type", "key"} /\ dict'.label = g.labels
      /\ dict'.key = dict.key /\ dict'.type = dict.type
  BY DEF CatalogAt
<1>3. signatures' = g.signatures /\ members' = g.members /\ groups' = g.groups
  BY DEF Enter
<1>4. CatalogAt'
  BY <1>1, <1>2, <1>3 DEF CatalogAt, Catalog
<1>5. Labelled(g.id, Range(names))'
  BY <1>1, <1>2, <1>3 DEF Labelled
<1>6. QED BY <1>1, <1>2, <1>3, <1>4, <1>5

LEMMA NodeRowKeeps ==
  ASSUME ShapeInv, batch # Null, NEW cell \in LabelCells, NEW cells, NEW duplicate,
         NodeRow(cell, cells, duplicate)
  PROVE  ShapeInv'
<1> DEFINE s     == batch.spec
           names == RowLabels(s, cell)
           g     == LabelGroup(names)
           group == IF s.column THEN g.id ELSE batch.fixed
           given == Range(s.labels) \cup (IF s.column THEN Range(cell) \ {Null, Empty} ELSE {})
<1>0. /\ status = "nodes" /\ batch.kind = "nodes"
      /\ \/ Fail
         \/ /\ ~(s.column /\ cell = Invalid)
            /\ Enter(g) /\ dict' = [dict EXCEPT !.label = g.labels]
            /\ UNCHANGED <<graph, batch, status, asked>>
         \/ /\ ~(s.column /\ cell = Invalid)
            /\ Enter(g) /\ dict' = [dict EXCEPT !.label = g.labels]
            /\ nodes' = Append(nodes, group)
            /\ values' = values \cup Stored("node", Len(nodes) + 1, cells)
            /\ asked' = Append(asked, given)
            /\ UNCHANGED <<edges, batch, status>>
  BY DEF NodeRow
<1>1. CASE Fail
  BY <1>1, FailKeeps
<1>2. ASSUME ~(s.column /\ cell = Invalid), Enter(g), dict' = [dict EXCEPT !.label = g.labels],
             UNCHANGED <<batch, status>>, NEW t, t = group, NEW l, l = given
      PROVE  /\ CatalogAt' /\ BatchAt'
             /\ \A h, k : Labelled(h, k) => Labelled(h, k)'
             /\ Labelled(t, l)' /\ IsList(names)
  <2>1. CatalogAt /\ BatchAt /\ s \in NodeBatches
    BY <1>0 DEF ShapeInv, BatchAt, HandBatches
  <2>2. IsList(names) /\ Range(names) = given
    <3>1. IsList(s.labels) /\ (s.column => IsList(cell))
      BY <1>2, <2>1, GraphShapeAssumption
    <3> HIDE DEF s
    <3>2. QED BY <3>1, RowLabelsFacts
  <2>3. PICK c : c = names
    OBVIOUS
  <2>4. PICK h : h = g
    OBVIOUS
  <2>5. ~s.column => t = batch.fixed /\ l = Range(batch.spec.labels)
    BY <1>2
  <2>6. s.column => t = h.id
    BY <1>2, <2>4
  <2> HIDE DEF g, names, given, group
  <2>7. l = Range(c) /\ IsList(c)
    BY <1>2, <2>2, <2>3
  <2>8. h = LabelGroup(c) /\ Enter(h) /\ dict' = [dict EXCEPT !.label = h.labels]
    BY <1>2, <2>3, <2>4 DEF g
  <2>9. CatalogAt' /\ Extension(dict.label, dict'.label) /\ Extension(signatures, signatures')
        /\ Labelled(h.id, Range(c))'
    BY <2>1, <2>7, <2>8, RowEntered
  <2>10. \A j, k : Labelled(j, k) => Labelled(j, k)'
    BY <2>1, <2>9, LabelledStays
  <2>11. BatchAt' /\ batch' \in HandBatches
    BY <1>0, <1>2, <2>1, <2>10 DEF BatchAt
  <2>12. Labelled(t, l)'
    <3>1. CASE s.column
      BY <2>6, <2>7, <2>9, <3>1
    <3>2. CASE ~s.column
      <4>1. Labelled(t, l)
        BY <1>0, <2>1, <2>5, <3>2 DEF BatchAt
      <4>2. QED BY <2>10, <4>1
    <3>3. QED BY <3>1, <3>2
  <2>13. QED BY <2>2, <2>9, <2>10, <2>11, <2>12
<1>3. CASE /\ ~(s.column /\ cell = Invalid)
           /\ Enter(g) /\ dict' = [dict EXCEPT !.label = g.labels]
           /\ UNCHANGED <<graph, batch, status, asked>>
  <2>1. CatalogAt' /\ BatchAt' /\ \A h, k : Labelled(h, k) => Labelled(h, k)'
    BY <1>2, <1>3
  <2>2. GraphAt'
    BY <1>3, <2>1 DEF ShapeInv, GraphAt, Owners, graph
  <2>3. QED BY <2>1, <2>2 DEF ShapeInv
<1>4. CASE /\ ~(s.column /\ cell = Invalid)
           /\ Enter(g) /\ dict' = [dict EXCEPT !.label = g.labels]
           /\ nodes' = Append(nodes, group)
           /\ values' = values \cup Stored("node", Len(nodes) + 1, cells)
           /\ asked' = Append(asked, given)
           /\ UNCHANGED <<edges, batch, status>>
  <2>0. PICK t, l : t = group /\ l = given
    OBVIOUS
  <2>1. CatalogAt' /\ BatchAt' /\ (\A h, k : Labelled(h, k) => Labelled(h, k)') /\ Labelled(t, l)'
    BY <1>2, <1>4, <2>0
  <2>2. GraphAt /\ IsList(nodes) /\ IsList(asked) /\ DOMAIN asked = DOMAIN nodes
    BY DEF ShapeInv, GraphAt
  <2> DEFINE n == Len(nodes) + 1
  <2> HIDE DEF s, names, g, group, given
  <2>3. /\ IsList(nodes') /\ DOMAIN nodes = 1 .. Len(nodes) /\ Len(nodes) \in Nat
        /\ DOMAIN nodes' = 1 .. n /\ n \in DOMAIN nodes'
        /\ \A i \in DOMAIN nodes : nodes'[i] = nodes[i]
        /\ nodes'[n] = t
    <3>1. /\ IsList(Append(nodes, t)) /\ Len(Append(nodes, t)) = n
          /\ \A i \in DOMAIN nodes : Append(nodes, t)[i] = nodes[i]
          /\ Append(nodes, t)[n] = t
      BY <2>2, AppendFacts
    <3>2. DOMAIN Append(nodes, t) = 1 .. n
      BY <3>1, ListFacts
    <3>3. DOMAIN nodes = 1 .. Len(nodes) /\ Len(nodes) \in Nat
      BY <2>2, ListFacts
    <3>4. QED BY <1>4, <2>0, <3>1, <3>2, <3>3
  <2>4. /\ IsList(asked') /\ DOMAIN asked' = 1 .. n
        /\ \A i \in DOMAIN nodes : asked'[i] = asked[i]
        /\ asked'[n] = l
    <3>1. Len(asked) = Len(nodes)
      <4>1. DOMAIN asked = 1 .. Len(asked) /\ Len(asked) \in Nat
        BY <2>2, ListFacts
      <4>2. QED BY <2>2, <2>3, <4>1
    <3>2. /\ IsList(Append(asked, l)) /\ Len(Append(asked, l)) = n
          /\ \A i \in DOMAIN asked : Append(asked, l)[i] = asked[i]
          /\ Append(asked, l)[n] = l
      BY <2>2, <3>1, AppendFacts
    <3>3. DOMAIN Append(asked, l) = 1 .. n
      BY <3>2, ListFacts
    <3>4. QED BY <1>4, <2>0, <2>2, <3>2, <3>3
  <2>5. \A i \in DOMAIN nodes' : Labelled(nodes[i], asked[i])'
    <3> SUFFICES ASSUME NEW i \in DOMAIN nodes' PROVE Labelled(nodes[i], asked[i])'
      OBVIOUS
    <3>1. CASE i \in DOMAIN nodes
      <4>1. PICK h, k : h = nodes[i] /\ k = asked[i]
        OBVIOUS
      <4>2. Labelled(h, k)
        BY <2>2, <3>1, <4>1 DEF GraphAt
      <4>3. Labelled(h, k)'
        BY <2>1, <4>2
      <4>4. QED BY <2>3, <2>4, <3>1, <4>1, <4>3 DEF Labelled
    <3>2. CASE i = n
      BY <2>1, <2>3, <2>4, <3>2 DEF Labelled
    <3>3. QED BY <2>3, <3>1, <3>2
  <2>6. \A e \in DOMAIN edges : edges[e].from \in DOMAIN nodes' /\ edges[e].to \in DOMAIN nodes'
    BY <2>2, <2>3 DEF GraphAt
  <2>7. \A v \in values' : v[1] \in {"node", "edge"} /\ v[2] \in Owners(v[1])'
    <3> SUFFICES ASSUME NEW v \in values'
                 PROVE  v[1] \in {"node", "edge"} /\ v[2] \in Owners(v[1])'
      OBVIOUS
    <3>1. CASE v \in values
      BY <1>4, <2>2, <2>3, <3>1 DEF GraphAt, Owners
    <3>2. CASE v \in Stored("node", n, cells)
      <4>1. v[1] = "node" /\ v[2] = n
        BY <3>2, StoredFacts
      <4>2. QED BY <2>3, <4>1 DEF Owners
    <3>3. QED BY <1>4, <3>1, <3>2
  <2>8. GraphAt'
    BY <1>4, <2>2, <2>3, <2>4, <2>5, <2>6, <2>7 DEF GraphAt
  <2>9. QED BY <2>1, <2>8 DEF ShapeInv
<1>5. QED BY <1>0, <1>1, <1>3, <1>4

LEMMA ShapeInit == ASSUME Init PROVE ShapeInv
<1>1. IsList(<<>>) /\ IsInjective(<<>>) /\ DOMAIN <<>> = {}
  BY DEF IsList, IsInjective, Range
<1>2. CatalogAt
  <2>1. DOMAIN signatures = {1} /\ signatures[1] = <<>> /\ IsList(signatures)
    BY SingleFacts DEF Init
  <2>2. Range(<<>>) = {}
    BY DEF Range
  <2>3. members = UNION {{g} \X Range(signatures[g]) : g \in DOMAIN signatures}
    BY <2>1, <2>2 DEF Init
  <2>4. Canonical(<<>>) = <<>>
    <3>1. IsList(Canonical(<<>>)) /\ Range(Canonical(<<>>)) = {}
      BY <1>1, <2>2, CanonicalFacts
    <3>2. PICK c : c = Canonical(<<>>)
      OBVIOUS
    <3>3. Len(c) = 0 /\ c \in Seq({})
      BY <3>1, <3>2 DEF IsList
    <3>4. QED BY <3>2, <3>3
  <2>5. DOMAIN groups = {<<>>} /\ groups[<<>>] = 1
    BY DEF Init
  <2>6. \A x \in DOMAIN groups : groups[x] \in DOMAIN signatures /\ signatures[groups[x]] = x
    BY <2>1, <2>5
  <2>7. \A g \in DOMAIN signatures : /\ Range(signatures[g]) \subseteq DOMAIN dict.label
                                     /\ signatures[g] = Canonical(signatures[g])
    BY <2>1, <2>2, <2>4
  <2>8. QED BY <1>1, <2>1, <2>3, <2>6, <2>7 DEF Init, CatalogAt, IsInjective
<1>3. GraphAt
  BY <1>1 DEF Init, GraphAt
<1>4. BatchAt
  BY DEF Init, BatchAt
<1>5. QED BY <1>2, <1>3, <1>4 DEF ShapeInv

LEMMA ShapeStep == ASSUME ShapeInv, [Next]_vars PROVE ShapeInv'
<1>1. ASSUME NEW s \in NodeBatches, BeginNodes(s) PROVE ShapeInv'
  BY <1>1, BeginNodesKeeps
<1>2. ASSUME batch # Null, NEW l \in LabelCells, NEW p, NEW d, NodeRow(l, p, d) PROVE ShapeInv'
  BY <1>2, NodeRowKeeps
<1>3. ASSUME batch # Null, NEW a \in 0 .. Len(nodes), NEW b \in 0 .. Len(nodes), NEW t, NEW p,
             EdgeRow(a, b, t, p)
      PROVE  ShapeInv'
  BY <1>3, EdgeRowKeeps
<1>4. ASSUME NEW s \in EdgeBatches, BeginEdges(s) PROVE ShapeInv'
  BY <1>4, BeginEdgesKeeps
<1>5. CASE EndBatch
  BY <1>5, EndBatchKeeps
<1>6. CASE Finish
  BY <1>6, FinishKeeps
<1>7. CASE UNCHANGED vars
  BY <1>7 DEF ShapeInv, CatalogAt, GraphAt, BatchAt, Labelled, Owners, vars, catalog, graph
<1>8. QED BY <1>1, <1>2, <1>3, <1>4, <1>5, <1>6, <1>7 DEF Next

(* The inductive invariant of the catalog and the graph: dictionaries and    *)
(* signatures name everything once, and the cache agrees with the tables     *)
(* (catalog.rs, native.rs resolve_label_group).                              *)
THEOREM ShapeInvariant == Spec => []ShapeInv
<1>1. Init => ShapeInv
  BY ShapeInit
<1>2. ShapeInv /\ [Next]_vars => ShapeInv'
  BY ShapeStep
<1>3. QED BY <1>1, <1>2, PTL DEF Spec

(* Every node has the label group of exactly the labels its row named, for   *)
(* any rows, in whatever order and multiplicity, and nodes with the same     *)
(* labels share it (canonical_label_ids, ensure_label_group_row).            *)
THEOREM LabelsExact == Spec => []LabelsKept
<1>1. ASSUME ShapeInv PROVE LabelsKept
  <2>1. CatalogAt /\ GraphAt /\ BatchAt
    BY <1>1 DEF ShapeInv
  <2>2. ASSUME NEW g \in DOMAIN signatures
        PROVE  {m[2] : m \in {m \in members : m[1] = g}} = Range(signatures[g])
    <3>1. members = UNION {{h} \X Range(signatures[h]) : h \in DOMAIN signatures}
      BY <2>1 DEF CatalogAt
    <3>2. ASSUME NEW m \in members, m[1] = g PROVE m[2] \in Range(signatures[g])
      BY <3>1, <3>2
    <3>3. ASSUME NEW i \in Range(signatures[g]) PROVE <<g, i>> \in members
      BY <2>2, <3>1
    <3>4. ASSUME NEW i \in Range(signatures[g]) PROVE i \in {m[2] : m \in {m \in members : m[1] = g}}
      <4>1. <<g, i>>[1] = g /\ <<g, i>>[2] = i
        OBVIOUS
      <4>2. <<g, i>> \in {m \in members : m[1] = g}
        BY <3>3, <4>1
      <4>3. QED BY <4>1, <4>2
    <3>5. {m[2] : m \in {m \in members : m[1] = g}} \subseteq Range(signatures[g])
      BY <3>2
    <3>6. QED BY <3>4, <3>5
  <2>3. ASSUME NEW n \in DOMAIN nodes
        PROVE  {dict.label[m[2]] : m \in {m \in members : m[1] = nodes[n]}} = asked[n]
    <3>1. nodes[n] \in DOMAIN signatures
          /\ {dict.label[i] : i \in Range(signatures[nodes[n]])} = asked[n]
      BY <2>1 DEF GraphAt, Labelled
    <3>2. {m[2] : m \in {m \in members : m[1] = nodes[n]}} = Range(signatures[nodes[n]])
      BY <2>2, <3>1
    <3>3. QED BY <3>1, <3>2
  <2>4. ASSUME NEW n \in DOMAIN nodes, NEW o \in DOMAIN nodes, asked[n] = asked[o]
        PROVE  nodes[n] = nodes[o]
    <3> DEFINE g == nodes[n]
               h == nodes[o]
    <3>1. /\ g \in DOMAIN signatures /\ h \in DOMAIN signatures
          /\ {dict.label[i] : i \in Range(signatures[g])} = {dict.label[i] : i \in Range(signatures[h])}
      BY <2>1, <2>4 DEF GraphAt, Labelled
    <3> HIDE DEF g, h
    <3>2. Range(signatures[g]) \subseteq DOMAIN dict.label /\ Range(signatures[h]) \subseteq DOMAIN dict.label
      BY <2>1, <3>1 DEF CatalogAt
    <3>3. \A i, j \in DOMAIN dict.label : dict.label[i] = dict.label[j] => i = j
      BY <2>1 DEF CatalogAt, IsInjective
    <3>4. Range(signatures[g]) = Range(signatures[h])
      BY <3>1, <3>2, <3>3
    <3>5. Canonical(signatures[g]) = Canonical(signatures[h])
      BY <3>4 DEF Canonical
    <3>6. signatures[g] = signatures[h]
      BY <2>1, <3>1, <3>5 DEF CatalogAt
    <3>7. QED BY <2>1, <3>1, <3>6 DEF CatalogAt, IsInjective, g, h
  <2>5. TypeOK
    <3>1. DOMAIN dict.label = 1 .. Len(dict.label) /\ DOMAIN signatures = 1 .. Len(signatures)
      BY <2>1, ListFacts DEF CatalogAt
    <3>2. \A s \in DOMAIN groups : Range(s) \subseteq 1 .. Len(dict.label)
      BY <2>1, <3>1 DEF CatalogAt
    <3>3. Range(nodes) \subseteq 1 .. Len(signatures)
      BY <2>1, <3>1 DEF GraphAt, Labelled, Range
    <3>4. \A e \in Range(edges) : {e.from, e.to} \subseteq DOMAIN nodes
      BY <2>1 DEF GraphAt, Range
    <3>5. QED BY <2>1, <3>2, <3>3, <3>4 DEF BatchAt, TypeOK
  <2>6. QED BY <2>3, <2>4, <2>5 DEF LabelsKept
<1>2. QED BY <1>1, ShapeInvariant, PTL

-----------------------------------------------------------------------------
(* Sums over sets.                                                          *)

\* The recursive function of SumFunctionOnSet.
SumUpTo(f, K, g) ==
  g = [s \in SUBSET K |-> IF s = {} THEN 0
                          ELSE f[CHOOSE x \in s : TRUE] + g[s \ {CHOOSE x \in s : TRUE}]]

\* The partial sums of a set are determined by it.
LEMMA SumUnique ==
  ASSUME NEW f, NEW K, IsFiniteSet(K), NEW g, NEW h, SumUpTo(f, K, g), SumUpTo(f, K, h)
  PROVE  g[K] = h[K]
<1> DEFINE x(s) == CHOOSE y \in s : TRUE
           T == {n \in Nat : \A s \in SUBSET K : Cardinality(s) = n => g[s] = h[s]}
<1>1. \A s \in SUBSET K : /\ g[s] = IF s = {} THEN 0 ELSE f[x(s)] + g[s \ {x(s)}]
                          /\ h[s] = IF s = {} THEN 0 ELSE f[x(s)] + h[s \ {x(s)}]
  BY Zenon DEF SumUpTo
<1>2. \A s \in SUBSET K : s # {} => x(s) \in s
  OBVIOUS
<1> HIDE DEF x
<1>3. \A s \in SUBSET K : IsFiniteSet(s)
  BY FS_Subset
<1>4. 0 \in T
  BY <1>1, <1>3, FS_EmptySet
<1>5. ASSUME NEW n \in Nat, n \in T PROVE n + 1 \in T
  <2> SUFFICES ASSUME NEW s \in SUBSET K, Cardinality(s) = n + 1 PROVE g[s] = h[s]
    OBVIOUS
  <2>1. s # {} /\ x(s) \in s
    BY <1>2, FS_EmptySet
  <2>2. Cardinality(s \ {x(s)}) = n
    <3>1. Cardinality(s \ {x(s)}) = Cardinality(s) - 1
      BY <1>3, <2>1, FS_RemoveElement
    <3>2. QED BY <3>1
  <2>3. g[s \ {x(s)}] = h[s \ {x(s)}]
    BY <1>5, <2>2
  <2>4. QED BY <1>1, <2>1, <2>3
<1> HIDE DEF T
<1>6. Nat \subseteq T
  BY <1>4, <1>5, SetInduction
<1>7. Cardinality(K) \in Nat
  BY FS_CardinalityType
<1>8. QED BY <1>6, <1>7 DEF T

\* The sizes of disjoint sets add up to the size of their union.
LEMMA SumOfSizes ==
  ASSUME NEW K, IsFiniteSet(K), NEW f, NEW I,
         IsFiniteSet(UNION {I[k] : k \in K}),
         \A k \in K : f[k] = Cardinality(I[k]),
         \A k, l \in K : k # l => I[k] \cap I[l] = {}
  PROVE  SumFunctionOnSet(f, K) = Cardinality(UNION {I[k] : k \in K})
<1> DEFINE x(s) == CHOOSE y \in s : TRUE
           U(s) == UNION {I[k] : k \in s}
           g == [s \in SUBSET K |-> Cardinality(U(s))]
<1>1. \A s \in SUBSET K : IsFiniteSet(U(s))
  <2>1. \A s \in SUBSET K : U(s) \subseteq U(K)
    OBVIOUS
  <2>2. QED BY <2>1, FS_Subset
<1>2. U({}) = {} /\ \A k \in K : U({k}) = I[k]
  OBVIOUS
<1>3. \A s \in SUBSET K : \A k \in s : U(s) = I[k] \cup U(s \ {k}) /\ I[k] \cap U(s \ {k}) = {}
  OBVIOUS
<1>4. \A s \in SUBSET K : s # {} => x(s) \in s
  OBVIOUS
<1> HIDE DEF x, U
<1>5. ASSUME NEW s \in SUBSET K
      PROVE  Cardinality(U(s)) = IF s = {} THEN 0 ELSE f[x(s)] + Cardinality(U(s \ {x(s)}))
  <2>1. CASE s = {}
    BY <1>2, <2>1, FS_EmptySet
  <2>2. CASE s # {}
    <3>1. x(s) \in s /\ s \ {x(s)} \in SUBSET K /\ {x(s)} \in SUBSET K
      BY <1>4, <2>2
    <3>2. IsFiniteSet(I[x(s)]) /\ IsFiniteSet(U(s \ {x(s)}))
      BY <1>1, <1>2, <3>1
    <3>3. Cardinality(U(s)) = Cardinality(I[x(s)] \cup U(s \ {x(s)}))
      BY <1>3, <3>1
    <3>4. Cardinality(I[x(s)] \cup U(s \ {x(s)})) =
            Cardinality(I[x(s)]) + Cardinality(U(s \ {x(s)}))
              - Cardinality(I[x(s)] \cap U(s \ {x(s)}))
      BY <3>2, FS_Union
    <3>5. Cardinality(I[x(s)] \cap U(s \ {x(s)})) = 0
      BY <1>3, <3>1, FS_EmptySet
    <3>6. Cardinality(I[x(s)]) \in Nat /\ Cardinality(U(s \ {x(s)})) \in Nat
      BY <3>2, FS_CardinalityType
    <3>7. f[x(s)] = Cardinality(I[x(s)])
      BY <3>1
    <3>8. QED BY <2>2, <3>3, <3>4, <3>5, <3>6, <3>7
  <2>3. QED BY <2>1, <2>2
<1>6. SumUpTo(f, K, g)
  <2>1. \A s \in SUBSET K : g[s] = Cardinality(U(s))
    OBVIOUS
  <2>2. g = [s \in SUBSET K |-> g[s]]
    OBVIOUS
  <2> HIDE DEF g
  <2>3. \A s \in SUBSET K : g[s] = IF s = {} THEN 0 ELSE f[x(s)] + g[s \ {x(s)}]
    BY <1>5, <2>1
  <2>4. g = [s \in SUBSET K |-> IF s = {} THEN 0 ELSE f[x(s)] + g[s \ {x(s)}]]
    BY <2>2, <2>3
  <2>5. QED BY <2>4, Zenon DEF SumUpTo, x
<1>7. g[K] = Cardinality(U(K))
  OBVIOUS
<1> DEFINE h == CHOOSE e : SumUpTo(f, K, e)
<1>8. SumFunctionOnSet(f, K) = h[K]
  BY Zenon DEF SumFunctionOnSet, FoldFunctionOnSet, MapThenFoldSet, SumUpTo
<1> HIDE DEF g
<1>9. SumUpTo(f, K, h)
  BY <1>6, Zenon
<1> HIDE DEF h
<1>10. g[K] = h[K]
  BY <1>6, <1>9, SumUnique
<1>11. QED BY <1>7, <1>8, <1>10 DEF U

-----------------------------------------------------------------------------
(* The counter.                                                             *)

\* A shape is a row of a shape table: owner, label groups, and what is counted.
IsShape(k) == k = <<k[1], k[2], k[3]>> /\ k[1] \in {"node", "edge"}

Table(f) == /\ IsFiniteSet(DOMAIN f) /\ f \in [DOMAIN f -> Nat \ {0}]
            /\ \A k \in DOMAIN f : IsShape(k)

\* The first slot counts rows, every other one the property of its column.
Fits(d, keys, s) == IF s = 1 THEN d = <<>> ELSE d = <<keys[s - 1], d[2], d[3]>>

RunAt(run, keys, s) ==
  \/ run = NoRun
  \/ /\ run = [key |-> run.key, count |-> run.count] /\ run.count \in Nat \ {0}
     /\ IsShape(run.key) /\ Fits(run.key[3], keys, s)

CounterAt(c, keys) ==
  /\ c = [runs |-> c.runs, entries |-> c.entries, tables |-> c.tables]
  /\ Table(c.entries) /\ Table(c.tables)
  /\ Cardinality(DOMAIN c.entries) <= MaxEntries
  /\ c.runs = [s \in DOMAIN c.runs |-> c.runs[s]] /\ DOMAIN c.runs \subseteq 1 .. Len(keys) + 1
  /\ \A s \in DOMAIN c.runs : RunAt(c.runs[s], keys, s)

\* What is counted of a shape, in its run, in the map and in the tables.
InRun(runs, k) == LET S == {s \in DOMAIN runs : runs[s].key = k}
                  IN  IF S = {} THEN 0 ELSE runs[CHOOSE s \in S : TRUE].count
Total(c, k) == At(c.entries, k) + At(c.tables, k) + InRun(c.runs, k)

\* What a table holds of a key, and the sum of two tables.
LEMMA AtFacts ==
  ASSUME NEW f, Table(f), NEW k
  PROVE  At(f, k) \in Nat /\ (k \in DOMAIN f <=> At(f, k) # 0)
BY DEF At, Table

LEMMA AddedFacts ==
  ASSUME NEW f, Table(f), NEW g, Table(g)
  PROVE  /\ Table(Added(f, g)) /\ DOMAIN Added(f, g) = DOMAIN f \cup DOMAIN g
         /\ \A k : At(Added(f, g), k) = At(f, k) + At(g, k)
<1>1. \A k : At(f, k) \in Nat /\ At(g, k) \in Nat
  BY AtFacts
<1>2. /\ \A k \in DOMAIN f : At(f, k) # 0
      /\ \A k \in DOMAIN g : At(g, k) # 0
  BY AtFacts
<1> DEFINE h == Added(f, g)
<1>3. /\ DOMAIN h = DOMAIN f \cup DOMAIN g
      /\ h = [k \in DOMAIN h |-> h[k]]
      /\ \A k \in DOMAIN h : h[k] = At(f, k) + At(g, k)
  BY DEF Added
<1> HIDE DEF h
<1>4. \A k \in DOMAIN h : h[k] \in Nat \ {0}
  BY <1>1, <1>2, <1>3
<1>5. IsFiniteSet(DOMAIN h)
  <2>1. IsFiniteSet(DOMAIN f) /\ IsFiniteSet(DOMAIN g)
    BY DEF Table
  <2>2. IsFiniteSet(DOMAIN f \cup DOMAIN g)
    BY <2>1, FS_Union
  <2>3. QED BY <1>3, <2>2
<1>6. \A k \in DOMAIN h : IsShape(k)
  BY <1>3 DEF Table
<1>7. h \in [DOMAIN h -> Nat \ {0}]
  BY <1>3, <1>4
<1>8. Table(h)
  BY <1>5, <1>6, <1>7 DEF Table
<1>9. ASSUME NEW k PROVE At(h, k) = At(f, k) + At(g, k)
  <2>1. CASE k \in DOMAIN h
    BY <1>3, <2>1 DEF At
  <2>2. CASE k \notin DOMAIN h
    BY <1>3, <2>2 DEF At
  <2>3. QED BY <2>1, <2>2
<1>10. QED BY <1>3, <1>8, <1>9 DEF h

\* The key of a run that has not begun is no shape.
LEMMA NoShape == ~IsShape(<<>>) /\ Table(<<>>) /\ \A k : At(<<>>, k) = 0
<1>1. DOMAIN <<>> = {} /\ IsFiniteSet({})
  BY FS_EmptySet
<1>2. ~IsShape(<<>>)
  <2>1. \A a, b, c : DOMAIN <<a, b, c>> = 1 .. 3
    OBVIOUS
  <2>2. PICK e : e = <<>>
    OBVIOUS
  <2>3. DOMAIN <<e[1], e[2], e[3]>> # DOMAIN e
    BY <1>1, <2>1, <2>2
  <2>4. ~IsShape(e)
    BY <2>3, Zenon DEF IsShape
  <2>5. QED BY <2>2, <2>4
<1>3. QED BY <1>1, <1>2 DEF Table, At

\* A table of one key.
LEMMA SingletonTable ==
  ASSUME NEW k, IsShape(k), NEW n \in Nat \ {0}
  PROVE  \A f : f = [x \in {k} |-> n] =>
           /\ Table(f) /\ DOMAIN f = {k}
           /\ \A l : At(f, l) = IF l = k THEN n ELSE 0
<1>1. IsFiniteSet({k})
  BY FS_Singleton
<1>2. QED BY <1>1 DEF Table, At

\* The fields of a counter after EXCEPT.
LEMMA CounterRecord ==
  ASSUME NEW r, NEW e, NEW t, NEW c, c = [runs |-> r, entries |-> e, tables |-> t], NEW x, NEW y
  PROVE  /\ c.runs = r /\ c.entries = e /\ c.tables = t
         /\ [c EXCEPT !.entries = x] = [runs |-> r, entries |-> x, tables |-> t]
         /\ [c EXCEPT !.runs = x] = [runs |-> x, entries |-> e, tables |-> t]
         /\ [c EXCEPT !.entries = x, !.tables = y] = [runs |-> r, entries |-> x, tables |-> y]
<1>1. c.runs = r /\ c.entries = e /\ c.tables = t
  OBVIOUS
<1>2. [c EXCEPT !.entries = x] = [runs |-> r, entries |-> x, tables |-> t]
  OBVIOUS
<1>3. [c EXCEPT !.runs = x] = [runs |-> x, entries |-> e, tables |-> t]
  OBVIOUS
<1>4. [c EXCEPT !.entries = x, !.tables = y] = [[c EXCEPT !.entries = x] EXCEPT !.tables = y]
  OBVIOUS
<1>5. ASSUME NEW d, d = [runs |-> r, entries |-> x, tables |-> t]
      PROVE  [d EXCEPT !.tables = y] = [runs |-> r, entries |-> x, tables |-> y]
  BY <1>5
<1>6. QED BY <1>1, <1>2, <1>3, <1>4, <1>5

\* flush adds the map to the tables.
LEMMA SpillFacts ==
  ASSUME NEW c, NEW keys, CounterAt(c, keys)
  PROVE  /\ CounterAt(Spill(c), keys) /\ Spill(c).runs = c.runs /\ Spill(c).entries = <<>>
         /\ Spill(c).tables = Added(c.tables, c.entries)
         /\ \A k : Total(Spill(c), k) = Total(c, k)
<1> DEFINE t == Added(c.tables, c.entries)
           d == Spill(c)
<1>1. /\ c = [runs |-> c.runs, entries |-> c.entries, tables |-> c.tables]
      /\ Table(c.entries) /\ Table(c.tables)
  BY DEF CounterAt
<1>2. Table(t) /\ \A k : At(t, k) = At(c.tables, k) + At(c.entries, k)
  BY <1>1, AddedFacts
<1>3. d = [runs |-> c.runs, entries |-> <<>>, tables |-> t]
  <2>1. d = [c EXCEPT !.entries = <<>>, !.tables = t]
    BY <1>1, CounterRecord DEF Spill
  <2> HIDE DEF t, d
  <2>2. QED BY <1>1, <2>1, CounterRecord
<1> HIDE DEF t, d
<1>4. d.runs = c.runs /\ d.entries = <<>> /\ d.tables = t
  BY <1>3
<1>5. Cardinality(DOMAIN <<>>) <= MaxEntries
  <2>1. DOMAIN <<>> = {}
    OBVIOUS
  <2>2. Cardinality({}) = 0
    BY FS_EmptySet
  <2>3. QED BY <2>1, <2>2, ShapeCountsAssumption
<1>6. CounterAt(d, keys)
  BY <1>2, <1>3, <1>4, <1>5, NoShape DEF CounterAt
<1>7. ASSUME NEW k PROVE Total(d, k) = Total(c, k)
  <2>1. At(c.entries, k) \in Nat /\ At(c.tables, k) \in Nat /\ At(d.entries, k) = 0
    BY <1>1, <1>4, AtFacts, NoShape
  <2>2. At(d.tables, k) = At(c.tables, k) + At(c.entries, k)
    BY <1>2, <1>4
  <2>3. QED BY <1>4, <2>1, <2>2 DEF Total
<1>8. QED BY <1>4, <1>6, <1>7 DEF d, t

\* add_count adds a run, whether the map is full or not.
LEMMA AddCountFacts ==
  ASSUME NEW c, NEW keys, CounterAt(c, keys), NEW run, IsShape(run.key), run.count \in Nat \ {0}
  PROVE  /\ CounterAt(AddCount(c, run), keys) /\ AddCount(c, run).runs = c.runs
         /\ \A k : /\ At(AddCount(c, run).entries, k) + At(AddCount(c, run).tables, k) =
                        At(c.entries, k) + At(c.tables, k) + (IF k = run.key THEN run.count ELSE 0)
<1> DEFINE full == run.key \notin DOMAIN c.entries /\ Cardinality(DOMAIN c.entries) >= MaxEntries
           room == IF full THEN Spill(c) ELSE c
           one  == [k \in {run.key} |-> run.count]
           e    == Added(room.entries, one)
           d    == AddCount(c, run)
<1>1. /\ CounterAt(room, keys) /\ room.runs = c.runs
      /\ \A k : Total(room, k) = Total(c, k)
      /\ full => room.entries = <<>> /\ room.tables = Added(c.tables, c.entries)
      /\ ~full => room = c
  BY SpillFacts
<1>2. d = [room EXCEPT !.entries = e]
  BY DEF AddCount
<1> HIDE DEF room, full
<1>3. /\ room = [runs |-> room.runs, entries |-> room.entries, tables |-> room.tables]
      /\ Table(room.entries) /\ Table(room.tables) /\ Cardinality(DOMAIN room.entries) <= MaxEntries
  BY <1>1 DEF CounterAt
<1>4. Table(one) /\ DOMAIN one = {run.key} /\ \A k : At(one, k) = IF k = run.key THEN run.count ELSE 0
  <2>1. PICK r, n, f : r = run.key /\ n = run.count /\ f = one
    OBVIOUS
  <2>2. IsShape(r) /\ n \in Nat \ {0} /\ f = [x \in {r} |-> n]
    BY <2>1
  <2>3. Table(f) /\ DOMAIN f = {r} /\ \A l : At(f, l) = IF l = r THEN n ELSE 0
    BY <2>2, SingletonTable
  <2>4. QED BY <2>1, <2>3
<1> HIDE DEF one
<1>5. /\ Table(e) /\ DOMAIN e = DOMAIN room.entries \cup {run.key}
      /\ \A k : At(e, k) = At(room.entries, k) + At(one, k)
  BY <1>3, <1>4, AddedFacts
<1> HIDE DEF e
<1>6. d.runs = room.runs /\ d.entries = e /\ d.tables = room.tables
      /\ d = [runs |-> d.runs, entries |-> d.entries, tables |-> d.tables]
  BY <1>2, <1>3
<1> HIDE DEF d
<1>7. Cardinality(DOMAIN e) <= MaxEntries
  <2>1. CASE run.key \in DOMAIN room.entries
    <3>1. DOMAIN e = DOMAIN room.entries
      BY <1>5, <2>1
    <3>2. QED BY <1>3, <3>1
  <2>2. CASE run.key \notin DOMAIN room.entries
    <3>1. IsFiniteSet(DOMAIN room.entries)
      BY <1>3 DEF Table
    <3>2. Cardinality(DOMAIN e) = Cardinality(DOMAIN room.entries) + 1
      BY <1>5, <2>2, <3>1, FS_AddElement
    <3>3. Cardinality(DOMAIN room.entries) \in Nat
      BY <3>1, FS_CardinalityType
    <3>4. CASE full
      <4>1. DOMAIN room.entries = {}
        BY <1>1, <3>4
      <4>2. Cardinality(DOMAIN room.entries) = 0
        BY <4>1, FS_EmptySet
      <4>3. QED BY <3>2, <4>2, ShapeCountsAssumption
    <3>5. CASE ~full
      <4>1. ~(Cardinality(DOMAIN room.entries) >= MaxEntries)
        BY <1>1, <2>2, <3>5 DEF full
      <4>2. QED BY <3>2, <3>3, <4>1, ShapeCountsAssumption
    <3>6. QED BY <3>4, <3>5
  <2>3. QED BY <2>1, <2>2
<1>8. CounterAt(d, keys)
  BY <1>1, <1>3, <1>5, <1>6, <1>7 DEF CounterAt
<1>9. ASSUME NEW k
      PROVE  At(d.entries, k) + At(d.tables, k) =
               At(c.entries, k) + At(c.tables, k) + (IF k = run.key THEN run.count ELSE 0)
  <2> DEFINE more == IF k = run.key THEN run.count ELSE 0
  <2>1. /\ At(room.entries, k) \in Nat /\ At(room.tables, k) \in Nat
        /\ more \in Nat
    BY <1>3, AtFacts
  <2>2. At(d.entries, k) = At(room.entries, k) + more /\ At(d.tables, k) = At(room.tables, k)
    BY <1>4, <1>5, <1>6
  <2>3. At(room.entries, k) + At(room.tables, k) = At(c.entries, k) + At(c.tables, k)
    <3>1. CASE full
      <4>1. Table(c.entries) /\ Table(c.tables)
        BY DEF CounterAt
      <4>2. /\ room.entries = <<>> /\ room.tables = Added(c.tables, c.entries)
        BY <1>1, <3>1
      <4>3. At(room.entries, k) = 0 /\ At(room.tables, k) = At(c.tables, k) + At(c.entries, k)
        <5>1. At(Added(c.tables, c.entries), k) = At(c.tables, k) + At(c.entries, k)
          BY <4>1, AddedFacts
        <5>2. QED BY <4>2, <5>1, NoShape
      <4>4. At(c.entries, k) \in Nat /\ At(c.tables, k) \in Nat
        BY <4>1, AtFacts
      <4>5. QED BY <4>3, <4>4
    <3>2. CASE ~full
      BY <1>1, <3>2
    <3>3. QED BY <3>1, <3>2
  <2> HIDE DEF more
  <2>4. QED BY <2>1, <2>2, <2>3 DEF more
<1>10. QED BY <1>1, <1>6, <1>8, <1>9 DEF d

Keys(keys) == IsList(keys) /\ IsInjective(keys)

\* Slots do not share details: each column has a key of its own.
LEMMA FitsOnce ==
  ASSUME NEW keys, Keys(keys), NEW d,
         NEW s \in 1 .. Len(keys) + 1, NEW t \in 1 .. Len(keys) + 1,
         Fits(d, keys, s), Fits(d, keys, t)
  PROVE  s = t
<1>1. DOMAIN keys = 1 .. Len(keys) /\ Len(keys) \in Nat
  BY ListFacts DEF Keys
<1>2. \A a, b, e : <<a, b, e>> # <<>>
  <2>1. \A a, b, e : DOMAIN <<a, b, e>> = 1 .. 3
    OBVIOUS
  <2>2. QED BY <2>1
<1>3. s = 1 <=> t = 1
  BY <1>2 DEF Fits
<1>4. ASSUME s # 1, t # 1 PROVE s = t
  <2>1. s - 1 \in DOMAIN keys /\ t - 1 \in DOMAIN keys
    BY <1>1, <1>4
  <2>2. d[1] = keys[s - 1] /\ d[1] = keys[t - 1]
    BY <1>4 DEF Fits
  <2>3. s - 1 = t - 1
    BY <2>1, <2>2 DEF Keys, IsInjective
  <2>4. QED BY <1>1, <2>3
<1>5. QED BY <1>3, <1>4

\* So at most one run is open for a shape: the one of its slot.
LEMMA InRunFacts ==
  ASSUME NEW keys, Keys(keys), NEW runs, DOMAIN runs \subseteq 1 .. Len(keys) + 1,
         \A s \in DOMAIN runs : RunAt(runs[s], keys, s),
         NEW k, IsShape(k)
  PROVE  /\ InRun(runs, k) \in Nat
         /\ \A s \in DOMAIN runs : Fits(k[3], keys, s) =>
              InRun(runs, k) = IF runs[s].key = k THEN runs[s].count ELSE 0
<1> DEFINE S == {s \in DOMAIN runs : runs[s].key = k}
           t == CHOOSE s \in S : TRUE
<1>1. InRun(runs, k) = IF S = {} THEN 0 ELSE runs[t].count
  BY DEF InRun
<1>2. S # {} => t \in S
  OBVIOUS
<1>3. NoRun.key # k
  BY NoShape DEF NoRun
<1>4. \A s \in S : s \in DOMAIN runs /\ runs[s].key = k
  OBVIOUS
<1>5. \A s \in DOMAIN runs : runs[s].key = k => s \in S
  OBVIOUS
<1> HIDE DEF t, S
<1>6. \A s \in S : runs[s].count \in Nat /\ Fits(k[3], keys, s)
  BY <1>3, <1>4 DEF RunAt
<1>7. ASSUME NEW s \in DOMAIN runs, Fits(k[3], keys, s)
      PROVE  InRun(runs, k) = IF runs[s].key = k THEN runs[s].count ELSE 0
  <2>1. \A r \in S : r = s
    BY <1>4, <1>6, <1>7, FitsOnce
  <2>2. CASE runs[s].key = k
    BY <1>1, <1>2, <1>5, <2>1, <2>2
  <2>3. CASE runs[s].key # k
    <3>1. S = {}
      BY <1>4, <2>1, <2>3
    <3>2. QED BY <1>1, <2>3, <3>1
  <2>4. QED BY <2>2, <2>3
<1>8. InRun(runs, k) \in Nat
  BY <1>1, <1>2, <1>6
<1>9. QED BY <1>7, <1>8

\* Of each shape: what is in its run when a slot gets another run.
Replaced(old, new, keys, s, r) ==
  \A k : IsShape(k) =>
    InRun(new, k) = IF Fits(k[3], keys, s) THEN IF r.key = k THEN r.count ELSE 0
                    ELSE InRun(old, k)

\* Setting one run changes what is in a run for its slot alone.
LEMMA InRunSet ==
  ASSUME NEW keys, Keys(keys), NEW runs, DOMAIN runs \subseteq 1 .. Len(keys) + 1,
         runs = [s \in DOMAIN runs |-> runs[s]],
         \A s \in DOMAIN runs : RunAt(runs[s], keys, s),
         NEW s \in DOMAIN runs, NEW r, RunAt(r, keys, s),
         NEW set, set = [runs EXCEPT ![s] = r]
  PROVE  /\ DOMAIN set = DOMAIN runs /\ set = [i \in DOMAIN set |-> set[i]]
         /\ set[s] = r /\ \A i \in DOMAIN runs : i # s => set[i] = runs[i]
         /\ \A i \in DOMAIN set : RunAt(set[i], keys, i)
         /\ Replaced(runs, set, keys, s, r)
<1>1. /\ DOMAIN set = DOMAIN runs /\ set = [i \in DOMAIN set |-> set[i]]
      /\ set[s] = r /\ \A i \in DOMAIN runs : i # s => set[i] = runs[i]
  OBVIOUS
<1>2. \A i \in DOMAIN set : RunAt(set[i], keys, i)
  BY <1>1
<1>3. ASSUME NEW k, IsShape(k)
      PROVE  InRun(set, k) = IF Fits(k[3], keys, s) THEN IF r.key = k THEN r.count ELSE 0
                             ELSE InRun(runs, k)
  <2>1. CASE Fits(k[3], keys, s)
    <3>1. InRun(set, k) = IF set[s].key = k THEN set[s].count ELSE 0
      BY <1>1, <1>2, <1>3, <2>1, InRunFacts
    <3>2. QED BY <1>1, <2>1, <3>1
  <2>2. CASE ~Fits(k[3], keys, s)
    <3>1. NoRun.key # k
      BY <1>3, NoShape DEF NoRun
    <3>2. r.key # k /\ runs[s].key # k
      BY <2>2, <3>1 DEF RunAt
    <3> DEFINE S == {i \in DOMAIN runs : runs[i].key = k}
               T == {i \in DOMAIN set : set[i].key = k}
               t == CHOOSE i \in S : TRUE
    <3>3. S = T
      BY <1>1, <3>2
    <3>4. S # {} => t \in S
      OBVIOUS
    <3>5. S # {} => set[t].count = runs[t].count
      BY <1>1, <3>2, <3>4
    <3>6. InRun(runs, k) = IF S = {} THEN 0 ELSE runs[t].count
      BY DEF InRun
    <3>7. InRun(set, k) = IF T = {} THEN 0 ELSE set[CHOOSE i \in T : TRUE].count
      BY DEF InRun
    <3> HIDE DEF S, T
    <3>8. QED BY <2>2, <3>3, <3>5, <3>6, <3>7
  <2>3. QED BY <2>1, <2>2
<1>4. QED BY <1>1, <1>2, <1>3 DEF Replaced

\* Another run in one slot.
WithRun(c, s, r) == [c EXCEPT !.runs[s] = r]

\* The whole counter after one run was set.
LEMMA SlotFacts ==
  ASSUME NEW keys, Keys(keys), NEW c, CounterAt(c, keys), NEW s \in DOMAIN c.runs,
         NEW r, RunAt(r, keys, s), NEW d, d = WithRun(c, s, r)
  PROVE  /\ CounterAt(d, keys) /\ DOMAIN d.runs = DOMAIN c.runs
         /\ d.entries = c.entries /\ d.tables = c.tables
         /\ d.runs[s] = r /\ \A i \in DOMAIN c.runs : i # s => d.runs[i] = c.runs[i]
         /\ Replaced(c.runs, d.runs, keys, s, r)
<1> DEFINE set == [c.runs EXCEPT ![s] = r]
<1>1. /\ c = [runs |-> c.runs, entries |-> c.entries, tables |-> c.tables]
      /\ c.runs = [i \in DOMAIN c.runs |-> c.runs[i]] /\ DOMAIN c.runs \subseteq 1 .. Len(keys) + 1
      /\ \A i \in DOMAIN c.runs : RunAt(c.runs[i], keys, i)
  BY DEF CounterAt
<1>2. d = [c EXCEPT !.runs = set]
  BY <1>1 DEF WithRun
<1>3. /\ DOMAIN set = DOMAIN c.runs /\ set = [i \in DOMAIN set |-> set[i]]
      /\ set[s] = r /\ \A i \in DOMAIN c.runs : i # s => set[i] = c.runs[i]
      /\ \A i \in DOMAIN set : RunAt(set[i], keys, i)
      /\ Replaced(c.runs, set, keys, s, r)
  BY <1>1, InRunSet
<1> HIDE DEF set
<1>4. d = [runs |-> set, entries |-> c.entries, tables |-> c.tables]
  BY <1>1, <1>2, CounterRecord
<1>5. d.runs = set /\ d.entries = c.entries /\ d.tables = c.tables
  BY <1>4
<1>6. CounterAt(d, keys)
  BY <1>1, <1>3, <1>4, <1>5 DEF CounterAt
<1>7. QED BY <1>3, <1>5, <1>6

\* A run that ends goes to the map.
LEMMA EndRunFacts ==
  ASSUME NEW keys, Keys(keys), NEW c, CounterAt(c, keys), NEW s \in DOMAIN c.runs
  PROVE  /\ CounterAt(EndRun(c, s), keys) /\ DOMAIN EndRun(c, s).runs = DOMAIN c.runs
         /\ EndRun(c, s).runs[s] = NoRun
         /\ \A i \in DOMAIN c.runs : i # s => EndRun(c, s).runs[i] = c.runs[i]
         /\ \A k : IsShape(k) => Total(EndRun(c, s), k) = Total(c, k)
<1> DEFINE run == c.runs[s]
           a == AddCount(c, run)
           d == EndRun(c, s)
<1>1. CASE run = NoRun
  BY <1>1 DEF EndRun
<1>2. CASE run # NoRun
  <2>1. RunAt(run, keys, s)
    BY DEF CounterAt
  <2>2. IsShape(run.key) /\ run.count \in Nat \ {0} /\ Fits(run.key[3], keys, s)
    BY <1>2, <2>1 DEF RunAt
  <2>3. d = WithRun(a, s, NoRun)
    BY <1>2 DEF EndRun, WithRun
  <2> HIDE DEF run
  <2>4. /\ CounterAt(a, keys) /\ a.runs = c.runs
        /\ \A k : At(a.entries, k) + At(a.tables, k) =
                    At(c.entries, k) + At(c.tables, k) + (IF k = run.key THEN run.count ELSE 0)
    BY <2>2, AddCountFacts
  <2>5. RunAt(NoRun, keys, s)
    BY DEF RunAt
  <2> HIDE DEF a, d
  <2>6. /\ CounterAt(d, keys) /\ DOMAIN d.runs = DOMAIN a.runs
        /\ d.entries = a.entries /\ d.tables = a.tables
        /\ d.runs[s] = NoRun /\ \A i \in DOMAIN a.runs : i # s => d.runs[i] = a.runs[i]
        /\ Replaced(a.runs, d.runs, keys, s, NoRun)
    <3>1. s \in DOMAIN a.runs
      BY <2>4
    <3>2. QED BY <2>3, <2>4, <2>5, <3>1, SlotFacts
  <2>7. ASSUME NEW k, IsShape(k) PROVE Total(d, k) = Total(c, k)
    <3>1. InRun(c.runs, k) \in Nat
          /\ (Fits(k[3], keys, s) => InRun(c.runs, k) = IF run.key = k THEN run.count ELSE 0)
      BY <2>7, InRunFacts DEF CounterAt, run
    <3>2. NoRun.key # k
      BY <2>7, NoShape DEF NoRun
    <3>3. At(c.entries, k) \in Nat /\ At(c.tables, k) \in Nat
      BY AtFacts DEF CounterAt
    <3>4. At(d.entries, k) + At(d.tables, k) =
            At(c.entries, k) + At(c.tables, k) + (IF k = run.key THEN run.count ELSE 0)
      BY <2>4, <2>6
    <3>5. At(d.entries, k) \in Nat /\ At(d.tables, k) \in Nat
      BY <2>6, AtFacts DEF CounterAt
    <3>6. CASE Fits(k[3], keys, s)
      <4>1. InRun(d.runs, k) = 0
        BY <2>6, <2>7, <3>2, <3>6 DEF Replaced
      <4>2. CASE k = run.key
        BY <2>2, <3>1, <3>3, <3>4, <3>5, <3>6, <4>1, <4>2 DEF Total
      <4>3. CASE k # run.key
        BY <3>1, <3>3, <3>4, <3>5, <3>6, <4>1, <4>3 DEF Total
      <4>4. QED BY <4>2, <4>3
    <3>7. CASE ~Fits(k[3], keys, s)
      <4>1. InRun(d.runs, k) = InRun(c.runs, k)
        BY <2>4, <2>6, <2>7, <3>7 DEF Replaced
      <4>2. k # run.key
        BY <2>2, <3>7
      <4>3. QED BY <3>1, <3>3, <3>4, <3>5, <4>1, <4>2 DEF Total
    <3>8. QED BY <3>6, <3>7
  <2>8. QED BY <2>4, <2>6, <2>7 DEF d
<1>3. QED BY <1>1, <1>2

\* increment counts one more of this shape and nothing else.
LEMMA IncrementFacts ==
  ASSUME NEW keys, Keys(keys), NEW c, CounterAt(c, keys), NEW s \in DOMAIN c.runs,
         NEW key, IsShape(key), Fits(key[3], keys, s)
  PROVE  /\ CounterAt(Increment(c, s, key), keys)
         /\ DOMAIN Increment(c, s, key).runs = DOMAIN c.runs
         /\ \A k : IsShape(k) =>
              Total(Increment(c, s, key), k) = Total(c, k) + (IF k = key THEN 1 ELSE 0)
<1> DEFINE run == c.runs[s]
           d == Increment(c, s, key)
<1>0. \A n \in Nat \ {0} : RunAt([key |-> key, count |-> n], keys, s)
  <2>1. ASSUME NEW n \in Nat \ {0} PROVE RunAt([key |-> key, count |-> n], keys, s)
    <3>1. PICK r : r = [key |-> key, count |-> n]
      OBVIOUS
    <3>2. r.key = key /\ r.count = n /\ r = [key |-> r.key, count |-> r.count]
      BY <3>1
    <3>3. RunAt(r, keys, s)
      BY <3>2 DEF RunAt
    <3>4. QED BY <3>1, <3>3
  <2>2. QED BY <2>1
<1>1. CASE run.key = key
  <2>1. run # NoRun
    BY <1>1, NoShape DEF NoRun
  <2>2. run = [key |-> key, count |-> run.count] /\ run.count \in Nat \ {0}
    BY <1>1, <2>1 DEF CounterAt, RunAt
  <2>3. d = [c EXCEPT !.runs[s].count = @ + 1]
    BY <1>1 DEF Increment
  <2> DEFINE r == [key |-> key, count |-> run.count + 1]
  <2>4. d = WithRun(c, s, r)
    <3>1. [run EXCEPT !.count = @ + 1] = r
      BY <2>2
    <3>2. d = [c EXCEPT !.runs[s] = [run EXCEPT !.count = @ + 1]]
      BY <2>3
    <3>3. QED BY <3>1, <3>2 DEF WithRun
  <2>5. r.key = key /\ r.count = run.count + 1
    OBVIOUS
  <2>6. RunAt(r, keys, s)
    BY <1>0, <2>2
  <2> HIDE DEF r, d
  <2>7. /\ CounterAt(d, keys) /\ DOMAIN d.runs = DOMAIN c.runs
        /\ d.entries = c.entries /\ d.tables = c.tables
        /\ Replaced(c.runs, d.runs, keys, s, r)
    BY <2>4, <2>6, SlotFacts
  <2>8. ASSUME NEW k, IsShape(k)
        PROVE  Total(d, k) = Total(c, k) + (IF k = key THEN 1 ELSE 0)
    <3>1. InRun(c.runs, k) \in Nat
          /\ (Fits(k[3], keys, s) => InRun(c.runs, k) = IF run.key = k THEN run.count ELSE 0)
      BY <2>8, InRunFacts DEF CounterAt
    <3>2. At(c.entries, k) \in Nat /\ At(c.tables, k) \in Nat
      BY AtFacts DEF CounterAt
    <3> HIDE DEF run
    <3>3. CASE k = key
      <4>1. InRun(d.runs, k) = run.count + 1 /\ InRun(c.runs, k) = run.count
        BY <1>1, <2>5, <2>7, <2>8, <3>1, <3>3 DEF Replaced
      <4>2. QED BY <2>2, <2>7, <3>2, <3>3, <4>1 DEF Total
    <3>4. CASE k # key
      <4>1. InRun(d.runs, k) = InRun(c.runs, k)
        BY <1>1, <2>5, <2>7, <2>8, <3>1, <3>4 DEF Replaced
      <4>2. QED BY <2>7, <3>1, <3>2, <3>4, <4>1 DEF Total
    <3>5. QED BY <3>3, <3>4
  <2>9. QED BY <2>7, <2>8 DEF d
<1>2. CASE run.key # key
  <2> DEFINE e == EndRun(c, s)
             r == [key |-> key, count |-> 1]
  <2>1. d = WithRun(e, s, r)
    BY <1>2 DEF Increment, WithRun
  <2>2. /\ CounterAt(e, keys) /\ DOMAIN e.runs = DOMAIN c.runs /\ e.runs[s] = NoRun
        /\ \A k : IsShape(k) => Total(e, k) = Total(c, k)
    BY EndRunFacts
  <2>3. r.key = key /\ r.count = 1
    OBVIOUS
  <2>4. RunAt(r, keys, s)
    BY <1>0
  <2> HIDE DEF r, d, e
  <2>5. /\ CounterAt(d, keys) /\ DOMAIN d.runs = DOMAIN e.runs
        /\ d.entries = e.entries /\ d.tables = e.tables
        /\ Replaced(e.runs, d.runs, keys, s, r)
    <3>1. s \in DOMAIN e.runs
      BY <2>2
    <3>2. QED BY <2>1, <2>2, <2>4, <3>1, SlotFacts
  <2>6. ASSUME NEW k, IsShape(k)
        PROVE  Total(d, k) = Total(c, k) + (IF k = key THEN 1 ELSE 0)
    <3>1. NoRun.key # k
      BY <2>6, NoShape DEF NoRun
    <3>2. InRun(e.runs, k) \in Nat /\ (Fits(k[3], keys, s) => InRun(e.runs, k) = 0)
      BY <2>2, <2>6, <3>1, InRunFacts DEF CounterAt
    <3>3. At(e.entries, k) \in Nat /\ At(e.tables, k) \in Nat
      BY <2>2, AtFacts DEF CounterAt
    <3>4. Total(d, k) = Total(e, k) + (IF k = key THEN 1 ELSE 0)
      <4>1. CASE k = key
        <5>1. InRun(d.runs, k) = 1 /\ InRun(e.runs, k) = 0
          BY <2>3, <2>5, <2>6, <3>2, <4>1 DEF Replaced
        <5>2. QED BY <2>5, <3>3, <4>1, <5>1 DEF Total
      <4>2. CASE k # key
        <5>1. InRun(d.runs, k) = InRun(e.runs, k)
          BY <2>3, <2>5, <2>6, <3>2, <4>2 DEF Replaced
        <5>2. QED BY <2>5, <3>2, <3>3, <4>2, <5>1 DEF Total
      <4>3. QED BY <4>1, <4>2
    <3>5. QED BY <2>2, <2>6, <3>4
  <2>7. QED BY <2>2, <2>5, <2>6 DEF d
<1>3. QED BY <1>1, <1>2

\* The recursive function of EndRuns, up to slot n.
EndedUpTo(c, n, f) == f = [s \in 0 .. n |-> IF s = 0 THEN c ELSE EndRun(f[s - 1], s)]

\* The recursive functions of EndRuns and Counted exist.
LEMMA EndedExists ==
  ASSUME NEW c
  PROVE  \A n \in Nat : \E f : EndedUpTo(c, n, f)
<1> DEFINE T == {n \in Nat : \E f : EndedUpTo(c, n, f)}
<1>0. \A n, f : EndedUpTo(c, n, f) <=> f = [s \in 0 .. n |-> IF s = 0 THEN c ELSE EndRun(f[s - 1], s)]
  BY Zenon DEF EndedUpTo
<1>1. 0 \in T
  <2> DEFINE f == [i \in 0 .. 0 |-> c]
  <2>1. f = [i \in 0 .. 0 |-> IF i = 0 THEN c ELSE EndRun(f[i - 1], i)]
    OBVIOUS
  <2> HIDE DEF f
  <2>2. QED BY <1>0, <2>1
<1>2. ASSUME NEW n \in Nat, n \in T
      PROVE  n + 1 \in T
  <2>1. PICK f : f = [i \in 0 .. n |-> IF i = 0 THEN c ELSE EndRun(f[i - 1], i)]
    BY <1>0, <1>2
  <2> DEFINE g == [i \in 0 .. n + 1 |-> IF i = n + 1 THEN EndRun(f[n], n + 1) ELSE f[i]]
  <2>2. \A i \in 0 .. n : f[i] = IF i = 0 THEN c ELSE EndRun(f[i - 1], i)
    BY <2>1
  <2>3. /\ \A i \in 0 .. n : g[i] = f[i]
        /\ g[n + 1] = EndRun(f[n], n + 1)
        /\ g = [i \in 0 .. n + 1 |-> g[i]]
    OBVIOUS
  <2> HIDE DEF g
  <2>4. ASSUME NEW i \in 0 .. n + 1
        PROVE  g[i] = IF i = 0 THEN c ELSE EndRun(g[i - 1], i)
    <3>1. CASE i = n + 1
      <4>1. i # 0 /\ i - 1 = n /\ n \in 0 .. n
        BY <3>1
      <4>2. g[i] = EndRun(f[n], i) /\ g[n] = f[n]
        BY <2>3, <3>1, <4>1
      <4>3. QED BY <4>1, <4>2
    <3>2. CASE i \in 0 .. n
      <4>1. i # 0 => i - 1 \in 0 .. n
        BY <3>2
      <4>2. QED BY <2>2, <2>3, <3>2, <4>1
    <3>3. QED BY <3>1, <3>2
  <2>5. g = [i \in 0 .. n + 1 |-> IF i = 0 THEN c ELSE EndRun(g[i - 1], i)]
    BY <2>3, <2>4
  <2>6. EndedUpTo(c, n + 1, g)
    BY <1>0, <2>5
  <2>7. QED BY <2>6
<1> HIDE DEF T
<1>3. QED BY <1>1, <1>2, SetInduction DEF T

\* The end of a batch hands every run over.
LEMMA EndRunsFacts ==
  ASSUME NEW keys, Keys(keys), NEW c, CounterAt(c, keys), DOMAIN c.runs = 1 .. Len(keys) + 1
  PROVE  /\ CounterAt(EndRuns(c), keys)
         /\ \A s \in DOMAIN EndRuns(c).runs : EndRuns(c).runs[s] = NoRun
         /\ \A k : IsShape(k) => Total(EndRuns(c), k) = Total(c, k)
<1> DEFINE n == Len(c.runs)
           ended == CHOOSE f : f = [s \in 0 .. n |-> IF s = 0 THEN c ELSE EndRun(f[s - 1], s)]
<1>1. EndRuns(c) = ended[n]
  BY DEF EndRuns
<1>2. n \in Nat /\ DOMAIN c.runs = 1 .. n
  <2>1. Len(keys) \in Nat /\ c.runs = [s \in DOMAIN c.runs |-> c.runs[s]]
    BY ListFacts DEF Keys, CounterAt
  <2>2. c.runs \in Seq(Range(c.runs))
    <3>1. c.runs \in [1 .. Len(keys) + 1 -> Range(c.runs)]
      BY <2>1 DEF Range
    <3>2. QED BY <2>1, <3>1, SeqDef
  <2>3. QED BY <2>2
<1>3. EndedUpTo(c, n, ended)
  <2>1. PICK f : EndedUpTo(c, n, f)
    <3> HIDE DEF n
    <3>1. QED BY <1>2, EndedExists
  <2> HIDE DEF n
  <2>2. QED BY <2>1, Zenon DEF EndedUpTo
<1> HIDE DEF ended, n
<1>4. ended[0] = c /\ \A s \in 1 .. n : ended[s] = EndRun(ended[s - 1], s)
  <2>1. \A s \in 0 .. n : ended[s] = IF s = 0 THEN c ELSE EndRun(ended[s - 1], s)
    BY <1>3 DEF EndedUpTo
  <2>2. 0 \in 0 .. n /\ \A s \in 1 .. n : s \in 0 .. n /\ s # 0
    BY <1>2
  <2>3. QED BY <2>1, <2>2
<1> DEFINE Good(i) == /\ CounterAt(ended[i], keys) /\ DOMAIN ended[i].runs = 1 .. n
                      /\ \A s \in 1 .. i : ended[i].runs[s] = NoRun
                      /\ \A k : IsShape(k) => Total(ended[i], k) = Total(c, k)
           T == {i \in Nat : i <= n => Good(i)}
<1>5. 0 \in T
  BY <1>2, <1>4
<1>6. ASSUME NEW i \in Nat, i \in T
      PROVE  i + 1 \in T
  <2> SUFFICES ASSUME i + 1 <= n PROVE Good(i + 1)
    OBVIOUS
  <2> DEFINE b == ended[i]
             d == ended[i + 1]
  <2>1. /\ CounterAt(b, keys) /\ DOMAIN b.runs = 1 .. n
        /\ \A s \in 1 .. i : b.runs[s] = NoRun
        /\ \A k : IsShape(k) => Total(b, k) = Total(c, k)
    BY <1>2, <1>6
  <2>2. i + 1 \in 1 .. n /\ d = EndRun(b, i + 1)
    <3>1. i + 1 \in 1 .. n /\ (i + 1) - 1 = i
      BY <1>2
    <3>2. QED BY <1>4, <3>1
  <2> HIDE DEF b, d
  <2>3. /\ CounterAt(d, keys) /\ DOMAIN d.runs = DOMAIN b.runs /\ d.runs[i + 1] = NoRun
        /\ \A s \in DOMAIN b.runs : s # i + 1 => d.runs[s] = b.runs[s]
        /\ \A k : IsShape(k) => Total(d, k) = Total(b, k)
    <3>1. i + 1 \in DOMAIN b.runs
      BY <2>1, <2>2
    <3>2. PICK s : s = i + 1
      OBVIOUS
    <3>3. s \in DOMAIN b.runs /\ d = EndRun(b, s)
      BY <2>2, <3>1, <3>2
    <3>4. CounterAt(b, keys)
      BY <2>1
    <3>5. /\ CounterAt(EndRun(b, s), keys) /\ DOMAIN EndRun(b, s).runs = DOMAIN b.runs
          /\ EndRun(b, s).runs[s] = NoRun
          /\ \A j \in DOMAIN b.runs : j # s => EndRun(b, s).runs[j] = b.runs[j]
          /\ \A k : IsShape(k) => Total(EndRun(b, s), k) = Total(b, k)
      BY <3>3, <3>4, EndRunFacts, Zenon
    <3>6. QED BY <3>2, <3>3, <3>5, Zenon
  <2>4. \A s \in 1 .. i + 1 : d.runs[s] = NoRun
    <3>1. \A s \in 1 .. i + 1 : s = i + 1 \/ (s \in 1 .. i /\ s # i + 1 /\ s \in 1 .. n)
      BY <1>2, <2>2
    <3>2. QED BY <2>1, <2>3, <3>1
  <2>5. QED BY <2>1, <2>3, <2>4 DEF d
<1> HIDE DEF T
<1>7. Nat \subseteq T
  BY <1>5, <1>6, SetInduction
<1>8. Good(n)
  BY <1>2, <1>7 DEF T
<1>9. QED BY <1>1, <1>8

\* Runs that count nothing are as good as no runs.
LEMMA ResetFacts ==
  ASSUME NEW keys, NEW c, CounterAt(c, keys), \A s \in DOMAIN c.runs : c.runs[s] = NoRun,
         NEW other, NEW runs, DOMAIN runs \subseteq 1 .. Len(other) + 1,
         runs = [s \in DOMAIN runs |-> NoRun],
         NEW d, d = [c EXCEPT !.runs = runs]
  PROVE  /\ CounterAt(d, other) /\ d.runs = runs
         /\ \A k : IsShape(k) => Total(d, k) = Total(c, k)
<1>1. /\ c = [runs |-> c.runs, entries |-> c.entries, tables |-> c.tables]
      /\ Table(c.entries) /\ Table(c.tables) /\ Cardinality(DOMAIN c.entries) <= MaxEntries
  BY DEF CounterAt
<1>2. d = [runs |-> runs, entries |-> c.entries, tables |-> c.tables]
  BY <1>1, CounterRecord
<1>3. d.runs = runs /\ d.entries = c.entries /\ d.tables = c.tables
  BY <1>2
<1>4. runs = [s \in DOMAIN runs |-> runs[s]] /\ \A s \in DOMAIN runs : runs[s] = NoRun
  OBVIOUS
<1>5. CounterAt(d, other)
  BY <1>1, <1>2, <1>3, <1>4 DEF CounterAt, RunAt
<1>6. ASSUME NEW k, IsShape(k) PROVE Total(d, k) = Total(c, k)
  <2>1. NoRun.key # k
    BY <1>6, NoShape DEF NoRun
  <2>2. \A f : (\A s \in DOMAIN f : f[s] = NoRun) => InRun(f, k) = 0
    BY <2>1 DEF InRun
  <2>3. InRun(d.runs, k) = 0 /\ InRun(c.runs, k) = 0
    BY <1>3, <1>4, <2>2
  <2>4. QED BY <1>3, <2>3 DEF Total
<1>7. QED BY <1>3, <1>5, <1>6

-----------------------------------------------------------------------------
(* A row.                                                                   *)

RowKey(owner, extent) == <<owner, extent, <<>>>>
PropertyKey(owner, extent, keys, cells, i) == <<owner, extent, Shape(keys[i], cells[i])>>

\* What a row adds to the counter, cell by cell.
CellCounted(c, owner, extent, keys, cells, i) ==
  IF cells[i] = Null THEN c ELSE Increment(c, i + 1, PropertyKey(owner, extent, keys, cells, i))

\* The recursive function of Counted, up to cell n.
CountedUpTo(owner, extent, keys, cells, n, f) ==
  f = [i \in 0 .. n |-> IF i = 0 THEN Increment(counter, 1, RowKey(owner, extent))
                        ELSE CellCounted(f[i - 1], owner, extent, keys, cells, i)]

\* The recursive function of Counted exists.
LEMMA CountedExists ==
  ASSUME NEW owner, NEW extent, NEW keys, NEW cells
  PROVE  \A n \in Nat : \E f : CountedUpTo(owner, extent, keys, cells, n, f)
<1> DEFINE base == Increment(counter, 1, RowKey(owner, extent))
           Next1(e, i) == CellCounted(e, owner, extent, keys, cells, i)
           T == {n \in Nat : \E f : CountedUpTo(owner, extent, keys, cells, n, f)}
<1> HIDE DEF Next1, base
<1>0. \A n, f : CountedUpTo(owner, extent, keys, cells, n, f) <=>
                  f = [i \in 0 .. n |-> IF i = 0 THEN base ELSE Next1(f[i - 1], i)]
  BY Zenon DEF CountedUpTo, Next1, base
<1>1. 0 \in T
  <2> DEFINE f == [i \in 0 .. 0 |-> base]
  <2>1. f = [i \in 0 .. 0 |-> IF i = 0 THEN base ELSE Next1(f[i - 1], i)]
    OBVIOUS
  <2> HIDE DEF f
  <2>2. QED BY <1>0, <2>1
<1>2. ASSUME NEW n \in Nat, n \in T
      PROVE  n + 1 \in T
  <2>1. PICK f : f = [i \in 0 .. n |-> IF i = 0 THEN base ELSE Next1(f[i - 1], i)]
    BY <1>0, <1>2
  <2> DEFINE g == [i \in 0 .. n + 1 |-> IF i = n + 1 THEN Next1(f[n], n + 1) ELSE f[i]]
  <2>2. \A i \in 0 .. n : f[i] = IF i = 0 THEN base ELSE Next1(f[i - 1], i)
    BY <2>1
  <2>3. /\ \A i \in 0 .. n : g[i] = f[i]
        /\ g[n + 1] = Next1(f[n], n + 1)
        /\ g = [i \in 0 .. n + 1 |-> g[i]]
    OBVIOUS
  <2> HIDE DEF g
  <2>4. ASSUME NEW i \in 0 .. n + 1
        PROVE  g[i] = IF i = 0 THEN base ELSE Next1(g[i - 1], i)
    <3>1. CASE i = n + 1
      <4>1. i # 0 /\ i - 1 = n /\ n \in 0 .. n
        BY <3>1
      <4>2. g[i] = Next1(f[n], i) /\ g[n] = f[n]
        BY <2>3, <3>1, <4>1
      <4>3. QED BY <4>1, <4>2
    <3>2. CASE i \in 0 .. n
      <4>1. i # 0 => i - 1 \in 0 .. n
        BY <3>2
      <4>2. QED BY <2>2, <2>3, <3>2, <4>1
    <3>3. QED BY <3>1, <3>2
  <2>5. g = [i \in 0 .. n + 1 |-> IF i = 0 THEN base ELSE Next1(g[i - 1], i)]
    BY <2>3, <2>4
  <2>6. CountedUpTo(owner, extent, keys, cells, n + 1, g)
    BY <1>0, <2>5
  <2>7. QED BY <2>6
<1> HIDE DEF T
<1>3. QED BY <1>1, <1>2, SetInduction DEF T

\* The shapes a row has, those of its first n cells only.
RowHas(owner, extent, keys, cells, n, k) ==
  \/ k = RowKey(owner, extent)
  \/ \E i \in 1 .. n : cells[i] # Null /\ k = PropertyKey(owner, extent, keys, cells, i)

\* The shapes a row is counted under.
LEMMA KeyFacts ==
  ASSUME NEW owner \in {"node", "edge"}, NEW extent, NEW keys, NEW cells, NEW i
  PROVE  /\ IsShape(RowKey(owner, extent)) /\ RowKey(owner, extent)[3] = <<>>
         /\ IsShape(PropertyKey(owner, extent, keys, cells, i))
         /\ PropertyKey(owner, extent, keys, cells, i)[3] = Shape(keys[i], cells[i])
         /\ Shape(keys[i], cells[i])[1] = keys[i] /\ Shape(keys[i], cells[i]) # <<>>
         /\ \A s \in Nat : s # 1 /\ s - 1 = i => Fits(Shape(keys[i], cells[i]), keys, s)
<1>1. \A a, b, e : <<a, b, e>> # <<>> /\ <<a, b, e>>[1] = a /\ <<a, b, e>>[2] = b /\ <<a, b, e>>[3] = e
  <2>1. \A a, b, e : DOMAIN <<a, b, e>> = 1 .. 3
    OBVIOUS
  <2>2. QED BY <2>1
<1>2. \A a, b, e : a = owner => IsShape(<<a, b, e>>)
  BY <1>1 DEF IsShape
<1>3. QED BY <1>1, <1>2 DEF RowKey, PropertyKey, Shape, Fits

\* A row counts each of its shapes once.
LEMMA CountedFacts ==
  ASSUME NEW keys, keys = batch.keys, Keys(keys), CounterAt(counter, keys),
         DOMAIN counter.runs = 1 .. Len(keys) + 1,
         NEW owner \in {"node", "edge"}, NEW extent, NEW cells, Len(cells) = Len(keys)
  PROVE  /\ CounterAt(Counted(owner, extent, cells), keys)
         /\ DOMAIN Counted(owner, extent, cells).runs = 1 .. Len(keys) + 1
         /\ \A k : IsShape(k) =>
              Total(Counted(owner, extent, cells), k) =
                Total(counter, k) + (IF RowHas(owner, extent, keys, cells, Len(keys), k) THEN 1 ELSE 0)
<1> DEFINE n == Len(keys)
           f0 == Increment(counter, 1, RowKey(owner, extent))
           counted == CHOOSE f : CountedUpTo(owner, extent, keys, cells, n, f)
<1>1. Counted(owner, extent, cells) = counted[n]
  BY Zenon DEF Counted, CountedUpTo, CellCounted, RowKey, PropertyKey
<1>2. n \in Nat /\ DOMAIN keys = 1 .. n
  BY ListFacts DEF Keys
<1>3. CountedUpTo(owner, extent, keys, cells, n, counted)
  <2>1. PICK f : CountedUpTo(owner, extent, keys, cells, n, f)
    <3> HIDE DEF n
    <3>1. QED BY <1>2, CountedExists
  <2> HIDE DEF n
  <2>2. QED BY <2>1, Zenon
<1> HIDE DEF counted, n, f0
<1>4. /\ counted[0] = f0
      /\ \A i \in 1 .. n : counted[i] = CellCounted(counted[i - 1], owner, extent, keys, cells, i)
  <2>1. \A i \in 0 .. n : counted[i] = IF i = 0 THEN f0
                                       ELSE CellCounted(counted[i - 1], owner, extent, keys, cells, i)
    BY <1>3 DEF CountedUpTo, f0
  <2>2. 0 \in 0 .. n /\ \A i \in 1 .. n : i \in 0 .. n /\ i # 0
    BY <1>2
  <2>3. QED BY <2>1, <2>2
<1> DEFINE Has(i, k) == RowHas(owner, extent, keys, cells, i, k)
           Good(i) == /\ CounterAt(counted[i], keys) /\ DOMAIN counted[i].runs = 1 .. n + 1
                      /\ \A k : IsShape(k) =>
                           Total(counted[i], k) = Total(counter, k) + (IF Has(i, k) THEN 1 ELSE 0)
           T == {i \in Nat : i <= n => Good(i)}
<1>5. 0 \in T
  <2>1. IsShape(RowKey(owner, extent)) /\ Fits(RowKey(owner, extent)[3], keys, 1)
    BY KeyFacts DEF Fits
  <2>2. 1 \in DOMAIN counter.runs
    BY <1>2 DEF n
  <2>3. /\ CounterAt(f0, keys) /\ DOMAIN f0.runs = DOMAIN counter.runs
        /\ \A k : IsShape(k) => Total(f0, k) = Total(counter, k) + (IF k = RowKey(owner, extent) THEN 1 ELSE 0)
    <3>1. PICK c, r, s : c = counter /\ r = RowKey(owner, extent) /\ s = 1
      OBVIOUS
    <3>2. CounterAt(c, keys) /\ s \in DOMAIN c.runs /\ IsShape(r) /\ Fits(r[3], keys, s)
      BY <2>1, <2>2, <3>1
    <3>3. /\ CounterAt(Increment(c, s, r), keys) /\ DOMAIN Increment(c, s, r).runs = DOMAIN c.runs
          /\ \A k : IsShape(k) => Total(Increment(c, s, r), k) = Total(c, k) + (IF k = r THEN 1 ELSE 0)
      BY <3>2, IncrementFacts
    <3>4. QED BY <3>1, <3>3 DEF f0
  <2>4. \A k : Has(0, k) <=> k = RowKey(owner, extent)
    BY DEF RowHas
  <2> HIDE DEF Has
  <2>5. QED BY <1>4, <2>3, <2>4 DEF n
<1>6. ASSUME NEW i \in Nat, i \in T
      PROVE  i + 1 \in T
  <2> SUFFICES ASSUME i + 1 <= n PROVE Good(i + 1)
    OBVIOUS
  <2> DEFINE b == counted[i]
             d == counted[i + 1]
             key == PropertyKey(owner, extent, keys, cells, i + 1)
  <2>1. /\ CounterAt(b, keys) /\ DOMAIN b.runs = 1 .. n + 1
        /\ \A k : IsShape(k) => Total(b, k) = Total(counter, k) + (IF Has(i, k) THEN 1 ELSE 0)
    BY <1>2, <1>6
  <2>2. d = CellCounted(b, owner, extent, keys, cells, i + 1)
    <3>1. i + 1 \in 1 .. n /\ (i + 1) - 1 = i
      BY <1>2
    <3>2. QED BY <1>4, <3>1
  <2>3. \A k : Has(i + 1, k) <=> Has(i, k) \/ (cells[i + 1] # Null /\ k = key)
    <3>1. \A j : j \in 1 .. i + 1 <=> j \in 1 .. i \/ j = i + 1
      OBVIOUS
    <3>2. QED BY <3>1 DEF RowHas
  <2> HIDE DEF b, d
  <2>4. CASE cells[i + 1] = Null
    <3>1. d = b
      BY <2>2, <2>4 DEF CellCounted
    <3>2. \A k : Has(i + 1, k) <=> Has(i, k)
      BY <2>3, <2>4
    <3> HIDE DEF Has
    <3>3. QED BY <2>1, <3>1, <3>2 DEF d
  <2>5. CASE cells[i + 1] # Null
    <3>1. d = Increment(b, (i + 1) + 1, key)
      BY <2>2, <2>5 DEF CellCounted
    <3>2. PICK s : s = (i + 1) + 1
      OBVIOUS
    <3>3. s \in DOMAIN b.runs /\ s \in Nat /\ s # 1 /\ s - 1 = i + 1
      BY <1>2, <2>1, <3>2
    <3>4. IsShape(key) /\ Fits(key[3], keys, s)
      BY <3>3, KeyFacts
    <3>5. ~Has(i, key)
      <4>1. key # RowKey(owner, extent)
        BY KeyFacts
      <4>2. ASSUME NEW j \in 1 .. i PROVE key # PropertyKey(owner, extent, keys, cells, j)
        <5>1. j \in DOMAIN keys /\ i + 1 \in DOMAIN keys /\ j # i + 1
          BY <1>2
        <5>2. keys[j] # keys[i + 1]
          BY <5>1 DEF Keys, IsInjective
        <5>3. key[3][1] = keys[i + 1] /\ PropertyKey(owner, extent, keys, cells, j)[3][1] = keys[j]
          BY KeyFacts
        <5>4. QED BY <5>2, <5>3
      <4>3. QED BY <4>1, <4>2 DEF RowHas
    <3> HIDE DEF key
    <3>6. /\ CounterAt(d, keys) /\ DOMAIN d.runs = DOMAIN b.runs
          /\ \A k : IsShape(k) => Total(d, k) = Total(b, k) + (IF k = key THEN 1 ELSE 0)
      <4>1. d = Increment(b, s, key)
        BY <3>1, <3>2
      <4>2. PICK r : r = key
        OBVIOUS
      <4>3. CounterAt(b, keys) /\ IsShape(r) /\ Fits(r[3], keys, s)
        BY <2>1, <3>4, <4>2
      <4>4. /\ CounterAt(Increment(b, s, r), keys) /\ DOMAIN Increment(b, s, r).runs = DOMAIN b.runs
            /\ \A k : IsShape(k) => Total(Increment(b, s, r), k) = Total(b, k) + (IF k = r THEN 1 ELSE 0)
        BY <3>3, <4>3, IncrementFacts
      <4>5. QED BY <4>1, <4>2, <4>4
    <3>7. \A k : Has(i + 1, k) <=> Has(i, k) \/ k = key
      BY <2>3, <2>5
    <3> HIDE DEF Has
    <3>8. ASSUME NEW k, IsShape(k)
          PROVE  Total(d, k) = Total(counter, k) + (IF Has(i + 1, k) THEN 1 ELSE 0)
      <4>1. Total(counter, k) \in Nat
        <5>1. At(counter.entries, k) \in Nat /\ At(counter.tables, k) \in Nat
          BY AtFacts DEF CounterAt
        <5>2. InRun(counter.runs, k) \in Nat
          BY <3>8, InRunFacts DEF CounterAt
        <5>3. QED BY <5>1, <5>2 DEF Total
      <4>2. CASE k = key
        BY <2>1, <3>5, <3>6, <3>7, <3>8, <4>1, <4>2
      <4>3. CASE k # key
        BY <2>1, <3>6, <3>7, <3>8, <4>1, <4>3
      <4>4. QED BY <4>2, <4>3
    <3>9. QED BY <2>1, <3>6, <3>8 DEF d
  <2>6. QED BY <2>4, <2>5
<1> HIDE DEF T
<1>7. Nat \subseteq T
  BY <1>5, <1>6, SetInduction
<1>8. Good(n)
  BY <1>2, <1>7 DEF T
<1>9. QED BY <1>1, <1>8 DEF n

-----------------------------------------------------------------------------
(* What is counted: the owners of a shape.                                  *)

Extent(kind, id) ==
  IF kind = "node" THEN <<nodes[id]>>
  ELSE <<edges[id].type, nodes[edges[id].from], nodes[edges[id].to]>>

Has(kind, id, detail) ==
  \/ detail = <<>>
  \/ \E v \in values : v[1] = kind /\ v[2] = id /\ detail = <<v[3], v[4], TagOf(v)>>

Items(k) == {id \in Owners(k[1]) : Extent(k[1], id) = k[2] /\ Has(k[1], id, k[3])}

\* The owners of a shape are counted by a number.
LEMMA ItemsFinite ==
  ASSUME GraphAt, NEW k
  PROVE  IsFiniteSet(Items(k)) /\ Cardinality(Items(k)) \in Nat
<1>1. Len(nodes) \in Nat /\ DOMAIN nodes = 1 .. Len(nodes)
      /\ Len(edges) \in Nat /\ DOMAIN edges = 1 .. Len(edges)
  BY ListFacts DEF GraphAt
<1>2. IsFiniteSet(DOMAIN nodes) /\ IsFiniteSet(DOMAIN edges)
  BY <1>1, FS_Interval
<1>3. IsFiniteSet(Owners(k[1]))
  BY <1>2 DEF Owners
<1>4. Items(k) \subseteq Owners(k[1])
  BY DEF Items
<1>5. QED BY <1>3, <1>4, FS_Subset, FS_CardinalityType

\* The details of a row of the batch: the properties it stores.
SameDetails(rows, keys, cells) ==
  \A d : (\E v \in rows : d = <<v[3], v[4], TagOf(v)>>) <=>
           \E i \in 1 .. Len(cells) : cells[i] # Null /\ d = Shape(keys[i], cells[i])

\* The values a row stores are those of its cells.
LEMMA StoredDetails ==
  ASSUME batch # Null, NEW keys, keys = batch.keys, NEW kind, NEW id, NEW cells,
         Len(cells) \in Nat
  PROVE  /\ \A v \in Stored(kind, id, cells) : v[1] = kind /\ v[2] = id
         /\ SameDetails(Stored(kind, id, cells), keys, cells)
<1> DEFINE row(i) == <<kind, id, keys[i], cells[i].class, cells[i].tag>>
<1>1. \A v : v \in Stored(kind, id, cells) <=> \E i \in 1 .. Len(cells) : cells[i] # Null /\ v = row(i)
  BY DEF Stored
<1>2. \A i : /\ row(i)[1] = kind /\ row(i)[2] = id /\ row(i)[3] = keys[i]
             /\ row(i)[4] = cells[i].class /\ row(i)[5] = cells[i].tag
  OBVIOUS
<1> HIDE DEF row
<1>3. \A i : <<row(i)[3], row(i)[4], TagOf(row(i))>> = Shape(keys[i], cells[i])
  <2>1. \A i : TagOf(row(i)) = IF cells[i].class = "blob" THEN cells[i].tag ELSE "0"
    BY <1>2 DEF TagOf
  <2>2. QED BY <1>2, <2>1 DEF Shape
<1>4. \A v \in Stored(kind, id, cells) : v[1] = kind /\ v[2] = id
  BY <1>1, <1>2
<1>5. ASSUME NEW d, NEW v \in Stored(kind, id, cells), d = <<v[3], v[4], TagOf(v)>>
      PROVE  \E i \in 1 .. Len(cells) : cells[i] # Null /\ d = Shape(keys[i], cells[i])
  <2>1. PICK i \in 1 .. Len(cells) : cells[i] # Null /\ v = row(i)
    BY <1>1
  <2>2. QED BY <1>3, <1>5, <2>1
<1>6. ASSUME NEW i \in 1 .. Len(cells), cells[i] # Null
      PROVE  \E v \in Stored(kind, id, cells) : Shape(keys[i], cells[i]) = <<v[3], v[4], TagOf(v)>>
  <2>1. row(i) \in Stored(kind, id, cells)
    BY <1>1, <1>6
  <2>2. QED BY <1>3, <2>1
<1>7. QED BY <1>4, <1>5, <1>6 DEF SameDetails

\* A new owner is counted once for each of its shapes; the others are what they were.
LEMMA NewOwner ==
  ASSUME GraphAt, batch # Null, NEW keys, keys = batch.keys, NEW cells, Len(cells) \in Nat,
         NEW kind \in {"node", "edge"}, NEW id, id \notin Owners(kind),
         Owners(kind)' = Owners(kind) \cup {id},
         \A o \in {"node", "edge"} : o # kind => Owners(o)' = Owners(o),
         \A o \in {"node", "edge"} : \A i \in Owners(o) : Extent(o, i)' = Extent(o, i),
         values' = values \cup Stored(kind, id, cells),
         NEW extent, Extent(kind, id)' = extent,
         NEW k, IsShape(k)
  PROVE  Cardinality(Items(k))' =
           Cardinality(Items(k)) + (IF RowHas(kind, extent, keys, cells, Len(cells), k) THEN 1 ELSE 0)
<1> DEFINE new == RowHas(kind, extent, keys, cells, Len(cells), k)
<1>0. k[1] \in {"node", "edge"} /\ k = <<k[1], k[2], k[3]>>
  BY DEF IsShape
<1>1. \A o \in {"node", "edge"} : \A i \in Owners(o) : Has(o, i, k[3])' <=> Has(o, i, k[3])
  <2>1. \A v \in Stored(kind, id, cells) : v[1] = kind /\ v[2] = id
    BY StoredDetails
  <2>2. QED BY <2>1 DEF Has
<1>2. Has(kind, id, k[3])' <=>
        \/ k[3] = <<>>
        \/ \E i \in 1 .. Len(cells) : cells[i] # Null /\ k[3] = Shape(keys[i], cells[i])
  <2>1. \A v \in values : ~(v[1] = kind /\ v[2] = id)
    BY DEF GraphAt
  <2>2. \A v \in Stored(kind, id, cells) : v[1] = kind /\ v[2] = id
    BY StoredDetails
  <2>3. (\E v \in values' : v[1] = kind /\ v[2] = id /\ k[3] = <<v[3], v[4], TagOf(v)>>) <=>
          \E v \in Stored(kind, id, cells) : k[3] = <<v[3], v[4], TagOf(v)>>
    BY <2>1, <2>2
  <2>4. (\E v \in Stored(kind, id, cells) : k[3] = <<v[3], v[4], TagOf(v)>>) <=>
          \E i \in 1 .. Len(cells) : cells[i] # Null /\ k[3] = Shape(keys[i], cells[i])
    <3>1. SameDetails(Stored(kind, id, cells), keys, cells)
      BY StoredDetails
    <3>2. QED BY <3>1, Zenon DEF SameDetails
  <2>5. QED BY <2>3, <2>4 DEF Has
<1>3. new <=> k[1] = kind /\ k[2] = extent /\ Has(kind, id, k[3])'
  <2>1. k = RowKey(kind, extent) <=> k[1] = kind /\ k[2] = extent /\ k[3] = <<>>
    BY <1>0 DEF RowKey
  <2>2. \A i : k = PropertyKey(kind, extent, keys, cells, i) <=>
                 k[1] = kind /\ k[2] = extent /\ k[3] = Shape(keys[i], cells[i])
    BY <1>0 DEF PropertyKey
  <2>3. QED BY <1>2, <2>1, <2>2 DEF RowHas
<1> HIDE DEF new
<1>4. Items(k)' = Items(k) \cup IF new THEN {id} ELSE {}
  <2>1. CASE k[1] # kind
    <3>1. Owners(k[1])' = Owners(k[1])
      BY <1>0, <2>1
    <3>2. QED BY <1>0, <1>1, <1>3, <2>1, <3>1 DEF Items
  <2>2. CASE k[1] = kind
    <3>1. Owners(k[1])' = Owners(k[1]) \cup {id} /\ id \notin Owners(k[1])
      BY <2>2
    <3>2. new <=> Extent(k[1], id)' = k[2] /\ Has(k[1], id, k[3])'
      BY <1>3, <2>2
    <3>3. \A i \in Owners(k[1]) : /\ Extent(k[1], i)' = Extent(k[1], i)
                                  /\ Has(k[1], i, k[3])' <=> Has(k[1], i, k[3])
      BY <1>0, <1>1
    <3>4. QED BY <3>1, <3>2, <3>3 DEF Items
  <2>3. QED BY <2>1, <2>2
<1>5. new => id \notin Items(k)
  BY <1>3 DEF Items
<1>6. IsFiniteSet(Items(k)) /\ Cardinality(Items(k)) \in Nat
  BY ItemsFinite
<1>7. CASE new
  <2>1. Cardinality(Items(k) \cup {id}) = Cardinality(Items(k)) + 1
    BY <1>5, <1>6, <1>7, FS_AddElement
  <2>2. QED BY <1>4, <1>7, <2>1 DEF new
<1>8. CASE ~new
  <2>1. Items(k)' = Items(k)
    BY <1>4, <1>8
  <2>2. QED BY <1>6, <1>8, <2>1 DEF new
<1>9. QED BY <1>7, <1>8

-----------------------------------------------------------------------------
(* The end.                                                                 *)

\* The rows of GRAPH_SHAPE_BACKFILL before the grouping.
Rows == LET scoped(kind) == UNION {{<<<<kind, s, <<>>>>, id>> : s \in Scopes(kind, id)} :
                                     id \in Owners(kind)}
            property     == UNION {{<<<<v[1], s, <<v[3], v[4], TagOf(v)>>>>, v[2]>> :
                                      s \in Scopes(v[1], v[2])} : v \in values}
        IN  scoped("node") \cup scoped("edge") \cup property

\* Whether an owner is in the group of this row of an aggregate.
In(r, id) == /\ IsShape(r) /\ id \in Owners(r[1])
             /\ r[2] \in Scopes(r[1], id) /\ Has(r[1], id, r[3])

\* Rows pairs each owner with every scope and detail it has.
LEMMA RowsMean ==
  ASSUME GraphAt
  PROVE  \A x : x \in Rows <=> \E r, id : x = <<r, id>> /\ In(r, id)
<1> DEFINE Scoped(kind) == UNION {{<<<<kind, s, <<>>>>, id>> : s \in Scopes(kind, id)} :
                                     id \in Owners(kind)}
           Property     == UNION {{<<<<v[1], s, <<v[3], v[4], TagOf(v)>>>>, v[2]>> :
                                      s \in Scopes(v[1], v[2])} : v \in values}
<1>0. \A a, b, e : <<a, b, e>>[1] = a /\ <<a, b, e>>[2] = b /\ <<a, b, e>>[3] = e
  OBVIOUS
<1>1. \A kind, s, d : kind \in {"node", "edge"} => IsShape(<<kind, s, d>>)
  BY <1>0 DEF IsShape
<1>2. Rows = Scoped("node") \cup Scoped("edge") \cup Property
  BY DEF Rows
<1>3. ASSUME NEW kind \in {"node", "edge"}, NEW x \in Scoped(kind)
      PROVE  \E r, id : x = <<r, id>> /\ In(r, id)
  <2>1. PICK id, s : id \in Owners(kind) /\ s \in Scopes(kind, id) /\ x = <<<<kind, s, <<>>>>, id>>
    OBVIOUS
  <2>2. PICK r : r = <<kind, s, <<>>>>
    OBVIOUS
  <2>3. r[1] = kind /\ r[2] = s /\ r[3] = <<>> /\ IsShape(r)
    BY <1>0, <1>1, <2>2
  <2>4. In(r, id)
    BY <2>1, <2>3 DEF In, Has
  <2>5. QED BY <2>1, <2>2, <2>4
<1>4. ASSUME NEW x \in Property
      PROVE  \E r, id : x = <<r, id>> /\ In(r, id)
  <2>1. PICK v, s :
          v \in values /\ s \in Scopes(v[1], v[2]) /\ x = <<<<v[1], s, <<v[3], v[4], TagOf(v)>>>>, v[2]>>
    OBVIOUS
  <2>2. PICK r : r = <<v[1], s, <<v[3], v[4], TagOf(v)>>>>
    OBVIOUS
  <2>3. v[1] \in {"node", "edge"} /\ v[2] \in Owners(v[1])
    BY <2>1 DEF GraphAt
  <2>4. r[1] = v[1] /\ r[2] = s /\ r[3] = <<v[3], v[4], TagOf(v)>> /\ IsShape(r)
    BY <1>0, <1>1, <2>2, <2>3
  <2>5. In(r, v[2])
    BY <2>1, <2>3, <2>4 DEF In, Has
  <2>6. QED BY <2>1, <2>2, <2>5
<1>5. ASSUME NEW r, NEW id, In(r, id)
      PROVE  <<r, id>> \in Rows
  <2>1. /\ r = <<r[1], r[2], r[3]>> /\ r[1] \in {"node", "edge"}
        /\ id \in Owners(r[1]) /\ r[2] \in Scopes(r[1], id) /\ Has(r[1], id, r[3])
    BY <1>5 DEF In, IsShape
  <2>2. CASE r[3] = <<>>
    <3>1. r = <<r[1], r[2], <<>>>>
      BY <2>1, <2>2
    <3>2. <<<<r[1], r[2], <<>>>>, id>> \in Scoped(r[1])
      BY <2>1
    <3>3. <<r, id>> \in Scoped(r[1])
      BY <3>1, <3>2
    <3> HIDE DEF Scoped, Property
    <3>4. QED BY <1>2, <2>1, <3>3
  <2>3. CASE \E v \in values : v[1] = r[1] /\ v[2] = id /\ r[3] = <<v[3], v[4], TagOf(v)>>
    <3>1. PICK v \in values : v[1] = r[1] /\ v[2] = id /\ r[3] = <<v[3], v[4], TagOf(v)>>
      BY <2>3
    <3>2. r = <<v[1], r[2], <<v[3], v[4], TagOf(v)>>>>
      BY <2>1, <3>1
    <3>3. r[2] \in Scopes(v[1], v[2])
      BY <2>1, <3>1
    <3>4. <<<<v[1], r[2], <<v[3], v[4], TagOf(v)>>>>, v[2]>> \in Property
      BY <3>3
    <3>5. <<r, id>> \in Property
      BY <3>1, <3>2, <3>4
    <3> HIDE DEF Scoped, Property
    <3>6. QED BY <1>2, <3>5
  <2>4. QED BY <2>1, <2>2, <2>3 DEF Has
<1> HIDE DEF Scoped, Property
<1>6. QED BY <1>2, <1>3, <1>4, <1>5

\* The labels of a shape are those of each of its owners.
LEMMA ExpandedFacts ==
  ASSUME NEW k, IsShape(k), NEW id \in Items(k)
  PROVE  \A r : r \in Expanded(k) <=> /\ r = <<k[1], r[2], k[3]>> /\ r[2] \in Scopes(k[1], id)
<1>0. /\ k[1] \in {"node", "edge"} /\ Extent(k[1], id) = k[2]
  BY DEF IsShape, Items
<1>1. CASE k[1] = "node"
  <2>1. k[2][1] = nodes[id]
    BY <1>0, <1>1 DEF Extent
  <2>2. Expanded(k) = {<<k[1], <<l>>, k[3]>> : l \in LabelsOf(nodes[id])}
    BY <1>1, <2>1 DEF Expanded
  <2>3. Scopes(k[1], id) = {<<l>> : l \in LabelsOf(nodes[id])}
    BY <1>1 DEF Scopes
  <2>4. QED BY <2>2, <2>3
<1>2. CASE k[1] = "edge"
  <2>1. /\ k[2][1] = edges[id].type /\ k[2][2] = nodes[edges[id].from]
        /\ k[2][3] = nodes[edges[id].to]
    BY <1>0, <1>2 DEF Extent
  <2> DEFINE A == LabelsOf(nodes[edges[id].from])
             B == LabelsOf(nodes[edges[id].to])
             t == edges[id].type
  <2>2. Expanded(k) = {<<k[1], <<t, l[1], l[2]>>, k[3]>> : l \in A \X B}
    BY <1>2, <2>1 DEF Expanded
  <2>3. Scopes(k[1], id) = {<<t, a, b>> : a \in A, b \in B}
    BY <1>2 DEF Scopes
  <2> HIDE DEF A, B, t
  <2>4. \A s : s \in Scopes(k[1], id) <=> \E l \in A \X B : s = <<t, l[1], l[2]>>
    <3>1. ASSUME NEW a \in A, NEW b \in B PROVE \E l \in A \X B : <<t, a, b>> = <<t, l[1], l[2]>>
      <4>1. <<a, b>> \in A \X B /\ <<a, b>>[1] = a /\ <<a, b>>[2] = b
        OBVIOUS
      <4>2. QED BY <4>1
    <3>2. ASSUME NEW l \in A \X B PROVE l[1] \in A /\ l[2] \in B
      OBVIOUS
    <3>3. QED BY <2>3, <3>1, <3>2
  <2>5. QED BY <2>2, <2>4
<1>3. QED BY <1>0, <1>1, <1>2

\* Joined with the members of the label groups and summed, exact tables are the backfill.
LEMMA AggregatedFacts ==
  ASSUME GraphAt, NEW tables, Table(tables),
         \A k : IsShape(k) => At(tables, k) = Cardinality(Items(k))
  PROVE  Aggregated(tables) = Backfill
<1> DEFINE K(r) == {k \in DOMAIN tables : r \in Expanded(k)}
           G(r) == UNION {Items(k) : k \in K(r)}
           X(r) == {x \in Rows : x[1] = r}
           D == UNION {Expanded(k) : k \in DOMAIN tables}
           E == {x[1] : x \in Rows}
<1>1. Aggregated(tables) = [r \in D |-> SumFunctionOnSet(tables, K(r))]
  BY Zenon DEF Aggregated
<1>2. Backfill = [r \in E |-> Cardinality(X(r))]
  BY Zenon DEF Backfill, Rows
<1>3. ASSUME NEW k \in DOMAIN tables
      PROVE  IsShape(k) /\ tables[k] = Cardinality(Items(k)) /\ Items(k) # {}
  <2>1. IsShape(k) /\ At(tables, k) # 0 /\ tables[k] = At(tables, k)
    BY AtFacts DEF Table, At
  <2>2. QED BY <2>1, FS_EmptySet
<1>4. ASSUME NEW k \in DOMAIN tables, NEW id \in Items(k), NEW r \in Expanded(k)
      PROVE  In(r, id) /\ k = <<r[1], Extent(r[1], id), r[3]>>
  <2>1. r = <<k[1], r[2], k[3]>> /\ r[2] \in Scopes(k[1], id)
    BY <1>3, <1>4, ExpandedFacts
  <2>2. r[1] = k[1] /\ r[3] = k[3]
    BY <2>1
  <2>3. id \in Owners(k[1]) /\ Extent(k[1], id) = k[2] /\ Has(k[1], id, k[3])
    BY <1>4 DEF Items
  <2>4. k = <<k[1], k[2], k[3]>> /\ k[1] \in {"node", "edge"}
    BY <1>3 DEF IsShape
  <2>5. In(r, id)
    BY <2>1, <2>2, <2>3, <2>4 DEF In, IsShape
  <2>6. QED BY <2>2, <2>3, <2>4, <2>5
<1>5. ASSUME NEW r, NEW id, In(r, id)
      PROVE  \E k \in DOMAIN tables : id \in Items(k) /\ r \in Expanded(k)
  <2> DEFINE k == <<r[1], Extent(r[1], id), r[3]>>
  <2>1. k[1] = r[1] /\ k[2] = Extent(r[1], id) /\ k[3] = r[3]
    OBVIOUS
  <2>2. /\ r = <<r[1], r[2], r[3]>> /\ r[1] \in {"node", "edge"}
        /\ id \in Owners(r[1]) /\ r[2] \in Scopes(r[1], id) /\ Has(r[1], id, r[3])
    BY <1>5 DEF In, IsShape
  <2>3. IsShape(k)
    BY <2>1, <2>2 DEF IsShape
  <2> HIDE DEF k
  <2>4. id \in Items(k)
    BY <2>1, <2>2 DEF Items
  <2>5. k \in DOMAIN tables
    <3>1. IsFiniteSet(Items(k)) /\ Cardinality(Items(k)) # 0
      BY <2>4, ItemsFinite, FS_EmptySet
    <3>2. At(tables, k) # 0
      BY <2>3, <3>1
    <3>3. QED BY <3>2, AtFacts
  <2>6. r \in Expanded(k)
    BY <2>1, <2>2, <2>3, <2>4, ExpandedFacts
  <2>7. QED BY <2>4, <2>5, <2>6
<1>6. \A r : \A id : id \in G(r) <=> In(r, id)
  BY <1>4, <1>5
<1>7. \A x : x \in Rows <=> \E r, id : x = <<r, id>> /\ In(r, id)
  BY RowsMean
<1>8. D = E
  <2>1. ASSUME NEW r \in D PROVE r \in E
    <3>1. PICK k \in DOMAIN tables : r \in Expanded(k)
      BY <2>1
    <3>2. PICK id : id \in Items(k)
      BY <1>3
    <3>3. <<r, id>> \in Rows
      BY <1>4, <1>7, <3>1, <3>2
    <3>4. <<r, id>>[1] = r
      OBVIOUS
    <3>5. QED BY <3>3, <3>4
  <2>2. ASSUME NEW x \in Rows PROVE x[1] \in D
    <3>1. PICK r, id : x = <<r, id>> /\ In(r, id)
      BY <1>7
    <3>2. x[1] = r
      BY <3>1
    <3>3. QED BY <1>5, <3>1, <3>2
  <2> HIDE DEF D
  <2>3. QED BY <2>1, <2>2
<1>9. ASSUME NEW r \in D
      PROVE  SumFunctionOnSet(tables, K(r)) = Cardinality(X(r))
  <2> DEFINE I == [k \in K(r) |-> Items(k)]
  <2>1. IsFiniteSet(K(r))
    <3>1. IsFiniteSet(DOMAIN tables) /\ K(r) \subseteq DOMAIN tables
      BY DEF Table
    <3> HIDE DEF K
    <3>2. QED BY <3>1, FS_Subset
  <2>2. \A k \in K(r) : I[k] = Items(k) /\ k \in DOMAIN tables /\ r \in Expanded(k)
    OBVIOUS
  <2>3. UNION {I[k] : k \in K(r)} = G(r)
    OBVIOUS
  <2> HIDE DEF I
  <2>4. IsFiniteSet(G(r))
    <3>1. G(r) \subseteq DOMAIN nodes \cup DOMAIN edges
      BY DEF Items, Owners
    <3>2. Len(nodes) \in Nat /\ DOMAIN nodes = 1 .. Len(nodes)
          /\ Len(edges) \in Nat /\ DOMAIN edges = 1 .. Len(edges)
      BY ListFacts DEF GraphAt
    <3>3. IsFiniteSet(DOMAIN nodes) /\ IsFiniteSet(DOMAIN edges)
      BY <3>2, FS_Interval
    <3>4. IsFiniteSet(DOMAIN nodes \cup DOMAIN edges)
      BY <3>3, FS_Union
    <3> HIDE DEF G
    <3>5. QED BY <3>1, <3>4, FS_Subset
  <2>5. \A k \in K(r) : tables[k] = Cardinality(I[k])
    BY <1>3, <2>2
  <2>6. \A k, l \in K(r) : k # l => I[k] \cap I[l] = {}
    BY <1>4, <2>2
  <2>7. X(r) = {r} \X G(r)
    <3>1. ASSUME NEW x \in X(r) PROVE x \in {r} \X G(r)
      <4>1. PICK q, id : x = <<q, id>> /\ In(q, id)
        BY <1>7
      <4>2. q = r
        BY <4>1
      <4> HIDE DEF G
      <4>3. QED BY <1>6, <4>1, <4>2
    <3>2. ASSUME NEW id \in G(r) PROVE <<r, id>> \in X(r)
      <4>1. <<r, id>> \in Rows
        BY <1>6, <1>7
      <4>2. QED BY <4>1
    <3> HIDE DEF X, G
    <3>3. QED BY <3>1, <3>2
  <2> HIDE DEF K, G, X
  <2>8. SumFunctionOnSet(tables, K(r)) = Cardinality(G(r))
    <3>1. PICK S : S = K(r)
      OBVIOUS
    <3>2. SumFunctionOnSet(tables, S) = Cardinality(UNION {I[k] : k \in S})
      <4>1. IsFiniteSet(S) /\ IsFiniteSet(UNION {I[k] : k \in S})
        BY <2>1, <2>3, <2>4, <3>1
      <4>2. \A k \in S : tables[k] = Cardinality(I[k])
        BY <2>5, <3>1
      <4>3. \A k, l \in S : k # l => I[k] \cap I[l] = {}
        BY <2>6, <3>1
      <4>4. QED BY <4>1, <4>2, <4>3, SumOfSizes
    <3>3. QED BY <2>3, <3>1, <3>2
  <2>9. Cardinality(X(r)) = Cardinality(G(r))
    <3>1. IsFiniteSet({r}) /\ Cardinality({r}) = 1
      BY FS_Singleton
    <3>2. Cardinality({r} \X G(r)) = Cardinality({r}) * Cardinality(G(r))
      BY <2>4, <3>1, FS_Product
    <3>3. Cardinality(G(r)) \in Nat
      BY <2>4, FS_CardinalityType
    <3>4. QED BY <2>7, <3>1, <3>2, <3>3
  <2>10. QED BY <2>8, <2>9
<1> HIDE DEF D, E, K, X, G
<1>10. QED BY <1>1, <1>2, <1>8, <1>9

-----------------------------------------------------------------------------
(* The counts are exact at every step.                                      *)

HandKeys == IF batch = Null THEN <<>> ELSE batch.keys

CountInv ==
  /\ Cardinality(DOMAIN counter.entries) <= MaxEntries
  /\ status \in {"nodes", "edges"} =>
       /\ CounterAt(counter, HandKeys)
       /\ DOMAIN counter.runs = IF batch = Null THEN {} ELSE 1 .. Len(HandKeys) + 1
       /\ \A k : IsShape(k) => Total(counter, k) = Cardinality(Items(k))
  /\ status = "ok" => aggregates = Backfill

\* The keys of the batch in hand are distinct.
LEMMA HandKeysFacts ==
  ASSUME BatchAt
  PROVE  Keys(HandKeys) /\ Len(HandKeys) \in Nat
<1>1. CASE batch = Null
  <2>1. Keys(<<>>) /\ Len(<<>>) \in Nat
    BY DEF Keys, IsList, IsInjective, Range
  <2>2. QED BY <1>1, <2>1 DEF HandKeys
<1>2. CASE batch # Null
  <2>1. batch.keys \in Seq(Nat) /\ IsInjective(batch.keys)
    BY <1>2 DEF BatchAt, HandBatches
  <2>2. QED BY <1>2, <2>1, SeqIsList, ListFacts DEF HandKeys, Keys
<1>3. QED BY <1>1, <1>2

\* Without a new row the owners of a shape stay.
LEMMA SameItems ==
  ASSUME UNCHANGED <<nodes, edges, values>>
  PROVE  \A k : Items(k)' = Items(k)
BY DEF Items, Owners, Extent, Has

\* The backfill depends on the tables only.
LEMMA SameBackfill ==
  ASSUME UNCHANGED <<nodes, edges, values, members>>
  PROVE  Backfill' = Backfill
BY DEF Backfill, Owners, Scopes, LabelsOf

LEMMA CountInit == ASSUME Init PROVE CountInv
<1>1. /\ counter = [runs |-> <<>>, entries |-> <<>>, tables |-> <<>>] /\ batch = Null
      /\ nodes = <<>> /\ edges = <<>> /\ status = "nodes"
  BY DEF Init, NewCounter
<1>2. counter.runs = <<>> /\ counter.entries = <<>> /\ counter.tables = <<>>
  BY <1>1
<1>3. DOMAIN <<>> = {} /\ Cardinality({}) = 0
  BY FS_EmptySet
<1>4. Cardinality(DOMAIN counter.entries) <= MaxEntries
  BY <1>2, <1>3, ShapeCountsAssumption
<1>5. counter.runs = [s \in DOMAIN counter.runs |-> counter.runs[s]]
  BY <1>2
<1>6. CounterAt(counter, HandKeys) /\ DOMAIN counter.runs = {}
  BY <1>1, <1>2, <1>3, <1>4, <1>5, NoShape DEF CounterAt
<1>7. ASSUME NEW k, IsShape(k) PROVE Total(counter, k) = Cardinality(Items(k))
  <2>1. Items(k) = {}
    BY <1>1, <1>3 DEF Items, Owners
  <2>2. InRun(counter.runs, k) = 0
    BY <1>6 DEF InRun
  <2>3. At(counter.entries, k) = 0 /\ At(counter.tables, k) = 0
    BY <1>2, NoShape
  <2>4. QED BY <1>3, <2>1, <2>2, <2>3 DEF Total
<1>8. QED BY <1>1, <1>4, <1>6, <1>7 DEF CountInv

\* A failed import is not counted any more.
LEMMA FailCounts == ASSUME CountInv, Fail PROVE CountInv'
BY DEF CountInv, Fail

\* A batch starts with fresh runs.
LEMMA BeginCounts ==
  ASSUME BatchAt, CountInv, batch = Null, status \in {"nodes", "edges"},
         BatchAt', batch' \in HandBatches,
         NEW n \in Nat, Len(batch'.keys) = n, counter' = [counter EXCEPT !.runs = NewRuns(n)],
         UNCHANGED <<nodes, edges, values, status>>
  PROVE  CountInv'
<1>1. batch' # Null
  BY GraphShapeAssumption
<1>2. PICK c, d, keys, other : c = counter /\ d = counter' /\ keys = HandKeys /\ other = batch'.keys
  OBVIOUS
<1>3. /\ CounterAt(c, keys) /\ DOMAIN c.runs = {}
      /\ \A k : IsShape(k) => Total(c, k) = Cardinality(Items(k))
  BY <1>2 DEF CountInv
<1>4. /\ DOMAIN NewRuns(n) = 1 .. n + 1
      /\ NewRuns(n) = [s \in DOMAIN NewRuns(n) |-> NoRun]
  BY DEF NewRuns
<1>5. d = [c EXCEPT !.runs = NewRuns(n)] /\ Len(other) = n
  BY <1>2
<1>6. /\ CounterAt(d, other) /\ d.runs = NewRuns(n)
      /\ \A k : IsShape(k) => Total(d, k) = Total(c, k)
  <2> DEFINE runs == NewRuns(n)
  <2>1. DOMAIN runs \subseteq 1 .. Len(other) + 1 /\ runs = [s \in DOMAIN runs |-> NoRun]
    BY <1>4, <1>5
  <2>2. \A s \in DOMAIN c.runs : c.runs[s] = NoRun
    BY <1>3
  <2>3. d = [c EXCEPT !.runs = runs]
    BY <1>5
  <2> HIDE DEF runs
  <2>4. /\ CounterAt(d, other) /\ d.runs = runs
        /\ \A k : IsShape(k) => Total(d, k) = Total(c, k)
    BY <1>3, <2>1, <2>2, <2>3, ResetFacts
  <2>5. QED BY <2>4 DEF runs
<1>7. HandKeys' = other
  BY <1>1, <1>2 DEF HandKeys
<1>8. \A k : IsShape(k) => Total(d, k) = Cardinality(Items(k))'
  BY <1>3, <1>6, SameItems
<1>9. Cardinality(DOMAIN d.entries) <= MaxEntries
  BY <1>6 DEF CounterAt
<1>10. CounterAt(d, HandKeys')
  BY <1>6, <1>7
<1>11. DOMAIN d.runs = 1 .. Len(HandKeys') + 1
  BY <1>4, <1>5, <1>6, <1>7
<1>12. status' # "ok"
  OBVIOUS
<1>13. QED BY <1>1, <1>2, <1>8, <1>9, <1>10, <1>11, <1>12 DEF CountInv

\* Keys are resolved one by one.
LEMMA KeyIdsLength ==
  ASSUME NEW d, NEW keys, IsList(keys)
  PROVE  Len(KeyIds(d, keys)) = Len(keys) /\ Len(keys) \in Nat
<1>1. DOMAIN keys = 1 .. Len(keys) /\ Len(keys) \in Nat
  BY ListFacts
<1> DEFINE e == KeyIds(d, keys)
<1>2. e \in [1 .. Len(keys) -> Range(e)]
  BY <1>1 DEF KeyIds, Range
<1> HIDE DEF e
<1>3. e \in Seq(Range(e))
  BY <1>1, <1>2, SeqDef
<1>4. DOMAIN e = 1 .. Len(keys)
  BY <1>2
<1>5. QED BY <1>1, <1>3, <1>4 DEF e

\* A batch begins, ends, or is given up: the runs are opened, closed, or no
\* longer matter.
LEMMA BeginNodesCounts ==
  ASSUME ShapeInv, CountInv, NEW s \in NodeBatches, BeginNodes(s)
  PROVE  CountInv'
<1>1. CASE Fail
  BY <1>1, FailCounts
<1>2. CASE ~Fail
  <2>1. BatchAt /\ BatchAt' /\ batch' \in HandBatches
    BY <1>2, BeginNodesKeeps DEF ShapeInv
  <2>2. /\ status = "nodes" /\ batch = Null
        /\ batch'.keys = KeyIds(Known(dict.key, s.keys), s.keys)
        /\ counter' = [counter EXCEPT !.runs = NewRuns(Len(s.keys))]
        /\ UNCHANGED <<nodes, edges, values, status>>
    BY <1>2 DEF BeginNodes, graph
  <2>3. Len(batch'.keys) = Len(s.keys) /\ Len(s.keys) \in Nat
    <3>1. IsList(s.keys)
      BY GraphShapeAssumption
    <3>2. QED BY <2>2, <3>1, KeyIdsLength
  <2>4. QED BY <2>1, <2>2, <2>3, BeginCounts
<1>3. QED BY <1>1, <1>2

LEMMA BeginEdgesCounts ==
  ASSUME ShapeInv, CountInv, NEW s \in EdgeBatches, BeginEdges(s)
  PROVE  CountInv'
<1>1. CASE Fail
  BY <1>1, FailCounts
<1>2. CASE ~Fail
  <2>1. BatchAt /\ BatchAt' /\ batch' \in HandBatches
    BY <1>2, BeginEdgesKeeps DEF ShapeInv
  <2>2. /\ status \in {"nodes", "edges"} /\ batch = Null
        /\ batch'.keys = KeyIds(Known(dict.key, s.keys), s.keys)
        /\ counter' = [counter EXCEPT !.runs = NewRuns(Len(s.keys))]
        /\ UNCHANGED <<nodes, edges, values, status>>
    BY <1>2 DEF BeginEdges, graph
  <2>3. Len(batch'.keys) = Len(s.keys) /\ Len(s.keys) \in Nat
    <3>1. IsList(s.keys)
      BY GraphShapeAssumption
    <3>2. QED BY <2>2, <3>1, KeyIdsLength
  <2>4. QED BY <2>1, <2>2, <2>3, BeginCounts
<1>3. QED BY <1>1, <1>2

LEMMA EndBatchCounts == ASSUME ShapeInv, CountInv, EndBatch PROVE CountInv'
<1>1. /\ status \in {"nodes", "edges"} /\ batch # Null /\ batch' = Null
      /\ counter' = [EndRuns(counter) EXCEPT !.runs = <<>>]
      /\ UNCHANGED <<nodes, edges, values, status>>
  BY DEF EndBatch, graph
<1>2. PICK c, d, e, keys : c = counter /\ d = counter' /\ keys = HandKeys /\ e = EndRuns(c)
  OBVIOUS
<1>3. /\ CounterAt(c, keys) /\ DOMAIN c.runs = 1 .. Len(keys) + 1 /\ Keys(keys)
      /\ \A k : IsShape(k) => Total(c, k) = Cardinality(Items(k))
  BY <1>1, <1>2, HandKeysFacts DEF CountInv, ShapeInv
<1>4. /\ CounterAt(e, keys) /\ \A s \in DOMAIN e.runs : e.runs[s] = NoRun
      /\ \A k : IsShape(k) => Total(e, k) = Total(c, k)
  BY <1>2, <1>3, EndRunsFacts
<1>5. PICK none : none = <<>>
  OBVIOUS
<1>6. DOMAIN none = {}
  BY <1>5
<1>7. d = [e EXCEPT !.runs = none]
  BY <1>1, <1>2, <1>5
<1>8. /\ CounterAt(d, none) /\ d.runs = none
      /\ \A k : IsShape(k) => Total(d, k) = Total(e, k)
  <2>1. DOMAIN none \subseteq 1 .. Len(none) + 1
    BY <1>6
  <2>2. none = [s \in DOMAIN none |-> NoRun]
    BY <1>5
  <2>3. QED BY <1>4, <1>7, <2>1, <2>2, ResetFacts
<1>9. HandKeys' = none
  BY <1>1, <1>5 DEF HandKeys
<1>10. \A k : IsShape(k) => Total(d, k) = Cardinality(Items(k))'
  BY <1>1, <1>3, <1>4, <1>8, SameItems
<1>11. Cardinality(DOMAIN d.entries) <= MaxEntries
  BY <1>8 DEF CounterAt
<1>12. CounterAt(d, HandKeys') /\ DOMAIN d.runs = {}
  BY <1>6, <1>8, <1>9
<1>13. status' # "ok"
  BY <1>1
<1>14. QED BY <1>1, <1>2, <1>10, <1>11, <1>12, <1>13 DEF CountInv

\* Without runs, what is counted is in the tables once the map was added to them.
LEMMA FinishCounts == ASSUME ShapeInv, CountInv, Finish PROVE CountInv'
<1>1. /\ status \in {"nodes", "edges"} /\ batch = Null /\ status' = "ok"
      /\ counter' = Spill(counter) /\ aggregates' = Aggregated(counter'.tables)
      /\ UNCHANGED <<nodes, edges, values, members>>
  BY DEF Finish, catalog, graph
<1>2. PICK c, d, keys : c = counter /\ d = counter' /\ keys = HandKeys
  OBVIOUS
<1>3. /\ CounterAt(c, keys) /\ DOMAIN c.runs = {}
      /\ \A k : IsShape(k) => Total(c, k) = Cardinality(Items(k))
  BY <1>1, <1>2 DEF CountInv
<1>4. /\ CounterAt(d, keys) /\ d.runs = c.runs /\ d.entries = <<>>
      /\ \A k : Total(d, k) = Total(c, k)
  BY <1>1, <1>2, <1>3, SpillFacts
<1>5. Table(d.tables) /\ Cardinality(DOMAIN d.entries) <= MaxEntries
  BY <1>4 DEF CounterAt
<1>6. ASSUME NEW k, IsShape(k) PROVE At(d.tables, k) = Cardinality(Items(k))
  <2>1. InRun(d.runs, k) = 0
    BY <1>3, <1>4 DEF InRun
  <2>2. At(d.entries, k) = 0 /\ At(d.tables, k) \in Nat
    BY <1>4, <1>5, NoShape, AtFacts
  <2>3. At(d.tables, k) = Total(d, k)
    BY <2>1, <2>2 DEF Total
  <2>4. QED BY <1>3, <1>4, <1>6, <2>3
<1>7. GraphAt
  BY DEF ShapeInv
<1>8. Aggregated(d.tables) = Backfill
  <2>1. PICK t : t = d.tables
    OBVIOUS
  <2>2. Table(t) /\ \A k : IsShape(k) => At(t, k) = Cardinality(Items(k))
    BY <1>5, <1>6, <2>1
  <2>3. Aggregated(t) = Backfill
    BY <1>7, <2>2, AggregatedFacts
  <2>4. QED BY <2>1, <2>3
<1>9. aggregates' = Backfill'
  BY <1>1, <1>2, <1>8, SameBackfill
<1>10. QED BY <1>1, <1>2, <1>5, <1>9 DEF CountInv

\* A row of either kind, given what it makes of its owner.
LEMMA RowCounts ==
  ASSUME ShapeInv, CountInv, batch # Null, status \in {"nodes", "edges"},
         NEW kind \in {"node", "edge"}, NEW id, id \notin Owners(kind),
         Owners(kind)' = Owners(kind) \cup {id},
         \A o \in {"node", "edge"} : o # kind => Owners(o)' = Owners(o),
         \A o \in {"node", "edge"} : \A i \in Owners(o) : Extent(o, i)' = Extent(o, i),
         NEW cells, Len(cells) = Len(batch.keys), values' = values \cup Stored(kind, id, cells),
         NEW extent, Extent(kind, id)' = extent, counter' = Counted(kind, extent, cells),
         batch' = batch, status' \in {"nodes", "edges"}
  PROVE  CountInv'
<1>1. PICK c, d, keys : c = counter /\ d = counter' /\ keys = batch.keys
  OBVIOUS
<1>2. HandKeys = keys /\ HandKeys' = keys
  BY <1>1 DEF HandKeys
<1>3. Keys(keys) /\ Len(keys) \in Nat
  BY <1>2, HandKeysFacts DEF ShapeInv
<1>4. /\ CounterAt(c, keys) /\ DOMAIN c.runs = 1 .. Len(keys) + 1
      /\ \A k : IsShape(k) => Total(c, k) = Cardinality(Items(k))
  BY <1>1, <1>2 DEF CountInv
<1>5. /\ CounterAt(d, keys) /\ DOMAIN d.runs = 1 .. Len(keys) + 1
      /\ \A k : IsShape(k) =>
           Total(d, k) = Total(c, k) + (IF RowHas(kind, extent, keys, cells, Len(keys), k) THEN 1 ELSE 0)
  BY <1>1, <1>3, <1>4, CountedFacts
<1>6. ASSUME NEW k, IsShape(k) PROVE Total(d, k) = Cardinality(Items(k))'
  <2>1. Cardinality(Items(k))' =
          Cardinality(Items(k)) + (IF RowHas(kind, extent, keys, cells, Len(cells), k) THEN 1 ELSE 0)
    <3>1. Len(cells) \in Nat
      BY <1>1, <1>3
    <3>2. GraphAt
      BY DEF ShapeInv
    <3>3. QED BY <1>1, <1>6, <3>1, <3>2, NewOwner
  <2>2. QED BY <1>1, <1>4, <1>5, <1>6, <2>1
<1>7. Cardinality(DOMAIN d.entries) <= MaxEntries
  BY <1>5 DEF CounterAt
<1>8. CounterAt(d, HandKeys') /\ DOMAIN d.runs = 1 .. Len(HandKeys') + 1 /\ batch' # Null
  BY <1>2, <1>5
<1>9. status' # "ok"
  OBVIOUS
<1>10. QED BY <1>1, <1>6, <1>7, <1>8, <1>9 DEF CountInv

\* Appending adds one place.
LEMMA AppendDomain ==
  ASSUME NEW d, IsList(d), NEW x
  PROVE  /\ Len(d) + 1 \notin DOMAIN d /\ DOMAIN Append(d, x) = DOMAIN d \cup {Len(d) + 1}
         /\ \A i \in DOMAIN d : Append(d, x)[i] = d[i]
         /\ Append(d, x)[Len(d) + 1] = x
<1>1. DOMAIN d = 1 .. Len(d) /\ Len(d) \in Nat
  BY ListFacts
<1>2. /\ IsList(Append(d, x)) /\ Len(Append(d, x)) = Len(d) + 1
      /\ \A i \in DOMAIN d : Append(d, x)[i] = d[i] /\ Append(d, x)[Len(d) + 1] = x
  BY AppendFacts
<1>3. DOMAIN Append(d, x) = 1 .. Len(d) + 1
  BY <1>2, ListFacts
<1>4. 1 .. Len(d) + 1 = (1 .. Len(d)) \cup {Len(d) + 1} /\ Len(d) + 1 \notin 1 .. Len(d)
  BY <1>1
<1>5. \A i \in DOMAIN d : Append(d, x)[i] = d[i]
  BY AppendFacts
<1>6. Append(d, x)[Len(d) + 1] = x
  BY AppendFacts
<1>7. QED BY <1>1, <1>3, <1>4, <1>5, <1>6

\* A row is counted under the shape of its group and under each of its
\* properties.
LEMMA NodeRowCounts ==
  ASSUME ShapeInv, CountInv, batch # Null, NEW cell, NEW cells, NEW duplicate,
         NodeRow(cell, cells, duplicate)
  PROVE  CountInv'
<1> DEFINE g     == LabelGroup(RowLabels(batch.spec, cell))
           group == IF batch.spec.column THEN g.id ELSE batch.fixed
<1>0. /\ status = "nodes" /\ Len(cells) = Len(batch.keys)
      /\ \/ Fail
         \/ UNCHANGED <<graph, counter, batch, status, aggregates>>
         \/ /\ nodes' = Append(nodes, group)
            /\ values' = values \cup Stored("node", Len(nodes) + 1, cells)
            /\ counter' = Counted("node", <<group>>, cells)
            /\ UNCHANGED <<edges, batch, status>>
  BY DEF NodeRow
<1> HIDE DEF group
<1>1. CASE Fail
  BY <1>1, FailCounts
<1>2. CASE UNCHANGED <<graph, counter, batch, status, aggregates>>
  <2>1. \A k : Items(k)' = Items(k)
    BY <1>2, SameItems DEF graph
  <2>2. QED BY <1>0, <1>2, <2>1 DEF CountInv, HandKeys
<1>3. CASE /\ nodes' = Append(nodes, group)
           /\ values' = values \cup Stored("node", Len(nodes) + 1, cells)
           /\ counter' = Counted("node", <<group>>, cells)
           /\ UNCHANGED <<edges, batch, status>>
  <2>1. PICK t, n, x : t = group /\ n = Len(nodes) + 1 /\ x = <<t>>
    OBVIOUS
  <2>2. GraphAt /\ IsList(nodes)
    BY DEF ShapeInv, GraphAt
  <2>3. /\ n \notin DOMAIN nodes /\ DOMAIN nodes' = DOMAIN nodes \cup {n}
        /\ \A i \in DOMAIN nodes : nodes'[i] = nodes[i]
        /\ nodes'[n] = t
    BY <1>3, <2>1, <2>2, AppendDomain
  <2>4. /\ n \notin Owners("node") /\ Owners("node")' = Owners("node") \cup {n}
        /\ \A o \in {"node", "edge"} : o # "node" => Owners(o)' = Owners(o)
    BY <1>3, <2>3 DEF Owners
  <2>5. \A o \in {"node", "edge"} : \A i \in Owners(o) : Extent(o, i)' = Extent(o, i)
    BY <1>3, <2>2, <2>3 DEF Extent, Owners, GraphAt
  <2>6. Extent("node", n)' = x
    BY <2>1, <2>3 DEF Extent
  <2>7. values' = values \cup Stored("node", n, cells) /\ counter' = Counted("node", x, cells)
    BY <1>3, <2>1
  <2>8. batch' = batch /\ status' \in {"nodes", "edges"}
    BY <1>0, <1>3
  <2>9. QED BY <1>0, <2>4, <2>5, <2>6, <2>7, <2>8, RowCounts
<1>4. QED BY <1>0, <1>1, <1>2, <1>3

LEMMA EdgeRowCounts ==
  ASSUME ShapeInv, CountInv, batch # Null, NEW a, NEW b, NEW cell, NEW cells,
         EdgeRow(a, b, cell, cells)
  PROVE  CountInv'
<1> DEFINE name == TypeName(batch.spec, cell)
           type == IdOf(Known(dict.type, <<name>>), name)
           edge == [type |-> type, from |-> a, to |-> b]
<1>0. /\ status \in {"nodes", "edges"} /\ Len(cells) = Len(batch.keys)
      /\ \/ Fail
         \/ status' = "edges" /\ UNCHANGED <<graph, counter, batch, aggregates>>
         \/ /\ edges' = Append(edges, edge)
            /\ values' = values \cup Stored("edge", Len(edges) + 1, cells)
            /\ counter' = Counted("edge", <<type, nodes[a], nodes[b]>>, cells)
            /\ status' = "edges"
            /\ UNCHANGED <<nodes, batch>>
  BY DEF EdgeRow
<1>1. CASE Fail
  BY <1>1, FailCounts
<1>2. CASE status' = "edges" /\ UNCHANGED <<graph, counter, batch, aggregates>>
  <2>1. \A k : Items(k)' = Items(k)
    BY <1>2, SameItems DEF graph
  <2>2. QED BY <1>0, <1>2, <2>1 DEF CountInv, HandKeys
<1>3. CASE /\ edges' = Append(edges, edge)
           /\ values' = values \cup Stored("edge", Len(edges) + 1, cells)
           /\ counter' = Counted("edge", <<type, nodes[a], nodes[b]>>, cells)
           /\ status' = "edges"
           /\ UNCHANGED <<nodes, batch>>
  <2>1. PICK e, n, x : e = edge /\ n = Len(edges) + 1 /\ x = <<type, nodes[a], nodes[b]>>
    OBVIOUS
  <2>2. e.type = type /\ e.from = a /\ e.to = b
    BY <2>1
  <2> HIDE DEF type, edge
  <2>3. GraphAt /\ IsList(edges)
    BY DEF ShapeInv, GraphAt
  <2>4. /\ n \notin DOMAIN edges /\ DOMAIN edges' = DOMAIN edges \cup {n}
        /\ \A i \in DOMAIN edges : edges'[i] = edges[i]
        /\ edges'[n] = e
    BY <1>3, <2>1, <2>3, AppendDomain
  <2>5. /\ n \notin Owners("edge") /\ Owners("edge")' = Owners("edge") \cup {n}
        /\ \A o \in {"node", "edge"} : o # "edge" => Owners(o)' = Owners(o)
    BY <1>3, <2>4 DEF Owners
  <2>6. \A o \in {"node", "edge"} : \A i \in Owners(o) : Extent(o, i)' = Extent(o, i)
    BY <1>3, <2>4 DEF Extent, Owners
  <2>7. Extent("edge", n)' = x
    BY <1>3, <2>1, <2>2, <2>4 DEF Extent
  <2>8. values' = values \cup Stored("edge", n, cells) /\ counter' = Counted("edge", x, cells)
    BY <1>3, <2>1
  <2>9. batch' = batch /\ status' \in {"nodes", "edges"}
    BY <1>3
  <2>10. QED BY <1>0, <2>5, <2>6, <2>7, <2>8, <2>9, RowCounts
<1>4. QED BY <1>0, <1>1, <1>2, <1>3

LEMMA CountStep == ASSUME ShapeInv, CountInv, [Next]_vars PROVE CountInv'
<1>1. ASSUME NEW s \in NodeBatches, BeginNodes(s) PROVE CountInv'
  BY <1>1, BeginNodesCounts
<1>2. ASSUME batch # Null, NEW l \in LabelCells, NEW p, NEW d, NodeRow(l, p, d) PROVE CountInv'
  BY <1>2, NodeRowCounts
<1>3. ASSUME batch # Null, NEW a \in 0 .. Len(nodes), NEW b \in 0 .. Len(nodes), NEW t, NEW p,
             EdgeRow(a, b, t, p)
      PROVE  CountInv'
  BY <1>3, EdgeRowCounts
<1>4. ASSUME NEW s \in EdgeBatches, BeginEdges(s) PROVE CountInv'
  BY <1>4, BeginEdgesCounts
<1>5. CASE EndBatch
  BY <1>5, EndBatchCounts
<1>6. CASE Finish
  BY <1>6, FinishCounts
<1>7. CASE UNCHANGED vars
  <2>1. UNCHANGED <<nodes, edges, values, members, counter, batch, status, aggregates>>
    BY <1>7 DEF vars, graph, catalog
  <2>2. (\A k : Items(k)' = Items(k)) /\ Backfill' = Backfill
    BY <2>1, SameItems, SameBackfill
  <2>3. QED BY <2>1, <2>2 DEF CountInv, HandKeys
<1>8. QED BY <1>1, <1>2, <1>3, <1>4, <1>5, <1>6, <1>7 DEF Next

(* What runs, map and tables together count of a shape is the number of its  *)
(* owners, at every step of every import: between the rows of a batch, while *)
(* the map spills in the middle of a row, and after skipped rows             *)
(* (native.rs, ShapeCounts and BatchShapeCounts).                            *)
THEOREM CountsExact == Spec => []CountInv
<1>1. Init => ShapeInv /\ CountInv
  BY ShapeInit, CountInit
<1>2. (ShapeInv /\ CountInv) /\ [Next]_vars => (ShapeInv /\ CountInv)'
  BY ShapeStep, CountStep
<1>3. QED BY <1>1, <1>2, PTL DEF Spec

(* The aggregates the importer publishes are those of GRAPH_SHAPE_BACKFILL,  *)
(* for any rows, batches and size of the map, which is never exceeded.       *)
THEOREM AggregatesExact == Spec => []ShapesExact
<1>1. CountInv => ShapesExact
  BY DEF CountInv, ShapesExact
<1>2. QED BY <1>1, CountsExact, PTL

=============================================================================
