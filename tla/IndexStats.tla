----------------------------- MODULE IndexStats -----------------------------
(***************************************************************************)
(* The statistics of an index, gathered while its sorted records pass by   *)
(* (native/index_stats.rs), as operators on the accumulator IndexStatistics. *)
(* Columns count from 1 here and from 0 in the code; `first` is the first  *)
(* field that differs from the record before.                              *)
(***************************************************************************)
EXTENDS Naturals, Sequences, SequencesExt

CONSTANT SampleCount   (* SAMPLE_COUNT                                     *)

LOCAL LeastOf(S)    == CHOOSE x \in S : \A y \in S : x <= y
LOCAL GreatestOf(S) == CHOOSE x \in S : \A y \in S : y <= x

NoSample(columns, c) ==
  LET zero == [i \in 1 .. columns |-> 0]
  IN  [equal |-> zero, less |-> zero, distinct |-> zero, witness |-> 0,
       periodic |-> FALSE, column |-> c, hash |-> 0]

NewStatistics(columns, expected) ==
  LET interval == expected \div ((SampleCount \div 3) + 1) + 1
  IN  [columns |-> columns, expected |-> expected, rows |-> 0,
       interval |-> interval, nextPeriodic |-> interval,
       current |-> NoSample(columns, 1),
       best |-> [c \in 1 .. columns |-> NoSample(columns, c)],
       samples |-> <<>>, minimum |-> 1, maximumZero |-> 0]

\* Of two samples of a column: which has the longer runs in the columns after it.
BetterAfter(s, new, old) ==
  LET differ == {c \in new.column + 1 .. s.columns : new.equal[c] # old.equal[c]}
  IN  IF differ = {} THEN new.hash > old.hash
      ELSE new.equal[LeastOf(differ)] > old.equal[LeastOf(differ)]

Better(s, new, old) ==
  LET n == new.equal[new.column]
      o == old.equal[old.column]
  IN  \/ n > o
      \/ n = o /\ new.column < old.column
      \/ n = o /\ new.column = old.column /\ BetterAfter(s, new, old)

\* The sample to be replaced next, once every place is taken.
FindMinimum(s) ==
  LET plain == {i \in DOMAIN s.samples : ~s.samples[i].periodic}
      worst == {i \in plain : \A j \in plain : ~Better(s, s.samples[i], s.samples[j])}
  IN  IF Len(s.samples) # SampleCount THEN s ELSE [s EXCEPT !.minimum = LeastOf(worst)]

\* Samples whose run in a column has not ended; its length is not known yet.
OpenIn(s, c) == {i \in DOMAIN s.samples : s.samples[i].equal[c] = 0}

\* Mutation of Insert: a sample of the same run is not looked for.
InsertAlways(s, new, zeros) ==
  LET kept == IF Len(s.samples) = SampleCount THEN RemoveAt(s.samples, s.minimum) ELSE s.samples
      last == [new EXCEPT !.equal = [c \in DOMAIN @ |-> IF c <= zeros THEN 0 ELSE @[c]]]
  IN  FindMinimum([s EXCEPT !.samples = Append(kept, last),
                            !.maximumZero = GreatestOf({@, zeros})])

\* insert: a run that has a sample already is not sampled again, its best
\* sample is upgraded; the lengths of the runs still open are left at 0.
Insert(s, new, zeros) ==
  LET open  == IF new.periodic THEN {} ELSE OpenIn(s, new.column)
      best  == {i \in open : \A j \in open : ~Better(s, s.samples[j], s.samples[i])}
      kept  == IF Len(s.samples) = SampleCount THEN RemoveAt(s.samples, s.minimum)
                                               ELSE s.samples
      last  == [new EXCEPT !.equal = [c \in DOMAIN @ |-> IF c <= zeros THEN 0 ELSE @[c]]]
      s1    == [s EXCEPT !.maximumZero = GreatestOf({@, zeros})]
  IN  IF \E i \in open : s.samples[i].periodic THEN s1
      ELSE IF open # {}
           THEN FindMinimum([s1 EXCEPT !.samples[GreatestOf(best)].column = new.column,
                                       !.samples[GreatestOf(best)].equal[new.column] =
                                          new.equal[new.column]])
           ELSE FindMinimum([s1 EXCEPT !.samples = Append(kept, last)])

\* The run of column c ends: its best record becomes a sample if it is good enough.
Offer(s, c) ==
  LET s1 == [s EXCEPT !.best[c].equal[c] = s.current.equal[c]]
  IN  IF Len(s.samples) < SampleCount \/ Better(s, s1.best[c], s.samples[s.minimum])
      THEN Insert(s1, s1.best[c], c - 1) ELSE s1

\* push_previous: the runs of the columns from `first` on end here.
PushPrevious(s, first) ==
  LET s1 == FoldLeft(Offer, s, [k \in 1 .. s.columns - first |-> s.columns - k])
  IN  IF first - 1 >= s1.maximumZero THEN s1
      ELSE [s1 EXCEPT
             !.samples = [i \in DOMAIN @ |->
                [@[i] EXCEPT !.equal = [c \in DOMAIN @ |->
                   IF c >= first /\ @[c] = 0 THEN s1.current.equal[c] ELSE @[c]]]],
             !.maximumZero = first - 1]

\* The counters of the record pushed, from those of the record before.
Counted(s, first) ==
  [s.current EXCEPT
    !.equal    = [c \in DOMAIN @ |-> IF c < first THEN @[c] + 1 ELSE 1],
    !.less     = [c \in DOMAIN @ |-> IF c < first \/ s.rows = 0 THEN @[c]
                                     ELSE @[c] + s.current.equal[c]],
    !.distinct = [c \in DOMAIN @ |-> IF c < first \/ s.rows = 0 THEN @[c] ELSE @[c] + 1]]

\* Each column but the last keeps the best record of its run; current.column is
\* only set while records are compared.
Remember(s, first) ==
  [s EXCEPT !.best = [c \in DOMAIN @ |->
     LET now == [s.current EXCEPT !.column = c]
     IN  IF c < s.columns /\ (c >= first \/ BetterAfter(s, now, @[c])) THEN now ELSE @[c]]]

\* push, with the pseudo-random number of the record.
PushRecord(s, first, witness, hash) ==
  LET ended    == IF s.rows = 0 THEN s ELSE PushPrevious(s, first)
      counted  == [ended EXCEPT !.rows = @ + 1,
                     !.current = [Counted(ended, first) EXCEPT !.witness = witness,
                                                               !.hash = hash]]
      periodic == [counted.current EXCEPT !.periodic = TRUE, !.column = 1]
      sampled  == IF counted.rows # counted.nextPeriodic THEN counted
                  ELSE Insert([counted EXCEPT !.nextPeriodic = @ + counted.interval],
                              periodic, s.columns - 1)
  IN  Remember(sampled, first)

\* The average length of a run, as STAT1 has it: rounded up, but 1 for nearly unique.
Average(rows, distinct) ==
  LET up == (rows + distinct - 1) \div distinct
  IN  IF up = 2 /\ rows * 10 <= distinct * 11 THEN 1 ELSE up

\* finish; an empty index gets no STAT1 line (index_builder.rs, text_index.rs).
FinishStatistics(s, keyColumns) ==
  [averages |-> IF s.rows = 0 THEN <<>>
                ELSE <<s.rows>> \o [c \in 1 .. keyColumns |->
                                      Average(s.rows, s.current.distinct[c] + 1)],
   samples  |-> IF s.rows = 0 THEN <<>> ELSE PushPrevious(s, 1).samples]

=============================================================================
