---------------------------- MODULE ExternalSort ----------------------------
(***************************************************************************)
(* The external sorts of the secondary indexes (native/index_builder.rs    *)
(* and text_index.rs).  Tuples are spooled with the range of every field;  *)
(* keys of just enough bits or bytes are packed from them, sorted in runs  *)
(* that several workers make from their own parts of the spool, and merged *)
(* in generations of a bounded number of runs.  The last merge gathers the *)
(* statistics of the index and refuses a tuple that occurs twice.          *)
(*                                                                         *)
(* Three kinds share this: an integer index sorted to a file, the "sorted" *)
(* one; a "direct" one, whose last merge feeds the page writer and whose   *)
(* samples are read back from the runs; and the "text" index on the first  *)
(* characters of a string.                                                 *)
(***************************************************************************)
EXTENDS Naturals, Integers, Sequences, SequencesExt, IndexStats

CONSTANTS Word,        (* bits of a field: 64 in the code                  *)
          Digit,       (* bits of a radix digit, the code's byte: 8        *)
          KeyBytes,    (* key_bytes: digits a worker's key array may take  *)
          FanIn,       (* MERGE_FAN_IN                                     *)
          Workers,     (* run workers of one sort; one for a direct index  *)
          Arity,       (* integers of a tuple                              *)
          Order,       (* sorted_fields, with the last field unique        *)
          PrefixChars, (* characters of a text that are indexed: 12        *)
          Tuples,      (* integer tuples that may be pushed                *)
          Entries,     (* <<integers, text>>: entries of the text index; a *)
                       (* text is a sequence of characters, a character    *)
                       (* the sequence of its bytes                        *)
          Hashes,      (* sequences of pseudo-random numbers, one a record *)
          MaxRows,     (* bound: rows pushed, for each kind                *)
          None

Kinds == {"sorted", "direct", "text"}

ASSUME SortAssumption ==
  /\ Word \in Nat \ {0} /\ Digit \in Nat \ {0} /\ Word % Digit = 0 /\ KeyBytes \in Nat
  /\ FanIn \in Nat \ {0, 1} /\ Workers \in Nat \ {0} /\ MaxRows \in [Kinds -> Nat]
  /\ Arity = 3 /\ Order \in Seq(1 .. Arity) /\ Len(Order) \in 1 .. Arity
  /\ \A i, j \in 1 .. Len(Order) : Order[i] = Order[j] => i = j
  /\ PrefixChars \in Nat \ {0} /\ SampleCount \in Nat \ {0}
  /\ \A t \in Tuples \cup {e[1] : e \in Entries}, f \in 1 .. Arity :
       t[f] \in -(2 ^ (Word - 1)) .. 2 ^ (Word - 1) - 1

VARIABLES
  kind,    (* the kind of index                                            *)
  spool,   (* the tuples pushed: integers, text and prefix                 *)
  low,     (* minimum of each integer, in unsigned order                   *)
  high,    (* maximum                                                      *)
  longest, (* prefix_bytes: the longest prefix of a text                   *)
  phase,   (* "push", "runs", "merge", "done" or "failed"                  *)
  run,     (* the run each worker makes next                               *)
  broken,  (* the threads that met an error: run workers, or the merger    *)
  files,   (* the runs made so far, by number                              *)
  paths,   (* the files still to be merged                                 *)
  merged,  (* the files of the next generation                             *)
  output,  (* the sorted records, each in the order of the index           *)
  stats    (* its averages and samples                                     *)

vars == <<kind, spool, low, high, longest, phase, run, broken, files, paths, merged, output, stats>>

Text    == kind = "text"
Team    == 0 .. (IF kind = "direct" THEN 1 ELSE Workers) - 1
Merger  == Workers
Fields  == 1 .. Len(Order)
Columns == IF Text THEN 4 ELSE Len(Order)
Sum(s) == FoldLeft(LAMBDA a, b : a + b, 0, s)
Least(S)    == CHOOSE x \in S : \A y \in S : x <= y
Greatest(S) == CHOOSE x \in S : \A y \in S : y <= x

\* A signed value with its sign bit flipped.
Ordered(v) == v + 2 ^ (Word - 1)
Signed(u)  == u - 2 ^ (Word - 1)

-----------------------------------------------------------------------------
(* Codec::new: a field takes the bits of its range, the first field the    *)
(* most significant ones.                                                  *)

BitLength(n) == CHOOSE k \in 0 .. Word : n < 2 ^ k /\ (k = 0 \/ 2 ^ (k - 1) <= n)
Spread(f)    == IF spool = <<>> THEN 0 ELSE high[f] - low[f]
Width(i)     == BitLength(Spread(Order[i]))
Bits         == Sum([i \in Fields |-> Width(i)])
Below(i)     == Sum([j \in Fields |-> IF j > i THEN Width(j) ELSE 0])

Shift(i)     == IF Width(i) = 0 THEN 0 ELSE Below(i)

\* The key types u64, Packed96 and u128, which packs the same way, and WideKey.
Narrow  == Bits <= Word
Wide    == Bits > 2 * Word
KeyBits == IF Narrow THEN Word ELSE 2 * Word

PackTuple(t) ==
  IF Wide
  THEN Sum([i \in Fields |-> Ordered(t[Order[i]]) * 2 ^ (Word * (4 - i))])
  ELSE Sum([i \in Fields |->
              ((Ordered(t[Order[i]]) - low[Order[i]]) * 2 ^ Shift(i)) % 2 ^ KeyBits])

FieldOf(key, i) ==
  IF Wide THEN (key \div 2 ^ (Word * (4 - i))) % 2 ^ Word
  ELSE ((key \div 2 ^ Shift(i)) % 2 ^ Width(i)) + low[Order[i]]

UnpackTuple(key) == [i \in Fields |-> Signed(FieldOf(key, i))]

-----------------------------------------------------------------------------
(* The text index: key id, prefix, node and row, in whole bytes.           *)

IsAscii(bytes) == \A i \in DOMAIN bytes : bytes[i] < 2 ^ (Digit - 1)
UpTo(s, stop)  == SubSeq(s, 1, Least({i - 1 : i \in {j \in DOMAIN s : s[j] = stop}} \cup {Len(s)}))

\* Mutation of Prefix: bytes are counted, not characters.
PrefixBytes(text) ==
  LET bytes == FlattenSeq(text)
  IN  UpTo(SubSeq(bytes, 1, Least({PrefixChars, Len(bytes)})), 0)

\* push: the bytes of the first characters, up to a NUL; characters are only
\* told apart when the first bytes are not all ASCII.
Prefix(text) ==
  LET bytes == FlattenSeq(text)
      head  == SubSeq(bytes, 1, Least({PrefixChars, Len(bytes)}))
  IN  IF IsAscii(head) THEN UpTo(head, 0)
      ELSE FlattenSeq(UpTo(SubSeq(text, 1, Least({PrefixChars, Len(text)})), <<0>>))

\* TextCodec: bytes of the four columns of a key.
ByteWidth(f) == (BitLength(Spread(f)) + Digit - 1) \div Digit
Widths       == <<ByteWidth(1), longest, ByteWidth(2), ByteWidth(3)>>
KeyLength    == Sum(Widths)

Number(bytes) == FoldLeft(LAMBDA n, b : n * 2 ^ Digit + b, 0, bytes)
Padded(bytes) == [i \in 1 .. longest |-> IF i <= Len(bytes) THEN bytes[i] ELSE 0]

PackText(e) ==
  LET delta(f) == Ordered(e.ints[f]) - low[f]
      parts    == <<delta(1), Number(Padded(e.prefix)), delta(2), delta(3)>>
  IN  FoldLeft(LAMBDA k, c : k * 2 ^ (Digit * Widths[c]) + parts[c], 0, <<1, 2, 3, 4>>)

\* ranges: the bytes of one column of a key, as a number.
PartOfKey(key, c) ==
  (key \div 2 ^ (Digit * Sum([d \in 1 .. 4 |-> IF d > c THEN Widths[d] ELSE 0])))
    % 2 ^ (Digit * Widths[c])

UnpackText(key) ==
  LET integer(c, f) == Signed(PartOfKey(key, c) + low[f])
      bytes == [i \in 1 .. longest |->
                  (PartOfKey(key, 2) \div 2 ^ (Digit * (longest - i))) % 2 ^ Digit]
  IN  <<integer(1, 1), UpTo(bytes, 0), integer(3, 2), integer(4, 3)>>

Pack(e)     == IF Text THEN PackText(e) ELSE PackTuple(e.ints)
Unpack(key) == IF Text THEN UnpackText(key) ELSE UnpackTuple(key)

\* The first column that differs; 0 if none does.
FirstChanged(last, key) ==
  LET value(k, c) == IF Text THEN PartOfKey(k, c) ELSE UnpackTuple(k)[c]
  IN  Least({c \in 1 .. Columns : value(last, c) # value(key, c)} \cup {Columns + 1}) % (Columns + 1)

WordBytes == Word \div Digit
KeySize == IF Text THEN WordBytes * Greatest({2, (KeyLength + WordBytes - 1) \div WordBytes})
           ELSE IF Narrow THEN WordBytes
           ELSE IF 2 * Bits <= 3 * Word THEN (3 * WordBytes) \div 2
           ELSE IF Wide THEN 4 * WordBytes ELSE 2 * WordBytes

-----------------------------------------------------------------------------
(* radix_sort: stable passes from the least significant digit.             *)

Passes == IF Text THEN KeyLength
          ELSE IF Wide THEN (4 * Word) \div Digit ELSE (Bits + Digit - 1) \div Digit

DigitOf(key, pass) == (key \div 2 ^ (Digit * pass)) % 2 ^ Digit

Scatter(keys, pass) ==
  FoldLeft(LAMBDA a, b : a \o b, <<>>,
           [d \in 1 .. 2 ^ Digit |->
              SelectSeq(keys, LAMBDA k : DigitOf(k, pass) = d - 1)])

RadixSort(keys) == FoldLeft(Scatter, keys, [p \in 1 .. Passes |-> p - 1])

\* merge_visit: the least of the heads is next, that of the first run if equal.
\* Every key comes out with its run and its place there.
TakeLeast(m) ==
  LET open == {r \in DOMAIN m.rest : m.rest[r] # <<>>}
      best == CHOOSE r \in open : \A s \in open :
                \/ Head(m.rest[r]) < Head(m.rest[s])
                \/ Head(m.rest[r]) = Head(m.rest[s]) /\ r <= s
  IN  [rest |-> [m.rest EXCEPT ![best] = Tail(@)],
       at   |-> [m.at EXCEPT ![best] = @ + 1],
       out  |-> Append(m.out, [key |-> Head(m.rest[best]), run |-> best, at |-> m.at[best] + 1])]

MergeVisit(runs) ==
  FoldLeft(LAMBDA m, k : TakeLeast(m),
           [rest |-> runs, at |-> [r \in DOMAIN runs |-> 0], out |-> <<>>],
           [k \in 1 .. Sum([r \in DOMAIN runs |-> Len(runs[r])]) |-> k]).out

Merge(runs) == [i \in DOMAIN MergeVisit(runs) |-> MergeVisit(runs)[i].key]

-----------------------------------------------------------------------------
(* The statistics: every record of the last merge is pushed with a witness *)
(* of its place, from which the records of the samples are read again.     *)

\* The place in the encoded file, or the run and the position in it.
Witness(visit, i) ==
  IF kind = "direct" THEN (visit[i].at - 1) * FanIn + visit[i].run - 1 ELSE i

\* The record at a witness.
ReadBack(records, witness) ==
  IF kind = "direct" THEN Unpack(paths[(witness % FanIn) + 1][(witness \div FanIn) + 1])
  ELSE records[witness]

Statistics(visit, hash) ==
  LET first(i) == IF i = 1 THEN 1 ELSE FirstChanged(visit[i - 1].key, visit[i].key)
  IN  FinishStatistics(
        FoldLeft(LAMBDA s, i : PushRecord(s, first(i), Witness(visit, i), hash[i]),
                 NewStatistics(Columns, Len(spool)), [i \in DOMAIN visit |-> i]),
        Columns - 1)

-----------------------------------------------------------------------------
Capacity == IF KeyBytes < KeySize THEN 1 ELSE KeyBytes \div KeySize
Runs     == (Len(spool) + Capacity - 1) \div Capacity
RunsOf(w) == SelectSeq([r \in 1 .. Runs |-> r - 1], LAMBDA r : r % Cardinality(Team) = w)

Init ==
  /\ kind \in Kinds /\ spool = <<>> /\ longest = 0
  /\ low = [f \in 1 .. Arity |-> 2 ^ Word - 1] /\ high = [f \in 1 .. Arity |-> 0]
  /\ phase = "push" /\ run = [w \in Team |-> w] /\ broken = {}
  /\ files = <<>> /\ paths = <<>> /\ merged = <<>> /\ output = None /\ stats = None

Push(ints, text) ==
  /\ phase = "push" /\ Len(spool) < MaxRows[kind]
  /\ spool' = Append(spool, [ints |-> ints, text |-> text, prefix |-> Prefix(text)])
  /\ low'  = [f \in 1 .. Arity |-> Least({low[f], Ordered(ints[f])})]
  /\ high' = [f \in 1 .. Arity |-> Greatest({high[f], Ordered(ints[f])})]
  /\ longest' = Greatest({longest, Len(Prefix(text))})
  /\ UNCHANGED <<kind, phase, run, broken, files, paths, merged, output, stats>>

\* An integer spool has no text.
PushTuple(t) == ~Text /\ Push(t, <<>>)
PushEntry(e) == Text /\ Push(e[1], e[2])

\* seal; sort_one chooses the type of the keys.
StartSort ==
  /\ phase = "push" /\ phase' = "runs"
  /\ files' = [r \in 0 .. Runs - 1 |-> None]
  /\ UNCHANGED <<kind, spool, low, high, longest, run, broken, paths, merged, output, stats>>

\* The tuples of run r.
PartOf(r) ==
  SubSeq(spool, r * Capacity + 1, Least({Len(spool), (r + 1) * Capacity}))

MakeRun(w) ==
  /\ phase = "runs" /\ w \notin broken /\ run[w] < Runs
  /\ files' = [files EXCEPT ![run[w]] =
                 RadixSort([i \in 1 .. Len(PartOf(run[w])) |-> Pack(PartOf(run[w])[i])])]
  /\ run' = [run EXCEPT ![w] = @ + Cardinality(Team)]
  /\ UNCHANGED <<kind, spool, low, high, longest, phase, broken, paths, merged, output, stats>>

\* Reading or writing fails, or the worker panics.
RunFails(w) ==
  /\ phase = "runs" /\ w \notin broken /\ run[w] < Runs
  /\ broken' = broken \cup {w}
  /\ UNCHANGED <<kind, spool, low, high, longest, phase, run, files, paths, merged, output, stats>>

\* A shift by the width of the key or more: arithmetic overflow.
Overshift == ~Text /\ ~Wide /\ \E i \in Fields : Shift(i) >= KeyBits

\* All workers are joined before an error is looked at; each one's runs
\* follow those of the worker before it.
JoinRuns ==
  /\ phase = "runs" /\ \A w \in Team : w \in broken \/ run[w] >= Runs
  /\ IF broken # {} \/ Overshift
     THEN phase' = "failed" /\ UNCHANGED paths
     ELSE /\ phase' = "merge"
          /\ paths' = FoldLeft(LAMBDA a, w : a \o [i \in 1 .. Len(RunsOf(w)) |-> files[RunsOf(w)[i]]],
                               <<>>, [w \in 1 .. Cardinality(Team) |-> w - 1])
  /\ UNCHANGED <<kind, spool, low, high, longest, run, broken, files, merged, output, stats>>

\* More files than one merge may open, or a generation is half way.
TooMany == Len(paths) > FanIn \/ merged # <<>>

\* One merge of a generation; the last one completes it.
MergeGroup ==
  /\ phase = "merge" /\ TooMany
  /\ LET n    == Least({FanIn, Len(paths)})
         next == Append(merged, Merge(SubSeq(paths, 1, n)))
     IN  IF n = Len(paths) THEN paths' = next /\ merged' = <<>>
         ELSE paths' = SubSeq(paths, n + 1, Len(paths)) /\ merged' = next
  /\ UNCHANGED <<kind, spool, low, high, longest, phase, run, broken, files, output, stats>>

\* The last merge unpacks the keys, refuses a tuple equal to the one before and
\* feeds the statistics; the records of its samples are read back afterwards.
FinalMerge(hash) ==
  /\ phase = "merge" /\ ~TooMany
  /\ LET visit   == MergeVisit(paths)
         records == [i \in DOMAIN visit |-> Unpack(visit[i].key)]
         repeat  == \E i \in 2 .. Len(visit) : FirstChanged(visit[i - 1].key, visit[i].key) = 0
         found   == Statistics(visit, hash)
     IN  IF repeat \/ Len(visit) # Len(spool)
         THEN phase' = "failed" /\ UNCHANGED <<output, stats>>
         ELSE /\ phase' = "done" /\ output' = records
              /\ stats' = [averages |-> found.averages,
                           samples  |-> [k \in DOMAIN found.samples |->
                             LET s == found.samples[k]
                             IN  [equal |-> s.equal, less |-> s.less, distinct |-> s.distinct,
                                  record |-> ReadBack(records, s.witness)]]]
  /\ UNCHANGED <<kind, spool, low, high, longest, run, broken, files, paths, merged>>

\* Merging fails.
MergeFails ==
  /\ phase = "merge"
  /\ phase' = "failed" /\ broken' = {Merger}
  /\ UNCHANGED <<kind, spool, low, high, longest, run, files, paths, merged, output, stats>>

Next == \/ \E t \in Tuples : PushTuple(t)
        \/ \E e \in Entries : PushEntry(e)
        \/ StartSort \/ JoinRuns \/ MergeGroup \/ MergeFails
        \/ \E w \in Team : MakeRun(w) \/ RunFails(w)
        \/ \E hash \in Hashes : FinalMerge(hash)

Spec == Init /\ [][Next]_vars

-----------------------------------------------------------------------------
(* The order of the index, from the tuples alone.                          *)

BytesBefore(s, t) ==
  \E i \in 1 .. Len(t) :
    /\ \A j \in 1 .. i - 1 : j <= Len(s) /\ s[j] = t[j]
    /\ i > Len(s) \/ s[i] < t[i]

ValueBefore(c, v, w) == IF Text /\ c = 2 THEN BytesBefore(v, w) ELSE v < w

Precedes(s, t) ==
  \E c \in 1 .. Columns : ValueBefore(c, s[c], t[c]) /\ \A d \in 1 .. c - 1 : s[d] = t[d]

\* SQLite's substr(text, 1, n): whole characters, none from a NUL on.
Substr(text) ==
  FlattenSeq(UpTo([i \in 1 .. Least({PrefixChars, Len(text)}) |-> text[i]], <<0>>))

\* The record of a tuple in the index.
Entry(e) == IF Text THEN <<e.ints[1], Substr(e.text), e.ints[2], e.ints[3]>>
            ELSE [i \in Fields |-> e.ints[Order[i]]]

\* What PageWriter::index and SQLite rely on: the sorted stream holds the
\* records of the spool, each once, in the order of the index, whatever bits
\* or bytes the keys were packed into and however runs were made and merged
\* (index_builder.rs 402-1072, text_index.rs 156-414).
SortedPermutation ==
  phase = "done" =>
    /\ \A i \in 1 .. Len(output) - 1 : Precedes(output[i], output[i + 1])
    /\ {output[i] : i \in DOMAIN output} = {Entry(spool[i]) : i \in DOMAIN spool}
    /\ Len(output) = Len(spool)

\* A sort that met no error of the system fails only for a record that occurs
\* twice, and then always ("contains duplicate complete keys", index_builder.rs
\* 485-497); in particular no shift reaches the width of its key, also for a
\* constant field in front of fields that fill it (653-655).
FailsForDuplicates ==
  LET repeated == \E i, j \in DOMAIN spool : i # j /\ Entry(spool[i]) = Entry(spool[j])
  IN  /\ phase = "failed" /\ broken = {} => repeated
      /\ phase = "done" => ~repeated /\ broken = {}

\* What a caller of IntegerSpool::sort and TextSpool::sort sees: the sorted
\* permutation of what it pushed, or an error, and that only for a duplicate.
SortsOrRefuses == SortedPermutation /\ FailsForDuplicates

\* The samples of STAT4 tell the truth: the record read back for a sample has
\* as many records equal to it in its first columns, before it and distinct
\* before it as the sample says; samples ascend, there are at most SampleCount
\* of them and every periodic record is one (index_stats.rs 89-254, the
\* records of index_builder.rs 1269-1285 and 1612-1636).
SamplesTrue ==
  phase = "done" =>
    LET n == Len(output)
        head(r, c)     == SubSeq(r, 1, c)
        before(r, c)   == {i \in 1 .. n : /\ head(output[i], c) # head(r, c)
                                         /\ Precedes(output[i], r)}
        rank(r)        == CHOOSE i \in 1 .. n : output[i] = r
        interval       == n \div ((SampleCount \div 3) + 1) + 1
    IN  /\ Len(stats.samples) <= SampleCount
        /\ \A k \in DOMAIN stats.samples :
             LET s == stats.samples[k]
             IN  /\ s.record \in {output[i] : i \in 1 .. n}
                 /\ \A c \in 1 .. Columns :
                      /\ s.equal[c] = Cardinality({i \in 1 .. n :
                                                    head(output[i], c) = head(s.record, c)})
                      /\ s.less[c] = Cardinality(before(s.record, c))
                      /\ s.distinct[c] =
                           Cardinality({head(output[i], c) : i \in before(s.record, c)})
                 /\ k > 1 => Precedes(stats.samples[k - 1].record, s.record)
        /\ \A i \in 1 .. n : i % interval = 0 =>
             \E k \in DOMAIN stats.samples : rank(stats.samples[k].record) = i

=============================================================================
