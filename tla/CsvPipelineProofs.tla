------------------------- MODULE CsvPipelineProofs -------------------------
(***************************************************************************)
(* Machine-checked proofs about CsvPipeline: for any input, any number of   *)
(* sources and parser threads and any batch size, the loader gets the rows  *)
(* in declaration order, a successful import has loaded all of them, memory *)
(* stays bounded, no thread outlives the verdict, and however the threads   *)
(* are scheduled, that verdict is the one a single thread reading the       *)
(* sources one after the other would reach.                                 *)
(***************************************************************************)
EXTENDS CsvPipeline, FiniteSetTheorems, SequenceTheorems, TLAPS

-----------------------------------------------------------------------------
(* Rows in sequences and sets.                                              *)

LEMMA EmptyRows == /\ RowSet(<<>>) = {} /\ Sorted(<<>>)
                   /\ \A A : AllBefore({}, A) /\ AllBefore(A, {})
BY DEF RowSet, Sorted, AllBefore

\* The order of rows is strict.
LEMMA RowOrder ==
  /\ \A a, b, c \in Row : Before(a, b) /\ Before(b, c) => Before(a, c)
  /\ \A a \in Row : ~Before(a, a)
BY DEF Row, Before

\* Appending a later row keeps a batch sorted.
LEMMA AppendRow ==
  ASSUME NEW q \in Seq(Row), NEW e \in Row
  PROVE  /\ RowSet(Append(q, e)) = RowSet(q) \cup {e}
         /\ Sorted(q) /\ AllBefore(RowSet(q), {e}) => Sorted(Append(q, e))
<1>1. /\ Len(Append(q, e)) = Len(q) + 1 /\ Len(q) \in Nat
      /\ DOMAIN Append(q, e) = 1 .. Len(q) + 1 /\ DOMAIN q = 1 .. Len(q)
      /\ \A i \in 1 .. Len(q) : Append(q, e)[i] = q[i]
      /\ Append(q, e)[Len(q) + 1] = e
  OBVIOUS
<1>2. RowSet(Append(q, e)) = RowSet(q) \cup {e}
  BY <1>1 DEF RowSet
<1>3. ASSUME Sorted(q), AllBefore(RowSet(q), {e}) PROVE Sorted(Append(q, e))
  <2>1. \A i \in 1 .. Len(q) : Before(q[i], e)
    BY <1>1, <1>3 DEF AllBefore, RowSet
  <2>2. ASSUME NEW i \in 1 .. Len(q) + 1, NEW j \in 1 .. Len(q) + 1, i < j
        PROVE  Before(Append(q, e)[i], Append(q, e)[j])
    <3>1. CASE j = Len(q) + 1
      BY <1>1, <2>1, <2>2, <3>1
    <3>2. CASE j # Len(q) + 1
      BY <1>1, <1>3, <2>2, <3>2 DEF Sorted
    <3>3. QED BY <3>1, <3>2
  <2>3. QED BY <1>1, <2>2 DEF Sorted
<1>4. QED BY <1>2, <1>3

\* So does joining two batches one behind the other.
LEMMA ConcatRows ==
  ASSUME NEW q \in Seq(Row), NEW r \in Seq(Row)
  PROVE  /\ q \o r \in Seq(Row)
         /\ RowSet(q \o r) = RowSet(q) \cup RowSet(r)
         /\ Sorted(q) /\ Sorted(r) /\ AllBefore(RowSet(q), RowSet(r)) =>
              Sorted(q \o r)
<1>1. /\ q \o r \in Seq(Row) /\ Len(q \o r) = Len(q) + Len(r)
      /\ Len(q) \in Nat /\ Len(r) \in Nat
      /\ DOMAIN (q \o r) = 1 .. Len(q) + Len(r)
      /\ DOMAIN q = 1 .. Len(q) /\ DOMAIN r = 1 .. Len(r)
      /\ \A i \in 1 .. Len(q) : (q \o r)[i] = q[i]
      /\ \A i \in 1 .. Len(r) : (q \o r)[Len(q) + i] = r[i]
      /\ \A i \in (Len(q) + 1) .. (Len(q) + Len(r)) :
           (q \o r)[i] = r[i - Len(q)] /\ i - Len(q) \in 1 .. Len(r)
  OBVIOUS
<1>2. RowSet(q \o r) = RowSet(q) \cup RowSet(r)
  <2>1. ASSUME NEW x \in RowSet(q \o r) PROVE x \in RowSet(q) \cup RowSet(r)
    BY <1>1 DEF RowSet
  <2>2. ASSUME NEW x \in RowSet(q) PROVE x \in RowSet(q \o r)
    BY <1>1 DEF RowSet
  <2>3. ASSUME NEW x \in RowSet(r) PROVE x \in RowSet(q \o r)
    <3>1. PICK i \in 1 .. Len(r) : x = r[i]
      BY <1>1 DEF RowSet
    <3>2. Len(q) + i \in 1 .. Len(q) + Len(r) /\ x = (q \o r)[Len(q) + i]
      BY <1>1, <3>1
    <3>3. QED BY <1>1, <3>2 DEF RowSet
  <2>4. QED BY <2>1, <2>2, <2>3
<1>3. ASSUME Sorted(q), Sorted(r), AllBefore(RowSet(q), RowSet(r))
      PROVE  Sorted(q \o r)
  <2>1. \A i \in 1 .. Len(q), j \in 1 .. Len(r) : Before(q[i], r[j])
    BY <1>1, <1>3 DEF AllBefore, RowSet
  <2>2. ASSUME NEW i \in 1 .. Len(q) + Len(r), NEW j \in 1 .. Len(q) + Len(r), i < j
        PROVE  Before((q \o r)[i], (q \o r)[j])
    <3>1. CASE j <= Len(q)
      BY <1>1, <1>3, <2>2, <3>1 DEF Sorted
    <3>2. CASE i <= Len(q) /\ Len(q) < j
      BY <1>1, <2>1, <2>2, <3>2
    <3>3. CASE Len(q) < i
      <4>1. /\ i - Len(q) \in 1 .. Len(r) /\ j - Len(q) \in 1 .. Len(r)
            /\ i - Len(q) < j - Len(q)
            /\ (q \o r)[i] = r[i - Len(q)] /\ (q \o r)[j] = r[j - Len(q)]
        BY <1>1, <2>2, <3>3
      <4>2. QED BY <1>1, <1>3, <4>1 DEF Sorted
    <3>4. QED BY <1>1, <3>1, <3>2, <3>3
  <2>3. QED BY <1>1, <2>2 DEF Sorted
<1>4. QED BY <1>1, <1>2, <1>3

\* "All before" over unions.
LEMMA AllBeforeSets ==
  /\ \A A, B, C : AllBefore(A \cup B, C) <=> AllBefore(A, C) /\ AllBefore(B, C)
  /\ \A A, B, C : AllBefore(A, B \cup C) <=> AllBefore(A, B) /\ AllBefore(A, C)
BY DEF AllBefore

-----------------------------------------------------------------------------
(* The input and the messages.                                              *)

LEMMA InputFacts ==
  ASSUME PipelineInv
  PROVE  /\ Sources = 1 .. Len(input) /\ Len(input) \in Nat
         /\ \A s \in Sources :
              /\ DOMAIN input[s] = 1 .. Len(input[s]) /\ Len(input[s]) \in Nat \ {0}
              /\ \A f \in DOMAIN input[s] :
                   /\ DOMAIN input[s][f] = 1 .. Len(input[s][f])
                   /\ Len(input[s][f]) \in Nat
<1> DEFINE Files == Seq(Seq(Kinds)) \ {<<>>}
<1>1. input \in Seq(Files)
  BY PipelineAssumption DEF PipelineInv, TypeOK
<1>2. Sources = 1 .. Len(input) /\ Len(input) \in Nat
  <2> HIDE DEF Files
  <2>1. QED BY <1>1 DEF Sources
<1>3. ASSUME NEW s \in Sources
      PROVE  /\ DOMAIN input[s] = 1 .. Len(input[s]) /\ Len(input[s]) \in Nat \ {0}
             /\ \A f \in DOMAIN input[s] :
                  /\ DOMAIN input[s][f] = 1 .. Len(input[s][f])
                  /\ Len(input[s][f]) \in Nat
  <2>1. input[s] \in Files
    <3> HIDE DEF Files
    <3>1. QED BY <1>1, <1>2, ElementOfSeq
  <2>2. /\ input[s] \in Seq(Seq(Kinds)) /\ input[s] # <<>>
        /\ DOMAIN input[s] = 1 .. Len(input[s]) /\ Len(input[s]) \in Nat
    BY <2>1
  <2>3. Len(input[s]) # 0
    BY <2>2, EmptySeq
  <2>4. \A f \in DOMAIN input[s] : input[s][f] \in Seq(Kinds)
    BY <2>2, ElementOfSeq
  <2>5. QED BY <2>2, <2>3, <2>4
<1>4. QED BY <1>2, <1>3

\* What a data row is, and that it is a row of some source.
LEMMA DataRow ==
  ASSUME NEW r
  PROVE  r \in DataRows <=>
           \E s \in Sources : \E f \in DOMAIN input[s] : \E i \in DOMAIN input[s][f] :
             r = <<s, f, i>> /\ ~IsHeader(s, f, i)
BY DEF DataRows

LEMMA DataRowIsRow ==
  ASSUME PipelineInv, NEW r \in DataRows
  PROVE  r \in Row /\ r[1] \in Sources
BY DataRow, InputFacts DEF Row

\* The messages a producer can have in hand.
LEMMA MessageFacts ==
  /\ Nothing \in Batches /\ Nothing.rows = <<>> /\ Nothing.kind = "nothing"
  /\ \A m \in Batches : /\ m \in Messages /\ m.rows \in Seq(Row)
                        /\ m.kind = "error" => m.rows = <<>>
BY DEF Nothing, Batches, Messages, Row

\* The rows of the input are the same in every state.
LEMMA InputFixed ==
  ASSUME input' = input
  PROVE  /\ Sources' = Sources /\ DataRows' = DataRows
         /\ \A r : KindOf(r)' = KindOf(r)
         /\ \A s, f, i : IsHeader(s, f, i)' = IsHeader(s, f, i)
BY DEF Sources, DataRows, KindOf, IsHeader

\* The input stays.
LEMMA NextKeepsInput == ASSUME Next PROVE input' = input
BY Zenon DEF Next, Producer, Main, Reader, SpawnChunk, NoMoreChunks, Receive, Disconnected,
       ChunkDrained, Forward, ForwardFails, JoinChunk, Take, AppendBatch, AppendFails,
       InputEnds, Close, JoinProducer, ReadHeader, ReadRow, ReadBad, FlushFile,
       NextFile, SendBatch, SendError, SendFails, ReaderPanics

-----------------------------------------------------------------------------
(* Types.                                                                   *)

LEMMA TypeFacts ==
  ASSUME PipelineInv
  PROVE  /\ wpc \in [Sources -> {"unborn", "reading", "sending", "failing", "exited",
                                 "panicked"}]
         /\ file \in [Sources -> Nat] /\ pos \in [Sources -> Nat]
         /\ rows \in [Sources -> Seq(Row)]
         /\ out \in [Sources -> Seq(Messages)]
         /\ receivers \in BOOLEAN /\ first \in Nat \ {0} /\ cur \in Nat \ {0}
         /\ parcel \in Batches /\ parcel \in Messages
         /\ queue \in Seq(Messages) /\ Len(queue) <= 2
         /\ batch \in Batches /\ batch \in Messages
         /\ skipped \in Nat /\ loaded \in Seq(Row)
         /\ ParserWorkers \in Nat \ {0} /\ BatchRows \in Nat \ {0}
         /\ Tolerance \in Nat
BY PipelineAssumption DEF PipelineInv, TypeOK, Row, ProducerAt, MainAt, Batches

\* An action of the loader's thread changes nothing of the readers.
LEMMA ReaderTypes ==
  ASSUME PipelineInv, NEW s \in Sources, Reader(s)
  PROVE  TypeOK'
<1> USE TypeFacts, InputFixed
<1>1. TypeOK
  BY DEF PipelineInv
<1>2. CASE ReadHeader(s)
  BY <1>1, <1>2 DEF ReadHeader, TypeOK, channels, collect, consume
<1>3. CASE ReadRow(s)
  <2>1. <<s, file[s], pos[s]>> \in Row
    BY <1>3, InputFacts DEF Row
  <2>2. rows' \in [Sources -> Seq(Row)]
    BY <1>3, <2>1, AppendProperties DEF ReadRow
  <2>3. QED
    BY <1>1, <1>3, <2>2, SMTT(30) DEF ReadRow, TypeOK, channels, collect, consume, Row
<1>4. CASE ReadBad(s)
  BY <1>1, <1>4 DEF ReadBad, TypeOK, channels, collect, consume
<1>5. CASE FlushFile(s)
  BY <1>1, <1>5 DEF FlushFile, TypeOK, channels, collect, consume
<1>6. CASE NextFile(s)
  <2>1. file' \in [Sources -> Nat] /\ pos' \in [Sources -> Nat]
    <3>1. CASE file[s] < Len(input[s])
      <4>1. file' = [file EXCEPT ![s] = @ + 1] /\ pos' = [pos EXCEPT ![s] = 1]
        BY <1>6, <3>1, Zenon DEF NextFile
      <4>2. file \in [Sources -> Nat] /\ pos \in [Sources -> Nat]
        BY Zenon
      <4> HIDE TypeFacts, InputFixed
      <4>3. QED BY <4>1, <4>2
    <3>2. CASE ~(file[s] < Len(input[s]))
      BY <1>6, <3>2, Zenon DEF NextFile
    <3>3. QED BY <3>1, <3>2
  <2>2. QED
    BY <1>1, <1>6, <2>1 DEF NextFile, TypeOK, channels, collect, consume
<1>7. CASE SendBatch(s) \/ SendError(s)
  <2>1. BatchOf(s) \in Messages /\ ErrorOf(s) \in Messages
    <3>1. s \in Nat /\ rows[s] \in Seq(Row) /\ <<>> \in Seq(Row)
      BY InputFacts
    <3> HIDE TypeFacts, InputFixed
    <3>2. QED BY <3>1 DEF BatchOf, ErrorOf, Messages
  <2>2. ASSUME NEW m \in Messages, out' = [out EXCEPT ![s] = Append(@, m)]
        PROVE  out' \in [Sources -> Seq(Messages)]
    <3>1. out[s] \in Seq(Messages)
      BY Zenon
    <3>2. Append(out[s], m) \in Seq(Messages)
      BY <3>1, AppendProperties
    <3>3. QED BY <2>2, <3>2
  <2>3. out' \in [Sources -> Seq(Messages)]
    BY <1>7, <2>1, <2>2 DEF SendBatch, SendError
  <2>4. rows' \in [Sources -> Seq(Row)]
    <3>1. <<>> \in Seq(Row) /\ rows \in [Sources -> Seq(Row)]
      BY TypeFacts
    <3>2. rows' = rows \/ rows' = [rows EXCEPT ![s] = <<>>]
      BY <1>7, Zenon DEF SendBatch, SendError
    <3>3. QED BY <3>1, <3>2, Zenon
  <2>5. QED
    BY <1>1, <1>7, <2>3, <2>4 DEF SendBatch, SendError, TypeOK, collect, consume
<1>8. CASE SendFails(s)
  BY <1>1, <1>8 DEF SendFails, TypeOK, channels, collect, consume
<1>9. CASE ReaderPanics(s)
  BY <1>1, <1>9 DEF ReaderPanics, TypeOK, channels, collect, consume
<1>10. QED
  BY <1>2, <1>3, <1>4, <1>5, <1>6, <1>7, <1>8, <1>9 DEF Reader

\* Channels are empty at first.
LEMMA NoMessages == [s \in Sources |-> <<>>] \in [Sources -> Seq(Messages)]
<1>1. <<>> \in Seq(Messages)
  OBVIOUS
<1>2. QED BY <1>1, Zenon

\* Types under the steps of the producer and of the main thread.
LEMMA ProducerTypes ==
  ASSUME PipelineInv, Producer
  PROVE  TypeOK'
<1> USE TypeFacts, InputFixed
<1>1. TypeOK
  BY DEF PipelineInv
<1>2. CASE SpawnChunk
  BY <1>1, <1>2 DEF SpawnChunk, TypeOK, channels, collect, consume
<1>3. CASE NoMoreChunks
  BY <1>1, <1>3 DEF NoMoreChunks, TypeOK, readers, channels, consume
<1>4. CASE Receive
  <2>1. /\ out[cur] \in Seq(Messages) /\ cur \in Sources
        /\ Head(out[cur]) \in Messages /\ Tail(out[cur]) \in Seq(Messages)
    BY <1>4, HeadTailProperties DEF Receive, Chunk
  <2>2. out' \in [Sources -> Seq(Messages)]
    BY <1>4, <2>1 DEF Receive
  <2>3. QED BY <1>1, <1>4, <2>1, <2>2 DEF Receive, TypeOK, readers, consume
<1>5. CASE Disconnected
  BY <1>1, <1>5 DEF Disconnected, TypeOK, readers, channels, consume
<1>6. CASE ChunkDrained
  BY <1>1, <1>6, NoMessages DEF ChunkDrained, DropReceivers, TypeOK, readers, consume
<1>7. CASE Forward
  <2>1. queue' \in Seq(Messages)
    BY <1>7, AppendProperties DEF Forward
  <2>2. Nothing \in Messages
    BY MessageFacts
  <2>3. QED
    BY <1>1, <1>7, <2>1, <2>2, NoMessages
       DEF Forward, DropReceivers, TypeOK, readers, consume
<1>8. CASE ForwardFails
  BY <1>1, <1>8, MessageFacts, NoMessages
     DEF ForwardFails, DropReceivers, TypeOK, readers, consume
<1>9. CASE JoinChunk
  BY <1>1, <1>9 DEF JoinChunk, TypeOK, readers, channels, consume
<1>10. QED
  BY <1>2, <1>3, <1>4, <1>5, <1>6, <1>7, <1>8, <1>9 DEF Producer

LEMMA MainTypes ==
  ASSUME PipelineInv, Main
  PROVE  TypeOK'
<1> USE TypeFacts, InputFixed
<1>1. TypeOK
  BY DEF PipelineInv
<1>2. CASE Take
  <2>1. Head(queue) \in Messages /\ Tail(queue) \in Seq(Messages)
    BY <1>2, HeadTailProperties DEF Take
  <2>2. Head(queue).source \in Nat
    BY <2>1 DEF Messages
  <2>3. QED BY <1>1, <1>2, <2>1, <2>2 DEF Take, TypeOK, readers, collect, Why
<1>3. CASE AppendBatch
  <2>1. BadEntries(batch) \in Nat
    <3>1. batch.rows \in Seq(Row)
      BY MessageFacts
    <3>2. /\ IsFiniteSet(DOMAIN batch.rows)
          /\ {i \in DOMAIN batch.rows : KindOf(batch.rows[i]) = "skip"}
               \subseteq DOMAIN batch.rows
      <4>1. /\ DOMAIN batch.rows = 1 .. Len(batch.rows)
            /\ Len(batch.rows) \in Int /\ 1 \in Int
        BY <3>1
      <4>2. QED BY <4>1, FS_Interval
    <3>3. QED BY <3>2, FS_Subset, FS_CardinalityType DEF BadEntries
  <2>2. loaded' \in Seq(Row)
    BY <1>3, MessageFacts, ConcatProperties DEF AppendBatch
  <2>3. Nothing \in Messages /\ batch.source \in Nat
    BY MessageFacts DEF Messages
  <2>4. QED
    BY <1>1, <1>3, <2>1, <2>2, <2>3, SMTT(30)
       DEF AppendBatch, TypeOK, readers, channels, collect, Row, Why
<1>4. CASE AppendFails
  <2>1. Nothing \in Messages /\ batch.source \in Nat
    BY MessageFacts DEF Messages
  <2>2. QED
    BY <1>1, <1>4, <2>1 DEF AppendFails, TypeOK, readers, channels, collect, Why
<1>5. CASE InputEnds
  BY <1>1, <1>5 DEF InputEnds, TypeOK, readers, channels, collect
<1>6. CASE Close
  BY <1>1, <1>6 DEF Close, TypeOK, readers, collect
<1>7. CASE JoinProducer
  BY <1>1, <1>7 DEF JoinProducer, TypeOK, readers, channels, collect, Why
<1>8. QED BY <1>2, <1>3, <1>4, <1>5, <1>6, <1>7 DEF Main

-----------------------------------------------------------------------------
(* Where the threads are.                                                   *)

\* A reader touches only what is its own.
LEMMA ReaderLocal ==
  ASSUME PipelineInv, NEW s \in Sources, Reader(s)
  PROVE  /\ UNCHANGED <<input, receivers, queue, collect, consume>>
         /\ wpc[s] \in {"reading", "sending", "failing"}
         /\ wpc'[s] # "unborn"
         /\ ~receivers => UNCHANGED out
         /\ \A t \in Sources \ {s} :
              /\ wpc'[t] = wpc[t] /\ file'[t] = file[t] /\ pos'[t] = pos[t]
              /\ rows'[t] = rows[t] /\ out'[t] = out[t]
<1> USE TypeFacts
<1>1. CASE ReadHeader(s) \/ ReadRow(s) \/ ReadBad(s)
  BY <1>1 DEF ReadHeader, ReadRow, ReadBad, More, channels
<1>2. CASE FlushFile(s) \/ NextFile(s)
  BY <1>2 DEF FlushFile, NextFile, FileEnds, channels
<1>3. CASE SendBatch(s) \/ SendError(s) \/ SendFails(s) \/ ReaderPanics(s)
  BY <1>3 DEF SendBatch, SendError, SendFails, ReaderPanics, channels
<1>4. QED BY <1>1, <1>2, <1>3 DEF Reader

\* The bounds of a reader's channel, under its own steps and those of others.
LEMMA ReaderKeepsBounds ==
  ASSUME PipelineInv, NEW s \in Sources, Reader(s)
  PROVE  ReaderBounds'
<1>1. /\ ReaderBound(s) /\ file[s] \in Nat /\ pos[s] \in Nat
      /\ rows[s] \in Seq(Row) /\ Len(rows[s]) \in Nat /\ s \in Nat
      /\ DOMAIN input[s] = 1 .. Len(input[s]) /\ Len(input[s]) \in Nat
      /\ Len(input[s][file[s]]) \in Nat /\ BatchRows \in Nat \ {0}
  <2>1. ReaderBound(s)
    BY DEF PipelineInv, ReaderBounds
  <2>2. rows[s] \in Seq(Row) /\ Len(rows[s]) \in Nat
    BY TypeFacts
  <2>3. file[s] \in DOMAIN input[s] /\ s \in Nat
    BY <2>1, InputFacts DEF ReaderBound
  <2>4. QED BY <2>1, <2>2, <2>3, TypeFacts, InputFacts
<1>2. Sources' = Sources /\ input' = input
  BY ReaderLocal, InputFixed
<1>3. ASSUME NEW t \in Sources \ {s} PROVE ReaderBound(t)'
  <2>1. ReaderBound(t)
    BY DEF PipelineInv, ReaderBounds
  <2>2. QED BY <2>1, <1>2, ReaderLocal DEF ReaderBound
<1>4. ReaderBound(s)'
  <2>1. CASE ReadHeader(s)
    <3>1. pos'[s] = pos[s] + 1 /\ pos[s] <= Len(input[s][file[s]])
          /\ UNCHANGED <<wpc, file, rows, out>> /\ wpc[s] = "reading"
      BY <2>1, TypeFacts DEF ReadHeader, More, channels
    <3>2. QED BY <1>1, <1>2, <3>1, SMTT(30) DEF ReaderBound
  <2>2. CASE ReadRow(s)
    <3>1. /\ pos'[s] = pos[s] + 1 /\ pos[s] <= Len(input[s][file[s]])
          /\ wpc[s] = "reading" /\ UNCHANGED <<file, out>>
          /\ rows'[s] = Append(rows[s], <<s, file[s], pos[s]>>)
          /\ wpc'[s] = IF Len(rows[s]) + 1 >= BatchRows THEN "sending" ELSE "reading"
      BY <2>2, TypeFacts DEF ReadRow, More, channels
    <3>2. Len(rows'[s]) = Len(rows[s]) + 1
      BY <1>1, <3>1
    <3>3. /\ Len(rows'[s]) <= BatchRows
          /\ wpc'[s] = "reading" => Len(rows'[s]) < BatchRows
          /\ wpc'[s] \in {"reading", "sending"}
      BY <1>1, <3>1, <3>2 DEF ReaderBound
    <3>4. pos'[s] \in 1 .. Len(input[s][file[s]]) + 1
      <4>1. pos'[s] = pos[s] + 1 /\ pos[s] <= Len(input[s][file[s]])
        BY <3>1
      <4>2. pos[s] \in Nat /\ Len(input[s][file[s]]) \in Nat
        BY <1>1
      <4>3. QED BY <4>1, <4>2
    <3>5. QED BY <1>1, <1>2, <3>1, <3>3, <3>4 DEF ReaderBound
  <2>3. CASE ReadBad(s) \/ ReaderPanics(s) \/ SendFails(s)
    <3>1. /\ rows'[s] = <<>> /\ UNCHANGED <<file, pos, out>>
          /\ wpc'[s] \in {"failing", "panicked", "exited"}
      BY <2>3, TypeFacts DEF ReadBad, ReaderPanics, SendFails, channels
    <3>2. Len(rows'[s]) = 0
      BY <3>1
    <3>3. /\ UNCHANGED <<file[s], pos[s], out[s], input[s]>>
          /\ Len(rows'[s]) <= BatchRows /\ wpc'[s] # "unborn" /\ wpc'[s] # "reading"
      BY <1>1, <1>2, <3>1, <3>2
    <3>4. QED BY <1>1, <3>1, <3>3 DEF ReaderBound
  <2>4. CASE FlushFile(s)
    <3>1. /\ wpc'[s] = "sending" /\ UNCHANGED <<file, pos, rows, out>>
      BY <2>4, TypeFacts DEF FlushFile, channels
    <3>2. QED BY <1>1, <1>2, <3>1 DEF ReaderBound
  <2>5. CASE NextFile(s)
    <3>1. /\ UNCHANGED <<rows, out>> /\ rows[s] = <<>> /\ wpc[s] = "reading"
          /\ \/ /\ file[s] < Len(input[s]) /\ file'[s] = file[s] + 1 /\ pos'[s] = 1
                /\ wpc'[s] = "reading"
             \/ wpc'[s] = "exited" /\ UNCHANGED <<file, pos>>
      BY <2>5, TypeFacts DEF NextFile, FileEnds, channels
    <3>2. CASE wpc'[s] = "exited"
      BY <1>1, <1>2, <3>1, <3>2 DEF ReaderBound
    <3>3. CASE wpc'[s] = "reading"
      <4>1. /\ file[s] + 1 \in DOMAIN input[s]
            /\ Len(input[s][file[s] + 1]) \in Nat
        BY <1>1, <3>1, <3>3, InputFacts
      <4>2. QED BY <1>1, <1>2, <3>1, <3>3, <4>1, SMTT(30) DEF ReaderBound
    <3>4. QED BY <3>1, <3>2, <3>3
  <2>6. CASE SendBatch(s) \/ SendError(s)
    <3>1. /\ UNCHANGED <<file, pos>> /\ Len(out[s]) < 1 /\ out[s] \in Seq(Messages)
          /\ wpc[s] \in {"sending", "failing"} /\ wpc'[s] \in {"reading", "exited"}
          /\ rows'[s] = <<>>
          /\ out'[s] \in {Append(out[s], BatchOf(s)), Append(out[s], ErrorOf(s))}
      BY <1>1, <2>6, TypeFacts DEF SendBatch, SendError, ReaderBound
    <3>2. BatchOf(s) \in Batches /\ ErrorOf(s) \in Batches
      BY <1>1 DEF BatchOf, ErrorOf, Batches, Messages
    <3>3. /\ BatchOf(s).source = s /\ ErrorOf(s).source = s
          /\ out[s] = <<>>
      BY <3>1, EmptySeq, LenProperties DEF BatchOf, ErrorOf
    <3>4. PICK m \in {BatchOf(s), ErrorOf(s)} : out'[s] = <<m>>
      BY <3>1, <3>3
    <3>5. Len(out'[s]) = 1 /\ DOMAIN out'[s] = {1} /\ out'[s][1] = m
      BY <3>4
    <3>6. QED BY <1>1, <1>2, <3>1, <3>2, <3>3, <3>4, <3>5 DEF ReaderBound
  <2>7. QED BY <2>1, <2>2, <2>3, <2>4, <2>5, <2>6 DEF Reader
<1>5. QED BY <1>2, <1>3, <1>4 DEF ReaderBounds

\* What the main thread and the producer leave alone.
LEMMA MainLocal ==
  ASSUME Main
  PROVE  /\ UNCHANGED <<input, readers, out, receivers, collect>>
         /\ UNCHANGED <<wpc, file, pos, rows, first, cur, producer, parcel>>
<1>1. UNCHANGED <<input, readers, out, receivers, collect>>
  BY Zenon
     DEF Main, Take, AppendBatch, AppendFails, InputEnds, Close, JoinProducer, channels
<1>2. QED BY <1>1 DEF readers, collect

LEMMA ProducerLocal ==
  ASSUME Producer
  PROVE  /\ UNCHANGED <<input, file, pos, rows, main, batch, skipped, verdict, loaded>>
         /\ ~SpawnChunk => UNCHANGED wpc
<1>1. UNCHANGED <<input, file, pos, rows, consume>> /\ (~SpawnChunk => UNCHANGED wpc)
  BY Zenon
     DEF Producer, SpawnChunk, NoMoreChunks, Receive, Disconnected, ChunkDrained,
         Forward, ForwardFails, JoinChunk, readers
<1>2. QED BY <1>1 DEF consume

\* A channel of capacity one.
LEMMA OneMessage ==
  ASSUME NEW q \in Seq(Messages), Len(q) <= 1, q # <<>>
  PROVE  /\ Len(q) = 1 /\ DOMAIN q = {1} /\ Head(q) = q[1] /\ Tail(q) = <<>>
<1>1. Len(q) = 1
  BY EmptySeq
<1>2. Tail(q) \in Seq(Messages) /\ Len(Tail(q)) = 0 /\ Head(q) = q[1]
  BY <1>1, HeadTailProperties
<1>3. Tail(q) = <<>>
  BY <1>2, EmptySeq
<1>4. DOMAIN q = {1}
  BY <1>1, LenProperties
<1>5. QED BY <1>1, <1>2, <1>3, <1>4

\* The chunk is an interval of sources.
LEMMA InChunk ==
  ASSUME NEW s \in Sources
  PROVE  s \in Chunk <=> first <= s /\ s < first + ParserWorkers
BY DEF Chunk

LEMMA OthersKeepBounds ==
  ASSUME PipelineInv, Producer \/ Main
  PROVE  ReaderBounds'
<1>1. Sources' = Sources /\ input' = input
  BY MainLocal, ProducerLocal, InputFixed
<1>2. UNCHANGED <<file, pos, rows>>
  BY MainLocal, ProducerLocal
<1>3. ASSUME NEW s \in Sources PROVE ReaderBound(s)'
  <2>1. ReaderBound(s) /\ out[s] \in Seq(Messages)
    BY TypeFacts DEF PipelineInv, ReaderBounds
  <2>2. CASE SpawnChunk
    <3>1. wpc'[s] = (IF s \in Chunk THEN "reading" ELSE wpc[s]) /\ UNCHANGED out
      BY <2>2 DEF SpawnChunk
    <3>2. CASE s \in Chunk
      <4>1. wpc[s] = "unborn"
        BY <2>2, <3>2, InputFacts, TypeFacts
           DEF Chunk, PipelineInv, ProducerAt, Begun, SpawnChunk
      <4>2. rows[s] = <<>> /\ Len(rows[s]) = 0
        BY <2>1, <4>1 DEF ReaderBound
      <4>3. QED BY <2>1, <1>1, <1>2, <3>1, <3>2, <4>2, TypeFacts DEF ReaderBound
    <3>3. CASE s \notin Chunk
      BY <2>1, <1>1, <1>2, <3>1, <3>3 DEF ReaderBound
    <3>4. QED BY <3>2, <3>3
  <2>3. CASE ~SpawnChunk
    <3>1. UNCHANGED wpc
      BY <2>3, MainLocal, ProducerLocal DEF readers
    <3>2. CASE Receive /\ s = cur
      <4>1. out[s] # <<>> /\ out'[s] = Tail(out[s])
        BY <3>2, TypeFacts DEF Receive
      <4>2. /\ Len(out[s]) = 1 /\ out'[s] = <<>>
        BY <2>1, <4>1, OneMessage DEF ReaderBound
      <4>3. QED BY <2>1, <1>1, <1>2, <3>1, <4>2 DEF ReaderBound
    <3>3. CASE ~(Receive /\ s = cur)
      <4>1. out'[s] = out[s] \/ out'[s] = <<>>
        BY <2>3, <3>3, MainLocal, TypeFacts
           DEF Producer, NoMoreChunks, Receive, Disconnected, ChunkDrained,
               Forward, ForwardFails, JoinChunk, DropReceivers, channels
      <4>2. QED BY <2>1, <1>1, <1>2, <3>1, <4>1 DEF ReaderBound
    <3>4. QED BY <3>2, <3>3
  <2>4. QED BY <2>2, <2>3
<1>4. QED BY <1>1, <1>3 DEF ReaderBounds

\* Where the producer is, under each thread.
LEMMA ReaderKeepsProducerAt ==
  ASSUME PipelineInv, NEW s \in Sources, Reader(s)
  PROVE  ProducerAt'
<1>1. ProducerAt
  BY DEF PipelineInv
<1>2. Sources' = Sources /\ Chunk' = Chunk /\ Begun' = Begun
  BY ReaderLocal, InputFixed DEF Chunk, Begun, collect
<1>3. UNCHANGED <<first, cur, producer, parcel, receivers>>
  BY ReaderLocal DEF collect
<1>4. /\ wpc[s] # "unborn" /\ ~Ended(s) /\ wpc'[s] # "unborn"
      /\ \A t \in Sources \ {s} : wpc'[t] = wpc[t] /\ out'[t] = out[t]
      /\ ~receivers => UNCHANGED out
  BY ReaderLocal DEF Ended
<1>5. /\ ~(s >= Begun) /\ ~(s < first) /\ (producer # "spawn" => ~(s < cur))
      /\ producer \notin {"done", "panicked"}
  BY <1>1, <1>4 DEF ProducerAt, Ended
<1>6. \A t \in Sources : wpc[t] = "unborn" <=> wpc'[t] = "unborn"
  BY <1>4
<1>7. /\ (\A t \in Sources : wpc[t] = "unborn" <=> t >= Begun)'
      /\ (\A t \in Sources : t < first => wpc[t] = "exited" /\ out[t] = <<>>)'
      /\ (producer # "spawn" =>
            \A t \in Sources : t < cur => Ended(t) /\ out[t] = <<>>)'
  BY <1>1, <1>2, <1>3, <1>4, <1>5, <1>6 DEF ProducerAt, Ended
<1>8. (~receivers => \A t \in Sources : out[t] = <<>>)'
  BY <1>1, <1>2, <1>3, <1>4 DEF ProducerAt
<1>9. QED BY <1>1, <1>2, <1>3, <1>5, <1>7, <1>8 DEF ProducerAt, Batches, Messages

LEMMA MainKeepsProducerAt ==
  ASSUME PipelineInv, Main
  PROVE  ProducerAt'
BY MainLocal, InputFixed
   DEF PipelineInv, ProducerAt, Begun, Chunk, Ended, Batches, Messages, Sources

\* What the steps of the producer leave as it was.
LEMMA ProducerKeepsProducerAt ==
  ASSUME PipelineInv, Producer
  PROVE  ProducerAt'
<1> USE TypeFacts
<1>1. /\ ProducerAt /\ Sources' = Sources /\ input' = input /\ Sources \subseteq Nat
      /\ Batches' = Batches /\ ParserWorkers \in Nat \ {0} /\ Nothing \in Batches
  BY ProducerLocal, InputFixed, InputFacts, MessageFacts
     DEF PipelineInv, Batches, Messages
<1>2. CASE SpawnChunk
  <2>1. /\ producer = "spawn" /\ producer' = "recv" /\ receivers' = TRUE
        /\ cur' = first /\ UNCHANGED <<first, out, parcel>>
        /\ \A s \in Sources : wpc'[s] = IF s \in Chunk THEN "reading" ELSE wpc[s]
    BY <1>2 DEF SpawnChunk
  <2>2. Begun = first /\ Begun' = first + ParserWorkers
    BY <2>1 DEF Begun
  <2>3. ASSUME NEW s \in Sources
        PROVE  /\ wpc'[s] = "unborn" <=> s >= first + ParserWorkers
               /\ s < first => wpc'[s] = "exited" /\ out'[s] = <<>>
    <3>1. /\ s \in Nat /\ first \in Nat /\ ParserWorkers \in Nat \ {0}
          /\ s \in Chunk <=> first <= s /\ s < first + ParserWorkers
          /\ wpc[s] = "unborn" <=> s >= first
          /\ s < first => wpc[s] = "exited" /\ out[s] = <<>>
          /\ wpc'[s] = (IF s \in Chunk THEN "reading" ELSE wpc[s]) /\ out' = out
      BY <1>1, <2>1, <2>2, InChunk DEF ProducerAt
    <3> HIDE TypeFacts
    <3>2. CASE s \in Chunk
      BY <3>1, <3>2
    <3>3. CASE s \notin Chunk
      BY <3>1, <3>3
    <3>4. QED BY <3>2, <3>3
  <2>4. QED BY <1>1, <2>1, <2>2, <2>3, SMTT(30) DEF ProducerAt, Ended
<1>3. CASE NoMoreChunks
  <2>1. /\ producer = "spawn" /\ producer' = "done" /\ Chunk = {}
        /\ UNCHANGED <<first, cur, out, parcel, wpc, receivers>>
    BY <1>3 DEF NoMoreChunks, readers, channels
  <2>2. \A s \in Sources : s < first
    <3>1. SUFFICES ASSUME NEW s \in Sources, s >= first PROVE FALSE
      BY <1>1
    <3>2. first \in Sources
      BY <3>1, InputFacts
    <3>3. first \in Chunk
      BY <3>2, <1>1, InChunk
    <3>4. QED BY <2>1, <3>3
  <2>3. \A s \in Sources : wpc[s] = "exited" /\ out[s] = <<>>
    BY <1>1, <2>2 DEF ProducerAt
  <2>4. QED BY <1>1, <2>1, <2>2, <2>3 DEF ProducerAt, Begun, Ended
<1>4. CASE Receive
  <2>1. /\ producer = "recv" /\ producer' = "send" /\ cur \in Chunk /\ out[cur] # <<>>
        /\ UNCHANGED <<first, cur, wpc, receivers, input>>
        /\ \A s \in Sources : s # cur => out'[s] = out[s]
        /\ parcel' = Head(out[cur]) /\ cur \in Sources
    BY <1>4 DEF Receive, readers, Chunk
  <2>2. parcel' \in Batches
    <3>1. /\ out[cur] \in Seq(Messages) /\ Len(out[cur]) <= 1
          /\ \A i \in DOMAIN out[cur] : out[cur][i] \in Batches
      BY <2>1 DEF PipelineInv, ReaderBounds, ReaderBound
    <3>2. QED BY <2>1, <3>1, OneMessage
  <2>3. ASSUME NEW s \in Sources
        PROVE  /\ s < first => wpc[s] = "exited" /\ out'[s] = <<>>
               /\ s < cur => Ended(s) /\ out'[s] = <<>>
    BY <1>1, <2>1 DEF ProducerAt, Chunk
  <2>4. receivers
    BY <1>1, <2>1 DEF ProducerAt
  <2>5. Begun' = Begun /\ Chunk' = Chunk
    BY <1>1, <2>1 DEF Begun, Chunk
  <2>6. QED
    BY <1>1, <2>1, <2>2, <2>3, <2>4, <2>5 DEF ProducerAt, Ended
<1>5. CASE Disconnected
  <2>1. /\ producer = "recv" /\ UNCHANGED <<producer, first, wpc, receivers, out, parcel>>
        /\ cur' = cur + 1 /\ out[cur] = <<>> /\ Ended(cur)
    BY <1>5 DEF Disconnected, readers, channels
  <2>2. \A s \in Sources : s < cur + 1 => s < cur \/ s = cur
    BY <1>1
  <2>3. QED BY <1>1, <2>1, <2>2, SMTT(30) DEF ProducerAt, Begun, Ended
<1>6. CASE ChunkDrained \/ ForwardFails
  <2>1. /\ producer \in {"recv", "send"} /\ producer' \in {"joined", "stopping"}
        /\ producer' = "joined" => cur \notin Chunk
        /\ UNCHANGED <<first, cur, wpc, input>> /\ receivers' = FALSE
        /\ parcel' = Nothing /\ \A s \in Sources : out'[s] = <<>>
    BY <1>1, <1>6
       DEF ChunkDrained, ForwardFails, DropReceivers, readers, ProducerAt
  <2>2. Begun' = Begun /\ Chunk' = Chunk
    BY <1>1, <2>1 DEF Begun, Chunk
  <2>3. QED BY <1>1, <2>1, <2>2 DEF ProducerAt, Ended
<1>7. CASE Forward
  <2>1. /\ producer = "send" /\ UNCHANGED <<first, cur, wpc, input>>
        /\ parcel' = Nothing
        /\ \/ /\ receivers' = FALSE /\ producer' = "stopping"
              /\ \A s \in Sources : out'[s] = <<>>
           \/ producer' = "recv" /\ UNCHANGED <<out, receivers>>
    BY <1>7 DEF Forward, DropReceivers, readers
  <2>2. Begun' = Begun /\ Chunk' = Chunk
    BY <1>1, <2>1 DEF Begun, Chunk
  <2>3. QED BY <1>1, <2>1, <2>2 DEF ProducerAt, Ended
<1>8. CASE JoinChunk
  <2>1. /\ producer \in {"joined", "stopping"} /\ \A s \in Chunk : Ended(s)
        /\ UNCHANGED <<input, wpc, receivers, out, cur, parcel>>
        /\ \/ producer' \in {"done", "panicked"} /\ UNCHANGED first
           \/ /\ producer' = "spawn" /\ first' = first + ParserWorkers
              /\ \A s \in Chunk : wpc[s] = "exited"
    BY <1>8 DEF JoinChunk, readers, channels, Ended
  <2>2. /\ ~receivers /\ parcel = Nothing /\ \A s \in Sources : out[s] = <<>>
    BY <1>1, <2>1 DEF ProducerAt
  <2>3. ASSUME NEW s \in Sources PROVE wpc[s] = "unborn" \/ Ended(s)
    <3>1. /\ wpc[s] = "unborn" <=> s >= first + ParserWorkers
          /\ s < first => wpc[s] = "exited"
      BY <1>1, <2>1 DEF ProducerAt, Begun
    <3>2. s \in Nat /\ (s >= first + ParserWorkers \/ s < first \/ s \in Chunk)
      BY <1>1, InChunk, SMTT(30)
    <3>3. QED BY <2>1, <3>1, <3>2 DEF Ended
  <2>4. \A s \in Sources : s < first + ParserWorkers => s < first \/ s \in Chunk
    BY <1>1, InChunk
  <2>5. Begun' = Begun
    BY <2>1 DEF Begun
  <2>6. CASE producer' = "spawn"
    BY <1>1, <2>1, <2>2, <2>4, <2>5, <2>6 DEF ProducerAt
  <2>7. CASE producer' \in {"done", "panicked"}
    BY <1>1, <2>1, <2>2, <2>3, <2>5, <2>7 DEF ProducerAt, Ended
  <2>8. QED BY <2>1, <2>6, <2>7
<1>9. QED BY <1>2, <1>3, <1>4, <1>5, <1>6, <1>7, <1>8 DEF Producer

\* Where the main thread is, under each thread.
LEMMA ReaderKeepsMainAt ==
  ASSUME PipelineInv, NEW s \in Sources, Reader(s)
  PROVE  MainAt'
BY ReaderLocal
   DEF PipelineInv, MainAt, MainListens, collect, consume, Batches, Messages, Undecided

\* A message put into or taken out of the queue.
LEMMA QueueAppend ==
  ASSUME NEW q \in Seq(Messages), Len(q) < 2, NEW m \in Messages
  PROVE  LET r == Append(q, m)
         IN  /\ Len(r) = Len(q) + 1 /\ Len(r) <= 2
             /\ DOMAIN q = 1 .. Len(q) /\ DOMAIN r = 1 .. Len(q) + 1
             /\ \A i \in DOMAIN q : r[i] = q[i]
             /\ r[Len(q) + 1] = m
OBVIOUS

\* Receiving takes the head of the queue.
LEMMA QueueTail ==
  ASSUME NEW q \in Seq(Messages), q # <<>>
  PROVE  /\ Tail(q) \in Seq(Messages) /\ Len(Tail(q)) = Len(q) - 1
         /\ Len(q) \in Nat \ {0} /\ DOMAIN q = 1 .. Len(q)
         /\ DOMAIN Tail(q) = 1 .. Len(q) - 1
         /\ \A i \in 1 .. Len(q) - 1 : i + 1 \in DOMAIN q /\ Tail(q)[i] = q[i + 1]
         /\ Head(q) = q[1] /\ 1 \in DOMAIN q
<1>1. Len(q) \in Nat \ {0} /\ DOMAIN q = 1 .. Len(q) /\ Head(q) = q[1]
  BY EmptySeq, LenProperties
<1>2. /\ Tail(q) \in Seq(Messages) /\ Len(Tail(q)) = Len(q) - 1
      /\ \A i \in 1 .. Len(Tail(q)) : Tail(q)[i] = q[i + 1]
  BY HeadTailProperties
<1>3. DOMAIN Tail(q) = 1 .. Len(q) - 1
  BY <1>2, LenProperties
<1>4. QED BY <1>1, <1>2, <1>3

LEMMA ProducerKeepsMainAt ==
  ASSUME PipelineInv, Producer
  PROVE  MainAt'
<1>1. /\ MainAt /\ UNCHANGED <<main, batch, skipped, verdict>>
      /\ Batches' = Batches /\ Undecided' = Undecided
  BY ProducerLocal DEF PipelineInv, Batches, Messages, Undecided
<1>2. producer \notin {"done", "panicked"}
  BY DEF Producer, SpawnChunk, NoMoreChunks, Receive, Disconnected, ChunkDrained,
         Forward, ForwardFails, JoinChunk
<1>3. CASE Forward
  <2>1. MainListens /\ Len(queue) < 2 /\ queue' = Append(queue, parcel)
    BY <1>3 DEF Forward
  <2>2. /\ Len(queue') <= 2
        /\ \A i \in DOMAIN queue' : queue'[i] \in Batches
    BY <1>1, <2>1, TypeFacts, QueueAppend DEF MainAt
  <2>3. QED BY <1>1, <2>1, <2>2 DEF MainAt, MainListens
<1>4. CASE ~Forward
  <2>1. UNCHANGED queue
    BY <1>4 DEF Producer, SpawnChunk, NoMoreChunks, Receive, Disconnected, ChunkDrained,
                ForwardFails, JoinChunk, channels
  <2>2. QED BY <1>1, <1>2, <2>1 DEF MainAt, MainListens
<1>5. QED BY <1>3, <1>4

LEMMA MainKeepsMainAt ==
  ASSUME PipelineInv, Main
  PROVE  MainAt'
<1> USE TypeFacts, MessageFacts
<1>1. /\ MainAt /\ UNCHANGED producer
      /\ Batches' = Batches /\ Undecided' = Undecided
  BY MainLocal DEF PipelineInv, Batches, Messages, Undecided
<1>2. \A w, s : w # "none" => Why(w, s) # Undecided
  BY DEF Why, Undecided
<1>3. CASE Take
  <2>1. /\ main = "recv" /\ queue # <<>> /\ queue' = Tail(queue)
        /\ \/ verdict' # Undecided /\ main' = "close" /\ UNCHANGED batch
           \/ /\ batch' = Head(queue) /\ main' = "append" /\ UNCHANGED verdict
        /\ UNCHANGED skipped
    BY <1>2, <1>3 DEF Take
  <2>2. /\ Len(queue') <= 2 /\ Head(queue) \in Batches
        /\ \A i \in DOMAIN queue' : queue'[i] \in Batches
    BY <1>1, <2>1, QueueTail DEF MainAt
  <2>3. QED BY <1>1, <2>1, <2>2 DEF MainAt, MainListens
<1>4. CASE AppendBatch
  <2>1. /\ main = "append" /\ UNCHANGED queue /\ batch' = Nothing
        /\ \/ verdict' # Undecided /\ main' = "close"
           \/ main' = "recv" /\ UNCHANGED verdict /\ ~(skipped' > Tolerance)
    BY <1>2, <1>4 DEF AppendBatch, channels
  <2>2. skipped' \in Nat
    BY MainTypes DEF TypeOK
  <2>3. QED BY <1>1, <2>1, <2>2 DEF MainAt, MainListens
<1>5. CASE AppendFails
  <2>1. /\ main = "append" /\ UNCHANGED <<queue, skipped>> /\ batch' = Nothing
        /\ verdict' # Undecided /\ main' = "close"
    BY <1>2, <1>5 DEF AppendFails, channels
  <2>2. QED BY <1>1, <2>1 DEF MainAt, MainListens
<1>6. CASE InputEnds
  BY <1>1, <1>6 DEF InputEnds, channels, MainAt, MainListens
<1>7. CASE Close
  BY <1>1, <1>7 DEF Close, MainAt, MainListens
<1>8. CASE JoinProducer
  BY <1>1, <1>2, <1>8 DEF JoinProducer, channels, MainAt, MainListens
<1>9. QED BY <1>3, <1>4, <1>5, <1>6, <1>7, <1>8 DEF Main

-----------------------------------------------------------------------------
(* What a step of a reader does to the rows under way.                      *)

LEMMA ChannelRows ==
  ASSUME PipelineInv, NEW s \in Sources
  PROVE  /\ out[s] = <<>> => OutRows(s) = {}
         /\ out[s] # <<>> =>
              /\ OutRows(s) = RowSet(Head(out[s]).rows) /\ Head(out[s]) \in Batches
              /\ Tail(out[s]) = <<>> /\ DOMAIN out[s] = {1}
              /\ Head(out[s]) = out[s][1]
<1>1. out[s] = <<>> => OutRows(s) = {}
  BY DEF OutRows
<1>2. ASSUME out[s] # <<>>
      PROVE  /\ OutRows(s) = RowSet(Head(out[s]).rows) /\ Head(out[s]) \in Batches
             /\ Tail(out[s]) = <<>> /\ DOMAIN out[s] = {1} /\ Head(out[s]) = out[s][1]
  <2>1. /\ DOMAIN out[s] = {1} /\ Head(out[s]) = out[s][1] /\ Tail(out[s]) = <<>>
    BY <1>2, TypeFacts, OneMessage DEF PipelineInv, ReaderBounds, ReaderBound
  <2>2. out[s][1] \in Batches
    BY <2>1 DEF PipelineInv, ReaderBounds, ReaderBound
  <2>3. QED BY <2>1, <2>2 DEF OutRows
<1>3. QED BY <1>1, <1>2

OnTheWay(s) == OutRows(s) \cup RowSet(rows[s])

\* A reader touches nothing that has passed it.
LEMMA ReaderKeepsPassed ==
  ASSUME PipelineInv, NEW s \in Sources, Reader(s)
  PROVE  /\ UNCHANGED <<loaded, batch, queue, parcel, first, cur, producer, verdict>>
         /\ UNCHANGED <<Passed, QueueRows, DataRows, Sources>>
         /\ \A r : KindOf(r)' = KindOf(r)
         /\ \A t \in Sources \ {s} : /\ UNCHANGED <<rows[t], out[t], OutRows(t)>>
                                     /\ UNCHANGED <<file[t], pos[t], wpc[t]>>
<1>1. UNCHANGED <<loaded, batch, queue, parcel, first, cur, producer, verdict>>
  BY ReaderLocal DEF collect, consume
<1>2. UNCHANGED <<Passed, QueueRows, DataRows, Sources>> /\ \A r : KindOf(r)' = KindOf(r)
  BY <1>1, ReaderLocal, InputFixed DEF Passed, QueueRows
<1>3. ASSUME NEW t \in Sources \ {s}
      PROVE  /\ UNCHANGED <<rows[t], out[t], OutRows(t)>>
             /\ UNCHANGED <<file[t], pos[t], wpc[t]>>
  BY ReaderLocal DEF OutRows
<1>4. QED BY <1>1, <1>2, <1>3

\* A step of a reader, by what becomes of the rows in its hands.
StepRead(s) ==
  /\ wpc[s] = "reading" /\ wpc'[s] \in {"reading", "sending"}
  /\ file'[s] = file[s] /\ pos'[s] = pos[s] + 1 /\ out'[s] = out[s]
  /\ pos[s] <= Len(input[s][file[s]])
  /\ \/ ~IsHeader(s, file[s], pos[s]) /\ KindOf(Here(s)) # "bad"
          /\ rows'[s] = Append(rows[s], Here(s))
     \/ IsHeader(s, file[s], pos[s]) /\ rows'[s] = rows[s]
StepDrop(s) ==
  /\ file'[s] = file[s] /\ pos'[s] = pos[s] /\ out'[s] = out[s] /\ rows'[s] = <<>>
  /\ wpc'[s] \in {"failing", "panicked"} \/ (wpc'[s] = "exited" /\ ~receivers)
StepTurn(s) ==
  /\ wpc[s] = "reading" /\ wpc'[s] \in {"sending", "reading", "exited"}
  /\ out'[s] = out[s] /\ rows'[s] = rows[s]
  /\ pos[s] > Len(input[s][file[s]])
  /\ wpc'[s] = "sending" => file'[s] = file[s] /\ pos'[s] = pos[s]
  /\ wpc'[s] = "reading" => file'[s] = file[s] + 1 /\ pos'[s] = 1
  /\ wpc'[s] = "exited" => /\ file'[s] = file[s] /\ pos'[s] = pos[s]
                           /\ ~(file[s] < Len(input[s])) /\ rows[s] = <<>>
StepSend(s) ==
  /\ file'[s] = file[s] /\ pos'[s] = pos[s] /\ rows'[s] = <<>> /\ out[s] = <<>>
  /\ \/ /\ wpc[s] = "sending" /\ wpc'[s] = "reading"
        /\ out'[s] = <<BatchOf(s)>>
     \/ /\ wpc[s] = "failing" /\ wpc'[s] = "exited"
        /\ out'[s] = <<ErrorOf(s)>>

\* The steps of a reader: it reads a record, drops its batch, turns to the
\* next file, or sends.
LEMMA ReaderSteps ==
  ASSUME PipelineInv, NEW s \in Sources, Reader(s)
  PROVE  StepRead(s) \/ StepDrop(s) \/ StepTurn(s) \/ StepSend(s)
<1> USE TypeFacts
<1>1. CASE ReadHeader(s)
  BY <1>1 DEF ReadHeader, More, channels, StepRead
<1>2. CASE ReadRow(s)
  BY <1>2 DEF ReadRow, More, channels, StepRead, KindOf, Here
<1>3. CASE ReadBad(s) \/ ReaderPanics(s) \/ SendFails(s)
  BY <1>3 DEF ReadBad, ReaderPanics, SendFails, channels, StepDrop
<1>4. CASE FlushFile(s) \/ NextFile(s)
  BY <1>4 DEF FlushFile, NextFile, FileEnds, channels, StepTurn
<1>5. CASE SendBatch(s) \/ SendError(s)
  <2>1. out[s] = <<>>
    BY <1>5, EmptySeq, LenProperties DEF SendBatch, SendError
  <2>2. rows[s] = <<>> \/ wpc[s] = "sending"
    BY <1>5 DEF SendBatch, SendError, PipelineInv, ReaderBounds, ReaderBound
  <2>3. \A m : Append(<<>>, m) = <<m>>
    OBVIOUS
  <2>4. CASE SendBatch(s)
    BY <2>1, <2>3, <2>4 DEF SendBatch, StepSend
  <2>5. CASE SendError(s)
    BY <2>1, <2>2, <2>3, <2>5 DEF SendError, StepSend
  <2>6. QED BY <1>5, <2>4, <2>5
<1>6. QED BY <1>1, <1>2, <1>3, <1>4, <1>5 DEF Reader

\* What each of them does to the rows on the way.
LEMMA ReadRows ==
  ASSUME PipelineInv, NEW s \in Sources, StepRead(s)
  PROVE  /\ Here(s) \in Row /\ Here(s)[1] = s
         /\ Here(s)[2] = file[s] /\ Here(s)[3] = pos[s]
         /\ OutRows(s)' = OutRows(s)
         /\ \/ /\ Here(s) \notin DataRows
               /\ rows'[s] = rows[s] /\ RowSet(rows[s])' = RowSet(rows[s])
            \/ /\ Here(s) \in DataRows /\ KindOf(Here(s)) # "bad"
               /\ RowSet(rows[s])' = RowSet(rows[s]) \cup {Here(s)}
               /\ Sorted(rows[s]) /\ AllBefore(RowSet(rows[s]), {Here(s)}) =>
                    Sorted(rows[s])'
<1>1. /\ s \in Nat /\ file[s] \in DOMAIN input[s] /\ pos[s] \in DOMAIN input[s][file[s]]
      /\ file[s] \in Nat /\ pos[s] \in Nat
  <2>1. file[s] \in DOMAIN input[s] /\ pos[s] \in 1 .. Len(input[s][file[s]]) + 1
    BY DEF PipelineInv, ReaderBounds, ReaderBound
  <2>2. /\ DOMAIN input[s][file[s]] = 1 .. Len(input[s][file[s]])
        /\ Len(input[s][file[s]]) \in Nat /\ s \in Nat
    BY <2>1, InputFacts
  <2>3. pos[s] <= Len(input[s][file[s]]) /\ pos[s] \in Nat /\ file[s] \in Nat
    BY TypeFacts DEF StepRead
  <2>4. pos[s] \in 1 .. Len(input[s][file[s]])
    BY <2>1, <2>2, <2>3
  <2>5. QED BY <2>1, <2>2, <2>3, <2>4
<1>2. /\ Here(s) \in Row /\ Here(s)[1] = s
      /\ Here(s)[2] = file[s] /\ Here(s)[3] = pos[s]
  BY <1>1 DEF Here, Row
<1>3. OutRows(s)' = OutRows(s)
  BY DEF StepRead, OutRows
<1>4. Here(s) \in DataRows <=> ~IsHeader(s, file[s], pos[s])
  BY <1>1, DataRow DEF Here
<1>5. rows[s] \in Seq(Row)
  BY TypeFacts
<1>6. CASE IsHeader(s, file[s], pos[s])
  BY <1>2, <1>3, <1>4, <1>6 DEF StepRead, RowSet
<1>7. CASE ~IsHeader(s, file[s], pos[s])
  <2>1. rows'[s] = Append(rows[s], Here(s)) /\ KindOf(Here(s)) # "bad"
    BY <1>7 DEF StepRead
  <2>2. /\ RowSet(rows'[s]) = RowSet(rows[s]) \cup {Here(s)}
        /\ Sorted(rows[s]) /\ AllBefore(RowSet(rows[s]), {Here(s)}) =>
             Sorted(rows'[s])
    BY <1>2, <1>5, <2>1, AppendRow
  <2>3. RowSet(rows[s])' = RowSet(rows'[s]) /\ Sorted(rows[s])' = Sorted(rows'[s])
    BY DEF RowSet, Sorted, Before
  <2>4. QED BY <1>2, <1>3, <1>4, <1>7, <2>1, <2>2, <2>3
<1>8. QED BY <1>6, <1>7

LEMMA SendRows ==
  ASSUME PipelineInv, NEW s \in Sources, StepSend(s)
  PROVE  /\ OutRows(s) = {} /\ OutRows(s)' = RowSet(rows[s])
         /\ RowSet(rows[s])' = {} /\ Sorted(rows[s])'
         /\ Sorted(rows[s]) => (\A i \in DOMAIN out[s] : Sorted(out[s][i].rows))'
<1>1. OutRows(s) = {}
  BY ChannelRows DEF StepSend
<1>2. PICK m \in {BatchOf(s), ErrorOf(s)} : out'[s] = <<m>> /\ m.rows = rows[s]
  BY DEF StepSend, BatchOf, ErrorOf, PipelineInv, ReaderBounds, ReaderBound
<1>3. DOMAIN out'[s] = {1} /\ out'[s][1].rows = rows[s]
  BY <1>2
<1>4. OutRows(s)' = RowSet(rows[s])
  BY <1>3 DEF OutRows, RowSet
<1>5. rows'[s] = <<>>
  BY DEF StepSend
<1>6. RowSet(rows[s])' = {} /\ Sorted(rows[s])'
  BY <1>5, EmptyRows DEF RowSet, Sorted
<1>7. ASSUME Sorted(rows[s])
      PROVE  (\A i \in DOMAIN out[s] : Sorted(out[s][i].rows))'
  BY <1>3, <1>7 DEF Sorted, Before
<1>8. QED BY <1>1, <1>4, <1>6, <1>7

LEMMA QuietRows ==
  ASSUME NEW s \in Sources, StepDrop(s) \/ StepTurn(s)
  PROVE  /\ OutRows(s)' = OutRows(s) /\ out'[s] = out[s]
         /\ RowSet(rows[s])' \subseteq RowSet(rows[s])
         /\ Sorted(rows[s]) => Sorted(rows[s])'
<1>1. out'[s] = out[s] /\ (rows'[s] = rows[s] \/ rows'[s] = <<>>)
  BY DEF StepDrop, StepTurn
<1>2. OutRows(s)' = OutRows(s)
  BY <1>1 DEF OutRows
<1>3. /\ RowSet(rows[s])' \subseteq RowSet(rows[s])
      /\ Sorted(rows[s]) => Sorted(rows[s])'
  BY <1>1, EmptyRows DEF RowSet, Sorted, Before
<1>4. QED BY <1>1, <1>2, <1>3

\* Readers only go forward.
LEMMA BehindGrows ==
  ASSUME PipelineInv, NEW s \in Sources, Reader(s), NEW r \in DataRows, Behind(r)
  PROVE  Behind(r)'
<1>1. r \in Row /\ r[1] \in Sources
  BY DataRowIsRow
<1>2. r[2] \in Nat /\ r[3] \in Nat
  BY <1>1 DEF Row
<1>3. CASE r[1] # s
  BY <1>1, <1>3, ReaderLocal DEF Behind
<1>4. CASE r[1] = s
  <2>1. file[s] \in Nat /\ pos[s] \in Nat
    BY TypeFacts
  <2>2. \/ file'[s] = file[s] /\ pos'[s] \in {pos[s], pos[s] + 1}
        \/ file'[s] = file[s] + 1
    BY ReaderSteps DEF StepRead, StepDrop, StepTurn, StepSend
  <2>3. QED BY <1>2, <1>4, <2>1, <2>2 DEF Behind
<1>5. QED BY <1>3, <1>4

LEMMA ReaderKeepsGenuine ==
  ASSUME PipelineInv, NEW s \in Sources, Reader(s)
  PROVE  Genuine'
<1> USE ReaderKeepsPassed
<1>1. Genuine
  BY DEF PipelineInv
<1>2. ASSUME NEW r \in OnTheWay(s)'
      PROVE  /\ r[1] = s /\ r \in DataRows /\ KindOf(r) # "bad"
             /\ Behind(r)'
  <2>1. CASE r \in OnTheWay(s)
    <3>1. r \in InFlight /\ r[1] = s
      BY <1>1, <2>1 DEF InFlight, Genuine, OnTheWay
    <3>2. QED BY <1>1, <3>1, BehindGrows DEF Genuine
  <2>2. CASE r \notin OnTheWay(s)
    <3>1. StepRead(s)
      BY <2>2, ReaderSteps, SendRows, QuietRows DEF OnTheWay
    <3>2. /\ r = Here(s) /\ r[1] = s /\ r[2] = file[s] /\ r[3] = pos[s]
          /\ r \in DataRows /\ KindOf(r) # "bad"
      <4>1. /\ Here(s) \in DataRows /\ KindOf(Here(s)) # "bad"
            /\ r \in OutRows(s) \cup RowSet(rows[s]) \cup {Here(s)}
        BY <1>2, <2>2, <3>1, ReadRows DEF OnTheWay
      <4>2. r = Here(s)
        BY <2>2, <4>1 DEF OnTheWay
      <4>3. QED BY <3>1, <4>1, <4>2, ReadRows
    <3>3. file'[s] = file[s] /\ pos'[s] = pos[s] + 1 /\ pos[s] \in Nat
      BY <3>1, TypeFacts DEF StepRead
    <3>4. QED BY <3>2, <3>3 DEF Behind
  <2>3. QED BY <2>1, <2>2
<1>3. ASSUME NEW t \in Sources, NEW r \in (OutRows(t) \cup RowSet(rows[t]))'
      PROVE  r[1] = t /\ r \in DataRows /\ KindOf(r) # "bad" /\ Behind(r)'
  <2>1. CASE t = s
    BY <1>2, <1>3, <2>1 DEF OnTheWay
  <2>2. CASE t # s
    <3>1. r \in OutRows(t) \cup RowSet(rows[t])
      BY <1>3, <2>2 DEF RowSet
    <3>2. r \in InFlight /\ r[1] = t
      BY <1>1, <3>1 DEF InFlight, Genuine
    <3>3. QED BY <1>1, <3>2, BehindGrows DEF Genuine
  <2>3. QED BY <2>1, <2>2
<1>4. \A r \in Passed' : r \in DataRows /\ KindOf(r) # "bad" /\ Behind(r)'
  BY <1>1, BehindGrows DEF Genuine
<1>5. (\A r \in Passed \cup InFlight :
         r \in DataRows /\ KindOf(r) # "bad" /\ Behind(r))'
  BY <1>3, <1>4 DEF InFlight
<1>6. (\A r \in Passed : wpc[r[1]] # "unborn")'
  <2>1. ASSUME NEW r \in Passed PROVE wpc'[r[1]] # "unborn"
    <3>1. r[1] \in Sources /\ wpc[r[1]] # "unborn"
      BY <1>1, DataRowIsRow DEF Genuine
    <3>2. QED BY <3>1, ReaderLocal
  <2>2. QED BY <2>1
<1>7. (\A r \in RowSet(loaded) : KindOf(r) # "reject")'
  BY <1>1 DEF Genuine, RowSet
<1>8. QED BY <1>1, <1>3, <1>5, <1>6, <1>7 DEF Genuine

\* Everything read from a source so far comes before the reader's position.
LEMMA BeforeHere ==
  ASSUME PipelineInv, NEW s \in Sources, NEW A, A \subseteq Passed \cup InFlight,
         \A r \in A : r[1] = s
  PROVE  AllBefore(A, {Here(s)})
<1> SUFFICES ASSUME NEW r \in A PROVE Before(r, Here(s))
  BY DEF AllBefore
<1>1. r \in DataRows /\ Behind(r) /\ r[1] = s
  BY DEF PipelineInv, Genuine
<1>2. r[2] < file[s] \/ (r[2] = file[s] /\ r[3] < pos[s])
  BY <1>1 DEF Behind
<1>3. Here(s)[1] = s /\ Here(s)[2] = file[s] /\ Here(s)[3] = pos[s]
  BY DEF Here
<1>4. QED BY <1>1, <1>2, <1>3 DEF Before

LEMMA ReaderKeepsInOrder ==
  ASSUME PipelineInv, NEW s \in Sources, Reader(s)
  PROVE  InOrder'
<1> DEFINE PassedOf(t) == {r \in Passed : r[1] = t}
           SourceOrder(t) ==
             /\ Sorted(rows[t])
             /\ \A i \in DOMAIN out[t] : Sorted(out[t][i].rows)
             /\ AllBefore(OutRows(t), RowSet(rows[t]))
             /\ AllBefore(PassedOf(t), OutRows(t) \cup RowSet(rows[t]))
<1>1. InOrder /\ \A t \in Sources : SourceOrder(t)
  BY DEF PipelineInv, InOrder
<1>2. /\ UNCHANGED <<loaded, batch, queue, parcel, Passed, QueueRows, Sources>>
      /\ \A t \in Sources \ {s} : UNCHANGED <<rows[t], out[t], OutRows(t)>>
  BY ReaderKeepsPassed
<1>3. ASSUME NEW t \in Sources, t # s PROVE SourceOrder(t)'
  <2>1. SourceOrder(t) /\ UNCHANGED <<rows[t], out[t], OutRows(t), Passed>>
    BY <1>1, <1>2, <1>3
  <2>2. QED BY <2>1 DEF Sorted, AllBefore, RowSet, Before
<1>4. SourceOrder(s)'
  <2>1. /\ Sorted(rows[s])
        /\ \A i \in DOMAIN out[s] : Sorted(out[s][i].rows)
        /\ AllBefore(OutRows(s), RowSet(rows[s]))
        /\ AllBefore(PassedOf(s), OutRows(s)) /\ AllBefore(PassedOf(s), RowSet(rows[s]))
    BY <1>1, AllBeforeSets
  <2>2. PassedOf(s)' = PassedOf(s)
    BY <1>2
  <2>3. CASE StepDrop(s) \/ StepTurn(s)
    <3>1. /\ OutRows(s)' = OutRows(s) /\ out'[s] = out[s]
          /\ RowSet(rows[s])' \subseteq RowSet(rows[s]) /\ Sorted(rows[s])'
      BY <2>1, <2>3, QuietRows
    <3>2. (\A i \in DOMAIN out[s] : Sorted(out[s][i].rows))'
      BY <2>1, <3>1 DEF Sorted, Before
    <3>3. QED BY <2>1, <2>2, <3>1, <3>2 DEF AllBefore, Before
  <2>4. CASE StepRead(s)
    <3>1. /\ PassedOf(s) \subseteq Passed \cup InFlight
          /\ OutRows(s) \subseteq Passed \cup InFlight
          /\ RowSet(rows[s]) \subseteq Passed \cup InFlight
          /\ \A r \in PassedOf(s) \cup OutRows(s) \cup RowSet(rows[s]) : r[1] = s
      BY DEF InFlight, PipelineInv, Genuine
    <3>2. /\ AllBefore(PassedOf(s), {Here(s)}) /\ AllBefore(OutRows(s), {Here(s)})
          /\ AllBefore(RowSet(rows[s]), {Here(s)})
      BY <3>1, BeforeHere
    <3>3. /\ OutRows(s)' = OutRows(s) /\ out'[s] = out[s]
          /\ RowSet(rows[s])' \subseteq RowSet(rows[s]) \cup {Here(s)}
      BY <2>4, ReadRows DEF StepRead
    <3>4. Sorted(rows[s])'
      BY <2>1, <2>4, <3>2, ReadRows, SMTT(30) DEF Sorted, Before
    <3>5. (\A i \in DOMAIN out[s] : Sorted(out[s][i].rows))'
      BY <2>1, <3>3 DEF Sorted, Before
    <3>6. QED BY <2>1, <2>2, <3>2, <3>3, <3>4, <3>5 DEF AllBefore, Before
  <2>5. CASE StepSend(s)
    BY <2>1, <2>2, <2>5, SendRows DEF AllBefore, Before
  <2>6. QED BY <2>3, <2>4, <2>5, ReaderSteps
<1>5. \A t \in Sources' : SourceOrder(t)'
  BY <1>2, <1>3, <1>4
<1> HIDE DEF SourceOrder
<1>6. /\ UNCHANGED <<RowSet(loaded), RowSet(batch.rows), RowSet(parcel.rows)>>
      /\ Sorted(loaded)' = Sorted(loaded)
      /\ Sorted(batch.rows)' = Sorted(batch.rows)
      /\ Sorted(parcel.rows)' = Sorted(parcel.rows)
  BY <1>2 DEF RowSet, Sorted, Before
<1>7. QED
  <2> USE DEF SourceOrder
  <2>1. \A t \in Sources' :
          /\ Sorted(rows[t])'
          /\ (\A i \in DOMAIN out[t] : Sorted(out[t][i].rows))'
          /\ AllBefore(OutRows(t), RowSet(rows[t]))'
          /\ AllBefore(PassedOf(t), OutRows(t) \cup RowSet(rows[t]))'
    BY <1>5
  <2> HIDE DEF SourceOrder
  <2>2. /\ (Sorted(loaded) /\ Sorted(batch.rows) /\ Sorted(parcel.rows))'
        /\ (\A i \in DOMAIN queue : Sorted(queue[i].rows))'
        /\ AllBefore(RowSet(loaded), RowSet(batch.rows))'
        /\ AllBefore(RowSet(loaded) \cup RowSet(batch.rows), QueueRows)'
        /\ (\A i, j \in DOMAIN queue :
              i < j => AllBefore(RowSet(queue[i].rows), RowSet(queue[j].rows)))'
        /\ AllBefore(RowSet(loaded) \cup RowSet(batch.rows) \cup QueueRows,
                     RowSet(parcel.rows))'
    BY <1>1, <1>2, <1>6 DEF InOrder, Sorted, Before, AllBefore, RowSet
  <2>3. QED BY <2>1, <2>2 DEF InOrder

LEMMA ReaderKeepsNoRowLost ==
  ASSUME PipelineInv, NEW s \in Sources, Reader(s)
  PROVE  NoRowLost'
<1> USE ReaderKeepsPassed
<1>1. NoRowLost /\ Undisturbed' = Undisturbed
  BY DEF PipelineInv, Undisturbed, Undecided
<1> SUFFICES ASSUME Undisturbed
             PROVE  /\ (\A t \in Sources : wpc[t] \in {"reading", "sending"} =>
                          \A r \in DataRows : r[1] = t /\ Behind(r) =>
                            r \in Passed \cup OutRows(t) \cup RowSet(rows[t]))'
                    /\ (\A t \in Sources : wpc[t] = "exited" =>
                          ErrorAhead(t)
                            \/ \A r \in DataRows : r[1] = t =>
                                 r \in Passed \cup OutRows(t))'
  BY <1>1 DEF NoRowLost
<1>2. wpc[s] \in {"reading", "sending", "failing"}
  BY ReaderLocal
<1>3. /\ wpc[s] # "failing" => \A r \in DataRows : r[1] = s /\ Behind(r) =>
                                 r \in Passed \cup OutRows(s) \cup RowSet(rows[s])
      /\ producer # "stopping"
  BY <1>1, <1>2 DEF NoRowLost
<1>4. ASSUME NEW t \in Sources, t # s
      PROVE  /\ wpc'[t] \in {"reading", "sending"} =>
                  \A r \in DataRows : r[1] = t /\ Behind(r)' =>
                     r \in (Passed \cup OutRows(t) \cup RowSet(rows[t]))'
             /\ wpc'[t] = "exited" =>
                  ErrorAhead(t)' \/ \A r \in DataRows : r[1] = t =>
                                      r \in (Passed \cup OutRows(t))'
  <2>1. /\ UNCHANGED <<rows[t], out[t], OutRows(t), file[t], pos[t], wpc[t], parcel>>
        /\ UNCHANGED <<Passed>>
    BY <1>4
  <2>2. \A r \in DataRows : r[1] = t => Behind(r)' = Behind(r)
    BY <2>1 DEF Behind
  <2>3. RowSet(rows[t])' = RowSet(rows[t]) /\ ErrorAhead(t)' = ErrorAhead(t)
    BY <2>1 DEF RowSet, ErrorAhead
  <2>4. QED BY <1>1, <2>1, <2>2, <2>3 DEF NoRowLost
<1>5. ASSUME NEW r \in DataRows, r[1] = s
      PROVE  /\ r = <<s, r[2], r[3]>> /\ r[2] \in Nat /\ r[3] \in Nat
             /\ r[2] \in DOMAIN input[s] /\ r[2] <= Len(input[s])
             /\ r[3] <= Len(input[s][r[2]])
  <2>1. PICK f \in DOMAIN input[s] : \E i \in DOMAIN input[s][f] : r = <<s, f, i>>
    BY <1>5, DataRow
  <2>2. PICK i \in DOMAIN input[s][f] : r = <<s, f, i>>
    BY <2>1
  <2>3. f \in Nat /\ f <= Len(input[s]) /\ i \in Nat /\ i <= Len(input[s][f])
    BY InputFacts
  <2>4. QED BY <2>2, <2>3
<1>6. /\ file[s] \in Nat /\ pos[s] \in Nat /\ s \in Nat /\ Len(input[s]) \in Nat
      /\ file[s] <= Len(input[s]) /\ Len(input[s][file[s]]) \in Nat
  <2>1. file[s] \in DOMAIN input[s]
    BY DEF PipelineInv, ReaderBounds, ReaderBound
  <2>2. QED BY <2>1, TypeFacts, InputFacts, SMTT(30)
<1>7. ASSUME wpc'[s] \in {"reading", "sending"}, NEW r \in DataRows, r[1] = s, Behind(r)'
      PROVE  r \in (Passed \cup OutRows(s) \cup RowSet(rows[s]))'
  <2>1. CASE Behind(r) /\ wpc[s] # "failing"
    <3>1. r \in Passed \cup OutRows(s) \cup RowSet(rows[s])
      BY <1>3, <1>7, <2>1
    <3>2. ~StepDrop(s)
      BY <1>7 DEF StepDrop
    <3>3. OutRows(s) \cup RowSet(rows[s]) \subseteq (OutRows(s) \cup RowSet(rows[s]))'
      <4>1. CASE StepRead(s)
        BY <4>1, ReadRows
      <4>2. CASE StepTurn(s)
        <5>1. rows'[s] = rows[s] /\ OutRows(s)' = OutRows(s)
          BY <4>2, QuietRows DEF StepTurn
        <5>2. QED BY <5>1 DEF RowSet
      <4>3. CASE StepSend(s)
        BY <4>3, SendRows
      <4>4. QED BY <3>2, <4>1, <4>2, <4>3, ReaderSteps
    <3>4. QED BY <3>1, <3>3
  <2>2. CASE wpc[s] = "failing"
    BY <1>7, <2>2, ReaderSteps DEF StepRead, StepDrop, StepTurn, StepSend
  <2>3. CASE ~Behind(r) /\ wpc[s] # "failing"
    <3>1. /\ ~(r[2] < file[s] \/ (r[2] = file[s] /\ r[3] < pos[s]))
          /\ r[2] < file'[s] \/ (r[2] = file'[s] /\ r[3] < pos'[s])
      BY <1>7, <2>3 DEF Behind
    <3>2. CASE StepRead(s)
      <4>1. r = Here(s)
        <5>1. file'[s] = file[s] /\ pos'[s] = pos[s] + 1
          BY <3>2 DEF StepRead
        <5>2. r[2] = file[s] /\ r[3] = pos[s]
          BY <1>5, <1>6, <1>7, <3>1, <5>1
        <5>3. QED BY <1>5, <1>7, <5>2 DEF Here
      <4>2. QED BY <3>2, <4>1, ReadRows
    <3>3. CASE StepTurn(s)
      <4>1. file'[s] = file[s] + 1 /\ pos'[s] = 1 /\ pos[s] > Len(input[s][file[s]])
        BY <1>6, <1>7, <3>1, <3>3 DEF StepTurn
      <4>2. r[2] = file[s] \/ (r[2] = file[s] + 1 /\ r[3] < 1)
        BY <1>5, <1>6, <1>7, <3>1, <4>1
      <4>3. r[3] >= 1
        BY <1>5, <1>7, DataRow, InputFacts
      <4>4. r[2] = file[s] /\ r[3] <= Len(input[s][file[s]]) /\ r[3] >= pos[s]
        BY <1>5, <1>6, <1>7, <3>1, <4>2, <4>3
      <4>5. QED BY <1>5, <1>6, <1>7, <4>1, <4>4
    <3>4. CASE StepDrop(s) \/ StepSend(s)
      <4>1. file'[s] = file[s] /\ pos'[s] = pos[s]
        BY <3>4 DEF StepDrop, StepSend
      <4>2. QED BY <3>1, <4>1
    <3>5. QED BY <3>2, <3>3, <3>4, ReaderSteps
  <2>4. QED BY <2>1, <2>2, <2>3
<1>8. ASSUME wpc'[s] = "exited"
      PROVE  ErrorAhead(s)' \/ \A r \in DataRows : r[1] = s =>
                                 r \in (Passed \cup OutRows(s))'
  <2>1. CASE StepRead(s)
    BY <1>8, <2>1 DEF StepRead
  <2>2. CASE StepDrop(s)
    <3>1. ~receivers
      BY <1>8, <2>2 DEF StepDrop
    <3>2. ProducerAt /\ Sources \subseteq Nat
      BY InputFacts DEF PipelineInv
    <3>3. wpc[s] # "unborn" /\ ~Ended(s)
      BY <1>2 DEF Ended
    <3>4. /\ producer \notin {"recv", "send", "done", "panicked"}
          /\ ~(s >= Begun) /\ ~(s < first) /\ (producer # "spawn" => ~(s < cur))
      BY <3>1, <3>2, <3>3 DEF ProducerAt, Ended
    <3>5. producer \in {"spawn", "joined"}
      BY <1>3, <3>4 DEF PipelineInv, TypeOK
    <3>6. producer = "joined"
      BY <3>2, <3>4, <3>5, TypeFacts DEF Begun
    <3>7. s \in Chunk /\ first <= cur /\ cur \notin Chunk
      BY <3>2, <3>4, <3>6, TypeFacts, InChunk, SMTT(30) DEF Begun, ProducerAt
    <3>8. cur \in Sources
      BY <3>2, <3>4, <3>6, TypeFacts, InputFacts, SMTT(30)
    <3>9. cur \in Chunk
      <4>1. cur <= s /\ s < first + ParserWorkers
        BY <3>2, <3>4, <3>6, <3>7, TypeFacts, InChunk
      <4>2. QED BY <3>2, <3>7, <3>8, <4>1, TypeFacts, InChunk, SMTT(30)
    <3>10. QED BY <3>7, <3>9
  <2>3. CASE StepTurn(s)
    <3>1. /\ ~(file[s] < Len(input[s])) /\ rows[s] = <<>> /\ wpc[s] = "reading"
          /\ pos[s] > Len(input[s][file[s]]) /\ OutRows(s)' = OutRows(s)
      BY <1>8, <2>3, QuietRows DEF StepTurn
    <3>2. ASSUME NEW r \in DataRows, r[1] = s PROVE r \in Passed \cup OutRows(s)
      <4>1. r[2] < file[s] \/ (r[2] = file[s] /\ r[3] < pos[s])
        BY <1>5, <1>6, <3>1, <3>2
      <4>2. Behind(r)
        BY <3>2, <4>1 DEF Behind
      <4>3. RowSet(rows[s]) = {}
        BY <3>1, EmptyRows
      <4>4. QED BY <1>3, <3>1, <3>2, <4>2, <4>3
    <3>3. QED BY <3>1, <3>2
  <2>4. CASE StepSend(s)
    <3>1. out'[s] = <<ErrorOf(s)>>
      BY <1>8, <2>4 DEF StepSend
    <3>2. 1 \in DOMAIN out'[s] /\ out'[s][1].kind = "error"
      BY <3>1 DEF ErrorOf
    <3>3. QED BY <3>2 DEF ErrorAhead
  <2>5. QED BY <2>1, <2>2, <2>3, <2>4, ReaderSteps
<1>9. QED BY <1>4, <1>7, <1>8

-----------------------------------------------------------------------------
(* What the producer and the main thread do to the rows under way.          *)

\* Handing a message to the main thread.
LEMMA ForwardRows ==
  ASSUME PipelineInv, Forward
  PROVE  /\ QueueRows' = QueueRows \cup RowSet(parcel.rows)
         /\ RowSet(parcel.rows)' = {} /\ Sorted(parcel.rows)' /\ Passed' = Passed
         /\ DOMAIN queue = 1 .. Len(queue) /\ Len(queue) \in Nat
         /\ DOMAIN queue' = 1 .. Len(queue) + 1
         /\ queue'[Len(queue) + 1] = parcel
         /\ \A i \in DOMAIN queue : queue'[i] = queue[i]
<1>1. /\ queue' = Append(queue, parcel) /\ Len(queue) < 2 /\ parcel' = Nothing
      /\ UNCHANGED <<loaded, batch>>
  BY DEF Forward, consume
<1>2. /\ DOMAIN queue = 1 .. Len(queue) /\ DOMAIN queue' = 1 .. Len(queue) + 1
      /\ queue'[Len(queue) + 1] = parcel
      /\ \A i \in DOMAIN queue : queue'[i] = queue[i]
      /\ Len(queue) \in Nat
  BY <1>1, TypeFacts, QueueAppend
<1>3. QueueRows' = QueueRows \cup RowSet(parcel.rows)
  <2>1. ASSUME NEW r \in QueueRows' PROVE r \in QueueRows \cup RowSet(parcel.rows)
    <3>1. PICK i \in DOMAIN queue' : r \in RowSet(queue'[i].rows)
      BY DEF QueueRows, RowSet
    <3>2. i \in DOMAIN queue \/ i = Len(queue) + 1
      BY <1>2
    <3>3. QED BY <1>2, <3>1, <3>2 DEF QueueRows
  <2>2. ASSUME NEW r \in QueueRows PROVE r \in QueueRows'
    <3>1. PICK i \in DOMAIN queue : r \in RowSet(queue[i].rows)
      BY DEF QueueRows
    <3>2. i \in DOMAIN queue' /\ r \in RowSet(queue'[i].rows)
      BY <1>2, <3>1
    <3>3. QED BY <3>2 DEF QueueRows, RowSet
  <2>3. ASSUME NEW r \in RowSet(parcel.rows) PROVE r \in QueueRows'
    <3>1. Len(queue) + 1 \in DOMAIN queue' /\ r \in RowSet(queue'[Len(queue) + 1].rows)
      BY <1>2, <2>3
    <3>2. QED BY <3>1 DEF QueueRows, RowSet
  <2>4. QED BY <2>1, <2>2, <2>3
<1>4. RowSet(parcel.rows)' = {} /\ Sorted(parcel.rows)'
  BY <1>1, MessageFacts, EmptyRows DEF RowSet, Sorted
<1>5. Passed' = Passed
  BY <1>1, <1>3, <1>4 DEF Passed, RowSet
<1>6. QED BY <1>2, <1>3, <1>4, <1>5

\* Taking a message from a source.
LEMMA ReceiveRows ==
  ASSUME PipelineInv, Receive
  PROVE  /\ cur \in Sources /\ cur \in Chunk /\ out[cur] # <<>> /\ cur \in Nat
         /\ producer = "recv" /\ producer' = "send" /\ parcel = Nothing
         /\ parcel' = out[cur][1] /\ DOMAIN out[cur] = {1}
         /\ out'[cur] = <<>> /\ OutRows(cur)' = {}
         /\ \A t \in Sources : t # cur => UNCHANGED <<out[t], OutRows(t)>>
         /\ RowSet(parcel.rows) = {} /\ RowSet(parcel.rows)' = OutRows(cur)
         /\ UNCHANGED <<QueueRows, queue, cur, first, wpc>>
         /\ Passed' = Passed \cup OutRows(cur)
<1>1. /\ cur \in Sources /\ out[cur] # <<>> /\ parcel' = Head(out[cur]) /\ cur \in Chunk
      /\ out' = [out EXCEPT ![cur] = Tail(@)] /\ producer = "recv" /\ producer' = "send"
      /\ UNCHANGED <<readers, queue, first, cur, consume, wpc>>
  BY DEF Receive, Chunk, readers
<1>2. parcel = Nothing /\ RowSet(parcel.rows) = {}
  BY <1>1, MessageFacts, EmptyRows DEF PipelineInv, ProducerAt
<1>3. /\ OutRows(cur) = RowSet(Head(out[cur]).rows) /\ Tail(out[cur]) = <<>>
      /\ DOMAIN out[cur] = {1} /\ Head(out[cur]) = out[cur][1]
  BY <1>1, ChannelRows
<1>4. out'[cur] = <<>> /\ \A t \in Sources : t # cur => out'[t] = out[t]
  BY <1>1, <1>3, TypeFacts
<1>5. OutRows(cur)' = {} /\ \A t \in Sources : t # cur => OutRows(t)' = OutRows(t)
  <2>1. OutRows(cur)' = {}
    BY <1>1, <1>4 DEF OutRows
  <2>2. ASSUME NEW t \in Sources, t # cur PROVE OutRows(t)' = OutRows(t)
    BY <1>4, <2>2 DEF OutRows
  <2>3. QED BY <2>1, <2>2
<1>6. RowSet(parcel.rows)' = OutRows(cur)
  BY <1>1, <1>3 DEF RowSet
<1>7. QueueRows' = QueueRows
  BY <1>1 DEF QueueRows
<1>8. Passed' = Passed \cup OutRows(cur)
  BY <1>1, <1>2, <1>6, <1>7 DEF Passed, consume
<1>9. QED BY <1>1, <1>2, <1>3, <1>4, <1>5, <1>6, <1>7, <1>8, TypeFacts

\* The other steps of the producer move no row; dropping the receivers may
\* discard what is queued.
LEMMA ProducerRows ==
  ASSUME PipelineInv, Producer, ~Receive, ~Forward
  PROVE  /\ UNCHANGED <<queue, QueueRows>> /\ parcel' \in {parcel, Nothing}
         /\ ~ForwardFails => parcel' = parcel
         /\ RowSet(parcel.rows)' \subseteq RowSet(parcel.rows)
         /\ Passed' \subseteq Passed /\ (parcel' = parcel => Passed' = Passed)
         /\ ~ForwardFails => \A t \in Sources : out'[t] = out[t]
         /\ \A t \in Sources : out'[t] = out[t] \/ out'[t] = <<>>
<1>1. /\ UNCHANGED <<loaded, batch, queue>> /\ parcel' \in {parcel, Nothing}
      /\ ~ForwardFails => parcel' = parcel
  BY Zenon DEF Producer, SpawnChunk, NoMoreChunks, Disconnected, ChunkDrained,
         ForwardFails, JoinChunk, channels, consume
<1>2. RowSet(parcel.rows)' \subseteq RowSet(parcel.rows)
  BY <1>1, MessageFacts, EmptyRows DEF RowSet
<1>3. UNCHANGED QueueRows
  BY <1>1 DEF QueueRows
<1>4. Passed' \subseteq Passed /\ (parcel' = parcel => Passed' = Passed)
  BY <1>1, <1>2, <1>3 DEF Passed, RowSet
<1>5. ASSUME NEW t \in Sources, ~ForwardFails PROVE out'[t] = out[t]
  <2>1. CASE ChunkDrained
    <3>1. /\ out'[t] = <<>> /\ producer = "recv" /\ cur \notin Chunk
      BY <2>1 DEF ChunkDrained, DropReceivers
    <3>2. ProducerAt /\ t \in Nat /\ cur \in Nat \ {0} /\ Begun = first + ParserWorkers
      BY <3>1, InputFacts, TypeFacts DEF PipelineInv, Begun
    <3>3. CASE wpc[t] = "unborn"
      BY <3>1, <3>3 DEF PipelineInv, ReaderBounds, ReaderBound
    <3>4. CASE wpc[t] # "unborn"
      <4>1. t < first + ParserWorkers /\ first <= cur
        BY <3>1, <3>2, <3>4, TypeFacts DEF ProducerAt
      <4>2. t < cur
        <5>1. SUFFICES ASSUME ~(t < cur) PROVE cur \in Chunk
          BY <3>1
        <5>2. cur \in Sources
          BY <3>2, <5>1, InputFacts, TypeFacts, SMTT(30)
        <5>3. QED BY <3>2, <4>1, <5>1, <5>2, TypeFacts, InChunk
      <4>3. QED BY <3>1, <3>2, <4>2 DEF ProducerAt
    <3>5. QED BY <3>3, <3>4
  <2>2. CASE ~ChunkDrained
    BY <1>5, <2>2 DEF Producer, SpawnChunk, NoMoreChunks, Disconnected, JoinChunk, channels
  <2>3. QED BY <2>1, <2>2
<1>6. \A t \in Sources : out'[t] = out[t] \/ out'[t] = <<>>
  BY <1>5 DEF ForwardFails, DropReceivers
<1>7. QED BY <1>1, <1>2, <1>3, <1>4, <1>5, <1>6

-----------------------------------------------------------------------------
(* The producer and the main thread keep the rows in order.                 *)

LEMMA ProducerKeepsGenuine ==
  ASSUME PipelineInv, Producer
  PROVE  Genuine'
<1>1. /\ Genuine /\ ProducerAt /\ Sources \subseteq Nat
      /\ UNCHANGED <<file, pos, rows, loaded, DataRows, Sources>>
      /\ \A r : KindOf(r)' = KindOf(r) /\ Behind(r)' = Behind(r)
  BY ProducerLocal, InputFixed, InputFacts DEF PipelineInv, Behind
<1>2. \A t \in Sources : (OutRows(t) \cup RowSet(rows[t]))'
                            \subseteq OutRows(t) \cup RowSet(rows[t])
  <2>1. ASSUME NEW t \in Sources PROVE OutRows(t)' = OutRows(t) \/ OutRows(t)' = {}
    <3>1. out'[t] = out[t] \/ out'[t] = <<>>
      BY ReceiveRows, ProducerRows DEF Forward, DropReceivers
    <3>2. QED BY <3>1 DEF OutRows
  <2>2. ASSUME NEW t \in Sources PROVE RowSet(rows[t])' = RowSet(rows[t])
    BY <1>1 DEF RowSet
  <2>3. QED BY <2>1, <2>2
<1>3. Passed' \subseteq Passed \cup (IF Receive THEN OutRows(cur) ELSE {})
  BY ReceiveRows, ForwardRows, ProducerRows
<1>4. Receive => /\ OutRows(cur) \subseteq InFlight /\ cur' = cur
                 /\ \A r \in OutRows(cur) : r[1] = cur
                 /\ wpc[cur] # "unborn"
  <2>1. SUFFICES ASSUME Receive
                 PROVE  /\ OutRows(cur) \subseteq InFlight /\ cur' = cur
                        /\ \A r \in OutRows(cur) : r[1] = cur
                        /\ wpc[cur] # "unborn"
    OBVIOUS
  <2>2. cur \in Sources /\ out[cur] # <<>> /\ cur' = cur
    BY <2>1, ReceiveRows
  <2>3. QED BY <1>1, <2>2 DEF InFlight, Genuine, PipelineInv, ReaderBounds, ReaderBound
<1>5. (\A r \in Passed \cup InFlight :
         r \in DataRows /\ KindOf(r) # "bad" /\ Behind(r))'
  <2>1. InFlight' \subseteq InFlight
    BY <1>1, <1>2 DEF InFlight
  <2>2. (Passed \cup InFlight)' \subseteq Passed \cup InFlight
    BY <1>3, <1>4, <2>1
  <2>3. QED BY <1>1, <2>2 DEF Genuine
<1>6. (\A r \in RowSet(loaded) : KindOf(r) # "reject")'
  BY <1>1 DEF Genuine, RowSet
<1>7. (\A t \in Sources : \A r \in OutRows(t) \cup RowSet(rows[t]) : r[1] = t)'
  BY <1>1, <1>2 DEF Genuine
<1>8. \A r \in Passed' : r[1] \in Sources /\ wpc[r[1]] # "unborn"
  <2>1. \A r \in Passed : r[1] \in Sources /\ wpc[r[1]] # "unborn"
    BY <1>1, DataRowIsRow DEF Genuine
  <2>2. Receive => \A r \in OutRows(cur) : r[1] \in Sources /\ wpc[r[1]] # "unborn"
    BY <1>4, ReceiveRows
  <2>3. QED BY <1>3, <2>1, <2>2
<1>9. (\A r \in Passed : wpc[r[1]] # "unborn")'
  <2>1. \A t \in Sources : wpc[t] # "unborn" => wpc'[t] # "unborn"
    BY ProducerLocal DEF SpawnChunk
  <2>2. QED BY <1>8, <2>1
<1>10. (producer \notin {"spawn", "done"} => \A r \in Passed : r[1] <= cur)'
  <2>1. CASE SpawnChunk
    <3>1. producer = "spawn" /\ cur' = first /\ Passed' \subseteq Passed
      BY <2>1, <1>3 DEF SpawnChunk, Receive
    <3>2. \A r \in Passed : r[1] \in Nat /\ ~(r[1] >= first)
      <4>1. Begun = first
        BY <3>1 DEF Begun
      <4>2. \A r \in Passed : r[1] \in Sources /\ wpc[r[1]] # "unborn"
        BY <1>1, DataRowIsRow DEF Genuine
      <4>3. QED BY <1>1, <4>1, <4>2 DEF ProducerAt
    <3>3. QED BY <3>1, <3>2, TypeFacts
  <2>2. CASE ~SpawnChunk /\ producer' \notin {"spawn", "done"}
    <3>1. /\ producer \notin {"spawn", "done"} /\ cur' \in {cur, cur + 1}
      BY <2>2
         DEF Producer, NoMoreChunks, Receive, Disconnected, ChunkDrained, Forward,
             ForwardFails, JoinChunk
    <3>2. \A r \in Passed : r[1] <= cur /\ r[1] \in Nat
      BY <1>1, <3>1, DataRowIsRow DEF Genuine
    <3>3. \A r \in Passed' : r[1] <= cur /\ r[1] \in Nat
      BY <1>1, <1>3, <1>4, <3>2, TypeFacts
    <3>4. QED BY <3>1, <3>3, TypeFacts
  <2>3. QED BY <2>1, <2>2
<1>11. QED BY <1>5, <1>6, <1>7, <1>9, <1>10 DEF Genuine

LEMMA ProducerKeepsInOrder ==
  ASSUME PipelineInv, Producer
  PROVE  InOrder'
<1> DEFINE L == RowSet(loaded)
           B == RowSet(batch.rows)
           P == RowSet(parcel.rows)
<1>1. /\ InOrder /\ Genuine
      /\ UNCHANGED <<rows, loaded, batch, Sources, L, B, Sorted(loaded), Sorted(batch.rows)>>
      /\ \A A, C : AllBefore(A, C)' = AllBefore(A, C)
  BY ProducerLocal, InputFixed DEF PipelineInv, RowSet, Sorted, AllBefore, Before
<1>2. \A t \in Sources : /\ Sorted(rows[t])' /\ RowSet(rows[t])' = RowSet(rows[t])
                         /\ AllBefore(OutRows(t), RowSet(rows[t]))
                         /\ AllBefore({r \in Passed : r[1] = t}, OutRows(t))
                         /\ AllBefore({r \in Passed : r[1] = t}, RowSet(rows[t]))
  <2>1. ASSUME NEW t \in Sources
        PROVE  /\ Sorted(rows[t]) /\ AllBefore(OutRows(t), RowSet(rows[t]))
               /\ AllBefore({r \in Passed : r[1] = t}, OutRows(t) \cup RowSet(rows[t]))
    BY <1>1 DEF InOrder
  <2>2. ASSUME NEW t \in Sources
        PROVE  Sorted(rows[t])' = Sorted(rows[t]) /\ RowSet(rows[t])' = RowSet(rows[t])
    BY <1>1 DEF RowSet, Sorted, Before
  <2>3. QED BY <2>1, <2>2, AllBeforeSets
<1>3. \A t \in Sources : out'[t] = out[t] \/ out'[t] = <<>>
  BY ReceiveRows, ProducerRows DEF Forward, DropReceivers
<1>4. \A t \in Sources :
        /\ (\A i \in DOMAIN out[t] : Sorted(out[t][i].rows))'
        /\ OutRows(t)' = OutRows(t) \/ OutRows(t)' = {}
  <2>1. SUFFICES ASSUME NEW t \in Sources
                 PROVE  /\ (\A i \in DOMAIN out[t] : Sorted(out[t][i].rows))'
                        /\ OutRows(t)' = OutRows(t) \/ OutRows(t)' = {}
    OBVIOUS
  <2>2. CASE out'[t] = out[t]
    <3>1. \A i \in DOMAIN out[t] : Sorted(out[t][i].rows)
      BY <1>1 DEF InOrder
    <3>2. QED BY <2>2, <3>1 DEF OutRows, Sorted, Before
  <2>3. CASE out'[t] = <<>>
    BY <2>3 DEF OutRows
  <2>4. QED BY <1>3, <2>2, <2>3
<1>5. \A t \in Sources :
        /\ AllBefore(OutRows(t), RowSet(rows[t]))'
        /\ AllBefore({r \in Passed : r[1] = t}, OutRows(t) \cup RowSet(rows[t]))'
  <2>1. SUFFICES ASSUME NEW t \in Sources
                 PROVE  /\ AllBefore(OutRows(t)', RowSet(rows[t]))
                        /\ AllBefore({r \in Passed' : r[1] = t}, OutRows(t)')
                        /\ AllBefore({r \in Passed' : r[1] = t}, RowSet(rows[t]))
    <3>1. ASSUME NEW t \in Sources, AllBefore(OutRows(t)', RowSet(rows[t])),
                 AllBefore({r \in Passed' : r[1] = t}, OutRows(t)'),
                 AllBefore({r \in Passed' : r[1] = t}, RowSet(rows[t]))
          PROVE  /\ AllBefore(OutRows(t), RowSet(rows[t]))'
                 /\ AllBefore({r \in Passed : r[1] = t}, OutRows(t) \cup RowSet(rows[t]))'
      BY <1>2, <3>1 DEF AllBefore, Before
    <3>2. QED BY <3>1
  <2>2. AllBefore(OutRows(t)', RowSet(rows[t]))
    BY <1>2, <1>4 DEF AllBefore
  <2>3. CASE Passed' \subseteq Passed
    BY <1>2, <1>4, <2>3 DEF AllBefore
  <2>4. CASE Receive
    <3>1. CASE t = cur
      BY <1>2, <2>2, <2>4, <3>1, ReceiveRows DEF AllBefore
    <3>2. CASE t # cur
      <4>1. \A r \in OutRows(cur) : r[1] = cur
        BY <1>1, <2>4, ReceiveRows DEF Genuine
      <4>2. {r \in Passed' : r[1] = t} = {r \in Passed : r[1] = t}
        BY <2>4, <3>2, <4>1, ReceiveRows
      <4>3. QED BY <1>2, <2>2, <2>4, <3>2, <4>2, ReceiveRows
    <3>3. QED BY <3>1, <3>2
  <2>5. QED BY <2>2, <2>3, <2>4, ForwardRows, ProducerRows
<1>6. /\ AllBefore(L, B)
      /\ AllBefore(L, QueueRows) /\ AllBefore(B, QueueRows)
      /\ AllBefore(L, P) /\ AllBefore(B, P) /\ AllBefore(QueueRows, P)
  BY <1>1, AllBeforeSets DEF InOrder
<1>7. /\ Sorted(parcel.rows)'
      /\ (\A i \in DOMAIN queue : Sorted(queue[i].rows))'
      /\ (\A i, j \in DOMAIN queue :
            i < j => AllBefore(RowSet(queue[i].rows), RowSet(queue[j].rows)))'
      /\ AllBefore(L, QueueRows') /\ AllBefore(B, QueueRows')
      /\ AllBefore(L, P') /\ AllBefore(B, P') /\ AllBefore(QueueRows', P')
  <2>1. CASE Forward
    <3>1. /\ Sorted(parcel.rows)' /\ P' = {} /\ QueueRows' = QueueRows \cup P
          /\ DOMAIN queue = 1 .. Len(queue) /\ Len(queue) \in Nat
          /\ DOMAIN queue' = 1 .. Len(queue) + 1
          /\ queue'[Len(queue) + 1] = parcel
          /\ \A i \in DOMAIN queue : queue'[i] = queue[i]
      BY <2>1, ForwardRows
    <3>2. ASSUME NEW i \in DOMAIN queue' PROVE Sorted(queue'[i].rows)
      <4>1. i \in DOMAIN queue \/ i = Len(queue) + 1
        BY <3>1
      <4>2. QED BY <1>1, <3>1, <4>1 DEF InOrder
    <3>3. ASSUME NEW i \in DOMAIN queue', NEW j \in DOMAIN queue', i < j
          PROVE  AllBefore(RowSet(queue'[i].rows), RowSet(queue'[j].rows))
      <4>1. i \in DOMAIN queue
        BY <3>1, <3>3
      <4>2. RowSet(queue[i].rows) \subseteq QueueRows
        BY <4>1 DEF QueueRows
      <4>3. CASE j \in DOMAIN queue
        BY <1>1, <3>1, <3>3, <4>1, <4>3 DEF InOrder
      <4>4. CASE j = Len(queue) + 1
        BY <1>6, <3>1, <4>1, <4>2, <4>4 DEF AllBefore
      <4>5. QED BY <3>1, <4>3, <4>4
    <3>4. QED
      <4>1. (\A i \in DOMAIN queue : Sorted(queue[i].rows))'
        BY <3>2 DEF Sorted, Before
      <4>2. (\A i, j \in DOMAIN queue :
               i < j => AllBefore(RowSet(queue[i].rows), RowSet(queue[j].rows)))'
        BY <3>3 DEF AllBefore, RowSet, Before
      <4>3. QED BY <1>6, <3>1, <4>1, <4>2, AllBeforeSets, EmptyRows
  <2>2. CASE Receive
    <3>1. /\ parcel' = out[cur][1] /\ 1 \in DOMAIN out[cur] /\ cur \in Sources
          /\ UNCHANGED <<queue, QueueRows>> /\ P' = OutRows(cur)
          /\ producer = "recv"
      BY <2>2, ReceiveRows
    <3>2. Sorted(parcel.rows)'
      <4>1. Sorted(out[cur][1].rows)
        BY <1>1, <3>1 DEF InOrder
      <4>2. QED BY <3>1, <4>1 DEF Sorted, Before
    <3>3. ASSUME NEW a \in Passed, NEW b \in OutRows(cur) PROVE Before(a, b)
      <4>1. a[1] <= cur /\ a[1] \in Nat /\ b[1] = cur /\ cur \in Nat
        BY <1>1, <2>2, <3>1, DataRowIsRow, InputFacts, ReceiveRows DEF Genuine
      <4>2. CASE a[1] = cur
        BY <1>2, <3>1, <4>2 DEF AllBefore
      <4>3. CASE a[1] # cur
        BY <4>1, <4>3 DEF Before
      <4>4. QED BY <4>2, <4>3
    <3>4. AllBefore(L, P') /\ AllBefore(B, P') /\ AllBefore(QueueRows, P')
      BY <3>1, <3>3 DEF AllBefore, Passed
    <3>5. QED BY <1>1, <1>6, <3>1, <3>2, <3>4 DEF InOrder, Sorted, AllBefore, RowSet, Before
  <2>3. CASE ~Forward /\ ~Receive
    <3>1. /\ UNCHANGED <<queue, QueueRows>> /\ parcel' \in {parcel, Nothing}
          /\ P' \subseteq P
      BY <2>3, ProducerRows
    <3>2. Sorted(parcel.rows)'
      BY <1>1, <3>1, MessageFacts, EmptyRows DEF InOrder, Sorted, Before
    <3>3. AllBefore(L, P') /\ AllBefore(B, P') /\ AllBefore(QueueRows, P')
      BY <1>6, <3>1 DEF AllBefore
    <3>4. QED BY <1>1, <1>6, <3>1, <3>2, <3>3 DEF InOrder, Sorted, AllBefore, RowSet, Before
  <2>4. QED BY <2>1, <2>2, <2>3
<1>8. /\ AllBefore(L, B)'
      /\ AllBefore(L \cup B, QueueRows)'
      /\ AllBefore(L \cup B \cup QueueRows, P)'
  BY <1>1, <1>6, <1>7 DEF AllBefore, Before
<1>9. (Sorted(loaded) /\ Sorted(batch.rows))'
  BY <1>1 DEF InOrder
<1>10. QED BY <1>1, <1>2, <1>4, <1>5, <1>7, <1>8, <1>9 DEF InOrder

\* While nothing has gone wrong afterwards nothing had before, and no row is let go.
LEMMA ProducerUndisturbed ==
  ASSUME PipelineInv, Producer, Undisturbed'
  PROVE  /\ Undisturbed /\ verdict = Undecided /\ producer # "stopping" /\ ~ForwardFails
         /\ Forward => parcel.kind # "error"
         /\ \A t \in Sources : Passed \cup OutRows(t) \subseteq (Passed \cup OutRows(t))'
<1>1. NoRowLost /\ MainAt /\ UNCHANGED <<verdict, main>>
  BY ProducerLocal DEF PipelineInv
<1>2. Undisturbed' => Undisturbed /\ ~(Forward /\ parcel.kind = "error")
  <2>1. verdict' = verdict /\ Undecided' = Undecided
    BY <1>1 DEF Undecided, Why
  <2>2. CASE Forward
    <3>1. /\ DOMAIN queue \subseteq DOMAIN queue' /\ Len(queue) + 1 \in DOMAIN queue'
          /\ queue'[Len(queue) + 1] = parcel
          /\ \A i \in DOMAIN queue : queue'[i] = queue[i]
      BY <2>2, ForwardRows
    <3>2. QED BY <2>1, <3>1 DEF Undisturbed
  <2>3. CASE ~Forward
    BY <2>1, <2>3, ReceiveRows, ProducerRows DEF Undisturbed
  <2>4. QED BY <2>2, <2>3
<1>3. /\ Undisturbed /\ verdict = Undecided /\ producer # "stopping" /\ ~ForwardFails
      /\ Forward => parcel.kind # "error"
  <2>1. Undisturbed /\ verdict = Undecided /\ (Forward => parcel.kind # "error")
    BY <1>2 DEF Undisturbed
  <2>2. ~ForwardFails
    BY <1>1, <2>1 DEF MainAt, ForwardFails
  <2>3. QED BY <1>1, <2>1, <2>2 DEF NoRowLost
<1>4. \A t \in Sources : Passed \cup OutRows(t) \subseteq (Passed \cup OutRows(t))'
  <2>1. SUFFICES ASSUME NEW t \in Sources
                 PROVE  Passed \cup OutRows(t) \subseteq Passed' \cup OutRows(t)'
    OBVIOUS
  <2>2. CASE Receive
    <3>1. CASE t = cur
      BY <2>2, <3>1, ReceiveRows
    <3>2. CASE t # cur
      BY <2>2, <3>2, ReceiveRows
    <3>3. QED BY <3>1, <3>2
  <2>3. CASE Forward
    <3>1. UNCHANGED out
      BY <1>3, <2>3 DEF Forward
    <3>2. OutRows(t)' = OutRows(t)
      BY <3>1 DEF OutRows
    <3>3. QED BY <2>3, <3>2, ForwardRows
  <2>4. CASE ~Receive /\ ~Forward
    <3>1. out'[t] = out[t] /\ Passed' = Passed
      BY <1>3, <2>4, ProducerRows
    <3>2. OutRows(t)' = OutRows(t)
      BY <3>1 DEF OutRows
    <3>3. QED BY <3>1, <3>2
  <2>5. QED BY <2>2, <2>3, <2>4
<1>5. QED BY <1>3, <1>4

LEMMA ProducerKeepsNoRowLost ==
  ASSUME PipelineInv, Producer
  PROVE  NoRowLost'
<1>1. /\ NoRowLost /\ ProducerAt /\ MainAt
      /\ UNCHANGED <<file, pos, rows, verdict, main, DataRows, Sources>>
      /\ \A r : Behind(r)' = Behind(r)
      /\ \A t : RowSet(rows[t])' = RowSet(rows[t])
  BY ProducerLocal, InputFixed DEF PipelineInv, Behind, RowSet
<1> SUFFICES ASSUME Undisturbed'
             PROVE  /\ producer' # "stopping"
                    /\ producer' = "done" => \A t \in Sources : t < first'
                    /\ (\A t \in Sources : wpc[t] \in {"reading", "sending"} =>
                          \A r \in DataRows : r[1] = t /\ Behind(r) =>
                            r \in Passed \cup OutRows(t) \cup RowSet(rows[t]))'
                    /\ (\A t \in Sources : wpc[t] = "exited" =>
                          ErrorAhead(t)
                            \/ \A r \in DataRows : r[1] = t =>
                                 r \in Passed \cup OutRows(t))'
  BY <1>1 DEF NoRowLost
<1>3. /\ Undisturbed /\ verdict = Undecided /\ producer # "stopping" /\ ~ForwardFails
      /\ Forward => parcel.kind # "error"
  BY ProducerUndisturbed
<1>4. producer' # "stopping"
  BY <1>3
     DEF Producer, SpawnChunk, NoMoreChunks, Receive, Disconnected, ChunkDrained, Forward,
         ForwardFails, JoinChunk
<1>5. ASSUME producer' = "done" PROVE \A t \in Sources : t < first'
  <2>1. NoMoreChunks
    BY <1>3, <1>5
       DEF Producer, SpawnChunk, NoMoreChunks, Receive, Disconnected, ChunkDrained, Forward,
         ForwardFails, JoinChunk
  <2>2. Chunk = {} /\ first' = first
    BY <2>1 DEF NoMoreChunks
  <2>3. SUFFICES ASSUME NEW t \in Sources, ~(t < first) PROVE FALSE
    BY <2>2
  <2>4. first \in Sources
    BY <2>3, InputFacts, TypeFacts
  <2>5. first \in Chunk
    <3>1. first \in Nat /\ ParserWorkers \in Nat \ {0}
      BY TypeFacts
    <3>2. first <= first /\ first < first + ParserWorkers
      BY <3>1
    <3>3. QED BY <2>4, <3>2, InChunk
  <2>6. QED BY <2>2, <2>5
<1>6. \A t \in Sources : Passed \cup OutRows(t) \subseteq (Passed \cup OutRows(t))'
  BY ProducerUndisturbed
<1>7. ASSUME NEW t \in Sources, wpc'[t] \in {"reading", "sending"},
             NEW r \in DataRows, r[1] = t, Behind(r)
      PROVE  r \in Passed \cup OutRows(t) \cup RowSet(rows[t])
  <2>1. CASE wpc'[t] = wpc[t]
    BY <1>1, <1>3, <1>7, <2>1 DEF NoRowLost
  <2>2. CASE wpc'[t] # wpc[t]
    <3>1. SpawnChunk /\ t \in Chunk /\ producer = "spawn"
      BY <2>2, ProducerLocal DEF SpawnChunk
    <3>2. wpc[t] = "unborn"
      BY <1>1, <3>1, InChunk DEF ProducerAt, Begun
    <3>3. file[t] = 1 /\ pos[t] = 1
      BY <3>2 DEF PipelineInv, ReaderBounds, ReaderBound
    <3>4. r[2] \in Nat \ {0} /\ r[3] \in Nat \ {0}
      BY DataRow, InputFacts
    <3>5. QED BY <1>7, <3>3, <3>4 DEF Behind
  <2>3. QED BY <2>1, <2>2
<1>8. ASSUME NEW t \in Sources, wpc'[t] = "exited"
      PROVE  ErrorAhead(t)' \/ \A r \in DataRows : r[1] = t =>
                                 r \in Passed \cup OutRows(t)
  <2>1. wpc[t] = "exited"
    BY <1>8, ProducerLocal DEF SpawnChunk
  <2>2. CASE ~ErrorAhead(t)
    BY <1>1, <1>3, <2>1, <2>2 DEF NoRowLost
  <2>3. CASE ErrorAhead(t)
    <3>1. CASE Receive
      <4>1. parcel = Nothing /\ parcel' = out[cur][1] /\ DOMAIN out[cur] = {1}
        BY <3>1, ReceiveRows
      <4>2. PICK i \in DOMAIN out[t] : out[t][i].kind = "error"
        BY <2>3, <4>1, MessageFacts DEF ErrorAhead
      <4>3. CASE t = cur
        BY <4>1, <4>2, <4>3 DEF ErrorAhead
      <4>4. CASE t # cur
        <5>1. out'[t] = out[t]
          BY <3>1, <4>4, ReceiveRows
        <5>2. QED BY <4>2, <5>1 DEF ErrorAhead
      <4>5. QED BY <4>3, <4>4
    <3>2. CASE Forward
      <4>1. UNCHANGED out /\ parcel.kind # "error"
        BY <1>3, <3>2 DEF Forward
      <4>2. QED BY <2>3, <4>1 DEF ErrorAhead
    <3>3. CASE ~Receive /\ ~Forward
      <4>1. out'[t] = out[t] /\ parcel' = parcel
        BY <1>3, <3>3, ProducerRows
      <4>2. QED BY <2>3, <4>1 DEF ErrorAhead
    <3>4. QED BY <3>1, <3>2, <3>3
  <2>4. QED BY <2>2, <2>3
<1>9. QED BY <1>1, <1>4, <1>5, <1>6, <1>7, <1>8

\* The main thread takes the oldest message.
LEMMA TakeRows ==
  ASSUME PipelineInv, Take
  PROVE  /\ RowSet(batch.rows) = {} /\ RowSet(batch.rows)' = RowSet(queue[1].rows)
         /\ batch'.rows = queue[1].rows
         /\ 1 \in DOMAIN queue
         /\ \A i \in DOMAIN queue' : i + 1 \in DOMAIN queue /\ i + 1 > 1
                                     /\ queue'[i] = queue[i + 1]
         /\ \A i \in DOMAIN queue : i = 1 \/ (i - 1 \in DOMAIN queue' /\ queue'[i - 1] = queue[i])
         /\ QueueRows = QueueRows' \cup RowSet(queue[1].rows)
         /\ Passed' = Passed
         /\ queue[1].kind = "error" => verdict' # Undecided
         /\ UNCHANGED <<loaded, parcel>>
<1> USE TypeFacts
<1>1. /\ main = "recv" /\ queue # <<>> /\ queue' = Tail(queue) /\ UNCHANGED <<loaded, parcel>>
  BY DEF Take, collect
<1>2. /\ Tail(queue) \in Seq(Messages) /\ Head(queue) = queue[1] /\ 1 \in DOMAIN queue
      /\ DOMAIN queue = 1 .. Len(queue) /\ Len(queue) \in Nat \ {0}
      /\ DOMAIN Tail(queue) = 1 .. Len(queue) - 1
      /\ \A i \in 1 .. Len(queue) - 1 : i + 1 \in DOMAIN queue /\ Tail(queue)[i] = queue[i + 1]
  BY <1>1, QueueTail
<1>3. \A i \in DOMAIN queue' : i + 1 \in DOMAIN queue /\ i + 1 > 1
                               /\ queue'[i] = queue[i + 1]
  BY <1>1, <1>2
<1>4. ASSUME NEW i \in DOMAIN queue, i # 1
      PROVE  i - 1 \in DOMAIN queue' /\ queue'[i - 1] = queue[i]
  <2>1. i - 1 \in 1 .. Len(queue) - 1 /\ (i - 1) + 1 = i
    BY <1>2, <1>4
  <2>2. QED BY <1>1, <1>2, <2>1
<1>5. batch = Nothing /\ queue[1] \in Batches
  BY <1>1, <1>2 DEF PipelineInv, MainAt
<1>6. /\ RowSet(batch.rows) = {} /\ batch'.rows = queue[1].rows
      /\ queue[1].kind = "error" => verdict' # Undecided
  BY <1>2, <1>5, MessageFacts, EmptyRows DEF Take, Why, Undecided
<1>7. RowSet(batch.rows)' = RowSet(queue[1].rows)
  BY <1>6 DEF RowSet
<1>8. QueueRows = QueueRows' \cup RowSet(queue[1].rows)
  <2>1. ASSUME NEW r \in QueueRows PROVE r \in QueueRows' \cup RowSet(queue[1].rows)
    <3>1. PICK i \in DOMAIN queue : r \in RowSet(queue[i].rows)
      BY DEF QueueRows
    <3>2. CASE i = 1
      BY <3>1, <3>2
    <3>3. CASE i # 1
      <4>1. i - 1 \in DOMAIN queue' /\ r \in RowSet(queue'[i - 1].rows)
        BY <1>4, <3>1, <3>3
      <4>2. QED BY <4>1 DEF QueueRows, RowSet
    <3>4. QED BY <3>2, <3>3
  <2>2. ASSUME NEW r \in QueueRows' PROVE r \in QueueRows
    <3>1. PICK i \in DOMAIN queue' : r \in RowSet(queue'[i].rows)
      BY DEF QueueRows, RowSet
    <3>2. i + 1 \in DOMAIN queue /\ r \in RowSet(queue[i + 1].rows)
      BY <1>3, <3>1
    <3>3. QED BY <3>2 DEF QueueRows
  <2>3. ASSUME NEW r \in RowSet(queue[1].rows) PROVE r \in QueueRows
    BY <1>2, <2>3 DEF QueueRows
  <2>4. QED BY <2>1, <2>2, <2>3
<1>9. Passed' = Passed
  <2>1. RowSet(loaded)' = RowSet(loaded) /\ RowSet(parcel.rows)' = RowSet(parcel.rows)
    BY <1>1 DEF RowSet
  <2>2. QED BY <1>6, <1>7, <1>8, <2>1 DEF Passed
<1>10. QED BY <1>1, <1>2, <1>3, <1>4, <1>6, <1>7, <1>8, <1>9

\* Appending moves the rows of a batch behind those loaded, in order.
LEMMA AppendRows ==
  ASSUME PipelineInv, AppendBatch
  PROVE  /\ RowSet(loaded)' = RowSet(loaded) \cup RowSet(batch.rows)
         /\ RowSet(batch.rows)' = {} /\ Sorted(batch.rows)' /\ Passed' = Passed
         /\ Sorted(loaded)' /\ UNCHANGED <<queue, parcel, QueueRows>>
         /\ \A r \in RowSet(batch.rows) : KindOf(r) # "reject"
<1>1. /\ loaded' = loaded \o batch.rows /\ batch' = Nothing /\ ~Rejected(batch)
      /\ UNCHANGED <<queue, parcel>>
  BY DEF AppendBatch, channels, collect
<1>2. loaded \in Seq(Row) /\ batch.rows \in Seq(Row)
  BY TypeFacts, MessageFacts
<1>3. RowSet(loaded)' = RowSet(loaded) \cup RowSet(batch.rows)
  <2>1. RowSet(loaded \o batch.rows) = RowSet(loaded) \cup RowSet(batch.rows)
    BY <1>2, ConcatRows
  <2>2. RowSet(loaded)' = RowSet(loaded')
    BY DEF RowSet
  <2>3. QED BY <1>1, <2>1, <2>2
<1>4. Sorted(loaded)'
  <2>1. Sorted(loaded) /\ Sorted(batch.rows) /\ AllBefore(RowSet(loaded), RowSet(batch.rows))
    BY DEF PipelineInv, InOrder
  <2>2. Sorted(loaded \o batch.rows)
    BY <1>2, <2>1, ConcatRows
  <2>3. Sorted(loaded)' = Sorted(loaded')
    BY DEF Sorted, Before
  <2>4. QED BY <1>1, <2>2, <2>3
<1>5. RowSet(batch.rows)' = {} /\ Sorted(batch.rows)'
  BY <1>1, MessageFacts, EmptyRows DEF RowSet, Sorted
<1>6. QueueRows' = QueueRows /\ RowSet(parcel.rows)' = RowSet(parcel.rows)
  BY <1>1 DEF QueueRows, RowSet
<1>7. Passed' = Passed
  BY <1>3, <1>5, <1>6 DEF Passed
<1>8. \A r \in RowSet(batch.rows) : KindOf(r) # "reject"
  BY <1>1 DEF Rejected, RowSet
<1>9. QED BY <1>1, <1>3, <1>4, <1>5, <1>6, <1>7, <1>8

\* The other steps of the main thread may drop what it holds.
LEMMA MainRows ==
  ASSUME PipelineInv, Main, ~Take, ~AppendBatch
  PROVE  /\ UNCHANGED <<loaded, parcel>> /\ batch' \in {batch, Nothing}
         /\ queue' = queue \/ queue' = <<>>
         /\ RowSet(batch.rows)' \subseteq RowSet(batch.rows)
         /\ QueueRows' \subseteq QueueRows /\ Passed' \subseteq Passed
         /\ verdict' = Undecided => /\ UNCHANGED <<batch, verdict>> /\ queue' = queue
                                    /\ Passed' = Passed
<1>1. /\ UNCHANGED <<loaded, parcel>> /\ batch' \in {batch, Nothing}
      /\ queue' = queue \/ queue' = <<>>
      /\ verdict' = Undecided => /\ UNCHANGED batch
                                 /\ verdict' = verdict /\ (~Close => queue' = queue)
  BY DEF Main, AppendFails, InputEnds, Close, JoinProducer, channels, collect, Why, Undecided
<1>2. RowSet(batch.rows)' \subseteq RowSet(batch.rows)
  BY <1>1, MessageFacts, EmptyRows DEF RowSet
<1>3. QueueRows' \subseteq QueueRows
  BY <1>1 DEF QueueRows
<1>4. RowSet(loaded)' = RowSet(loaded) /\ RowSet(parcel.rows)' = RowSet(parcel.rows)
  BY <1>1 DEF RowSet
<1>5. Passed' \subseteq Passed
  BY <1>2, <1>3, <1>4 DEF Passed
<1>6. Close /\ verdict' = Undecided => queue' = queue
  BY DEF Close, PipelineInv, MainAt, Undecided, Why
<1>7. ASSUME verdict' = Undecided PROVE queue' = queue /\ Passed' = Passed
  <2>1. queue' = queue /\ batch' = batch
    BY <1>1, <1>6, <1>7
  <2>2. RowSet(batch.rows)' = RowSet(batch.rows) /\ QueueRows' = QueueRows
    BY <2>1 DEF RowSet, QueueRows
  <2>3. QED BY <1>4, <2>1, <2>2 DEF Passed
<1>8. QED BY <1>1, <1>2, <1>3, <1>5, <1>7

LEMMA MainKeepsGenuine ==
  ASSUME PipelineInv, Main
  PROVE  Genuine'
<1>1. /\ Genuine
      /\ UNCHANGED <<file, pos, rows, out, wpc, cur, producer, DataRows, Sources, InFlight>>
      /\ \A r : KindOf(r)' = KindOf(r) /\ Behind(r)' = Behind(r)
      /\ \A t : OutRows(t)' = OutRows(t) /\ RowSet(rows[t])' = RowSet(rows[t])
  BY MainLocal, InputFixed DEF PipelineInv, Behind, InFlight, OutRows, RowSet
<1>2. Passed' \subseteq Passed
  BY TakeRows, AppendRows, MainRows
<1>3. \A r \in RowSet(loaded)' : KindOf(r) # "reject"
  <2>1. CASE AppendBatch
    BY <1>1, <2>1, AppendRows DEF Genuine
  <2>2. CASE ~AppendBatch
    <3>1. RowSet(loaded)' = RowSet(loaded)
      BY <2>2, TakeRows, MainRows DEF RowSet
    <3>2. QED BY <1>1, <3>1 DEF Genuine
  <2>3. QED BY <2>1, <2>2
<1>4. QED BY <1>1, <1>2, <1>3 DEF Genuine

LEMMA MainKeepsInOrder ==
  ASSUME PipelineInv, Main
  PROVE  InOrder'
<1> DEFINE L == RowSet(loaded)
           B == RowSet(batch.rows)
           P == RowSet(parcel.rows)
           Pairwise == \A i, j \in DOMAIN queue :
                         i < j => AllBefore(RowSet(queue[i].rows), RowSet(queue[j].rows))
<1>1. /\ InOrder /\ UNCHANGED <<rows, out, parcel, Sources, P, Sorted(parcel.rows)>>
      /\ \A A, C : AllBefore(A, C)' = AllBefore(A, C)
      /\ \A t : OutRows(t)' = OutRows(t) /\ RowSet(rows[t])' = RowSet(rows[t])
  BY MainLocal, InputFixed
     DEF PipelineInv, OutRows, RowSet, Sorted, AllBefore, Before
<1>2. Passed' \subseteq Passed
  BY TakeRows, AppendRows, MainRows
<1>3. ASSUME NEW t \in Sources
      PROVE  /\ Sorted(rows[t])'
             /\ (\A i \in DOMAIN out[t] : Sorted(out[t][i].rows))'
             /\ AllBefore(OutRows(t), RowSet(rows[t]))'
             /\ AllBefore({r \in Passed : r[1] = t}, OutRows(t) \cup RowSet(rows[t]))'
  <2>1. /\ Sorted(rows[t]) /\ \A i \in DOMAIN out[t] : Sorted(out[t][i].rows)
        /\ AllBefore(OutRows(t), RowSet(rows[t]))
        /\ AllBefore({r \in Passed : r[1] = t}, OutRows(t) \cup RowSet(rows[t]))
    BY <1>1 DEF InOrder
  <2>2. Sorted(rows[t])' /\ (\A i \in DOMAIN out[t] : Sorted(out[t][i].rows))'
    BY <1>1, <2>1 DEF Sorted, Before
  <2>3. {r \in Passed : r[1] = t}' \subseteq {r \in Passed : r[1] = t}
    BY <1>2
  <2>4. AllBefore({r \in Passed : r[1] = t}, OutRows(t) \cup RowSet(rows[t]))'
    BY <1>1, <2>1, <2>3 DEF AllBefore, Before
  <2>5. QED BY <1>1, <2>1, <2>2, <2>4
<1>4. /\ Sorted(loaded) /\ Sorted(batch.rows) /\ Sorted(parcel.rows)'
      /\ \A i \in DOMAIN queue : Sorted(queue[i].rows)
      /\ Pairwise /\ AllBefore(L, B)
      /\ AllBefore(L, QueueRows) /\ AllBefore(B, QueueRows)
      /\ AllBefore(L, P) /\ AllBefore(B, P) /\ AllBefore(QueueRows, P)
  BY <1>1, AllBeforeSets DEF InOrder
<1>5. /\ Sorted(loaded)' /\ Sorted(batch.rows)'
      /\ (\A i \in DOMAIN queue : Sorted(queue[i].rows))'
      /\ Pairwise'
      /\ AllBefore(L', B') /\ AllBefore(L', QueueRows') /\ AllBefore(B', QueueRows')
      /\ AllBefore(L', P) /\ AllBefore(B', P) /\ AllBefore(QueueRows', P)
  <2>1. CASE Take
    <3>1. /\ B' = RowSet(queue[1].rows) /\ L' = L /\ 1 \in DOMAIN queue
          /\ QueueRows = QueueRows' \cup RowSet(queue[1].rows)
          /\ \A i \in DOMAIN queue' : i + 1 \in DOMAIN queue /\ i + 1 > 1
                                      /\ queue'[i] = queue[i + 1]
          /\ batch'.rows = queue[1].rows /\ loaded' = loaded
          /\ DOMAIN queue = 1 .. Len(queue)
      BY <2>1, TakeRows, TypeFacts, LenProperties DEF RowSet
    <3>2. \A i \in DOMAIN queue' : Sorted(queue'[i].rows)
      BY <1>4, <3>1
    <3>3. ASSUME NEW i \in DOMAIN queue', NEW j \in DOMAIN queue', i < j
          PROVE  AllBefore(RowSet(queue'[i].rows), RowSet(queue'[j].rows))
      <4>1. DOMAIN queue' \subseteq Nat
        BY MainTypes, LenProperties DEF TypeOK
      <4>2. i + 1 < j + 1
        BY <3>3, <4>1
      <4>3. QED BY <1>4, <3>1, <3>3, <4>2
    <3>4. ASSUME NEW a \in B', NEW b \in QueueRows' PROVE Before(a, b)
      <4>1. PICK i \in DOMAIN queue' : b \in RowSet(queue'[i].rows)
        BY <3>4 DEF QueueRows, RowSet
      <4>2. i + 1 \in DOMAIN queue /\ 1 < i + 1 /\ b \in RowSet(queue[i + 1].rows)
        BY <3>1, <4>1, TypeFacts
      <4>3. AllBefore(RowSet(queue[1].rows), RowSet(queue[i + 1].rows))
        BY <1>4, <3>1, <4>2
      <4>4. QED BY <3>1, <4>2, <4>3 DEF AllBefore
    <3>5. Sorted(loaded)' /\ Sorted(batch.rows)'
      <4>1. Sorted(queue[1].rows)
        BY <1>4, <3>1
      <4>2. QED BY <1>4, <3>1, <4>1 DEF Sorted, Before
    <3>6. (\A i \in DOMAIN queue : Sorted(queue[i].rows))'
      BY <3>2 DEF Sorted, Before
    <3>7. Pairwise'
      BY <3>3 DEF AllBefore, RowSet, Before
    <3>8. /\ AllBefore(L', B') /\ AllBefore(L', QueueRows') /\ AllBefore(L', P)
          /\ AllBefore(B', P) /\ AllBefore(QueueRows', P)
      BY <1>4, <3>1 DEF AllBefore
    <3>9. AllBefore(B', QueueRows')
      BY <3>4 DEF AllBefore
    <3>10. QED BY <3>5, <3>6, <3>7, <3>8, <3>9
  <2>2. CASE AppendBatch
    <3>1. /\ L' = L \cup B /\ B' = {} /\ Sorted(batch.rows)' /\ Sorted(loaded)'
          /\ UNCHANGED <<queue, QueueRows>>
      BY <2>2, AppendRows
    <3>2. (\A i \in DOMAIN queue : Sorted(queue[i].rows))' /\ Pairwise'
      BY <1>4, <3>1 DEF Sorted, Before, AllBefore, RowSet
    <3>3. QED BY <1>4, <3>1, <3>2, AllBeforeSets, EmptyRows
  <2>3. CASE ~Take /\ ~AppendBatch
    <3>1. /\ loaded' = loaded /\ batch' \in {batch, Nothing}
          /\ queue' = queue \/ queue' = <<>>
          /\ B' \subseteq B /\ QueueRows' \subseteq QueueRows /\ L' = L
      BY <2>3, MainRows DEF RowSet
    <3>2. Sorted(loaded)' /\ Sorted(batch.rows)'
      BY <1>4, <3>1, MessageFacts, EmptyRows DEF Sorted, Before
    <3>3. (\A i \in DOMAIN queue : Sorted(queue[i].rows))' /\ Pairwise'
      <4>1. CASE queue' = queue
        BY <1>4, <4>1 DEF Sorted, Before, AllBefore, RowSet
      <4>2. CASE queue' = <<>>
        BY <4>2
      <4>3. QED BY <3>1, <4>1, <4>2
    <3>4. /\ AllBefore(L', B') /\ AllBefore(L', QueueRows') /\ AllBefore(B', QueueRows')
          /\ AllBefore(L', P) /\ AllBefore(B', P) /\ AllBefore(QueueRows', P)
      BY <1>4, <3>1 DEF AllBefore
    <3>5. QED BY <3>2, <3>3, <3>4
  <2>4. QED BY <2>1, <2>2, <2>3
<1>6. /\ AllBefore(L, B)'
      /\ AllBefore(L \cup B, QueueRows)'
      /\ AllBefore(L \cup B \cup QueueRows, P)'
  BY <1>1, <1>5 DEF AllBefore, Before
<1>7. QED BY <1>1, <1>3, <1>4, <1>5, <1>6 DEF InOrder

\* While nothing has gone wrong afterwards nothing had gone wrong before.
LEMMA MainUndisturbed ==
  ASSUME PipelineInv, Main
  PROVE  /\ verdict' = Undecided => verdict = Undecided /\ Passed' = Passed
         /\ Undisturbed' => Undisturbed
<1>1. ASSUME verdict' = Undecided PROVE verdict = Undecided /\ Passed' = Passed
  <2>1. CASE Take
    BY <2>1, TakeRows DEF Take, PipelineInv, MainAt
  <2>2. CASE AppendBatch
    BY <2>2, AppendRows DEF AppendBatch, PipelineInv, MainAt
  <2>3. CASE ~Take /\ ~AppendBatch
    BY <1>1, <2>3, MainRows
  <2>4. QED BY <2>1, <2>2, <2>3
<1>2. ASSUME Undisturbed' PROVE Undisturbed
  <2>1. verdict' = Undecided
    BY <1>2 DEF Undisturbed, Undecided, Why
  <2>2. verdict = Undecided
    BY <1>1, <2>1
  <2>3. CASE Take
    <3>1. queue[1].kind # "error"
      BY <2>1, <2>3, TakeRows
    <3>2. ASSUME NEW i \in DOMAIN queue PROVE queue[i].kind # "error"
      BY <1>2, <2>3, <3>1, TakeRows DEF Undisturbed
    <3>3. QED BY <2>2, <3>2 DEF Undisturbed
  <2>4. CASE AppendBatch
    BY <1>2, <2>2, <2>4, AppendRows DEF Undisturbed
  <2>5. CASE ~Take /\ ~AppendBatch
    BY <1>2, <2>1, <2>2, <2>5, MainRows DEF Undisturbed
  <2>6. QED BY <2>3, <2>4, <2>5
<1>3. QED BY <1>1, <1>2

LEMMA MainKeepsNoRowLost ==
  ASSUME PipelineInv, Main
  PROVE  NoRowLost'
<1>1. /\ NoRowLost
      /\ UNCHANGED <<file, pos, rows, out, wpc, first, producer, parcel, DataRows, Sources>>
      /\ \A r : Behind(r)' = Behind(r)
      /\ \A t : /\ OutRows(t)' = OutRows(t) /\ RowSet(rows[t])' = RowSet(rows[t])
                /\ ErrorAhead(t)' = ErrorAhead(t)
  BY MainLocal, InputFixed DEF PipelineInv, Behind, OutRows, RowSet, ErrorAhead
<1> SUFFICES ASSUME Undisturbed' PROVE NoRowLost'
  BY DEF NoRowLost
<1>2. verdict' = Undecided
  BY DEF Undisturbed, Undecided, Why
<1>3. Undisturbed /\ Passed' = Passed
  BY <1>2, MainUndisturbed
<1>4. QED BY <1>1, <1>3 DEF NoRowLost

-----------------------------------------------------------------------------
(* The inductive invariant.                                                 *)

LEMMA InitPipelineInv == ASSUME Init PROVE PipelineInv
<1>1. input \in Inputs
  BY DEF Init
<1> DEFINE Files == Seq(Seq(Kinds)) \ {<<>>}
<1>2. input \in Seq(Files) /\ ParserWorkers \in Nat \ {0} /\ BatchRows \in Nat \ {0}
  BY <1>1, PipelineAssumption
<1>3. /\ Sources = 1 .. Len(input) /\ Sources \subseteq Nat
      /\ \A s \in Sources : 1 \in DOMAIN input[s] /\ Len(input[s][1]) \in Nat
  <2>1. Sources = 1 .. Len(input) /\ Sources \subseteq Nat
    <3> HIDE DEF Files
    <3>1. Sources = 1 .. Len(input) /\ Len(input) \in Nat
      BY <1>2, LenProperties DEF Sources
    <3>2. QED BY <3>1
  <2>2. ASSUME NEW s \in Sources
        PROVE  1 \in DOMAIN input[s] /\ Len(input[s][1]) \in Nat
    <3>1. input[s] \in Files
      <4> HIDE DEF Files
      <4>1. QED BY <1>2, <2>1, ElementOfSeq
    <3>2. /\ input[s] \in Seq(Seq(Kinds)) /\ input[s] # <<>>
          /\ DOMAIN input[s] = 1 .. Len(input[s]) /\ Len(input[s]) \in Nat
      BY <3>1
    <3>3. Len(input[s]) # 0 /\ 1 \in DOMAIN input[s]
      BY <3>2, EmptySeq
    <3>4. input[s][1] \in Seq(Kinds)
      BY <3>2, <3>3, ElementOfSeq
    <3>5. QED BY <3>3, <3>4
  <2>3. QED BY <2>1, <2>2
<1>4. TypeOK
  <2>1. /\ Nothing \in Messages /\ <<>> \in Seq(Row) /\ <<>> \in Seq(Messages)
    BY MessageFacts
  <2>2. input \in Inputs /\ receivers \in BOOLEAN /\ skipped \in Nat
    BY <1>1 DEF Init
  <2>3. wpc \in [Sources -> {"unborn", "reading", "sending", "failing", "exited", "panicked"}]
    BY DEF Init
  <2>4. file \in [Sources -> Nat] /\ pos \in [Sources -> Nat]
    BY DEF Init
  <2>5. rows \in [Sources -> Seq(Row)]
    BY <2>1 DEF Init
  <2>6. out \in [Sources -> Seq(Messages)]
    BY <2>1 DEF Init
  <2>7. first \in Nat \ {0} /\ cur \in Nat \ {0}
    BY DEF Init
  <2>8. parcel \in Messages /\ batch \in Messages /\ queue \in Seq(Messages)
        /\ loaded \in Seq(Row)
    BY <2>1 DEF Init
  <2>9. verdict \in [why : {"none", "parse", "reject", "tolerance", "io", "panic"}, at : Nat]
    BY DEF Init, Undecided, Why
  <2>10. producer = "spawn" /\ main = "recv"
    BY DEF Init
  <2>11. QED BY <2>2, <2>3, <2>4, <2>5, <2>6, <2>7, <2>8, <2>9, <2>10 DEF TypeOK
<1>5. ReaderBounds
  <2>1. ASSUME NEW s \in Sources
        PROVE  /\ file[s] = 1 /\ pos[s] = 1 /\ out[s] = <<>> /\ rows[s] = <<>>
               /\ Len(out[s]) = 0 /\ Len(rows[s]) = 0 /\ DOMAIN out[s] = {}
               /\ wpc[s] = "unborn"
    BY EmptySeq DEF Init
  <2>2. ASSUME NEW s \in Sources PROVE ReaderBound(s)
    <3>1. file[s] \in DOMAIN input[s] /\ pos[s] \in 1 .. Len(input[s][file[s]]) + 1
      <4>1. file[s] \in DOMAIN input[s] /\ input[s][file[s]] = input[s][1]
        BY <1>3, <2>1
      <4> DEFINE n == Len(input[s][1])
      <4>2. n \in Nat
        BY <1>3
      <4> HIDE DEF n
      <4>3. 1 \in 1 .. n + 1
        BY <4>2
      <4>4. QED BY <2>1, <4>1, <4>3 DEF n
    <3>2. Len(out[s]) <= 1 /\ Len(rows[s]) <= BatchRows /\ Len(rows[s]) < BatchRows
      <4>1. Len(out[s]) = 0 /\ Len(rows[s]) = 0
        BY <2>1
      <4>2. QED BY <1>2, <4>1
    <3>3. QED BY <2>1, <3>1, <3>2 DEF ReaderBound
  <2>3. QED BY <2>2 DEF ReaderBounds
<1>6. ProducerAt
  BY <1>3, MessageFacts DEF Init, ProducerAt, Begun
<1>7. MainAt
  BY MessageFacts, PipelineAssumption DEF Init, MainAt, MainListens
<1>8. /\ Passed = {} /\ RowSet(loaded) = {} /\ RowSet(batch.rows) = {} /\ QueueRows = {}
      /\ RowSet(parcel.rows) = {}
      /\ \A s \in Sources : OutRows(s) = {} /\ RowSet(rows[s]) = {}
  BY MessageFacts, EmptyRows DEF Init, Passed, QueueRows, OutRows
<1>9. Genuine
  BY <1>8 DEF Init, Genuine, InFlight
<1>10. InOrder
  <2>1. loaded = <<>> /\ batch.rows = <<>> /\ parcel.rows = <<>> /\ queue = <<>>
        /\ \A s \in Sources : rows[s] = <<>> /\ out[s] = <<>>
    BY DEF Init, Nothing
  <2>2. DOMAIN <<>> = {} /\ Sorted(<<>>)
    BY DEF Sorted
  <2>3. \A B : AllBefore({}, B) /\ AllBefore(B, {})
    BY DEF AllBefore
  <2>4. \A s \in Sources : {r \in Passed : r[1] = s} = {}
    BY <1>8
  <2>5. Sorted(loaded) /\ Sorted(batch.rows) /\ Sorted(parcel.rows) /\ DOMAIN queue = {}
    BY <2>1, <2>2
  <2>6. /\ AllBefore(RowSet(loaded), RowSet(batch.rows))
        /\ AllBefore(RowSet(loaded) \cup RowSet(batch.rows), QueueRows)
        /\ AllBefore(RowSet(loaded) \cup RowSet(batch.rows) \cup QueueRows,
                     RowSet(parcel.rows))
    BY <1>8, <2>3
  <2>7. ASSUME NEW s \in Sources
        PROVE  /\ Sorted(rows[s])
               /\ \A i \in DOMAIN out[s] : Sorted(out[s][i].rows)
               /\ AllBefore(OutRows(s), RowSet(rows[s]))
               /\ AllBefore({r \in Passed : r[1] = s}, OutRows(s) \cup RowSet(rows[s]))
    BY <1>8, <2>1, <2>2, <2>3, <2>4
  <2>8. QED BY <2>5, <2>6, <2>7 DEF InOrder
<1>11. NoRowLost
  BY DEF Init, NoRowLost
<1>12. QED BY <1>4, <1>5, <1>6, <1>7, <1>9, <1>10, <1>11 DEF PipelineInv

LEMMA NextPipelineInv == ASSUME PipelineInv, Next PROVE PipelineInv'
<1>1. CASE Producer
  BY <1>1, ProducerTypes, OthersKeepBounds, ProducerKeepsProducerAt, ProducerKeepsMainAt,
     ProducerKeepsGenuine, ProducerKeepsInOrder, ProducerKeepsNoRowLost
     DEF PipelineInv
<1>2. CASE Main
  BY <1>2, MainTypes, OthersKeepBounds, MainKeepsProducerAt, MainKeepsMainAt,
     MainKeepsGenuine, MainKeepsInOrder, MainKeepsNoRowLost
     DEF PipelineInv
<1>3. ASSUME NEW s \in Sources, Reader(s) PROVE PipelineInv'
  BY <1>3, ReaderTypes, ReaderKeepsBounds, ReaderKeepsProducerAt, ReaderKeepsMainAt,
     ReaderKeepsGenuine, ReaderKeepsInOrder, ReaderKeepsNoRowLost
     DEF PipelineInv
<1>4. QED BY <1>1, <1>2, <1>3 DEF Next

LEMMA StutterPipelineInv == ASSUME PipelineInv, UNCHANGED vars PROVE PipelineInv'
<1>1. UNCHANGED <<input, wpc, file, pos, rows, out, receivers, queue, first, cur,
                  producer, parcel, main, batch, skipped, verdict, loaded>>
  BY DEF vars, readers, channels, collect, consume
<1>2. UNCHANGED <<Sources, DataRows, Chunk, Begun, Undecided, Passed, InFlight, QueueRows,
                  MainListens, Undisturbed>>
  BY <1>1
     DEF Sources, DataRows, IsHeader, Chunk, Begun, Undecided, Why, Passed, InFlight, QueueRows,
         OutRows, RowSet, MainListens, Undisturbed
<1>3. (TypeOK /\ ReaderBounds /\ ProducerAt /\ MainAt)'
  <2>1. TypeOK'
    BY <1>1, <1>2 DEF PipelineInv, TypeOK
  <2>2. ReaderBounds'
    BY <1>1, <1>2 DEF PipelineInv, ReaderBounds, ReaderBound
  <2>3. ProducerAt'
    BY <1>1, <1>2 DEF PipelineInv, ProducerAt, Ended
  <2>4. MainAt'
    BY <1>1, <1>2 DEF PipelineInv, MainAt
  <2>5. QED BY <2>1, <2>2, <2>3, <2>4
<1>4. (Genuine /\ NoRowLost)'
  <2>1. Genuine'
    BY <1>1, <1>2 DEF PipelineInv, Genuine, OutRows, RowSet, KindOf, Behind
  <2>2. NoRowLost'
    BY <1>1, <1>2 DEF PipelineInv, NoRowLost, OutRows, RowSet, Behind, ErrorAhead
  <2>3. QED BY <2>1, <2>2
<1>5. InOrder'
  <2>1. InOrder
    BY DEF PipelineInv
  <2>2. \A s \in Sources : OutRows(s)' = OutRows(s)
    BY <1>1 DEF OutRows
  <2>3. QED BY <1>1, <1>2, <2>1, <2>2 DEF InOrder
<1>6. QED BY <1>3, <1>4, <1>5 DEF PipelineInv

(* Every state of the pipeline satisfies its inductive invariant: types, the *)
(* positions of the threads, the order of the rows on their way and the      *)
(* completeness of what has been read (produce, produce_source, execute).    *)
THEOREM PipelineInvariant == Spec => []PipelineInv
<1>1. Init => PipelineInv
  BY InitPipelineInv
<1>2. PipelineInv /\ [Next]_vars => PipelineInv'
  BY NextPipelineInv, StutterPipelineInv
<1>3. QED BY <1>1, <1>2, PTL DEF Spec

-----------------------------------------------------------------------------
(* The safety properties.                                                   *)

LEMMA ReadyIsComplete ==
  ASSUME PipelineInv, main = "ready"
  PROVE  /\ RowSet(loaded) = DataRows
         /\ \A r \in DataRows : KindOf(r) \in {"head", "row", "skip"}
         /\ skipped <= Tolerance
<1>1. /\ verdict = Undecided /\ queue = <<>> /\ batch = Nothing /\ producer = "done"
      /\ parcel = Nothing /\ skipped <= Tolerance /\ ~receivers
  BY DEF PipelineInv, MainAt, ProducerAt
<1>2. Undisturbed
  BY <1>1 DEF Undisturbed
<1>3. Passed = RowSet(loaded)
  BY <1>1, MessageFacts, EmptyRows DEF Passed, QueueRows
<1>4. ASSUME NEW r \in DataRows PROVE r \in RowSet(loaded)
  <2>1. r[1] \in Sources /\ r[1] < first
    BY <1>1, <1>2, DataRowIsRow DEF PipelineInv, NoRowLost
  <2>2. wpc[r[1]] = "exited" /\ out[r[1]] = <<>>
    BY <2>1 DEF PipelineInv, ProducerAt
  <2>3. ~ErrorAhead(r[1]) /\ OutRows(r[1]) = {}
    BY <1>1, <2>2, MessageFacts DEF ErrorAhead, OutRows
  <2>4. r \in Passed \cup OutRows(r[1])
    BY <1>2, <2>1, <2>2, <2>3 DEF PipelineInv, NoRowLost
  <2>5. QED BY <1>3, <2>3, <2>4
<1>5. RowSet(loaded) \subseteq DataRows
  BY <1>3 DEF PipelineInv, Genuine
<1>6. ASSUME NEW r \in DataRows PROVE KindOf(r) \in {"head", "row", "skip"}
  <2>1. KindOf(r) # "bad" /\ KindOf(r) # "reject"
    BY <1>3, <1>4 DEF PipelineInv, Genuine
  <2>2. KindOf(r) \in Kinds
    <3> DEFINE Files == Seq(Seq(Kinds)) \ {<<>>}
    <3>1. PICK s \in Sources : \E f \in DOMAIN input[s] : \E i \in DOMAIN input[s][f] :
                                 r = <<s, f, i>>
      BY DataRow
    <3>2. PICK f \in DOMAIN input[s] : \E i \in DOMAIN input[s][f] : r = <<s, f, i>>
      BY <3>1
    <3>3. PICK i \in DOMAIN input[s][f] : r = <<s, f, i>>
      BY <3>2
    <3>4. input \in Seq(Files)
      BY PipelineAssumption DEF PipelineInv, TypeOK
    <3>5. input[s] \in Files
      <4> HIDE DEF Files
      <4>1. QED BY <3>4, InputFacts, ElementOfSeq
    <3>6. input[s][f] \in Seq(Kinds)
      BY <3>5, InputFacts, ElementOfSeq
    <3>7. input[s][f][i] \in Kinds
      BY <3>6, InputFacts, ElementOfSeq
    <3>8. KindOf(r) = input[s][f][i]
      BY <3>3 DEF KindOf
    <3>9. QED BY <3>7, <3>8
  <2>3. QED BY <2>1, <2>2 DEF Kinds
<1>7. QED BY <1>1, <1>4, <1>5, <1>6

(* However the threads interleave, whichever of them fail or panic, rows     *)
(* reach the loader in declaration order, none twice; and the import goes on *)
(* to finish() only after every data row of every source has been loaded     *)
(* (produce, execute).                                                       *)
THEOREM RowsInOrder == Spec => []LoadedInOrder
<1>1. ASSUME PipelineInv PROVE LoadedInOrder
  <2>1. \A i, j \in DOMAIN loaded : i < j => Before(loaded[i], loaded[j])
    BY <1>1 DEF PipelineInv, InOrder, Sorted
  <2>2. main = "ready" =>
          /\ {loaded[i] : i \in DOMAIN loaded} = DataRows
          /\ \A r \in DataRows : KindOf(r) \in {"head", "row", "skip"}
          /\ skipped <= Tolerance
    BY <1>1, ReadyIsComplete DEF RowSet
  <2>3. QED BY <2>1, <2>2 DEF LoadedInOrder
<1>2. QED BY <1>1, PipelineInvariant, PTL

\* At most ParserWorkers sources are being read at a time.
LEMMA ChunkBound ==
  ASSUME PipelineInv, NEW A, A \subseteq Chunk
  PROVE  IsFiniteSet(A) /\ Cardinality(A) <= ParserWorkers /\ Cardinality(A) \in Nat
<1>1. first \in Nat /\ ParserWorkers \in Nat \ {0}
  BY TypeFacts
<1>2. first + ParserWorkers - 1 \in Int /\ first \in Int
  BY <1>1
<1>3. /\ IsFiniteSet(first .. (first + ParserWorkers - 1))
      /\ Cardinality(first .. (first + ParserWorkers - 1)) = ParserWorkers
  BY <1>1, <1>2, FS_Interval
<1>4. Chunk \subseteq first .. (first + ParserWorkers - 1)
  BY <1>1, InputFacts DEF Chunk
<1>5. A \subseteq first .. (first + ParserWorkers - 1)
  BY <1>4
<1>6. QED BY <1>3, <1>5, FS_Subset, FS_CardinalityType

(* Memory stays bounded whatever the readers do: at most two batches wait    *)
(* for the loader, at most two per reader are queued or being built, and no  *)
(* batch is larger than it may be (sync_channel(1), sync_channel(2)).        *)
THEOREM MemoryBounded == Spec => []BackPressure
<1>1. ASSUME PipelineInv PROVE BackPressure
  <2>1. ASSUME NEW s \in Sources, s \notin Chunk PROVE out[s] = <<>> /\ rows[s] = <<>>
    <3>1. /\ ProducerAt /\ ReaderBound(s) /\ s \in Nat /\ first \in Nat
          /\ ParserWorkers \in Nat \ {0}
      BY <1>1, InputFacts, TypeFacts DEF PipelineInv, ReaderBounds
    <3>2. s < first \/ s >= Begun
      BY <2>1, <3>1, InChunk DEF Begun
    <3>3. (wpc[s] = "exited" /\ out[s] = <<>>) \/ wpc[s] = "unborn"
      BY <3>1, <3>2 DEF ProducerAt
    <3>4. QED BY <3>1, <3>3 DEF ReaderBound
  <2>2. /\ {s \in Sources : out[s] # <<>>} \subseteq Chunk
        /\ {s \in Sources : rows[s] # <<>>} \subseteq Chunk
    BY <2>1
  <2>3. /\ Cardinality({s \in Sources : out[s] # <<>>}) <= ParserWorkers
        /\ Cardinality({s \in Sources : rows[s] # <<>>}) <= ParserWorkers
        /\ Cardinality({s \in Sources : out[s] # <<>>}) \in Nat
        /\ Cardinality({s \in Sources : rows[s] # <<>>}) \in Nat
    BY <1>1, <2>2, ChunkBound
  <2>4. Cardinality({s \in Sources : out[s] # <<>>})
          + Cardinality({s \in Sources : rows[s] # <<>>}) <= 2 * ParserWorkers
    BY <1>1, <2>3, TypeFacts
  <2>5. \A s \in Sources : Len(out[s]) <= 1 /\ Len(rows[s]) <= BatchRows
    BY <1>1 DEF PipelineInv, ReaderBounds, ReaderBound
  <2>6. QED BY <1>1, <2>4, <2>5 DEF BackPressure, PipelineInv, MainAt
<1>2. QED BY <1>1, PipelineInvariant, PTL

(* A verdict leaves no thread behind (thread::scope, join).                  *)
THEOREM NoThreadLeft == Spec => []NoOrphans
<1>1. ASSUME PipelineInv PROVE NoOrphans
  BY <1>1 DEF PipelineInv, MainAt, ProducerAt, NoOrphans
<1>2. QED BY <1>1, PipelineInvariant, PTL

-----------------------------------------------------------------------------
(* Quotients and remainders.                                                *)

\* A product with a larger factor is larger by at least the other factor.
LEMMA Multiples ==
  ASSUME NEW b \in Nat, NEW c \in Nat, NEW d \in Nat, c < d
  PROVE  b * c + b <= b * d
<1>1. PICK k \in Nat : d = c + 1 + k
  <2>1. d - c - 1 \in Nat /\ d = c + 1 + (d - c - 1)
    OBVIOUS
  <2>2. QED BY <2>1
<1>2. b * d = b * c + b + b * k
  BY <1>1
<1>3. b * k \in Nat /\ b * c \in Nat
  OBVIOUS
<1>4. QED BY <1>2, <1>3

\* Quotient and remainder.
LEMMA Division ==
  ASSUME NEW n \in Nat, NEW b \in Nat \ {0}
  PROVE  /\ n \div b \in Nat /\ n % b \in Nat /\ n % b < b
         /\ n = b * (n \div b) + (n % b)
OBVIOUS

LEMMA Quotient ==
  ASSUME NEW n \in Nat, NEW b \in Nat \ {0}, NEW c \in Nat, b * c <= n, n < b * c + b
  PROVE  n \div b = c /\ n % b = n - b * c
<1> DEFINE d == n \div b
           m == n % b
<1>1. d \in Nat /\ m \in Nat /\ m < b /\ n = b * d + m /\ b * d \in Nat /\ b * c \in Nat
  BY Division
<1> HIDE DEF d, m
<1>2. ~(c < d)
  BY <1>1, Multiples
<1>3. ~(d < c)
  BY <1>1, Multiples
<1>4. d = c
  BY <1>1, <1>2, <1>3
<1>5. m = n - b * c
  BY <1>1, <1>4
<1>6. QED BY <1>4, <1>5 DEF d, m

LEMMA QuotientGrows ==
  ASSUME NEW m \in Nat, NEW n \in Nat, NEW b \in Nat \ {0}, m <= n
  PROVE  m \div b <= n \div b
<1> DEFINE c == m \div b
           d == n \div b
           x == m % b
           y == n % b
<1>1. /\ c \in Nat /\ x \in Nat /\ x < b /\ m = b * c + x
      /\ d \in Nat /\ y \in Nat /\ y < b /\ n = b * d + y
      /\ b * d \in Nat /\ b * c \in Nat
  BY Division
<1> HIDE DEF c, d, x, y
<1>2. ~(d < c)
  BY <1>1, Multiples
<1>3. QED BY <1>1, <1>2 DEF c, d

LEMMA QuotientStep ==
  ASSUME NEW n \in Nat, NEW b \in Nat \ {0}
  PROVE  /\ (n % b) + 1 < b => /\ (n + 1) \div b = n \div b
                             /\ (n + 1) % b = (n % b) + 1
         /\ (n % b) + 1 >= b => /\ (n + 1) \div b = n \div b + 1
                              /\ (n + 1) % b = 0
<1> DEFINE d == n \div b
           y == n % b
<1>1. d \in Nat /\ y \in Nat /\ y < b /\ n = b * d + y /\ b * d \in Nat
  BY Division
<1>2. b * (d + 1) = b * d + b
  BY <1>1
<1> HIDE DEF d, y
<1>3. CASE y + 1 < b
  <2>1. b * d <= n + 1 /\ n + 1 < b * d + b /\ n + 1 \in Nat
    BY <1>1, <1>3
  <2>2. (n + 1) \div b = d /\ (n + 1) % b = n + 1 - b * d
    BY <1>1, <2>1, Quotient
  <2>3. n + 1 - b * d = y + 1
    BY <1>1
  <2>4. QED BY <1>3, <2>2, <2>3 DEF d, y
<1>4. CASE y + 1 >= b
  <2>1. y + 1 = b
    BY <1>1, <1>4
  <2> DEFINE c == d + 1
             k == n + 1
  <2>2. k = b * c
    BY <1>1, <1>2, <2>1
  <2>3. c \in Nat /\ k \in Nat
    BY <1>1
  <2> HIDE DEF c, k
  <2>4. b * c <= k /\ k < b * c + b
    BY <2>2, <2>3
  <2>5. k \div b = c /\ k % b = k - b * c
    BY <2>3, <2>4, Quotient
  <2>6. k - b * c = 0
    BY <2>2, <2>3
  <2>7. QED BY <1>4, <2>5, <2>6 DEF d, y, c, k
<1>5. QED BY <1>1, <1>3, <1>4 DEF y

-----------------------------------------------------------------------------
(* Rows and the batches they belong to.                                     *)

LEMMA BatchOrder ==
  /\ \A r : BatchKey(r)[1] = r[1] /\ BatchKey(r)[2] = r[2]
  /\ \A a, b, c \in Row : Before(a, b) /\ Before(b, c) => Before(a, c)
  /\ \A a, b \in Row : Before(a, b) => ~Before(b, a)
  /\ \A a, b \in Row : a = b \/ Before(a, b) \/ Before(b, a)
<1>1. \A r : BatchKey(r)[1] = r[1] /\ BatchKey(r)[2] = r[2]
  BY DEF BatchKey
<1>2. \A a, b, c \in Row : Before(a, b) /\ Before(b, c) => Before(a, c)
  BY RowOrder
<1>3. \A a, b \in Row : Before(a, b) => ~Before(b, a)
  BY RowOrder
<1>4. ASSUME NEW a \in Row, NEW b \in Row PROVE a = b \/ Before(a, b) \/ Before(b, a)
  <2>1. /\ a = <<a[1], a[2], a[3]>> /\ b = <<b[1], b[2], b[3]>>
        /\ a[1] \in Nat /\ a[2] \in Nat /\ a[3] \in Nat
        /\ b[1] \in Nat /\ b[2] \in Nat /\ b[3] \in Nat
    BY DEF Row
  <2>2. CASE a[1] = b[1] /\ a[2] = b[2] /\ a[3] = b[3]
    BY <2>1, <2>2
  <2>3. CASE ~(a[1] = b[1] /\ a[2] = b[2] /\ a[3] = b[3])
    BY <2>1, <2>3 DEF Before
  <2>4. QED BY <2>2, <2>3
<1>5. QED BY <1>1, <1>2, <1>3, <1>4

\* The rows in front of a record are finitely many, and more the later it is.
LEMMA CountRows ==
  ASSUME PipelineInv, NEW r \in Row
  PROVE  IsFiniteSet(RowsBefore(r)) /\ Cardinality(RowsBefore(r)) \in Nat
<1> DEFINE f == [q \in RowsBefore(r) |-> q[3]]
<1>1. r[3] \in Nat
  BY DEF Row
<1>2. IsFiniteSet(0 .. r[3])
  BY <1>1, FS_Interval
<1>3. ASSUME NEW q \in RowsBefore(r)
      PROVE  q = <<r[1], r[2], q[3]>> /\ q[3] \in 0 .. r[3]
  <2>1. q \in DataRows /\ q[1] = r[1] /\ q[2] = r[2] /\ q[3] < r[3]
    BY DEF RowsBefore
  <2>2. q \in Row
    BY <2>1, DataRowIsRow
  <2>3. QED BY <1>1, <2>1, <2>2 DEF Row
<1>4. f \in Injection(RowsBefore(r), 0 .. r[3])
  BY <1>3 DEF Injection, IsInjective
<1>5. QED BY <1>2, <1>4, FS_Injection, FS_CardinalityType

\* More rows lie before a later row of the same file.
LEMMA CountGrows ==
  ASSUME PipelineInv, NEW q \in Row, NEW r \in Row, q[1] = r[1], q[2] = r[2]
  PROVE  /\ q[3] <= r[3] => Cardinality(RowsBefore(q)) <= Cardinality(RowsBefore(r))
         /\ q[3] < r[3] /\ q \in DataRows =>
              Cardinality(RowsBefore(q)) + 1 <= Cardinality(RowsBefore(r))
<1>1. /\ IsFiniteSet(RowsBefore(q)) /\ Cardinality(RowsBefore(q)) \in Nat
      /\ IsFiniteSet(RowsBefore(r)) /\ Cardinality(RowsBefore(r)) \in Nat
      /\ q[3] \in Nat /\ r[3] \in Nat
  BY CountRows DEF Row
<1>2. ASSUME q[3] <= r[3] PROVE RowsBefore(q) \subseteq RowsBefore(r)
  <2>1. SUFFICES ASSUME NEW p \in RowsBefore(q) PROVE p \in RowsBefore(r)
    OBVIOUS
  <2>2. p \in DataRows /\ p[1] = q[1] /\ p[2] = q[2] /\ p[3] < q[3]
    BY DEF RowsBefore
  <2>3. p[3] \in Nat
    BY <2>2, DataRowIsRow DEF Row
  <2>4. QED BY <1>1, <1>2, <2>2, <2>3 DEF RowsBefore
<1>3. ASSUME q[3] <= r[3]
      PROVE  Cardinality(RowsBefore(q)) <= Cardinality(RowsBefore(r))
  BY <1>1, <1>2, <1>3, FS_Subset
<1>4. ASSUME q[3] < r[3], q \in DataRows
      PROVE  Cardinality(RowsBefore(q)) + 1 <= Cardinality(RowsBefore(r))
  <2>1. q \notin RowsBefore(q) /\ q \in RowsBefore(r)
    BY <1>1, <1>4 DEF RowsBefore
  <2>2. RowsBefore(q) \cup {q} \subseteq RowsBefore(r)
    BY <1>1, <1>2, <1>4, <2>1
  <2>3. Cardinality(RowsBefore(q) \cup {q}) = Cardinality(RowsBefore(q)) + 1
    BY <1>1, <2>1, FS_AddElement
  <2>4. QED BY <1>1, <2>2, <2>3, FS_Subset
<1>5. QED BY <1>3, <1>4

\* The key of a batch stands where a row could.
LEMMA KeyIsRow ==
  ASSUME PipelineInv, NEW r \in Row
  PROVE  BatchKey(r) \in Row
<1>1. /\ Cardinality(RowsBefore(r)) \in Nat /\ BatchRows \in Nat \ {0}
      /\ r[1] \in Nat /\ r[2] \in Nat
  BY CountRows, TypeFacts DEF Row
<1>2. Cardinality(RowsBefore(r)) \div BatchRows \in Nat
  BY <1>1, Division
<1>3. QED BY <1>1, <1>2 DEF BatchKey, Row

\* Later rows belong to the same batch or to a later one.
LEMMA KeysGrow ==
  ASSUME PipelineInv, NEW q \in Row, NEW r \in Row, Before(q, r)
  PROVE  BatchKey(q) = BatchKey(r) \/ Before(BatchKey(q), BatchKey(r))
<1> DEFINE m == Cardinality(RowsBefore(q))
           n == Cardinality(RowsBefore(r))
<1>1. /\ m \in Nat /\ n \in Nat /\ BatchRows \in Nat \ {0}
      /\ q[1] \in Nat /\ q[2] \in Nat /\ q[3] \in Nat
      /\ r[1] \in Nat /\ r[2] \in Nat /\ r[3] \in Nat
  BY CountRows, TypeFacts DEF Row
<1>2. BatchKey(q) = <<q[1], q[2], m \div BatchRows>> /\ BatchKey(r) = <<r[1], r[2], n \div BatchRows>>
  BY DEF BatchKey
<1>3. CASE q[1] = r[1] /\ q[2] = r[2]
  <2>1. q[3] <= r[3]
    BY <1>1, <1>3 DEF Before
  <2>2. m <= n
    BY <1>3, <2>1, CountGrows
  <2> HIDE DEF m, n
  <2>3. /\ m \div BatchRows <= n \div BatchRows
        /\ m \div BatchRows \in Nat /\ n \div BatchRows \in Nat
    BY <1>1, <2>2, QuotientGrows, Division
  <2> DEFINE x == m \div BatchRows
             y == n \div BatchRows
  <2> HIDE DEF x, y
  <2>4. BatchKey(q) = <<q[1], q[2], x>> /\ BatchKey(r) = <<r[1], r[2], y>> /\ x <= y /\ x \in Nat /\ y \in Nat
    BY <1>2, <2>3 DEF x, y
  <2>5. QED BY <1>3, <2>4 DEF Before
<1>4. CASE ~(q[1] = r[1] /\ q[2] = r[2])
  BY <1>1, <1>2, <1>4 DEF Before
<1>5. QED BY <1>3, <1>4

\* One record further there is at most one row more.
LEMMA NextRecord ==
  ASSUME PipelineInv, NEW r \in Row, NEW t \in Row,
         t[1] = r[1], t[2] = r[2], t[3] = r[3] + 1
  PROVE  LET m == Cardinality(RowsBefore(r))
             n == Cardinality(RowsBefore(t))
         IN  /\ r \notin DataRows => RowsBefore(t) = RowsBefore(r) /\ BatchKey(t) = BatchKey(r)
             /\ r \in DataRows =>
                  /\ RowsBefore(t) = RowsBefore(r) \cup {r}
                  /\ (m % BatchRows) + 1 < BatchRows =>
                       n % BatchRows = (m % BatchRows) + 1 /\ BatchKey(t) = BatchKey(r)
                  /\ (m % BatchRows) + 1 >= BatchRows =>
                       /\ n % BatchRows = 0
                       /\ \A q \in RowsOfKey(BatchKey(r)) : q \in RowsBefore(t)
<1> DEFINE m == Cardinality(RowsBefore(r))
           n == Cardinality(RowsBefore(t))
<1>1. /\ r[3] \in Nat /\ t[3] \in Nat /\ m \in Nat /\ n \in Nat
      /\ IsFiniteSet(RowsBefore(r)) /\ BatchRows \in Nat \ {0}
  BY CountRows, TypeFacts DEF Row
<1>2. ASSUME NEW q \in DataRows
      PROVE  q \in RowsBefore(t) <=> q \in RowsBefore(r) \/ q = r
  <2>1. /\ q = <<q[1], q[2], q[3]>> /\ r = <<r[1], r[2], r[3]>> /\ q[3] \in Nat
    BY DataRowIsRow DEF Row
  <2>2. q[3] < t[3] <=> q[3] < r[3] \/ q[3] = r[3]
    BY <1>1, <2>1
  <2>3. CASE q = r
    BY <1>1, <2>3 DEF RowsBefore
  <2>4. CASE q # r
    <3>1. ~(q[1] = r[1] /\ q[2] = r[2] /\ q[3] = r[3])
      BY <2>1, <2>4
    <3>2. QED BY <2>2, <2>4, <3>1 DEF RowsBefore
  <2>5. QED BY <2>3, <2>4
<1>3. RowsBefore(t) \subseteq DataRows /\ RowsBefore(r) \subseteq DataRows
  BY DEF RowsBefore
<1>4. /\ r \notin DataRows => RowsBefore(t) = RowsBefore(r)
      /\ r \in DataRows => RowsBefore(t) = RowsBefore(r) \cup {r}
  BY <1>2, <1>3
<1>5. CASE r \notin DataRows
  BY <1>4, <1>5 DEF BatchKey
<1>6. CASE r \in DataRows
  <2>1. r \notin RowsBefore(r)
    BY <1>1 DEF RowsBefore
  <2>2. n = m + 1
    BY <1>1, <1>4, <1>6, <2>1, FS_AddElement
  <2> DEFINE d == m \div BatchRows
             l == m % BatchRows
  <2>3. /\ l + 1 < BatchRows => n \div BatchRows = d /\ n % BatchRows = l + 1
        /\ l + 1 >= BatchRows => n \div BatchRows = d + 1 /\ n % BatchRows = 0
    <3> HIDE DEF m, n
    <3>1. QED BY <1>1, <2>2, QuotientStep
  <2>4. BatchKey(r) = <<r[1], r[2], d>> /\ BatchKey(t) = <<r[1], r[2], n \div BatchRows>> /\ d \in Nat
    <3>1. d \in Nat
      <4> HIDE DEF m
      <4>1. QED BY <1>1, Division
    <3>2. QED BY <3>1 DEF BatchKey
  <2>5. ASSUME l + 1 >= BatchRows, NEW q \in RowsOfKey(BatchKey(r))
        PROVE  q \in RowsBefore(t)
    <3> DEFINE k == Cardinality(RowsBefore(q))
    <3>1. q \in DataRows /\ BatchKey(q) = BatchKey(r)
      BY DEF RowsOfKey
    <3>2. q \in Row /\ k \in Nat /\ q[3] \in Nat
      BY <3>1, DataRowIsRow, CountRows DEF Row
    <3>3. q[1] = r[1] /\ q[2] = r[2] /\ k \div BatchRows = d
      BY <2>4, <3>1 DEF BatchKey
    <3>4. ~(t[3] <= q[3])
      <4>1. SUFFICES ASSUME t[3] <= q[3] PROVE FALSE
        OBVIOUS
      <4>2. n <= k
        BY <3>2, <3>3, <4>1, CountGrows
      <4> HIDE DEF k, n
      <4>3. n \div BatchRows <= k \div BatchRows
        BY <1>1, <3>2, <4>2, QuotientGrows DEF n
      <4> HIDE DEF d, l
      <4>4. QED BY <2>3, <2>4, <2>5, <3>3, <4>3
    <3>5. QED BY <1>1, <3>1, <3>2, <3>3, <3>4 DEF RowsBefore
  <2> HIDE DEF d, l, n
  <2>6. QED BY <1>4, <1>6, <2>3, <2>4, <2>5 DEF l, n
<1>7. QED BY <1>5, <1>6

\* Where a batch begins none of its rows is behind.
LEMMA FreshBatch ==
  ASSUME PipelineInv, NEW r \in Row, Cardinality(RowsBefore(r)) % BatchRows = 0
  PROVE  {q \in RowsBefore(r) : BatchKey(q) = BatchKey(r)} = {}
<1> DEFINE n == Cardinality(RowsBefore(r))
<1>1. SUFFICES ASSUME NEW q \in RowsBefore(r), BatchKey(q) = BatchKey(r) PROVE FALSE
  OBVIOUS
<1> DEFINE k == Cardinality(RowsBefore(q))
<1>2. q \in DataRows /\ q[1] = r[1] /\ q[2] = r[2] /\ q[3] < r[3]
  BY DEF RowsBefore
<1>3. q \in Row /\ k \in Nat /\ n \in Nat /\ BatchRows \in Nat \ {0}
  BY <1>2, DataRowIsRow, CountRows, TypeFacts
<1>4. k + 1 <= n
  BY <1>2, <1>3, CountGrows
<1>5. k \div BatchRows = n \div BatchRows
  BY <1>1 DEF BatchKey
<1> DEFINE c == n \div BatchRows
           x == k % BatchRows
<1>6. n % BatchRows = 0
  OBVIOUS
<1> HIDE DEF k, n
<1>7. /\ c \in Nat /\ n = BatchRows * c + (n % BatchRows)
      /\ x \in Nat /\ k = BatchRows * (k \div BatchRows) + x
  BY <1>3, Division
<1> HIDE DEF c, x
<1>8. n = BatchRows * c /\ k = BatchRows * c + x /\ BatchRows * c \in Nat
  BY <1>3, <1>5, <1>6, <1>7 DEF c
<1>9. QED BY <1>3, <1>4, <1>7, <1>8

\* No row stands in front of the first record of a file.
LEMMA FileStart ==
  ASSUME PipelineInv, NEW t, t[3] = 1
  PROVE  RowsBefore(t) = {} /\ Cardinality(RowsBefore(t)) % BatchRows = 0
<1>1. ASSUME NEW q \in RowsBefore(t) PROVE FALSE
  <2>1. q \in DataRows /\ q[3] < 1
    BY DEF RowsBefore
  <2>2. PICK w \in Sources : \E f \in DOMAIN input[w] : \E i \in DOMAIN input[w][f] : q = <<w, f, i>>
    BY <2>1, DataRow
  <2>3. PICK f \in DOMAIN input[w] : \E i \in DOMAIN input[w][f] : q = <<w, f, i>>
    BY <2>2
  <2>4. PICK i \in DOMAIN input[w][f] : q = <<w, f, i>>
    BY <2>3
  <2>5. i \in 1 .. Len(input[w][f]) /\ Len(input[w][f]) \in Nat
    BY InputFacts
  <2>6. q[3] = i /\ i >= 1
    BY <2>4, <2>5
  <2>7. QED BY <2>1, <2>5, <2>6
<1>2. RowsBefore(t) = {} /\ Cardinality(RowsBefore(t)) = 0
  BY <1>1, FS_EmptySet
<1>3. BatchRows \in Nat \ {0} /\ BatchRows * 0 = 0
  BY TypeFacts
<1>4. BatchRows * 0 <= 0 /\ 0 < BatchRows * 0 + BatchRows /\ 0 - BatchRows * 0 = 0
  BY <1>3
<1>5. 0 % BatchRows = 0
  BY <1>3, <1>4, Quotient
<1>6. QED BY <1>2, <1>5

\* At the end of a file all its rows are behind.
LEMMA FileRead ==
  ASSUME PipelineInv, NEW s \in Sources, pos[s] > Len(input[s][file[s]]), NEW q \in DataRows,
         q[1] = s, q[2] = file[s]
  PROVE  q \in RowsBefore(Here(s))
<1>1. PICK t \in Sources : \E f \in DOMAIN input[t] : \E i \in DOMAIN input[t][f] : q = <<t, f, i>>
  BY DataRow
<1>2. PICK f \in DOMAIN input[t] : \E i \in DOMAIN input[t][f] : q = <<t, f, i>>
  BY <1>1
<1>3. PICK i \in DOMAIN input[t][f] : q = <<t, f, i>>
  BY <1>2
<1>4. t = s /\ f = file[s] /\ q[3] = i
  BY <1>3
<1>5. Len(input[s][f]) \in Nat /\ i \in 1 .. Len(input[s][f]) /\ pos[s] \in Nat
  BY <1>4, InputFacts, TypeFacts
<1>6. q[3] < pos[s]
  BY <1>4, <1>5
<1>7. QED BY <1>6 DEF RowsBefore, Here

\* Batches are cut the same way in every state.
LEMMA BatchesFixed ==
  ASSUME input' = input
  PROVE  /\ DataRows' = DataRows /\ Sources' = Sources
         /\ \A r : RowsBefore(r)' = RowsBefore(r)
         /\ \A r : BatchKey(r)' = BatchKey(r)
         /\ \A k : RowsOfKey(k)' = RowsOfKey(k)
<1>1. DataRows' = DataRows /\ Sources' = Sources
  BY InputFixed
<1>2. \A r : RowsBefore(r)' = RowsBefore(r)
  BY <1>1 DEF RowsBefore
<1>3. \A r : BatchKey(r)' = BatchKey(r)
  BY <1>2 DEF BatchKey
<1>4. \A k : RowsOfKey(k)' = RowsOfKey(k)
  BY <1>1, <1>3 DEF RowsOfKey
<1>5. QED BY <1>1, <1>2, <1>3, <1>4


-----------------------------------------------------------------------------
(* What a reader holds of the batch it stands in.                           *)

\* Building, for a reader that stands at t.
BuildingAt(s, t) ==
  LET atEnd == t[3] > Len(input[s][t[2]])
      n     == Cardinality(RowsBefore(t))
  IN  /\ wpc'[s] = "reading" =>
           \/ atEnd /\ rows'[s] = <<>>
           \/ /\ n % BatchRows = Len(rows'[s])
              /\ RowSet(rows'[s]) = {q \in RowsBefore(t) : BatchKey(q) = BatchKey(t)}
      /\ wpc'[s] = "sending" =>
           /\ \A r \in RowSet(rows'[s]) : RowSet(rows'[s]) = RowsOfKey(BatchKey(r)) /\ r[1] = s
           /\ atEnd \/ n % BatchRows = 0

\* The batch in hand, said of where the reader is after the step.
LEMMA BuildingNext ==
  ASSUME input' = input, NEW s \in Sources, NEW t, t = <<s, file'[s], pos'[s]>>
  PROVE  BuildingAt(s, t) => Building(s)'
<1>1. /\ DataRows' = DataRows /\ \A q : BatchKey(q)' = BatchKey(q)
      /\ \A k : RowsOfKey(k)' = RowsOfKey(k)
  BY BatchesFixed
<1>2. t[1] = s /\ t[2] = file'[s] /\ t[3] = pos'[s] /\ Here(s)' = t
  BY DEF Here
<1>3. RowsBefore(Here(s))' = RowsBefore(t)
  BY <1>1, <1>2 DEF RowsBefore
<1>4. BatchKey(Here(s))' = BatchKey(t)
  BY <1>2, <1>3 DEF BatchKey
<1>5. RowSet(rows[s])' = RowSet(rows'[s])
  BY DEF RowSet
<1>6. ASSUME \A r \in RowSet(rows'[s]) : RowSet(rows'[s]) = RowsOfKey(BatchKey(r)) /\ r[1] = s
      PROVE  Whole(BatchOf(s))'
  <2>1. /\ BatchOf(s)'.rows = rows'[s] /\ BatchOf(s)'.source = s
    BY DEF BatchOf
  <2>2. RowSet(BatchOf(s).rows)' = RowSet(rows'[s])
    BY <2>1 DEF RowSet
  <2>3. \A r : RowsOfKey(BatchKey(r))' = RowsOfKey(BatchKey(r))
    BY <1>1 DEF RowsOfKey
  <2>4. QED BY <1>6, <2>1, <2>2, <2>3 DEF Whole
<1>7. QED BY <1>1, <1>2, <1>3, <1>4, <1>5, <1>6 DEF Building, BuildingAt


LEMMA ReaderKeepsBuilding ==
  ASSUME PipelineInv, VerdictInv, NEW s \in Sources, Reader(s), NEW u \in Sources
  PROVE  Building(u)'
<1> USE TypeFacts
<1>1. input' = input /\ Building(s) /\ Building(u)
  BY ReaderLocal DEF VerdictInv
<1>2. ReaderBound(s)
  BY DEF PipelineInv, ReaderBounds
<1>3. CASE u # s
  <2>1. UNCHANGED <<rows[u], file[u], pos[u], wpc[u]>>
    BY <1>3, ReaderKeepsPassed
  <2>2. PICK t : t = <<u, file'[u], pos'[u]>>
    OBVIOUS
  <2>3. t = Here(u) /\ t[2] = file[u] /\ t[3] = pos[u]
    BY <2>1, <2>2 DEF Here
  <2>4. BuildingAt(u, t)
    BY <1>1, <2>1, <2>3 DEF Building, BuildingAt, Whole, BatchOf
  <2>5. QED BY <1>1, <2>2, <2>4, BuildingNext
<1> SUFFICES ASSUME u = s PROVE Building(s)'
  BY <1>3
<1>4. PICK t : t = <<s, file'[s], pos'[s]>>
  OBVIOUS
<1>5. t[1] = s /\ t[2] = file'[s] /\ t[3] = pos'[s]
  BY <1>4
<1> SUFFICES BuildingAt(s, t)
  BY <1>1, <1>4, BuildingNext
<1>6. CASE StepRead(s)
  <2> DEFINE r == Here(s)
             m == Cardinality(RowsBefore(r))
             n == Cardinality(RowsBefore(t))
  <2>1. /\ r \in Row /\ r = <<s, file[s], pos[s]>>
        /\ wpc[s] = "reading" /\ pos[s] <= Len(input[s][file[s]])
        /\ file'[s] = file[s] /\ pos'[s] = pos[s] + 1
    BY <1>6, ReadRows DEF StepRead, Here
  <2>2. s \in Nat /\ file[s] \in Nat /\ pos[s] \in Nat
    BY InputFacts
  <2>3. t \in Row /\ t[1] = r[1] /\ t[2] = r[2] /\ t[3] = r[3] + 1
    <3>1. r[1] = s /\ r[2] = file[s] /\ r[3] = pos[s]
      BY <2>1
    <3>2. t = <<s, file[s], pos[s] + 1>>
      BY <1>4, <2>1
    <3>3. pos[s] + 1 \in Nat
      BY <2>2
    <3> HIDE DEF r
    <3>4. QED BY <3>1, <3>2, <3>3, <2>2 DEF Row
  <2>4. Len(input[s][file[s]]) \in Nat
    BY <1>2, InputFacts DEF ReaderBound
  <2>5. /\ m % BatchRows = Len(rows[s])
        /\ RowSet(rows[s]) = {q \in RowsBefore(r) : BatchKey(q) = BatchKey(r)}
    <3> DEFINE k == Len(input[s][file[s]])
    <3>1. k \in Nat /\ pos[s] \in Nat /\ pos[s] <= k
      BY <2>1, <2>2, <2>4, Zenon
    <3>2. wpc[s] = "reading" /\ (~(pos[s] > k) => ~(pos[s] > Len(input[s][file[s]])))
      BY <2>1, Zenon
    <3> HIDE DEF k
    <3>3. ~(pos[s] > k)
      BY <3>1
    <3>4. QED BY <1>1, <3>2, <3>3, Zenon DEF Building
  <2>6. /\ r \notin DataRows => RowsBefore(t) = RowsBefore(r) /\ BatchKey(t) = BatchKey(r)
        /\ r \in DataRows =>
             /\ RowsBefore(t) = RowsBefore(r) \cup {r}
             /\ (m % BatchRows) + 1 < BatchRows =>
                  n % BatchRows = (m % BatchRows) + 1 /\ BatchKey(t) = BatchKey(r)
             /\ (m % BatchRows) + 1 >= BatchRows =>
                  /\ n % BatchRows = 0
                  /\ \A q \in RowsOfKey(BatchKey(r)) : q \in RowsBefore(t)
    BY <2>1, <2>3, NextRecord
  <2> HIDE DEF r, m, n
  <2>7. CASE ReadHeader(s)
    <3>1. wpc' = wpc /\ rows' = rows /\ IsHeader(s, file[s], pos[s])
      BY <2>7 DEF ReadHeader
    <3>2. r \notin DataRows
      BY <2>1, <3>1, DataRow
    <3>3. n = m /\ BatchKey(t) = BatchKey(r) /\ RowsBefore(t) = RowsBefore(r)
      BY <2>6, <3>2 DEF m, n
    <3>4. n % BatchRows = Len(rows'[s])
      BY <2>5, <3>1, <3>3
    <3>5. RowSet(rows'[s]) = {q \in RowsBefore(t) : BatchKey(q) = BatchKey(t)}
      BY <2>5, <3>1, <3>3
    <3>6. wpc'[s] = "reading"
      BY <2>1, <3>1
    <3>7. QED BY <3>4, <3>5, <3>6 DEF BuildingAt, n
  <2>8. CASE ReadRow(s)
    <3>1. /\ rows'[s] = Append(rows[s], r) /\ ~IsHeader(s, file[s], pos[s])
          /\ wpc'[s] = IF Len(rows[s]) + 1 >= BatchRows THEN "sending" ELSE "reading"
          /\ rows[s] \in Seq(Row) /\ Len(rows[s]) \in Nat
      <4>1. rows[s] \in Seq(Row) /\ Len(rows[s]) \in Nat
        BY TypeFacts, LenProperties
      <4>2. /\ s \in DOMAIN rows /\ s \in DOMAIN wpc
        BY TypeFacts
      <4>3. QED BY <2>1, <2>8, <4>1, <4>2, Zenon DEF ReadRow
    <3>2. r \in DataRows
      <4>1. pos[s] \in DOMAIN input[s][file[s]]
        <5> DEFINE k == Len(input[s][file[s]])
        <5>1. pos[s] \in 1 .. k + 1 /\ pos[s] <= k /\ DOMAIN input[s][file[s]] = 1 .. k /\ k \in Nat
          BY <1>2, <2>1, <2>4, InputFacts DEF ReaderBound
        <5> HIDE DEF k
        <5>2. QED BY <2>2, <5>1
      <4>2. QED BY <1>2, <2>1, <3>1, <4>1, DataRow DEF ReaderBound
    <3>3. RowSet(rows'[s]) = RowSet(rows[s]) \cup {r} /\ Len(rows'[s]) = Len(rows[s]) + 1
      <4>1. RowSet(rows'[s]) = RowSet(rows[s]) \cup {r}
        BY <2>1, <3>1, AppendRow
      <4>2. Len(Append(rows[s], r)) = Len(rows[s]) + 1
        BY <3>1, LenProperties
      <4>3. QED BY <3>1, <4>1, <4>2
    <3>4. CASE Len(rows[s]) + 1 < BatchRows
      <4>1. wpc'[s] = "reading"
        BY <3>1, <3>4
      <4>2. n % BatchRows = Len(rows'[s]) /\ BatchKey(t) = BatchKey(r)
        BY <2>5, <2>6, <3>2, <3>3, <3>4
      <4>3. RowSet(rows'[s]) = {q \in RowsBefore(t) : BatchKey(q) = BatchKey(t)}
        BY <2>5, <2>6, <3>2, <3>3, <4>2
      <4>4. QED BY <4>1, <4>2, <4>3 DEF BuildingAt, n
    <3>5. CASE Len(rows[s]) + 1 >= BatchRows
      <4>1. wpc'[s] = "sending"
        BY <3>1, <3>5
      <4>2. n % BatchRows = 0 /\ \A q \in RowsOfKey(BatchKey(r)) : q \in RowsBefore(t)
        BY <2>5, <2>6, <3>2, <3>5
      <4>3. RowSet(rows'[s]) = {q \in RowsBefore(t) : BatchKey(q) = BatchKey(r)}
        BY <2>5, <2>6, <3>2, <3>3
      <4>4. RowsOfKey(BatchKey(r)) = RowSet(rows'[s])
        BY <4>2, <4>3 DEF RowsOfKey, RowsBefore
      <4>5. ASSUME NEW q \in RowSet(rows'[s])
            PROVE  RowSet(rows'[s]) = RowsOfKey(BatchKey(q)) /\ q[1] = s
        BY <1>5, <4>3, <4>4 DEF RowsBefore
      <4>6. QED BY <4>1, <4>2, <4>5 DEF BuildingAt, n
    <3>6. QED BY <3>1, <3>4, <3>5
  <2>9. ReadHeader(s) \/ ReadRow(s)
    <3>1. pos'[s] # pos[s] /\ wpc[s] = "reading" /\ pos[s] <= Len(input[s][file[s]])
      BY <2>1, <2>2
    <3>2. ~ReadBad(s) /\ ~FlushFile(s) /\ ~SendBatch(s) /\ ~SendError(s) /\ ~SendFails(s) /\ ~ReaderPanics(s)
      BY <3>1 DEF ReadBad, FlushFile, SendBatch, SendError, SendFails, ReaderPanics
    <3>3. ~NextFile(s)
      <4> DEFINE k == Len(input[s][file[s]])
      <4>1. k \in Nat /\ pos[s] \in Nat /\ pos[s] <= k
        BY <2>2, <2>4, <3>1, Zenon
      <4>2. NextFile(s) => pos[s] > k
        BY Zenon DEF NextFile, FileEnds
      <4> HIDE DEF k
      <4>3. QED BY <4>1, <4>2
    <3>4. QED BY <3>2, <3>3 DEF Reader
  <2>10. QED BY <2>7, <2>8, <2>9
<1>7. CASE StepDrop(s)
  BY <1>7 DEF StepDrop, BuildingAt
<1>8. CASE StepTurn(s)
  <2>1. /\ rows'[s] = rows[s] /\ pos[s] > Len(input[s][file[s]]) /\ wpc[s] = "reading"
    BY <1>8 DEF StepTurn
  <2>2. CASE wpc'[s] = "sending"
    <3>1. /\ t = Here(s) /\ t[3] > Len(input[s][t[2]])
      BY <1>4, <1>5, <1>8, <2>1, <2>2 DEF StepTurn, Here
    <3>2. \/ rows[s] = <<>>
          \/ RowSet(rows[s]) = {q \in RowsBefore(t) : BatchKey(q) = BatchKey(t)}
      BY <1>1, <2>1, <3>1 DEF Building
    <3>3. ASSUME NEW r \in RowSet(rows[s])
          PROVE  RowSet(rows[s]) = RowsOfKey(BatchKey(r)) /\ r[1] = s
      <4>1. RowSet(rows[s]) = {q \in RowsBefore(t) : BatchKey(q) = BatchKey(t)}
        BY <3>2, <3>3, EmptyRows
      <4>2. r[1] = s /\ r[2] = file[s] /\ r \in DataRows /\ BatchKey(r) = BatchKey(t)
        BY <3>1, <4>1 DEF RowsBefore, Here
      <4>3. ASSUME NEW q \in DataRows, BatchKey(q) = BatchKey(r) PROVE q \in RowsBefore(t)
        <5>1. q[1] = s /\ q[2] = file[s]
          BY <4>2, <4>3, BatchOrder
        <5>2. QED BY <2>1, <3>1, <5>1, FileRead
      <4>4. RowSet(rows[s]) = RowsOfKey(BatchKey(r))
        BY <4>1, <4>2, <4>3 DEF RowsOfKey, RowsBefore
      <4>5. QED BY <4>2, <4>4
    <3>4. QED BY <2>1, <2>2, <3>1, <3>3 DEF BuildingAt
  <2>3. CASE wpc'[s] = "reading"
    <3>1. NextFile(s) /\ file'[s] = file[s] + 1 /\ pos'[s] = 1
      BY <1>8, <2>3 DEF StepTurn, Reader, ReadHeader, ReadRow, ReadBad, FlushFile, SendBatch,
                        SendError, SendFails, ReaderPanics, More
    <3>2. rows'[s] = <<>>
      BY <2>1, <3>1 DEF NextFile
    <3>3. RowsBefore(t) = {} /\ Cardinality(RowsBefore(t)) % BatchRows = 0
      BY <1>5, <3>1, FileStart
    <3>4. Len(rows'[s]) = 0 /\ RowSet(rows'[s]) = {}
      BY <3>2, EmptyRows
    <3>5. QED BY <2>3, <3>3, <3>4 DEF BuildingAt
  <2>4. QED BY <1>8, <2>2, <2>3 DEF StepTurn, BuildingAt
<1>9. CASE StepSend(s)
  <2>1. CASE wpc'[s] = "reading"
    <3>1. /\ wpc[s] = "sending" /\ rows'[s] = <<>> /\ t = Here(s)
      BY <1>4, <1>9, <2>1 DEF StepSend, Here
    <3>2. \/ t[3] > Len(input[s][t[2]])
          \/ Cardinality(RowsBefore(t)) % BatchRows = 0
      BY <1>1, <3>1 DEF Building, Here
    <3>3. Len(rows'[s]) = 0 /\ RowSet(rows'[s]) = {}
      BY <3>1, EmptyRows
    <3>4. t \in Row
      BY <3>1, InputFacts DEF Here, Row
    <3>5. Cardinality(RowsBefore(t)) % BatchRows = 0 =>
            {q \in RowsBefore(t) : BatchKey(q) = BatchKey(t)} = {}
      BY <3>4, FreshBatch
    <3>6. QED BY <2>1, <3>1, <3>2, <3>3, <3>5 DEF BuildingAt
  <2>2. QED BY <1>9, <2>1 DEF StepSend, BuildingAt
<1>10. QED BY <1>6, <1>7, <1>8, <1>9, ReaderSteps


LEMMA OthersKeepBuilding ==
  ASSUME PipelineInv, VerdictInv, Producer \/ Main, NEW u \in Sources
  PROVE  Building(u)'
<1>1. input' = input /\ Building(u) /\ UNCHANGED <<rows, file, pos>>
  BY ProducerLocal, MainLocal DEF VerdictInv
<1>2. PICK t : t = <<u, file'[u], pos'[u]>>
  OBVIOUS
<1>3. t = Here(u) /\ t[2] = file[u] /\ t[3] = pos[u]
  BY <1>1, <1>2 DEF Here
<1> SUFFICES BuildingAt(u, t)
  BY <1>1, <1>2, BuildingNext
<1>4. CASE wpc'[u] = wpc[u]
  BY <1>1, <1>3, <1>4 DEF Building, BuildingAt, Whole, BatchOf
<1>5. CASE wpc'[u] # wpc[u]
  <2>1. SpawnChunk
    BY <1>5, ProducerLocal, MainLocal
  <2>2. u \in Chunk /\ wpc'[u] = "reading"
    BY <1>5, <2>1, TypeFacts DEF SpawnChunk
  <2>3. wpc[u] = "unborn"
    <3>1. first <= u /\ producer = "spawn"
      BY <2>1, <2>2 DEF SpawnChunk, Chunk
    <3>2. QED BY <3>1, InputFacts, TypeFacts DEF PipelineInv, ProducerAt, Begun
  <2>4. pos[u] = 1 /\ rows[u] = <<>>
    BY <2>3 DEF PipelineInv, ReaderBounds, ReaderBound
  <2>5. RowsBefore(t) = {} /\ Cardinality(RowsBefore(t)) % BatchRows = 0
    BY <1>3, <2>4, FileStart
  <2>6. Len(rows'[u]) = 0 /\ RowSet(rows'[u]) = {}
    BY <1>1, <2>4, EmptyRows
  <2>7. QED BY <2>2, <2>5, <2>6 DEF BuildingAt
<1>6. QED BY <1>4, <1>5


-----------------------------------------------------------------------------
(* Messages carry whole batches.                                            *)

LEMMA NoRowsWhole == \A m : m.rows = <<>> => Whole(m)
BY EmptyRows DEF Whole

\* A message that was whole stays so wherever it is put.
LEMMA WholeNext ==
  ASSUME input' = input
  PROVE  /\ \A m : Whole(m) /\ batch' = m => Whole(batch)'
         /\ \A m : Whole(m) /\ parcel' = m => Whole(parcel)'
         /\ \A m, i : Whole(m) /\ queue'[i] = m => Whole(queue[i])'
         /\ \A m, s, i : Whole(m) /\ out'[s][i] = m => Whole(out[s][i])'
<1>1. \A r : RowsOfKey(BatchKey(r))' = RowsOfKey(BatchKey(r))
  BY BatchesFixed DEF RowsOfKey
<1>2. \A m : Whole(m) /\ batch' = m => Whole(batch)'
  <2>1. RowSet(batch.rows)' = RowSet(batch'.rows)
    BY DEF RowSet
  <2>2. QED BY <1>1, <2>1 DEF Whole
<1>3. \A m : Whole(m) /\ parcel' = m => Whole(parcel)'
  <2>1. RowSet(parcel.rows)' = RowSet(parcel'.rows)
    BY DEF RowSet
  <2>2. QED BY <1>1, <2>1 DEF Whole
<1>4. \A m, i : Whole(m) /\ queue'[i] = m => Whole(queue[i])'
  <2>1. \A i : RowSet(queue[i].rows)' = RowSet(queue'[i].rows)
    BY DEF RowSet
  <2>2. QED BY <1>1, <2>1 DEF Whole
<1>5. \A m, s, i : Whole(m) /\ out'[s][i] = m => Whole(out[s][i])'
  <2>1. \A s, i : RowSet(out[s][i].rows)' = RowSet(out'[s][i].rows)
    BY DEF RowSet
  <2>2. QED BY <1>1, <2>1 DEF Whole
<1>6. QED BY <1>2, <1>3, <1>4, <1>5

LEMMA ReaderKeepsWhole ==
  ASSUME PipelineInv, VerdictInv, NEW s \in Sources, Reader(s)
  PROVE  BatchesWhole'
<1>1. input' = input /\ BatchesWhole /\ Building(s)
  BY ReaderLocal DEF VerdictInv
<1>2. /\ UNCHANGED <<batch, queue, parcel, Sources>>
      /\ \A t \in Sources \ {s} : UNCHANGED out[t]
  BY ReaderKeepsPassed
<1>3. Whole(batch)' /\ Whole(parcel)' /\ (\A i \in DOMAIN queue : Whole(queue[i]))'
  BY <1>1, <1>2, WholeNext DEF BatchesWhole
<1>4. ASSUME NEW t \in Sources, NEW i \in DOMAIN out'[t] PROVE Whole(out[t][i])'
  <2>1. CASE out'[t] = out[t]
    BY <1>1, <1>4, <2>1, WholeNext DEF BatchesWhole
  <2>2. CASE out'[t] # out[t]
    <3>1. t = s /\ StepSend(s)
      BY <1>2, <2>2, ReaderSteps DEF StepRead, StepDrop, StepTurn
    <3>2. CASE wpc[s] = "sending"
      <4>1. out'[s] = <<BatchOf(s)>> /\ Whole(BatchOf(s))
        BY <1>1, <3>1, <3>2 DEF StepSend, Building
      <4>2. i = 1 /\ out'[s][i] = BatchOf(s)
        BY <1>4, <3>1, <4>1
      <4>3. QED BY <1>1, <3>1, <4>1, <4>2, WholeNext
    <3>3. CASE wpc[s] # "sending"
      <4>1. out'[s] = <<ErrorOf(s)>>
        BY <3>1, <3>3 DEF StepSend
      <4>2. i = 1 /\ out'[s][i] = ErrorOf(s)
        BY <1>4, <3>1, <4>1
      <4>3. Whole(ErrorOf(s))
        BY NoRowsWhole DEF ErrorOf
      <4>4. QED BY <1>1, <3>1, <4>2, <4>3, WholeNext
    <3>4. QED BY <3>2, <3>3
  <2>3. QED BY <2>1, <2>2
<1>5. QED BY <1>2, <1>3, <1>4 DEF BatchesWhole

LEMMA ProducerKeepsWhole ==
  ASSUME PipelineInv, VerdictInv, Producer
  PROVE  BatchesWhole'
<1>1. input' = input /\ BatchesWhole /\ batch' = batch /\ Sources' = Sources
  BY ProducerLocal, BatchesFixed DEF VerdictInv
<1>2. Whole(batch)'
  BY <1>1, WholeNext DEF BatchesWhole
<1>3. CASE Receive
  <2>1. /\ cur \in Sources /\ parcel' = out[cur][1] /\ DOMAIN out[cur] = {1}
        /\ out'[cur] = <<>> /\ queue' = queue
        /\ \A t \in Sources : t # cur => UNCHANGED out[t]
    BY <1>3, ReceiveRows
  <2>2. Whole(parcel)' /\ (\A i \in DOMAIN queue : Whole(queue[i]))'
    BY <1>1, <2>1, WholeNext DEF BatchesWhole
  <2>3. ASSUME NEW t \in Sources, NEW i \in DOMAIN out'[t] PROVE Whole(out[t][i])'
    BY <1>1, <2>1, <2>3, WholeNext DEF BatchesWhole
  <2>4. QED BY <1>1, <1>2, <2>2, <2>3 DEF BatchesWhole
<1>4. CASE Forward
  <2>1. /\ parcel' = Nothing /\ DOMAIN queue' = 1 .. Len(queue) + 1
        /\ DOMAIN queue = 1 .. Len(queue) /\ Len(queue) \in Nat
        /\ queue'[Len(queue) + 1] = parcel /\ \A i \in DOMAIN queue : queue'[i] = queue[i]
    BY <1>4, ForwardRows DEF Forward
  <2>2. Whole(parcel)'
    BY <1>1, <2>1, WholeNext, NoRowsWhole, MessageFacts
  <2>3. ASSUME NEW i \in DOMAIN queue' PROVE Whole(queue[i])'
    <3>1. i = Len(queue) + 1 \/ i \in DOMAIN queue
      BY <2>1
    <3>2. QED BY <1>1, <2>1, <3>1, WholeNext DEF BatchesWhole
  <2>4. ASSUME NEW t \in Sources, NEW i \in DOMAIN out'[t] PROVE Whole(out[t][i])'
    <3>1. out'[t] = out[t] \/ out'[t] = <<>>
      BY <1>4, Zenon DEF Forward, DropReceivers
    <3>2. QED BY <1>1, <2>4, <3>1, WholeNext DEF BatchesWhole
  <2>5. QED BY <1>1, <1>2, <2>2, <2>3, <2>4 DEF BatchesWhole
<1>5. CASE ~Receive /\ ~Forward
  <2>1. /\ queue' = queue /\ parcel' \in {parcel, Nothing}
        /\ \A t \in Sources : out'[t] = out[t] \/ out'[t] = <<>>
    BY <1>5, ProducerRows
  <2>2. Whole(parcel)' /\ (\A i \in DOMAIN queue : Whole(queue[i]))'
    BY <1>1, <2>1, WholeNext, NoRowsWhole, MessageFacts DEF BatchesWhole
  <2>3. ASSUME NEW t \in Sources, NEW i \in DOMAIN out'[t] PROVE Whole(out[t][i])'
    BY <1>1, <2>1, <2>3, WholeNext DEF BatchesWhole
  <2>4. QED BY <1>1, <1>2, <2>2, <2>3 DEF BatchesWhole
<1>6. QED BY <1>3, <1>4, <1>5

LEMMA MainKeepsWhole ==
  ASSUME PipelineInv, VerdictInv, Main
  PROVE  BatchesWhole'
<1>1. input' = input /\ BatchesWhole /\ UNCHANGED <<parcel, out, Sources>>
  BY MainLocal, BatchesFixed DEF VerdictInv
<1>2. Whole(parcel)' /\ (\A t \in Sources : \A i \in DOMAIN out[t] : Whole(out[t][i]))'
  BY <1>1, WholeNext DEF BatchesWhole
<1>3. Whole(batch)'
  <2>1. \/ batch' = batch \/ batch' = Nothing \/ (1 \in DOMAIN queue /\ batch' = queue[1])
    <3>1. CASE Take
      BY <3>1, TakeRows, QueueTail, TypeFacts DEF Take
    <3>2. CASE ~Take
      BY <3>2 DEF Main, AppendBatch, AppendFails, InputEnds, Close, JoinProducer
    <3>3. QED BY <3>1, <3>2
  <2>2. QED BY <1>1, <2>1, WholeNext, NoRowsWhole, MessageFacts DEF BatchesWhole
<1>4. ASSUME NEW i \in DOMAIN queue' PROVE Whole(queue[i])'
  <2>1. CASE Take
    BY <1>1, <1>4, <2>1, TakeRows, WholeNext DEF BatchesWhole
  <2>2. CASE ~Take
    <3>1. queue' = queue \/ queue' = <<>>
      BY <2>2 DEF Main, AppendBatch, AppendFails, InputEnds, Close, JoinProducer, channels
    <3>2. QED BY <1>1, <1>4, <3>1, WholeNext DEF BatchesWhole
  <2>3. QED BY <2>1, <2>2
<1>5. QED BY <1>1, <1>2, <1>3, <1>4 DEF BatchesWhole


-----------------------------------------------------------------------------
(* Errors tell the truth.                                                   *)

\* What is said of a reader is still true when it has not moved.
Still(t) == wpc'[t] = wpc[t] /\ file'[t] = file[t] /\ pos'[t] = pos[t]

\* A reader that stands still stays halted.
LEMMA HaltedNext ==
  ASSUME input' = input
  PROVE  /\ \A t : Still(t) => (BadAt(t)' <=> BadAt(t)) /\ (Halted(t)' <=> Halted(t))
         /\ \A t : Still(t) /\ Halted(t) /\ cur' = t => Halted(cur)'
         /\ \A t, i : Still(t) /\ Halted(t) /\ queue'[i].source = t => Halted(queue[i].source)'
<1>1. DataRows' = DataRows /\ \A r : KindOf(r)' = KindOf(r)
  BY InputFixed
<1>2. \A t : Still(t) => (BadAt(t)' <=> BadAt(t)) /\ (Halted(t)' <=> Halted(t))
  <2>1. SUFFICES ASSUME NEW t, Still(t)
                 PROVE  (BadAt(t)' <=> BadAt(t)) /\ (Halted(t)' <=> Halted(t))
    OBVIOUS
  <2>2. Here(t)' = Here(t)
    BY <2>1 DEF Still, Here
  <2>3. KindOf(Here(t))' = KindOf(Here(t))
    BY <2>1 DEF Still, Here, KindOf
  <2>4. BadAt(t)' <=> BadAt(t)
    BY <1>1, <2>2, <2>3 DEF BadAt
  <2>5. QED BY <2>1, <2>4 DEF Halted, Still
<1>3. \A t : Still(t) /\ Halted(t) /\ cur' = t => Halted(cur)'
  BY <1>1 DEF Still, Halted, BadAt, Here, KindOf
<1>4. \A t, i : Still(t) /\ Halted(t) /\ queue'[i].source = t => Halted(queue[i].source)'
  BY <1>1 DEF Still, Halted, BadAt, Here, KindOf
<1>5. QED BY <1>2, <1>3, <1>4

LEMMA ReaderKeepsErrors ==
  ASSUME PipelineInv, VerdictInv, NEW s \in Sources, Reader(s)
  PROVE  ErrorsTrue'
<1>1. input' = input /\ ErrorsTrue /\ wpc[s] \in {"reading", "sending", "failing"}
  BY ReaderLocal DEF VerdictInv
<1>2. /\ UNCHANGED <<queue, parcel, cur, producer, Sources>>
      /\ \A t \in Sources : t # s => Still(t) /\ out'[t] = out[t]
  BY ReaderKeepsPassed DEF Still
<1>3. \A t \in Sources : Halted(t) => Still(t)
  BY <1>1, <1>2 DEF Halted
<1>4. /\ ~Holds(s) /\ \A i \in DOMAIN out[s] : out[s][i].kind # "error"
  BY <1>1 DEF ErrorsTrue, Halted, Holds
<1>5. wpc'[s] = "failing" => BadAt(s)'
  <2>1. SUFFICES ASSUME wpc'[s] = "failing" PROVE BadAt(s)'
    OBVIOUS
  <2>2. ReadBad(s)
    BY <2>1, TypeFacts
       DEF Reader, ReadHeader, ReadRow, FlushFile, NextFile, SendBatch, SendError, SendFails, ReaderPanics, More, FileEnds
  <2>3. UNCHANGED <<file[s], pos[s]>> /\ KindOf(Here(s)) = "bad" /\ ~IsHeader(s, file[s], pos[s])
    BY <2>2 DEF ReadBad, KindOf, Here
  <2>4. file[s] \in DOMAIN input[s] /\ pos[s] \in DOMAIN input[s][file[s]]
    <3> DEFINE k == Len(input[s][file[s]])
    <3>1. /\ file[s] \in DOMAIN input[s] /\ pos[s] \in 1 .. k + 1
      BY DEF PipelineInv, ReaderBounds, ReaderBound
    <3>2. pos[s] <= k /\ DOMAIN input[s][file[s]] = 1 .. k /\ k \in Nat
      BY <2>2, <3>1, InputFacts DEF ReadBad, More
    <3> HIDE DEF k
    <3>3. QED BY <3>1, <3>2
  <2>5. BadAt(s)
    BY <2>3, <2>4, DataRow DEF BadAt, Here
  <2>6. Here(s)' = Here(s) /\ KindOf(Here(s))' = KindOf(Here(s)) /\ DataRows' = DataRows
    BY <1>1, <2>3, InputFixed DEF Here, KindOf
  <2>7. QED BY <2>5, <2>6 DEF BadAt
<1>6. Holds(s)' => Halted(s)'
  <2>1. SUFFICES ASSUME Holds(s)' PROVE Halted(s)'
    OBVIOUS
  <2>2. PICK i \in DOMAIN out'[s] : out'[s][i].kind = "error"
    BY <2>1 DEF Holds
  <2>3. StepSend(s)
    BY <1>4, <2>2, ReaderSteps DEF StepRead, StepDrop, StepTurn
  <2>4. wpc[s] = "failing" /\ wpc'[s] = "exited"
    BY <2>2, <2>3 DEF StepSend, BatchOf
  <2>5. BadAt(s) /\ UNCHANGED <<file[s], pos[s]>>
    BY <1>1, <2>3, <2>4 DEF ErrorsTrue, StepSend
  <2>6. Here(s)' = Here(s) /\ KindOf(Here(s))' = KindOf(Here(s)) /\ DataRows' = DataRows
    BY <1>1, <2>5, InputFixed DEF Here, KindOf
  <2>7. QED BY <2>4, <2>5, <2>6 DEF BadAt, Halted
<1>7. ASSUME NEW t \in Sources
      PROVE  (wpc'[t] = "failing" => BadAt(t)') /\ (Holds(t)' => Halted(t)')
  <2>1. CASE t = s
    BY <1>5, <1>6, <2>1
  <2>2. CASE t # s
    <3>1. Still(t) /\ out'[t] = out[t]
      BY <1>2, <2>2
    <3>2. Holds(t)' <=> Holds(t)
      BY <3>1 DEF Holds
    <3>3. (BadAt(t)' <=> BadAt(t)) /\ (Halted(t)' <=> Halted(t))
      BY <1>1, <3>1, HaltedNext
    <3>4. QED BY <1>1, <3>1, <3>2, <3>3 DEF ErrorsTrue, Still
  <2>3. QED BY <2>1, <2>2
<1>8. parcel'.kind = "error" => parcel'.source = cur' /\ Halted(cur)'
  <2>1. parcel.kind = "error" => cur \in Sources
    BY MessageFacts DEF PipelineInv, ProducerAt, Chunk
  <2>2. QED BY <1>1, <1>2, <1>3, <2>1, HaltedNext DEF ErrorsTrue
<1>9. ASSUME NEW i \in DOMAIN queue', queue'[i].kind = "error"
      PROVE  /\ i = Len(queue') /\ producer' \in {"stopping", "done", "panicked"}
             /\ queue'[i].source \in Sources /\ Halted(queue[i].source)'
  BY <1>1, <1>2, <1>3, <1>9, HaltedNext DEF ErrorsTrue
<1>10. QED BY <1>2, <1>7, <1>8, <1>9 DEF ErrorsTrue

LEMMA ProducerKeepsErrors ==
  ASSUME PipelineInv, VerdictInv, Producer
  PROVE  ErrorsTrue'
<1>1. input' = input /\ ErrorsTrue /\ UNCHANGED <<file, pos, Sources>>
  BY ProducerLocal, BatchesFixed DEF VerdictInv
<1>2. \A t \in Sources : wpc'[t] = wpc[t] \/ (wpc[t] = "unborn" /\ wpc'[t] = "reading")
  <2>1. CASE SpawnChunk
    <3>1. ASSUME NEW t \in Sources, t \in Chunk PROVE wpc[t] = "unborn" /\ wpc'[t] = "reading"
      <4>1. first <= t /\ producer = "spawn"
        BY <2>1, <3>1 DEF SpawnChunk, Chunk
      <4>2. wpc[t] = "unborn"
        BY <4>1, InputFacts, TypeFacts DEF PipelineInv, ProducerAt, Begun
      <4>3. QED BY <2>1, <3>1, <4>2 DEF SpawnChunk
    <3>2. QED BY <2>1, <3>1 DEF SpawnChunk
  <2>2. QED BY <2>1, ProducerLocal
<1>3. \A t \in Sources : wpc'[t] = wpc[t] => Still(t)
  BY <1>1 DEF Still
<1>4. \A t \in Sources : Halted(t) => Still(t)
  BY <1>2, <1>3 DEF Halted
<1>5. \A t \in Sources : out'[t] = out[t] \/ out'[t] = <<>>
  <2>1. CASE Receive
    BY <2>1, ReceiveRows
  <2>2. CASE Forward
    BY <2>2, Zenon DEF Forward, DropReceivers
  <2>3. QED BY <2>1, <2>2, ProducerRows
<1>6. ASSUME NEW t \in Sources
      PROVE  (wpc'[t] = "failing" => BadAt(t)') /\ (Holds(t)' => Halted(t)')
  <2>1. wpc'[t] = "failing" => BadAt(t)'
    BY <1>1, <1>2, <1>3, <1>6, HaltedNext DEF ErrorsTrue
  <2>2. Holds(t)' => Holds(t)
    BY <1>5 DEF Holds
  <2>3. Holds(t)' => Halted(t)'
    BY <1>1, <1>4, <2>2, HaltedNext DEF ErrorsTrue
  <2>4. QED BY <2>1, <2>3
<1>7. ASSUME parcel'.kind = "error" PROVE parcel'.source = cur' /\ Halted(cur)'
  <2>1. Receive
    <3>1. Forward \/ ForwardFails => parcel' = Nothing
      BY DEF Forward, ForwardFails
    <3>2. producer = "send" => Forward \/ ForwardFails
      BY DEF Producer, SpawnChunk, NoMoreChunks, Receive, Disconnected, ChunkDrained, JoinChunk
    <3>3. producer # "send" => parcel = Nothing
      BY DEF PipelineInv, ProducerAt
    <3>4. ~Receive => parcel' = Nothing
      BY <3>1, <3>2, <3>3, ProducerRows
    <3>5. QED BY <1>7, <3>4, MessageFacts
  <2>2. /\ cur \in Sources /\ parcel' = out[cur][1] /\ DOMAIN out[cur] = {1} /\ cur' = cur
    BY <2>1, ReceiveRows
  <2>3. parcel'.source = cur
    BY <2>2 DEF PipelineInv, ReaderBounds, ReaderBound
  <2>4. Holds(cur)
    BY <1>7, <2>2 DEF Holds
  <2>5. Halted(cur)
    BY <1>1, <2>2, <2>4 DEF ErrorsTrue
  <2>6. QED BY <1>1, <1>4, <2>2, <2>3, <2>5, HaltedNext
<1>8. ASSUME NEW i \in DOMAIN queue', queue'[i].kind = "error"
      PROVE  /\ i = Len(queue') /\ producer' \in {"stopping", "done", "panicked"}
             /\ queue'[i].source \in Sources /\ Halted(queue[i].source)'
  <2>1. CASE Forward
    <3>1. /\ DOMAIN queue' = 1 .. Len(queue) + 1 /\ DOMAIN queue = 1 .. Len(queue)
          /\ Len(queue) \in Nat
          /\ queue'[Len(queue) + 1] = parcel /\ \A j \in DOMAIN queue : queue'[j] = queue[j]
      BY <2>1, ForwardRows
    <3>2. producer = "send" /\ (parcel.kind = "error" => producer' = "stopping")
      BY <2>1 DEF Forward
    <3>3. i = Len(queue) + 1 /\ parcel.kind = "error"
      BY <1>1, <1>8, <3>1, <3>2 DEF ErrorsTrue
    <3>4. cur \in Sources /\ Halted(cur) /\ parcel.source = cur
      BY <1>1, <3>2, <3>3 DEF ErrorsTrue, PipelineInv, ProducerAt, Chunk
    <3>5. Len(queue') = Len(queue) + 1
      BY <2>1, QueueAppend, TypeFacts DEF Forward
    <3>6. Halted(queue[i].source)'
      BY <1>1, <1>4, <3>1, <3>3, <3>4, HaltedNext
    <3>7. QED BY <3>1, <3>2, <3>3, <3>4, <3>5, <3>6
  <2>2. CASE ~Forward
    <3>1. queue' = queue
      BY <2>2, ReceiveRows, ProducerRows
    <3>2. /\ i \in DOMAIN queue /\ i = Len(queue') /\ producer \in {"stopping", "done", "panicked"}
          /\ queue'[i].source \in Sources /\ Halted(queue'[i].source)
      BY <1>1, <1>8, <3>1 DEF ErrorsTrue
    <3>3. producer' \in {"stopping", "done", "panicked"}
      BY <3>2 DEF Producer, SpawnChunk, NoMoreChunks, Receive, Disconnected, ChunkDrained,
                  Forward, ForwardFails, JoinChunk
    <3>4. Halted(queue[i].source)'
      BY <1>1, <1>4, <3>2, HaltedNext
    <3>5. QED BY <3>2, <3>3, <3>4
  <2>3. QED BY <2>1, <2>2
<1>9. QED BY <1>1, <1>6, <1>7, <1>8 DEF ErrorsTrue

LEMMA MainKeepsErrors ==
  ASSUME PipelineInv, VerdictInv, Main
  PROVE  ErrorsTrue'
<1>1. /\ input' = input /\ ErrorsTrue
      /\ UNCHANGED <<wpc, file, pos, out, parcel, cur, producer, Sources>>
  BY MainLocal, BatchesFixed DEF VerdictInv
<1>2. \A t : Still(t)
  BY <1>1 DEF Still
<1>3. ASSUME NEW t \in Sources
      PROVE  (wpc'[t] = "failing" => BadAt(t)') /\ (Holds(t)' => Halted(t)')
  <2>1. Holds(t)' <=> Holds(t)
    BY <1>1 DEF Holds
  <2>2. QED BY <1>1, <1>2, <2>1, HaltedNext DEF ErrorsTrue
<1>4. parcel'.kind = "error" => parcel'.source = cur' /\ Halted(cur)'
  BY <1>1, <1>2, HaltedNext DEF ErrorsTrue
<1>5. ASSUME NEW i \in DOMAIN queue', queue'[i].kind = "error"
      PROVE  /\ i = Len(queue') /\ producer' \in {"stopping", "done", "panicked"}
             /\ queue'[i].source \in Sources /\ Halted(queue[i].source)'
  <2>1. CASE Take
    <3>1. /\ i + 1 \in DOMAIN queue /\ queue'[i] = queue[i + 1]
          /\ queue' = Tail(queue) /\ queue # <<>>
      BY <1>5, <2>1, TakeRows DEF Take
    <3>2. /\ Len(queue') = Len(queue) - 1 /\ Len(queue) \in Nat /\ DOMAIN queue' = 1 .. Len(queue) - 1
      BY <3>1, QueueTail, TypeFacts
    <3>3. i + 1 = Len(queue) /\ Halted(queue[i + 1].source)
      BY <1>1, <1>5, <3>1 DEF ErrorsTrue
    <3>4. i = Len(queue')
      BY <1>5, <3>2, <3>3
    <3>5. Halted(queue[i].source)'
      BY <1>1, <1>2, <3>1, <3>3, HaltedNext
    <3>6. QED BY <1>1, <1>5, <3>1, <3>4, <3>5 DEF ErrorsTrue
  <2>2. CASE ~Take
    <3>1. queue' = queue \/ queue' = <<>>
      BY <2>2 DEF Main, AppendBatch, AppendFails, InputEnds, Close, JoinProducer, channels
    <3>2. queue' = queue
      BY <1>5, <3>1
    <3>3. QED BY <1>1, <1>2, <1>5, <3>2, HaltedNext DEF ErrorsTrue
  <2>3. QED BY <2>1, <2>2
<1>6. QED BY <1>1, <1>3, <1>4, <1>5 DEF ErrorsTrue


-----------------------------------------------------------------------------
(* No row is missing behind another one.                                    *)

LEMMA EarlierNext ==
  ASSUME input' = input
  PROVE  /\ \A t : Still(t) => Earlier(t)' = Earlier(t)
         /\ \A t : Still(t) /\ cur' = t => Earlier(cur)' = Earlier(t)
         /\ \A t, i : Still(t) /\ queue'[i].source = t => Earlier(queue[i].source)' = Earlier(t)
<1>1. DataRows' = DataRows /\ \A q : BatchKey(q)' = BatchKey(q)
  BY BatchesFixed
<1>2. \A t : Still(t) => BatchKey(Here(t))' = BatchKey(Here(t))
  BY <1>1 DEF Still, Here, BatchKey, RowsBefore
<1>3. \A t : Still(t) /\ cur' = t => BatchKey(Here(cur))' = BatchKey(Here(t))
  BY <1>1 DEF Still, Here, BatchKey, RowsBefore
<1>4. \A t, i : Still(t) /\ queue'[i].source = t =>
                  BatchKey(Here(queue[i].source))' = BatchKey(Here(t))
  BY <1>1 DEF Still, Here, BatchKey, RowsBefore
<1>5. QED BY <1>1, <1>2, <1>3, <1>4 DEF Earlier, Before

\* Rows of an earlier batch than a reader's have been read.
LEMMA EarlierRows ==
  ASSUME PipelineInv, NEW s \in Sources
  PROVE  /\ Here(s) \in Row
         /\ \A q \in Earlier(s) : /\ q \in DataRows /\ q \in Row /\ q[1] <= s
                                  /\ BatchKey(q) # BatchKey(Here(s))
                                  /\ q[1] = s => Behind(q)
         /\ \A q \in DataRows, r \in Row :
              Before(r, Here(s)) /\ Before(BatchKey(q), BatchKey(r)) => q \in Earlier(s)
<1>1. Here(s) \in Row /\ Here(s)[1] = s /\ Here(s)[2] = file[s] /\ Here(s)[3] = pos[s]
  BY InputFacts, TypeFacts DEF Here, Row
<1>2. BatchKey(Here(s)) \in Row /\ \A q \in Row : BatchKey(q) \in Row
  BY <1>1, KeyIsRow
<1>3. ASSUME NEW q \in Earlier(s)
      PROVE  /\ q \in DataRows /\ q \in Row /\ q[1] <= s
             /\ BatchKey(q) # BatchKey(Here(s))
             /\ q[1] = s => Behind(q)
  <2>1. q \in DataRows /\ q \in Row /\ Before(BatchKey(q), BatchKey(Here(s)))
    BY DataRowIsRow DEF Earlier
  <2>2. BatchKey(q) # BatchKey(Here(s)) /\ ~Before(BatchKey(Here(s)), BatchKey(q))
    BY <1>2, <2>1, BatchOrder
  <2>3. Before(q, Here(s))
    BY <1>1, <2>1, <2>2, BatchOrder, KeysGrow
  <2>4. q[1] <= s /\ (q[1] = s => Behind(q))
    BY <1>1, <2>1, <2>3 DEF Before, Behind, Row
  <2>5. QED BY <2>1, <2>2, <2>4
<1>4. ASSUME NEW q \in DataRows, NEW r \in Row, Before(r, Here(s)),
             Before(BatchKey(q), BatchKey(r))
      PROVE  q \in Earlier(s)
  <2>1. BatchKey(r) = BatchKey(Here(s)) \/ Before(BatchKey(r), BatchKey(Here(s)))
    BY <1>1, <1>4, KeysGrow
  <2>2. q \in Row
    BY DataRowIsRow
  <2>3. Before(BatchKey(q), BatchKey(Here(s)))
    BY <1>2, <1>4, <2>1, <2>2, BatchOrder
  <2>4. QED BY <2>3 DEF Earlier
<1>5. QED BY <1>1, <1>3, <1>4

LEMMA ReaderKeepsGapless ==
  ASSUME PipelineInv, VerdictInv, NEW s \in Sources, Reader(s)
  PROVE  Gapless'
<1>1. /\ input' = input /\ Gapless /\ ErrorsTrue /\ Building(s)
      /\ wpc[s] \in {"reading", "sending", "failing"}
  BY ReaderLocal DEF VerdictInv
<1>2. /\ UNCHANGED <<queue, parcel, cur, verdict, Passed, Sources, DataRows>>
      /\ \A t \in Sources : t # s => Still(t) /\ out'[t] = out[t] /\ OutRows(t)' = OutRows(t)
  BY ReaderKeepsPassed DEF Still
<1>3. \A t \in Sources : Halted(t) => Still(t)
  BY <1>1, <1>2 DEF Halted
<1>4. ~Holds(s) /\ \A i \in DOMAIN out[s] : out[s][i].kind # "error"
  BY <1>1 DEF ErrorsTrue, Halted, Holds
<1>5. Undisturbed' = Undisturbed
  BY <1>2 DEF Undisturbed, Undecided, Why
<1>6. ASSUME Undisturbed, wpc'[s] = "failing", NEW q \in Earlier(s)', q[1] = s
      PROVE  q \in Passed \cup OutRows(s)'
  <2>1. ReadBad(s)
    BY <1>6, TypeFacts
       DEF Reader, ReadHeader, ReadRow, FlushFile, NextFile, SendBatch, SendError, SendFails, ReaderPanics, More, FileEnds
  <2>2. /\ UNCHANGED <<file, pos, out>> /\ wpc[s] = "reading"
        /\ pos[s] <= Len(input[s][file[s]])
    BY <2>1 DEF ReadBad, More, channels
  <2>3. Earlier(s)' = Earlier(s)
    <3>1. Here(s)' = Here(s) /\ BatchKey(Here(s))' = BatchKey(Here(s))
      BY <1>1, <2>2, BatchesFixed DEF Here, BatchKey, RowsBefore
    <3>2. \A r : BatchKey(r)' = BatchKey(r)
      BY <1>1, BatchesFixed
    <3>3. QED BY <1>2, <3>1, <3>2 DEF Earlier, Before
  <2>4. q \in DataRows /\ Behind(q) /\ BatchKey(q) # BatchKey(Here(s))
    BY <1>6, <2>3, EarlierRows
  <2>5. q \in Passed \cup OutRows(s) \cup RowSet(rows[s])
    BY <1>6, <2>2, <2>4 DEF PipelineInv, NoRowLost
  <2>6. \A r \in RowSet(rows[s]) : BatchKey(r) = BatchKey(Here(s))
    <3>1. ~(pos[s] > Len(input[s][file[s]]))
      <4>1. /\ Len(input[s][file[s]]) \in Nat /\ pos[s] \in Nat
        BY InputFacts, TypeFacts DEF PipelineInv, ReaderBounds, ReaderBound
      <4>2. QED BY <2>2, <4>1
    <3>2. RowSet(rows[s]) = {r \in RowsBefore(Here(s)) : BatchKey(r) = BatchKey(Here(s))}
      BY <1>1, <2>2, <3>1, Zenon DEF Building
    <3>3. QED BY <3>2
  <2>7. OutRows(s)' = OutRows(s)
    BY <2>2 DEF OutRows
  <2>8. QED BY <2>4, <2>5, <2>6, <2>7
<1>7. ASSUME Undisturbed, Holds(s)', NEW q \in Earlier(s)', q[1] = s
      PROVE  q \in Passed \cup OutRows(s)'
  <2>1. PICK i \in DOMAIN out'[s] : out'[s][i].kind = "error"
    BY <1>7 DEF Holds
  <2>2. StepSend(s)
    BY <1>4, <2>1, ReaderSteps DEF StepRead, StepDrop, StepTurn
  <2>3. wpc[s] = "failing" /\ UNCHANGED <<file[s], pos[s]>>
    BY <2>1, <2>2 DEF StepSend, BatchOf
  <2>4. Earlier(s)' = Earlier(s)
    <3>1. Here(s)' = Here(s) /\ BatchKey(Here(s))' = BatchKey(Here(s))
      BY <1>1, <2>3, BatchesFixed DEF Here, BatchKey, RowsBefore
    <3>2. \A r : BatchKey(r)' = BatchKey(r)
      BY <1>1, BatchesFixed
    <3>3. QED BY <1>2, <3>1, <3>2 DEF Earlier, Before
  <2>5. OutRows(s) = {}
    BY <2>2, SendRows
  <2>6. q \in Passed
    BY <1>1, <1>7, <2>3, <2>4, <2>5 DEF Gapless
  <2>7. QED BY <2>6
<1>8. ASSUME Undisturbed', NEW t \in Sources, wpc'[t] = "failing" \/ Holds(t)',
             NEW q \in Earlier(t)', q[1] = t
      PROVE  q \in Passed' \cup OutRows(t)'
  <2>1. CASE t = s
    BY <1>2, <1>5, <1>6, <1>7, <1>8, <2>1
  <2>2. CASE t # s
    <3>1. Earlier(t)' = Earlier(t)
      BY <1>1, <1>2, <2>2, EarlierNext
    <3>2. Holds(t)' <=> Holds(t)
      BY <1>2, <2>2 DEF Holds
    <3>3. wpc[t] = "failing" \/ Holds(t)
      BY <1>2, <1>8, <2>2, <3>2 DEF Still
    <3>4. QED BY <1>1, <1>2, <1>5, <1>8, <2>2, <3>1, <3>3 DEF Gapless
  <2>3. QED BY <2>1, <2>2
<1>9. ASSUME verdict' = Undecided, NoPanic'
      PROVE  /\ \A r \in Passed', q \in DataRows' : Before(q, r) => q \in Passed'
             /\ parcel'.kind = "error" => Earlier(cur)' \subseteq Passed'
             /\ \A i \in DOMAIN queue' : queue'[i].kind = "error" =>
                  Earlier(queue[i].source)' \subseteq Passed'
  <2>1. NoPanic /\ verdict = Undecided
    BY <1>1, <1>2, <1>9 DEF NoPanic, Still
  <2>2. \A r \in Passed', q \in DataRows' : Before(q, r) => q \in Passed'
    BY <1>1, <1>2, <2>1 DEF Gapless
  <2>3. ASSUME parcel'.kind = "error" PROVE Earlier(cur)' \subseteq Passed'
    <3>1. cur \in Sources /\ Halted(cur) /\ Earlier(cur) \subseteq Passed
      BY <1>1, <1>2, <2>1, <2>3, MessageFacts
         DEF ErrorsTrue, Gapless, PipelineInv, ProducerAt, Chunk
    <3>2. Earlier(cur)' = Earlier(cur)
      BY <1>1, <1>2, <1>3, <3>1, EarlierNext
    <3>3. QED BY <1>2, <3>1, <3>2
  <2>4. ASSUME NEW i \in DOMAIN queue', queue'[i].kind = "error"
        PROVE  Earlier(queue[i].source)' \subseteq Passed'
    <3>1. /\ queue[i].source \in Sources /\ Halted(queue[i].source)
          /\ Earlier(queue[i].source) \subseteq Passed
      BY <1>1, <1>2, <2>1, <2>4 DEF ErrorsTrue, Gapless
    <3>2. Earlier(queue[i].source)' = Earlier(queue[i].source)
      BY <1>1, <1>2, <1>3, <3>1, EarlierNext
    <3>3. QED BY <1>2, <3>1, <3>2
  <2>5. QED BY <2>2, <2>3, <2>4
<1>10. QED BY <1>2, <1>8, <1>9 DEF Gapless, Undecided, Why, Before


\* When the producer turns to a source all rows of the sources before are passed on.
LEMMA EarlierSources ==
  ASSUME PipelineInv, NoPanic, Undisturbed, producer = "recv", NEW q \in DataRows, q[1] < cur
  PROVE  q \in Passed
<1>1. q[1] \in Sources
  BY DataRowIsRow
<1>2. wpc[q[1]] = "exited" /\ out[q[1]] = <<>> /\ parcel = Nothing
  BY <1>1 DEF PipelineInv, ProducerAt, Ended, NoPanic
<1>3. ~ErrorAhead(q[1]) /\ OutRows(q[1]) = {}
  BY <1>2, MessageFacts DEF ErrorAhead, OutRows
<1>4. q \in Passed \cup OutRows(q[1])
  BY <1>1, <1>2, <1>3 DEF PipelineInv, NoRowLost
<1>5. QED BY <1>3, <1>4

\* Neither is a row of the current source missing in front of a row in its channel.
LEMMA EarlierInChannel ==
  ASSUME PipelineInv, VerdictInv, NoPanic, Undisturbed, producer = "recv", cur \in Sources,
         NEW r \in OutRows(cur), NEW q \in DataRows, q[1] = cur, Before(q, r)
  PROVE  q \in Passed \cup OutRows(cur)
<1>1. /\ r \in InFlight /\ r \in DataRows /\ r[1] = cur /\ Behind(r)
  BY DEF InFlight, PipelineInv, Genuine
<1>2. q \in Row /\ r \in Row /\ cur \in Nat /\ file[cur] \in Nat /\ pos[cur] \in Nat
  BY <1>1, DataRowIsRow, TypeFacts
<1>3. /\ q[2] \in Nat /\ q[3] \in Nat /\ r[2] \in Nat /\ r[3] \in Nat
  BY <1>2 DEF Row
<1>4. Behind(q)
  BY <1>1, <1>2, <1>3 DEF Before, Behind
<1>5. /\ out[cur] # <<>> /\ DOMAIN out[cur] = {1} /\ OutRows(cur) = RowSet(out[cur][1].rows)
      /\ out[cur][1] \in Batches
  BY ChannelRows
<1>6. out[cur][1].kind # "error"
  BY <1>5, MessageFacts, EmptyRows
<1>7. ~ErrorAhead(cur)
  <2>1. parcel = Nothing
    BY DEF PipelineInv, ProducerAt
  <2>2. QED BY <1>5, <1>6, <2>1, MessageFacts DEF ErrorAhead
<1>8. CASE wpc[cur] \in {"reading", "sending"}
  <2>1. q \in Passed \cup OutRows(cur) \cup RowSet(rows[cur])
    BY <1>4, <1>8 DEF PipelineInv, NoRowLost
  <2>2. q \notin RowSet(rows[cur])
    <3>1. AllBefore(OutRows(cur), RowSet(rows[cur]))
      BY DEF PipelineInv, InOrder
    <3>2. ~Before(r, q)
      BY <1>2, BatchOrder
    <3>3. QED BY <3>1, <3>2 DEF AllBefore
  <2>3. QED BY <2>1, <2>2
<1>9. CASE wpc[cur] = "exited"
  BY <1>7, <1>9 DEF PipelineInv, NoRowLost
<1>10. CASE wpc[cur] = "failing"
  <2>1. RowSet(out[cur][1].rows) = RowsOfKey(BatchKey(r))
    BY <1>5 DEF VerdictInv, BatchesWhole, Whole
  <2>2. BatchKey(q) = BatchKey(r) \/ Before(BatchKey(q), BatchKey(r))
    BY <1>2, KeysGrow
  <2>3. CASE BatchKey(q) = BatchKey(r)
    BY <1>5, <2>1, <2>3 DEF RowsOfKey
  <2>4. CASE Before(BatchKey(q), BatchKey(r))
    <3>1. Before(r, Here(cur))
      BY <1>1, <1>2, <1>3 DEF Behind, Before, Here
    <3>2. q \in Earlier(cur)
      BY <1>2, <2>4, <3>1, EarlierRows
    <3>3. QED BY <1>10, <3>2 DEF VerdictInv, Gapless
  <2>5. QED BY <2>2, <2>3, <2>4
<1>11. wpc[cur] \in {"reading", "sending", "exited", "failing"}
  <2>1. wpc[cur] # "panicked"
    BY DEF NoPanic
  <2>2. wpc[cur] # "unborn"
    BY <1>5 DEF PipelineInv, ReaderBounds, ReaderBound
  <2>3. QED BY <2>1, <2>2, TypeFacts
<1>12. QED BY <1>8, <1>9, <1>10, <1>11

\* The step that hands rows over: the next message of the source in turn.
LEMMA ReceiveKeepsGapless ==
  ASSUME PipelineInv, VerdictInv, Receive, verdict = Undecided, NoPanic
  PROVE  /\ \A r \in Passed', q \in DataRows : Before(q, r) => q \in Passed'
         /\ parcel'.kind = "error" => Earlier(cur) \subseteq Passed'
         /\ \A i \in DOMAIN queue : queue[i].kind # "error"
<1>1. /\ cur \in Sources /\ cur \in Nat /\ producer = "recv"
      /\ parcel' = out[cur][1] /\ DOMAIN out[cur] = {1}
      /\ Passed' = Passed \cup OutRows(cur)
  BY ReceiveRows
<1>2. \A i \in DOMAIN queue : queue[i].kind # "error"
  BY <1>1 DEF VerdictInv, ErrorsTrue
<1>3. Undisturbed
  BY <1>2 DEF Undisturbed
<1>4. ASSUME NEW r \in Passed', NEW q \in DataRows, Before(q, r) PROVE q \in Passed'
  <2>1. CASE r \in Passed
    BY <1>1, <1>4, <2>1 DEF VerdictInv, Gapless
  <2>2. CASE r \in OutRows(cur)
    <3>1. r[1] = cur
      BY <1>1, <2>2 DEF PipelineInv, Genuine
    <3>2. q[1] < cur \/ q[1] = cur
      BY <1>4, <3>1 DEF Before
    <3>3. QED BY <1>1, <1>3, <1>4, <2>2, <3>2, EarlierSources, EarlierInChannel
  <2>3. QED BY <1>1, <1>4, <2>1, <2>2
<1>5. ASSUME parcel'.kind = "error", NEW q \in Earlier(cur) PROVE q \in Passed'
  <2>1. Holds(cur)
    BY <1>1, <1>5 DEF Holds
  <2>2. q \in DataRows /\ q \in Row /\ q[1] <= cur
    BY <1>1, EarlierRows
  <2>3. q[1] \in Nat
    BY <2>2 DEF Row
  <2>4. CASE q[1] = cur
    BY <1>1, <1>3, <2>1, <2>4 DEF VerdictInv, Gapless
  <2>5. CASE q[1] # cur
    <3>1. q[1] < cur
      BY <1>1, <2>2, <2>3, <2>5
    <3>2. QED BY <1>1, <1>3, <2>2, <3>1, EarlierSources
  <2>6. QED BY <2>4, <2>5
<1>6. QED BY <1>2, <1>4, <1>5

LEMMA ProducerKeepsGapless ==
  ASSUME PipelineInv, VerdictInv, Producer
  PROVE  Gapless'
<1>1. /\ input' = input /\ Gapless /\ ErrorsTrue
      /\ UNCHANGED <<file, pos, main, verdict, Sources, DataRows>>
  BY ProducerLocal, BatchesFixed DEF VerdictInv
<1>2. \A t \in Sources : /\ wpc'[t] # wpc[t] => wpc[t] \in {"unborn", "reading"}
                         /\ wpc'[t] # wpc[t] => wpc'[t] = "reading"
                         /\ wpc[t] = "panicked" => wpc'[t] = "panicked"
                         /\ Halted(t) => wpc'[t] = wpc[t]
  <2>1. CASE SpawnChunk
    <3>1. ASSUME NEW t \in Sources, t \in Chunk PROVE wpc[t] = "unborn"
      <4>1. first <= t /\ producer = "spawn"
        BY <2>1, <3>1 DEF SpawnChunk, Chunk
      <4>2. QED BY <4>1, InputFacts, TypeFacts DEF PipelineInv, ProducerAt, Begun
    <3>2. QED BY <2>1, <3>1 DEF SpawnChunk, Halted
  <2>2. QED BY <2>1, ProducerLocal
<1>3. \A t \in Sources : Halted(t) => Still(t)
  BY <1>1, <1>2 DEF Still
<1>4. ASSUME Undisturbed', NEW t \in Sources, wpc'[t] = "failing" \/ Holds(t)',
             NEW q \in Earlier(t)', q[1] = t
      PROVE  q \in Passed' \cup OutRows(t)'
  <2>1. Undisturbed /\ ~ForwardFails /\ (Forward => parcel.kind # "error")
        /\ Passed \cup OutRows(t) \subseteq Passed' \cup OutRows(t)'
    BY <1>4, ProducerUndisturbed
  <2>2. Holds(t)' => Holds(t)
    <3>1. out'[t] = out[t] \/ out'[t] = <<>>
      <4>1. CASE Receive
        BY <4>1, ReceiveRows
      <4>2. CASE Forward
        BY <4>2, Zenon DEF Forward, DropReceivers
      <4>3. QED BY <4>1, <4>2, ProducerRows
    <3>2. QED BY <3>1 DEF Holds
  <2>3. wpc[t] = "failing" \/ Holds(t)
    BY <1>2, <1>4, <2>2
  <2>4. wpc'[t] = wpc[t]
    BY <1>1, <1>2, <2>3 DEF ErrorsTrue
  <2>5. Earlier(t)' = Earlier(t)
    BY <1>1, <2>4, EarlierNext DEF Still
  <2>6. q \in Passed \cup OutRows(t)
    BY <1>1, <1>4, <2>1, <2>3, <2>5 DEF Gapless
  <2>7. QED BY <2>1, <2>6
<1>5. ASSUME verdict' = Undecided, NoPanic'
      PROVE  /\ \A r \in Passed', q \in DataRows' : Before(q, r) => q \in Passed'
             /\ parcel'.kind = "error" => Earlier(cur)' \subseteq Passed'
             /\ \A i \in DOMAIN queue' : queue'[i].kind = "error" =>
                  Earlier(queue[i].source)' \subseteq Passed'
  <2>1. NoPanic /\ verdict = Undecided
    BY <1>1, <1>2, <1>5 DEF NoPanic
  <2>2. CASE Receive
    <3>1. cur' = cur /\ queue' = queue /\ cur \in Sources /\ parcel' = out[cur][1] /\ DOMAIN out[cur] = {1}
      BY <2>2, ReceiveRows
    <3>2. ASSUME parcel'.kind = "error" PROVE Earlier(cur)' = Earlier(cur)
      <4>1. Holds(cur)
        BY <3>1, <3>2 DEF Holds
      <4>2. Halted(cur)
        BY <1>1, <3>1, <4>1 DEF ErrorsTrue
      <4>3. QED BY <1>1, <1>3, <3>1, <4>2, EarlierNext
    <3>3. QED BY <1>1, <2>1, <2>2, <3>1, <3>2, ReceiveKeepsGapless
  <2>3. CASE Forward
    <3>1. /\ parcel' = Nothing /\ DOMAIN queue' = 1 .. Len(queue) + 1
          /\ DOMAIN queue = 1 .. Len(queue) /\ Len(queue) \in Nat /\ Passed' = Passed
          /\ queue'[Len(queue) + 1] = parcel /\ \A i \in DOMAIN queue : queue'[i] = queue[i]
          /\ producer = "send"
      BY <2>3, ForwardRows DEF Forward
    <3>2. \A r \in Passed', q \in DataRows' : Before(q, r) => q \in Passed'
      BY <1>1, <2>1, <3>1 DEF Gapless
    <3>3. ASSUME NEW i \in DOMAIN queue', queue'[i].kind = "error"
          PROVE  Earlier(queue[i].source)' \subseteq Passed'
      <4>1. i = Len(queue) + 1 /\ queue'[i] = parcel
        BY <1>1, <3>1, <3>3 DEF ErrorsTrue
      <4>2. /\ parcel.kind = "error" /\ queue'[i].source = cur /\ Halted(cur)
            /\ cur \in Sources /\ Earlier(cur) \subseteq Passed
        BY <1>1, <2>1, <3>1, <3>3, <4>1 DEF ErrorsTrue, Gapless, PipelineInv, ProducerAt, Chunk
      <4>3. Earlier(queue[i].source)' = Earlier(cur)
        BY <1>1, <1>3, <4>2, EarlierNext
      <4>4. QED BY <3>1, <4>2, <4>3
    <3>4. QED BY <3>1, <3>2, <3>3, MessageFacts
  <2>4. CASE ~Receive /\ ~Forward
    <3>1. ~ForwardFails
      BY <2>1 DEF ForwardFails, PipelineInv, MainAt
    <3>2. producer # "send" /\ parcel = Nothing
      <4>1. producer # "send"
        BY <2>4, <3>1 DEF Producer, SpawnChunk, NoMoreChunks, Disconnected, ChunkDrained, JoinChunk
      <4>2. QED BY <4>1 DEF PipelineInv, ProducerAt
    <3>3. queue' = queue /\ parcel' = parcel /\ Passed' = Passed
      BY <2>4, <3>1, ProducerRows
    <3>4. \A r \in Passed', q \in DataRows' : Before(q, r) => q \in Passed'
      BY <1>1, <2>1, <3>3 DEF Gapless
    <3>5. ASSUME NEW i \in DOMAIN queue', queue'[i].kind = "error"
          PROVE  Earlier(queue[i].source)' \subseteq Passed'
      <4>1. /\ queue[i].source \in Sources /\ Halted(queue[i].source)
            /\ Earlier(queue[i].source) \subseteq Passed
        BY <1>1, <2>1, <3>3, <3>5 DEF ErrorsTrue, Gapless
      <4>2. Earlier(queue[i].source)' = Earlier(queue[i].source)
        BY <1>1, <1>3, <3>3, <4>1, EarlierNext
      <4>3. QED BY <3>3, <4>1, <4>2
    <3>6. QED BY <3>2, <3>3, <3>4, <3>5, MessageFacts
  <2>5. QED BY <2>2, <2>3, <2>4
<1>6. QED BY <1>1, <1>4, <1>5 DEF Gapless, Undecided, Why, Before

LEMMA MainKeepsGapless ==
  ASSUME PipelineInv, VerdictInv, Main
  PROVE  Gapless'
<1>1. /\ input' = input /\ Gapless /\ ErrorsTrue
      /\ UNCHANGED <<wpc, file, pos, out, cur, parcel, Sources, DataRows>>
  BY MainLocal, BatchesFixed DEF VerdictInv
<1>2. /\ \A t : Still(t) /\ OutRows(t)' = OutRows(t) /\ (Holds(t)' <=> Holds(t))
      /\ NoPanic' <=> NoPanic
  BY <1>1 DEF Still, OutRows, Holds, NoPanic
<1>3. \A t : Earlier(t)' = Earlier(t)
  BY <1>1, <1>2, EarlierNext
<1>4. ASSUME Undisturbed', NEW t \in Sources, wpc'[t] = "failing" \/ Holds(t)',
             NEW q \in Earlier(t)', q[1] = t
      PROVE  q \in Passed' \cup OutRows(t)'
  <2>1. verdict' = Undecided
    BY <1>4 DEF Undisturbed, Undecided, Why
  <2>2. Undisturbed /\ Passed' = Passed
    BY <1>4, <2>1, MainUndisturbed
  <2>3. QED BY <1>1, <1>2, <1>3, <1>4, <2>2 DEF Gapless
<1>5. ASSUME verdict' = Undecided, NoPanic'
      PROVE  /\ \A r \in Passed', q \in DataRows' : Before(q, r) => q \in Passed'
             /\ parcel'.kind = "error" => Earlier(cur)' \subseteq Passed'
             /\ \A i \in DOMAIN queue' : queue'[i].kind = "error" =>
                  Earlier(queue[i].source)' \subseteq Passed'
  <2>1. verdict = Undecided /\ Passed' = Passed /\ NoPanic
    BY <1>2, <1>5, MainUndisturbed
  <2>2. Earlier(cur)' = Earlier(cur)
    BY <1>1, <1>2, EarlierNext
  <2>3. ASSUME NEW i \in DOMAIN queue', queue'[i].kind = "error"
        PROVE  Earlier(queue[i].source)' \subseteq Passed'
    <3>1. PICK j \in DOMAIN queue : queue'[i] = queue[j]
      <4>1. CASE Take
        BY <2>3, <4>1, TakeRows
      <4>2. CASE ~Take
        <5>1. queue' = queue \/ queue' = <<>>
          BY <4>2 DEF Main, AppendBatch, AppendFails, InputEnds, Close, JoinProducer, channels
        <5>2. QED BY <2>3, <5>1
      <4>3. QED BY <4>1, <4>2
    <3>2. Earlier(queue[j].source) \subseteq Passed
      BY <1>1, <2>1, <2>3, <3>1 DEF Gapless
    <3>3. PICK t : t = queue[j].source
      OBVIOUS
    <3>4. Earlier(queue[i].source)' = Earlier(t)
      BY <1>1, <1>2, <3>1, <3>3, EarlierNext
    <3>5. QED BY <2>1, <3>2, <3>3, <3>4
  <2>4. QED BY <1>1, <2>1, <2>2, <2>3 DEF Gapless
<1>6. QED BY <1>1, <1>4, <1>5 DEF Gapless, Undecided, Why, Before


-----------------------------------------------------------------------------
(* What a sequential import would say.                                      *)

\* It says so in every state.
LEMMA SequentialFixed ==
  ASSUME input' = input
  PROVE  Sequential' = Sequential
<1>1. /\ DataRows' = DataRows /\ \A r : BatchKey(r)' = BatchKey(r)
      /\ \A k : RowsOfKey(k)' = RowsOfKey(k) /\ \A r : KindOf(r)' = KindOf(r)
  BY BatchesFixed, InputFixed
<1>2. \A k : /\ Kind(k, "bad")' <=> Kind(k, "bad")
             /\ Kind(k, "reject")' <=> Kind(k, "reject")
  BY <1>1 DEF Kind
<1>3. \A k : KeysUpTo(k)' = KeysUpTo(k)
  BY <1>1 DEF KeysUpTo, Before
<1>4. \A k : BadUpTo(k)' = BadUpTo(k)
  BY <1>1, <1>3 DEF BadUpTo
<1>5. \A k : Complaint(k)' = Complaint(k)
  BY <1>2 DEF Complaint, Why
<1>6. Fatal' = Fatal
  BY <1>1, <1>2, <1>4 DEF Fatal
<1>7. QED BY <1>5, <1>6 DEF Sequential, Undecided, Why, Before

\* The fatal batches have keys among the rows.
LEMMA KeysAreRows == ASSUME PipelineInv PROVE Fatal \subseteq Row
BY KeyIsRow, DataRowIsRow DEF Fatal

\* The first fatal batch decides.
LEMMA FirstFatal ==
  ASSUME PipelineInv, NEW k \in Fatal, \A l \in Fatal : l = k \/ Before(k, l)
  PROVE  Sequential = Complaint(k)
<1> DEFINE First(x) == \A l \in Fatal : l = x \/ Before(x, l)
           c == CHOOSE x \in Fatal : First(x)
<1>1. c \in Fatal /\ First(c)
  <2>1. \E x \in Fatal : First(x)
    OBVIOUS
  <2> HIDE DEF First
  <2>2. QED BY <2>1
<1>2. Sequential = Complaint(c)
  BY DEF Sequential
<1> HIDE DEF c
<1>3. c = k
  BY <1>1, KeysAreRows, BatchOrder
<1>4. QED BY <1>2, <1>3

\* Rows in order can be counted by their places.
LEMMA RowsAsPlaces ==
  ASSUME NEW q \in Seq(Row), Sorted(q)
  PROVE  /\ IsFiniteSet(RowSet(q))
         /\ Cardinality({i \in DOMAIN q : KindOf(q[i]) = "skip"})
              = Cardinality({r \in RowSet(q) : KindOf(r) = "skip"})
<1>1. /\ DOMAIN q = 1 .. Len(q) /\ Len(q) \in Nat /\ \A i \in DOMAIN q : q[i] \in Row
      /\ IsFiniteSet(DOMAIN q)
  <2>1. DOMAIN q = 1 .. Len(q) /\ Len(q) \in Nat /\ \A i \in DOMAIN q : q[i] \in Row
    OBVIOUS
  <2>2. 1 \in Int /\ Len(q) \in Int
    BY <2>1
  <2>3. QED BY <2>1, <2>2, FS_Interval
<1>2. ASSUME NEW i \in DOMAIN q, NEW j \in DOMAIN q, q[i] = q[j] PROVE i = j
  <2>1. i \in Nat /\ j \in Nat /\ q[i] \in Row
    BY <1>1
  <2>2. ~(i < j) /\ ~(j < i)
    BY <1>1, <1>2, BatchOrder DEF Sorted
  <2>3. QED BY <2>1, <2>2
<1>3. ASSUME NEW A \in SUBSET DOMAIN q
      PROVE  /\ IsFiniteSet({q[i] : i \in A})
             /\ Cardinality({q[i] : i \in A}) = Cardinality(A)
  <2> DEFINE f == [i \in A |-> q[i]]
             B == {q[i] : i \in A}
  <2>1. IsFiniteSet(A)
    BY <1>1, FS_Subset
  <2>2. f \in Surjection(A, B)
    BY DEF Surjection
  <2>3. f \in Injection(A, B)
    BY <1>2 DEF Injection, IsInjective
  <2> HIDE DEF f, B
  <2>4. f \in Bijection(A, B)
    BY <2>2, <2>3 DEF Bijection
  <2>5. IsFiniteSet(B) /\ Cardinality(B) = Cardinality(A)
    BY <2>1, <2>4, FS_Bijection DEF ExistsBijection
  <2>6. QED BY <2>5 DEF B
<1>4. RowSet(q) = {q[i] : i \in DOMAIN q}
  BY DEF RowSet
<1> DEFINE S == {i \in DOMAIN q : KindOf(q[i]) = "skip"}
<1>5. {r \in RowSet(q) : KindOf(r) = "skip"} = {q[i] : i \in S}
  BY DEF RowSet
<1>6. S \in SUBSET DOMAIN q
  OBVIOUS
<1> HIDE DEF S
<1>7. Cardinality({q[i] : i \in S}) = Cardinality(S)
  BY <1>3, <1>6
<1>8. IsFiniteSet({q[i] : i \in DOMAIN q})
  BY <1>3
<1>9. QED BY <1>4, <1>5, <1>7, <1>8 DEF S

\* Disjoint sets are counted apart.
LEMMA DisjointCount ==
  ASSUME NEW A, NEW B, IsFiniteSet(A), IsFiniteSet(B), A \cap B = {}
  PROVE  IsFiniteSet(A \cup B) /\ Cardinality(A \cup B) = Cardinality(A) + Cardinality(B)
<1>1. IsFiniteSet(A \cup B)
  BY FS_Union
<1>2. Cardinality(A \cup B) = Cardinality(A) + Cardinality(B) - Cardinality(A \cap B)
  BY FS_Union
<1>3. Cardinality(A) \in Nat /\ Cardinality(B) \in Nat
  BY FS_CardinalityType
<1>4. QED BY <1>1, <1>2, <1>3, FS_EmptySet

\* The batch at hand is the next in declaration order.
LEMMA AtHand ==
  ASSUME PipelineInv, VerdictInv, main = "append", NoPanic, NEW r \in RowSet(batch.rows)
  PROVE  /\ r \in DataRows /\ r \in Row /\ KindOf(r) # "bad" /\ r[1] = batch.source
         /\ RowSet(batch.rows) = RowsOfKey(BatchKey(r))
         /\ {q \in DataRows : Before(BatchKey(q), BatchKey(r))} = RowSet(loaded)
<1>1. verdict = Undecided
  BY DEF PipelineInv, MainAt
<1>2. RowSet(batch.rows) = RowsOfKey(BatchKey(r)) /\ r[1] = batch.source
  BY DEF VerdictInv, BatchesWhole, Whole
<1>3. r \in DataRows /\ r \in Row /\ KindOf(r) # "bad" /\ r \in Passed
  BY DataRowIsRow DEF Passed, PipelineInv, Genuine
<1>4. BatchKey(r) \in Row /\ \A q \in DataRows : q \in Row /\ BatchKey(q) \in Row
  BY <1>3, KeyIsRow, DataRowIsRow
<1>5. ASSUME NEW q \in DataRows, Before(BatchKey(q), BatchKey(r)) PROVE q \in RowSet(loaded)
  <2>1. BatchKey(q) # BatchKey(r) /\ ~Before(BatchKey(r), BatchKey(q))
    BY <1>4, <1>5, BatchOrder
  <2>2. Before(q, r)
    BY <1>3, <1>4, <2>1, KeysGrow, BatchOrder
  <2>3. q \in Passed
    BY <1>1, <1>3, <2>2 DEF VerdictInv, Gapless
  <2>4. q \notin RowSet(batch.rows)
    BY <1>2, <2>1 DEF RowsOfKey
  <2>5. ~Before(r, q)
    BY <1>3, <1>4, <2>2, BatchOrder
  <2>6. /\ AllBefore(RowSet(loaded) \cup RowSet(batch.rows), QueueRows)
        /\ AllBefore(RowSet(loaded) \cup RowSet(batch.rows) \cup QueueRows, RowSet(parcel.rows))
    BY DEF PipelineInv, InOrder
  <2>7. q \notin QueueRows /\ q \notin RowSet(parcel.rows)
    BY <2>5, <2>6 DEF AllBefore
  <2>8. QED BY <2>3, <2>4, <2>7 DEF Passed
<1>6. ASSUME NEW q \in RowSet(loaded)
      PROVE  q \in DataRows /\ Before(BatchKey(q), BatchKey(r))
  <2>1. q \in DataRows
    BY DEF Passed, PipelineInv, Genuine
  <2>2. AllBefore(RowSet(loaded), RowSet(batch.rows))
    BY DEF PipelineInv, InOrder
  <2>3. Before(q, r) /\ q \notin RowSet(batch.rows)
    BY <1>4, <2>1, <2>2, RowOrder DEF AllBefore
  <2>4. BatchKey(q) # BatchKey(r)
    BY <1>2, <2>1, <2>3 DEF RowsOfKey
  <2>5. QED BY <1>3, <1>4, <2>1, <2>3, <2>4, KeysGrow
<1>7. QED BY <1>2, <1>3, <1>5, <1>6

\* No batch in front of one that is judged was fatal.
LEMMA NoneBefore ==
  ASSUME PipelineInv, VerdictInv, verdict = Undecided, NEW k \in Fatal,
         {q \in DataRows : Before(BatchKey(q), k)} \subseteq RowSet(loaded)
  PROVE  Sequential = Complaint(k)
<1>1. k \in Row /\ Fatal \subseteq Row
  BY KeysAreRows
<1>2. ASSUME NEW l \in Fatal, Before(l, k) PROVE FALSE
  <2>1. ASSUME NEW q \in KeysUpTo(l) PROVE q \in RowSet(loaded)
    <3>1. q \in DataRows /\ (BatchKey(q) = l \/ Before(BatchKey(q), l))
      BY DEF KeysUpTo
    <3>2. BatchKey(q) \in Row
      BY <3>1, KeyIsRow, DataRowIsRow
    <3>3. Before(BatchKey(q), k)
      BY <1>1, <1>2, <3>1, <3>2, BatchOrder
    <3>4. QED BY <3>1, <3>3
  <2>2. \A q \in RowSet(loaded) : KindOf(q) # "bad" /\ KindOf(q) # "reject"
    BY DEF Passed, PipelineInv, Genuine
  <2>3. ~Kind(l, "bad") /\ ~Kind(l, "reject")
    BY <2>1, <2>2 DEF Kind, RowsOfKey, KeysUpTo
  <2>4. BadUpTo(l) <= skipped
    <3> DEFINE A == {r \in RowSet(loaded) : KindOf(r) = "skip"}
               B == {r \in KeysUpTo(l) : KindOf(r) = "skip"}
    <3>1. IsFiniteSet(RowSet(loaded))
      BY TypeFacts, RowsAsPlaces DEF PipelineInv, InOrder
    <3>2. IsFiniteSet(A)
      BY <3>1, FS_Subset
    <3>3. B \subseteq A
      BY <2>1
    <3>4. Cardinality(B) <= Cardinality(A)
      BY <3>2, <3>3, FS_Subset
    <3>5. QED BY <3>4 DEF BadUpTo, VerdictInv, Decided
  <2>5. skipped <= Tolerance
    BY DEF PipelineInv, MainAt
  <2>6. BadUpTo(l) \in Nat
    <3> DEFINE B == {r \in KeysUpTo(l) : KindOf(r) = "skip"}
    <3>1. IsFiniteSet(RowSet(loaded)) /\ B \subseteq RowSet(loaded)
      BY <2>1, TypeFacts, RowsAsPlaces DEF PipelineInv, InOrder
    <3>2. IsFiniteSet(B)
      BY <3>1, FS_Subset
    <3>3. QED BY <3>2, FS_CardinalityType DEF BadUpTo
  <2>7. ~(BadUpTo(l) > Tolerance)
    BY <2>4, <2>5, <2>6, TypeFacts
  <2>8. QED BY <2>3, <2>7 DEF Fatal
<1>3. \A l \in Fatal : l = k \/ Before(k, l)
  BY <1>1, <1>2, BatchOrder
<1>4. QED BY <1>3, FirstFatal


-----------------------------------------------------------------------------
(* What the main thread counts and decides.                                 *)

SkippedOf(q) == {r \in RowSet(q) : KindOf(r) = "skip"}

LEMMA OthersKeepDecided ==
  ASSUME PipelineInv, VerdictInv, UNCHANGED <<input, loaded, skipped, verdict>>,
         NoPanic' => NoPanic
  PROVE  Decided'
<1>1. Sequential' = Sequential /\ \A r : KindOf(r)' = KindOf(r)
  BY SequentialFixed, InputFixed
<1>2. Decided /\ RowSet(loaded)' = RowSet(loaded)
  BY DEF VerdictInv, RowSet
<1>3. QED BY <1>1, <1>2 DEF Decided, Undecided, Why

\* A record that does not parse is the verdict of the batch it belongs to.
LEMMA TakeDecides ==
  ASSUME PipelineInv, VerdictInv, Take, queue[1].kind = "error", NoPanic
  PROVE  Sequential = Why("parse", queue[1].source)
<1> DEFINE s == queue[1].source
           k == BatchKey(Here(s))
<1>1. /\ main = "recv" /\ verdict = Undecided /\ batch = Nothing /\ 1 \in DOMAIN queue
      /\ queue \in Seq(Messages)
  BY TakeRows, TypeFacts DEF Take, PipelineInv, MainAt
<1>2. /\ 1 = Len(queue) /\ producer \in {"stopping", "done", "panicked"}
      /\ s \in Sources /\ Halted(s) /\ Earlier(s) \subseteq Passed
  BY <1>1 DEF VerdictInv, ErrorsTrue, Gapless
<1>3. RowSet(batch.rows) = {} /\ RowSet(parcel.rows) = {}
  BY <1>1, <1>2, MessageFacts, EmptyRows DEF PipelineInv, ProducerAt
<1>4. QueueRows = {}
  <2>1. DOMAIN queue = {1}
    BY <1>1, <1>2
  <2>2. queue[1].rows = <<>>
    BY <1>1, MessageFacts DEF PipelineInv, MainAt
  <2>3. QED BY <2>1, <2>2, EmptyRows DEF QueueRows
<1>5. Earlier(s) \subseteq RowSet(loaded)
  BY <1>2, <1>3, <1>4 DEF Passed
<1>6. Here(s) \in DataRows /\ KindOf(Here(s)) = "bad" /\ Here(s)[1] = s
  BY <1>2 DEF Halted, BadAt, Here
<1> HIDE DEF s
<1>7. Kind(k, "bad") /\ k \in Fatal
  BY <1>6 DEF Kind, RowsOfKey, Fatal
<1>8. {q \in DataRows : Before(BatchKey(q), k)} \subseteq RowSet(loaded)
  BY <1>5 DEF Earlier
<1>9. k[1] = s
  BY <1>6, BatchOrder
<1> HIDE DEF k
<1>10. Sequential = Complaint(k)
  BY <1>1, <1>7, <1>8, NoneBefore
<1>11. Complaint(k) = Why("parse", k[1])
  BY <1>7 DEF Complaint
<1>12. QED BY <1>9, <1>10, <1>11 DEF s

\* A row the loader rejects is the verdict of its batch.
LEMMA RejectDecides ==
  ASSUME PipelineInv, VerdictInv, main = "append", Rejected(batch), NoPanic
  PROVE  Sequential = Why("reject", batch.source)
<1>1. PICK i \in DOMAIN batch.rows : KindOf(batch.rows[i]) = "reject"
  BY DEF Rejected
<1> DEFINE r == batch.rows[i]
           k == BatchKey(r)
<1>2. r \in RowSet(batch.rows)
  BY <1>1 DEF RowSet
<1>3. /\ r \in DataRows /\ r[1] = batch.source
      /\ RowSet(batch.rows) = RowsOfKey(k)
      /\ {q \in DataRows : Before(BatchKey(q), k)} = RowSet(loaded)
      /\ \A q \in RowSet(batch.rows) : KindOf(q) # "bad"
  BY <1>2, AtHand
<1>4. KindOf(r) = "reject"
  BY <1>1
<1> HIDE DEF r
<1>5. Kind(k, "reject") /\ ~Kind(k, "bad") /\ k \in Fatal
  BY <1>2, <1>3, <1>4 DEF Kind, Fatal
<1>6. verdict = Undecided /\ k[1] = batch.source
  BY <1>3, BatchOrder DEF PipelineInv, MainAt
<1>7. Sequential = Complaint(k)
  BY <1>3, <1>5, <1>6, NoneBefore
<1>8. Complaint(k) = Why("reject", k[1])
  BY <1>5 DEF Complaint
<1>9. QED BY <1>6, <1>7, <1>8

\* What appending a batch counts as loaded and as skipped.
LEMMA AppendCounts ==
  ASSUME PipelineInv, VerdictInv, AppendBatch
  PROVE  /\ SkippedOf(loaded') = SkippedOf(loaded) \cup SkippedOf(batch.rows)
         /\ skipped' = Cardinality(SkippedOf(loaded'))
<1>1. /\ loaded \in Seq(Row) /\ batch.rows \in Seq(Row) /\ skipped' = skipped + BadEntries(batch)
      /\ loaded' = loaded \o batch.rows
      /\ Sorted(loaded) /\ Sorted(batch.rows) /\ AllBefore(RowSet(loaded), RowSet(batch.rows))
  BY TypeFacts, MessageFacts DEF AppendBatch, PipelineInv, InOrder
<1>2. RowSet(loaded') = RowSet(loaded) \cup RowSet(batch.rows)
  BY <1>1, ConcatRows
<1>3. SkippedOf(loaded') = SkippedOf(loaded) \cup SkippedOf(batch.rows)
  BY <1>2 DEF SkippedOf
<1>4. IsFiniteSet(SkippedOf(loaded)) /\ IsFiniteSet(SkippedOf(batch.rows))
  <2>1. IsFiniteSet(RowSet(loaded)) /\ IsFiniteSet(RowSet(batch.rows))
    BY <1>1, RowsAsPlaces
  <2>2. SkippedOf(loaded) \subseteq RowSet(loaded) /\ SkippedOf(batch.rows) \subseteq RowSet(batch.rows)
    BY DEF SkippedOf
  <2>3. QED BY <2>1, <2>2, FS_Subset
<1>5. SkippedOf(loaded) \cap SkippedOf(batch.rows) = {}
  <2>1. ASSUME NEW r \in RowSet(loaded), r \in RowSet(batch.rows) PROVE FALSE
    <3>1. r \in Row
      BY DataRowIsRow DEF Passed, PipelineInv, Genuine
    <3>2. Before(r, r)
      BY <1>1, <2>1 DEF AllBefore
    <3>3. QED BY <3>1, <3>2, RowOrder
  <2>2. QED BY <2>1 DEF SkippedOf
<1>6. Cardinality(SkippedOf(loaded'))
        = Cardinality(SkippedOf(loaded)) + Cardinality(SkippedOf(batch.rows))
  BY <1>3, <1>4, <1>5, DisjointCount
<1>7. BadEntries(batch) = Cardinality(SkippedOf(batch.rows))
  BY <1>1, RowsAsPlaces DEF BadEntries, SkippedOf
<1>8. skipped = Cardinality(SkippedOf(loaded))
  BY DEF VerdictInv, Decided, SkippedOf
<1>9. QED BY <1>1, <1>3, <1>6, <1>7, <1>8

\* One skipped row too many is the verdict of its batch.
LEMMA ToleranceDecides ==
  ASSUME PipelineInv, VerdictInv, AppendBatch, skipped' > Tolerance, NoPanic
  PROVE  Sequential = Why("tolerance", batch.source)
<1>1. main = "append" /\ ~Rejected(batch) /\ verdict = Undecided /\ skipped <= Tolerance
  BY DEF AppendBatch, PipelineInv, MainAt
<1>2. SkippedOf(batch.rows) # {}
  <2>1. SUFFICES ASSUME SkippedOf(batch.rows) = {} PROVE FALSE
    OBVIOUS
  <2>2. SkippedOf(loaded') = SkippedOf(loaded)
    BY <2>1, AppendCounts
  <2>3. skipped' = skipped
    BY <2>2, AppendCounts DEF VerdictInv, Decided, SkippedOf
  <2>4. QED BY <1>1, <2>3, TypeFacts
<1>3. PICK r : r \in RowSet(batch.rows)
  BY <1>2 DEF SkippedOf
<1> DEFINE k == BatchKey(r)
<1>4. /\ r \in DataRows /\ r[1] = batch.source
      /\ RowSet(batch.rows) = RowsOfKey(k)
      /\ {q \in DataRows : Before(BatchKey(q), k)} = RowSet(loaded)
      /\ \A q \in RowSet(batch.rows) : KindOf(q) # "bad"
  BY <1>1, <1>3, AtHand
<1>5. ~Kind(k, "bad") /\ ~Kind(k, "reject")
  <2>1. \A q \in RowSet(batch.rows) : KindOf(q) # "reject"
    BY <1>1 DEF Rejected, RowSet
  <2>2. QED BY <1>4, <2>1 DEF Kind
<1>6. BadUpTo(k) = skipped'
  <2>1. KeysUpTo(k) = RowSet(loaded) \cup RowSet(batch.rows)
    BY <1>4 DEF KeysUpTo, RowsOfKey
  <2>2. {q \in KeysUpTo(k) : KindOf(q) = "skip"} = SkippedOf(loaded')
    BY <2>1, AppendCounts DEF SkippedOf
  <2>3. QED BY <2>2, AppendCounts DEF BadUpTo
<1>7. k \in Fatal
  BY <1>4, <1>6 DEF Fatal
<1>8. Sequential = Complaint(k)
  BY <1>1, <1>4, <1>7, NoneBefore
<1>9. Complaint(k) = Why("tolerance", k[1])
  BY <1>5 DEF Complaint
<1>10. k[1] = batch.source
  BY <1>4, BatchOrder
<1>11. QED BY <1>8, <1>9, <1>10

LEMMA MainKeepsDecided ==
  ASSUME PipelineInv, VerdictInv, Main
  PROVE  Decided'
<1>1. /\ input' = input /\ Decided /\ NoPanic' = NoPanic
      /\ Sequential' = Sequential /\ \A r : KindOf(r)' = KindOf(r)
  BY MainLocal, SequentialFixed, InputFixed DEF VerdictInv, NoPanic, Sources
<1>2. \A w, s : Why(w, s).why = w
  BY DEF Why
<1>3. skipped' = Cardinality({r \in RowSet(loaded)' : KindOf(r)' = "skip"})
  <2>1. CASE AppendBatch
    <3>1. RowSet(loaded)' = RowSet(loaded')
      BY DEF RowSet
    <3>2. QED BY <1>1, <2>1, <3>1, AppendCounts DEF SkippedOf
  <2>2. CASE ~AppendBatch
    <3>1. UNCHANGED <<skipped, loaded>>
      BY <2>2 DEF Main, Take, AppendFails, InputEnds, Close, JoinProducer
    <3>2. RowSet(loaded)' = RowSet(loaded)
      BY <3>1 DEF RowSet
    <3>3. QED BY <1>1, <3>1, <3>2 DEF Decided
  <2>3. QED BY <2>1, <2>2
<1>4. /\ verdict'.why = "none" => verdict' = Undecided
      /\ verdict'.why \in {"parse", "reject", "tolerance"} /\ NoPanic => verdict' = Sequential
  <2>1. CASE verdict' = verdict
    BY <1>1, <2>1 DEF Decided
  <2>2. CASE Take /\ verdict' # verdict
    <3>1. queue[1].kind = "error" /\ verdict' = Why("parse", queue[1].source)
      BY <2>2, QueueTail, TypeFacts DEF Take
    <3>2. QED BY <1>2, <2>2, <3>1, TakeDecides
  <2>3. CASE AppendBatch /\ verdict' # verdict
    <3>1. skipped' > Tolerance /\ verdict' = Why("tolerance", batch.source)
      BY <2>3, Zenon DEF AppendBatch
    <3>2. QED BY <1>2, <2>3, <3>1, ToleranceDecides
  <2>4. CASE AppendFails
    <3>1. main = "append" /\ verdict' = Why(IF Rejected(batch) THEN "reject" ELSE "io", batch.source)
      BY <2>4 DEF AppendFails
    <3>2. CASE Rejected(batch)
      <4>1. verdict' = Why("reject", batch.source)
        BY <3>1, <3>2
      <4>2. QED BY <1>2, <3>1, <3>2, <4>1, RejectDecides
    <3>3. CASE ~Rejected(batch)
      <4>1. verdict' = Why("io", batch.source)
        BY <3>1, <3>3
      <4>2. QED BY <1>2, <4>1
    <3>4. QED BY <3>2, <3>3
  <2>5. CASE JoinProducer /\ verdict' # verdict
    <3>1. verdict' = Why("panic", 0)
      BY <2>5, Zenon DEF JoinProducer
    <3>2. QED BY <1>2, <3>1
  <2>6. CASE InputEnds \/ Close
    BY <2>1, <2>6 DEF InputEnds, Close
  <2>7. QED BY <2>1, <2>2, <2>3, <2>4, <2>5, <2>6 DEF Main
<1>5. QED BY <1>1, <1>3, <1>4 DEF Decided, Undecided, Why


-----------------------------------------------------------------------------
(* The inductive invariant and what follows from it.                        *)

LEMMA InitVerdictInv == ASSUME Init PROVE VerdictInv
<1>1. PipelineInv
  BY InitPipelineInv
<1>2. /\ batch = Nothing /\ parcel = Nothing /\ queue = <<>> /\ DOMAIN queue = {}
      /\ loaded = <<>> /\ skipped = 0 /\ verdict = Undecided
      /\ \A s \in Sources : wpc[s] = "unborn" /\ out[s] = <<>> /\ DOMAIN out[s] = {}
  BY DEF Init
<1>3. BatchesWhole
  BY <1>2, NoRowsWhole, MessageFacts DEF BatchesWhole
<1>4. \A s \in Sources : Building(s)
  BY <1>2 DEF Building
<1>5. ErrorsTrue
  BY <1>2, MessageFacts DEF ErrorsTrue, Holds
<1>6. Passed = {}
  BY <1>2, MessageFacts, EmptyRows DEF Passed, QueueRows
<1>7. Gapless
  BY <1>2, <1>6, MessageFacts DEF Gapless, Holds
<1>8. Decided
  <2>1. {r \in RowSet(loaded) : KindOf(r) = "skip"} = {}
    BY <1>2, EmptyRows
  <2>2. skipped = Cardinality({r \in RowSet(loaded) : KindOf(r) = "skip"})
    BY <1>2, <2>1, FS_EmptySet
  <2>3. QED BY <1>2, <2>2 DEF Decided, Undecided, Why
<1>9. QED BY <1>3, <1>4, <1>5, <1>7, <1>8 DEF VerdictInv

LEMMA NextVerdictInv == ASSUME PipelineInv, VerdictInv, Next PROVE VerdictInv'
<1>1. Sources' = Sources
  BY NextKeepsInput, InputFixed
<1>2. CASE Producer
  <2>1. NoPanic' => NoPanic
    <3>1. \A s \in Sources : wpc[s] = "panicked" => wpc'[s] = "panicked"
      <4>1. CASE SpawnChunk
        <5>1. ASSUME NEW s \in Sources, s \in Chunk PROVE wpc[s] = "unborn"
          <6>1. first <= s /\ producer = "spawn"
            BY <4>1, <5>1 DEF SpawnChunk, Chunk
          <6>2. QED BY <6>1, InputFacts, TypeFacts DEF PipelineInv, ProducerAt, Begun
        <5>2. QED BY <4>1, <5>1 DEF SpawnChunk
      <4>2. QED BY <1>2, <4>1, ProducerLocal
    <3>2. QED BY <1>1, <3>1 DEF NoPanic
  <2>2. Decided'
    BY <1>2, <2>1, OthersKeepDecided, ProducerLocal
  <2>3. (\A s \in Sources : Building(s))'
    BY <1>1, <1>2, OthersKeepBuilding
  <2>4. BatchesWhole' /\ ErrorsTrue' /\ Gapless'
    BY <1>2, ProducerKeepsWhole, ProducerKeepsErrors, ProducerKeepsGapless
  <2>5. QED BY <2>2, <2>3, <2>4 DEF VerdictInv
<1>3. CASE Main
  <2>1. (\A s \in Sources : Building(s))'
    BY <1>1, <1>3, OthersKeepBuilding
  <2>2. BatchesWhole' /\ ErrorsTrue' /\ Gapless' /\ Decided'
    BY <1>3, MainKeepsWhole, MainKeepsErrors, MainKeepsGapless, MainKeepsDecided
  <2>3. QED BY <2>1, <2>2 DEF VerdictInv
<1>4. ASSUME NEW s \in Sources, Reader(s) PROVE VerdictInv'
  <2>1. NoPanic' => NoPanic
    <3>1. wpc[s] # "panicked" /\ \A t \in Sources \ {s} : wpc'[t] = wpc[t]
      BY <1>4, ReaderLocal
    <3>2. QED BY <1>1, <3>1 DEF NoPanic
  <2>2. Decided'
    BY <1>4, <2>1, ReaderLocal, OthersKeepDecided DEF consume
  <2>3. (\A u \in Sources : Building(u))'
    BY <1>1, <1>4, ReaderKeepsBuilding
  <2>4. BatchesWhole' /\ ErrorsTrue' /\ Gapless'
    BY <1>4, ReaderKeepsWhole, ReaderKeepsErrors, ReaderKeepsGapless
  <2>5. QED BY <2>2, <2>3, <2>4 DEF VerdictInv
<1>5. QED BY <1>2, <1>3, <1>4 DEF Next

LEMMA StutterVerdictInv == ASSUME VerdictInv, UNCHANGED vars PROVE VerdictInv'
<1>1. UNCHANGED <<input, wpc, file, pos, rows, out, queue, cur, producer, parcel, batch, skipped,
                  verdict, loaded, DataRows, Sources, Passed, Undisturbed, NoPanic>>
  BY InputFixed
     DEF vars, readers, channels, collect, consume, Passed, QueueRows, Undisturbed, Undecided, Why,
         NoPanic, Sources
<1>2. \A t : Still(t) /\ OutRows(t)' = OutRows(t) /\ (Holds(t)' <=> Holds(t))
  BY <1>1 DEF Still, OutRows, Holds
<1>3. BatchesWhole'
  BY <1>1, WholeNext DEF VerdictInv, BatchesWhole
<1>4. ASSUME NEW s \in Sources PROVE Building(s)'
  <2>1. PICK t : t = <<s, file'[s], pos'[s]>>
    OBVIOUS
  <2>2. t = Here(s) /\ t[2] = file[s] /\ t[3] = pos[s]
    BY <1>1, <2>1 DEF Here
  <2>3. BuildingAt(s, t)
    BY <1>1, <2>2 DEF VerdictInv, Building, BuildingAt, Whole, BatchOf
  <2>4. QED BY <1>1, <2>1, <2>3, BuildingNext
<1>5. ErrorsTrue'
  BY <1>1, <1>2, HaltedNext DEF VerdictInv, ErrorsTrue
<1>6. Gapless'
  <2>1. \A t : Earlier(t)' = Earlier(t)
    BY <1>1, <1>2, EarlierNext
  <2>2. Earlier(cur)' = Earlier(cur)
    BY <1>1, <1>2, EarlierNext
  <2>3. \A i : Earlier(queue[i].source)' = Earlier(queue[i].source)
    BY <1>1, <1>2, EarlierNext
  <2>4. QED BY <1>1, <1>2, <2>1, <2>2, <2>3 DEF VerdictInv, Gapless, Undecided, Why, Before
<1>7. Decided'
  <2>1. Sequential' = Sequential /\ \A r : KindOf(r)' = KindOf(r)
    BY <1>1, SequentialFixed, InputFixed
  <2>2. Decided /\ RowSet(loaded)' = RowSet(loaded)
    BY <1>1 DEF VerdictInv, RowSet
  <2>3. QED BY <1>1, <2>1, <2>2 DEF Decided, Undecided, Why
<1>8. QED BY <1>1, <1>3, <1>4, <1>5, <1>6, <1>7 DEF VerdictInv

(* Batches are cut at the same rows whatever the threads do, an error stands *)
(* for a record that does not parse, nothing is missing in front of a batch  *)
(* under way, and the main thread counts what it has loaded (produce_source, *)
(* produce, execute).                                                        *)
THEOREM VerdictInvariant == Spec => [](PipelineInv /\ VerdictInv)
<1>1. Init => PipelineInv /\ VerdictInv
  BY InitPipelineInv, InitVerdictInv
<1>2. PipelineInv /\ VerdictInv /\ [Next]_vars => (PipelineInv /\ VerdictInv)'
  BY NextPipelineInv, StutterPipelineInv, NextVerdictInv, StutterVerdictInv
<1>3. QED BY <1>1, <1>2, PTL DEF Spec

\* Ready to finish means that a single thread would have met no fatal batch.
LEMMA ReadyIsSequential ==
  ASSUME PipelineInv, VerdictInv, main = "ready"
  PROVE  Sequential = Undecided
<1>1. /\ RowSet(loaded) = DataRows /\ skipped <= Tolerance
      /\ \A r \in DataRows : KindOf(r) \in {"head", "row", "skip"}
  BY ReadyIsComplete
<1>2. ASSUME NEW k \in Fatal PROVE FALSE
  <2>1. ~Kind(k, "bad") /\ ~Kind(k, "reject")
    BY <1>1 DEF Kind, RowsOfKey
  <2> DEFINE B == {r \in KeysUpTo(k) : KindOf(r) = "skip"}
             A == {r \in RowSet(loaded) : KindOf(r) = "skip"}
  <2>2. IsFiniteSet(RowSet(loaded))
    BY TypeFacts, RowsAsPlaces DEF PipelineInv, InOrder
  <2>3. IsFiniteSet(A) /\ B \subseteq A
    BY <1>1, <2>2, FS_Subset DEF KeysUpTo
  <2>4. IsFiniteSet(B) /\ Cardinality(B) <= Cardinality(A)
    BY <2>3, FS_Subset
  <2>5. Cardinality(B) \in Nat /\ Cardinality(A) = skipped
    BY <2>4, FS_CardinalityType DEF VerdictInv, Decided
  <2>6. BadUpTo(k) = Cardinality(B)
    BY DEF BadUpTo
  <2> HIDE DEF A, B
  <2>7. ~(BadUpTo(k) > Tolerance)
    BY <1>1, <2>4, <2>5, <2>6, TypeFacts
  <2>8. QED BY <2>1, <2>7 DEF Fatal
<1>3. QED BY <1>2 DEF Sequential

(* The verdict of an import is the one of a single thread that reads the     *)
(* sources one after the other and stops at the first batch that is fatal,   *)
(* for any input, any number of readers and any schedule, unless a reader    *)
(* panics or the loader's own reading and writing fails ("deterministic      *)
(* error diagnostics": produce, execute).                                    *)
THEOREM ScheduleFree == Spec => []VerdictIsSequential
<1>1. ASSUME PipelineInv, VerdictInv PROVE VerdictIsSequential
  <2>1. ASSUME main = "failed", verdict.why \notin {"io", "panic"},
               \A s \in Sources : wpc[s] # "panicked"
        PROVE  verdict = Sequential
    <3>1. verdict # Undecided /\ NoPanic
      BY <1>1, <2>1 DEF PipelineInv, MainAt, NoPanic
    <3>2. verdict.why \in {"none", "parse", "reject", "tolerance", "io", "panic"}
      BY <1>1 DEF PipelineInv, TypeOK
    <3>3. verdict.why \in {"parse", "reject", "tolerance"}
      BY <1>1, <2>1, <3>1, <3>2 DEF VerdictInv, Decided
    <3>4. QED BY <1>1, <3>1, <3>3 DEF VerdictInv, Decided
  <2>2. QED BY <1>1, <2>1, ReadyIsSequential DEF VerdictIsSequential
<1>2. QED BY <1>1, VerdictInvariant, PTL

=============================================================================
