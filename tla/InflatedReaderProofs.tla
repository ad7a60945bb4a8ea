------------------------ MODULE InflatedReaderProofs ------------------------
(***************************************************************************)
(* Machine-checked proofs about InflatedReader: for any number and size of  *)
(* the buffers and any file, the reader of a compressed file sees the byte  *)
(* stream it is promised (ByteStream), the buffers go round without loss,   *)
(* and no worker outlives its reader.                                       *)
(***************************************************************************)
EXTENDS InflatedReader, SequenceTheorems, TLAPS

-----------------------------------------------------------------------------
(* Runs of consecutive bytes.                                               *)

LEMMA BytesFacts ==
  ASSUME NEW q \in Bytes
  PROVE  /\ Len(q) \in Nat /\ DOMAIN q = 1 .. Len(q)
         /\ (q # <<>>) = (Len(q) > 0)
         /\ q # None /\ q # Failed
<1>1. Len(q) \in Nat /\ DOMAIN q = 1 .. Len(q)
  BY LenProperties DEF Bytes
<1>2. q # <<>> => Len(q) > 0
  BY EmptySeq DEF Bytes
<1>3. Len(q) > 0 => q # <<>>
  BY EmptySeq
<1>4. q \in Seq(Nat)
  BY 1 .. MaxBytes \subseteq Nat, SeqMonotonic, InflatedReaderAssumption DEF Bytes
<1>5. QED BY <1>1, <1>2, <1>3, <1>4, InflatedReaderAssumption

\* Runs of consecutive bytes: the empty one, two joined, one cut.
LEMMA EmptyRun == /\ <<>> \in Bytes /\ Len(<<>>) = 0
                  /\ \A n : RunFrom(<<>>, n)
                  /\ <<>> # None /\ <<>> # Failed
<1>1. <<>> \in Bytes /\ Len(<<>>) = 0
  BY EmptySeq DEF Bytes
<1>2. QED BY <1>1, BytesFacts DEF RunFrom

\* The bytes one call of the decoder yields.
LEMMA NewRun ==
  ASSUME NEW n \in Nat, NEW k \in Nat, n + k <= MaxBytes
  PROVE  /\ [i \in 1 .. k |-> n + i] \in Bytes
         /\ Len([i \in 1 .. k |-> n + i]) = k
         /\ RunFrom([i \in 1 .. k |-> n + i], n)
<1> DEFINE r == [i \in 1 .. k |-> n + i]
<1>1. r \in [1 .. k -> 1 .. MaxBytes]
  BY InflatedReaderAssumption
<1>2. r \in Seq(1 .. MaxBytes)
  BY <1>1, SeqDef
<1>3. DOMAIN r = 1 .. k /\ Len(r) = k
  BY <1>2, LenProperties
<1>4. RunFrom(r, n)
  BY DEF RunFrom
<1>5. QED BY <1>2, <1>3, <1>4 DEF Bytes

LEMMA JoinRuns ==
  ASSUME NEW n \in Nat, NEW q \in Bytes, NEW r \in Bytes,
         RunFrom(q, n), RunFrom(r, n + Len(q))
  PROVE  /\ q \o r \in Bytes
         /\ Len(q \o r) = Len(q) + Len(r)
         /\ RunFrom(q \o r, n)
<1>1. /\ q \o r \in Bytes /\ Len(q \o r) = Len(q) + Len(r)
      /\ \A i \in 1 .. Len(q) + Len(r) :
           (q \o r)[i] = IF i <= Len(q) THEN q[i] ELSE r[i - Len(q)]
  BY ConcatProperties DEF Bytes
<1>2. /\ Len(q) \in Nat /\ Len(r) \in Nat
      /\ DOMAIN q = 1 .. Len(q) /\ DOMAIN r = 1 .. Len(r)
      /\ DOMAIN (q \o r) = 1 .. Len(q) + Len(r)
  BY <1>1, BytesFacts
<1>3. ASSUME NEW i \in 1 .. Len(q) + Len(r)
      PROVE  (q \o r)[i] = n + i
  <2>1. CASE i <= Len(q)
    BY <1>1, <1>2, <2>1 DEF RunFrom
  <2>2. CASE ~(i <= Len(q))
    <3>1. i - Len(q) \in DOMAIN r
      BY <1>2, <2>2
    <3>2. r[i - Len(q)] = n + Len(q) + (i - Len(q))
      BY <3>1 DEF RunFrom
    <3>3. QED BY <1>1, <1>2, <2>2, <3>2
  <2>3. QED BY <2>1, <2>2
<1>4. QED BY <1>1, <1>2, <1>3 DEF RunFrom

LEMMA CutRun ==
  ASSUME NEW n \in Nat, NEW q \in Bytes, RunFrom(q, n), NEW k \in 1 .. Len(q)
  PROVE  /\ SubSeq(q, 1, k) \in Bytes /\ Len(SubSeq(q, 1, k)) = k
         /\ RunFrom(SubSeq(q, 1, k), n)
         /\ SubSeq(q, k + 1, Len(q)) \in Bytes
         /\ Len(SubSeq(q, k + 1, Len(q))) = Len(q) - k
         /\ RunFrom(SubSeq(q, k + 1, Len(q)), n + k)
         /\ SubSeq(q, 1, k) = [i \in 1 .. k |-> n + i]
<1>1. Len(q) \in Nat /\ DOMAIN q = 1 .. Len(q) /\ k \in Nat
  BY BytesFacts
<1>2. \A i \in 1 .. Len(q) : q[i] \in 1 .. MaxBytes /\ q[i] = n + i
  BY <1>1, ElementOfSeq DEF Bytes, RunFrom
<1> DEFINE a == SubSeq(q, 1, k)
           b == SubSeq(q, k + 1, Len(q))
<1>3. /\ a \in Seq(1 .. MaxBytes) /\ Len(a) = k
      /\ \A i \in 1 .. k : a[i] = q[i]
  <2>1. \A i \in 1 .. k : q[i] \in 1 .. MaxBytes
    BY <1>1, <1>2
  <2>2. /\ a \in Seq(1 .. MaxBytes)
        /\ Len(a) = IF 1 <= k THEN k - 1 + 1 ELSE 0
        /\ \A i \in 1 .. k - 1 + 1 : a[i] = q[1 + i - 1]
    BY <1>1, <2>1, SubSeqProperties, 1 \in Int, k \in Int
  <2>3. QED BY <1>1, <2>2
<1>4. /\ b \in Seq(1 .. MaxBytes) /\ Len(b) = Len(q) - k
      /\ \A i \in 1 .. Len(q) - k : b[i] = q[k + i]
  <2>1. \A i \in k + 1 .. Len(q) : q[i] \in 1 .. MaxBytes
    BY <1>1, <1>2
  <2>2. /\ b \in Seq(1 .. MaxBytes)
        /\ Len(b) = IF k + 1 <= Len(q) THEN Len(q) - (k + 1) + 1 ELSE 0
        /\ \A i \in 1 .. Len(q) - (k + 1) + 1 : b[i] = q[k + 1 + i - 1]
    BY <1>1, <2>1, SubSeqProperties, k + 1 \in Int, Len(q) \in Int
  <2>3. Len(b) = Len(q) - k
    <3>1. Len(b) = IF k + 1 <= Len(q) THEN Len(q) - (k + 1) + 1 ELSE 0
      BY <2>2
    <3> DEFINE n1 == Len(q)
               m1 == Len(b)
    <3> HIDE DEF n1, m1
    <3>2. n1 \in Nat /\ k \in 1 .. n1 /\ m1 = IF k + 1 <= n1 THEN n1 - (k + 1) + 1 ELSE 0
      BY <1>1, <3>1 DEF n1, m1
    <3>3. m1 = n1 - k
      BY <3>2
    <3>4. QED BY <3>3 DEF n1, m1
  <2>4. ASSUME NEW i \in 1 .. Len(q) - k PROVE b[i] = q[k + i]
    <3>1. i \in 1 .. Len(q) - (k + 1) + 1 /\ k + 1 + i - 1 = k + i
      BY <1>1
    <3>2. b[i] = q[k + 1 + i - 1]
      BY <2>2, <3>1
    <3>3. QED BY <3>1, <3>2
  <2>5. QED BY <2>2, <2>3, <2>4
<1> HIDE DEF a, b
<1>5. DOMAIN a = 1 .. k /\ DOMAIN b = 1 .. Len(q) - k
  BY <1>3, <1>4, LenProperties
<1>6. RunFrom(a, n) /\ RunFrom(b, n + k)
  <2>1. RunFrom(a, n)
    BY <1>1, <1>2, <1>3, <1>5 DEF RunFrom
  <2>2. ASSUME NEW i \in 1 .. Len(q) - k PROVE b[i] = n + k + i
    <3>1. k + i \in 1 .. Len(q)
      BY <1>1
    <3>2. q[k + i] = n + (k + i)
      BY <1>2, <3>1
    <3>3. QED BY <1>4, <3>2
  <2>3. QED BY <1>5, <2>1, <2>2 DEF RunFrom
<1>7. a = [i \in 1 .. k |-> n + i]
  <2>1. a \in [1 .. k -> 1 .. MaxBytes]
    BY <1>3, LenProperties
  <2>2. QED BY <2>1, <1>1, <1>2, <1>3
<1>8. QED BY <1>3, <1>4, <1>6, <1>7 DEF a, b, Bytes

-----------------------------------------------------------------------------
(* What the invariant says of the sequences of a state.                     *)

LEMMA StateFacts ==
  ASSUME InflatedInv
  PROVE  /\ input.length \in Nat /\ input.length <= MaxBytes
         /\ decoded \in Nat /\ decoded <= input.length
         /\ Buffers \in Nat /\ free \in Nat /\ Capacity \in Nat
         /\ out \in Bytes /\ held \in Bytes /\ Unread \in Bytes /\ Queued \in Bytes
         /\ Len(out) \in Nat /\ Len(held) \in Nat
         /\ Len(Unread) \in Nat /\ Len(Queued) \in Nat
         /\ InWorker \in {0, 1} /\ InQueue \in {0, 1} /\ InReader \in {0, 1}
<1>1. input \in [length : 0 .. MaxBytes, ending : Stream!Endings]
  BY DEF InflatedInv, TypeOK, Stream!Inputs
<1>2. /\ input.length \in 0 .. MaxBytes /\ decoded \in 0 .. input.length
      /\ free \in 0 .. Buffers
  BY <1>1 DEF InflatedInv, TypeOK
<1>3. /\ input.length \in Nat /\ input.length <= MaxBytes
      /\ decoded \in Nat /\ decoded <= input.length
      /\ Buffers \in Nat /\ free \in Nat /\ Capacity \in Nat
  BY <1>2, InflatedReaderAssumption
<1>4. out \in Bytes /\ held \in Bytes /\ Unread \in Bytes
  BY EmptyRun DEF InflatedInv, TypeOK, Unread
<1>5. Queued \in Bytes
  BY EmptyRun DEF InflatedInv, QueueAt, Queued
<1>6. InWorker \in {0, 1} /\ InQueue \in {0, 1} /\ InReader \in {0, 1}
  BY DEF InWorker, InQueue, InReader
<1>7. QED BY <1>3, <1>4, <1>5, <1>6, BytesFacts

\* Sequences of one item.
LEMMA OneItem ==
  ASSUME NEW x
  PROVE  /\ Append(<<>>, x) = <<x>> /\ <<x>> # <<>> /\ Head(<<x>>) = x
         /\ Tail(<<x>>) = <<>> /\ Len(<<x>>) = 1 /\ Len(<<>>) = 0
OBVIOUS

\* The channel is empty or holds one item.
LEMMA QueueCases ==
  ASSUME InflatedInv
  PROVE  /\ queue = <<>> \/ (queue = <<Head(queue)>> /\ queue # <<>> /\ Len(queue) = 1)
         /\ Len(queue) < 1 <=> queue = <<>>
         /\ queue = <<>> => Queued = <<>> /\ InQueue = 0
         /\ queue # <<>> /\ Head(queue) # Failed =>
              Queued = Head(queue) /\ Queued # <<>> /\ InQueue = 1
         /\ queue # <<>> /\ Head(queue) = Failed => Queued = <<>> /\ InQueue = 0
<1>1. queue # <<>> => queue = <<Head(queue)>> /\ Len(<<Head(queue)>>) = 1
  BY OneItem DEF InflatedInv, QueueAt
<1>2. queue = <<>> => Len(queue) = 0
  BY OneItem
<1>3. QED BY <1>1, <1>2 DEF InflatedInv, QueueAt, Queued, InQueue

\* The buffers counted once more after a step.
LEMMA BuffersKept ==
  ASSUME TypeOK', Len(queue') <= 1,
         free' + InWorker' + InQueue' + InReader' <= Buffers,
         (linked /\ ~Ended /\ worker # "report")' =>
            free' + InWorker' + InQueue' + InReader' = Buffers
  PROVE  ThreeBuffers'
BY DEF ThreeBuffers

LEMMA InitInflatedInv == ASSUME Init PROVE InflatedInv
<1>1. /\ input \in Stream!Inputs /\ out = <<>> /\ verdict = "open"
      /\ decoded = 0 /\ worker = "recv" /\ held = <<>> /\ stop = None
      /\ free = Buffers /\ queue = <<>>
      /\ linked = TRUE /\ reader = "idle" /\ current = None /\ reason = None
  BY DEF Init, Stream!Init
<1>2. input.length \in 0 .. MaxBytes
  BY <1>1 DEF Stream!Inputs
<1>3. TypeOK
  BY <1>1, <1>2, EmptyRun, InflatedReaderAssumption DEF TypeOK
<1>4. ThreeBuffers
  BY <1>1, <1>3, EmptyRun, InflatedReaderAssumption
     DEF ThreeBuffers, InWorker, InQueue, InReader, Ended
<1>5. WorkerAt /\ QueueAt /\ ReaderAt
  BY <1>1, InflatedReaderAssumption DEF WorkerAt, QueueAt, ReaderAt
<1>6. BytesInOrder
  BY <1>1, EmptyRun DEF BytesInOrder, Unread, Queued
<1>7. QED BY <1>3, <1>4, <1>5, <1>6 DEF InflatedInv

-----------------------------------------------------------------------------
(* Every step of the worker keeps the invariant.                            *)

LEMMA RecvKeeps == ASSUME InflatedInv, Recv PROVE InflatedInv'
<1>1. TypeOK'
  BY StateFacts DEF InflatedInv, TypeOK, Recv, readerVars
<1>2. ThreeBuffers'
  <2>1. InQueue' = InQueue /\ InReader' = InReader /\ Len(queue') <= 1 /\ InWorker = 0
    BY DEF InflatedInv, ThreeBuffers, Recv, readerVars, InQueue, InReader, InWorker
  <2>2. CASE free > 0 /\ free' = free - 1 /\ worker' = "fill"
    <3>1. InWorker' = 1 /\ ~Ended
      BY <2>2 DEF InWorker, Recv, Ended
    <3>2. linked' = linked /\ worker # "report"
      BY DEF Recv, readerVars
    <3>3. QED BY <1>1, <2>1, <2>2, <3>1, <3>2, StateFacts, BuffersKept
              DEF InflatedInv, ThreeBuffers
  <2>3. CASE free = 0 /\ ~linked /\ worker' = "gone" /\ UNCHANGED free
    <3>1. InWorker' = 0 /\ ~linked'
      BY <2>3 DEF InWorker, Recv, readerVars
    <3>2. QED BY <1>1, <2>1, <2>3, <3>1, StateFacts, BuffersKept DEF InflatedInv, ThreeBuffers
  <2>4. QED BY <2>2, <2>3 DEF Recv
<1>3. WorkerAt'
  BY InflatedReaderAssumption DEF InflatedInv, WorkerAt, Recv, readerVars
<1>4. QueueAt'
  BY InflatedReaderAssumption DEF InflatedInv, QueueAt, WorkerAt, ReaderAt, Recv, readerVars
<1>5. ReaderAt'
  BY InflatedReaderAssumption DEF InflatedInv, ReaderAt, Ended, Recv, readerVars
<1>6. BytesInOrder'
  BY DEF InflatedInv, BytesInOrder, Unread, Queued, Recv, readerVars
<1>7. QED BY <1>1, <1>2, <1>3, <1>4, <1>5, <1>6 DEF InflatedInv

LEMMA DecodeKeeps == ASSUME InflatedInv, Decode PROVE InflatedInv'
<1>1. PICK k \in 1 .. Capacity - Len(held) :
        /\ decoded + k <= input.length
        /\ held' = held \o [i \in 1 .. k |-> decoded + i]
        /\ decoded' = decoded + k
  BY DEF Decode
<1> DEFINE r == [i \in 1 .. k |-> decoded + i]
<1>2. /\ UNCHANGED <<input, worker, stop, free, queue, linked, reader, current, reason, out,
                     verdict>>
      /\ worker = "fill" /\ Len(held) < Capacity
  BY DEF Decode, readerVars
<1>3. k \in Nat /\ k <= Capacity - Len(held) /\ k > 0
  BY StateFacts
<1>4. r \in Bytes /\ Len(r) = k /\ RunFrom(r, decoded)
  <2>1. decoded \in Nat /\ decoded + k <= MaxBytes
    BY <1>1, <1>3, StateFacts, InflatedReaderAssumption
  <2>2. QED BY <1>3, <2>1, NewRun
<1> HIDE DEF r
<1>5. held' \in Bytes /\ Len(held') = Len(held) + k
  BY <1>1, <1>4, StateFacts, ConcatProperties DEF Bytes, r
<1>6. TypeOK'
  <2>1. input.length \in Nat /\ decoded \in Nat /\ Capacity \in Nat /\ Len(held) \in Nat
    BY StateFacts
  <2>2. decoded' \in 0 .. input'.length
    <3>1. decoded + k \in 0 .. input.length
      BY <1>1, <1>3, <2>1
    <3>2. QED BY <1>1, <1>2, <3>1
  <2>3. Len(held') <= Capacity
    BY <1>3, <1>5, <2>1
  <2>4. QED BY <1>2, <1>5, <2>2, <2>3, SMTT(60) DEF InflatedInv, TypeOK
<1>7. ThreeBuffers'
  BY <1>2, <1>6 DEF InflatedInv, ThreeBuffers, InWorker, InQueue, InReader, Ended
<1>8. WorkerAt'
  BY <1>2 DEF InflatedInv, WorkerAt
<1>9. QueueAt'
  BY <1>2 DEF InflatedInv, QueueAt
<1>10. ReaderAt'
  BY <1>2 DEF InflatedInv, ReaderAt, Ended
<1>11. BytesInOrder'
  <2>1. Unread' = Unread /\ Queued' = Queued
    BY <1>2 DEF Unread, Queued
  <2>2. Len(out') <= decoded' /\ RunFrom(out', 0)
    BY <1>1, <1>2, <1>3, StateFacts DEF InflatedInv, BytesInOrder
  <2>3. ASSUME linked
        PROVE  /\ RunFrom(held', Len(out) + Len(Unread) + Len(Queued))
               /\ Len(out) + Len(Unread) + Len(Queued) + Len(held') = decoded'
    <3> DEFINE n == Len(out) + Len(Unread) + Len(Queued)
    <3>1. n \in Nat /\ RunFrom(held, n) /\ n + Len(held) = decoded
      BY <2>3, StateFacts DEF InflatedInv, BytesInOrder
    <3>2. n + Len(held') = decoded'
      BY <1>1, <1>3, <1>5, <3>1, StateFacts
    <3>3. RunFrom(held', n)
      <4> HIDE DEF n
      <4>1. held' = held \o r
        BY <1>1 DEF r
      <4>2. QED BY <1>4, <3>1, <4>1, StateFacts, JoinRuns
    <3>4. QED BY <3>2, <3>3
  <2>4. QED BY <1>2, <2>1, <2>2, <2>3 DEF InflatedInv, BytesInOrder
<1>12. QED BY <1>6, <1>7, <1>8, <1>9, <1>10, <1>11 DEF InflatedInv

LEMMA FullKeeps == ASSUME InflatedInv, Full PROVE InflatedInv'
<1>1. /\ UNCHANGED <<input, decoded, held, stop, free, queue, linked, reader, current, reason,
                     out, verdict>>
      /\ worker = "fill" /\ worker' = "send" /\ Len(held) = Capacity
  BY DEF Full, readerVars
<1>2. TypeOK'
  BY <1>1 DEF InflatedInv, TypeOK
<1>3. ThreeBuffers'
  BY <1>1, <1>2 DEF InflatedInv, ThreeBuffers, InWorker, InQueue, InReader, Ended
<1>4. WorkerAt'
  BY <1>1, EmptyRun, InflatedReaderAssumption DEF InflatedInv, WorkerAt
<1>5. QueueAt'
  BY <1>1 DEF InflatedInv, QueueAt
<1>6. ReaderAt'
  BY <1>1 DEF InflatedInv, ReaderAt, Ended
<1>7. BytesInOrder'
  BY <1>1 DEF InflatedInv, BytesInOrder, Unread, Queued
<1>8. QED BY <1>2, <1>3, <1>4, <1>5, <1>6, <1>7 DEF InflatedInv

LEMMA DecodeEndsKeeps == ASSUME InflatedInv, DecodeEnds PROVE InflatedInv'
<1>1. /\ UNCHANGED <<input, decoded, held, free, queue, linked, reader, current, reason, out,
                     verdict>>
      /\ worker = "fill" /\ decoded = input.length /\ stop = None
      /\ input.ending \in {"eof", "error", "panic"}
  BY DEF DecodeEnds, readerVars, InflatedInv, WorkerAt, TypeOK, Stream!Inputs, Stream!Endings
<1>2. \/ input.ending = "panic" /\ worker' = "panicked" /\ stop' = None
      \/ input.ending # "panic" /\ held # <<>> /\ worker' = "send" /\ stop' = input.ending
      \/ input.ending = "error" /\ held = <<>> /\ worker' = "report" /\ stop' = "error"
      \/ input.ending = "eof" /\ held = <<>> /\ worker' = "gone" /\ stop' = "eof"
  BY <1>1 DEF DecodeEnds
<1>3. queue # <<>> => Head(queue) # Failed
  BY <1>1 DEF InflatedInv, QueueAt
<1>4. TypeOK'
  BY <1>1, <1>2 DEF InflatedInv, TypeOK
<1>5. ThreeBuffers'
  <2>1. InQueue' = InQueue /\ InReader' = InReader /\ Len(queue') <= 1 /\ InWorker = 1
    BY <1>1 DEF InflatedInv, ThreeBuffers, InQueue, InReader, InWorker
  <2>2. /\ InWorker' \in {0, 1}
        /\ (linked /\ ~Ended /\ worker # "report")' => InWorker' = 1
    BY <1>2 DEF InWorker, Ended
  <2>3. ~Ended /\ worker # "report" /\ linked' = linked /\ free' = free
    BY <1>1 DEF Ended
  <2>4. QED BY <1>4, <2>1, <2>2, <2>3, StateFacts, BuffersKept DEF InflatedInv, ThreeBuffers
<1>6. WorkerAt'
  BY <1>1, <1>2, InflatedReaderAssumption DEF InflatedInv, WorkerAt
<1>7. QueueAt'
  <2>1. queue' # <<>> => /\ linked' /\ queue' = <<Head(queue')>>
                         /\ Head(queue') = Failed \/ Head(queue') \in Bytes \ {<<>>}
    BY <1>1 DEF InflatedInv, QueueAt
  <2>2. worker' = "gone" => stop' = "eof"
    BY <1>2
  <2>3. QED BY <1>1, <1>3, <2>1, <2>2 DEF QueueAt
<1>8. ReaderAt'
  BY <1>1, <1>2 DEF InflatedInv, ReaderAt, Ended
<1>9. BytesInOrder'
  BY <1>1 DEF InflatedInv, BytesInOrder, Unread, Queued
<1>10. QED BY <1>4, <1>5, <1>6, <1>7, <1>8, <1>9 DEF InflatedInv

LEMMA SendKeeps == ASSUME InflatedInv, Send PROVE InflatedInv'
<1>1. /\ UNCHANGED <<input, decoded, stop, free, linked, reader, current, reason, out, verdict>>
      /\ worker = "send" /\ held \in Bytes \ {<<>>} /\ held' = <<>> /\ held # Failed
      /\ stop \in {None, "eof", "error"}
  BY BytesFacts DEF Send, readerVars, InflatedInv, WorkerAt, TypeOK
<1>2. \/ ~linked /\ worker' = "gone" /\ queue' = queue
      \/ /\ linked /\ queue = <<>> /\ queue' = <<held>> /\ queue' # <<>> /\ Head(queue') = held
         /\ Len(queue') = 1
         /\ \/ stop = None /\ worker' = "recv"
            \/ stop = "error" /\ worker' = "report"
            \/ stop = "eof" /\ worker' = "gone"
  <2>1. CASE ~linked
    <3>1. worker' = "gone" /\ queue' = queue
      BY <2>1 DEF Send
    <3>2. QED BY <2>1, <3>1
  <2>2. CASE linked
    <3>1. queue = <<>> /\ queue' = Append(<<>>, held)
      BY <2>2, QueueCases DEF Send
    <3>2. /\ queue' = <<held>> /\ queue' # <<>> /\ Head(queue') = held /\ Len(queue') = 1
      BY <3>1, OneItem
    <3>3. \/ stop = None /\ worker' = "recv"
          \/ stop = "error" /\ worker' = "report"
          \/ stop = "eof" /\ worker' = "gone"
      BY <1>1, <2>2, InflatedReaderAssumption DEF Send
    <3>4. QED BY <2>2, <3>1, <3>2, <3>3
  <2>3. QED BY <2>1, <2>2
<1>3. TypeOK'
  BY <1>1, <1>2, EmptyRun, InflatedReaderAssumption DEF InflatedInv, TypeOK
<1>4. ThreeBuffers'
  <2>1. InReader' = InReader /\ InWorker = 1 /\ InWorker' = 0
    BY <1>1, <1>2 DEF InReader, InWorker
  <2>2. CASE ~linked
    BY <1>1, <1>2, <1>3, <2>1, <2>2, StateFacts, BuffersKept
       DEF InflatedInv, ThreeBuffers, InQueue
  <2>3. CASE linked
    <3>1. InQueue = 0 /\ InQueue' = 1
      BY <1>1, <1>2, <2>3 DEF InQueue
    <3>2. ~Ended /\ worker # "report"
      BY <1>1 DEF Ended
    <3>3. free + InWorker + InQueue + InReader = Buffers
      BY <2>3, <3>2 DEF InflatedInv, ThreeBuffers
    <3>4. free' + InWorker' + InQueue' + InReader' = Buffers
      BY <1>1, <2>1, <3>1, <3>3, StateFacts
    <3>5. Len(queue') <= 1
      <4>1. Len(queue') = 1
        BY <1>2, <2>3, Zenon
      <4>2. QED BY <4>1
    <3>6. free' + InWorker' + InQueue' + InReader' <= Buffers
      BY <3>4, InflatedReaderAssumption
    <3>7. QED BY <1>3, <3>4, <3>5, <3>6, BuffersKept
  <2>4. QED BY <2>2, <2>3
<1>5. WorkerAt'
  BY <1>1, <1>2 DEF InflatedInv, WorkerAt
<1>6. QueueAt'
  <2>1. CASE ~linked
    BY <1>1, <1>2, <2>1 DEF InflatedInv, QueueAt
  <2>2. CASE linked
    BY <1>1, <1>2, <2>2 DEF QueueAt
  <2>3. QED BY <2>1, <2>2
<1>7. ReaderAt'
  BY <1>1, <1>2 DEF InflatedInv, ReaderAt, Ended
<1>8. BytesInOrder'
  <2>1. Unread' = Unread
    BY <1>1 DEF Unread
  <2>2. CASE ~linked
    BY <1>1, <2>2 DEF InflatedInv, BytesInOrder
  <2>3. CASE linked
    <3>1. Queued = <<>> /\ Queued' = held
      BY <1>1, <1>2, <2>3 DEF Queued
    <3>2. /\ RunFrom(Unread, Len(out)) /\ RunFrom(out, 0) /\ Len(out) <= decoded
          /\ RunFrom(held, Len(out) + Len(Unread) + Len(Queued))
          /\ Len(out) + Len(Unread) + Len(Queued) + Len(held) = decoded
      BY <2>3 DEF InflatedInv, BytesInOrder
    <3>3. Len(Queued) = 0 /\ Len(held') = 0 /\ \A n : RunFrom(held', n)
      BY <1>1, <3>1, EmptyRun
    <3>4. RunFrom(Queued', Len(out) + Len(Unread))
      BY <3>1, <3>2, <3>3, StateFacts
    <3>5. Len(out) + Len(Unread) + Len(Queued') + Len(held') = decoded
      BY <3>1, <3>2, <3>3, StateFacts
    <3>6. QED BY <1>1, <2>1, <3>2, <3>3, <3>4, <3>5 DEF BytesInOrder
  <2>4. QED BY <2>2, <2>3
<1>9. QED BY <1>3, <1>4, <1>5, <1>6, <1>7, <1>8 DEF InflatedInv

LEMMA ReportKeeps == ASSUME InflatedInv, Report PROVE InflatedInv'
<1>1. /\ UNCHANGED <<input, decoded, held, stop, free, linked, reader, current, reason, out,
                     verdict>>
      /\ worker = "report" /\ worker' = "gone" /\ stop = "error" /\ held = <<>>
  BY DEF Report, readerVars, InflatedInv, WorkerAt
<1>2. \/ ~linked /\ queue' = queue
      \/ /\ linked /\ queue = <<>> /\ queue' = <<Failed>> /\ queue' # <<>>
         /\ Head(queue') = Failed /\ Len(queue') = 1
  <2>1. CASE ~linked
    BY <2>1 DEF Report
  <2>2. CASE linked
    <3>1. queue = <<>> /\ queue' = Append(<<>>, Failed)
      BY <2>2, QueueCases DEF Report
    <3>2. QED BY <2>2, <3>1, OneItem
  <2>3. QED BY <2>1, <2>2
<1>3. TypeOK'
  BY <1>1 DEF InflatedInv, TypeOK
<1>4. ThreeBuffers'
  <2>1. InReader' = InReader /\ InWorker = 0 /\ InWorker' = 0 /\ Ended'
    BY <1>1 DEF InReader, InWorker, Ended
  <2>2. InQueue' = InQueue /\ Len(queue') <= 1
    <3>1. CASE ~linked
      BY <1>2, <3>1 DEF InQueue, InflatedInv, ThreeBuffers
    <3>2. CASE linked
      <4>1. InQueue = 0 /\ InQueue' = 0
        BY <1>2, <3>2 DEF InQueue
      <4>2. Len(queue') = 1
        BY <1>2, <3>2, Zenon
      <4>3. QED BY <4>1, <4>2
    <3>3. QED BY <3>1, <3>2
  <2>3. QED BY <1>1, <1>3, <2>1, <2>2, StateFacts, BuffersKept DEF InflatedInv, ThreeBuffers
<1>5. WorkerAt'
  BY <1>1 DEF InflatedInv, WorkerAt
<1>6. QueueAt'
  <2>1. CASE ~linked
    BY <1>1, <1>2, <2>1 DEF InflatedInv, QueueAt
  <2>2. CASE linked
    BY <1>1, <1>2, <2>2 DEF QueueAt
  <2>3. QED BY <2>1, <2>2
<1>7. ReaderAt'
  BY <1>1 DEF InflatedInv, ReaderAt, Ended
<1>8. BytesInOrder'
  <2>1. Unread' = Unread /\ Queued' = Queued
    BY <1>1, <1>2 DEF Unread, Queued
  <2>2. QED BY <1>1, <2>1 DEF InflatedInv, BytesInOrder
<1>9. QED BY <1>3, <1>4, <1>5, <1>6, <1>7, <1>8 DEF InflatedInv

-----------------------------------------------------------------------------
(* Every step of the reader keeps the invariant.                            *)

LEMMA CallKeeps == ASSUME InflatedInv, Call PROVE InflatedInv'
<1>1. /\ UNCHANGED <<input, decoded, worker, held, stop, queue, linked, reason, out, verdict>>
      /\ reader = "idle" /\ verdict = "open" /\ reader' = "reading" /\ linked
      /\ reason = None
  BY DEF Call, workerVars, InflatedInv, ReaderAt
<1>2. \/ current = <<>> /\ current' = None
         /\ \/ Ended /\ free' = free
            \/ ~Ended /\ free' = free + 1
      \/ current # <<>> /\ current' = current /\ free' = free
  <2>1. CASE current = <<>>
    <3>1. current' = None /\ free' = IF Ended THEN free ELSE free + 1
      BY <2>1 DEF Call
    <3>2. (Ended /\ free' = free) \/ (~Ended /\ free' = free + 1)
      BY <3>1 DEF Ended
    <3>3. QED BY <2>1, <3>1, <3>2, Zenon
  <2>2. CASE current # <<>>
    BY <2>2 DEF Call
  <2>3. QED BY <2>1, <2>2
<1>3. Unread' = Unread /\ Len(queue') <= 1 /\ InWorker' = InWorker /\ InQueue' = InQueue
  BY <1>1, <1>2 DEF Unread, InWorker, InQueue, InflatedInv, ThreeBuffers
<1>4. free' \in 0 .. Buffers /\ free' + InReader' <= free + InReader
      /\ (~Ended => free' + InReader' = free + InReader)
  <2>1. CASE current = <<>> /\ current' = None /\ Ended /\ free' = free
    <3>1. InReader = 1 /\ InReader' = 0
      BY <2>1, EmptyRun DEF InReader
    <3>2. QED BY <2>1, <3>1, StateFacts DEF InflatedInv, TypeOK
  <2>2. CASE current = <<>> /\ current' = None /\ ~Ended /\ free' = free + 1
    <3>1. InReader = 1 /\ InReader' = 0
      BY <2>2, EmptyRun DEF InReader
    <3>2. free + InWorker + InQueue + InReader <= Buffers
      BY DEF InflatedInv, ThreeBuffers
    <3>3. QED BY <2>2, <3>1, <3>2, StateFacts
  <2>3. CASE current # <<>> /\ current' = current /\ free' = free
    <3>1. InReader' = InReader
      BY <2>3 DEF InReader
    <3>2. QED BY <2>3, <3>1, StateFacts DEF InflatedInv, TypeOK
  <2>4. QED BY <1>2, <2>1, <2>2, <2>3
<1>5. TypeOK'
  BY <1>1, <1>2, <1>4 DEF InflatedInv, TypeOK
<1>6. ThreeBuffers'
  <2>1. free + InWorker + InQueue + InReader <= Buffers
        /\ (~Ended /\ worker # "report" => free + InWorker + InQueue + InReader = Buffers)
    BY <1>1 DEF InflatedInv, ThreeBuffers
  <2>2. (Ended' <=> Ended) /\ worker' = worker /\ InReader' \in {0, 1} /\ free' \in Nat
    BY <1>1, <1>4, InflatedReaderAssumption DEF Ended, InReader
  <2>3. free' + InWorker' + InQueue' + InReader' <= Buffers
    <3>1. /\ free' + InReader' <= free + InReader
          /\ free + InWorker + InQueue + InReader <= Buffers
          /\ InWorker' = InWorker /\ InQueue' = InQueue
      BY <1>3, <1>4, <2>1
    <3>2. free' \in Nat /\ InReader' \in Nat
      BY <2>2
    <3>3. InWorker \in Nat /\ InQueue \in Nat /\ InReader \in Nat /\ free \in Nat
          /\ Buffers \in Nat
      BY StateFacts
    <3>4. \A a, b, c, d, e, f, m \in Nat :
            a + d <= e + f /\ e + b + c + f <= m => a + b + c + d <= m
      OBVIOUS
    <3>5. free' + InWorker + InQueue + InReader' <= Buffers
      BY <3>1, <3>2, <3>3, <3>4, Zenon
    <3>6. QED BY <3>1, <3>5
  <2>4. ASSUME ~Ended, worker # "report"
        PROVE  free' + InWorker' + InQueue' + InReader' = Buffers
    BY <1>3, <1>4, <2>1, <2>2, <2>4, StateFacts, SMTT(30)
  <2>5. QED BY <1>3, <1>5, <2>2, <2>3, <2>4, BuffersKept
<1>7. WorkerAt' /\ QueueAt'
  BY <1>1 DEF InflatedInv, WorkerAt, QueueAt
<1>8. ReaderAt'
  BY <1>1, <1>2, EmptyRun, InflatedReaderAssumption DEF InflatedInv, ReaderAt, Ended
<1>9. BytesInOrder'
  <2>1. Queued' = Queued
    BY <1>1 DEF Queued
  <2>2. QED BY <1>1, <1>3, <2>1 DEF InflatedInv, BytesInOrder
<1>10. QED BY <1>5, <1>6, <1>7, <1>8, <1>9 DEF InflatedInv

LEMMA ReceiveKeeps == ASSUME InflatedInv, Receive PROVE InflatedInv'
<1>1. /\ UNCHANGED <<input, decoded, worker, held, stop, free, linked, reader, reason, out,
                     verdict>>
      /\ reader = "reading" /\ current = None /\ linked /\ reason = None /\ verdict = "open"
  BY DEF Receive, workerVars, InflatedInv, ReaderAt
<1>2. /\ queue = <<Head(queue)>> /\ current' = Head(queue) /\ queue' = <<>>
      /\ current' \in Bytes \ {<<>>} /\ current' # None /\ current' # Failed
      /\ InQueue = 1 /\ InQueue' = 0 /\ Queued = current' /\ Queued' = <<>>
  <2>1. queue # <<>> /\ Head(queue) # Failed /\ current' = Head(queue) /\ queue' = Tail(queue)
    BY DEF Receive
  <2>2. queue = <<Head(queue)>> /\ queue' = <<>>
    BY <2>1, QueueCases, OneItem
  <2>3. current' \in Bytes \ {<<>>}
    BY <2>1 DEF InflatedInv, QueueAt
  <2>4. QED BY <2>1, <2>2, <2>3, QueueCases, BytesFacts DEF InQueue, Queued
<1>3. InReader = 0 /\ InReader' = 1 /\ InWorker' = InWorker /\ Unread = <<>>
      /\ Unread' = current'
  BY <1>1, <1>2 DEF InReader, InWorker, Unread
<1>4. TypeOK'
  BY <1>1, <1>2 DEF InflatedInv, TypeOK
<1>5. ThreeBuffers'
  <2>1. Len(queue') <= 1
    BY <1>2, OneItem
  <2>2. free + InWorker + InQueue + InReader <= Buffers
        /\ (~Ended /\ worker # "report" => free + InWorker + InQueue + InReader = Buffers)
    BY <1>1 DEF InflatedInv, ThreeBuffers
  <2>3. Ended' = Ended /\ worker' = worker /\ free' = free
    BY <1>1 DEF Ended
  <2>4. free' + InWorker' + InQueue' + InReader' = free + InWorker + InQueue + InReader
    BY <1>2, <1>3, <2>3, StateFacts
  <2>5. QED BY <1>4, <2>1, <2>2, <2>3, <2>4, BuffersKept
<1>6. WorkerAt'
  BY <1>1 DEF InflatedInv, WorkerAt
<1>7. QueueAt'
  <2>1. linked /\ worker = "gone" => stop = "eof"
    <3>1. queue # <<Failed>>
      BY <1>2, OneItem
    <3>2. QED BY <3>1 DEF InflatedInv, QueueAt
  <2>2. QED BY <1>1, <1>2, <2>1 DEF QueueAt
<1>8. ReaderAt'
  BY <1>1, <1>2, InflatedReaderAssumption DEF InflatedInv, ReaderAt, Ended
<1>9. BytesInOrder'
  <2>1. /\ Len(out) <= decoded /\ RunFrom(out, 0)
        /\ RunFrom(Queued, Len(out) + Len(Unread))
        /\ RunFrom(held, Len(out) + Len(Unread) + Len(Queued))
        /\ Len(out) + Len(Unread) + Len(Queued) + Len(held) = decoded
    BY <1>1 DEF InflatedInv, BytesInOrder
  <2>2. Len(Unread) = 0 /\ Len(Queued') = 0 /\ Unread' = Queued /\ \A n : RunFrom(Queued', n)
    BY <1>2, <1>3, EmptyRun
  <2>3. /\ RunFrom(Unread', Len(out))
        /\ RunFrom(held, Len(out) + Len(Unread') + Len(Queued'))
        /\ Len(out) + Len(Unread') + Len(Queued') + Len(held) = decoded
    <3> DEFINE o == Len(out)
               q == Len(Queued)
    <3>1. o \in Nat /\ q \in Nat /\ o + 0 = o /\ o + 0 + q = o + q + 0 /\ o + q + 0 = o + q
      BY StateFacts
    <3>2. /\ RunFrom(Queued, o + 0) /\ RunFrom(held, o + 0 + q)
          /\ o + 0 + q + Len(held) = decoded
      BY <2>1, <2>2
    <3>3. RunFrom(Queued, o) /\ RunFrom(held, o + q + 0) /\ o + q + 0 + Len(held) = decoded
      BY <3>1, <3>2
    <3>4. QED BY <2>2, <3>3
  <2>4. QED BY <1>1, <2>1, <2>2, <2>3 DEF BytesInOrder
<1>10. QED BY <1>4, <1>5, <1>6, <1>7, <1>8, <1>9 DEF InflatedInv

\* A copy hands out the next bytes.
LEMMA CopyGives ==
  ASSUME InflatedInv, Copy
  PROVE  \E k \in 1 .. Len(Unread) :
           /\ current # None /\ Unread = current /\ current \in Bytes
           /\ k + Len(out) <= decoded
           /\ linked /\ verdict = "open" /\ reason = None /\ reader' = "idle"
           /\ out' = out \o SubSeq(Unread, 1, k)
           /\ current' = SubSeq(Unread, k + 1, Len(Unread))
           /\ RunFrom(Unread, Len(out))
           /\ UNCHANGED <<input, decoded, worker, held, stop, free, queue, linked, reason, verdict>>
<1>1. PICK k \in 1 .. Len(current) : /\ out' = out \o SubSeq(current, 1, k)
                                    /\ current' = SubSeq(current, k + 1, Len(current))
  BY DEF Copy
<1>2. /\ UNCHANGED <<input, decoded, worker, held, stop, free, queue, linked, reason, verdict>>
      /\ reader = "reading" /\ reader' = "idle" /\ current # None
      /\ linked /\ verdict = "open" /\ reason = None /\ current \in Bytes
  BY DEF Copy, workerVars, InflatedInv, ReaderAt, TypeOK
<1>3. Unread = current
  BY <1>2 DEF Unread
<1>4. /\ RunFrom(Unread, Len(out))
      /\ Len(out) + Len(Unread) + Len(Queued) + Len(held) = decoded
  BY <1>2 DEF InflatedInv, BytesInOrder
<1>5. k \in 1 .. Len(Unread) /\ k + Len(out) <= decoded
  BY <1>3, <1>4, StateFacts
<1>6. QED BY <1>1, <1>2, <1>3, <1>4, <1>5

LEMMA CopyKeeps == ASSUME InflatedInv, Copy PROVE InflatedInv'
<1>1. PICK k \in 1 .. Len(Unread) :
           /\ current # None /\ Unread = current /\ current \in Bytes
           /\ k + Len(out) <= decoded
           /\ linked /\ verdict = "open" /\ reason = None /\ reader' = "idle"
           /\ out' = out \o SubSeq(Unread, 1, k)
           /\ current' = SubSeq(Unread, k + 1, Len(Unread))
           /\ RunFrom(Unread, Len(out))
           /\ UNCHANGED <<input, decoded, worker, held, stop, free, queue, linked, reason, verdict>>
  BY CopyGives
<1> DEFINE a == SubSeq(Unread, 1, k)
           b == SubSeq(Unread, k + 1, Len(Unread))
<1>2. /\ a \in Bytes /\ Len(a) = k /\ RunFrom(a, Len(out))
      /\ b \in Bytes /\ Len(b) = Len(Unread) - k /\ RunFrom(b, Len(out) + k)
  BY <1>1, StateFacts, CutRun
<1>3. out' = out \o a /\ current' = b
  BY <1>1
<1> HIDE DEF a, b
<1>4. b # None /\ Unread' = b /\ InReader = 1 /\ InReader' = 1
  BY <1>1, <1>2, <1>3, BytesFacts DEF Unread, InReader
<1>5. out' \in Bytes /\ Len(out') = Len(out) + k /\ RunFrom(out', 0)
  <2>1. RunFrom(out, 0) /\ 0 \in Nat /\ 0 + Len(out) = Len(out)
    BY StateFacts DEF InflatedInv, BytesInOrder
  <2>2. out \o a \in Bytes /\ Len(out \o a) = Len(out) + Len(a) /\ RunFrom(out \o a, 0)
    BY <1>2, <2>1, StateFacts, JoinRuns
  <2>3. QED BY <1>2, <1>3, <2>2
<1>6. TypeOK'
  BY <1>1, <1>2, <1>3, <1>5 DEF InflatedInv, TypeOK
<1>7. ThreeBuffers'
  <2>1. /\ InWorker' = InWorker /\ InQueue' = InQueue /\ InReader' = InReader
        /\ UNCHANGED <<free, queue, linked, worker>> /\ Ended' = Ended
    BY <1>1, <1>4 DEF InWorker, InQueue, Ended
  <2>2. QED BY <1>6, <2>1 DEF InflatedInv, ThreeBuffers
<1>8. WorkerAt' /\ QueueAt'
  BY <1>1 DEF InflatedInv, WorkerAt, QueueAt
<1>9. ReaderAt'
  BY <1>1, InflatedReaderAssumption DEF InflatedInv, ReaderAt, Ended
<1>10. BytesInOrder'
  <2>1. Queued' = Queued /\ held' = held /\ decoded' = decoded
    BY <1>1 DEF Queued
  <2>2. k \in Nat /\ k <= Len(Unread)
    BY StateFacts
  <2> DEFINE o == Len(out)
             u == Len(Unread)
             q == Len(Queued)
  <2>3. /\ o \in Nat /\ u \in Nat /\ q \in Nat
        /\ RunFrom(Queued, o + u) /\ RunFrom(held, o + u + q) /\ o + u + q + Len(held) = decoded
    BY <1>1, StateFacts DEF InflatedInv, BytesInOrder
  <2>4. Len(out') = o + k /\ Len(Unread') = u - k
    BY <1>2, <1>4, <1>5
  <2>5. o + k + (u - k) = o + u
    BY <2>2, <2>3
  <2>6. RunFrom(Queued', Len(out') + Len(Unread'))
        /\ RunFrom(held', Len(out') + Len(Unread') + Len(Queued'))
        /\ Len(out') + Len(Unread') + Len(Queued') + Len(held') = decoded'
    BY <2>1, <2>3, <2>4, <2>5
  <2>7. RunFrom(Unread', Len(out')) /\ Len(out') <= decoded'
    BY <1>1, <1>2, <1>4, <1>5, <2>1, <2>2, StateFacts
  <2>8. QED BY <1>5, <2>6, <2>7 DEF BytesInOrder
<1>11. QED BY <1>6, <1>7, <1>8, <1>9, <1>10 DEF InflatedInv

\* finish() before the join: the reason it is called for holds.
LEMMA HangKeeps ==
  ASSUME InflatedInv, NEW why \in {"eof", "error", "closed"}, Hang(why),
         linked, reader # "joining", verdict = "open",
         why = "eof" =>
           Ended /\ (worker = "panicked" \/ (input.ending = "eof" /\ Len(out) = input.length)),
         why = "error" => input.ending = "error" /\ Len(out) = input.length
  PROVE  InflatedInv'
<1>1. /\ UNCHANGED <<input, decoded, worker, held, stop, free, out, verdict>>
      /\ ~linked' /\ linked' \in BOOLEAN /\ queue' = <<>> /\ current' = None
      /\ reader' = "joining" /\ reason' = why /\ why # None
  BY InflatedReaderAssumption, EmptyRun DEF Hang, workerVars
<1>2. TypeOK'
  BY <1>1 DEF InflatedInv, TypeOK
<1>3. ThreeBuffers'
  <2>1. InWorker' = InWorker /\ InQueue' = 0 /\ InReader' = 0 /\ Len(queue') <= 1
    BY <1>1, EmptyRun DEF InWorker, InQueue, InReader
  <2>2. free + InWorker + InQueue + InReader <= Buffers
    BY DEF InflatedInv, ThreeBuffers
  <2>3. free' + InWorker' + InQueue' + InReader' <= Buffers
    BY <1>1, <2>1, <2>2, StateFacts
  <2>4. QED BY <1>1, <1>2, <2>1, <2>3, BuffersKept
<1>4. WorkerAt' /\ QueueAt'
  BY <1>1 DEF InflatedInv, WorkerAt, QueueAt
<1>5. ReaderAt'
  BY <1>1 DEF ReaderAt, Ended
<1>6. BytesInOrder'
  BY <1>1 DEF InflatedInv, BytesInOrder
<1>7. QED BY <1>2, <1>3, <1>4, <1>5, <1>6 DEF InflatedInv

LEMMA ReceiveErrorKeeps == ASSUME InflatedInv, ReceiveError PROVE InflatedInv'
<1>1. /\ Hang("error") /\ reader = "reading" /\ current = None
      /\ queue # <<>> /\ Head(queue) = Failed
  BY DEF ReceiveError
<1>2. /\ linked /\ verdict = "open" /\ stop = "error" /\ held = <<>> /\ decoded = input.length
      /\ input.ending = "error"
  BY <1>1, InflatedReaderAssumption DEF InflatedInv, QueueAt, WorkerAt, ReaderAt
<1>3. Len(out) = decoded
  <2>1. Unread = <<>> /\ Queued = <<>>
    BY <1>1 DEF Unread, Queued
  <2>2. Len(out) + Len(<<>>) + Len(<<>>) + Len(<<>>) = decoded
    BY <1>2, <2>1 DEF InflatedInv, BytesInOrder
  <2>3. QED BY <2>2, StateFacts, EmptyRun
<1>4. QED BY <1>1, <1>2, <1>3, HangKeeps

LEMMA DisconnectedKeeps == ASSUME InflatedInv, Disconnected PROVE InflatedInv'
<1>1. Hang("eof") /\ reader = "reading" /\ current = None /\ queue = <<>> /\ Ended
  BY DEF Disconnected
<1>2. linked /\ verdict = "open"
  BY <1>1 DEF InflatedInv, ReaderAt
<1>3. ASSUME worker # "panicked" PROVE input.ending = "eof" /\ Len(out) = input.length
  <2>1. worker = "gone" /\ <<>> # <<Failed>>
    BY <1>1, <1>3, OneItem DEF Ended
  <2>2. stop = "eof" /\ held = <<>>
    BY <1>1, <1>2, <2>1 DEF InflatedInv, QueueAt, WorkerAt
  <2>3. input.ending = "eof" /\ decoded = input.length
    BY <2>2, InflatedReaderAssumption DEF InflatedInv, WorkerAt
  <2>4. Unread = <<>> /\ Queued = <<>>
    BY <1>1 DEF Unread, Queued
  <2>5. Len(out) + Len(<<>>) + Len(<<>>) + Len(<<>>) = decoded
    BY <1>2, <2>2, <2>4 DEF InflatedInv, BytesInOrder
  <2>6. QED BY <2>3, <2>5, StateFacts, EmptyRun
<1>4. /\ Ended /\ (worker = "panicked" \/ (input.ending = "eof" /\ Len(out) = input.length))
      /\ linked /\ reader # "joining" /\ verdict = "open" /\ Hang("eof")
  <2>1. worker = "panicked" \/ (input.ending = "eof" /\ Len(out) = input.length)
    BY <1>3
  <2>2. reader # "joining"
    BY <1>1
  <2>3. Ended /\ Hang("eof")
    BY <1>1, Zenon
  <2>4. linked /\ verdict = "open"
    BY <1>2, Zenon
  <2>5. QED BY <2>1, <2>2, <2>3, <2>4, Zenon
<1>5. "eof" # "error"
  OBVIOUS
<1>6. QED BY <1>4, <1>5, HangKeeps

LEMMA DropKeeps == ASSUME InflatedInv, Drop PROVE InflatedInv'
<1>1. Hang("closed") /\ reader = "idle" /\ verdict = "open"
  BY DEF Drop
<1>2. linked
  BY <1>1 DEF InflatedInv, ReaderAt
<1>3. QED BY <1>1, <1>2, HangKeeps

LEMMA JoinKeeps == ASSUME InflatedInv, Join PROVE InflatedInv'
<1>1. /\ UNCHANGED <<input, decoded, worker, held, stop, free, queue, linked, current, reason, out>>
      /\ reader = "joining" /\ Ended /\ reader' = "idle"
      /\ verdict' = IF worker = "panicked" /\ reason # "closed" THEN "error" ELSE reason
  BY DEF Join, workerVars
<1>2. ~linked /\ reason # None
  BY <1>1 DEF InflatedInv, ReaderAt
<1>3. verdict' \in {"eof", "error", "closed"}
  BY <1>1, <1>2 DEF InflatedInv, TypeOK
<1>4. TypeOK'
  BY <1>1, <1>3 DEF InflatedInv, TypeOK
<1>5. ThreeBuffers'
  BY <1>1, <1>4 DEF InflatedInv, ThreeBuffers, InWorker, InQueue, InReader, Ended
<1>6. WorkerAt' /\ QueueAt'
  BY <1>1 DEF InflatedInv, WorkerAt, QueueAt
<1>7. ReaderAt'
  BY <1>1, <1>2, <1>3 DEF InflatedInv, ReaderAt, Ended
<1>8. BytesInOrder'
  BY <1>1, <1>2 DEF InflatedInv, BytesInOrder
<1>9. QED BY <1>4, <1>5, <1>6, <1>7, <1>8 DEF InflatedInv

-----------------------------------------------------------------------------
(* The invariant and what it implies.                                       *)

LEMMA NextInflatedInv == ASSUME InflatedInv, [Next]_vars PROVE InflatedInv'
<1>1. CASE Worker
  BY <1>1, RecvKeeps, DecodeKeeps, FullKeeps, DecodeEndsKeeps, SendKeeps, ReportKeeps DEF Worker
<1>2. CASE Reader
  BY <1>2, CallKeeps, ReceiveKeeps, CopyKeeps, ReceiveErrorKeeps, DisconnectedKeeps, JoinKeeps
     DEF Reader
<1>3. CASE Drop
  BY <1>3, DropKeeps
<1>4. CASE UNCHANGED vars
  <2>1. UNCHANGED <<input, decoded, worker, held, stop, free, queue, linked, reader, current,
                    reason, out, verdict>>
    BY <1>4 DEF vars
  <2>2. TypeOK'
    BY <2>1 DEF InflatedInv, TypeOK
  <2>3. ThreeBuffers'
    BY <2>1, <2>2 DEF InflatedInv, ThreeBuffers, InWorker, InQueue, InReader, Ended
  <2>4. WorkerAt' /\ QueueAt' /\ ReaderAt'
    BY <2>1 DEF InflatedInv, WorkerAt, QueueAt, ReaderAt, Ended
  <2>5. BytesInOrder'
    BY <2>1 DEF InflatedInv, BytesInOrder, Unread, Queued
  <2>6. QED BY <2>2, <2>3, <2>4, <2>5 DEF InflatedInv
<1>5. QED BY <1>1, <1>2, <1>3, <1>4 DEF Next

(* Every state of the decompression pipeline satisfies its inductive        *)
(* invariant (InflatedReader::new, read, finish).                           *)
THEOREM InflatedInvariant == Spec => []InflatedInv
<1>1. Init => InflatedInv
  BY InitInflatedInv
<1>2. InflatedInv /\ [Next]_vars => InflatedInv'
  BY NextInflatedInv
<1>3. QED BY <1>1, <1>2, PTL DEF Spec

(* The buffers go round: none is lost while the worker needs one and never  *)
(* more than Buffers chunks are in memory (InflatedReader::read).           *)
THEOREM BuffersGoRound == Spec => []ThreeBuffers
<1>1. InflatedInv => ThreeBuffers
  BY DEF InflatedInv
<1>2. QED BY <1>1, InflatedInvariant, PTL

(* A reader that has been told the end of the file, an error, or that was   *)
(* dropped has joined its worker (InflatedReader::finish, drop).            *)
THEOREM NoWorkerLeft == Spec => []WorkerJoined
<1>1. InflatedInv => WorkerJoined
  BY DEF InflatedInv, WorkerJoined, ReaderAt
<1>2. QED BY <1>1, InflatedInvariant, PTL

-----------------------------------------------------------------------------
(* The promised stream.                                                     *)

LEMMA CopyIsGive == ASSUME InflatedInv, Copy PROVE Stream!Give
<1>1. PICK k \in 1 .. Len(Unread) :
           /\ k + Len(out) <= decoded /\ verdict = "open"
           /\ out' = out \o SubSeq(Unread, 1, k)
           /\ RunFrom(Unread, Len(out))
           /\ UNCHANGED <<input, verdict>>
  BY CopyGives
<1>2. SubSeq(Unread, 1, k) = Stream!NextBytes(k)
  BY <1>1, StateFacts, CutRun DEF Stream!NextBytes
<1>3. k \in 1 .. (input.length - Len(out))
  BY <1>1, StateFacts
<1>4. QED BY <1>1, <1>2, <1>3 DEF Stream!Give

\* Joining the worker ends the stream.
LEMMA JoinIsEnd == ASSUME InflatedInv, Join PROVE Stream!End
<1>1. /\ UNCHANGED <<input, out>> /\ reader = "joining" /\ Ended
      /\ verdict' = IF worker = "panicked" /\ reason # "closed" THEN "error" ELSE reason
  BY DEF Join
<1>2. ~linked /\ reason \in {"eof", "error", "closed"} /\ verdict = "open"
  BY <1>1 DEF InflatedInv, ReaderAt, TypeOK
<1>3. CASE reason = "closed"
  BY <1>1, <1>2, <1>3 DEF Stream!End
<1>4. CASE worker = "panicked" /\ reason # "closed"
  <2>1. input.ending = "panic" /\ verdict' = "error"
    BY <1>1, <1>4 DEF InflatedInv, WorkerAt
  <2>2. QED BY <1>1, <1>2, <2>1 DEF Stream!End
<1>5. CASE worker # "panicked" /\ reason = "eof"
  <2>1. verdict' = "eof" /\ input.ending = "eof" /\ Len(out) = input.length
    BY <1>1, <1>5 DEF InflatedInv, ReaderAt
  <2>2. QED BY <1>1, <1>2, <2>1 DEF Stream!End
<1>6. CASE worker # "panicked" /\ reason = "error"
  <2>1. verdict' = "error" /\ input.ending = "error" /\ Len(out) = input.length
    BY <1>1, <1>6 DEF InflatedInv, ReaderAt
  <2>2. QED BY <1>1, <1>2, <2>1 DEF Stream!End
<1>7. QED BY <1>2, <1>3, <1>4, <1>5, <1>6

\* All other steps leave the stream alone.
LEMMA OthersStutter ==
  ASSUME [Next]_vars, ~Copy, ~Join
  PROVE  UNCHANGED <<input, out, verdict>>
<1>1. CASE Worker
  BY <1>1 DEF Worker, Recv, Decode, Full, DecodeEnds, Send, Report, readerVars
<1>2. CASE Call \/ Receive \/ ReceiveError \/ Disconnected \/ Drop
  BY <1>2 DEF Call, Receive, ReceiveError, Disconnected, Drop, Hang
<1>3. CASE UNCHANGED vars
  BY <1>3 DEF vars
<1>4. QED BY <1>1, <1>2, <1>3 DEF Next, Reader

(* However the worker and the reader interleave, the reader of a compressed *)
(* file sees its bytes in order and an end that is true (InflatedReader).   *)
THEOREM ReaderRefines == Spec => ImplementsStream
<1>1. Init => Stream!Init
  BY DEF Init
<1>2. InflatedInv /\ [Next]_vars =>
        [Stream!Give \/ Stream!End]_<<input, out, verdict>>
  BY CopyIsGive, JoinIsEnd, OthersStutter
<1>3. QED BY <1>1, <1>2, InflatedInvariant, PTL DEF Spec, ImplementsStream, Stream!Spec

=============================================================================
