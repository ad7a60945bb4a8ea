--------------------------- MODULE InflatedReader ---------------------------
(***************************************************************************)
(* The decompression pipeline of one input file (import/input.rs,          *)
(* InflatedReader): a worker thread fills buffers from the decoder and     *)
(* sends them through a channel of one; the reader copies them out and     *)
(* sends the emptied buffers back.  finish() drops both channels and joins *)
(* the worker; it is called at the end, after an error, and by drop.       *)
(***************************************************************************)
EXTENDS Naturals, Sequences

CONSTANTS
  Buffers,   (* INFLATED_BUFFERS                                             *)
  Capacity,  (* INFLATED_BUFFER_BYTES                                        *)
  MaxBytes,  (* bound: bytes of a file                                       *)
  None,
  Failed     (* an error in the channel of filled buffers                    *)

ASSUME InflatedReaderAssumption ==
  /\ Buffers \in Nat \ {0} /\ Capacity \in Nat \ {0} /\ MaxBytes \in Nat
  /\ None \notin Seq(Nat) \cup {"eof", "error", "closed"} /\ Failed \notin Seq(Nat)

VARIABLES
  input,     (* what the decoder will yield                                  *)
  decoded,   (* bytes it has yielded                                         *)
  worker,    (* the worker: "recv", "fill", "send", "report", "gone", "panicked" *)
  held,      (* bytes in the worker's buffer                                 *)
  stop,      (* why the worker stops after this buffer: None, "eof", "error"  *)
  free,      (* empty buffers in the channel back to the worker               *)
  queue,     (* the channel of filled buffers and errors                      *)
  linked,    (* the reader still holds its ends of the channels               *)
  reader,    (* "idle" between calls, "reading", "joining"                     *)
  current,   (* what is left of the reader's chunk, None without one          *)
  reason,    (* why finish() was called: "eof", "error", "closed" by drop     *)
  out,       (* history: the bytes handed out                                *)
  verdict    (* what the reader has been told                                 *)

vars == <<input, decoded, worker, held, stop, free, queue,
          linked, reader, current, reason, out, verdict>>

workerVars == <<decoded, worker, held, stop>>
readerVars == <<linked, reader, current, reason, out, verdict>>

Stream == INSTANCE ByteStream

Init == /\ Stream!Init
        /\ decoded = 0 /\ worker = "recv" /\ held = <<>> /\ stop = None
        /\ free = Buffers /\ queue = <<>>
        /\ linked = TRUE /\ reader = "idle" /\ current = None /\ reason = None

Ended == worker \in {"gone", "panicked"}

-----------------------------------------------------------------------------
(* The worker.  Buffers already returned are still received after the      *)
(* reader has dropped its sender.                                          *)

Recv == /\ worker = "recv"
        /\ \/ free > 0 /\ free' = free - 1 /\ worker' = "fill"
           \/ free = 0 /\ ~linked /\ worker' = "gone" /\ UNCHANGED free
        /\ UNCHANGED <<input, decoded, held, stop, queue, readerVars>>

\* One call of the decoder; an interrupted call is repeated.
Decode == /\ worker = "fill" /\ Len(held) < Capacity
          /\ \E k \in 1 .. Capacity - Len(held) :
               /\ decoded + k <= input.length
               /\ held' = held \o [i \in 1 .. k |-> decoded + i]
               /\ decoded' = decoded + k
          /\ UNCHANGED <<input, worker, stop, free, queue, readerVars>>

\* A full buffer is sent before the decoder is asked again.
Full == /\ worker = "fill" /\ Len(held) = Capacity
        /\ worker' = "send"
        /\ UNCHANGED <<input, decoded, held, stop, free, queue, readerVars>>

DecodeEnds ==
  /\ worker = "fill" /\ Len(held) < Capacity /\ decoded = input.length
  /\ IF input.ending = "panic"
     THEN worker' = "panicked" /\ UNCHANGED stop
     ELSE /\ stop' = input.ending
          /\ worker' = IF held # <<>> THEN "send"
                       ELSE IF input.ending = "error" THEN "report" ELSE "gone"
  /\ UNCHANGED <<input, decoded, held, free, queue, readerVars>>

\* The channel holds one chunk; without a receiver the worker returns.
Send == /\ worker = "send" /\ (linked => Len(queue) < 1)
        /\ queue' = IF linked THEN Append(queue, held) ELSE queue
        /\ held' = <<>>
        /\ worker' = CASE linked /\ stop = None    -> "recv"
                       [] linked /\ stop = "error" -> "report"
                       [] OTHER                    -> "gone"
        /\ UNCHANGED <<input, decoded, stop, free, readerVars>>

Report == /\ worker = "report" /\ (linked => Len(queue) < 1)
          /\ queue' = IF linked THEN Append(queue, Failed) ELSE queue
          /\ worker' = "gone"
          /\ UNCHANGED <<input, decoded, held, stop, free, readerVars>>

Worker == Recv \/ Decode \/ Full \/ DecodeEnds \/ Send \/ Report

-----------------------------------------------------------------------------
(* The reader.                                                             *)

\* A call of read() first sends an emptied buffer back.
Call == /\ reader = "idle" /\ verdict = "open"
        /\ reader' = "reading"
        /\ IF current = <<>>
           THEN current' = None /\ free' = IF Ended THEN free ELSE free + 1
           ELSE UNCHANGED <<current, free>>
        /\ UNCHANGED <<input, workerVars, queue, linked, reason, out, verdict>>

Receive == /\ reader = "reading" /\ current = None
           /\ queue # <<>> /\ Head(queue) # Failed
           /\ current' = Head(queue)
           /\ queue' = Tail(queue)
           /\ UNCHANGED <<input, workerVars, free, linked, reader, reason, out, verdict>>

Copy == /\ reader = "reading" /\ current # None
        /\ \E k \in 1 .. Len(current) :
             /\ out' = out \o SubSeq(current, 1, k)
             /\ current' = SubSeq(current, k + 1, Len(current))
        /\ reader' = "idle"
        /\ UNCHANGED <<input, workerVars, free, queue, linked, reason, verdict>>

\* Mutation of Hang: the worker is joined with the channels still in place.
HangLinked(why) ==
  /\ reader' = "joining" /\ reason' = why
  /\ current' = None
  /\ UNCHANGED <<input, workerVars, queue, linked, free, out, verdict>>

\* finish(): both ends are dropped before the worker is joined.
Hang(why) ==
  /\ linked' = FALSE
  /\ queue' = <<>>
  /\ current' = None
  /\ reader' = "joining" /\ reason' = why
  /\ UNCHANGED <<input, workerVars, free, out, verdict>>

ReceiveError == /\ reader = "reading" /\ current = None
                /\ queue # <<>> /\ Head(queue) = Failed
                /\ Hang("error")

Disconnected == /\ reader = "reading" /\ current = None
                /\ queue = <<>> /\ Ended
                /\ Hang("eof")

Drop == /\ reader = "idle" /\ verdict = "open"
        /\ Hang("closed")

\* Mutation of Join: a panic of the worker is taken for the end of the file.
JoinIgnoresPanic ==
  /\ reader = "joining" /\ Ended
  /\ reader' = "idle"
  /\ verdict' = reason
  /\ UNCHANGED <<input, workerVars, free, queue, linked, current, reason, out>>

\* Mutation of Join: the reader does not wait.
Detach ==
  /\ reader = "joining"
  /\ reader' = "idle"
  /\ verdict' = IF worker = "panicked" /\ reason # "closed" THEN "error" ELSE reason
  /\ UNCHANGED <<input, workerVars, free, queue, linked, current, reason, out>>

\* Nobody hears of a panic when the reader has been dropped.
Join == /\ reader = "joining" /\ Ended
        /\ reader' = "idle"
        /\ verdict' = IF worker = "panicked" /\ reason # "closed" THEN "error" ELSE reason
        /\ UNCHANGED <<input, workerVars, free, queue, linked, current, reason, out>>

Reader == Call \/ Receive \/ Copy \/ ReceiveError \/ Disconnected \/ Join

Next == Worker \/ Reader \/ Drop

Spec == Init /\ [][Next]_vars

-----------------------------------------------------------------------------
Bytes == Seq(1 .. MaxBytes)

TypeOK == /\ input \in Stream!Inputs /\ decoded \in 0 .. input.length
          /\ worker \in {"recv", "fill", "send", "report", "gone", "panicked"}
          /\ held \in Bytes /\ Len(held) <= Capacity
          /\ stop \in {None, "eof", "error"}
          /\ free \in 0 .. Buffers /\ linked \in BOOLEAN
          /\ reader \in {"idle", "reading", "joining"}
          /\ current = None \/ current \in Bytes
          /\ reason \in {None, "eof", "error", "closed"}
          /\ out \in Bytes /\ verdict \in {"open", "eof", "error", "closed"}

\* Buffers in the worker's hands, queued for the reader, and in the reader's hands.
InWorker == IF worker \in {"fill", "send"} THEN 1 ELSE 0
InQueue  == IF queue # <<>> /\ Head(queue) # Failed THEN 1 ELSE 0
InReader == IF current = None THEN 0 ELSE 1

(* The three buffers go round: none is lost while the worker still needs    *)
(* one, and never more than three chunks of the file are in memory          *)
(* (input.rs 283-285); the channel back always has room.                    *)
ThreeBuffers ==
  /\ TypeOK /\ Len(queue) <= 1
  /\ free + InWorker + InQueue + InReader <= Buffers
  /\ linked /\ ~Ended /\ worker # "report" =>
       free + InWorker + InQueue + InReader = Buffers

(* A reader that has been told the end, or has been dropped, has joined its *)
(* worker: no thread of a file outlives its reader (input.rs 285).          *)
WorkerJoined == verdict # "open" => Ended /\ ~linked

(* The pipeline is invisible: the reader gets the promised stream.          *)
ImplementsStream == Stream!Spec

-----------------------------------------------------------------------------
(* The inductive invariant behind these properties.                        *)

\* The bytes of the file behind the first n.
RunFrom(bytes, n) == \A i \in DOMAIN bytes : bytes[i] = n + i

Unread == IF current = None THEN <<>> ELSE current
Queued == IF queue # <<>> /\ Head(queue) # Failed THEN Head(queue) ELSE <<>>

\* The worker: what it holds and why it stops agree with where it is.
WorkerAt ==
  /\ worker \notin {"fill", "send", "panicked"} => held = <<>>
  /\ worker = "send" => held # <<>>
  /\ worker \in {"recv", "fill"} => stop = None
  /\ worker = "report" => stop = "error"
  /\ worker = "panicked" => input.ending = "panic"
  /\ stop # None => stop = input.ending /\ decoded = input.length

\* The channel of filled buffers holds a chunk with bytes in it, or the error
\* with which a worker ends whose reader still listens.
QueueAt ==
  /\ queue # <<>> => /\ linked /\ queue = <<Head(queue)>>
                     /\ Head(queue) = Failed \/ Head(queue) \in Bytes \ {<<>>}
  /\ queue # <<>> /\ Head(queue) = Failed => worker = "gone" /\ stop = "error"
  /\ linked /\ worker = "gone" => stop = "eof" \/ queue = <<Failed>>

\* The reader hangs up once, for a reason that holds when the worker has ended.
ReaderAt ==
  /\ linked <=> reason = None
  /\ linked => reader # "joining" /\ verdict = "open"
  /\ ~linked => current = None /\ (reader = "joining" <=> verdict = "open")
  /\ reader = "reading" => linked /\ current # <<>>
  /\ verdict # "open" => Ended /\ reader = "idle"
  /\ reason = "eof" =>
       /\ Ended
       /\ worker = "panicked" \/ (input.ending = "eof" /\ Len(out) = input.length)
  /\ reason = "error" => input.ending = "error" /\ Len(out) = input.length

\* What was handed out, the reader's chunk, the queued chunk and the worker's
\* buffer follow one another in the file.
BytesInOrder ==
  /\ Len(out) <= decoded
  /\ RunFrom(out, 0)
  /\ linked => /\ RunFrom(Unread, Len(out))
               /\ RunFrom(Queued, Len(out) + Len(Unread))
               /\ RunFrom(held, Len(out) + Len(Unread) + Len(Queued))
               /\ Len(out) + Len(Unread) + Len(Queued) + Len(held) = decoded

(* The invariant as a whole: it is inductive, it implies ThreeBuffers and    *)
(* WorkerJoined, and every step taken from it is one of the promised stream  *)
(* (InflatedReader::new, read, finish).                                *)
InflatedInv == TypeOK /\ ThreeBuffers /\ WorkerAt /\ QueueAt /\ ReaderAt /\ BytesInOrder

=============================================================================
