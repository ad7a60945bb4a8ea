----------------------------- MODULE CsvPipeline -----------------------------
(***************************************************************************)
(* The threads of an offline CSV import (import/mod.rs): one reader per    *)
(* source, `parser_workers` of them at a time, each with a channel of one  *)
(* batch; the producer thread, which drains these channels in declaration  *)
(* order into a channel of two batches; and the main thread, which hands   *)
(* each batch to the bulk loader.  All three may fail, the readers may     *)
(* panic, and whoever is blocked on a full channel is released only when   *)
(* the other end is dropped.                                               *)
(***************************************************************************)
EXTENDS Naturals, Sequences, FiniteSets

CONSTANTS
  Inputs,        (* the inputs considered: each a sequence of sources, a     *)
                 (* source a sequence of files, a file a sequence of Kinds   *)
  ParserWorkers, (* parser_workers(opts, sources)                            *)
  BatchRows,     (* rows at which produce_source flushes a batch             *)
  AutoHeaders,   (* --auto-skip-subsequent-headers                           *)
  Tolerance      (* --bad-tolerance                                          *)

\* What a CSV record does: it repeats the header, is a good row, a row the
\* loader skips or whose surplus columns are ignored (one bad entry), a row the
\* loader rejects, or a record the parser rejects.
Kinds == {"head", "row", "skip", "reject", "bad"}

ASSUME PipelineAssumption ==
  /\ Inputs \subseteq Seq(Seq(Seq(Kinds)) \ {<<>>})   \* no source without a file
  /\ ParserWorkers \in Nat \ {0}
  /\ BatchRows \in Nat \ {0}
  /\ AutoHeaders \in BOOLEAN
  /\ Tolerance \in Nat

VARIABLES
  input,     (* the sources, in declaration order                            *)
  wpc,       (* where the reader thread of each source is                    *)
  file, pos, (* the record each reader is about to read                      *)
  rows,      (* the batch each reader is building                            *)
  out,       (* the channel of each source (capacity 1)                      *)
  receivers, (* whether the receivers of the current chunk still exist       *)
  first,     (* first source of the current chunk                            *)
  cur,       (* the source the producer is draining                          *)
  producer,  (* where the producer thread is                                 *)
  parcel,    (* the message the producer is passing on                       *)
  queue,     (* the channel to the main thread (capacity 2)                  *)
  main,      (* where the main thread is                                     *)
  batch,     (* the message the main thread works on                         *)
  skipped,   (* bad entries so far                                           *)
  verdict,   (* load_result and the outcome of join                          *)
  loaded     (* history: the rows of the batches the loader accepted         *)

readers  == <<wpc, file, pos, rows>>
channels == <<out, receivers, queue>>
collect  == <<first, cur, producer, parcel>>
consume  == <<main, batch, skipped, verdict, loaded>>
vars     == <<input, readers, channels, collect, consume>>

Sources == DOMAIN input
Chunk   == {s \in Sources : first <= s /\ s < first + ParserWorkers}

Nothing      == [kind |-> "nothing", source |-> 0, rows |-> <<>>]
BatchOf(s)   == [kind |-> "batch", source |-> s, rows |-> rows[s]]
ErrorOf(s)   == [kind |-> "error", source |-> s, rows |-> <<>>]
Why(w, s)    == [why |-> w, at |-> s]
Undecided    == Why("none", 0)

KindOf(r) == input[r[1]][r[2]][r[3]]
\* The first record of a source is its header; in later files it may repeat it.
IsHeader(s, f, i) ==
  i = 1 /\ (f = 1 \/ (AutoHeaders /\ input[s][f][i] = "head"))

\* A thread that has ended has dropped its sender.
Ended(s) == wpc[s] \in {"exited", "panicked"}

Init == /\ input \in Inputs
        /\ wpc = [s \in Sources |-> "unborn"]
        /\ file = [s \in Sources |-> 1]
        /\ pos = [s \in Sources |-> 1]
        /\ rows = [s \in Sources |-> <<>>]
        /\ out = [s \in Sources |-> <<>>]
        /\ receivers = FALSE
        /\ first = 1
        /\ cur = 1
        /\ producer = "spawn"
        /\ parcel = Nothing
        /\ queue = <<>>
        /\ main = "recv"
        /\ batch = Nothing
        /\ skipped = 0
        /\ verdict = Undecided
        /\ loaded = <<>>

-----------------------------------------------------------------------------
(* produce_source, one thread per source of the chunk.                     *)

More(s) == wpc[s] = "reading" /\ pos[s] <= Len(input[s][file[s]])

ReadHeader(s) ==
  /\ More(s)
  /\ IsHeader(s, file[s], pos[s])
  /\ pos' = [pos EXCEPT ![s] = @ + 1]
  /\ UNCHANGED <<input, wpc, file, rows, channels, collect, consume>>

ReadRow(s) ==
  /\ More(s)
  /\ ~IsHeader(s, file[s], pos[s])
  /\ input[s][file[s]][pos[s]] # "bad"
  /\ rows' = [rows EXCEPT ![s] = Append(@, <<s, file[s], pos[s]>>)]
  /\ pos' = [pos EXCEPT ![s] = @ + 1]
  /\ wpc' = [wpc EXCEPT ![s] = IF Len(rows[s]) + 1 >= BatchRows THEN "sending"
                                                                ELSE "reading"]
  /\ UNCHANGED <<input, file, channels, collect, consume>>

\* The record does not parse: the batch under construction is dropped and the
\* error takes its place in the channel.
ReadBad(s) ==
  /\ More(s)
  /\ ~IsHeader(s, file[s], pos[s])
  /\ input[s][file[s]][pos[s]] = "bad"
  /\ rows' = [rows EXCEPT ![s] = <<>>]
  /\ wpc' = [wpc EXCEPT ![s] = "failing"]
  /\ UNCHANGED <<input, file, pos, channels, collect, consume>>

FileEnds(s) == wpc[s] = "reading" /\ pos[s] > Len(input[s][file[s]])

FlushFile(s) ==
  /\ FileEnds(s)
  /\ rows[s] # <<>>
  /\ wpc' = [wpc EXCEPT ![s] = "sending"]
  /\ UNCHANGED <<input, file, pos, rows, channels, collect, consume>>

NextFile(s) ==
  /\ FileEnds(s)
  /\ rows[s] = <<>>
  /\ IF file[s] < Len(input[s])
     THEN /\ file' = [file EXCEPT ![s] = @ + 1]
          /\ pos' = [pos EXCEPT ![s] = 1]
          /\ UNCHANGED wpc
     ELSE /\ wpc' = [wpc EXCEPT ![s] = "exited"]
          /\ UNCHANGED <<file, pos>>
  /\ UNCHANGED <<input, rows, channels, collect, consume>>

\* Mutation of SendBatch: a channel of two batches per source.
SendTwo(s) ==
  /\ wpc[s] = "sending"
  /\ receivers /\ Len(out[s]) < 2
  /\ out' = [out EXCEPT ![s] = Append(@, BatchOf(s))]
  /\ rows' = [rows EXCEPT ![s] = <<>>]
  /\ wpc' = [wpc EXCEPT ![s] = "reading"]
  /\ UNCHANGED <<input, file, pos, receivers, queue, collect, consume>>

\* send() blocks while the channel is full and its receiver exists.
SendBatch(s) ==
  /\ wpc[s] = "sending"
  /\ receivers /\ Len(out[s]) < 1
  /\ out' = [out EXCEPT ![s] = Append(@, BatchOf(s))]
  /\ rows' = [rows EXCEPT ![s] = <<>>]
  /\ wpc' = [wpc EXCEPT ![s] = "reading"]
  /\ UNCHANGED <<input, file, pos, receivers, queue, collect, consume>>

SendError(s) ==
  /\ wpc[s] = "failing"
  /\ receivers /\ Len(out[s]) < 1
  /\ out' = [out EXCEPT ![s] = Append(@, ErrorOf(s))]
  /\ wpc' = [wpc EXCEPT ![s] = "exited"]
  /\ UNCHANGED <<input, file, pos, rows, receivers, queue, collect, consume>>

\* The receiver is gone: the reader returns quietly.
SendFails(s) ==
  /\ wpc[s] \in {"sending", "failing"}
  /\ ~receivers
  /\ rows' = [rows EXCEPT ![s] = <<>>]
  /\ wpc' = [wpc EXCEPT ![s] = "exited"]
  /\ UNCHANGED <<input, file, pos, channels, collect, consume>>

\* A panic unwinds the reader and drops its sender without a message.
ReaderPanics(s) ==
  /\ wpc[s] = "reading"
  /\ rows' = [rows EXCEPT ![s] = <<>>]
  /\ wpc' = [wpc EXCEPT ![s] = "panicked"]
  /\ UNCHANGED <<input, file, pos, channels, collect, consume>>

-----------------------------------------------------------------------------
(* produce, on the producer thread.                                        *)

SpawnChunk ==
  /\ producer = "spawn"
  /\ Chunk # {}
  /\ wpc' = [s \in Sources |-> IF s \in Chunk THEN "reading" ELSE wpc[s]]
  /\ receivers' = TRUE
  /\ cur' = first
  /\ producer' = "recv"
  /\ UNCHANGED <<input, file, pos, rows, out, queue, first, parcel, consume>>

NoMoreChunks ==
  /\ producer = "spawn"
  /\ Chunk = {}
  /\ producer' = "done"
  /\ UNCHANGED <<input, readers, channels, first, cur, parcel, consume>>

Receive ==
  /\ producer = "recv"
  /\ cur \in Chunk
  /\ out[cur] # <<>>
  /\ parcel' = Head(out[cur])
  /\ out' = [out EXCEPT ![cur] = Tail(@)]
  /\ producer' = "send"
  /\ UNCHANGED <<input, readers, receivers, queue, first, cur, consume>>

\* recv() fails once the channel is empty and the reader has ended, however it
\* ended: the producer turns to the next source.
Disconnected ==
  /\ producer = "recv"
  /\ cur \in Chunk
  /\ out[cur] = <<>> /\ Ended(cur)
  /\ cur' = cur + 1
  /\ UNCHANGED <<input, readers, channels, first, producer, parcel, consume>>

\* Mutation of DropReceivers: the queues are emptied but their ends kept.
KeepReceivers == /\ out' = [s \in Sources |-> <<>>]
                 /\ UNCHANGED receivers

\* Dropping the receivers discards what is queued and releases blocked readers.
DropReceivers == /\ receivers' = FALSE
                 /\ out' = [s \in Sources |-> <<>>]

ChunkDrained ==
  /\ producer = "recv"
  /\ cur \notin Chunk
  /\ DropReceivers
  /\ producer' = "joined"
  /\ UNCHANGED <<input, readers, queue, first, cur, parcel, consume>>

MainListens == main \in {"recv", "append"}

\* The message goes to the main thread; an error or a main thread that no
\* longer listens ends the import.
Forward ==
  /\ producer = "send"
  /\ MainListens /\ Len(queue) < 2
  /\ queue' = Append(queue, parcel)
  /\ parcel' = Nothing
  /\ IF parcel.kind = "error"
     THEN DropReceivers /\ producer' = "stopping"
     ELSE producer' = "recv" /\ UNCHANGED <<out, receivers>>
  /\ UNCHANGED <<input, readers, first, cur, consume>>

ForwardFails ==
  /\ producer = "send"
  /\ ~MainListens
  /\ parcel' = Nothing
  /\ DropReceivers
  /\ producer' = "stopping"
  /\ UNCHANGED <<input, readers, queue, first, cur, consume>>

\* thread::scope joins every reader of the chunk and passes a panic on.
JoinChunk ==
  /\ producer \in {"joined", "stopping"}
  /\ \A s \in Chunk : Ended(s)
  /\ IF \E s \in Chunk : wpc[s] = "panicked"
     THEN producer' = "panicked" /\ UNCHANGED first
     ELSE IF producer = "stopping"
          THEN producer' = "done" /\ UNCHANGED first
          ELSE producer' = "spawn" /\ first' = first + ParserWorkers
  /\ UNCHANGED <<input, readers, channels, cur, parcel, consume>>

-----------------------------------------------------------------------------
(* The loop of execute, on the main thread.                                *)

Take ==
  /\ main = "recv"
  /\ queue # <<>>
  /\ queue' = Tail(queue)
  /\ IF Head(queue).kind = "error"
     THEN /\ verdict' = Why("parse", Head(queue).source)
          /\ main' = "close"
          /\ UNCHANGED batch
     ELSE /\ batch' = Head(queue)
          /\ main' = "append"
          /\ UNCHANGED verdict
  /\ UNCHANGED <<input, readers, out, receivers, collect, skipped, loaded>>

BadEntries(b) == Cardinality({i \in DOMAIN b.rows : KindOf(b.rows[i]) = "skip"})
Rejected(b)   == \E i \in DOMAIN b.rows : KindOf(b.rows[i]) = "reject"

\* Mutation of AppendBatch: the tolerance is tested before the batch is counted.
AppendCountsLate ==
  /\ main = "append"
  /\ ~Rejected(batch)
  /\ loaded' = loaded \o batch.rows
  /\ skipped' = skipped + BadEntries(batch)
  /\ IF skipped > Tolerance
     THEN verdict' = Why("tolerance", batch.source) /\ main' = "close"
     ELSE main' = "recv" /\ UNCHANGED verdict
  /\ batch' = Nothing
  /\ UNCHANGED <<input, readers, channels, collect>>

\* The loader takes the batch, then the tolerance is checked.
AppendBatch ==
  /\ main = "append"
  /\ ~Rejected(batch)
  /\ loaded' = loaded \o batch.rows
  /\ skipped' = skipped + BadEntries(batch)
  /\ IF skipped' > Tolerance
     THEN verdict' = Why("tolerance", batch.source) /\ main' = "close"
     ELSE main' = "recv" /\ UNCHANGED verdict
  /\ batch' = Nothing
  /\ UNCHANGED <<input, readers, channels, collect>>

\* The loader rejects a row, or reading, writing or reporting fails.
AppendFails ==
  /\ main = "append"
  /\ verdict' = Why(IF Rejected(batch) THEN "reject" ELSE "io", batch.source)
  /\ main' = "close"
  /\ batch' = Nothing
  /\ UNCHANGED <<input, readers, channels, collect, skipped, loaded>>

InputEnds ==
  /\ main = "recv"
  /\ queue = <<>> /\ producer \in {"done", "panicked"}
  /\ main' = "close"
  /\ UNCHANGED <<input, readers, channels, collect, batch, skipped, verdict, loaded>>

\* drop(receiver)
Close ==
  /\ main = "close"
  /\ queue' = <<>>
  /\ main' = "join"
  /\ UNCHANGED <<input, readers, out, receivers, collect, batch, skipped, verdict,
                 loaded>>

\* Mutation of JoinProducer: a panic of the producer is not looked at.
JoinIgnoresPanic ==
  /\ main = "join"
  /\ producer \in {"done", "panicked"}
  /\ main' = IF verdict # Undecided THEN "failed" ELSE "ready"
  /\ UNCHANGED <<input, readers, channels, collect, batch, skipped, verdict, loaded>>

\* Mutation of JoinProducer: a load error is returned without joining.
LeaveProducerRunning ==
  /\ main = "join"
  /\ verdict # Undecided \/ producer \in {"done", "panicked"}
  /\ IF verdict # Undecided
     THEN main' = "failed" /\ UNCHANGED verdict
     ELSE IF producer = "panicked"
          THEN main' = "failed" /\ verdict' = Why("panic", 0)
          ELSE main' = "ready" /\ UNCHANGED verdict
  /\ UNCHANGED <<input, readers, channels, collect, batch, skipped, loaded>>

\* A load error wins over a panicked producer; only when there is neither does
\* the import go on to finish().
JoinProducer ==
  /\ main = "join"
  /\ producer \in {"done", "panicked"}
  /\ IF verdict # Undecided
     THEN main' = "failed" /\ UNCHANGED verdict
     ELSE IF producer = "panicked"
          THEN main' = "failed" /\ verdict' = Why("panic", 0)
          ELSE main' = "ready" /\ UNCHANGED verdict
  /\ UNCHANGED <<input, readers, channels, collect, batch, skipped, loaded>>

-----------------------------------------------------------------------------
Reader(s) == ReadHeader(s) \/ ReadRow(s) \/ ReadBad(s) \/ FlushFile(s)
               \/ NextFile(s) \/ SendBatch(s) \/ SendError(s) \/ SendFails(s)
               \/ ReaderPanics(s)
Producer  == SpawnChunk \/ NoMoreChunks \/ Receive \/ Disconnected \/ ChunkDrained
               \/ Forward \/ ForwardFails \/ JoinChunk
Main      == Take \/ AppendBatch \/ AppendFails \/ InputEnds \/ Close \/ JoinProducer

Next == Producer \/ Main \/ \E s \in Sources : Reader(s)

Spec == Init /\ [][Next]_vars

SourceIds == UNION {DOMAIN inp : inp \in Inputs}

\* Every thread that can run eventually runs (the operating system's scheduler).
FairSpec == /\ Spec
            /\ WF_vars(Producer)
            /\ WF_vars(Main)
            /\ \A s \in SourceIds : WF_vars(s \in Sources /\ Reader(s))

-----------------------------------------------------------------------------
Row      == Nat \X Nat \X Nat   \* source, file, record
Messages == [kind : {"nothing", "batch", "error"}, source : Nat, rows : Seq(Row)]

TypeOK ==
  /\ input \in Inputs
  /\ wpc \in [Sources -> {"unborn", "reading", "sending", "failing", "exited",
                          "panicked"}]
  /\ file \in [Sources -> Nat] /\ pos \in [Sources -> Nat]
  /\ rows \in [Sources -> Seq(Row)]
  /\ out \in [Sources -> Seq(Messages)]
  /\ receivers \in BOOLEAN
  /\ first \in Nat \ {0} /\ cur \in Nat \ {0}
  /\ producer \in {"spawn", "recv", "send", "joined", "stopping", "done", "panicked"}
  /\ parcel \in Messages
  /\ queue \in Seq(Messages)
  /\ main \in {"recv", "append", "close", "join", "failed", "ready"}
  /\ batch \in Messages
  /\ skipped \in Nat
  /\ verdict \in [why : {"none", "parse", "reject", "tolerance", "io", "panic"},
                  at : Nat]
  /\ loaded \in Seq(Row)

\* Declaration order of rows (and of batches): source, file, record.
Before(a, b) == \/ a[1] < b[1]
                \/ a[1] = b[1] /\ a[2] < b[2]
                \/ a[1] = b[1] /\ a[2] = b[2] /\ a[3] < b[3]

\* The data rows of the input, whatever threads read them.
DataRows == {r \in UNION {UNION {{<<s, f, i>> : i \in DOMAIN input[s][f]} :
                                 f \in DOMAIN input[s]} : s \in Sources} :
               ~IsHeader(r[1], r[2], r[3])}

(* However readers run ahead of each other, and even after one of them has   *)
(* panicked, rows reach the loader in declaration order and none twice: node *)
(* IDs and duplicate handling depend on it (produce, lines 304-306).  The    *)
(* import goes on to finish() only when every data row of every source was   *)
(* loaded: no failed, cancelled or panicked reader can make a truncated      *)
(* input look complete (execute, lines 230-238).                             *)
LoadedInOrder ==
  /\ \A i, j \in DOMAIN loaded : i < j => Before(loaded[i], loaded[j])
  /\ main = "ready" => /\ {loaded[i] : i \in DOMAIN loaded} = DataRows
                       /\ \A r \in DataRows : KindOf(r) \in {"head", "row", "skip"}
                       /\ skipped <= Tolerance

\* Rows are cut into batches file by file; <<s, f, b>> is batch b of file f.
RowsBefore(r) == {q \in DataRows : q[1] = r[1] /\ q[2] = r[2] /\ q[3] < r[3]}
BatchKey(r)   == <<r[1], r[2], Cardinality(RowsBefore(r)) \div BatchRows>>
KeysUpTo(k)  == {r \in DataRows : BatchKey(r) = k \/ Before(BatchKey(r), k)}
RowsOfKey(k) == {r \in DataRows : BatchKey(r) = k}
Kind(k, x)   == \E r \in RowsOfKey(k) : KindOf(r) = x
BadUpTo(k)   == Cardinality({r \in KeysUpTo(k) : KindOf(r) = "skip"})

\* What a sequential import of the same input would say of batch k.
Complaint(k) == CASE Kind(k, "bad")         -> Why("parse", k[1])
                  [] Kind(k, "reject") /\ ~Kind(k, "bad") -> Why("reject", k[1])
                  [] OTHER                  -> Why("tolerance", k[1])
Fatal == {k \in {BatchKey(r) : r \in DataRows} :
            Kind(k, "bad") \/ Kind(k, "reject") \/ BadUpTo(k) > Tolerance}
Sequential == IF Fatal = {} THEN Undecided
              ELSE Complaint(CHOOSE k \in Fatal :
                               \A l \in Fatal : l = k \/ Before(k, l))

(* The verdict does not depend on the schedule: unless a reader panicked or  *)
(* the loader's own I/O failed, it is the one a single thread reading the    *)
(* sources one after the other would give, the first fatal batch in          *)
(* declaration order ("deterministic error diagnostics", line 306).          *)
VerdictIsSequential ==
  /\ main = "ready" => Sequential = Undecided
  /\ main = "failed" /\ verdict.why \notin {"io", "panic"}
       /\ (\A s \in Sources : wpc[s] # "panicked") => verdict = Sequential

(* Back-pressure: whatever the readers do, at most two batches wait for the  *)
(* loader and at most two per reader are queued or under construction        *)
(* (parser_workers sizes the memory budget by this).                         *)
BackPressure ==
  /\ TypeOK
  /\ Len(queue) <= 2
  /\ Cardinality({s \in Sources : out[s] # <<>>})
       + Cardinality({s \in Sources : rows[s] # <<>>}) <= 2 * ParserWorkers
  /\ \A s \in Sources : Len(out[s]) <= 1 /\ Len(rows[s]) <= BatchRows

(* A verdict leaves no thread behind: when the main thread has joined the    *)
(* producer every reader has ended or was never started, so nobody can touch *)
(* the staging files any more.                                               *)
NoOrphans ==
  main \in {"failed", "ready"} =>
    \A s \in Sources : wpc[s] = "unborn" \/ Ended(s)

(* Nobody waits for ever: whichever thread stops first, a dropped channel    *)
(* releases the others and the import reaches a verdict.                     *)
ReachesVerdict == <>(main \in {"failed", "ready"})

-----------------------------------------------------------------------------
(* The inductive invariant behind the safety properties.                   *)

RowSet(q)       == {q[i] : i \in DOMAIN q}
Sorted(q)       == \A i, j \in DOMAIN q : i < j => Before(q[i], q[j])
AllBefore(A, B) == \A a \in A, b \in B : Before(a, b)

Batches   == {m \in Messages : m.kind # "error" \/ m.rows = <<>>}
OutRows(s) == UNION {RowSet(out[s][i].rows) : i \in DOMAIN out[s]}
QueueRows  == UNION {RowSet(queue[i].rows) : i \in DOMAIN queue}
Passed     == RowSet(loaded) \cup RowSet(batch.rows) \cup QueueRows
                \cup RowSet(parcel.rows)
InFlight   == UNION {OutRows(s) \cup RowSet(rows[s]) : s \in Sources}

\* The reader of r's source has gone past r.
Behind(r) == \/ r[2] < file[r[1]]
             \/ r[2] = file[r[1]] /\ r[3] < pos[r[1]]

\* Readers: what they hold fits, and they stand inside their source.
ReaderBound(s) ==
  /\ file[s] \in DOMAIN input[s]
  /\ pos[s] \in 1 .. Len(input[s][file[s]]) + 1
  /\ Len(out[s]) <= 1
  /\ Len(rows[s]) <= BatchRows
  /\ wpc[s] = "reading" => Len(rows[s]) < BatchRows
  /\ wpc[s] \notin {"reading", "sending"} => rows[s] = <<>>
  /\ wpc[s] = "unborn" => out[s] = <<>> /\ file[s] = 1 /\ pos[s] = 1
  /\ \A i \in DOMAIN out[s] : out[s][i] \in Batches /\ out[s][i].source = s
ReaderBounds == \A s \in Sources : ReaderBound(s)

\* The producer: sources in front of it have ended and are drained, those of
\* later chunks have not begun.
Begun == IF producer = "spawn" THEN first ELSE first + ParserWorkers
ProducerAt ==
  /\ \A s \in Sources : wpc[s] = "unborn" <=> s >= Begun
  /\ \A s \in Sources : s < first => wpc[s] = "exited" /\ out[s] = <<>>
  /\ producer # "spawn" /\ producer # "done" => first <= cur
  /\ producer # "spawn" => \A s \in Sources : s < cur => Ended(s) /\ out[s] = <<>>
  /\ producer = "send" => cur \in Chunk
  /\ producer = "joined" => cur \notin Chunk
  /\ receivers <=> producer \in {"recv", "send"}
  /\ ~receivers => \A s \in Sources : out[s] = <<>>
  /\ producer # "send" => parcel = Nothing
  /\ producer \in {"done", "panicked"} =>
       \A s \in Sources : wpc[s] = "unborn" \/ Ended(s)
  /\ parcel \in Batches

\* The main thread: it stops listening for a reason or at the end of the input.
MainAt ==
  /\ Len(queue) <= 2
  /\ \A i \in DOMAIN queue : queue[i] \in Batches
  /\ batch \in Batches
  /\ main # "append" => batch = Nothing
  /\ main \in {"recv", "append", "ready"} => verdict = Undecided
  /\ main = "failed" => verdict # Undecided
  /\ main \in {"join", "failed", "ready"} => queue = <<>>
  /\ main = "close" /\ verdict = Undecided => queue = <<>>
  /\ ~MainListens /\ verdict = Undecided => producer \in {"done", "panicked"}
  /\ main \in {"failed", "ready"} => producer \in {"done", "panicked"}
  /\ main = "ready" => producer = "done"
  /\ verdict = Undecided => skipped <= Tolerance

\* Every row under way is a data row its reader has passed.
Genuine ==
  /\ \A r \in Passed \cup InFlight :
       r \in DataRows /\ KindOf(r) # "bad" /\ Behind(r)
  /\ \A r \in RowSet(loaded) : KindOf(r) # "reject"
  /\ \A s \in Sources : \A r \in OutRows(s) \cup RowSet(rows[s]) : r[1] = s
  /\ \A r \in Passed : wpc[r[1]] # "unborn"
  /\ producer \notin {"spawn", "done"} => \A r \in Passed : r[1] <= cur

\* Rows pass from stage to stage in declaration order.
InOrder ==
  /\ Sorted(loaded) /\ Sorted(batch.rows) /\ Sorted(parcel.rows)
  /\ \A i \in DOMAIN queue : Sorted(queue[i].rows)
  /\ AllBefore(RowSet(loaded), RowSet(batch.rows))
  /\ AllBefore(RowSet(loaded) \cup RowSet(batch.rows), QueueRows)
  /\ \A i, j \in DOMAIN queue :
       i < j => AllBefore(RowSet(queue[i].rows), RowSet(queue[j].rows))
  /\ AllBefore(RowSet(loaded) \cup RowSet(batch.rows) \cup QueueRows,
               RowSet(parcel.rows))
  /\ \A s \in Sources :
       /\ Sorted(rows[s])
       /\ \A i \in DOMAIN out[s] : Sorted(out[s][i].rows)
       /\ AllBefore(OutRows(s), RowSet(rows[s]))
       /\ AllBefore({r \in Passed : r[1] = s}, OutRows(s) \cup RowSet(rows[s]))

\* While nothing has gone wrong no row that was read is lost: it is on its way,
\* or an error on its way says that rows are missing.
Undisturbed == /\ verdict = Undecided
               /\ \A i \in DOMAIN queue : queue[i].kind # "error"
ErrorAhead(s) == \/ \E i \in DOMAIN out[s] : out[s][i].kind = "error"
                 \/ parcel.kind = "error"
NoRowLost == Undisturbed =>
  /\ producer # "stopping"
  /\ producer = "done" => \A s \in Sources : s < first
  /\ \A s \in Sources : wpc[s] \in {"reading", "sending"} =>
       \A r \in DataRows : r[1] = s /\ Behind(r) =>
         r \in Passed \cup OutRows(s) \cup RowSet(rows[s])
  /\ \A s \in Sources : wpc[s] = "exited" =>
       ErrorAhead(s) \/ \A r \in DataRows : r[1] = s => r \in Passed \cup OutRows(s)

(* The invariant as a whole: it is inductive, and it implies LoadedInOrder,  *)
(* BackPressure and NoOrphans (produce, produce_source, execute).            *)
PipelineInv == /\ TypeOK
               /\ ReaderBounds
               /\ ProducerAt
               /\ MainAt
               /\ Genuine
               /\ InOrder
               /\ NoRowLost

-----------------------------------------------------------------------------
(* What the verdict rests on besides.                                       *)

\* The record the reader of s stands at, and the rows of earlier batches.
Here(s)    == <<s, file[s], pos[s]>>
Earlier(s) == {q \in DataRows : Before(BatchKey(q), BatchKey(Here(s)))}

\* A message has all the rows of a batch, or none.
Whole(m) == \A r \in RowSet(m.rows) :
              RowSet(m.rows) = RowsOfKey(BatchKey(r)) /\ r[1] = m.source
BatchesWhole ==
  /\ Whole(batch) /\ Whole(parcel)
  /\ \A i \in DOMAIN queue : Whole(queue[i])
  /\ \A s \in Sources : \A i \in DOMAIN out[s] : Whole(out[s][i])

\* A reader holds what it has read of the batch it stands in.
Building(s) ==
  LET atEnd == pos[s] > Len(input[s][file[s]])
      n     == Cardinality(RowsBefore(Here(s)))
  IN  /\ wpc[s] = "reading" =>
           \/ atEnd /\ rows[s] = <<>>
           \/ /\ n % BatchRows = Len(rows[s])
              /\ RowSet(rows[s]) = {q \in RowsBefore(Here(s)) :
                                      BatchKey(q) = BatchKey(Here(s))}
      /\ wpc[s] = "sending" => /\ Whole(BatchOf(s))
                               /\ atEnd \/ n % BatchRows = 0

\* An error stands for a record that does not parse, and nothing follows it.
BadAt(s)  == Here(s) \in DataRows /\ KindOf(Here(s)) = "bad"
Halted(s) == wpc[s] = "exited" /\ BadAt(s)
Holds(s)  == \E i \in DOMAIN out[s] : out[s][i].kind = "error"
ErrorsTrue ==
  /\ \A s \in Sources : /\ wpc[s] = "failing" => BadAt(s)
                        /\ Holds(s) => Halted(s)
  /\ parcel.kind = "error" => parcel.source = cur /\ Halted(cur)
  /\ \A i \in DOMAIN queue : queue[i].kind = "error" =>
       /\ i = Len(queue)
       /\ producer \in {"stopping", "done", "panicked"}
       /\ queue[i].source \in Sources /\ Halted(queue[i].source)

\* No row of an earlier batch is missing behind a row or an error.
NoPanic == \A s \in Sources : wpc[s] # "panicked"
Gapless ==
  /\ Undisturbed => \A s \in Sources : wpc[s] = "failing" \/ Holds(s) =>
       \A q \in Earlier(s) : q[1] = s => q \in Passed \cup OutRows(s)
  /\ verdict = Undecided /\ NoPanic =>
       /\ \A r \in Passed, q \in DataRows : Before(q, r) => q \in Passed
       /\ parcel.kind = "error" => Earlier(cur) \subseteq Passed
       /\ \A i \in DOMAIN queue : queue[i].kind = "error" =>
            Earlier(queue[i].source) \subseteq Passed

\* What the main thread has counted and decided.
Decided ==
  /\ skipped = Cardinality({r \in RowSet(loaded) : KindOf(r) = "skip"})
  /\ verdict.why = "none" => verdict = Undecided
  /\ verdict.why \in {"parse", "reject", "tolerance"} /\ NoPanic => verdict = Sequential

(* With PipelineInv this is inductive, and it implies VerdictIsSequential:   *)
(* batches are cut at the same rows whatever the threads do, and when one    *)
(* is judged exactly the batches in front of it have been loaded.            *)
VerdictInv == /\ BatchesWhole
              /\ \A s \in Sources : Building(s)
              /\ ErrorsTrue
              /\ Gapless
              /\ Decided

=============================================================================
