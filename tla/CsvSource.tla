------------------------------ MODULE CsvSource ------------------------------
(***************************************************************************)
(* From the bytes of a file to the records of an import: prepare() settles *)
(* headers and delimiter, then one source is read by a CsvReader           *)
(* (import/csv.rs) whose buffer is filled from the file itself or, for a   *)
(* compressed one, from the decompression pipeline, in pieces of any size. *)
(* The records behind the header are converted to the values of a batch.   *)
(***************************************************************************)
EXTENDS InflatedReader, RowValues

CONSTANT Setups  (* sources: [text, role, typed]; read: the one that is read; *)
                 (* opts; packed: whether it is compressed                    *)

ASSUME CsvSourceAssumption ==
  \A u \in Setups : /\ u.read \in DOMAIN u.sources
                    /\ Len(u.sources[u.read].text) <= MaxBytes
                    /\ u.opts.buffer > 0

VARIABLES
  setup,     (* the files and options of this import                         *)
  plan,      (* what prepare() settled                                      *)
  pc,        (* "refused" by prepare(), "next" between records, "fast",      *)
             (* "line", "peek" inside next_borrowed, "failed", "end"         *)
  consumed,  (* bytes of the stream taken out of the buffer                  *)
  pending,   (* pending_consume                                              *)
  raw,       (* the record collected so far                                  *)
  total,     (* bytes of the physical line collected so far                  *)
  first,     (* no physical line has been read                               *)
  line, recordLine,
  records,   (* history: the records handed out, with their lines            *)
  values,    (* the batch: its values in one array of bytes                  *)
  meaning    (* history: what the text means                                 *)

lexerVars == <<setup, plan, pc, consumed, pending, raw, total, first, line, recordLine,
               records, values, meaning>>
sourceVars == <<vars, lexerVars>>

text == setup.sources[setup.read].text
opts == plan.options

\* The header is the first record of the source's first file.
columns == TypedColumns(records[1].cells, plan.headers[setup.read])

\* What fill_buf shows without another read.
Buffered == SubSeq(text, consumed + 1, Len(out))

\* What the text means up to the first record that cannot be converted.
Meaning ==
  LET whole == Reference(text, opts)
      typed == TypedColumns(whole.rows[1].cells, plan.headers[setup.read])
      wrong == {i \in 2 .. Len(whole.rows) : ~Accepted(whole.rows[i].cells, typed, opts)}
  IN IF wrong = {} THEN whole
     ELSE [rows |-> SubSeq(whole.rows, 1, Min(wrong) - 1), outcome |-> "error"]

SourceInit ==
  /\ Init
  /\ setup \in Setups
  /\ input.length = Len(text) /\ (input.ending = "panic" => setup.packed)
  /\ plan = Prepare(setup.sources, setup.opts)
  /\ pc = IF plan.outcome = "ok" THEN "next" ELSE "refused"
  /\ meaning = IF pc = "next" THEN Meaning ELSE None
  /\ consumed = 0 /\ pending = 0 /\ raw = <<>> /\ total = 0
  /\ first = TRUE /\ line = 0 /\ recordLine = 0
  /\ records = <<>> /\ values = NoValues

-----------------------------------------------------------------------------
(* BufReader: an empty buffer is filled by one read.                       *)

Asking == pc \in {"fast", "line", "peek"} /\ consumed = Len(out) /\ verdict = "open"

Thread == /\ pc # "refused" /\ setup.packed
          /\ Worker
          /\ UNCHANGED lexerVars

Fill == /\ setup.packed
        /\ \/ Asking /\ Call
           \/ Receive \/ Copy \/ ReceiveError \/ Disconnected \/ Join
        /\ UNCHANGED lexerVars

\* An uncompressed file is read directly; the thread does not exist.
ReadFile ==
  /\ Asking /\ ~setup.packed
  /\ IF Len(out) < input.length
     THEN /\ \E k \in 1 .. input.length - Len(out) : out' = out \o Stream!NextBytes(k)
          /\ UNCHANGED verdict
     ELSE verdict' = input.ending /\ UNCHANGED out
  /\ UNCHANGED <<lexerVars, input, workerVars, free, queue, linked, reader, current, reason>>

\* The caller may give the reader up between records; after an error it does.
Close(at) == /\ pc = at /\ setup.packed
             /\ Drop
             /\ UNCHANGED lexerVars

-----------------------------------------------------------------------------
(* next_borrowed.                                                          *)

NextRecord ==
  /\ pc = "next" /\ verdict # "closed" /\ reader = "idle"
  /\ consumed' = consumed + pending /\ pending' = 0
  /\ raw' = <<>> /\ total' = 0 /\ recordLine' = line + 1
  /\ pc' = IF ~first /\ Len(opts.quote) = 1 THEN "fast" ELSE "line"
  /\ UNCHANGED <<vars, setup, plan, meaning, first, line, records, values>>

\* fill_buf returns: bytes, or nothing at the end of the file.
Filled == reader = "idle" /\ (consumed < Len(out) \/ verdict = "eof")

\* fill_buf fails.
FillFails ==
  /\ pc \in {"fast", "line", "peek"} /\ consumed = Len(out) /\ verdict = "error"
  /\ pc' = "failed"
  /\ UNCHANGED <<vars, setup, plan, meaning, consumed, pending, raw, total, first, line, recordLine,
                 records, values>>

\* The record without its terminator ends at `end`, with it at `count`; 0 if the
\* buffered bytes do not hold an unquoted record of a line.
NotBuffered == [end |-> 0, count |-> 0]

\* Mutation of BufferedLine: a CR at the end of the buffer ends the record.
BufferedLineCr(bytes, o) ==
  LET stops == {i \in DOMAIN bytes : bytes[i] \in {LF, CR} \cup ToSet(o.quote)}
      at == Min(stops)
      count == IF bytes[at] = CR /\ at < Len(bytes) /\ bytes[at + 1] = LF THEN at + 1 ELSE at
  IN IF stops = {} \/ bytes[at] \in ToSet(o.quote)
        \/ at = 1 \/ count > RecordLimit(o)
     THEN NotBuffered ELSE [end |-> at - 1, count |-> count]

\* A CR at the end of the buffer may belong to an LF that is not there yet.
BufferedLine(bytes, o) ==
  LET stops == {i \in DOMAIN bytes : bytes[i] \in {LF, CR} \cup ToSet(o.quote)}
      at == Min(stops)
      count == IF bytes[at] = CR /\ bytes[at + 1] = LF THEN at + 1 ELSE at
  IN IF stops = {} \/ bytes[at] \in ToSet(o.quote) \/ (bytes[at] = CR /\ at = Len(bytes))
        \/ at = 1 \/ count > RecordLimit(o)
     THEN NotBuffered ELSE [end |-> at - 1, count |-> count]

\* produce_source: a record behind the header is converted and added to the batch; one
\* that cannot be ends the import.
Give(cells) ==
  IF records = <<>> \/ Accepted(cells, columns, opts)
  THEN /\ records' = Append(records, [line |-> recordLine, cells |-> cells])
       /\ values' = IF records = <<>> THEN values ELSE AppendRow(values, cells, columns, opts)
       /\ pc' = "next"
  ELSE pc' = "failed" /\ UNCHANGED <<records, values>>

FastRecord ==
  /\ pc = "fast" /\ Filled
  /\ \E found \in {BufferedLine(Buffered, opts)} :
     \E cells \in {ParseUnquoted(SubSeq(Buffered, 1, found.end), opts)} :
        IF found = NotBuffered
        THEN pc' = "line" /\ UNCHANGED <<line, pending, records, values>>
        ELSE /\ line' = line + 1 /\ pending' = found.count
             /\ IF FitsLimit(cells, opts) /\ Utf8(SubSeq(Buffered, 1, found.count))
                THEN Give(cells)
                ELSE pc' = "failed" /\ UNCHANGED <<records, values>>
  /\ UNCHANGED <<vars, setup, plan, meaning, consumed, raw, total, first, recordLine>>

\* What next_borrowed does with the physical line that ends `collected`.
EndLine(collected, bytes) ==
  \E next \in {AfterLine(collected, bytes, first, opts)} :
     /\ line' = IF bytes = 0 THEN line ELSE line + 1
     /\ first' = (first /\ bytes = 0)
     /\ total' = 0
     /\ raw' = IF next.outcome = "more" THEN next.raw ELSE <<>>
     /\ recordLine' = IF next.outcome = "blank" THEN line' + 1 ELSE recordLine
     /\ IF next.outcome = "record" THEN Give(next.cells)
        ELSE /\ pc' = CASE next.outcome = "end" -> "end"
                        [] next.outcome = "error" -> "failed"
                        [] OTHER -> "line"
             /\ UNCHANGED <<records, values>>

\* physical_line: one buffer, up to the first line break.
CollectLine ==
  /\ pc = "line" /\ Filled
  /\ LET stops == {i \in DOMAIN Buffered : Buffered[i] \in {LF, CR}}
         count == Min(stops \cup {Len(Buffered)})
         collected == raw \o SubSeq(Buffered, 1, count)
     IN IF Buffered = <<>>
        THEN EndLine(raw, total) /\ UNCHANGED consumed
        ELSE IF Len(collected) > RecordLimit(opts)
        THEN pc' = "failed" /\ UNCHANGED <<consumed, raw, total, first, line, recordLine, records, values>>
        ELSE /\ consumed' = consumed + count
             /\ IF stops # {} /\ Buffered[count] = LF
                THEN EndLine(collected, total + count)
                ELSE /\ pc' = IF stops = {} THEN "line" ELSE "peek"
                     /\ raw' = collected /\ total' = total + count
                     /\ UNCHANGED <<first, line, recordLine, records, values>>
  /\ UNCHANGED <<vars, setup, plan, meaning, pending>>

\* A CR has been read: an LF behind it belongs to the same line break.
PeekLf ==
  /\ pc = "peek" /\ Filled
  /\ IF Buffered # <<>> /\ Head(Buffered) = LF
     THEN IF Len(raw) = RecordLimit(opts)
          THEN pc' = "failed" /\ UNCHANGED <<consumed, raw, total, first, line, recordLine, records, values>>
          ELSE consumed' = consumed + 1 /\ EndLine(Append(raw, LF), total + 1)
     ELSE UNCHANGED consumed /\ EndLine(raw, total)
  /\ UNCHANGED <<vars, setup, plan, meaning, pending>>

Lexer == NextRecord \/ FillFails \/ FastRecord \/ CollectLine \/ PeekLf

\* When a step of the lexer is enabled.
LexerReady == /\ reader = "idle"
              /\ \/ pc = "next" /\ verdict # "closed"
                 \/ pc \in {"fast", "line", "peek"} /\ (consumed < Len(out) \/ verdict # "open")

SourceNext == Thread \/ Fill \/ ReadFile \/ Close("next") \/ Close("failed") \/ Lexer

SourceSpec == SourceInit /\ [][SourceNext]_sourceVars

(* Threads run, reads return and the caller asks for the next record until *)
(* the end; whether it gives up is its own decision.  The condition on     *)
(* Lexer is its weak fairness, with ENABLED written out.                   *)
SourceFairSpec == /\ SourceSpec
                  /\ WF_sourceVars(Thread)
                  /\ WF_sourceVars(Fill)
                  /\ WF_sourceVars(ReadFile)
                  /\ <>[]LexerReady => []<><<Lexer>>_sourceVars
                  /\ WF_sourceVars(Close("failed"))

-----------------------------------------------------------------------------
\* The record is known to end within the first n bytes, whatever follows.
Certain(row, n) == row.stop < n \/ (row.stop = n /\ n > 0 /\ text[n] = LF)

\* The values of the records behind the header, one after the other.
Meant == LET rows == [i \in 1 .. Len(records) - 1 |-> [c \in DOMAIN columns |->
                        ValueOf(CellAt(records[i + 1].cells, c), columns[c], opts)]]
         IN FlattenSeq(rows)

Plain(rows) == [i \in DOMAIN rows |-> [line |-> rows[i].line, cells |-> rows[i].cells]]

(* However the bytes arrive, the reader hands out the records of the file,  *)
(* with the lines they start on, stops where the first malformed one is,    *)
(* and loses no complete record in front of a read error: the buffered      *)
(* path for unquoted lines (csv.rs 111-149) and the collecting path agree   *)
(* with one pass over the text.  What the importer reads back from the     *)
(* batch are the values of those records.                                  *)
RowsAsWritten ==
  LET rows == Plain(meaning.rows)
      certain == SelectSeq(meaning.rows, LAMBDA row : Certain(row, Len(out)))
  IN pc # "refused" =>
       /\ TypeOK
       /\ IsPrefix(records, rows)
       /\ ReadBack(values) = Meant
       /\ pc = "end" => records = rows /\ meaning.outcome = "end" /\ verdict = "eof"
       /\ pc = "failed" => IF verdict = "error" THEN records = Plain(certain)
                           ELSE records = rows /\ meaning.outcome = "error"

(* A delimiter is only found when the whole headers are valid with it and   *)
(* with no other, although only a prefix of every file was read; an ID      *)
(* group has one type for all sources, however they are ordered             *)
(* (discovery.rs 76-96, 187-190).                                           *)
HeadersResolved ==
  recordLine = 0 =>
    LET o == setup.opts
        sources == setup.sources
        delimiters == ValidDelimiters(sources, o)
    IN /\ plan.outcome = "ok" =>
            /\ IF o.auto THEN delimiters = {plan.options.delimiter}
               ELSE ValidSources(sources, o)
            /\ \A s \in DOMAIN plan.headers : LET ends == plan.headers[s].endpoints
                                              IN \A i \in DOMAIN ends :
                   ends[i][2] = GroupType(Headers(sources, plan.options), ends[i][1], plan.options)
       /\ plan.outcome = "error" => IF o.auto THEN Cardinality(delimiters) # 1
                                    ELSE ~ValidSources(sources, o)
       /\ plan.outcome = "unresolved" =>
            o.auto /\ \E s \in DOMAIN sources : Len(sources[s].text) > ProbeLimit(o)

(* The three buffers go round and a reader that was told the end or was      *)
(* dropped has joined its worker (input.rs 283-285).                        *)
WorkerAccounted == ThreeBuffers /\ (setup.packed => WorkerJoined)

(* Every source that was accepted is read to its end, fails or is given up, *)
(* and then nothing of its pipeline is left: every read returns and the     *)
(* thread is joined (input.rs 346-362).                                     *)
SourceEnds ==
  <>(\/ pc = "refused"
     \/ pc \in {"end", "failed"} /\ (setup.packed => verdict # "open" /\ Ended)
     \/ verdict = "closed" /\ Ended)

=============================================================================
