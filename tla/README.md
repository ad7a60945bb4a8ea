# Velr: a TLA+ verification project

This directory holds TLA+ models of the Velr command-line tools, the TLC
configurations that check them on small instances, and TLAPS proofs. The models are
translated from the Rust source in `rust/velr-cli/`. `PROJECT.json` maps every
definition to the lines it stands for and lists the runs, the mutants, the hazards, the
theorems and the findings.

Paths below are relative to `rust/velr-cli/src/`.

## 1. The system

The repository contains two programs and the storage definitions they share. `velr` is
an interactive shell around a prebuilt graph engine (a C interface, `include/velr.h`;
the engine's source is not here). `velr-admin` imports CSV files into a new graph
database, offline. Nearly all of the logic and all of the concurrency is in the
importer, and that is what is modelled:

    CSV files --> decompression --> CSV readers --> producer --> main thread
                  (thread per file) (thread per source)             |
                                                                    v
                  validation <-- finish <-- OfflineImport: ID map, ID cache,
                      |                     shape counts, spools, page writers
                      v
                  publication: staging directory --> destination file

The importer stages a private SQLite database. It appends batches of nodes and then of
relationships; rows go to sequential spools. `finish` turns the spools into B-trees by
writing database pages itself, several trees in parallel, validates the result and
publishes it with one rename or hard link.

### 1.1 Inventory

| component | state | operations | hard behaviour | what makes it correct |
|---|---|---|---|---|
| page pool, `offline_import/native/page_writer.rs` | shared counter, active count, failed flag, spool of free ranges; per writer a block | fork, append page, write overflow chain, complete, drop, finish | compare-and-swap on the counter, threads that fail half way, the lock-byte page inside a block | every page has one use; a sealed file accounts for every page |
| page writer trees, record codec, freelist | page images, child lists, overflow pointers | tree, level, cell, finish | layout at page and varint boundaries, freelist written into free pages | the tree holds the records in order; trunks name each free page once |
| page plan, `page_plan.rs` | histogram of record lengths | plan_level, IndexPagePlan | must predict the writer exactly | planned pages = written pages |
| ID map, `id_map.rs` | per group: range, directory, pages, or table; byte budget; spool | insert, migrate, seal, lookup, clear | changes of representation, a budget that refuses in the middle of an operation | a first-wins map, whatever the representation; exact accounting |
| importer, `offline_import/native.rs` | spools, tables, index tuples, ID types, cache, counters, page size | create, append_nodes, append_relationships, finish | ACTUAL fall-back to SQL, cache eviction, failure poisoning, page size against background sort | relationships connect the right nodes; report, statistics and indexes agree with the graph |
| shape counts, `native.rs` | run per column, bounded map, spill tables | increment, add_count, flush | spill in the middle of a row | counts are exact and the map is bounded |
| CSV pipeline, `import/mod.rs` | channels, batches, counters, verdict | produce, produce_source, execute | threads, bounded channels, errors and panics on any side, tolerance | order, completeness and verdict do not depend on the schedule; no deadlock |
| decompression, `import/input.rs` | three buffers, two channels | new, read, finish, drop | worker and reader stop independently | the reader sees the file, and its true end |
| publication, `offline_import/publish.rs` | destination, sidecars, locks, journal mode, directory | every file operation of `publish_import` | other processes, crashes, power failures between any two steps | the destination is always a complete database; what is reported is true |
| index builder, `index_builder.rs`; text index, `text_index.rs` | tuple spools, runs | push, sort, merge, write | external sort with packed keys, parallel runs, prefixes in bytes or characters | sorted permutation of the tuples, or an error for a duplicate |
| index statistics, `index_stats.rs` | accumulators, 24 samples | push, finish | runs still open when sampled, replacement, records read back from runs | a sample tells the truth about its record |
| body spools, `bulk_body.rs` | spools per table, owner run | node, edge, property, write_tables | root pages renumbered by VACUUM, keys in any order | every tree holds its rows in the order of its key |
| secondary indexes, `bulk_indexes.rs` | spools per index, background sort | property, start_node_sort, prepare, write | shared memory and cores, real values beside integers, any thread may fail | every index is the one SQL would build; nothing outlives the import |
| validation, `validation.rs` | page bitmap, jobs, dense domains | validate | parallel jobs, short cuts for foreign keys, cycles | accepts exactly the sound files, and ends |
| schema contract, `schema_contract.rs` | none | compare catalogs | none | the finished schema is the canonical one |
| CSV lexer, `import/csv.rs` | input buffer, line, fields | next_borrowed | fast path, records across buffer ends, limits | the records and errors of one pass over the text |
| discovery, `import/discovery.rs`; headers, `import/header.rs` | columns, ID groups | prepare, resolve, parse | probes with a read limit, groups declared after they are used | the delimiter found is the only valid one |
| conversion, `import/header.rs`, `import/batch.rs` | one byte array per batch | append_cells, iter | values packed behind each other | what is read back is what was written |
| storage crate, `../storage/` | catalog, shape tables | label groups, backfill, schema | labels in any order | one group per set of labels |
| options, manifest, `velr-admin.rs` | options | parse, validate | precedence | - |
| shell, `main.rs`; tables, `runtime/` | line buffer, history | read, execute, print | statement terminators in strings and comments | - |
| engine, build script | outside, or at build time | | | |

### 1.2 Interactions

* Readers, producer and main thread share only channels: one batch per source, two
  between producer and main thread. Dropping an end is the only signal to stop.
* The main thread calls `OfflineImport`; an error poisons it. It owns the ID map, the
  cache, the shape counts and the spools.
* `finish` forks page writers that share a `BlockAllocator` (atomics, one mutex).
* Publication shares the file system with other importers and with users of the
  destination; SQLite's locks and journal files are the protocol.

## 2. Modules

| module | models | is composed with |
|---|---|---|
| `PageFile` | abstract: a page file in which each page gets one use and which is sealed at most once | implemented by `PagePool` |
| `PagePool`, `MCPagePool`, `PagePoolProofs` | page pool | |
| `DatabaseFile` | the freelist trunks, and pages reduced to their pointers | extended by `Validation` |
| `Validation`, `MCValidation`, `ValidationProofs` | validation of the finished database | |
| `CsvPipeline`, `MCCsvPipeline`, `CsvPipelineProofs` | CSV pipeline | |
| `ByteStream` | abstract: the bytes of a file in order and a true end | implemented by `InflatedReader` |
| `InflatedReader`, `InflatedReaderProofs` | decompression | extended by `CsvSource` |
| `CsvLexer`, `CsvReference` | splitting one record, and what a text means in one pass | operators |
| `Discovery`, `HeaderRules` | probes and headers, and when headers are acceptable | operators |
| `RowValues` | conversion of cells and the arena of a batch | operators |
| `CsvSource`, `MCCsvSource` | discovery, then the buffered reader of one source over a plain or decompressed stream | extends the six above |
| `FirstWins` | abstract: a map in which the first node of an ID stays | property of `IdMap` |
| `IdMap`, `MCIdMap` | integer ID map | |
| `OfflineImport`, `MCOfflineImport`, `OfflineImportProofs` | life cycle of an import | uses a first-wins map where the code uses the ID map |
| `ShapeCounts` | the shape counter: runs, bounded map, spill tables | operators |
| `GraphShape`, `MCGraphShape`, `GraphShapeProofs` | catalog, label groups and shapes of an import, against the schema's backfill | extends `ShapeCounts` |
| `PageTree`, `MCPageTree` | layout of B-trees by the page writer, and the page plan | its leaves and interior pages are the page uses of `PagePool` |
| `IndexStats` | the accumulator of sqlite_stat1 and sqlite_stat4 | operators |
| `ExternalSort`, `MCExternalSort` | external sorts of integer and text indexes | extends `IndexStats`; its stream is the input of `PageTree` |
| `BulkBuild`, `MCBulkBuild`, `BulkBuildProofs` | spools, sorts, writers and finish of a bulk import | its sorts are `ExternalSort`, its writers use `PagePool` |
| `Destination` | abstract: what becomes of the destination file | implemented by `Publish` |
| `Publish`, `MCPublish`, `PublishProofs` | publication, staging directory | |

Where components run together in one state machine they are composed by extension
(`CsvSource` over `InflatedReader`, `GraphShape` over `ShapeCounts`, `ExternalSort` over
`IndexStats`, `Validation` over `DatabaseFile`). The rest is composed by contract.
`OfflineImport` relies on `IdMap` being a first-wins map (`FirstNodeKept`). `CsvPipeline`
treats a source as a sequence of records, which `CsvSource` establishes
(`RowsAsWritten`), and the loader as something that accepts, skips or rejects a row,
which is how `OfflineImport` behaves. `PageTree` relies on records in order, each once,
which `ExternalSort` establishes (`SortsOrRefuses`); that a writer has exactly the pages
its plan promised (`PlanExact`) is what `PagePool`'s `CompleteCheck` compares.

### 2.1 PagePool

A writer is a thread with a program counter; the steps between two accesses to shared
memory are one action. `Load` and `CasWins`/`CasLoses` are the compare-and-swap loop of
`grant`; `Retire` and `ReturnFails` are `return_tail`, which may fail between the range
below and the one above the lock-byte page, and in `finish` also after both, when the
spool, the file or its header cannot be written; `CompleteCheck`, `CompleteReturn`,
`CompleteLeave` and `DropFailed`, `DropLeave` keep the order in which `failed` and
`active` are written and read. Page contents are left out: `used` counts how often a
page is given content, `freed` how often it is put into the spool, and `torn` records a
page of an overflow chain that was written elsewhere than its pointer says.

### 2.2 CsvPipeline

Each source is a sequence of files, each file a sequence of record kinds: a repeated
header, a good row, a skipped row, a row the loader rejects, a record the parser
rejects. Channels are sequences with the capacity of the code; a receiver that is
dropped makes the next send fail, which is how every thread learns of an error
elsewhere. `ReaderPanics` may happen at any record.

### 2.3 InflatedReader, CsvSource

The decompression worker fills a buffer by calls of the decoder of any size, sends it
and waits for an emptied one; the reader's `read`, `finish` and `drop` are split at the
points where they block. The decoder ends, fails or panics after any number of bytes.

`CsvSource` puts a `CsvReader` in front of it, or of a file that is read directly. A
text is a sequence of symbols: characters, line breaks, a quote and a delimiter that may
take several bytes, a byte that is not UTF-8, and in headers whole type markers. Its first
step is `Prepare` (`Discovery`), which may refuse the import. Then a record is read as
`next_borrowed` does: from the buffer if the whole line is there and has no quote
(`BufferedLine`), else by collecting pieces up to a line feed, looking for the line feed
behind a carriage return at a buffer end (`PeekLf`), and parsing again after each line
(`EndLine`). `RowsAsWritten` compares with `CsvReference`, one pass over the whole text
that knows nothing of buffers. Behind the header, cells become values (`RowValues`) that
are laid behind each other in one array, and what is read back from it must be what the
text meant.

### 2.4 IdMap

One operator or action per function of `id_map.rs`, with small numbers for its
constants: words of 2 bits, pages of 2 words, regions of 2 pages, an i64 of 4 bits and a
u32 of 2. A charge of the budget is checked where the code checks it, so every insertion
and every step of sealing may find the budget used up. The interplay of the bytes saved
by packing with those freed in the same pass (`Page::seal`) is kept exactly.

### 2.5 OfflineImport

The body's spools, the index tuple spools and the tables are sets of records (node, node
property, edge, edge property). A batch is begun, its rows are chosen one by one, and it
is ended, as in the loops of `append_nodes_inner` and `append_relationships_inner`. The
ID cache evicts everything when full. `direct` is the set of integer groups whose map is
in memory; a group may leave it at an insertion or at sealing. Failure poisons the
import; after it only `Finish` is possible, and it reports an error. Property values,
dictionaries of keys and labels, and the periodic `COMMIT` of the journal-free private
database are left out: none of them affects a property below.

One assumption restricts the inputs: when a relationship's endpoints are ACTUAL IDs,
nothing is in the spools, since `--id-type=ACTUAL` holds for all sources of an import
(`import/header.rs` 241). Called differently, as its API allows, the importer would look
for a node in a table it has not been written to yet.

### 2.6 ShapeCounts, GraphShape

`ShapeCounts` is the counter as a record of runs, entries and tables, with one operator
per function. `GraphShape` drives it with the rows of an import: it resolves names in
the dictionaries, finds or creates label groups through the cache and by signature (a
signature is the sorted list of label IDs, `Canonical`; the cache starts with the empty
one, as in `native.rs` 542-543, and so always knows every row), counts each stored row
and property by label group, skips or refuses rows, and expands label groups to labels
in `Finish`. `Backfill` is the same aggregate as the schema's `GRAPH_SHAPE_BACKFILL`
computes it, from the stored rows alone; `ShapesExact` says that the two agree.

### 2.7 PageTree

A record is its number and its length; a page is a record of its cells' sizes, its
child pointers and separators. The leaf loop of `PageWriter::tree` and its `level`,
including the group that is held back and lends its last child to a group of one, are
one action per record or child; `IndexPagePlan` reads the same records in the same
steps, as it does when the sorted stream is written, and its levels follow the writer's.
The sizes (`PageSize`, the payload limits, headers, slots, pointers and varints) are
constants or operators; the byte encoding of pages is left out.

### 2.8 ExternalSort, IndexStats

`IntegerSpool`, `Codec`, `TextSpool` and `TextCodec`, with words and bytes of few bits.
Packing, unpacking, digits, the stable radix passes and the merge are operators that
compute what the code computes; the prefix of a text is cut by bytes or by characters as
in `TextSpool::push`. Runs are made by workers that interleave and may fail at any run;
generations of merges and the last merge follow. The last merge feeds `IndexStats`
record by record. A direct index never stores its sorted records, so a sample names a run
and a position and is read back from there (`Witness`, `ReadBack`).

### 2.9 Publish

Files are inodes, and `dest` is what the path names, so that a process may hold a file
that has lost its name. Every system call of `publish_import` is an action. Users open,
create, lock, unlock and leave the destination; leaving journals behind or removing them
is their choice. `RemoveStage` may fail, which nobody is told. `Crash` stops an importer
anywhere. `PowerFails` stops everything; files that were not flushed become partial and
the name may fall back to what it was when the directory was last synced.

### 2.10 DatabaseFile, Validation

A page is reduced to the pages it points to. `StartTrunks`, `NextTrunk` and `WriteTrunk`
are the loop of `PageWriter::finish` over the unused ranges; then one pointer may be
damaged. A page nobody reads (unused, reserved for the lock byte, or a leaf of the
freelist) is `Blank`. `Validation` makes its list of jobs, decides which foreign keys a range may
answer for, and lets workers take jobs from the counter until one fails. The ownership
pass walks trees, overflow chains and trunks page by page (`WalkTrunk`, `WalkPage`,
`WalkChain`) and may meet a cycle. A trunk is read as whatever the page holds, like in the
code: `FirstWord` is the next trunk, and `Payload` says what leaves a page of the trees
would name. Chains of trunks are bounded by page marks alone, child pointers also by
`MaxDepth` and overflow chains by their count. SQLite's own check of a table is an environment that
knows whether a record of the table is unsound.

### 2.11 BulkBuild

A spool is a sequence of records, a tree what a writer was given under a root page, and
root pages are renumbered by `VACUUM` as a permutation. One action is one row loaded, one
thread started, ended or failed, or one step of `finish`. The memory each sort gets, the
number of index writers at a time, and the choice between writing everything at once
(large imports) and one after the other are those of the code. `TreesExact` compares the
trees with the rows that were loaded and the indexes with the definitions in the schema
(`SqlIndex`). Any one thread or statement may fail.

## 3. Runs

| run | question | size | states |
|---|---|---|---|
| `page_pool` | is every page used once, are chains intact, is a sealed file complete, is every step one of the abstract page file, does every writer leave | 2 writers and coordinator, pages 4 to 8, blocks of 2, chains of up to 3 | 943,575 |
| `csv_pipeline` | order, completeness, schedule-independent verdict, bounded queues, no thread left, a verdict in the end | 216 inputs of 3 sources, 2 parser threads, batches of 2 | 615,057 |
| `csv_source` | are records, lines and values those of one pass over the text, is the delimiter found the only valid one, is the decompression invisible and its thread joined, does reading end | bodies of up to 4 symbols and picked longer ones, pairs of sources, plain or through 3 buffers of 4 bytes | 224,978 |
| `id_map` | is the map first-wins in every representation, is the accounting exact, with two groups competing for the budget | 2 groups, 5 IDs, 4 nodes, 4 insertions | 256,752 |
| `offline_import` | do report, shape counts, page size and indexes agree with the graph, are endpoints right, is the result sound | 2 groups, 2 IDs, 2 label groups, 3 rows | 1,911,324 |
| `graph_shape` | are the published shape aggregates those of the schema's backfill, has each node the label group of its labels | 2 nodes, 2 relationships, a map of one entry | 3,053,296 |
| `page_tree` | is each tree a balanced search tree of all its records, are its pages neither overfull nor hollow, is the page plan exact | tables and indexes of up to 60 records, 518 patterns of lengths, pages of 44 bytes | 940,667 |
| `external_sort` | is the stream the sorted permutation, are duplicates and only they refused, do the statistics' samples tell the truth | words of 4 bits, 3 fields, up to 5 of 6 tuples, 4 of 6 texts, 2 workers, merges of 2, 3 samples | 533,557 |
| `bulk_build` | is every tree exact under its real root, do the sorts share one budget, does nothing outlive the import, does it end | 3 graphs, 5 budgets, 3 ID maps, one failure | 304,434 |
| `validation` | does the freelist name every unused page once, are exactly the sound files accepted, is the range check right, does validation end | files of 9 pages, one damaged pointer, 2 workers | 1,092,836 |
| `publish` | is the destination always whole, is a database in use or unasked ever replaced, is a journal ever left behind, are reports true | 2 importers, one of them overwriting, 2 users | 1,182,618 |
| `publish_in_use` | a violation: see the finding below | 2 overwriting importers, 1 user | |

Every property of a passing run has a mutant in `PROJECT.json`: a plausible mistake in a
modelled definition that makes TLC report that property.

### 3.1 Bounds and why they are enough

* Page pool: with blocks of two, pages 4 to 8 and the lock byte in page 5, a block contains
  the lock byte and is longer, its tail begins at that page or behind it when it is spooled
  (a tail that begins before it needs blocks of three and is left to the proofs), a
  chain is longer than a block and makes a grant span it, a chain finds too little left of
  a block, another writer takes the block after one's own, and the page space runs out.
  Two forked writers and a coordinator give every pairwise race; the proofs cover any
  number.
* CSV pipeline: three sources on two threads give two chunks, so the next chunk, a full
  channel, and an error in a source that is not being drained all occur. The six kinds
  of source contain each error before and after a batch boundary.
* CSV sources: every body of up to four symbols over a character, delimiter, quote and both
  line breaks, with buffers of four bytes filled in pieces of any size, puts every pair of
  symbols on both sides of a buffer end; the picked longer texts add doubled quotes,
  escapes, blanks around quotes, bytes that are not UTF-8 and fields and records at the
  limits. Up to fourteen bytes use each of the three buffers of the decompression and
  return them. Headers come in pairs of node and relationship sources in both orders,
  with and without groups and types, and some longer than the probe limit.
* ID map: the five IDs lie on both sides of zero and in different regions; the four nodes
  include a successor with the same label group, one with another, and one that does not
  fit the narrow integer. Four insertions reach every representation, each value width
  and both packings, and let one group move to disk while the other stays in memory; the
  budget of 24 refuses some charges and allows others.
* Importer: two groups use the same two external IDs. Two nodes reach large pages; three
  rows allow two nodes and a relationship, a duplicate, or a change to ACTUAL and back.
  `Ids` contains the last internal ID, so the ID space is exhausted. A cache of one
  entry evicts at each insert.
* Graph shapes: two nodes and two relationships in every division into batches give each
  column runs that end and runs that go on; a map of one entry spills at each new key. The
  label sets name the same labels in two orders and with repetitions, so IDs that are
  given in order of first meeting must be sorted; an empty set finds the group the schema
  has created. The values have two tags of one storage class.
* Page trees: 44 bytes is about the smallest page whose interior page holds the two
  children SQLite requires, so 60 records make three interior levels, with last groups
  of one child at each. The lengths of a pattern lie on both sides of each limit: the
  longest local payload of a table and of an index, one more, and an overflow page
  exactly filled; a cell is then a slot too large or just fits.
* External sort: with words of four bits, the six tuples give keys of 0 to 9 bits, of
  each of the four key types, some exactly full, and constant fields in each place. Runs
  of one to three tuples give up to five files, thus two generations of merges of two,
  and a last run that is not full. Characters of one to three bytes, a NUL, and texts that
  agree in their prefix decide between bytes and characters. Three samples for up to five
  records make them replace each other; periodic ones stay.
* Bulk build: the graphs are nodes alone; properties in descending key order with an
  integer, a text and a real value; and a real value before an integer. The budgets make
  node sorts run in turn or side by side, with one index writer at a time or several, and
  large imports; the maps leave the background sort all, some or none of its share. One
  failure is enough: the code stops at the first.
* Validation: trunks of one leaf make the freelist several trunks long, with an even or
  odd number of unused pages, behind an older freelist, or empty. `Wrong` contains no
  page, the schema's root, the reserved page, one past the end, and pages that are
  nodes, chain pages, trunks (3 and 8) or free, depending on the file. So pages are
  lost, shared, read as trunks, or reached in a cycle: of trunks, of child pointers, of
  a chain. A page read as a trunk names no leaf, one, or too many (`SomePayload`). Keys
  meet dense parents, gaps, none, NULLs, texts and values out of range.
* Publication: one user who has the file open while another creates a journal, and a
  second importer who publishes in between, are the cases the code's checks are about.

`MaxRows`, `MaxCalls`, `MaxBytes`, `MaxRecords`, `MaxFaults`, `MaxNodes`, `MaxEdges` and
`MaxTries` are the only bounds that are not the code's; each is a guard on the
environment's steps. Deadlock is not checked in any run,
because each of these systems legitimately stops; the liveness properties replace it
where threads wait for each other.

### 3.2 Fairness

Fairness is used in `page_pool`, `csv_pipeline`, `csv_source`, `bulk_build` and
`validation`, and only for threads: the operating system schedules a thread that can run,
so weak fairness of each thread's steps holds. In `PagePool` no fairness is given to
handing out trees. A writer retries its compare-and-swap only after another has
succeeded, so weak fairness is enough. In `CsvSource` reads return and the importer asks
for records until the end (`produce_source` loops); giving up is its decision and not
fair. The weak fairness of `Lexer` is written with its enabling condition (`LexerReady`)
spelled out, because computing whether the lexer can step would parse the text again in
every state. In `BulkBuild` and `Validation` the main thread runs through its steps. Nothing
assumes that files, channels or SQLite never fail.

### 3.3 A finding

`publish_in_use`: `publish_import` locks the file it has opened (`publish.rs` 71-85) and
renames over whatever the path names at line 105, without comparing the two. If another
import replaces the destination in between, both with `--overwrite-destination`, the
lock belongs to a file that has lost its name, and a database that a third process has
open and locked is replaced. The message "destination is in use; offline overwrite
requires an exclusive lock" (line 83) states the intention. With at most one
overwriting importer the property holds (`publish`).

## 4. Proofs

TLAPS checks the theorems for every value of the constants that satisfies the named
`ASSUME`s: any number of threads, sources, rows, labels, keys and pages. Each proof module
extends the module it is about; 42 theorems are listed in `PROJECT.json`.

| module | theorems about what the runs check | inductive invariant |
|---|---|---|
| `PagePoolProofs` | `OneUsePerPage`, `ChainsIntact`, `SealedIsComplete`, `ImplementsPageFile` | `PoolInv` |
| `CsvPipelineProofs` | `LoadedInOrder`, `BackPressure`, `NoOrphans`, `VerdictIsSequential` | `PipelineInv`, `VerdictInv` |
| `InflatedReaderProofs` | `ImplementsStream`, and the parts of `WorkerAccounted` | `InflatedInv` |
| `OfflineImportProofs` | `AlwaysSound`, `IndexesMatchTables`, `EndpointsRight`, `CountsAgree` | `ImportInv`, `CountInv` |
| `GraphShapeProofs` | `LabelsKept`, `ShapesExact` | `ShapeInv`, `CountInv` |
| `BulkBuildProofs` | `NothingOutlives`, `SortersShareBudget`, `TreesExact` | `BuildInv`, `DataInv`, `LayoutInv`, `TurnsInv` |
| `ValidationProofs` | `FreelistComplete`, `ShortcutAgrees`, `AcceptsSound` | `FileAt`, `ValidationInv`, `FollowInv`, `WalkedAt` |
| `PublishProofs` | `NeverPartial`, `ReportsTruth`, `ImplementsDestination`; `NoStaleJournal` and `ReplacesOnlyUnused` for one overwriting importer | `PublishInv`, `AloneInv` |

The assumptions are what the program makes sure of: sizes and worker counts are positive,
a source has a file, lists are lists, group names differ from the name of internal IDs,
rows of nodes come before rows of relationships, no row names a property twice
(`validate_columns`), the sets of rows of a database are finite,
and the trees with an older freelist own every page but the unused ones once
(`FileAssumption`, which is what `PagePool` and `PageTree` promise; TLC evaluates it for
the images of `MCValidation`).

### 4.1 The arguments

**Page pool.** "Every page is used once" is not inductive by itself: one must know that a
writer's block lies below `next`, that pages from `next` on have never been touched, that
blocks of different writers are disjoint, that a chain in progress has its pages reserved,
and that a failed or unfinished writer is counted in `active` or has raised `failed`.
`SealedStaysFinal` is an action property: after `finish` no thread changes a page, the
spool or the counter. `PoolRefines` maps every step to one of `PageFile` or to none; the
compare-and-swap and the two halves of a returned tail are where the pool takes more steps
than the abstract file.

**CSV pipeline.** `PipelineInv` says where each thread is and that the rows not yet loaded
lie in order along the way: batch of the main thread, queue, parcel of the producer,
channels, batches of the readers. Every step moves rows one place on, so `InOrder` and
`NoRowLost` hold together or not at all. `ScheduleFree` needs `VerdictInv` besides:
batches are cut at the same records whatever the threads do, an error in a channel stands
for a record that does not parse, and nothing is missing in front of a batch under way.
The first fatal batch the main thread meets is then the first there is.

**Decompression.** `InflatedInv` counts the three buffers over their places and says that
the bytes delivered, held by the reader, queued and held by the worker are those decoded,
in this order. Each step of the reader is `Give`, `End` or `Fail` of `ByteStream` or
invisible to it.

**Importer.** `ImportInv` relates the spools, the index tuples and the tables to the ID map
and the cache, through the changes between them when an ACTUAL ID closes the spools.
`CountInv` adds the counters of the batch in hand and that a relationship's ID is its own;
then one more record changes the shape counts computed from scratch exactly as the code
changes them.

**Graph shapes.** `ShapeInv` is about names: dictionaries are injective lists, each
label group is one signature, and cached groups are right. A signature is the sorted
list of its IDs, so two rows with the same labels have the same one; that sorting keeps
every ID rests on ranks: as many as there are IDs, and different (`RankFacts`,
`CanonicalFacts`). `CountInv` is about numbers: for every shape, what its open run, the
map and the spill tables hold adds up to the number of its owners loaded so far. A shape
fits one slot only, since the keys of a batch are distinct; a row in the middle of being
counted is accounted for slot by slot. When `Finish` sums over label groups, the sum of
sizes is the number of pairs (`SumOfSizes`), which is the number of rows the schema's
backfill groups together. The size of the map does not occur: a spilled count is as good
as one in memory.

**Bulk build.** `BuildInv` says which sorts and writers can have begun, so that those that
run at the same time are known; `PoolShared` is then arithmetic on their shares.
`TreesExact` needs three invariants more. `DataInv` is about what was loaded: after n nodes
and m relationships the spools are the first n and m rows, the properties of the owner in
hand are still missing from the ordered spool of its table (`HandAt`, `Held`), and the
tuples are those of the records written so far (`TuplesOf`), up to a real value, which ends
the numeric ones for good. An owner is flushed in the order of its keys (`ByKeySorts`:
finitely many numbers can be put in order), so the spool goes on increasing when the next
owner is larger. `LayoutInv` is about where things are: trees have different root pages
through `VACUUM` and `CREATE INDEX`, the writers know the same root of each tree as the
database does, and a tree whose writer has ended holds what that writer was given; the schema then
adds what is missing behind all of them. `FinishedExact` puts the two together: tuples
projected to the fields of an index are what `SqlIndex` computes from the tables.
`TurnsInv` is about what must have begun: a sort or a writer that succeeded has started
those behind it and the indexes of a group start together, so when nothing can be started
and nothing runs, either a thread has failed or everything wanted is written
(`AllWritten`); and the check of the writer of ordered properties cannot fail.

**Validation.** `ValidationInv` says that each job that was taken is being done, or was
done and held, or something failed, and that a failure has a reason that stays.
`VerdictOfJobs` follows: no job was lost. `CoversAt` adds that every table and every list
of keys is some job's, and `NativeAt`, `JoinedAt` what a verdict was reached from.
`ShortcutExact` rests on a finite set of integers being an
interval if it has as many members as there are numbers between its ends.

**Freelist.** While trunks are written the file is not sound: free pages are not yet named
by anything. `FileAt` says how far `finish` has come: the first `counted` unused pages
are `Linked`, that is, each of them behind the first is named once, by an earlier one, and
the last trunk names the next page to become one, or the first page of the older freelist;
all other pages are as the trees left them. `LinkTrunk` adds a trunk with its leaves.
When all are linked (`LinkedIsSound`), pointers of trees, of the older freelist and of the
new trunks end at different pages; a set of pages named only from within would have a
least member among the new ones, which an earlier page or the header names, or lie wholly
in what was sound before. The pages the header counts are the old ones and `counted` new
ones, because ranges are as long as the list of their pages (`FreePagesCounted`), so
"free-page count mismatch" is never raised.

**Ownership walk.** `Sound` speaks of all pointers at once and of all sets of pages, the
walk of a stack. They meet in `FollowInv`, which tells three cases apart. In a sound
file the pages still to be visited (the stack, the roots to come, the next trunk) are a
`Frontier`: each page not walked is reached through one of them, by one pointer. Taking
a page off and putting its targets on keeps that (`FrontierMoves`), so no page is met
twice and all have been met at the end. In a damaged file, either some page is named by
nothing any more: then it is not in the stack, whatever has been read, and is missing at
the end (`Missed`). Or the pointer led nowhere before, or it was the count in the
header: the file is a sound one but for a chain or the freelist, which goes on where it
ended, or for the count. The walk then follows the sound file until it reads the
difference, and stops with an error there (`Trail`). Unless the end of the freelist
leads to a page of the trees, which is then read as a trunk: everything reached from it
is marked or still to be visited, so the trees cannot be walked to their end without
meeting a marked page (`Misread`). `WalkTells` concludes that the walk ends with an
error exactly if the file is not sound, and `WalkedAt` that this outlasts the walk.
Depth never matters for a sound file because its trees are no deeper than SQLite allows
(`Shallow`).

**Publication.** `PublishInv` says where an importer must be to hold a lock, what it has
flushed, published and reported by the time it is at each place, and that what an
overwriting importer found at the destination is still there or has been replaced by
another import. `Lone` (at most one importer overwrites) is the hypothesis of
`NoJournalLeft` and `UnusedWhenReplaced`; the run `publish_in_use` shows that
`ReplacesOnlyUnused` is false without it (3.3). `AloneInv` says that between its check and its
rename the file a lone overwriter has locked is the one the path names, and that no
journal appears beside it any more.

Recursive functions (`Known`, `Named`, `EndRuns`, `Only`, ...) are shown to exist before
they are used (`KnownExists`, `SumUnique`, ...) by `SetInduction`: the least number a set
lacks would follow one it has. The library's induction theorems take an operator as
parameter, which the provers cannot instantiate.

### 4.2 What the proofs changed

* `PageFile` had no step for an attempt to seal the file that fails after part of the last
  block was freed (`Abandon`); without it `ImplementsPageFile` is false, in a case the
  run's bounds did not contain.
* Overlapping guards of a `CASE` in `InflatedReader.Send`, and an unguarded `Head` of an
  empty queue, left the model undefined where the code is not.
* In `Validation` a worker's job is now a function of workers throughout.
* What a sound file is (`Sound`) is now said of any content and any set of owned pages, so
  that the finished file and the one the trees leave (`Left`) are judged by the same
  words; a chain has at least one page.
* A pointer `Fits` only if the page it names is of the kind it is taken for. Before,
  leaves of the freelist were exempt, and a file whose trunk listed a page of a tree that
  nothing else named counted as sound.
* The page of the lock byte is `Blank` (`Left`), no tree is deeper than `MaxDepth`
  (`Shallow`), tables with an unsound record are tables of the list, and the list has no
  others: without these `AcceptsSound` is false, although not on the run's instances.
* The first word of a blank page is 0, where a chain could end; it had been taken for one
  no chain could end with.
* Nothing in `BulkBuild` said that the properties of a row have different keys, without
  which its primary key would not increase (`IsRow`).
* Recursive operators became recursive functions, keys of shapes became tuples, and
  `BatchKey` a quotient: the same values, in a form that can be reasoned about. Root pages
  that the schema adds are numbered by `IndexOrder`, whatever was created before.
* The assumptions on constants were completed (`PipelineAssumption`,
  `OfflineImportAssumption`, `BulkBuildAssumption`, `ValidationAssumption`,
  `GraphShapeAssumption`, `InflatedReaderAssumption`).

### 4.3 Only model-checked

* Liveness: `EveryWriterLeaves`, `ReachesVerdict`, `SourceEnds`, `ValidationEnds`,
  `BuildEnds`. The prover has no rule for fairness and ENABLED.
* `RowsAsWritten`, `HeadersResolved` and `WorkerAccounted` of `CsvSource`: the lexer and its
  reference are RECURSIVE operators, which a module with theorems must not reach.
* `GroupsAccounted` and `FirstNodeKept` of `IdMap`, `TreeWellFormed` and `PlanExact` of
  `PageTree`, `SortsOrRefuses` and `SamplesTrue` of `ExternalSort`.

`PoolInv`, `SealedIsFinal`, `PublishInv`, `ReplacesOnlyAsked` and the other inductive
invariants are proved and need no run of their own. TLC finds each of them invariant on the
instances of section 3, too (`InflatedInv` for packed sources); only the `CountInv` of
`GraphShapeProofs` speaks of every shape there could be and is not for TLC.

## 5. Plan

Done: the modules above, in this order: page pool, CSV pipeline, publication, ID map,
importer, shape counts, decompression, page trees with the page plan, external sort; then
text index and statistics, freelist and validation, the bulk build, the CSV reader with
discovery and conversion, and the graph shapes with their catalog. Then the proofs of
section 4.

To prove next: `FirstNodeKept` for one representation of the ID map at a time.

To model, if anything: statement termination in the shell, and the triggers that keep
shape counts after an import.

## 6. Not modelled

* The engine, the build script, the rendering of results, argument and manifest parsing
  and the schema contract are sequential or outside the repository: a model would restate
  the code. `PROJECT.json` gives a reason for each.
* The triggers of the schema that keep shape counts while the engine changes a graph. An
  import drops all triggers before it loads and restores all but these at its end
  (`native.rs` 481, 1121-1135), so none fires.
* Conversions of single values to dates, points, vectors, floats and quoted arrays
  (`header.rs`): they turn one text into one value and touch no state. Integers, texts and
  byte arrays are in `RowValues`.
* The order of the files of a pattern. `natural_cmp` (`import/input.rs` 80) is not
  transitive where one name is a prefix of another up to leading zeros: "001" sorts before
  "1aaa", that before "1b", and that before "001". The order such files are read in is
  then up to the sorting algorithm; the hazard is listed without a property.
* A byte order mark is one symbol, and a record of external ID columns is one key.
* File formats of spools and runs, the bytes of cells and of frames, and how one radix
  pass is divided between threads.
* The periodic commits of the private staging database: it is thrown away whenever the
  import fails.

## 7. Running

    tlc -config PagePool.cfg MCPagePool
    tlapm PagePoolProofs.tla      (and the other *Proofs modules)

Each `.cfg` belongs to the `MC` module named in `PROJECT.json`. The longest runs take
about three minutes on two cores.
