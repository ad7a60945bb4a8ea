----------------------------- MODULE ShapeCounts -----------------------------
(***************************************************************************)
(* Graph-shape counting while rows stream by (native.rs, ShapeCounts and   *)
(* BatchShapeCounts).  A run per column absorbs repeated shapes; a run     *)
(* that ends goes to a bounded map; a full map is added to the shape       *)
(* tables of the private import_ids database.  The three are one counter:  *)
(* c.runs, c.entries and c.tables.                                         *)
(***************************************************************************)
EXTENDS Integers, Sequences, SequencesExt

CONSTANT MaxEntries   (* max_entries: what the memory budget leaves room for *)

ASSUME ShapeCountsAssumption == MaxEntries \in Nat \ {0}

\* A table or map that holds a positive count for each of its keys.
At(f, k)    == IF k \in DOMAIN f THEN f[k] ELSE 0
Added(f, g) == [k \in DOMAIN f \cup DOMAIN g |-> At(f, k) + At(g, k)]

NoRun == [key |-> <<>>, count |-> 0]

\* The runs of a batch: slot 1 for the row itself, one for each property column.
NewRuns(properties) == [s \in 1 .. properties + 1 |-> NoRun]

NewCounter == [runs |-> <<>>, entries |-> <<>>, tables |-> <<>>]

\* flush: ON CONFLICT DO UPDATE SET count = count + excluded.count, for every entry.
Spill(c) == [c EXCEPT !.entries = <<>>, !.tables = Added(@, c.entries)]

\* Mutation of AddCount: the entries are cleared, not spilled, when the map is full.
AddAndForget(c, run) ==
  LET full == run.key \notin DOMAIN c.entries /\ Cardinality(DOMAIN c.entries) >= MaxEntries
      room == IF full THEN [c EXCEPT !.entries = <<>>] ELSE c
  IN [room EXCEPT !.entries = Added(@, [k \in {run.key} |-> run.count])]

\* add_count: a new key that finds the map full spills all of it first.
AddCount(c, run) ==
  LET full == run.key \notin DOMAIN c.entries /\ Cardinality(DOMAIN c.entries) >= MaxEntries
      room == IF full THEN Spill(c) ELSE c
  IN [room EXCEPT !.entries = Added(@, [k \in {run.key} |-> run.count])]

EndRun(c, s) == IF c.runs[s] = NoRun THEN c
                ELSE [AddCount(c, c.runs[s]) EXCEPT !.runs[s] = NoRun]

\* increment: the run goes on, or the previous run is handed over.
Increment(c, s, k) == IF c.runs[s].key = k THEN [c EXCEPT !.runs[s].count = @ + 1]
                      ELSE [EndRun(c, s) EXCEPT !.runs[s] = [key |-> k, count |-> 1]]

\* The end of a batch hands every run over, column by column.
EndRuns(c) ==
  LET ended[s \in 0 .. Len(c.runs)] == IF s = 0 THEN c ELSE EndRun(ended[s - 1], s)
  IN  ended[Len(c.runs)]

=============================================================================
