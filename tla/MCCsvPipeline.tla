---------------------------- MODULE MCCsvPipeline ----------------------------
(* Small inputs for CsvPipeline: every sequence of three sources drawn from   *)
(* six: a plain one, one of two files, one with a parse error, one with bad   *)
(* entries, one the loader rejects, and one whose second file fails late.     *)
EXTENDS CsvPipeline

Plain    == << <<"head", "row", "row", "row">> >>
TwoFiles == << <<"head", "row">>, <<"head", "row">> >>
Broken   == << <<"head", "row", "bad", "row">> >>
Skips    == << <<"head", "skip", "row", "skip">> >>
Refused  == << <<"head", "row", "reject">> >>
LateBad  == << <<"head">>, <<"row", "row", "skip", "bad">> >>

MCInputs == [1 .. 3 -> {Plain, TwoFiles, Broken, Skips, Refused, LateBad}]

=============================================================================
