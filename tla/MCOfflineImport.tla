-------------------------- MODULE MCOfflineImport --------------------------
(***************************************************************************)
(* Instances of OfflineImport for TLC.  ID groups and label groups are     *)
(* interchangeable names.                                                  *)
(***************************************************************************)
EXTENDS OfflineImport, TLC

Symmetric == Permutations(IdGroups) \cup Permutations(Labels)
=============================================================================
