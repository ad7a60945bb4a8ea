------------------------------ MODULE MCIdMap ------------------------------
(***************************************************************************)
(* Instance of IdMap for TLC: two bits a word, two words a page, two pages *)
(* a region.  The IDs reach the smallest i64, both regions, both pages of  *)
(* one region, both words of one page and two slots of one word.           *)
(***************************************************************************)
EXTENDS IdMap

N(i, l) == [id |-> i, label |-> l]

SomeIds == {-8, -3, -2, -1, 0}

\* Node 1 continues node 0, node 2 has another label group, and node 4 does not fit
\* the narrow integer.
SomeNodes == {N(0, 0), N(1, 0), N(2, 1), N(4, 0)}
=============================================================================
