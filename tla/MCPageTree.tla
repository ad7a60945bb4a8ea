----------------------------- MODULE MCPageTree -----------------------------
(* Trees of PageTree for TLC.  Record lengths repeat every sequence of up to *)
(* three lengths: tiny ones, the longest that stay on an index and on a      *)
(* table leaf, the next longer one, and one that fills an overflow page and  *)
(* leaves the longest possible cell; and up to five that suit an index.      *)
EXTENDS PageTree

SomePatterns == UNION {[1 .. n -> {1, 4, 28, 29, 68}] : n \in 1 .. 3}
                  \cup UNION {[1 .. n -> {1, 3, 4}] : n \in 1 .. 5}

=============================================================================
