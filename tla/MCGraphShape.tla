--------------------------- MODULE MCGraphShape ---------------------------
(***************************************************************************)
(* Instance of GraphShape for TLC: label sets named in different orders,   *)
(* values of three shapes, a shape map that is full after one entry.       *)
(***************************************************************************)
EXTENDS GraphShape

Bool      == [class |-> "blob", tag |-> "1"]
List      == [class |-> "blob", tag |-> "2"]

MCValues     == {Null, Bool, List}
MCLabelCells == {<<>>, <<"B">>, <<"B", Empty, "A", "B">>, Invalid}
MCTypeCells  == {Null, "U", Invalid}

MCNodeBatches == { [labels |-> <<>>, column |-> TRUE, keys |-> <<"p">>],
                   [labels |-> <<"A">>, column |-> TRUE, keys |-> <<>>],
                   [labels |-> <<"B", "A">>, column |-> FALSE, keys |-> <<"p">>],
                   [labels |-> <<"A">>, column |-> FALSE, keys |-> <<"p", "p">>] }
MCEdgeBatches == { [type |-> "T", column |-> TRUE, keys |-> <<"p">>, skip |-> TRUE],
                   [type |-> Null, column |-> TRUE, keys |-> <<>>, skip |-> FALSE],
                   [type |-> Empty, column |-> FALSE, keys |-> <<>>, skip |-> FALSE] }
=============================================================================
