----------------------------- MODULE MCBulkBuild -----------------------------
(* Instances of BulkBuild for TLC.                                         *)
EXTENDS BulkBuild

N(label, properties) == [kind |-> "node", label |-> label, properties |-> properties]
E(from, to, type, properties) ==
  [kind |-> "edge", from |-> from, to |-> to, type |-> type, properties |-> properties]

\* Values: a class and what a comparison sees of it.
I(v) == <<"integer", v>>
R(v) == <<"real", v>>
T(v) == <<"text", v>>
O(v) == <<"other", v>>

\* Nothing but nodes; keys in descending order; real values before and after integers;
\* relationships with and without properties.
SomeGraphs ==
  {<<N(2, <<>>)>>,
   <<N(1, <<<<2, I(7)>>, <<1, T(<<"a", "b", "c">>)>>>>), N(2, <<<<1, O(0)>>>>),
     E(2, 1, 3, <<<<2, I(5)>>, <<1, R(6)>>>>), E(1, 1, 2, <<<<1, I(4)>>>>)>>,
   <<N(1, <<<<1, I(3)>>>>), N(1, <<<<2, R(5)>>, <<1, I(3)>>>>), E(1, 2, 1, <<>>)>>}
SomeMaps == {<<0, FALSE>>, <<100, TRUE>>, <<400, FALSE>>}
=============================================================================
