---------------------------- MODULE MCValidation ----------------------------
(* Nine pages with one reserved and trunks of one leaf.  Page 1 is the root *)
(* of the schema; page 2 that of a table with two levels and an overflow    *)
(* chain of two pages.                                                      *)
EXTENDS Validation

Whole == [content |-> <<Tree(<<>>, <<>>), Tree(<<3, 4>>, <<>>), Tree(<<>>, <<<<5, 2>>>>),
                        Tree(<<>>, <<>>), Chain(7), Blank, Chain(0), Blank, Blank>>,
          roots |-> <<1, 2>>, ranges |-> <<<<8, 10>>>>, first |-> 0, free |-> 0]

\* Three unused pages in two ranges, a tree of one page.
Spare == [content |-> <<Tree(<<>>, <<<<4, 1>>>>), Tree(<<>>, <<<<5, 1>>>>), Blank, Chain(0),
                        Chain(0), Blank, Tree(<<>>, <<>>), Blank, Blank>>,
          roots |-> <<1, 2, 7>>, ranges |-> <<<<8, 10>>, <<3, 4>>>>, first |-> 0, free |-> 0]

\* An earlier freelist of a trunk and its leaf; with and without new free pages.
Older == [content |-> <<Tree(<<>>, <<>>), Tree(<<7, 5>>, <<>>), Trunk(0, <<4>>), Blank,
                        Tree(<<>>, <<>>), Blank, Tree(<<>>, <<>>), Blank, Blank>>,
          roots |-> <<1, 2>>, ranges |-> <<<<8, 10>>>>, first |-> 3, free |-> 2]

Full  == [Whole EXCEPT !.content[8] = Tree(<<>>, <<>>), !.content[9] = Tree(<<>>, <<>>),
                       !.content[4].children = <<9, 8>>, !.ranges = <<>>]

SomeImages == {Whole, Spare, Older, Full}

Integer(n) == <<"integer", n>>
Other(n)   == <<"text", n>>
Null       == <<"null", 0>>

Key(parent, alias, seq) == [parent |-> parent, alias |-> alias, seq |-> seq]
SomeTables == <<"node", "edge", "edge_text">>
SomeKeys ==
  [t \in {"node", "edge", "edge_text", "sqlite_schema"} |->
     CASE t = "edge" -> <<Key("node", TRUE, 0), Key("label", TRUE, 0)>>
       [] t = "edge_text" -> <<Key("label", FALSE, 0)>>
       [] t = "node" -> <<Key("label", TRUE, 0)>>
       [] OTHER -> <<>>]

Rows(nodes, from, label, bad) ==
  [ids  |-> [p \in {"node", "label"} |-> IF p = "node" THEN nodes ELSE {1}],
   refs |-> [t \in {"node", "edge", "edge_text", "sqlite_schema"} |->
               CASE t = "edge" -> <<from, {Integer(1)}>>
                 [] t = "edge_text" -> <<label>>
                 [] t = "node" -> <<{Integer(1)}>>
                 [] OTHER -> <<>>],
   bad  |-> bad]

Dense == {1, 2}
Gap   == {1, 3}
SomeRows ==
  {Rows(Dense, {Integer(1), Integer(2)}, {Integer(1)}, {}),
   Rows(Dense, {Integer(2), Other(1), Null}, {Other(1)}, {}),
   Rows(Gap, {Integer(1), Integer(3)}, {Integer(1)}, {}),
   Rows(Gap, {Integer(2)}, {Null}, {}),
   Rows(Dense, {Integer(3)}, {Integer(1)}, {}),
   Rows({}, {Null}, {Integer(2)}, {}),
   Rows(Dense, {Other(3)}, {Integer(1)}, {}),
   Rows(Dense, {Integer(1)}, {Integer(1)}, {"edge_text"})}

SomeDatabases ==
  ({Whole} \X SomeRows)
    \cup (SomeImages \X {Rows(Dense, {Integer(1), Integer(2)}, {Integer(1)}, {})})

\* As a trunk page 4 names no leaves, page 5 one, and the others too many.
SomePayload ==
  [p \in 1 .. 9 |-> CASE p = 4 -> <<>> [] p = 5 -> <<9>> [] OTHER -> <<1, 2>>]

=============================================================================
