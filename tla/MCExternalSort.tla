--------------------------- MODULE MCExternalSort ---------------------------
(* Words of four bits and bytes of two.  The first field has one bit, the   *)
(* others have four, so that keys of every type, constant fields in every   *)
(* place and keys that fill their type exactly, also behind a constant      *)
(* field, occur.  Byte 0 is NUL, 1 the only other ASCII character, 2 and 3  *)
(* continue and lead longer ones; prefixes have two characters.             *)
EXTENDS ExternalSort

SomeTuples == {<<-1, -8, -8>>, <<-1, 7, -8>>, <<-1, -8, 7>>, <<-1, 7, 7>>,
               <<0, 7, -8>>, <<0, -8, 7>>}
SomeOrder  == <<1, 3, 2>>

A == <<1>>
E == <<3, 2>>
H == <<3, 3, 2>>
Z == <<0>>

SomeEntries == {<<<<0, 1, 0>>, <<A, A, E>>>>, <<<<0, 1, 1>>, <<A, E, A>>>>,
                <<<<0, 7, 2>>, <<E, A, H>>>>, <<<<0, -8, 2>>, <<H, Z, A>>>>,
                <<<<0, 1, 1>>, <<A, Z, E>>>>, <<<<1, 1, 0>>, <<A, E, H>>>>}

SomeHashes == {<<1, 2, 3, 4, 5>>, <<5, 1, 4, 2, 3>>}
SomeRows   == [k \in Kinds |-> IF k = "sorted" THEN 5 ELSE 4]

=============================================================================
