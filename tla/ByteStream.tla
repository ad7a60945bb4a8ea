----------------------------- MODULE ByteStream -----------------------------
(***************************************************************************)
(* What a reader of one compressed CSV file is promised: the bytes of the  *)
(* file in order, and an end that is true.  The end of the file is only    *)
(* reported after its last byte, an error of the decoder only after every  *)
(* byte in front of it; a decoder that panics may lose bytes, but then the *)
(* reader gets an error.                                                   *)
(***************************************************************************)
EXTENDS Naturals, Sequences

CONSTANT MaxBytes    (* bound: bytes of a file                              *)

Endings == {"eof", "error", "panic"}
Inputs  == [length : 0 .. MaxBytes, ending : Endings]

VARIABLES input,   (* what decoding the file yields                          *)
          out,     (* the bytes handed out: their positions in the file      *)
          verdict  (* "open", "eof", "error", or "closed": dropped before    *)

Init == /\ input \in Inputs
        /\ out = <<>>
        /\ verdict = "open"

NextBytes(k) == [i \in 1 .. k |-> Len(out) + i]

Give == /\ verdict = "open"
        /\ \E k \in 1 .. (input.length - Len(out)) : out' = out \o NextBytes(k)
        /\ UNCHANGED <<input, verdict>>

End == /\ verdict = "open"
       /\ \/ /\ verdict' = "eof"
             /\ input.ending = "eof" /\ Len(out) = input.length
          \/ /\ verdict' = "error"
             /\ input.ending = "error" => Len(out) = input.length
             /\ input.ending # "eof"
          \/ verdict' = "closed"
       /\ UNCHANGED <<input, out>>

Spec == Init /\ [][Give \/ End]_<<input, out, verdict>>

=============================================================================
