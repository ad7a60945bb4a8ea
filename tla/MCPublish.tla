------------------------------ MODULE MCPublish ------------------------------
(* Small instances of Publish. *)
EXTENDS Publish, TLC

UserSymmetry == Permutations(Users)
=============================================================================
