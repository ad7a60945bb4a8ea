----------------------------- MODULE MCPagePool -----------------------------
(***************************************************************************)
(* Instance of PagePool for TLC.  The forked writers are interchangeable,  *)
(* but the run checks liveness too and does without symmetry.              *)
(***************************************************************************)
EXTENDS PagePool
=============================================================================
