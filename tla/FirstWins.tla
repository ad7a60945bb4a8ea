------------------------------ MODULE FirstWins ------------------------------
(***************************************************************************)
(* What the importer's map from external IDs to nodes promises: the first  *)
(* node declared for an ID keeps it, a later one is refused, and once the  *)
(* relationships start nothing is added any more.                          *)
(***************************************************************************)
CONSTANTS Keys,      (* an ID group and an external ID                       *)
          Nodes      (* nodes an ID may stand for                            *)

VARIABLES known,     (* the node of every key declared so far                *)
          open,      (* whether keys may still be declared                   *)
          reply      (* whether the last declaration was the first of its key *)

firstWinsVars == <<known, open, reply>>

FirstWinsInit == known = <<>> /\ open = TRUE /\ reply = TRUE

Declare(k, n) ==
  /\ open
  /\ reply' = (k \notin DOMAIN known)
  /\ known' = [j \in DOMAIN known \cup {k} |->
                 IF j \in DOMAIN known THEN known[j] ELSE n]
  /\ UNCHANGED open

Close == open /\ open' = FALSE /\ UNCHANGED <<known, reply>>

\* The map is given up once the last relationship has been resolved.
Forget == known' = <<>> /\ UNCHANGED <<open, reply>>

FirstWinsNext == (\E k \in Keys, n \in Nodes : Declare(k, n)) \/ Close \/ Forget

FirstWinsSpec == FirstWinsInit /\ [][FirstWinsNext]_firstWinsVars
=============================================================================
