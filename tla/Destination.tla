----------------------------- MODULE Destination -----------------------------
(***************************************************************************)
(* What an import promises about the file at its destination: it changes   *)
(* at one instant, from what it was to a complete database; a file that    *)
(* exists is replaced only for an import that asked for it; an import that *)
(* reports an error has not published; and what was reported as published  *)
(* survives a power failure.                                               *)
(***************************************************************************)
CONSTANTS Importers,   (* import processes                                 *)
          Overwrite,   (* those started with --overwrite-destination=true  *)
          None         (* no file at the destination                       *)

VARIABLES shows,       (* the file at the destination                      *)
          sure,        (* the file a power failure may bring back          *)
          complete,    (* imports whose database is finished and on disk   *)
          published,   (* imports whose database has been the destination  *)
          said         (* what each import process reported                *)

destinationVars == <<shows, sure, complete, published, said>>

DestinationInit(start) == /\ shows = start
                          /\ sure = start
                          /\ complete = {}
                          /\ published = {}
                          /\ said = [i \in Importers |-> "nothing"]

Complete(i) == /\ i \notin complete
               /\ complete' = complete \cup {i}
               /\ UNCHANGED <<shows, sure, published, said>>

Publish(i) == /\ i \in complete \ published
              /\ shows = None \/ i \in Overwrite
              /\ shows' = i
              /\ published' = published \cup {i}
              /\ UNCHANGED <<sure, complete, said>>

\* Somebody else creates a database where there is none.
Occupy(f) == /\ shows = None
             /\ f # None /\ f \notin Importers
             /\ shows' = f
             /\ UNCHANGED <<sure, complete, published, said>>

Settle == /\ sure' = shows
          /\ UNCHANGED <<shows, complete, published, said>>

\* "warned": published, but the directory could not be synced.
Report(i, what) ==
  /\ said[i] = "nothing"
  /\ \/ what = "error" /\ i \notin published /\ UNCHANGED sure
     \/ what = "warned" /\ i \in published /\ UNCHANGED sure
     \/ what = "ok" /\ i \in published /\ sure' = shows
  /\ said' = [said EXCEPT ![i] = what]
  /\ UNCHANGED <<shows, complete, published>>

PowerFails == /\ shows' = sure
              /\ UNCHANGED <<sure, complete, published, said>>

DestinationNext == \/ \E i \in Importers : Complete(i) \/ Publish(i)
                   \/ \E i \in Importers, what \in {"error", "warned", "ok"} :
                        Report(i, what)
                   \/ \E f \in {"made"} : Occupy(f)
                   \/ Settle
                   \/ PowerFails

DestinationSpec == /\ \E start \in {None, "old"} : DestinationInit(start)
                   /\ [][DestinationNext]_destinationVars
=============================================================================
