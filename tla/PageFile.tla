------------------------------ MODULE PageFile ------------------------------
(***************************************************************************)
(* What the bulk loader's shared page space promises, whatever threads     *)
(* fill it: pages are appended to the database file, every page receives   *)
(* content at most once or is put on the free list at most once, the page  *)
(* of SQLite's lock byte is never touched, and the file can be sealed only *)
(* when every page of it is accounted for.  A sealed file is never written *)
(* again; an abandoned one is never sealed.                                *)
(***************************************************************************)
EXTENDS Naturals

CONSTANTS BootEnd,   (* first page after the bootstrap schema pages        *)
          Pending,   (* SQLite's lock-byte page, which no tree may use     *)
          Limit      (* pages are numbered below this bound (u32::MAX)     *)

VARIABLES size,      (* first page number not yet part of the file         *)
          kept,      (* how often each page has been given tree content    *)
          spare,     (* how often each page has been put on the free list  *)
          state      (* "open", "sealed" or "abandoned"                    *)

fileVars == <<size, kept, spare, state>>

FilePages == BootEnd .. (Limit - 1)

\* A page of the file that nobody has used yet.
Blank(p) == /\ p \in BootEnd .. (size - 1)
            /\ p # Pending
            /\ kept[p] = 0
            /\ spare[p] = 0

FileInit == /\ size = BootEnd
            /\ kept = [p \in FilePages |-> 0]
            /\ spare = [p \in FilePages |-> 0]
            /\ state = "open"

Extend == /\ state # "sealed"
          /\ size' \in (size + 1) .. Limit
          /\ UNCHANGED <<kept, spare, state>>

Keep == /\ state # "sealed"
        /\ \E p \in FilePages :
             /\ Blank(p)
             /\ kept' = [kept EXCEPT ![p] = 1]
        /\ UNCHANGED <<size, spare, state>>

\* A run of pages a writer leaves unfilled goes to the free list as a whole.
SpareRun(a, b) ==
  /\ \A p \in a .. (b - 1) : p = Pending \/ Blank(p)
  /\ spare' = [p \in FilePages |->
                 IF p \in a .. (b - 1) /\ p # Pending THEN spare[p] + 1
                                                      ELSE spare[p]]

Release == /\ state # "sealed"
           /\ \E a, b \in BootEnd .. Limit : a <= b /\ SpareRun(a, b)
           /\ UNCHANGED <<size, kept, state>>

Seal == /\ state = "open"
        /\ \E a, b \in BootEnd .. Limit : a <= b /\ SpareRun(a, b)
        /\ \A p \in BootEnd .. (size - 1) :
             p # Pending => kept[p] + spare'[p] = 1
        /\ state' = "sealed"
        /\ UNCHANGED <<size, kept>>

\* The attempt to seal the file may fail after a part of the last run was freed.
Abandon == /\ state = "open"
           /\ \E a, b \in BootEnd .. Limit : a <= b /\ SpareRun(a, b)
           /\ state' = "abandoned"
           /\ UNCHANGED <<size, kept>>

FileNext == Extend \/ Keep \/ Release \/ Seal \/ Abandon

FileSpec == FileInit /\ [][FileNext]_fileVars

=============================================================================
