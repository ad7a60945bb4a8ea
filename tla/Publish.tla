------------------------------- MODULE Publish -------------------------------
(***************************************************************************)
(* Publication of a finished import (offline_import/publish.rs, unix) and  *)
(* the file-system half of execute (import/mod.rs).  The import builds its *)
(* database in a private staging directory and makes it the destination by *)
(* one rename, or one hard link where there was no file.  Meanwhile other  *)
(* processes may open, create, use and leave the destination, any of them  *)
(* may crash, and the power may fail.                                      *)
(*                                                                         *)
(* Files are inodes: a name may come to mean another file while a process  *)
(* still holds, and has locked, the one it opened.                         *)
(***************************************************************************)
EXTENDS Naturals, FiniteSets

CONSTANTS
  Importers,  (* velr-admin processes with the same destination; the file an *)
              (* importer stages bears the importer's name                   *)
  Overwrite,  (* importers started with --overwrite-destination=true         *)
  Users,      (* other processes with a SQLite connection to the destination *)
  None        (* no file                                                     *)

ASSUME PublishAssumption == /\ Overwrite \subseteq Importers
                            /\ None \notin Importers \cup {"old", "made"}
                            /\ {"old", "made"} \cap Importers = {}

Files == Importers \cup {"old", "made"}

VARIABLES
  dest,      (* the file the destination path names                          *)
  synced,    (* what it named when its directory was last synced             *)
  sidecar,   (* whether a -wal, -shm or -journal lies beside it              *)
  content,   (* what a file holds                                            *)
  flushed,   (* files whose data is on disk                                  *)
  mode,      (* the journal mode of each database                            *)
  owner,     (* who holds SQLite's exclusive lock on a file                  *)
  locked,    (* users holding a shared lock on a file                        *)
  upc, uses, (* each user's state and the file it opened                     *)
  pc,        (* each importer's place in execute and publish_import          *)
  guard,     (* the file each importer's SQLite connection opened            *)
  wal,       (* whether the importer found that file in WAL mode             *)
  staging,   (* importers whose staging directory exists                     *)
  report,    (* what the importer told its caller                            *)
  published, (* history: importers whose file became the destination         *)
  power      (* FALSE once the power has failed                              *)

place == <<dest, synced, sidecar, published>>
files == <<content, flushed, mode>>
locks == <<owner, locked>>
users == <<upc, uses>>
import == <<pc, guard, wal, staging, report>>
vars  == <<place, files, locks, users, import, power>>

Init == /\ dest \in {None, "old"}
        /\ synced = dest
        /\ sidecar \in (IF dest = None THEN {FALSE} ELSE BOOLEAN)
        /\ content \in {[f \in Files |-> CASE f = "old"  -> x
                                           [] f = "made" -> "velr"
                                           [] OTHER      -> "partial"] :
                          x \in {"velr", "alien", "nofile"}}
        /\ flushed = {"old"}
        /\ mode \in [Files -> {"wal", "rollback"}]
        /\ \A i \in Importers : mode[i] = "wal"
        /\ owner = [f \in Files |-> None]
        /\ locked = [f \in Files |-> {}]
        /\ upc = [u \in Users |-> "closed"]
        /\ uses = [u \in Users |-> None]
        /\ pc = [i \in Importers |-> "start"]
        /\ guard = [i \in Importers |-> None]
        /\ wal = [i \in Importers |-> FALSE]
        /\ staging = {}
        /\ report = [i \in Importers |-> "nothing"]
        /\ published = {}
        /\ power = TRUE

Goto(i, l) == pc' = [pc EXCEPT ![i] = l]

\* Closing the SQLite connection gives its lock up.
Release(i) == owner' = [f \in Files |-> IF owner[f] = i THEN None ELSE owner[f]]

\* An error is returned; the staging directory is removed afterwards.
Fails(i) == /\ report' = [report EXCEPT ![i] = "error"]
            /\ Goto(i, "cleanup")
            /\ Release(i)
            /\ sidecar' = (sidecar /\ ~(\E f \in Files : owner[f] = i))

At(i, l) == power /\ pc[i] = l

-----------------------------------------------------------------------------
(* execute: the checks before anything is built, loading, finalization.    *)

\* An existing destination is refused here already; otherwise staging begins.
Start(i) ==
  /\ At(i, "start")
  /\ \/ /\ dest # None => i \in Overwrite
        /\ staging' = staging \cup {i}
        /\ Goto(i, "load")
        /\ UNCHANGED report
     \/ /\ Goto(i, "gone")
        /\ report' = [report EXCEPT ![i] = "error"]
        /\ UNCHANGED staging
  /\ UNCHANGED <<place, files, locks, users, guard, wal, power>>

\* importer.finish() has returned: the staged database is complete and closed.
Finalize(i) ==
  /\ At(i, "load")
  /\ content' = [content EXCEPT ![i] = "velr"]
  /\ Goto(i, "sync")
  /\ UNCHANGED <<place, flushed, mode, locks, users, guard, wal, staging, report,
                 power>>

-----------------------------------------------------------------------------
(* publish_import                                                          *)

\* A directory that cannot be synced is refused before the commit point.
SyncFirst(i) ==
  /\ At(i, "sync")
  /\ synced' = dest
  /\ Goto(i, "flush")
  /\ UNCHANGED <<dest, sidecar, published, files, locks, users, guard, wal, staging,
                 report, power>>

\* Mutation of FlushStage: the staged file is not synced.
SkipFlush(i) ==
  /\ At(i, "flush")
  /\ Goto(i, "stat")
  /\ UNCHANGED <<place, files, locks, users, guard, wal, staging, report, power>>

\* sync_all on the staged file.
FlushStage(i) ==
  /\ At(i, "flush")
  /\ flushed' = flushed \cup {i}
  /\ Goto(i, "stat")
  /\ UNCHANGED <<place, content, mode, locks, users, guard, wal, staging, report,
                 power>>

Stat(i) ==
  /\ At(i, "stat")
  /\ IF dest = None THEN /\ Goto(i, "link")
                         /\ UNCHANGED <<report, owner, sidecar>>
     ELSE IF i \in Overwrite /\ content[dest] # "nofile"
          THEN /\ Goto(i, "sidecars")
               /\ UNCHANGED <<report, owner, sidecar>>
          ELSE Fails(i)
  /\ UNCHANGED <<dest, synced, published, files, locked, users, guard, wal, staging,
                 power>>

CheckSidecars(i) ==
  /\ At(i, "sidecars")
  /\ IF sidecar THEN Fails(i)
                ELSE Goto(i, "open") /\ UNCHANGED <<report, owner, sidecar>>
  /\ UNCHANGED <<dest, synced, published, files, locked, users, guard, wal, staging,
                 power>>

OpenGuard(i) ==
  /\ At(i, "open")
  /\ guard' = [guard EXCEPT ![i] = dest]
  /\ Goto(i, "lock")
  /\ UNCHANGED <<place, files, locks, users, wal, staging, report, power>>

\* Mutation of LockDestination: only other importers are kept out.
LockAmongUsers(i) ==
  /\ At(i, "lock")
  /\ IF owner[guard[i]] = None
     THEN /\ owner' = [owner EXCEPT ![guard[i]] = i]
          /\ sidecar' = (mode[guard[i]] = "wal")
          /\ Goto(i, "check")
          /\ UNCHANGED report
     ELSE Fails(i)
  /\ UNCHANGED <<dest, synced, published, files, locked, users, guard, wal, staging,
                 power>>

\* BEGIN EXCLUSIVE waits for nobody.  It rolls a left-over journal back; in WAL
\* mode the connection makes a -wal of its own.
LockDestination(i) ==
  /\ At(i, "lock")
  /\ IF owner[guard[i]] = None /\ locked[guard[i]] = {}
     THEN /\ owner' = [owner EXCEPT ![guard[i]] = i]
          /\ sidecar' = (mode[guard[i]] = "wal")
          /\ Goto(i, "check")
          /\ UNCHANGED report
     ELSE Fails(i)
  /\ UNCHANGED <<dest, synced, published, files, locked, users, guard, wal, staging,
                 power>>

\* user_version and journal_mode are read under the lock.
CheckVersion(i) ==
  /\ At(i, "check")
  /\ wal' = [wal EXCEPT ![i] = mode[guard[i]] = "wal"]
  /\ IF content[guard[i]] # "velr"
     THEN Fails(i)
     ELSE /\ Goto(i, IF mode[guard[i]] = "wal" THEN "switch" ELSE "rename")
          /\ UNCHANGED <<report, owner, sidecar>>
  /\ UNCHANGED <<dest, synced, published, files, locked, users, guard, staging, power>>

\* Mutation of LeaveWal: the old database is replaced in WAL mode.
StayInWal(i) ==
  /\ At(i, "switch")
  /\ Goto(i, "rename")
  /\ UNCHANGED <<place, files, locks, users, guard, wal, staging, report, power>>

\* ROLLBACK, journal_mode=DELETE, BEGIN EXCLUSIVE: in exclusive locking mode the
\* lock outlives the transaction.  An error is returned as it stands.
LeaveWal(i) ==
  /\ At(i, "switch")
  /\ \/ /\ mode' = [mode EXCEPT ![guard[i]] = "rollback"]
        /\ sidecar' = FALSE
        /\ Goto(i, "rename")
        /\ UNCHANGED <<report, owner>>
     \/ /\ Fails(i)
        /\ mode' \in {mode, [mode EXCEPT ![guard[i]] = "rollback"]}
  /\ UNCHANGED <<dest, synced, published, content, flushed, locked, users, guard, wal,
                 staging, power>>

Rename(i) ==
  /\ At(i, "rename")
  /\ dest' = i
  /\ published' = published \cup {i}
  /\ Goto(i, "unlock")
  /\ UNCHANGED <<synced, sidecar, files, locks, users, guard, wal, staging, report,
                 power>>

\* The old database is still in place; WAL mode is restored, if that succeeds.
RenameFails(i) ==
  /\ At(i, "rename")
  /\ Fails(i)
  /\ mode' \in {mode, [mode EXCEPT ![guard[i]] = IF wal[i] THEN "wal" ELSE @]}
  /\ UNCHANGED <<dest, synced, published, content, flushed, locked, users, guard, wal,
                 staging, power>>

DropGuard(i) ==
  /\ At(i, "unlock")
  /\ Release(i)
  /\ Goto(i, "dirsync")
  /\ UNCHANGED <<place, files, locked, users, guard, wal, staging, report, power>>

\* hard_link fails when somebody has made the destination meanwhile.
Link(i) ==
  /\ At(i, "link")
  /\ IF dest = None
     THEN /\ dest' = i
          /\ published' = published \cup {i}
          /\ Goto(i, "dirsync")
          /\ UNCHANGED <<report, owner, sidecar>>
     ELSE Fails(i) /\ UNCHANGED <<dest, published>>
  /\ UNCHANGED <<synced, files, locked, users, guard, wal, staging, power>>

\* Mutation of SyncDirectory: a failing sync is returned as an error.
SyncOrError(i) ==
  /\ At(i, "dirsync")
  /\ \/ synced' = dest /\ report' = [report EXCEPT ![i] = "ok"]
     \/ UNCHANGED synced /\ report' = [report EXCEPT ![i] = "error"]
  /\ Goto(i, "cleanup")
  /\ UNCHANGED <<dest, sidecar, published, files, locks, users, guard, wal, staging,
                 power>>

\* Mutation of SyncDirectory: the directory is not synced after the commit.
SkipDirectory(i) ==
  /\ At(i, "dirsync")
  /\ report' = [report EXCEPT ![i] = "ok"]
  /\ Goto(i, "cleanup")
  /\ UNCHANGED <<place, files, locks, users, guard, wal, staging, power>>

\* The commit point is past: a failing sync of the directory only warns.
SyncDirectory(i) ==
  /\ At(i, "dirsync")
  /\ \/ synced' = dest /\ report' = [report EXCEPT ![i] = "ok"]
     \/ UNCHANGED synced /\ report' = [report EXCEPT ![i] = "warned"]
  /\ Goto(i, "cleanup")
  /\ UNCHANGED <<dest, sidecar, published, files, locks, users, guard, wal, staging,
                 power>>

\* Stage::drop, on every way out of execute: a directory that cannot be removed stays.
RemoveStage(i) ==
  /\ At(i, "cleanup")
  /\ staging' \in {staging \ {i}, staging}
  /\ Goto(i, "gone")
  /\ UNCHANGED <<place, files, locks, users, guard, wal, report, power>>

\* Loading, finalizing, or a system call before the commit point fails.
StepFails(i) ==
  /\ power
  /\ pc[i] \in {"load", "sync", "flush", "stat", "sidecars", "open", "lock", "check", "link"}
  /\ Fails(i)
  /\ UNCHANGED <<dest, synced, published, files, locked, users, guard, wal, staging,
                 power>>

\* The process is killed: its locks vanish, its staging directory stays.
Crash(i) ==
  /\ power
  /\ pc[i] \notin {"start", "gone", "crashed"}
  /\ Goto(i, "crashed")
  /\ Release(i)
  /\ UNCHANGED <<place, files, locked, users, guard, wal, staging, report, power>>

Importer(i) == Start(i) \/ Finalize(i) \/ SyncFirst(i) \/ FlushStage(i)
                 \/ Stat(i) \/ CheckSidecars(i) \/ OpenGuard(i) \/ LockDestination(i)
                 \/ CheckVersion(i) \/ LeaveWal(i) \/ Rename(i) \/ RenameFails(i)
                 \/ DropGuard(i) \/ Link(i) \/ SyncDirectory(i) \/ RemoveStage(i)
                 \/ StepFails(i) \/ Crash(i)

-----------------------------------------------------------------------------
(* The rest of the world, as far as publication can meet it.               *)

\* Opening a path with no database makes one.
UserOpens(u) ==
  /\ power /\ upc[u] = "closed"
  /\ dest # None => content[dest] = "velr"
  /\ dest' = IF dest = None THEN "made" ELSE dest
  /\ uses' = [uses EXCEPT ![u] = dest']
  /\ upc' = [upc EXCEPT ![u] = "open"]
  /\ UNCHANGED <<synced, sidecar, published, files, locks, import, power>>

UserLocks(u) ==
  /\ power /\ upc[u] = "open"
  /\ owner[uses[u]] = None
  /\ locked' = [locked EXCEPT ![uses[u]] = @ \cup {u}]
  /\ sidecar' = TRUE
  /\ upc' = [upc EXCEPT ![u] = "busy"]
  /\ UNCHANGED <<dest, synced, published, files, owner, uses, import, power>>

\* A transaction ends.  In WAL mode the connection stays locked until it closes.
UserUnlocks(u) ==
  /\ power /\ upc[u] = "busy"
  /\ mode[uses[u]] = "rollback"
  /\ locked' = [locked EXCEPT ![uses[u]] = @ \ {u}]
  /\ sidecar' = (locked[uses[u]] # {u})
  /\ upc' = [upc EXCEPT ![u] = "open"]
  /\ UNCHANGED <<dest, synced, published, files, owner, uses, import, power>>

\* The last connection to close removes the sidecars, a killed one does not.
UserLeaves(u) ==
  /\ power /\ upc[u] # "closed"
  /\ locked' = [locked EXCEPT ![uses[u]] = @ \ {u}]
  /\ sidecar' \in (IF upc[u] = "busy" /\ locked[uses[u]] = {u} THEN BOOLEAN
                                                              ELSE {sidecar})
  /\ upc' = [upc EXCEPT ![u] = "closed"]
  /\ uses' = [uses EXCEPT ![u] = None]
  /\ UNCHANGED <<dest, synced, published, files, owner, import, power>>

User(u) == UserOpens(u) \/ UserLocks(u) \/ UserUnlocks(u) \/ UserLeaves(u)

\* The directory may come back as last synced or as it was; data that was never
\* flushed may be lost.
PowerFails ==
  /\ power
  /\ power' = FALSE
  /\ dest' \in {dest, synced}
  /\ content' \in {content,
                   [f \in Files |-> IF f \in flushed \cup {"made"} THEN content[f]
                                                                   ELSE "partial"]}
  /\ UNCHANGED <<synced, sidecar, published, flushed, mode, locks, users, import>>

Next == \/ \E i \in Importers : Importer(i)
        \/ \E u \in Users : User(u)
        \/ PowerFails

Spec == Init /\ [][Next]_vars

-----------------------------------------------------------------------------
ImporterPlaces == {"start", "load", "sync", "flush", "stat", "sidecars", "open", "lock",
                   "check", "switch", "rename", "unlock", "link", "dirsync",
                   "cleanup", "gone", "crashed"}

FlagTypes == /\ sidecar \in BOOLEAN /\ power \in BOOLEAN
             /\ wal \in [Importers -> BOOLEAN]
PlaceTypes == /\ dest \in Files \cup {None} /\ synced \in Files \cup {None}
              /\ flushed \subseteq Files
              /\ staging \subseteq Importers /\ published \subseteq Importers
FileTypes == /\ content \in [Files -> {"velr", "alien", "nofile", "partial"}]
             /\ mode \in [Files -> {"wal", "rollback"}]
             /\ owner \in [Files -> Importers \cup {None}]
             /\ locked \in [Files -> SUBSET Users]
ProcessTypes == /\ upc \in [Users -> {"closed", "open", "busy"}]
                /\ uses \in [Users -> Files \cup {None}]
                /\ pc \in [Importers -> ImporterPlaces]
                /\ guard \in [Importers -> Files \cup {None}]
                /\ report \in [Importers -> {"nothing", "error", "warned", "ok"}]

TypeOK == FlagTypes /\ PlaceTypes /\ FileTypes /\ ProcessTypes

\* The exclusive lock is held from BEGIN EXCLUSIVE to the end of the connection.
LocksHeld ==
  \A i \in Importers, f \in Files :
    owner[f] = i => /\ guard[i] = f
                    /\ pc[i] \in {"check", "switch", "rename", "unlock"}
OwnersExclude == \A f \in Files : owner[f] # None => locked[f] = {}

\* What an importer has done by the time it is at a given place.
Early   == {"start", "load", "sync", "flush"}
Beyond  == {"stat", "sidecars", "open", "lock", "check", "switch", "rename", "link"}
Done    == {"unlock", "dirsync"}
InOrder(i) ==
  /\ pc[i] \in Beyond \cup Done => i \in flushed
  /\ pc[i] \in Early \cup Beyond => i \notin published /\ report[i] = "nothing"
  /\ pc[i] \in Done => i \in published /\ report[i] = "nothing"
  /\ report[i] = "error" => i \notin published
  /\ report[i] \in {"ok", "warned"} => i \in published
  /\ pc[i] = "start" => i \notin staging
  /\ i \in published => i \in flushed
  /\ power /\ pc[i] \in {"sync", "flush"} => content[i] = "velr"
  /\ i \in flushed => content[i] = "velr"

\* The file an importer has opened may have been replaced, but only by another
\* import; whoever replaces a file was told to, and has found a Velr database in it.
Overwriting == {"sidecars", "open", "lock", "check", "switch", "rename"}
Guarding    == {"lock", "check", "switch", "rename", "unlock"}
GuardKept(i) ==
  /\ pc[i] \in Overwriting => i \in Overwrite /\ (power => dest # None)
  /\ pc[i] \in Guarding => guard[i] # None
  /\ power /\ pc[i] \in Guarding \ {"unlock"} => dest = guard[i] \/ dest \in Importers
  /\ power /\ pc[i] \in {"switch", "rename"} => content[guard[i]] = "velr"

\* Databases of others are never half written.
OthersWhole == /\ "old" \in flushed /\ content["old"] # "partial"
               /\ content["made"] = "velr"

(* The inductive invariant of publication: locks are held while and only    *)
(* while the code says so, and what a process has reported, staged, flushed *)
(* and published agrees with the place it has reached.                      *)
PublishInv == /\ TypeOK
              /\ LocksHeld
              /\ OwnersExclude
              /\ \A i \in Importers : InOrder(i) /\ GuardKept(i)
              /\ OthersWhole
              /\ dest \in Importers => dest \in published
              /\ synced \in Importers => synced \in published

(* While only one importer overwrites, the file it locked stays the          *)
(* destination, users hold that file and no other, and from the moment it    *)
(* holds the lock nobody but its own connection puts a sidecar beside it     *)
(* (publish_import, 79-131).                                                 *)
UserAt(u) ==
  /\ upc[u] = "closed" => uses[u] = None
  /\ upc[u] # "closed" => /\ uses[u] # None
                          /\ Overwrite \cap published = {} => uses[u] = dest
  /\ upc[u] = "busy" => u \in locked[uses[u]]
Locking == {"check", "switch", "rename"}
AloneAt(i) ==
  /\ pc[i] \in Locking \cup {"lock"} => dest = guard[i]
  /\ pc[i] \in Locking => owner[guard[i]] = i
  /\ pc[i] = "check" => (sidecar <=> mode[guard[i]] = "wal")
  /\ pc[i] = "rename" => ~sidecar
AloneInv == power => /\ \A u \in Users : UserAt(u)
                     /\ \A i \in Overwrite : AloneAt(i)

(* Nobody ever opens half an import: the destination names a complete       *)
(* database whose data is on disk, also after a crash at any point and      *)
(* after a power failure (fsync before rename, publish.rs 44-50).           *)
NeverPartial == dest # None => content[dest] # "partial"

(* An existing file is replaced only for an import that was told to, and    *)
(* only if it is a Velr database; in particular a file created after        *)
(* publish_import has looked is not overwritten (hard_link, line 137).      *)
ReplacesOnlyAsked ==
  [][power' /\ dest' # dest /\ dest # None =>
       /\ dest' \in Overwrite
       /\ content[dest] = "velr"]_vars

(* An import that reports an error has left the destination alone, one that *)
(* reports success has published, also when the last sync of the directory  *)
(* or the removal of the staging directory fails (publish.rs 144).          *)
ReportsTruth ==
  \A i \in Importers :
    /\ report[i] = "error" => i \notin published
    /\ report[i] \in {"ok", "warned"} => i \in published

(* No journal of the replaced database is left beside the new one, where    *)
(* SQLite would replay it into the wrong file: the rename finds no sidecar. *)
NoStaleJournal ==
  [][\A i \in Importers : pc[i] = "rename" /\ dest' = i /\ dest # i => ~sidecar]_vars

(* No file is replaced while another process has it locked, although the    *)
(* sidecar check, opening and locking are separate steps ("destination is   *)
(* in use; offline overwrite requires an exclusive lock", publish.rs 83).   *)
ReplacesOnlyUnused ==
  [][power' /\ dest' # dest /\ dest # None => locked[dest] = {}]_vars

\* The destination as an importer's caller sees it.
Promise == INSTANCE Destination WITH
             shows    <- dest,
             sure     <- synced,
             complete <- flushed \cap Importers,
             said     <- report
(* Publication implements Destination.                                      *)
ImplementsDestination == Promise!DestinationSpec

=============================================================================
