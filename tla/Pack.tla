-------------------------------- MODULE Pack --------------------------------
(***************************************************************************)
(* cmd_pack of lib/kcsync/cli.py: apply the merged repository to the live  *)
(* databases and files.  Each database is backed up, then each is changed  *)
(* in a transaction of its own; when one of them raises, the backups are   *)
(* copied back.  A kill may come between any two steps.                    *)
(*                                                                         *)
(* Databases are numbered in the order pack visits them: the fixed ones,   *)
(* then the member memory stores by name.  A database's content is a       *)
(* single value, since pack_db changes all its tables in one transaction.  *)
(*                                                                         *)
(* KiroCrew does not write while pack runs; check_kirocrew_running is      *)
(* there to see to it, and SyncEngine has the cases where it cannot.  A    *)
(* torn database is for the user to repair: unpack cannot read it.  A store *)
(* left with some of its tables is for KiroCrew: unpack records it as it   *)
(* is, and the gates find it different from every other machine's.         *)
(***************************************************************************)
EXTENDS Naturals

CONSTANTS
    N,          \* how many databases there are, stores included
    Store,      \* those that are member memory stores
    Content,    \* what a database may hold
    Files,      \* how many files the repository holds
    Missing,    \* no such database, or nothing of it in the repository
    Bare,       \* a store file with none or only some of its tables
    Empty,      \* a store just created, without rows
    Torn,       \* a file half copied over, or one beside a stale WAL
    Fault       \* what may go wrong, a subset of Faults

Faults == {"gates", "backup", "apply", "restore", "files", "kill"}

Db == 1 .. N

ASSUME PackAssumption ==
    /\ N \in Nat
    /\ Store \subseteq Db
    /\ Files \in Nat
    /\ {Missing, Bare, Empty, Torn} \cap Content = {}
    /\ Missing \notin {Bare, Empty, Torn}
    /\ Bare \notin {Empty, Torn} /\ Empty # Torn
    /\ Fault \subseteq Faults

State == Content \cup {Missing, Bare, Empty, Torn}
Place == {"idle", "gates", "backup", "apply", "restore", "copying", "remove", "files"}
Outcome == {"none", "ok", "failed", "error", "killed"}

VARIABLES
    live,       \* each live database
    repo,       \* each database's rows in the sync repository
    ddl,        \* the stores the repository can create (_ddl.json)
    linked,     \* the stores whose directory or file here is a link
    dry,        \* --dry-run
    pc, next,   \* where pack is, and the database (or file) it is at
    backup,     \* this run's backups
    created,    \* the stores this run created
    before,     \* history: the live databases when this run began
    outcome     \* how the last run ended: it returned, it raised ("error")
                \* or it was killed

vars == <<live, repo, ddl, linked, dry, pc, next, backup, created, before, outcome>>
inputs == <<repo, ddl, linked, dry, before>>

NoBackup == [d \in Db |-> Missing]

Init ==
    /\ live \in [Db -> Content \cup {Missing}]
    /\ repo = [d \in Db |-> Missing]
    /\ ddl \in SUBSET Store
    /\ linked \in SUBSET Store
    /\ dry = FALSE
    /\ pc = "idle" /\ next = 1
    /\ backup = NoBackup
    /\ created = {}
    /\ before = live
    /\ outcome = "none"

Goto(place) == pc' = place /\ next' = 1
Stay == UNCHANGED pc /\ next' = next + 1
End(how) == Goto("idle") /\ outcome' = how

-----------------------------------------------------------------------------
(* pack is called with whatever main holds by now.                         *)
Start ==
    /\ pc = "idle"
    /\ \A d \in Db : live[d] \notin {Torn, Bare}
    /\ repo' \in [Db -> Content \cup {Missing}]
    /\ dry' \in BOOLEAN
    /\ before' = live
    /\ backup' = NoBackup
    /\ created' = {}
    /\ Goto("gates")
    /\ outcome' = "none"
    /\ UNCHANGED <<live, ddl, linked>>

(* gates.run_all, which unless forced may refuse.                          *)
Refuse ==
    /\ "gates" \in Fault
    /\ pc = "gates"
    /\ End("failed")
    /\ UNCHANGED <<live, inputs, backup, created>>

Pass ==
    /\ pc = "gates"
    /\ Goto(IF dry THEN "apply" ELSE "backup")
    /\ UNCHANGED <<live, inputs, backup, created, outcome>>

(* A bug for the runs to catch: only the fixed databases are backed up.    *)
BackUpFixed ==
    /\ pc = "backup" /\ next \in Db
    /\ backup' = IF next \in Store THEN backup ELSE [backup EXCEPT ![next] = live[next]]
    /\ Stay
    /\ UNCHANGED <<live, inputs, created, outcome>>

BackUp ==
    /\ pc = "backup" /\ next \in Db
    /\ backup' = [backup EXCEPT ![next] = live[next]]
    /\ Stay
    /\ UNCHANGED <<live, inputs, created, outcome>>

(* Outside the try: an error here ends pack with nothing touched.          *)
BackUpFails ==
    /\ "backup" \in Fault
    /\ pc = "backup" /\ next \in Db
    /\ End("error")
    /\ UNCHANGED <<live, inputs, backup, created>>

BackedUp ==
    /\ pc = "backup" /\ next > N
    /\ Goto("apply")
    /\ UNCHANGED <<live, inputs, backup, created, outcome>>

-----------------------------------------------------------------------------
(* The loop inside the try.                                                *)

Creatable(d) == d \in Store \cap ddl /\ ~ dry

Skipped(d) ==
    \/ repo[d] = Missing
    \/ d \in linked
    \/ live[d] = Missing /\ ~ Creatable(d)

At(d) == pc = "apply" /\ d = next /\ d \in Db

Skip(d) ==
    /\ At(d)
    /\ Skipped(d)
    /\ Stay
    /\ UNCHANGED <<live, inputs, backup, created, outcome>>

(* create_from_repo, for a store that only another machine had: the file   *)
(* is made, and its tables are, each statement by itself.                  *)
Create(d) ==
    /\ At(d)
    /\ ~ Skipped(d)
    /\ live[d] = Missing
    /\ live' = [live EXCEPT ![d] = Bare]
    /\ UNCHANGED <<inputs, pc, next, backup, created, outcome>>

CreateTables(d) ==
    /\ At(d)
    /\ live[d] = Bare
    /\ live' = [live EXCEPT ![d] = Empty]
    /\ created' = created \cup {d}
    /\ UNCHANGED <<inputs, pc, next, backup, outcome>>

(* pack_db: one transaction, rolled back by a dry run.                     *)
Apply(d) ==
    /\ At(d)
    /\ ~ Skipped(d)
    /\ live[d] \notin {Missing, Bare}
    /\ live' = IF dry THEN live ELSE [live EXCEPT ![d] = repo[d]]
    /\ Stay
    /\ UNCHANGED <<inputs, backup, created, outcome>>

(* create_from_repo raises, having removed what it made, or pack_db does,  *)
(* before its commit or after it.                                          *)
Raise(d) ==
    /\ "apply" \in Fault
    /\ At(d)
    /\ ~ Skipped(d)
    /\ \/ live[d] # Bare /\ UNCHANGED live
       \/ live[d] = Bare /\ live' = [live EXCEPT ![d] = Missing]
       \/ live[d] \notin {Missing, Bare} /\ ~ dry /\ live' = [live EXCEPT ![d] = repo[d]]
    /\ Goto("restore")
    /\ UNCHANGED <<inputs, backup, created, outcome>>

Applied ==
    /\ pc = "apply" /\ next > N
    /\ Goto("files")
    /\ UNCHANGED <<live, inputs, backup, created, outcome>>

-----------------------------------------------------------------------------
(* The except clause: dbio.restore copies a backup over the database and   *)
(* then removes the -wal and -shm of what it overwrote.                    *)
RestoreSkip ==
    /\ pc = "restore" /\ next \in Db
    /\ backup[next] = Missing
    /\ Stay
    /\ UNCHANGED <<live, inputs, backup, created, outcome>>

RestoreCopy ==
    /\ pc = "restore" /\ next \in Db
    /\ backup[next] # Missing
    /\ live' = [live EXCEPT ![next] = Torn]
    /\ pc' = "copying"
    /\ UNCHANGED <<inputs, next, backup, created, outcome>>

RestoreDone ==
    /\ pc = "copying"
    /\ live' = [live EXCEPT ![next] = backup[next]]
    /\ pc' = "restore" /\ next' = next + 1
    /\ UNCHANGED <<inputs, backup, created, outcome>>

(* Nothing catches an error of the copy itself.                            *)
RestoreFails ==
    /\ "restore" \in Fault
    /\ pc = "copying"
    /\ End("error")
    /\ UNCHANGED <<live, inputs, backup, created>>

Restored ==
    /\ pc = "restore" /\ next > N
    /\ Goto("remove")
    /\ UNCHANGED <<live, inputs, backup, created, outcome>>

(* A bug for the runs to catch: the stores this run created stay.          *)
RemoveNothing ==
    /\ pc = "remove" /\ next \in Db
    /\ Stay
    /\ UNCHANGED <<live, inputs, backup, created, outcome>>

(* remove_created, for each store this run created.                        *)
Remove ==
    /\ pc = "remove" /\ next \in Db
    /\ live' = IF next \in created THEN [live EXCEPT ![next] = Missing] ELSE live
    /\ Stay
    /\ UNCHANGED <<inputs, backup, created, outcome>>

(* A bug for the runs to catch: the except clause does not return.         *)
RemovedGoesOn ==
    /\ pc = "remove" /\ next > N
    /\ Goto("files")
    /\ UNCHANGED <<live, inputs, backup, created, outcome>>

Removed ==
    /\ pc = "remove" /\ next > N
    /\ End("failed")
    /\ UNCHANGED <<live, inputs, backup, created>>

-----------------------------------------------------------------------------
(* pack_files, one file after another, after the try.                      *)
WriteFile ==
    /\ pc = "files" /\ next <= Files
    /\ Stay
    /\ UNCHANGED <<live, inputs, backup, created, outcome>>

WriteFileFails ==
    /\ "files" \in Fault
    /\ pc = "files" /\ next <= Files
    /\ End("error")
    /\ UNCHANGED <<live, inputs, backup, created>>

Packed ==
    /\ pc = "files" /\ next > Files
    /\ End("ok")
    /\ UNCHANGED <<live, inputs, backup, created>>

Kill ==
    /\ "kill" \in Fault
    /\ pc # "idle"
    /\ End("killed")
    /\ UNCHANGED <<live, inputs, backup, created>>

Next ==
    \/ Start \/ Refuse \/ Pass
    \/ BackUp \/ BackUpFails \/ BackedUp
    \/ \E d \in Db : Skip(d) \/ Create(d) \/ CreateTables(d) \/ Apply(d) \/ Raise(d)
    \/ Applied
    \/ RestoreSkip \/ RestoreCopy \/ RestoreDone \/ RestoreFails \/ Restored
    \/ Remove \/ Removed
    \/ WriteFile \/ WriteFileFails \/ Packed
    \/ Kill

Spec == Init /\ [][Next]_vars

-----------------------------------------------------------------------------
(* The type invariant.                                                     *)
TypeOK ==
    /\ live \in [Db -> State]
    /\ repo \in [Db -> Content \cup {Missing}]
    /\ ddl \in SUBSET Store
    /\ linked \in SUBSET Store
    /\ dry \in BOOLEAN
    /\ pc \in Place
    /\ next \in Nat \ {0}
    /\ backup \in [Db -> State]
    /\ created \in SUBSET Store
    /\ before \in [Db -> State]
    /\ outcome \in Outcome

(* What a successful run makes of each database.                           *)
Wanted ==
    [d \in Db |->
        IF \/ dry
           \/ repo[d] = Missing
           \/ d \in linked
           \/ before[d] = Missing /\ d \notin Store \cap ddl
        THEN before[d] ELSE repo[d]]

Running == pc # "idle"

(* pack implements AtomicPack: it changes all the databases or none.       *)
Atomic == INSTANCE AtomicPack WITH
    data <- IF Running THEN before ELSE live,
    wanted <- Wanted,
    packing <- Running,
    result <- IF outcome \in {"error", "killed"} THEN "cut" ELSE outcome,
    Unfinished <- {Bare, Empty, Torn}
AllOrNothing == Atomic!Spec

(* At every moment, a kill included, a database that is not as it was      *)
(* before this run is held whole by this run's backup, or is a store that  *)
(* this run created.                                                       *)
Recoverable ==
    \A d \in Db :
        live[d] # before[d] => backup[d] = before[d] \/ d \in created

(* No file is written before every database has been applied.              *)
FilesLast == pc = "files" => live = Wanted

(* Whenever the shell reports that pack failed, the databases are as they  *)
(* were ("Pack failed; KiroCrew data was left unchanged (or restored).").  *)
FailureLeavesData ==
    pc = "idle" /\ outcome \in {"failed", "error"} => live = before
=============================================================================
