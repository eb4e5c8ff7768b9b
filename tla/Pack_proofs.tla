----------------------------- MODULE Pack_proofs -----------------------------
(***************************************************************************)
(* Proofs about Pack, for any number of databases, stores and files and    *)
(* any of the faults.                                                      *)
(*                                                                         *)
(* The inductive invariant says, place by place, what pack has done so     *)
(* far: which databases are backed up, which are already as wanted, which  *)
(* are already back to what they were.                                     *)
(***************************************************************************)
EXTENDS Pack, TLAPS

(* Up to the backups nothing has been touched.                             *)
Untouched ==
    pc \in {"gates", "backup"} => live = before /\ created = {}

BackingUp ==
    /\ pc = "gates" => backup = NoBackup
    /\ pc = "backup" => /\ ~ dry
                        /\ \A d \in Db : backup[d] = IF d < next THEN before[d] ELSE Missing

(* A dry run touches nothing at all.                                       *)
DryRun ==
    Running /\ dry => live = before /\ created = {} /\ backup = NoBackup

AllBackedUp ==
    pc \in {"apply", "restore", "copying", "remove", "files"} /\ ~ dry => backup = before

(* A store that this run creates, or has created.                          *)
ToCreate(d) ==
    /\ before[d] = Missing /\ ~ dry
    /\ d \in Store \cap ddl /\ d \notin linked /\ repo[d] # Missing

CreatedHere == Running => \A d \in created : ToCreate(d)

Applying ==
    pc = "apply" => \A d \in Db :
        /\ d < next => live[d] = Wanted[d]
        /\ d > next => live[d] = before[d]
        /\ d = next => \/ live[d] = before[d]
                       \/ live[d] = Bare /\ ToCreate(d)
                       \/ d \in created /\ live[d] = Empty

(* What is there now but was not before is a store pack created, or is     *)
(* about to have created.                                                  *)
OnlyCreated ==
    Running => \A d \in Db : before[d] = Missing =>
        \/ live[d] = Missing
        \/ d \in created
        \/ At(d) /\ live[d] = Bare

Restoring ==
    /\ pc \in {"restore", "copying"} =>
           \A d \in Db : d < next /\ before[d] # Missing => live[d] = before[d]
    /\ pc = "copying" => next \in Db /\ before[next] # Missing /\ ~ dry

Removing ==
    pc = "remove" => \A d \in Db :
        IF before[d] = Missing THEN d < next => live[d] = Missing ELSE live[d] = before[d]

(* Each database by itself is as it was, as wanted, or unfinished, and was *)
(* no half-made store to begin with.                                       *)
Mixed ==
    Running => \A d \in Db : before[d] # Bare /\ live[d] \in {before[d], Wanted[d], Bare, Empty, Torn}

IInv ==
    /\ TypeOK
    /\ Recoverable
    /\ Untouched /\ BackingUp /\ DryRun /\ AllBackedUp
    /\ CreatedHere /\ OnlyCreated
    /\ Applying /\ FilesLast
    /\ Restoring /\ Removing
    /\ Mixed

(* What a step inside a run leaves alone, it leaves alone in Wanted too.   *)
LEMMA WantedKept == UNCHANGED inputs => Wanted' = Wanted
BY DEF inputs, Wanted

(* The small operators every action is written with.                       *)
USE DEF Running, Goto, Stay, End, At, ToCreate

(* Before the first run the databases are whatever KiroCrew has in them.   *)
LEMMA InitInvariant == Init => IInv
<1> SUFFICES ASSUME Init PROVE IInv
    OBVIOUS
<1>1. TypeOK
  <2>1. live \in [Db -> State]
        BY DEF Init, State
  <2>2. repo \in [Db -> Content \cup {Missing}] /\ backup \in [Db -> State]
        BY DEF Init, State, NoBackup
  <2>3. dry \in BOOLEAN
        BY DEF Init
  <2>4. next \in Nat \ {0}
        BY DEF Init
  <2>5. pc \in Place /\ outcome \in Outcome
        BY DEF Init, Place, Outcome
  <2>6. ddl \in SUBSET Store /\ linked \in SUBSET Store /\ created \in SUBSET Store
        BY DEF Init
  <2>7. before \in [Db -> State]
        BY <2>1 DEF Init
  <2> QED BY <2>1, <2>2, <2>3, <2>4, <2>5, <2>6, <2>7 DEF TypeOK
<1>2. Recoverable
      BY DEF Init, Recoverable
<1>3. pc = "idle"
      BY DEF Init
<1> QED
    BY <1>1, <1>2, <1>3
       DEF IInv, Untouched, BackingUp, DryRun, AllBackedUp, CreatedHere, OnlyCreated,
           Applying, FilesLast, Restoring, Removing, Mixed

(* A step that ends the run, however it ends, leaves the data where it is. *)
RunEnds ==
    /\ pc' = "idle" /\ next' = 1 /\ outcome' \in Outcome
    /\ UNCHANGED <<live, inputs, backup, created>>

(* Between two runs the invariant asks only for types and for the backups. *)
LEMMA RunEndsInvariant == IInv /\ RunEnds => IInv'
<1> SUFFICES ASSUME IInv, RunEnds PROVE IInv'
    OBVIOUS
<1>1. TypeOK'
      BY DEF IInv, RunEnds, TypeOK, Place, inputs
<1>2. Recoverable'
      BY DEF IInv, RunEnds, Recoverable, inputs
<1>3. pc' = "idle"
      BY DEF RunEnds
<1> QED
    BY <1>1, <1>2, <1>3
       DEF IInv, Untouched, BackingUp, DryRun, AllBackedUp, CreatedHere, OnlyCreated,
           Applying, FilesLast, Restoring, Removing, Mixed

(* Every step keeps the invariant.  In each case <2>1 is the types; the    *)
(* next leaf has the parts that say nothing of the place the step leads    *)
(* to, and the last one the parts the step could disturb.                  *)
LEMMA InvariantStep == IInv /\ [Next]_vars => IInv'
<1> SUFFICES ASSUME IInv, [Next]_vars PROVE IInv'
    OBVIOUS
<1>1. CASE Start
  <2>1. TypeOK'
        BY <1>1 DEF IInv, Start, NoBackup, TypeOK, State, Place, Outcome
  <2>2. AllBackedUp' /\ Applying' /\ FilesLast' /\ Restoring' /\ Removing'
        BY <1>1 DEF Start, AllBackedUp, Applying, FilesLast, Restoring,
           Removing
  <2>3. /\ Recoverable' /\ Untouched' /\ BackingUp' /\ DryRun' /\ CreatedHere'
        /\ OnlyCreated' /\ Mixed'
        BY <1>1 DEF Start, Recoverable, Untouched, BackingUp, DryRun,
           CreatedHere, OnlyCreated, Mixed
  <2> QED BY <2>1, <2>2, <2>3 DEF IInv
<1>2. CASE Pass
  <2>1. TypeOK'
        BY <1>2 DEF IInv, Pass, TypeOK, Place, inputs
  <2>2. /\ Recoverable' /\ Untouched' /\ BackingUp' /\ DryRun' /\ AllBackedUp'
        /\ CreatedHere' /\ OnlyCreated' /\ Applying' /\ FilesLast' /\ Restoring'
        /\ Removing' /\ Mixed'
        BY <1>2 DEF IInv, Pass, inputs, Db, NoBackup, Recoverable, Untouched,
           BackingUp, DryRun, AllBackedUp, CreatedHere, OnlyCreated, Applying,
           FilesLast, Restoring, Removing, Mixed
  <2> QED BY <2>1, <2>2 DEF IInv
<1>3. CASE BackUp
  <2>1. TypeOK'
        BY <1>3 DEF IInv, BackUp, TypeOK, inputs
  <2>2. AllBackedUp' /\ Applying' /\ FilesLast' /\ Restoring' /\ Removing'
        BY <1>3 DEF BackUp, AllBackedUp, Applying, FilesLast, Restoring,
           Removing
  <2>3. Recoverable' /\ BackingUp'
        BY <1>3 DEF IInv, BackUp, inputs, TypeOK, Db, NoBackup, Recoverable, Untouched, BackingUp
  <2>4. Untouched' /\ DryRun' /\ CreatedHere' /\ OnlyCreated' /\ Mixed'
        BY <1>3, WantedKept
           DEF IInv, BackUp, inputs, Untouched, BackingUp, DryRun, CreatedHere, OnlyCreated,
               Mixed
  <2> QED BY <2>1, <2>2, <2>3, <2>4 DEF IInv
<1>4. CASE BackedUp
  <2>1. TypeOK'
        BY <1>4 DEF IInv, BackedUp, TypeOK, Place, inputs
  <2>2. Untouched' /\ BackingUp' /\ FilesLast' /\ Restoring' /\ Removing'
        BY <1>4 DEF BackedUp, Untouched, BackingUp, FilesLast, Restoring,
           Removing
  <2>3. /\ Recoverable' /\ DryRun' /\ AllBackedUp' /\ CreatedHere' /\ OnlyCreated'
        /\ Applying' /\ Mixed'
        BY <1>4, PackAssumption DEF IInv, BackedUp, inputs, TypeOK, Db,
           Recoverable, Untouched, BackingUp, DryRun, AllBackedUp,
           CreatedHere, OnlyCreated, Applying, Mixed
  <2> QED BY <2>1, <2>2, <2>3 DEF IInv
<1>5. ASSUME NEW d \in Db, Skip(d) PROVE IInv'
  <2>1. TypeOK'
        BY <1>5 DEF IInv, Skip, TypeOK, inputs
  <2>2. Untouched' /\ BackingUp' /\ FilesLast' /\ Restoring' /\ Removing'
        BY <1>5 DEF Skip, At, Untouched, BackingUp, FilesLast, Restoring,
           Removing
  <2>3. /\ Recoverable' /\ DryRun' /\ AllBackedUp' /\ CreatedHere' /\ OnlyCreated'
        /\ Applying' /\ Mixed'
        BY <1>5 DEF IInv, Skip, At, inputs, Db, Wanted, Skipped, Creatable,
           Recoverable, DryRun, AllBackedUp, CreatedHere, OnlyCreated,
           Applying, Mixed
  <2> QED BY <2>1, <2>2, <2>3 DEF IInv
<1>6. ASSUME NEW d \in Db, Create(d) PROVE IInv'
  <2>1. TypeOK'
        BY <1>6 DEF IInv, Create, TypeOK, State, inputs, Skipped, Creatable
  <2>2. Untouched' /\ BackingUp' /\ FilesLast' /\ Restoring' /\ Removing'
        BY <1>6 DEF Create, At, Untouched, BackingUp, FilesLast, Restoring,
           Removing
  <2>3. /\ Recoverable' /\ DryRun' /\ AllBackedUp' /\ CreatedHere' /\ OnlyCreated'
        /\ Applying' /\ Mixed'
        BY <1>6 DEF IInv, Create, At, inputs, Wanted, Skipped, Creatable,
           Recoverable, DryRun, AllBackedUp, CreatedHere, OnlyCreated,
           Applying, Mixed
  <2> QED BY <2>1, <2>2, <2>3 DEF IInv
<1>7. ASSUME NEW d \in Db, Apply(d) PROVE IInv'
  <2>1. TypeOK'
        BY <1>7 DEF IInv, Apply, TypeOK, State, inputs
  <2>2. Untouched' /\ BackingUp' /\ FilesLast' /\ Restoring' /\ Removing'
        BY <1>7 DEF Apply, At, Untouched, BackingUp, FilesLast, Restoring,
           Removing
  <2>3. /\ Recoverable' /\ DryRun' /\ AllBackedUp' /\ CreatedHere' /\ OnlyCreated'
        /\ Applying' /\ Mixed'
        BY <1>7 DEF IInv, Apply, At, inputs, TypeOK, Wanted, Skipped,
           Recoverable, DryRun, AllBackedUp, CreatedHere, OnlyCreated,
           Applying, Mixed
  <2> QED BY <2>1, <2>2, <2>3 DEF IInv
<1>8. ASSUME NEW d \in Db, Raise(d) PROVE IInv'
  <2>1. TypeOK'
        BY <1>8 DEF IInv, Raise, TypeOK, State, Place, inputs
  <2>2. Untouched' /\ BackingUp' /\ Applying' /\ FilesLast' /\ Removing'
        BY <1>8 DEF Raise, Untouched, BackingUp, Applying, FilesLast, Removing
  <2>3. /\ pc = "apply" /\ next = d /\ pc' = "restore" /\ next' = 1
        /\ UNCHANGED <<inputs, backup, created>>
        /\ repo[d] # Missing /\ d \notin linked
        /\ live[d] = Missing => Creatable(d)
        BY <1>8 DEF Raise, Skipped
  <2>4. /\ \A e \in Db \ {d} : live'[e] = live[e]
        /\ \/ live'[d] = live[d] /\ live[d] # Bare
           \/ live[d] = Bare /\ live'[d] = Missing
           \/ live[d] \notin {Missing, Bare} /\ ~ dry /\ live'[d] = repo[d]
        BY <1>8 DEF IInv, Raise, TypeOK
  <2>5. before[d] # Bare /\ (live[d] = Bare => ToCreate(d))
        BY <2>3, PackAssumption DEF IInv, Mixed, Applying, CreatedHere
  <2>6. dry => live' = live
        BY <1>8, <2>3, <2>5 DEF IInv, Raise
  <2>7. /\ Recoverable' /\ DryRun' /\ AllBackedUp' /\ CreatedHere' /\ Restoring'
        BY <2>3, <2>4, <2>5, <2>6, PackAssumption
           DEF IInv, inputs, Db, Recoverable, DryRun, AllBackedUp, CreatedHere, Restoring
  <2>8. OnlyCreated'
        BY <2>3, <2>4, <2>5 DEF IInv, inputs, OnlyCreated, Applying
  <2>9. Mixed'
        BY <2>3, <2>4, <2>5, WantedKept, PackAssumption
           DEF IInv, inputs, Mixed, Wanted, Applying, CreatedHere
  <2> QED BY <2>1, <2>2, <2>7, <2>8, <2>9 DEF IInv
<1>9. CASE Applied
  <2>1. TypeOK'
        BY <1>9 DEF IInv, Applied, TypeOK, Place, inputs
  <2>2. Untouched' /\ BackingUp' /\ Applying' /\ Restoring' /\ Removing'
        BY <1>9 DEF Applied, Untouched, BackingUp, Applying, Restoring,
           Removing
  <2>3. /\ Recoverable' /\ DryRun' /\ AllBackedUp' /\ CreatedHere' /\ OnlyCreated'
        /\ FilesLast' /\ Mixed'
        BY <1>9, PackAssumption DEF IInv, Applied, inputs, TypeOK, Db, Wanted,
           Recoverable, DryRun, AllBackedUp, CreatedHere, OnlyCreated,
           Applying, FilesLast, Mixed
  <2> QED BY <2>1, <2>2, <2>3 DEF IInv
<1>10. CASE RestoreSkip
  <2>1. TypeOK'
        BY <1>10 DEF IInv, RestoreSkip, TypeOK, inputs
  <2>2. Untouched' /\ BackingUp' /\ Applying' /\ FilesLast' /\ Removing'
        BY <1>10 DEF RestoreSkip, Untouched, BackingUp, Applying, FilesLast,
           Removing
  <2>3. /\ Recoverable' /\ DryRun' /\ AllBackedUp' /\ CreatedHere' /\ OnlyCreated'
        /\ Restoring' /\ Mixed'
        BY <1>10, WantedKept DEF IInv, RestoreSkip, inputs, Db, Recoverable,
           DryRun, AllBackedUp, CreatedHere, OnlyCreated, Restoring, Mixed
  <2> QED BY <2>1, <2>2, <2>3 DEF IInv
<1>11. CASE RestoreCopy
  <2>1. TypeOK'
        BY <1>11 DEF IInv, RestoreCopy, TypeOK, State, Place, inputs
  <2>2. Untouched' /\ BackingUp' /\ Applying' /\ FilesLast' /\ Removing'
        BY <1>11 DEF RestoreCopy, Untouched, BackingUp, Applying, FilesLast,
           Removing
  <2>3. /\ Recoverable' /\ DryRun' /\ AllBackedUp' /\ CreatedHere' /\ OnlyCreated'
        /\ Restoring' /\ Mixed'
        BY <1>11, WantedKept, PackAssumption DEF IInv, RestoreCopy, inputs,
           Db, NoBackup, Recoverable, DryRun, AllBackedUp, CreatedHere,
           OnlyCreated, Restoring, Mixed
  <2> QED BY <2>1, <2>2, <2>3 DEF IInv
<1>12. CASE RestoreDone
  <2>1. TypeOK'
        BY <1>12 DEF IInv, RestoreDone, TypeOK, Place, inputs, Restoring
  <2>2. Untouched' /\ BackingUp' /\ Applying' /\ FilesLast' /\ Removing'
        BY <1>12 DEF RestoreDone, Untouched, BackingUp, Applying, FilesLast,
           Removing
  <2>3. /\ Recoverable' /\ DryRun' /\ AllBackedUp' /\ CreatedHere' /\ OnlyCreated'
        /\ Restoring' /\ Mixed'
        BY <1>12, WantedKept DEF IInv, RestoreDone, inputs, TypeOK, Db,
           Recoverable, DryRun, AllBackedUp, CreatedHere, OnlyCreated,
           Restoring, Mixed
  <2> QED BY <2>1, <2>2, <2>3 DEF IInv
<1>13. CASE Restored
  <2>1. TypeOK'
        BY <1>13 DEF IInv, Restored, TypeOK, Place, inputs
  <2>2. Untouched' /\ BackingUp' /\ Applying' /\ FilesLast' /\ Restoring'
        BY <1>13 DEF Restored, Untouched, BackingUp, Applying, FilesLast,
           Restoring
  <2>3. /\ Recoverable' /\ DryRun' /\ AllBackedUp' /\ CreatedHere' /\ OnlyCreated'
        /\ Removing' /\ Mixed'
        BY <1>13, WantedKept, PackAssumption DEF IInv, Restored, inputs,
           TypeOK, Db, Recoverable, DryRun, AllBackedUp, CreatedHere,
           OnlyCreated, Restoring, Removing, Mixed
  <2> QED BY <2>1, <2>2, <2>3 DEF IInv
<1>14. CASE Remove
  <2>1. TypeOK'
        BY <1>14 DEF IInv, Remove, TypeOK, State, inputs
  <2>2. Untouched' /\ BackingUp' /\ Applying' /\ FilesLast' /\ Restoring'
        BY <1>14 DEF Remove, Untouched, BackingUp, Applying, FilesLast,
           Restoring
  <2>3. /\ Recoverable' /\ DryRun' /\ AllBackedUp' /\ CreatedHere'
        BY <1>14 DEF IInv, Remove, inputs, TypeOK, Recoverable, DryRun, AllBackedUp,
           CreatedHere
  <2>4. /\ pc = "remove" /\ UNCHANGED <<inputs, created>>
        /\ \A d \in Db : live'[d] \in {live[d], Missing}
        BY <1>14 DEF IInv, Remove, TypeOK
  <2>5. OnlyCreated'
        BY <2>4 DEF IInv, inputs, OnlyCreated
  <2>6. Removing'
        BY <1>14 DEF IInv, Remove, inputs, TypeOK, OnlyCreated, CreatedHere, Removing
  <2>7. Mixed'
        BY <1>14, WantedKept DEF IInv, Remove, inputs, TypeOK, CreatedHere, Mixed
  <2> QED BY <2>1, <2>2, <2>3, <2>5, <2>6, <2>7 DEF IInv
<1>15. CASE WriteFile
  <2>1. TypeOK'
        BY <1>15 DEF IInv, WriteFile, TypeOK, inputs
  <2>2. Untouched' /\ BackingUp' /\ Applying' /\ Restoring' /\ Removing'
        BY <1>15 DEF WriteFile, Untouched, BackingUp, Applying, Restoring,
           Removing
  <2>3. /\ Recoverable' /\ DryRun' /\ AllBackedUp' /\ CreatedHere' /\ OnlyCreated'
        /\ FilesLast' /\ Mixed'
        BY <1>15, WantedKept DEF IInv, WriteFile, inputs, Recoverable, DryRun,
           AllBackedUp, CreatedHere, OnlyCreated, FilesLast, Mixed
  <2> QED BY <2>1, <2>2, <2>3 DEF IInv
<1>16. CASE Refuse \/ BackUpFails \/ RestoreFails \/ Removed \/ WriteFileFails \/ Packed \/ Kill
  <2> RunEnds
      BY <1>16
         DEF RunEnds, Refuse, BackUpFails, RestoreFails, Removed, WriteFileFails, Packed,
             Kill, Outcome
  <2> QED BY RunEndsInvariant
<1>17. CASE UNCHANGED vars
  <2> UNCHANGED inputs /\ Wanted' = Wanted
      BY <1>17 DEF vars, inputs, Wanted
  <2>1. TypeOK' /\ Recoverable'
        BY <1>17 DEF IInv, vars, TypeOK, Recoverable
  <2>2. Untouched' /\ BackingUp' /\ DryRun' /\ AllBackedUp' /\ CreatedHere' /\ OnlyCreated'
        BY <1>17 DEF IInv, vars, Untouched, BackingUp, DryRun, AllBackedUp, CreatedHere,
                       OnlyCreated
  <2>3. Applying' /\ FilesLast' /\ Restoring' /\ Removing' /\ Mixed'
        BY <1>17 DEF IInv, vars, Applying, FilesLast, Restoring, Removing, Mixed
  <2> QED BY <2>1, <2>2, <2>3 DEF IInv
<1>18. ASSUME NEW d \in Db, CreateTables(d) PROVE IInv'
  <2>1. /\ pc = "apply" /\ next = d /\ live[d] = Bare /\ before[d] # Bare
        /\ live' = [live EXCEPT ![d] = Empty] /\ created' = created \cup {d}
        /\ UNCHANGED <<inputs, pc, next, backup, outcome>>
        BY <1>18 DEF IInv, CreateTables, Mixed
  <2>2. ToCreate(d)
        BY <2>1, PackAssumption DEF IInv, Applying, CreatedHere
  <2>3. TypeOK'
        BY <2>1, <2>2 DEF IInv, TypeOK, State, inputs
  <2>4. Untouched' /\ BackingUp' /\ FilesLast' /\ Restoring' /\ Removing'
        BY <2>1 DEF Untouched, BackingUp, FilesLast, Restoring, Removing
  <2>5. DryRun' /\ AllBackedUp' /\ CreatedHere'
        BY <2>1, <2>2 DEF IInv, inputs, DryRun, AllBackedUp, CreatedHere
  <2>6. Recoverable' /\ OnlyCreated' /\ Mixed'
        BY <2>1, <2>2, WantedKept DEF IInv, inputs, TypeOK, Recoverable, OnlyCreated, Mixed
  <2>7. Applying'
        BY <2>1, <2>2, WantedKept DEF IInv, inputs, TypeOK, Db, Applying
  <2> QED BY <2>3, <2>4, <2>5, <2>6, <2>7 DEF IInv
<1> QED
    BY <1>1, <1>2, <1>3, <1>4, <1>5, <1>6, <1>7, <1>8, <1>9, <1>10, <1>11,
       <1>12, <1>13, <1>14, <1>15, <1>16, <1>17, <1>18 DEF Next

-----------------------------------------------------------------------------
(* The invariant holds in every reachable state, for any number of         *)
(* databases and whatever goes wrong.                                      *)
THEOREM Invariance == Spec => []IInv
<1> QED BY InitInvariant, InvariantStep, PTL DEF Spec

(* At every moment, in the middle of a copy or after a kill too, what pack *)
(* changed is in its backups or is a store it created itself.              *)
THEOREM AlwaysRecoverable == Spec => []Recoverable
<1>1. IInv => Recoverable
      BY DEF IInv
<1> QED BY Invariance, <1>1, PTL

(* pack_files starts only when every database has taken its new rows.      *)
THEOREM FilesComeLast == Spec => []FilesLast
<1>1. IInv => FilesLast
      BY DEF IInv
<1> QED BY Invariance, <1>1, PTL

-----------------------------------------------------------------------------
(* A step inside a run: seen from outside, nothing happens.                *)
Inside ==
    /\ Running /\ Running'
    /\ UNCHANGED <<inputs, outcome>>

(* A step inside a pack is a stutter of the pack that is all or nothing.   *)
LEMMA InsideStutters == Inside => UNCHANGED Atomic!vars
<1> SUFFICES ASSUME Inside PROVE UNCHANGED Atomic!vars
    OBVIOUS
<1>1. Wanted' = Wanted
      BY WantedKept DEF Inside
<1> QED BY <1>1 DEF Inside, inputs, Atomic!vars

(* Before the first pack nothing is asked of it and nothing is running.    *)
LEMMA InitRefines == Init => Atomic!Init
<1> SUFFICES ASSUME Init PROVE Atomic!Init
    OBVIOUS
<1>1. live \in [Db -> Content \cup {Missing}] /\ before = live
      BY DEF Init
<1>2. Wanted = live
      BY <1>1 DEF Init, Wanted
<1> QED BY <1>2 DEF Init, Atomic!Init

(* Every step of pack is one of AtomicPack or changes nothing it speaks of.*)
LEMMA StepRefines == IInv /\ [Next]_vars => [Atomic!Next]_(Atomic!vars)
<1> SUFFICES ASSUME IInv, [Next]_vars
             PROVE  Atomic!Next \/ UNCHANGED Atomic!vars
    OBVIOUS
<1>1. CASE Start
      BY <1>1 DEF Start, Atomic!Next, Atomic!Begin
<1>2. CASE Refuse
  <2>1. live = before
        BY <1>2 DEF IInv, Refuse, Untouched
  <2> QED BY <1>2, <2>1, WantedKept DEF Refuse, Atomic!Next, Atomic!Fail, Atomic!End
<1>3. CASE Removed
  <2>1. \A d \in Db : live[d] = before[d]
        BY <1>3, PackAssumption DEF IInv, Removed, Removing, TypeOK, Db
  <2>2. live = before
        BY <2>1 DEF IInv, TypeOK
  <2> QED BY <1>3, <2>2, WantedKept DEF Removed, Atomic!Next, Atomic!Fail, Atomic!End
<1>4. CASE Packed
  <2>1. live = Wanted
        BY <1>4 DEF IInv, Packed, FilesLast
  <2> QED BY <1>4, <2>1, WantedKept DEF Packed, Atomic!Next, Atomic!Succeed, Atomic!End
<1>5. CASE BackUpFails \/ RestoreFails \/ WriteFileFails \/ Kill
  <2>1. /\ Running /\ ~ Running' /\ outcome' \in {"error", "killed"}
        /\ UNCHANGED <<live, inputs>>
        BY <1>5 DEF BackUpFails, RestoreFails, WriteFileFails, Kill
  <2>2. \A d \in Db : live[d] \in {before[d], Wanted[d], Bare, Empty, Torn}
        BY <2>1 DEF IInv, Mixed
  <2> QED BY <2>1, <2>2, WantedKept DEF Atomic!Next, Atomic!CutShort, Atomic!End
<1>6. ASSUME Inside PROVE UNCHANGED Atomic!vars
      BY <1>6, InsideStutters
<1>7. CASE Pass \/ BackUp \/ BackedUp \/ Applied \/ Restored \/ RestoreSkip \/ Remove \/ WriteFile
      BY <1>6, <1>7
         DEF Inside, inputs, Pass, BackUp, BackedUp, Applied, Restored, RestoreSkip, Remove,
             WriteFile
<1>8. CASE RestoreCopy \/ RestoreDone
      BY <1>6, <1>8 DEF Inside, inputs, RestoreCopy, RestoreDone
<1>9. ASSUME NEW d \in Db, Skip(d) \/ Create(d) \/ CreateTables(d) \/ Apply(d) \/ Raise(d)
      PROVE  UNCHANGED Atomic!vars
      BY <1>6, <1>9 DEF Inside, inputs, At, Skip, Create, CreateTables, Apply, Raise
<1>10. CASE UNCHANGED vars
       BY <1>10 DEF vars, Wanted, Atomic!vars
<1> QED
    BY <1>1, <1>2, <1>3, <1>4, <1>5, <1>7, <1>8, <1>9, <1>10 DEF Next

(* However many databases there are, and whatever fails while it runs,     *)
(* pack changes them all or none unless it is cut short.                   *)
THEOREM PackImplementsAtomicPack == Spec => AllOrNothing
<1> QED BY InitRefines, StepRefines, Invariance, PTL DEF Spec, AllOrNothing, Atomic!Spec
=============================================================================
