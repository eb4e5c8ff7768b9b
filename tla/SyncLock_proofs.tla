--------------------------- MODULE SyncLock_proofs --------------------------
(***************************************************************************)
(* SyncLock for any number of processes.                                   *)
(***************************************************************************)
EXTENDS SyncLock, TLAPS

(* A process that has written its PID still finds it there, unless the     *)
(* file has become another's: release_sync_lock recognises its own file.   *)
OwnFileNamed ==
    \A p \in Proc :
        phase[p] \in {"wrote", "hold", "check", "unlink"} /\ file.by = p => file.written

(* Until a cleanup robs it, a process that has created the file and not    *)
(* yet released it is the one the file is of.                              *)
OwnersOwn ==
    ~ robbed => \A p \in Proc : phase[p] \in {"write", "wrote", "hold", "check", "unlink"} => file.by = p

(* Whoever made the file is between its create and its release, has been   *)
(* killed, or was stranded.                                                *)
FileHasMaker ==
    file # NoFile =>
        \/ phase[file.by] \in {"write", "wrote", "hold", "check", "unlink", "killed"}
        \/ phase[file.by] = "exit" /\ file.by \in stranded

OwnInv == TypeOK /\ OwnFileNamed /\ FileHasMaker
IInv == OwnInv /\ OwnersOwn

(* The inductive invariant holds before any process has started.           *)
LEMMA InitIInv == Init => IInv
<1>1. Init => OwnInv
  <2>1. Init => TypeOK
    <3>1. Init => robbed \in BOOLEAN
      BY Zenon DEF Init
    <3>2. Init => /\ file \in File /\ phase \in [Proc -> Phase]
                  /\ attempt \in [Proc -> 1 .. Attempts]
                  /\ saw \in [Proc -> Proc \cup {NoProc}]
                  /\ stranded \subseteq Proc
      BY LockAssumption DEF Init, NoFile, File, Phase, Attempts
    <3>. QED
      BY <3>1, <3>2 DEF TypeOK
  <2>2. Init => OwnFileNamed /\ FileHasMaker
    BY LockAssumption DEF Init, OwnFileNamed, FileHasMaker
  <2>. QED
    BY <2>1, <2>2 DEF OwnInv
<1>2. Init => OwnersOwn
  BY DEF Init, OwnersOwn
<1>. QED
  BY <1>1, <1>2 DEF IInv

(* Every step of every process keeps the first part.                       *)
LEMMA StepOwnInv ==
    ASSUME OwnInv, NEW p \in Proc, Start(p) \/ Step(p) \/ Interrupt(p) \/ Kill(p)
    PROVE  OwnInv'
<1>. USE LockAssumption
     DEF OwnInv, TypeOK, OwnFileNamed, FileHasMaker, NoFile, File, Phase, Attempts,
         At, Goto
<1>1. CASE Start(p)
  BY <1>1 DEF Start
<1>2. CASE Create(p)
  <2>1. CASE file = NoFile
    <3>1. file' = [by |-> p, written |-> FALSE] /\ phase' = [phase EXCEPT ![p] = "write"]
      BY <1>2, <2>1 DEF Create
    <3>2. UNCHANGED <<attempt, saw, robbed, stranded>>
      BY <1>2 DEF Create
    <3>. QED
      BY <3>1, <3>2
  <2>2. CASE file # NoFile
    BY <1>2, <2>2 DEF Create
  <2>. QED
    BY <2>1, <2>2
<1>3. CASE WritePid(p)
  BY <1>3 DEF WritePid
<1>4. CASE ReadPid(p)
  BY <1>4 DEF ReadPid, Content
<1>5. CASE Judge(p)
  BY <1>5 DEF Judge
<1>6. CASE CleanStale(p)
  BY <1>6 DEF CleanStale
<1>7. CASE Finish(p)
  BY <1>7 DEF Finish
<1>8. CASE CheckOwner(p)
  BY <1>8 DEF CheckOwner, Content
<1>9. CASE Unlink(p)
  BY <1>9 DEF Unlink
<1>10. CASE Kill(p)
  BY <1>10 DEF Kill, Alive, Over
<1>11. CASE Acquire(p)
  BY <1>11 DEF Acquire
<1>12. CASE Interrupt(p)
  BY <1>12 DEF Interrupt, PathKnown, Alive, Over
<1>. QED
  BY <1>1, <1>2, <1>3, <1>4, <1>5, <1>6, <1>7, <1>8, <1>9, <1>10, <1>11, <1>12 DEF Step

(* Every step of every process keeps owners owners.                        *)
LEMMA StepOwnersOwn ==
    ASSUME IInv, NEW p \in Proc, Start(p) \/ Step(p) \/ Interrupt(p) \/ Kill(p)
    PROVE  OwnersOwn'
<1>. USE LockAssumption DEF OwnersOwn, NoFile, At, Goto
<1>. TypeOK /\ OwnersOwn
  BY DEF IInv, OwnInv
<1>. USE DEF TypeOK, File
<1>1. CASE Start(p)
  BY <1>1 DEF Start
<1>2. CASE Create(p)
  BY <1>2 DEF Create
<1>3. CASE WritePid(p)
  BY <1>3 DEF WritePid
<1>4. CASE ReadPid(p)
  BY <1>4 DEF ReadPid, Content
<1>5. CASE Judge(p)
  BY <1>5 DEF Judge
<1>6. CASE CleanStale(p)
  <2>1. robbed' => OwnersOwn'
    OBVIOUS
  <2>2. CASE ~ robbed'
    <3>1. ~ robbed /\ ~ Alive(file.by)
      BY <1>6, <2>2 DEF CleanStale
    <3>2. \A q \in Proc : phase[q] \notin {"write", "wrote", "hold", "check", "unlink"}
      BY <3>1 DEF Alive, Over
    <3>3. \A q \in Proc : phase'[q] \notin {"write", "wrote", "hold", "check", "unlink"}
      BY <1>6, <3>2 DEF CleanStale
    <3>. QED
      BY <3>3
  <2>. QED
    BY <2>1, <2>2
<1>7. CASE Finish(p)
  BY <1>7 DEF Finish
<1>8. CASE CheckOwner(p)
  BY <1>8 DEF CheckOwner, Content
<1>9. CASE Unlink(p)
  BY <1>9 DEF Unlink
<1>10. CASE Kill(p)
  BY <1>10 DEF Kill, Alive, Over
<1>11. CASE Acquire(p)
  BY <1>11 DEF Acquire
<1>12. CASE Interrupt(p)
  BY <1>12 DEF Interrupt, PathKnown, Alive, Over
<1>. QED
  BY <1>1, <1>2, <1>3, <1>4, <1>5, <1>6, <1>7, <1>8, <1>9, <1>10, <1>11, <1>12 DEF Step

(* The inductive invariant.                                                *)
THEOREM Invariance == Spec => []IInv
<1>1. IInv /\ [Next]_vars => IInv'
  <2>1. IInv /\ UNCHANGED vars => IInv'
    BY DEF vars, IInv, OwnInv, TypeOK, OwnFileNamed, FileHasMaker, OwnersOwn
  <2>. QED
    BY <2>1, StepOwnInv, StepOwnersOwn DEF Next, IInv
<1>. QED
  BY <1>1, InitIInv, PTL DEF Spec

(* However many commands race for the lock and whatever they do to each    *)
(* other's files, one that exits without being killed leaves no file that  *)
(* names it.                                                               *)
THEOREM NoLockLeftBehind == Spec => []OrderlyExitLeavesNoLock
<1>1. IInv => OrderlyExitLeavesNoLock
  BY DEF IInv, OwnInv, FileHasMaker, OrderlyExitLeavesNoLock
<1>. QED
  BY <1>1, Invariance, PTL

(* Two commands hold the lock at once only after a stale-lock cleanup has  *)
(* removed the file of a running one, for any number of processes, killed  *)
(* wherever they are.                                                      *)
THEOREM OnlyRobberyBreaksExclusion == Spec => []ExclusiveUnlessRobbed
<1>1. IInv => ExclusiveUnlessRobbed
  BY LockAssumption
     DEF IInv, OwnersOwn, ExclusiveUnlessRobbed, MutualExclusion
<1>. QED
  BY <1>1, Invariance, PTL

-----------------------------------------------------------------------------
(* A command that runs alone.                                              *)

(* How far it can have got since it first tried to create the file: past   *)
(* the lock, or still in the first turn of the loop with nobody it takes   *)
(* for the owner but a dead one, or in the second turn with no file left.  *)
GettingIn(p) ==
    \/ phase[p] \in {"write", "wrote", "hold", "check", "unlink", "exit", "killed"}
    \/ phase[p] \in {"create", "read", "clean"} /\ attempt[p] = 1
    \/ phase[p] = "judge" /\ attempt[p] = 1 /\ saw[p] # p
    \/ phase[p] = "create" /\ file = NoFile

(* Its own steps take it on as long as nobody else runs.                   *)
LEMMA OwnStepGetsIn ==
    ASSUME IInv, NEW p \in Proc, GettingIn(p), Alone(p), Start(p) \/ Step(p) \/ Interrupt(p) \/ Kill(p)
    PROVE  GettingIn(p)'
<1>. TypeOK /\ FileHasMaker
  BY DEF IInv, OwnInv
<1>. USE LockAssumption DEF TypeOK, GettingIn, At, Goto
<1>1. CASE Start(p)
  BY <1>1 DEF Start
<1>2. CASE Create(p)
  BY <1>2 DEF Create
<1>3. CASE ReadPid(p)
  <2>1. Content # p
    BY <1>3 DEF ReadPid, Content, FileHasMaker, NoFile
  <2>. QED
    BY <1>3, <2>1 DEF ReadPid
<1>4. CASE Judge(p)
  <2>1. ~ Alive(saw[p])
    BY <1>4 DEF Judge, Alone, Alive
  <2>. QED
    BY <1>4, <2>1 DEF Judge
<1>5. CASE CleanStale(p)
  BY <1>5 DEF CleanStale, Attempts
<1>6. CASE WritePid(p) \/ Acquire(p) \/ Finish(p) \/ CheckOwner(p) \/ Unlink(p)
  BY <1>6 DEF WritePid, Acquire, Finish, CheckOwner, Unlink
<1>7. CASE Interrupt(p) \/ Kill(p)
  BY <1>7 DEF Interrupt, Kill
<1>. QED
  BY <1>1, <1>2, <1>3, <1>4, <1>5, <1>6, <1>7 DEF Step

(* Nobody else takes one: the others have ended, been killed or not begun. *)
LEMMA GettingInStays ==
    ASSUME NEW p \in Proc
    PROVE  IInv /\ GettingIn(p) /\ Alone(p) /\ Alone(p)' /\ [Next]_vars => GettingIn(p)'
<1>. SUFFICES ASSUME IInv, GettingIn(p), Alone(p), Alone(p)', [Next]_vars
              PROVE  GettingIn(p)'
  OBVIOUS
<1>1. CASE UNCHANGED vars
  BY <1>1 DEF vars, GettingIn
<1>2. CASE Next
  <2>. PICK q \in Proc : Start(q) \/ Step(q) \/ Interrupt(q) \/ Kill(q)
    BY <1>2 DEF Next
  <2>1. CASE q # p
    <3>1. ~ Alive(q) /\ ~ Alive(q)'
      BY <2>1 DEF Alone
    <3>2. ~ Step(q) /\ ~ Interrupt(q) /\ ~ Kill(q)
      BY <3>1 DEF Step, Interrupt, Create, WritePid, Acquire, ReadPid, Judge, CleanStale, Finish, CheckOwner,
                  Unlink, Kill, Alive, Over, At
    <3>3. ~ Start(q)
      BY <3>1 DEF Start, Goto, Alive, Over, IInv, OwnInv, TypeOK
    <3>. QED
      BY <3>2, <3>3
  <2>2. CASE q = p
    BY <2>2, OwnStepGetsIn
  <2>. QED
    BY <2>1, <2>2
<1>. QED
  BY <1>1, <1>2

(* The part of StaleLockReclaimed that is safety: a command that comes to  *)
(* create the lock file and runs alone from then on is never turned away,  *)
(* whatever file a killed command left behind.                             *)
THEOREM AloneIsNeverRefused ==
    ASSUME NEW p \in Proc
    PROVE  Spec => [](phase[p] = "create" /\ attempt[p] = 1 /\ []Alone(p)
                      => [](phase[p] # "refused"))
<1>1. phase[p] = "create" /\ attempt[p] = 1 => GettingIn(p)
  BY DEF GettingIn
<1>2. GettingIn(p) => phase[p] # "refused"
  BY DEF GettingIn
<1>. QED
  BY <1>1, <1>2, GettingInStays, Invariance, PTL DEF Spec
=============================================================================
