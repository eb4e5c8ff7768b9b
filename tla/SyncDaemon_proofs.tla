-------------------------- MODULE SyncDaemon_proofs -------------------------
(***************************************************************************)
(* SyncDaemon for any number of daemons and requests.                      *)
(***************************************************************************)
EXTENDS SyncDaemon, TLAPS

(* A request that has a target has seen it run, so it will not run again   *)
(* once it is dead; and one that has not started has none.                 *)
TargetsRan ==
    /\ \A r \in Request : target[r] # Nothing => life[target[r]] # "new"
    /\ \A r \in Request : pc[r] = "new" => target[r] = Nothing

(* The lock stays the daemon's until its handler has removed it.           *)
Named == raced \/ \A d \in Daemon : life[d] \in Running \cup {"releasing"} => lock = d

IInv == TypeOK /\ TargetsRan /\ StopConfirmed /\ Named /\ ScopeKept

(* The invariant holds before the first daemon.                            *)
LEMMA InitIInv == Init => IInv
<1>. SUFFICES ASSUME Init PROVE IInv
  OBVIOUS
<1>1. TypeOK
  <2>1. Default \in Config
    BY DEF Default, Config, Scope
  <2>2. /\ lock \in Daemon \cup {Nothing}
        /\ life \in [Daemon -> Life]
        /\ signal \in [Daemon -> {"none", "TERM", "KILL"}]
        /\ pc \in [Request -> Place]
        /\ action \in [Request -> Action \cup {"configure"}]
        /\ target \in [Request -> Daemon \cup {Nothing}]
    BY DEF Init, Life, Place, Action
  <2>3. listing \in Nat /\ seen \in Nat /\ synced \in Nat
    BY DEF Init
  <2>4. config \in Config /\ read \in [Request -> Config] /\ chosen \in Scope
    BY <2>1 DEF Init, Scope
  <2>5. {raced, overwrote} \subseteq BOOLEAN
    BY DEF Init
  <2>. QED
    BY <2>2, <2>3, <2>4, <2>5 DEF TypeOK
<1>2. TargetsRan /\ StopConfirmed /\ Named /\ ScopeKept
  BY DEF Init, TargetsRan, StopConfirmed, Named, ScopeKept, Running, Deciding, Alive, Default
<1>. QED
  BY <1>1, <1>2 DEF IInv

(* A daemon's step: it moves on, and the dead stay dead.                   *)
Moves(d) ==
    /\ life' \in {[life EXCEPT ![d] = where] : where \in Life \ {"new"}}
    /\ signal' \in [Daemon -> {"none", "TERM", "KILL"}]

(* A step of a daemon moves that daemon alone, which is not dead, and no   *)
(* request.                                                                *)
LEMMA DaemonMoves ==
    ASSUME TypeOK, NEW d \in Daemon, Launch(d) \/ DaemonStep(d)
    PROVE  /\ Moves(d)
           /\ life[d] # "dead"
           /\ UNCHANGED <<requestVars, configVars>>
<1>. USE DEF TypeOK, Life, Deciding, Becomes, Exits, Moves
<1>1. CASE Launch(d)
  BY <1>1 DEF Launch
<1>2. CASE Test(d)
  BY <1>2 DEF Test
<1>3. CASE Claim(d)
  BY <1>3 DEF Claim
<1>10. CASE Clean(d)
  BY <1>10 DEF Clean
<1>11. CASE Capture(d)
  BY <1>11 DEF Capture
<1>4. CASE Check(d)
  BY <1>4 DEF Check
<1>5. CASE Decide(d)
  BY <1>5 DEF Decide
<1>6. CASE Sync(d)
  BY <1>6 DEF Sync
<1>7. CASE Wake(d)
  BY <1>7 DEF Wake
<1>8. CASE Release(d)
  BY <1>8 DEF Release
<1>12. CASE ExitTrap(d)
  BY <1>12 DEF ExitTrap
<1>9. CASE Die(d)
  BY <1>9 DEF Die, Alive
<1>. QED
  BY <1>1, <1>2, <1>3, <1>4, <1>5, <1>6, <1>7, <1>8, <1>9, <1>10, <1>11, <1>12
     DEF DaemonStep

(* A step of a daemon keeps the type.                                      *)
LEMMA DaemonType ==
    ASSUME TypeOK, NEW d \in Daemon, Launch(d) \/ DaemonStep(d)
    PROVE  TypeOK'
<1>1. Moves(d) /\ UNCHANGED <<requestVars, configVars>>
  BY DaemonMoves
<1>2. life' \in [Daemon -> Life] /\ signal' \in [Daemon -> {"none", "TERM", "KILL"}]
  BY <1>1 DEF Moves, TypeOK
<1>3. lock' \in {lock, d, Nothing}
  BY DEF Launch, DaemonStep, Test, Clean, Claim, Capture, Check, Decide, Sync,
         Wake, Release, ExitTrap, Die
<1>5. listing' = listing /\ seen' \in {seen, listing} /\ synced' \in {synced, listing}
  BY DEF Launch, DaemonStep, Test, Clean, Claim, Capture, Check, Decide, Sync,
         Wake, Release, ExitTrap, Die, cycleVars
<1>4. raced' \in BOOLEAN
  BY DEF TypeOK, Launch, DaemonStep, Test, Clean, Claim, Capture, Check, Decide, Sync,
         Wake, Release, ExitTrap, Die
<1>. QED
  BY <1>1, <1>2, <1>3, <1>4, <1>5 DEF TypeOK, requestVars, configVars

(* A step of a daemon leaves the lock file naming the one that holds it.   *)
LEMMA DaemonNamed ==
    ASSUME TypeOK, Named, NEW d \in Daemon, Launch(d) \/ DaemonStep(d)
    PROVE  Named'
<1>. USE DaemonAssumption DEF TypeOK, Named, Running, Deciding, Becomes, Exits
<1>1. CASE Launch(d)
  BY <1>1 DEF Launch
<1>2. CASE Test(d)
  BY <1>2 DEF Test
<1>3. CASE Claim(d)
  BY <1>3 DEF Claim, Alive
<1>10. CASE Clean(d)
  BY <1>10 DEF Clean, Alive
<1>11. CASE Capture(d)
  BY <1>11 DEF Capture
<1>4. CASE Check(d)
  BY <1>4 DEF Check
<1>5. CASE Decide(d)
  BY <1>5 DEF Decide
<1>6. CASE Sync(d)
  BY <1>6 DEF Sync
<1>7. CASE Wake(d)
  BY <1>7 DEF Wake
<1>8. CASE Release(d)
  BY <1>8 DEF Release
<1>12. CASE ExitTrap(d)
  BY <1>12 DEF ExitTrap
<1>9. CASE Die(d)
  BY <1>9 DEF Die, Alive
<1>. QED
  BY <1>1, <1>2, <1>3, <1>4, <1>5, <1>6, <1>7, <1>8, <1>9, <1>10, <1>11, <1>12
     DEF DaemonStep

(* A step of a daemon preserves the invariant.                             *)
LEMMA DaemonIInv ==
    ASSUME IInv, NEW d \in Daemon, Launch(d) \/ DaemonStep(d)
    PROVE  IInv'
<1>. USE DEF IInv
<1>1. Moves(d) /\ life[d] # "dead" /\ UNCHANGED <<pc, target, config, chosen, overwrote>>
  BY DaemonMoves DEF requestVars, configVars
<1>2. TypeOK' /\ Named'
  BY DaemonType, DaemonNamed
<1>3. TargetsRan'
  BY <1>1 DEF TargetsRan, Moves, TypeOK
<1>4. StopConfirmed'
  BY <1>1 DEF StopConfirmed, TargetsRan, Moves, TypeOK, Alive
<1>5. ScopeKept'
  BY <1>1 DEF ScopeKept
<1>. QED
  BY <1>2, <1>3, <1>4, <1>5

(* A publish of another machine preserves the invariant.                   *)
LEMMA PublishIInv ==
    ASSUME IInv, Publish
    PROVE  IInv'
BY DEF IInv, TypeOK, TargetsRan, StopConfirmed, Named, ScopeKept, Alive, Publish, requestVars, configVars

-----------------------------------------------------------------------------
(* A request's step.                                                       *)

(* Every step leaves the target of a request one that has run.             *)
LEMMA StepTargets ==
    ASSUME TypeOK, TargetsRan, NEW r \in Request,
           RequestStep(r) \/ \E act \in Action \cup {"configure"} : Ask(r, act)
    PROVE  TargetsRan'
<1>. USE DEF TypeOK, TargetsRan, Goto, Answer, Proceed, Stopped, UnchangedButRequest
<1>1. ASSUME NEW act \in Action \cup {"configure"}, Ask(r, act)
      PROVE  TargetsRan'
  BY <1>1 DEF Ask
<1>2. CASE StopRead(r)
  <2>1. ReadPid = Nothing \/ life[ReadPid] # "new"
    BY DEF ReadPid, Alive
  <2>. QED
    BY <1>2, <2>1 DEF StopRead
<1>3. CASE Terminate(r)
  BY <1>3 DEF Terminate, Send
<1>4. CASE Wait(r)
  BY <1>4 DEF Wait
<1>5. CASE Escalate(r)
  BY <1>5 DEF Escalate, Send
<1>6. CASE Confirm(r)
  BY <1>6 DEF Confirm
<1>7. CASE Match(r)
  BY <1>7 DEF Match
<1>8. CASE Unlink(r)
  BY <1>8 DEF Unlink
<1>9. CASE StartRead(r)
  BY <1>9 DEF StartRead, Becomes
<1>10. CASE Await(r)
  BY <1>10 DEF Await
<1>11. CASE Load(r)
  BY <1>11 DEF Load
<1>12. CASE Save(r)
  BY <1>12 DEF Save
<1>. QED
  BY <1>1, <1>2, <1>3, <1>4, <1>5, <1>6, <1>7, <1>8, <1>9, <1>10, <1>11, <1>12
     DEF RequestStep

(* Every step confirms only the stop of a daemon that is dead.             *)
LEMMA StepConfirmed ==
    ASSUME TypeOK, TargetsRan, StopConfirmed, NEW r \in Request,
           RequestStep(r) \/ \E act \in Action \cup {"configure"} : Ask(r, act)
    PROVE  StopConfirmed'
<1>. USE DEF TypeOK, TargetsRan, StopConfirmed, Goto, Answer, Proceed, Stopped,
             UnchangedButRequest, Alive
<1>1. ASSUME NEW act \in Action \cup {"configure"}, Ask(r, act)
      PROVE  StopConfirmed'
  BY <1>1 DEF Ask
<1>2. CASE StopRead(r)
  BY <1>2 DEF StopRead
<1>3. CASE Terminate(r)
  BY <1>3 DEF Terminate, Send
<1>4. CASE Wait(r)
  BY <1>4 DEF Wait
<1>5. CASE Escalate(r)
  BY <1>5 DEF Escalate, Send
<1>6. CASE Confirm(r)
  BY <1>6 DEF Confirm
<1>7. CASE Match(r)
  BY <1>7 DEF Match
<1>8. CASE Unlink(r)
  BY <1>8 DEF Unlink
<1>9. CASE StartRead(r)
  BY <1>9 DEF StartRead, Becomes
<1>10. CASE Await(r)
  BY <1>10 DEF Await
<1>11. CASE Load(r)
  BY <1>11 DEF Load
<1>12. CASE Save(r)
  BY <1>12 DEF Save
<1>. QED
  BY <1>1, <1>2, <1>3, <1>4, <1>5, <1>6, <1>7, <1>8, <1>9, <1>10, <1>11, <1>12
     DEF RequestStep

(* Every step keeps the type.                                              *)
LEMMA StepType ==
    ASSUME TypeOK, NEW r \in Request,
           RequestStep(r) \/ \E act \in Action \cup {"configure"} : Ask(r, act)
    PROVE  TypeOK'
<1>. USE DEF TypeOK, Goto, Answer, Proceed, Stopped, UnchangedButRequest, Place, Action,
             cycleVars, configVars
<1>1. ASSUME NEW act \in Action \cup {"configure"}, Ask(r, act)
      PROVE  TypeOK'
  BY <1>1 DEF Ask
<1>2. CASE StopRead(r)
  <2>1. ReadPid \in Daemon \cup {Nothing}
    BY DEF ReadPid
  <2>. QED
    BY <1>2, <2>1 DEF StopRead
<1>3. CASE Terminate(r)
  BY <1>3 DEF Terminate, Send, Alive
<1>4. CASE Wait(r)
  BY <1>4 DEF Wait
<1>5. CASE Escalate(r)
  BY <1>5 DEF Escalate, Send, Alive
<1>6. CASE Confirm(r)
  BY <1>6 DEF Confirm
<1>7. CASE Match(r)
  BY <1>7 DEF Match
<1>8. CASE Unlink(r)
  BY <1>8 DEF Unlink
<1>9. CASE StartRead(r)
  BY <1>9 DEF StartRead, Becomes, Life
<1>10. CASE Await(r)
  BY <1>10 DEF Await
<1>11. CASE Load(r)
  BY <1>11 DEF Load
<1>12. CASE Save(r)
  <2>1. config' \in Config /\ chosen' \in Scope
    BY <1>12 DEF Save, Updated, Config
  <2>2. Default \in Config
    BY DEF Default, Config, Scope
  <2>. QED
    BY <1>12, <2>1, <2>2 DEF Save
<1>. QED
  BY <1>1, <1>2, <1>3, <1>4, <1>5, <1>6, <1>7, <1>8, <1>9, <1>10, <1>11, <1>12
     DEF RequestStep

(* Who starts a daemon leaves the lock to it; who unlinks a lock has seen  *)
(* the daemon it names die, or races.                                      *)
LEMMA StepNamed ==
    ASSUME TypeOK, StopConfirmed, Named, NEW r \in Request,
           RequestStep(r) \/ \E act \in Action \cup {"configure"} : Ask(r, act)
    PROVE  Named'
<1>1. CASE UNCHANGED <<lock, life, raced>>
  BY <1>1 DEF Named
<1>2. CASE Unlink(r)
  BY <1>2 DEF Unlink, Named, StopConfirmed, Alive, Running, Deciding, TypeOK
<1>3. CASE StartRead(r)
  <2>1. UNCHANGED <<lock, raced>>
        /\ (UNCHANGED life \/ \E d \in Daemon : life' = [life EXCEPT ![d] = "launched"])
    BY <1>3 DEF StartRead, Becomes
  <2>. QED
    BY <2>1 DEF Named, Running, Deciding, TypeOK
<1>. QED
  BY <1>1, <1>2, <1>3
     DEF RequestStep, Ask, StopRead, Terminate, Wait, Escalate, Confirm, Match, Await, Load, Save,
         UnchangedButRequest

(* Every step keeps the scope that was configured.                         *)
LEMMA StepScope ==
    ASSUME TypeOK, ScopeKept, NEW r \in Request,
           RequestStep(r) \/ \E act \in Action \cup {"configure"} : Ask(r, act)
    PROVE  ScopeKept'
<1>1. CASE UNCHANGED <<config, chosen, overwrote>>
  BY <1>1 DEF ScopeKept
<1>2. CASE Save(r)
  <2>1. CASE action[r] = "configure"
    BY <1>2, <2>1 DEF Save, ScopeKept
  <2>2. CASE action[r] # "configure"
    <3>1. config'.scope = read[r].scope
      BY <1>2, <2>2 DEF Save, Updated, TypeOK, Config
    <3>. QED
      BY <1>2, <2>2, <3>1 DEF Save, ScopeKept
  <2>. QED
    BY <2>1, <2>2
<1>. QED
  BY <1>1, <1>2
     DEF RequestStep, Ask, StopRead, Terminate, Wait, Escalate, Confirm, Match, Unlink,
         StartRead, Await, Load, UnchangedButRequest, configVars

(* The inductive invariant.                                                *)
THEOREM Invariance == Spec => []IInv
<1>1. IInv /\ [Next]_vars => IInv'
  <2>1. ASSUME IInv, NEW r \in Request,
               RequestStep(r) \/ \E act \in Action \cup {"configure"} : Ask(r, act)
        PROVE  IInv'
    BY <2>1, StepType, StepTargets, StepConfirmed, StepNamed, StepScope DEF IInv
  <2>2. ASSUME IInv, UNCHANGED vars
        PROVE  IInv'
    BY <2>2 DEF IInv, vars, cycleVars, requestVars, configVars, TypeOK, TargetsRan,
                StopConfirmed, Named, ScopeKept, Alive
  <2>. QED
    BY <2>1, <2>2, DaemonIInv, PublishIInv DEF Next
<1>. QED
  BY <1>1, InitIInv, PTL DEF Spec

(* With any number of daemons and requests, a daemon that runs is named in *)
(* the lock unless one of the three unguarded writes has hit another's.    *)
THEOREM LockNamesTheDaemon == Spec => []LockIsHeld
<1>1. IInv => LockIsHeld
  BY DEF IInv, Named, LockIsHeld
<1>. QED
  BY <1>1, Invariance, PTL

(* No request reports a stop, or starts the next daemon, before the one it *)
(* was to stop is gone.                                                    *)
THEOREM StopsAreConfirmed == Spec => []StopConfirmed
BY Invariance, PTL DEF IInv

(* Control requests, any number of them, keep the scope a user chose.      *)
THEOREM ControlKeepsScope == Spec => []ScopeKept
BY Invariance, PTL DEF IInv
=============================================================================
