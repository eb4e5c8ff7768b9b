------------------------- MODULE SyncHistory_proofs -------------------------
(***************************************************************************)
(* Theorems about what the engine does to the users' rows, for any         *)
(* machines, keys, rows and schema versions.  SyncHistory only watches     *)
(* SyncEngine, so every theorem of SyncEngine_proofs holds of it too; the  *)
(* invariants here speak of the history variables besides.                 *)
(***************************************************************************)
EXTENDS SyncHistory, SyncEngine_proofs

USE DEF None

-----------------------------------------------------------------------------
(* The history variables restrict nothing but KiroCrew's writes: each step *)
(* of SyncHistory is the engine's.                                         *)
LEMMA HistoryStep ==
    ASSUME NEW m \in Machine, HBegin(m) \/ HContinue(m) \/ HEnvironment(m)
    PROVE  Begin(m) \/ Continue(m) \/ Environment(m)
<1>1. HBegin(m) => Begin(m)
  BY DEF HBegin, Begin, HStart, HResume
<1>2. HContinue(m) => Continue(m)
  BY DEF HContinue, Continue, HMergeRef, HPack
<1>3. HEnvironment(m) => Environment(m)
  BY DEF HEnvironment, Environment, HWrite
<1>. QED
  BY <1>1, <1>2, <1>3

(* The specification with history variables implements the one without.    *)
THEOREM HistoryOnlyWatches == HSpec => Spec
<1>1. HInit => Init
  BY DEF HInit
<1>2. [HNext]_hvars => [Next]_vars
  BY HistoryStep DEF HNext, Next, hvars
<1>. QED
  BY <1>1, <1>2, PTL DEF HSpec, Spec

(* And so the engine's inductive invariant holds of it.                    *)
LEMMA HInvariance == HSpec => []IInv
BY HistoryOnlyWatches, Invariance, PTL

-----------------------------------------------------------------------------
(* Quarantine.                                                             *)

(* A schema version v is recent enough for every row of a table, and for a *)
(* commit and everything it was made from.                                 *)
Fitting(rows, table, v) ==
    \A k \in Key : table[k] # Absent =>
        \E w \in rows[k] : w.row = table[k] /\ w.version <= v

CommitFitting(graph, rows, c, v) ==
    /\ Fitting(rows, graph[c].tree, v)
    /\ \A b \in graph[c].past : graph[b].version <= v

RowsFit(table, v) == Fitting(written, table, v)
Fits(c, v) == CommitFitting(commits, written, c, v)
Sound(c) == Fits(c, commits[c].version)

(* A resumed command works with a main whose schema dump may be older than *)
(* its rows, until the pack gates have compared it with the live one.      *)
Ready(m) == pc[m] # "idle" /\ (pc[m] = "merge" => running[m].name # "resume")

(* What one machine holds fits the KiroCrew that runs there, and what it   *)
(* may publish is sound.                                                   *)
MachineFits(m) ==
    /\ RowsFit(live[m], version[m])
    /\ RowsFit(index[m], version[m])
    /\ head[m] # None => Fits(head[m], version[m])
    /\ mergeHead[m] # None => /\ head[m] # None
                              /\ Sound(mergeHead[m])
                              /\ commits[mergeHead[m]].version <= version[m]
    /\ Ready(m) => Sound(head[m])
    /\ todo[m] # {} => pc[m] = "merge" /\ running[m].name = "sync"
    /\ ~ running[m].force

CopiesSound ==
    \A m, n \in Machine :
        \A c \in {remote[n], pulled[m][n], tracking[m][n]} \ {None} : Sound(c)

WrittenType == written \in [Key -> SUBSET [row : Row, version : Version]]

QInv == WrittenType /\ CopiesSound /\ \A m \in Machine : MachineFits(m)

-----------------------------------------------------------------------------
(* What fits keeps fitting: rows written stay written, commits are never   *)
(* changed, and a schema only gets newer.                                  *)
Grows ==
    /\ \A c \in Made : commits'[c] = commits[c]
    /\ \A k \in Key : written[k] \subseteq written'[k]

(* The next commit is a commit.                                            *)
LEMMA NextIdNew ==
    ASSUME TypeOK
    PROVE  NextId # None
BY DEF TypeOK, NextId

(* Schema versions are compared as numbers.                                *)
LEMMA VersionNat == Version \subseteq Nat
BY EngineAssumption

(* Rows that fit a schema keep fitting it, and every later one, while only *)
(* more is written.                                                        *)
LEMMA FittingStays ==
    ASSUME WrittenType, Grows, NEW table, NEW v \in Nat, NEW u \in Nat, v <= u,
           Fitting(written, table, v)
    PROVE  Fitting(written', table, u)
<1>. SUFFICES ASSUME NEW k \in Key, table[k] # Absent
              PROVE  \E w \in written'[k] : w.row = table[k] /\ w.version <= u
  BY DEF Fitting
<1>1. PICK w \in written[k] : w.row = table[k] /\ w.version <= v
  BY DEF Fitting
<1>2. w.version \in Nat
  <2>1. w \in [row : Row, version : Version]
    BY DEF WrittenType
  <2>. QED
    BY <2>1, VersionNat
<1>. QED
  BY <1>1, <1>2 DEF Grows

(* A commit whose rows and past fit a schema keeps fitting it, and every   *)
(* later one.                                                              *)
LEMMA FitsStays ==
    ASSUME TypeOK, Graph, WrittenType, Grows, NEW c \in Made,
           NEW v \in Nat, NEW u \in Nat, v <= u, Fits(c, v)
    PROVE  CommitFitting(commits', written', c, u)
<1>1. commits'[c] = commits[c]
  BY DEF Grows
<1>2. Fitting(written', commits[c].tree, u)
  BY FittingStays DEF Fits, CommitFitting
<1>3. ASSUME NEW b \in commits[c].past
      PROVE  commits'[b].version <= u
  <2>1. b \in Made
    BY CommitType DEF Graph, Made
  <2>2. commits[b].version \in Nat /\ commits[b].version <= v
    BY <2>1, CommitType, VersionNat DEF Fits, CommitFitting
  <2>. QED
    BY <2>1, <2>2 DEF Grows
<1>. QED
  BY <1>1, <1>2, <1>3 DEF CommitFitting

(* A commit that fits its own schema keeps fitting it.                     *)
LEMMA SoundStays ==
    ASSUME TypeOK, Graph, WrittenType, Grows, NEW c \in Made, Sound(c)
    PROVE  CommitFitting(commits', written', c, commits'[c].version)
<1>1. commits[c].version \in Nat /\ commits'[c] = commits[c]
  BY CommitType, VersionNat DEF Grows
<1>2. commits[c].version <= commits[c].version
  BY <1>1
<1>. QED
  BY <1>1, <1>2, FitsStays DEF Sound

-----------------------------------------------------------------------------
(* The machine that takes the step.                                        *)

(* A new commit fits a schema when its tree does, its own schema is no     *)
(* newer, and all its parents fit.                                         *)
LEMMA NewCommitFits ==
    ASSUME TypeOK, Graph, WrittenType, Grows, written' = written,
           NEW tree \in Table, NEW ver \in Version,
           NEW parents \in SUBSET (Made \cup {None}), Committed(tree, ver, parents),
           NEW v \in Nat, ver <= v, RowsFit(tree, v),
           \A p \in parents \ {None} : \A b \in commits[p].past : commits[b].version <= v
    PROVE  /\ CommitFitting(commits', written', NextId, v)
           /\ commits'[NextId].version = ver
<1>. DEFINE c == NextId
<1>1. /\ commits'[c].tree = tree /\ commits'[c].version = ver
      /\ commits'[c].past = (UNION {Past(p) : p \in parents}) \cup {c}
  BY CommitsGrow
<1>2. ASSUME NEW b \in commits'[c].past
      PROVE  commits'[b].version <= v
  <2>1. CASE b = c
    BY <1>1, <2>1
  <2>2. CASE b # c
    <3>1. PICK p \in parents : b \in Past(p)
      BY <1>1, <2>2
    <3>2. p # None /\ p \in Made /\ b \in commits[p].past
      BY <3>1 DEF Past
    <3>3. b \in Made
      BY <3>2, CommitType DEF Graph, Made
    <3>. QED
      BY <3>2, <3>3 DEF Grows
  <2>. QED
    BY <2>1, <2>2
<1>. QED
  BY <1>1, <1>2 DEF CommitFitting, RowsFit

(* A machine that keeps its main: its live data and its index may change,  *)
(* its schema be upgraded, and a merge be opened or given up.              *)
LEMMA SameMainFits ==
    ASSUME TypeOK, Graph, Headed, WrittenType, Grows, NEW m \in Machine, MachineFits(m),
           version'[m] \in Nat, version[m] <= version'[m],
           Fitting(written', live'[m], version'[m]),
           Fitting(written', index'[m], version'[m]),
           head'[m] = head[m],
           \/ mergeHead'[m] \in {mergeHead[m], None}
           \/ /\ mergeHead'[m] \in Made /\ Sound(mergeHead'[m]) /\ head[m] # None
              /\ commits[mergeHead'[m]].version <= version[m],
           Ready(m)' => Ready(m) \/ (head[m] # None /\ Sound(head[m])),
           todo'[m] # {} => pc'[m] = "merge" /\ running'[m].name = "sync",
           ~ running'[m].force
    PROVE  MachineFits(m)'
<1>1. version[m] \in Nat
  BY VersionNat DEF TypeOK
<1>2. RowsFit(live[m], version[m])' /\ RowsFit(index[m], version[m])'
  BY DEF RowsFit
<1>3. head[m] \in Made \cup {None} /\ mergeHead[m] \in Made \cup {None}
  BY DEF TypeOK
<1>4. (head[m] # None => Fits(head[m], version[m]))'
  BY <1>1, <1>3, FitsStays DEF MachineFits, Fits
<1>5. (mergeHead[m] # None => /\ head[m] # None
                              /\ Sound(mergeHead[m])
                              /\ commits[mergeHead[m]].version <= version[m])'
  <2>. SUFFICES ASSUME mergeHead'[m] # None
                PROVE  /\ head'[m] # None
                       /\ CommitFitting(commits', written', mergeHead'[m],
                                         commits'[mergeHead'[m]].version)
                       /\ commits'[mergeHead'[m]].version <= version'[m]
    BY DEF Sound, Fits
  <2>1. /\ mergeHead'[m] \in Made /\ Sound(mergeHead'[m]) /\ head[m] # None
        /\ commits[mergeHead'[m]].version <= version[m]
    BY <1>3 DEF MachineFits
  <2>2. /\ commits[mergeHead'[m]].version \in Nat
        /\ commits'[mergeHead'[m]] = commits[mergeHead'[m]]
    BY <2>1, CommitType, VersionNat DEF Grows
  <2>. QED
    BY <1>1, <2>1, <2>2, SoundStays
<1>6. (Ready(m) => Sound(head[m]))'
  <2>. SUFFICES ASSUME Ready(m)'
                PROVE  CommitFitting(commits', written', head[m], commits'[head[m]].version)
    BY DEF Sound, Fits
  <2>1. head[m] # None /\ Sound(head[m])
    BY DEF Ready, MachineFits, Headed
  <2>. QED
    BY <1>3, <2>1, SoundStays
<1>. QED
  BY <1>2, <1>4, <1>5, <1>6 DEF MachineFits

(* What a machine that did nothing holds fits it as before.                *)
LEMMA UntouchedFits ==
    ASSUME TypeOK, Graph, Headed, WrittenType, Grows, NEW n \in Machine,
           MachineFits(n), Untouched(n)
    PROVE  MachineFits(n)'
<1>1. version[n] \in Nat /\ version[n] <= version[n]
  <2>1. version[n] \in Nat
    BY VersionNat DEF TypeOK
  <2>. QED
    BY <2>1
<1>2. Fitting(written', live[n], version[n]) /\ Fitting(written', index[n], version[n])
  BY <1>1, FittingStays DEF MachineFits, RowsFit
<1>3. Ready(n)' => Ready(n)
  BY DEF Ready, Untouched
<1>. QED
  BY <1>1, <1>2, <1>3, SameMainFits DEF MachineFits, Untouched

(* A machine whose main moved to a commit that fits it.                    *)
LEMMA NewMainFits ==
    ASSUME TypeOK, Graph, WrittenType, Grows, NEW m \in Machine, MachineFits(m),
           version'[m] = version[m],
           RowsFit(live[m], version[m])',
           RowsFit(index[m], version[m])',
           head'[m] # None,
           CommitFitting(commits', written', head'[m], version[m]),
           mergeHead'[m] \in {mergeHead[m], None},
           Ready(m)' => commits'[head'[m]].version = version[m],
           todo'[m] # {} => pc'[m] = "merge" /\ running'[m].name = "sync",
           ~ running'[m].force
    PROVE  MachineFits(m)'
<1>1. mergeHead[m] \in Made \cup {None}
  BY DEF TypeOK
<1>2. Fits(head[m], version[m])'
  BY DEF Fits
<1>3. (Ready(m) => Sound(head[m]))'
  BY DEF Sound, Fits
<1>4. (mergeHead[m] # None => /\ head[m] # None
                              /\ Sound(mergeHead[m])
                              /\ commits[mergeHead[m]].version <= version[m])'
  <2>. SUFFICES ASSUME mergeHead'[m] # None
                PROVE  /\ CommitFitting(commits', written', mergeHead[m],
                                         commits'[mergeHead[m]].version)
                       /\ commits'[mergeHead[m]].version <= version[m]
    BY DEF Sound, Fits
  <2>. QED
    BY <1>1, SoundStays DEF MachineFits, Grows
<1>. QED
  BY <1>2, <1>3, <1>4 DEF MachineFits

-----------------------------------------------------------------------------
(* The actions, one by one.                                                *)

(* What a machine holds fits its schema after a step as before it.         *)
LEMMA HereFits ==
    ASSUME TypeOK, WrittenType, Grows, NEW m \in Machine, MachineFits(m)
    PROVE  /\ version[m] \in Nat /\ version[m] <= version[m]
           /\ Fitting(written', live[m], version[m])
           /\ Fitting(written', index[m], version[m])
           /\ Fitting(written', NoTable, version[m])
<1>1. version[m] \in Nat
  BY VersionNat DEF TypeOK
<1>2. version[m] <= version[m]
  BY <1>1
<1>3. Fitting(written', NoTable, version[m])
  BY DEF Fitting, NoTable
<1>. QED
  BY <1>1, <1>2, <1>3, FittingStays DEF MachineFits, RowsFit

(* The end of a command, whatever ended it.                                *)
LEMMA FinishFits ==
    ASSUME TypeOK, NEW m \in Machine, Finish(m)
    PROVE  ~ Ready(m)' /\ todo'[m] = {} /\ ~ running'[m].force
BY DEF Finish, Goto, Ready, TypeOK, NoInvocation

(* KiroCrew stores rows under its own schema.                              *)
LEMMA WriteFits ==
    ASSUME TypeOK, Graph, Headed, WrittenType, Grows, NEW m \in Machine, MachineFits(m),
           NEW k \in Key, NEW cell \in Cell, HWrite(m, k, cell)
    PROVE  MachineFits(m)'
<1>1. /\ live' = [live EXCEPT ![m] = [live[m] EXCEPT ![k] = cell]]
      /\ UNCHANGED <<version, repoVars, transfer, control>>
  BY DEF HWrite, Write
<1>2. cell # Absent =>
         [row |-> cell, version |-> version[m]] \in written'[k]
  BY DEF HWrite, WrittenType
<1>3. live'[m] = [live[m] EXCEPT ![k] = cell] /\ live[m] \in Table
  BY <1>1 DEF TypeOK
<1>4. Fitting(written', live'[m], version[m])
  <2>. SUFFICES ASSUME NEW j \in Key, live'[m][j] # Absent
                PROVE  \E w \in written'[j] : w.row = live'[m][j] /\ w.version <= version[m]
    BY DEF Fitting
  <2>1. CASE j = k
    <3>1. live'[m][j] = cell
      BY <1>3, <2>1 DEF Table
    <3>2. version[m] <= version[m]
      BY HereFits
    <3>. QED
      BY <1>2, <2>1, <3>1, <3>2
  <2>2. CASE j # k
    <3>1. live'[m][j] = live[m][j]
      BY <1>3, <2>2 DEF Table
    <3>. QED
      BY <3>1, HereFits DEF Fitting
  <2>. QED
    BY <2>1, <2>2
<1>5. Ready(m)' = Ready(m)
  BY <1>1 DEF Ready, control
<1>. QED
  BY <1>1, <1>4, <1>5, HereFits, SameMainFits DEF repoVars, transfer, control, MachineFits

(* The environment's other steps.                                          *)
LEMMA QuietFits ==
    ASSUME TypeOK, Graph, Headed, NothingHalfMerged, WrittenType, Grows,
           NEW m \in Machine, MachineFits(m),
           Quiesce(m) \/ Upgrade(m) \/ Crash(m) \/ ResolveByHand(m) \/ AbortMerge(m)
    PROVE  MachineFits(m)'
<1>. USE HereFits, SameMainFits
<1>1. CASE Quiesce(m)
  <2>1. UNCHANGED <<live, version, repoVars, transfer, control>>
    BY <1>1 DEF Quiesce
  <2>. QED
    BY <2>1 DEF repoVars, transfer, control, Ready, MachineFits
<1>2. CASE Upgrade(m)
  <2>1. UNCHANGED <<live, repoVars, transfer, control>> /\ version'[m] = version[m] + 1
    BY <1>2 DEF Upgrade, TypeOK
  <2>2. version'[m] \in Nat /\ version[m] <= version'[m]
    BY <2>1
  <2>3. Fitting(written', live[m], version'[m]) /\ Fitting(written', index[m], version'[m])
    BY <2>2, FittingStays DEF MachineFits, RowsFit
  <2>. QED
    BY <2>1, <2>2, <2>3 DEF repoVars, transfer, control, Ready, MachineFits
<1>3. CASE Crash(m)
  BY <1>3, FinishFits DEF Crash, liveVars, repoVars
<1>4. CASE ResolveByHand(m)
  <2>1. PICK tree \in Table :
           /\ \A k \in Key : \E c \in {head[m], mergeHead[m]} :
                 tree[k] = commits[c].tree[k]
           /\ index' = [index EXCEPT ![m] = tree]
    BY <1>4 DEF ResolveByHand
  <2>2. UNCHANGED <<liveVars, head, mergeHead, todo, running, pc>> /\ index'[m] = tree
    BY <1>4, <2>1 DEF ResolveByHand, transfer, control, TypeOK
  <2>3. mergeHead[m] \in Made /\ mergeHead[m] # None /\ head[m] # None
    BY <1>4 DEF ResolveByHand, NothingHalfMerged, MachineFits, TypeOK
  <2>4. Fitting(written', commits[head[m]].tree, version[m])
    <3>1. Fitting(written, commits[head[m]].tree, version[m])
      BY <2>3 DEF MachineFits, Fits, CommitFitting
    <3>. QED
      BY <3>1, FittingStays
  <2>5. Fitting(written', commits[mergeHead[m]].tree, version[m])
    <3>1. /\ commits[mergeHead[m]].version \in Nat
          /\ commits[mergeHead[m]].version <= version[m]
          /\ Fitting(written, commits[mergeHead[m]].tree, commits[mergeHead[m]].version)
      BY <2>3, CommitType, VersionNat DEF MachineFits, Sound, Fits, CommitFitting
    <3>. QED
      BY <3>1, FittingStays
  <2>6. Fitting(written', tree, version[m])
    BY <2>1, <2>4, <2>5 DEF Fitting
  <2>. QED
    BY <2>2, <2>6 DEF liveVars, Ready, MachineFits
<1>5. CASE AbortMerge(m)
  <2>1. /\ UNCHANGED <<liveVars, head, todo, running, pc>>
        /\ mergeHead'[m] = None /\ index'[m] = NoTable
    BY <1>5 DEF AbortMerge, transfer, control, TypeOK
  <2>. QED
    BY <2>1 DEF liveVars, Ready, MachineFits
<1>. QED
  BY <1>1, <1>2, <1>3, <1>4, <1>5

(* What main and an open merge were made from is no newer than the schema  *)
(* of the machine that holds them.                                         *)
LEMMA ParentsFit ==
    ASSUME TypeOK, Graph, NEW m \in Machine, MachineFits(m)
    PROVE  /\ head[m] # None => \A b \in commits[head[m]].past :
                                    commits[b].version <= version[m]
           /\ mergeHead[m] # None => \A b \in commits[mergeHead[m]].past :
                                    commits[b].version <= version[m]
<1>1. head[m] # None => \A b \in commits[head[m]].past : commits[b].version <= version[m]
  BY DEF MachineFits, Fits, CommitFitting
<1>2. ASSUME mergeHead[m] # None, NEW b \in commits[mergeHead[m]].past
      PROVE  commits[b].version <= version[m]
  <2>1. mergeHead[m] \in Made /\ b \in Made
    BY <1>2, CommitType DEF TypeOK, Graph, Made
  <2>2. commits[b].version \in Nat /\ commits[mergeHead[m]].version \in Nat /\ version[m] \in Nat
    BY <2>1, CommitType, VersionNat DEF TypeOK
  <2>3. /\ commits[mergeHead[m]].version <= version[m]
        /\ commits[b].version <= commits[mergeHead[m]].version
    BY <1>2 DEF MachineFits, Sound, Fits, CommitFitting
  <2>. QED
    BY <2>2, <2>3
<1>. QED
  BY <1>1, <1>2

(* sync, push and export record the live state under the live schema.      *)
LEMMA StartFits ==
    ASSUME TypeOK, Graph, Headed, WrittenType, Grows, written' = written,
           NEW m \in Machine, MachineFits(m),
           NEW cmd \in Command, ~ cmd.force, Start(m, cmd)
    PROVE  MachineFits(m)'
<1>. DEFINE h == head[m]
            same == h # None /\ commits[h].tree = live[m] /\ commits[h].version = version[m]
            parents == {h, mergeHead[m]} \ {None}
<1>1. /\ UNCHANGED <<live, version, todo>> /\ todo[m] = {}
      /\ CommitLiveState(m)
      /\ ~ running'[m].force
      /\ live[m] \in Table /\ version[m] \in Version
  BY DEF Start, liveVars, MachineFits, TypeOK, control
<1>2. parents \in SUBSET (Made \cup {None})
  BY DEF TypeOK
<1>3. Ready(m)' => pc'[m] = "pull"
  BY DEF Start, Ready, control, Goto, TypeOK
<1>4. CASE same
  <2>1. /\ head' = head /\ mergeHead' = mergeHead
        /\ index'[m] \in {index[m], live[m]}
    BY <1>1, <1>4 DEF CommitLiveState, TypeOK
  <2>2. Sound(h)
    BY <1>4 DEF MachineFits, Sound
  <2>. QED
    BY <1>1, <1>4, <2>1, <2>2, HereFits, SameMainFits DEF MachineFits
<1>5. CASE ~ same
  <2>1. /\ index'[m] = NoTable /\ mergeHead'[m] = None /\ head'[m] = NextId
        /\ Committed(live[m], version[m], parents)
    BY <1>1, <1>5 DEF CommitLiveState, Committed, TypeOK
  <2>2. /\ CommitFitting(commits', written', NextId, version[m])
        /\ commits'[NextId].version = version[m]
    <3>1. \A p \in parents \ {None} : \A b \in commits[p].past : commits[b].version <= version[m]
      BY ParentsFit
    <3>2. RowsFit(live[m], version[m])
      BY DEF MachineFits
    <3>. HIDE DEF parents
    <3>. QED
      BY <1>1, <1>2, <2>1, <3>1, <3>2, HereFits, NewCommitFits
  <2>3. NextId # None
    BY NextIdNew
  <2>4. RowsFit(live[m], version[m])' /\ RowsFit(index[m], version[m])'
    BY <1>1, <2>1, HereFits DEF RowsFit
  <2>. QED
    BY <1>1, <2>1, <2>2, <2>3, <2>4, NewMainFits
<1>. QED
  BY <1>4, <1>5

(* resume records what the user resolved under the schema of one side.     *)
LEMMA ResumeFits ==
    ASSUME TypeOK, Graph, Headed, WrittenType, Grows, written' = written,
           NEW m \in Machine, MachineFits(m),
           NEW cmd \in Command, ~ cmd.force, Resume(m, cmd)
    PROVE  MachineFits(m)'
<1>1. /\ UNCHANGED <<live, version, todo>> /\ todo[m] = {}
      /\ ~ running'[m].force /\ head[m] # None
      /\ index'[m] = NoTable
      /\ ~ Ready(m)'
  BY DEF Resume, liveVars, transfer, MachineFits, TypeOK, Goto, Ready
<1>2. CASE mergeHead[m] = None
  BY <1>1, <1>2, HereFits, SameMainFits DEF Resume, MachineFits
<1>3. CASE mergeHead[m] # None
  <2>. DEFINE parents == {head[m], mergeHead[m]}
  <2>. PICK ver \in ResolvedVersions(m) : Committed(index[m], ver, parents)
    BY <1>3 DEF Resume, Committed
  <2>1. mergeHead'[m] = None /\ head'[m] = NextId
    BY <1>3 DEF Resume, TypeOK
  <2>2. /\ head[m] \in Made /\ parents \in SUBSET (Made \cup {None})
        /\ index[m] \in Table
    BY <1>1 DEF TypeOK
  <2>3. ver \in Version /\ ver <= version[m]
    <3>1. /\ ver \in Version
          /\ ver \in {commits[head[m]].version, commits[mergeHead[m]].version}
      BY <1>1, <1>3, ResolvedVersionsKnown
    <3>2. commits[head[m]].version <= version[m] /\ commits[mergeHead[m]].version <= version[m]
      BY <1>1, <1>3, <2>2, ParentsFit DEF Graph, TypeOK
    <3>. QED
      BY <3>1, <3>2
  <2>4. \A p \in parents \ {None} : \A b \in commits[p].past : commits[b].version <= version[m]
    BY ParentsFit
  <2>5. RowsFit(index[m], version[m])
    BY DEF MachineFits
  <2>. HIDE DEF parents
  <2>6. CommitFitting(commits', written', NextId, version[m])
    BY <2>1, <2>2, <2>3, <2>4, <2>5, HereFits, NewCommitFits
  <2>7. NextId # None
    BY NextIdNew
  <2>8. RowsFit(live[m], version[m])' /\ RowsFit(index[m], version[m])'
    BY <1>1, HereFits DEF RowsFit
  <2>. QED
    BY <1>1, <2>1, <2>6, <2>7, <2>8, NewMainFits
<1>. QED
  BY <1>2, <1>3

(* Moving bundles and ending a command change no main.                     *)
LEMMA TransferFits ==
    ASSUME TypeOK, Graph, Headed, WrittenType, Grows, NEW m \in Machine, MachineFits(m),
           Pull(m) \/ EndWithoutPack(m) \/ Publish(m)
    PROVE  MachineFits(m)'
<1>1. UNCHANGED <<liveVars, repoVars>>
  BY DEF Pull, EndWithoutPack, Publish
<1>2. CASE EndWithoutPack(m) \/ Publish(m)
  BY <1>1, <1>2, FinishFits, HereFits, SameMainFits
     DEF EndWithoutPack, Publish, liveVars, repoVars
<1>3. CASE Pull(m)
  <2>1. Ready(m) /\ running' = running
    BY <1>3 DEF Pull, Ready
  <2>2. todo'[m] # {} => pc'[m] = "merge" /\ running[m].name = "sync"
    <3>1. CASE running[m].name = "sync"
      BY <1>3, <3>1 DEF Pull, Goto, TypeOK
    <3>2. CASE running[m].name # "sync"
      BY <1>3, <3>2 DEF Pull, MachineFits
    <3>. QED
      BY <3>1, <3>2
  <2>. QED
    BY <1>1, <2>1, <2>2, HereFits, SameMainFits DEF liveVars, repoVars, MachineFits
<1>. QED
  BY <1>2, <1>3

(* A pack writes what the gates let through: main's schema is the live one.*)
LEMMA PackFits ==
    ASSUME TypeOK, Graph, Headed, WrittenType, Grows, NEW m \in Machine, MachineFits(m),
           Pack(m)
    PROVE  MachineFits(m)'
<1>1. /\ UNCHANGED <<version, head, mergeHead, index, running, todo>>
      /\ todo[m] = {}
      /\ head[m] # None /\ head[m] \in Made
      /\ commits[head[m]].version = version[m]
      /\ live'[m] = commits[head[m]].tree
  BY DEF Pack, Applying, Gated, Compatible, Headed, repoVars, transfer, MachineFits, TypeOK
<1>2. Fits(head[m], version[m])
  BY <1>1 DEF MachineFits
<1>3. Sound(head[m])
  BY <1>1, <1>2 DEF Sound
<1>4. Fitting(written', live'[m], version[m])
  BY <1>1, <1>2, HereFits, FittingStays DEF Fits, CommitFitting
<1>. QED
  BY <1>1, <1>3, <1>4, HereFits, SameMainFits DEF MachineFits

(* A turn of the merge loop: what is taken was made under the live schema, *)
(* and a merged schema dump is never older than the rows merged with it.   *)
LEMMA TurnFits ==
    ASSUME TypeOK, Graph, Headed, WrittenType, CopiesSound, Grows, written' = written,
           NEW m \in Machine, MachineFits(m), MergeRef(m)
    PROVE  MachineFits(m)'
<1>1. /\ pc[m] = "merge" /\ head[m] \in Made /\ head[m] # None /\ UNCHANGED liveVars
      /\ todo'[m] \subseteq todo[m]
  BY MergeTurn DEF Headed, TypeOK
<1>. PICK n \in Machine : Turn(m, n, tracking[m][n]) /\ todo[m] # {}
  BY MergeTurn
<1>. DEFINE c == tracking[m][n]
<1>2. running[m].name = "sync" /\ Ready(m)
  BY <1>1 DEF MachineFits, Ready
<1>3. Sound(head[m])
  BY <1>2 DEF MachineFits
<1>4. UNCHANGED control =>
         /\ todo'[m] # {} => pc'[m] = "merge" /\ running'[m].name = "sync"
         /\ ~ running'[m].force
  BY <1>1, <1>2 DEF control, MachineFits
<1>5. CASE Skipped(m)
  BY <1>1, <1>2, <1>3, <1>4, <1>5, HereFits, SameMainFits DEF Skipped, repoVars, liveVars
<1>6. CASE ~ Skipped(m)
  <2>1. /\ c \in Made /\ c # None /\ Sound(c)
        /\ commits[c].version = version[m]
    <3>1. c \in Made /\ ~ Refused(m, c)
      BY <1>6 DEF Turn
    <3>2. commits[c].version = version[m]
      BY <3>1 DEF Refused, Compatible, MachineFits
    <3>3. c # None
      BY <3>1 DEF Made
    <3>. QED
      BY <3>1, <3>2, <3>3 DEF CopiesSound
  <2>2. Fits(c, version[m])
    BY <2>1 DEF Sound
  <2>. DEFINE ours == commits[head[m]]
              theirs == commits[c]
  <2>3. Fits(head[m], version[m])
    BY <1>1 DEF MachineFits
  <2>4. RowsFit(live[m], version[m])'
    BY <1>1, HereFits DEF RowsFit, liveVars
  <2>5. ASSUME NEW tree, Mix(tree, ours.tree, theirs.tree)
        PROVE  tree \in Table /\ RowsFit(tree, version[m])
    BY <2>2, <2>3, <2>5 DEF Mix, Fits, CommitFitting, RowsFit, Fitting
  <2>6. CASE Forwarded(m, c)
    <3>1. /\ head'[m] = c /\ UNCHANGED <<mergeHead, index, control>>
      BY <2>6 DEF Forwarded, TypeOK
    <3>2. CommitFitting(commits', written', c, version[m])
      BY <2>1, <2>2, HereFits, FitsStays
    <3>3. RowsFit(index[m], version[m])'
      BY <1>1, <3>1, HereFits DEF RowsFit, liveVars
    <3>4. commits'[c].version = version[m]
      BY <2>1 DEF Grows
    <3>. HIDE DEF c
    <3>. QED
      BY <1>1, <1>4, <2>1, <2>4, <3>1, <3>2, <3>3, <3>4, NewMainFits DEF liveVars
  <2>7. ASSUME NEW tree, Mix(tree, ours.tree, theirs.tree), StoppedAt(m, c, tree)
        PROVE  MachineFits(m)'
    <3>1. /\ head' = head /\ mergeHead'[m] = c /\ index'[m] = tree /\ Finish(m)
      BY <2>7 DEF StoppedAt, TypeOK
    <3>2. Fitting(written', tree, version[m])
      BY <2>5, <2>7 DEF RowsFit
    <3>3. commits[c].version <= version[m]
      BY <2>1, HereFits
    <3>. HIDE DEF c
    <3>. QED
      BY <1>1, <2>1, <3>1, <3>2, <3>3, HereFits, FinishFits, SameMainFits DEF liveVars
  <2>. DEFINE base == Base(MergeBases({head[m]}, c), running[m].strategy).version
  <2>8. ASSUME NEW tree, NEW ver,
               Mix(tree, ours.tree, theirs.tree),
               Schema(base, ours.version, theirs.version, ver),
               MergedWith(m, c, tree, ver)
        PROVE  MachineFits(m)'
    <3>1. ver = version[m]
      <4>1. ours.version \in Nat /\ theirs.version = version[m] /\ version[m] \in Nat
        BY <1>1, <2>1, CommitType, VersionNat, HereFits
      <4>2. ours.version <= version[m]
        BY <1>1, <2>3 DEF Fits, CommitFitting, Graph
      <4>3. \A b \in Past(head[m]) \cap Past(c) : commits[b].version <= ours.version
        BY <1>1, <1>3 DEF Sound, Fits, CommitFitting, Past
      <4>4. theirs.version = base => theirs.version <= ours.version
        <5>1. base \in {commits[b].version : b \in Past(head[m]) \cap Past(c)} \cup {None}
          BY <1>1, <2>1, BaseVersionKnown
        <5>. HIDE DEF base
        <5>. QED
          BY <2>1, <4>1, <4>3, <5>1, CommitType, EngineAssumption
      <4>. QED
        BY <2>8, <4>1, <4>2, <4>4 DEF Schema
    <3>2. /\ head'[m] = NextId /\ Committed(tree, ver, {head[m], c})
          /\ UNCHANGED <<mergeHead, index, control>>
      BY <2>8 DEF MergedWith, TypeOK
    <3>3. /\ CommitFitting(commits', written', NextId, version[m])
          /\ commits'[NextId].version = version[m]
      <4>1. {head[m], c} \in SUBSET (Made \cup {None})
        BY <1>1, <2>1
      <4>2. \A p \in {head[m], c} \ {None} :
               \A b \in commits[p].past : commits[b].version <= version[m]
        BY <2>2, <2>3 DEF Fits, CommitFitting
      <4>3. version[m] \in Version /\ tree \in Table /\ RowsFit(tree, version[m])
        BY <2>5, <2>8 DEF TypeOK
      <4>. HIDE DEF c
      <4>. QED
        BY <3>1, <3>2, <4>1, <4>2, <4>3, HereFits, NewCommitFits
    <3>4. NextId # None
      BY NextIdNew
    <3>5. RowsFit(index[m], version[m])'
      BY <1>1, <3>2, HereFits DEF RowsFit, liveVars
    <3>. HIDE DEF c
    <3>. QED
      BY <1>1, <1>4, <2>4, <3>2, <3>3, <3>4, <3>5, NewMainFits DEF liveVars
  <2>. QED
    BY <1>6, <2>6, <2>7, <2>8 DEF Turn
<1>. QED
  BY <1>5, <1>6

-----------------------------------------------------------------------------
(* What a step does to the rows on record.                                 *)
LEMMA HistoryGrows ==
    ASSUME IInv, WrittenType, NEW m \in Machine,
           HBegin(m) \/ HContinue(m) \/ HEnvironment(m)
    PROVE  /\ WrittenType' /\ Grows
           /\ HBegin(m) \/ HContinue(m) => written' = written
<1>1. \A c \in Made : commits'[c] = commits[c]
  BY HistoryStep, EveryStep, MovedForward DEF IInv
<1>2. CASE HBegin(m) \/ HContinue(m)
  <2>1. written' = written
    BY <1>2 DEF HBegin, HContinue, HStart, HResume, HMergeRef, HPack, history
  <2>. QED
    BY <1>1, <2>1 DEF WrittenType, Grows
<1>3. CASE HEnvironment(m) /\ written' = written
  BY <1>1, <1>3 DEF WrittenType, Grows, HBegin, HContinue, HStart, HResume, HMergeRef, HPack, history
<1>4. ASSUME NEW k \in Key, NEW cell \in Cell, HWrite(m, k, cell), written' # written
      PROVE  WrittenType' /\ Grows
  <2>. DEFINE w == [row |-> cell, version |-> version[m]]
  <2>1. written' = [written EXCEPT ![k] = @ \cup {w}] /\ cell # Absent
    BY <1>4 DEF HWrite
  <2>2. w \in [row : Row, version : Version]
    BY <2>1 DEF Cell, IInv, TypeOK
  <2>. HIDE DEF w
  <2>. QED
    BY <1>1, <2>1, <2>2 DEF WrittenType, Grows
<1>5. HEnvironment(m) => written' = written \/ \E k \in Key, cell \in Cell : HWrite(m, k, cell)
  BY DEF HEnvironment, history
<1>6. HBegin(m) \/ HContinue(m) => written' = written
  BY DEF HBegin, HContinue, HStart, HResume, HMergeRef, HPack, history
<1>. QED
  BY <1>2, <1>3, <1>4, <1>5, <1>6

(* What is published is what a machine that is ready has: sound.           *)
LEMMA CopiesStaySound ==
    ASSUME IInv, WrittenType, CopiesSound, \A m \in Machine : MachineFits(m),
           Grows, CopiesFollow
    PROVE  CopiesSound'
<1>. SUFFICES ASSUME NEW o \in Machine, NEW n \in Machine,
                     NEW c \in {remote'[n], pulled'[o][n], tracking'[o][n]} \ {None}
              PROVE  CommitFitting(commits', written', c, commits'[c].version)
  BY DEF CopiesSound, Sound, Fits
<1>1. c \in Stored(n) /\ c # None
  BY DEF CopiesFollow
<1>2. Sound(c) /\ c \in Made
  <2>1. CASE pc[n] = "publish" /\ c = head[n]
    BY <1>1, <2>1 DEF MachineFits, Ready, IInv, TypeOK
  <2>2. CASE ~ (pc[n] = "publish" /\ c = head[n])
    <3>1. PICK q \in Machine : c \in {remote[n], pulled[q][n], tracking[q][n]}
      BY <1>1, <2>2 DEF Stored
    <3>. QED
      BY <1>1, <3>1 DEF CopiesSound, IInv, TypeOK
  <2>. QED
    BY <2>1, <2>2
<1>. QED
  BY <1>2, SoundStays DEF IInv

(* As long as nobody forces a command, no machine ever holds a row that a  *)
(* newer schema than its own wrote: not through a fetch, a merge left      *)
(* unfinished and resolved by hand, a crash, an upgrade in the middle of a *)
(* command, or a pack.                                                     *)
THEOREM NewerSchemasStayOut ==
    ASSUME \A cmd \in Command : ~ cmd.force
    PROVE  HSpec => []QuarantineHolds
<1>1. HInit => QInv
  <2>. SUFFICES ASSUME HInit PROVE QInv
    OBVIOUS
  <2>1. WrittenType /\ CopiesSound
    BY DEF HInit, Init, WrittenType, CopiesSound, NoRows, NothingPulled
  <2>2. \A m \in Machine : MachineFits(m)
    BY DEF HInit, Init, MachineFits, RowsFit, Fitting, NoTable, Ready, NoInvocation
  <2>. QED
    BY <2>1, <2>2 DEF QInv
<1>2. IInv /\ NothingHalfMerged /\ QInv /\ [HNext]_hvars => QInv'
  <2>. SUFFICES ASSUME IInv, NothingHalfMerged, QInv, [HNext]_hvars
                PROVE  QInv'
    OBVIOUS
  <2>. USE DEF QInv
  <2>1. CASE UNCHANGED hvars
    <3>1. Grows /\ WrittenType' /\ \A n \in Machine : Untouched(n)
      BY <2>1 DEF hvars, vars, liveVars, repoVars, transfer, control, history, Grows,
                  Untouched, WrittenType
    <3>2. CopiesFollow
      BY <2>1 DEF hvars, vars, transfer, CopiesFollow, Stored
    <3>. QED
      BY <3>1, <3>2, UntouchedFits, CopiesStaySound DEF IInv
  <2>2. CASE HNext
    <3>. PICK m \in Machine : HBegin(m) \/ HContinue(m) \/ HEnvironment(m)
      BY <2>2 DEF HNext
    <3>1. Begin(m) \/ Continue(m) \/ Environment(m)
      BY HistoryStep
    <3>2. WrittenType' /\ Grows /\ (HBegin(m) \/ HContinue(m) => written' = written)
      BY HistoryGrows
    <3>3. CopiesSound'
      BY <3>1, <3>2, EveryStep, CopiesStaySound DEF IInv
    <3>4. ASSUME NEW n \in Machine, n # m
          PROVE  MachineFits(n)'
      BY <3>1, <3>2, <3>4, OthersUntouched, UntouchedFits DEF IInv
    <3>5. MachineFits(m)'
      <4>1. CASE HBegin(m)
        <5>. PICK cmd \in Command : HStart(m, cmd) \/ StartRefused(m, cmd) \/ HResume(m, cmd)
          BY <4>1 DEF HBegin
        <5>1. CASE Start(m, cmd) \/ Resume(m, cmd)
          BY <3>2, <4>1, <5>1, StartFits, ResumeFits DEF IInv
        <5>2. CASE StartRefused(m, cmd)
          <6>1. Untouched(m)
            BY <5>2 DEF StartRefused, Untouched, liveVars, repoVars, control
          <6>. QED
            BY <3>2, <6>1, UntouchedFits DEF IInv
        <5>. QED
          BY <5>1, <5>2 DEF HStart, HResume
      <4>2. CASE HContinue(m)
        BY <3>2, <4>2, TransferFits, TurnFits, PackFits
           DEF HContinue, HMergeRef, HPack, IInv
      <4>3. CASE HEnvironment(m)
        BY <3>2, <4>3, WriteFits, QuietFits DEF HEnvironment, IInv
      <4>. QED
        BY <4>1, <4>2, <4>3
    <3>. QED
      BY <3>2, <3>3, <3>4, <3>5
  <2>. QED
    BY <2>1, <2>2
<1>3. QInv => QuarantineHolds
  BY DEF QInv, MachineFits, RowsFit, Fitting, QuarantineHolds
<1>4. HSpec => []NothingHalfMerged
  BY HistoryOnlyWatches, HalfMergedStays, PTL
<1>. QED
  BY <1>1, <1>2, <1>3, <1>4, HInvariance, PTL DEF HSpec

-----------------------------------------------------------------------------
(* What a pack overwrites.                                                 *)

(* main has recorded the live data as it is.                               *)
Kept(m) == \E c \in Past(head[m]) : commits[c].tree = live[m]

(* Every command but resume records the live data before anything else,    *)
(* and nothing changes it until the pack.                                  *)
LInv == lost = NoRows /\ \A m \in Machine : pc[m] # "idle" => Kept(m)

(* A commit that is in a machine's past stays there, as it is.             *)
LEMMA KeptStays ==
    ASSUME IInv, NEW m \in Machine, Begin(m) \/ Continue(m) \/ Environment(m),
           NEW n \in Machine, Kept(n), live'[n] = live[n]
    PROVE  Kept(n)'
<1>1. PICK c \in Past(head[n]) : commits[c].tree = live[n]
  BY DEF Kept
<1>2. head[n] \in Made /\ head[n] # None /\ c \in commits[head[n]].past
  BY <1>1 DEF IInv, TypeOK, Past
<1>3. c \in Made
  BY <1>2, CommitType DEF IInv, Graph, Made
<1>4. Moved(m)
  BY EveryStep DEF IInv
<1>5. commits'[c] = commits[c] /\ commits'[head[n]] = commits[head[n]]
  BY <1>2, <1>3, <1>4, MovedForward DEF IInv
<1>6. head'[n] # None /\ c \in commits'[head'[n]].past
  BY <1>1, <1>2, <1>4, <1>5, MovedForward DEF IInv
<1>. QED
  BY <1>1, <1>5, <1>6 DEF Kept, Past

(* What a command records at its start.                                    *)
LEMMA StartRecords ==
    ASSUME IInv, NEW m \in Machine, NEW cmd \in Command, Start(m, cmd)
    PROVE  /\ head'[m] # None
           /\ commits'[head'[m]].tree = live[m]
           /\ commits'[head'[m]].version = version[m]
           /\ Kept(m)'
<1>. DEFINE h == head[m]
            same == h # None /\ commits[h].tree = live[m] /\ commits[h].version = version[m]
            parents == {h, mergeHead[m]} \ {None}
<1>1. CommitLiveState(m) /\ live' = live
  BY DEF Start, liveVars
<1>2. head'[m] # None
  BY StartMoves DEF IInv
<1>3. CASE same
  <2>1. head' = head /\ commits' = commits
    BY <1>1, <1>3 DEF CommitLiveState
  <2>2. h \in Past(h)
    BY <1>3 DEF IInv, TypeOK, Graph, Past
  <2>. QED
    BY <1>1, <1>2, <1>3, <2>1, <2>2 DEF Kept, Past
<1>4. CASE ~ same
  <2>1. head'[m] = NextId /\ Committed(live[m], version[m], parents)
    BY <1>1, <1>4 DEF CommitLiveState, Committed, IInv, TypeOK
  <2>2. live[m] \in Table /\ version[m] \in Version /\ parents \in SUBSET (Made \cup {None})
    BY DEF IInv, TypeOK
  <2>. HIDE DEF parents
  <2>3. /\ commits'[NextId].tree = live[m] /\ commits'[NextId].version = version[m]
        /\ NextId \in commits'[NextId].past
    BY <2>1, <2>2, CommitsGrow DEF IInv
  <2>. QED
    BY <1>1, <1>2, <2>1, <2>3 DEF Kept, Past
<1>. QED
  BY <1>3, <1>4

(* If KiroCrew does not write while a command runs, and every command      *)
(* unpacks first (resume does not), then no pack overwrites a row that no  *)
(* commit of that repository holds, whatever crashes, fails, is upgraded,  *)
(* forced or left half merged.                                             *)
THEOREM NothingOverwrittenUnrecorded ==
    ASSUME "concurrent" \notin Fault, \A cmd \in Command : cmd.name # "resume"
    PROVE  HSpec => []PackLosesNothing
<1>1. HInit => LInv
  BY DEF HInit, Init, LInv
<1>2. IInv /\ LInv /\ [HNext]_hvars => LInv'
  <2>. SUFFICES ASSUME IInv, LInv, [HNext]_hvars
                PROVE  LInv'
    OBVIOUS
  <2>1. CASE UNCHANGED hvars
    BY <2>1 DEF hvars, vars, liveVars, repoVars, control, history, LInv, Kept, Past
  <2>2. CASE HNext
    <3>. PICK m \in Machine : HBegin(m) \/ HContinue(m) \/ HEnvironment(m)
      BY <2>2 DEF HNext
    <3>1. Begin(m) \/ Continue(m) \/ Environment(m)
      BY HistoryStep
    <3>2. ASSUME NEW n \in Machine, n # m, pc'[n] # "idle"
          PROVE  Kept(n)'
      <4>1. Untouched(n)
        BY <3>1, <3>2, OthersUntouched DEF IInv
      <4>. QED
        BY <3>1, <3>2, <4>1, KeptStays DEF LInv, Untouched
    <3>3. CASE HBegin(m)
      <4>. PICK cmd \in Command : HStart(m, cmd) \/ StartRefused(m, cmd) \/ HResume(m, cmd)
        BY <3>3 DEF HBegin
      <4>1. lost' = lost
        BY <3>3 DEF HBegin, HStart, HResume, history
      <4>2. CASE Start(m, cmd)
        BY <3>2, <4>1, <4>2, StartRecords DEF LInv, NoRows
      <4>3. CASE StartRefused(m, cmd)
        BY <3>2, <4>1, <4>3 DEF StartRefused, control, LInv, NoRows
      <4>. QED
        BY <4>2, <4>3 DEF HStart, HResume, Resume
    <3>4. CASE HContinue(m) /\ ~ HPack(m)
      <4>1. lost' = lost
        BY <3>4 DEF HContinue, HMergeRef, history
      <4>2. pc[m] # "idle" /\ live' = live
        BY <3>4 DEF HContinue, HMergeRef, Pull, MergeRef, EndWithoutPack, Publish, Applying,
                    liveVars
      <4>3. Kept(m)'
        BY <3>1, <4>2, KeptStays DEF LInv
      <4>. QED
        BY <3>2, <4>1, <4>3 DEF LInv, NoRows
    <3>5. CASE HPack(m)
      <4>1. /\ pc[m] # "idle" /\ UNCHANGED <<commits, head>>
            /\ live'[m] = commits[head[m]].tree /\ head[m] # None /\ head[m] \in Made
        BY <3>5 DEF HPack, Pack, Applying, repoVars, IInv, TypeOK, Headed
      <4>2. Kept(m)'
        BY <4>1 DEF Kept, Past, IInv, Graph
      <4>3. \A k \in Key : {live[m][k]} \ (Recorded(m, k) \cup {Absent}) = {}
        BY <4>1 DEF LInv, Kept, Recorded
      <4>4. lost' = [k \in Key |-> lost[k] \cup ({live[m][k]} \ (Recorded(m, k) \cup {Absent}))]
        BY <3>5 DEF HPack
      <4>5. lost' = NoRows
        BY <4>3, <4>4 DEF LInv, NoRows
      <4>. QED
        BY <3>2, <4>2, <4>5 DEF LInv, NoRows
    <3>6. CASE HEnvironment(m)
      <4>1. lost' = lost
        BY <3>6 DEF HEnvironment, HWrite, history
      <4>2. ASSUME pc'[m] # "idle"
            PROVE  Kept(m)'
        <5>1. pc' = pc
          BY <3>1, <3>6, <4>2, QuietCopies DEF HEnvironment, HWrite, IInv, TypeOK
        <5>2. live' = live
          <6>1. ASSUME NEW k \in Key, NEW cell \in Cell, HWrite(m, k, cell)
                PROVE  FALSE
            BY <4>2, <5>1, <6>1 DEF HWrite, Write, MayWrite
          <6>. QED
            BY <3>6, <6>1 DEF HEnvironment, Quiesce, Upgrade, Crash, ResolveByHand, AbortMerge,
                              liveVars
        <5>. QED
          BY <3>1, <4>2, <5>1, <5>2, KeptStays DEF LInv
      <4>. QED
        BY <3>2, <4>1, <4>2 DEF LInv, NoRows
    <3>. QED
      BY <3>3, <3>4, <3>5, <3>6
  <2>. QED
    BY <2>1, <2>2
<1>3. LInv => PackLosesNothing
  BY DEF LInv, PackLosesNothing
<1>. QED
  BY <1>1, <1>2, <1>3, HInvariance, PTL DEF HSpec

-----------------------------------------------------------------------------
(* What main says of the live data.                                        *)

(* Off the rows KiroCrew changed since, main is the live data.             *)
Matching(m) ==
    head[m] # None => \A k \in Key \ edited[m] : commits[head[m]].tree[k] = live[m][k]

(* A merge takes main ahead of the live data, so every merge must end in a *)
(* pack: no file looks busy, no merge stays open, main has the live schema *)
(* and no command is one that stops short.                                 *)
Steady(m) ==
    /\ recent[m] = FALSE /\ mergeHead[m] = None
    /\ head[m] # None => commits[head[m]].version = version[m]
    /\ pc[m] # "merge" => Matching(m)
    /\ ~ running[m].force /\ ~ running[m].dry /\ running[m].strategy # "manual"

MInv == edited \in [Machine -> SUBSET Key] /\ \A m \in Machine : Steady(m)

(* The disturbances and the commands after which main may be ahead of the  *)
(* live data on purpose are left out.                                      *)
Undisturbed ==
    /\ Fault \subseteq {"pull", "push", "overlap", "concurrent"}
    /\ \A cmd \in Command :
          /\ ~ cmd.force /\ cmd.strategy # "manual"
          /\ cmd.dry => cmd.name \in {"push", "export"}

(* Whoever does nothing stays steady.                                      *)
LEMMA UntouchedSteady ==
    ASSUME IInv, MInv, NEW n \in Machine, Untouched(n), edited'[n] = edited[n],
           \A c \in Made : commits'[c] = commits[c]
    PROVE  Steady(n)'
<1>1. head[n] \in Made \cup {None} /\ Steady(n)
  BY DEF IInv, TypeOK, MInv
<1>. QED
  BY <1>1 DEF Steady, Matching, Untouched

(* A write of KiroCrew, and whatever else happens around a machine, leaves *)
(* it steady.                                                              *)
LEMMA EnvironmentSteady ==
    ASSUME IInv, MInv, NothingHalfMerged, Undisturbed, NEW m \in Machine, HEnvironment(m),
           edited' \in [Machine -> SUBSET Key]
    PROVE  Steady(m)'
<1>1. Steady(m) /\ UNCHANGED <<commits, head>>
  BY QuietCopies DEF MInv, HEnvironment, HWrite, IInv
<1>2. ASSUME NEW k \in Key, NEW cell \in Cell, HWrite(m, k, cell)
      PROVE  Steady(m)'
  <2>1. /\ live' = [live EXCEPT ![m] = [live[m] EXCEPT ![k] = cell]]
        /\ edited' = [edited EXCEPT ![m] = @ \cup {k}]
        /\ UNCHANGED <<version, repoVars, control>>
    BY <1>2 DEF HWrite, Write
  <2>2. live'[m] = [live[m] EXCEPT ![k] = cell] /\ live[m] \in Table
        /\ edited'[m] = edited[m] \cup {k}
    BY <2>1 DEF IInv, TypeOK, MInv
  <2>3. recent'[m] = FALSE
    <3>1. "busy" \notin Fault
      BY DEF Undisturbed
    <3>2. PICK touched \in {FALSE} : recent' = [recent EXCEPT ![m] = @ \/ touched]
      BY <1>2, <3>1 DEF HWrite, Write
    <3>3. recent'[m] = (recent[m] \/ touched)
      BY <3>2 DEF IInv, TypeOK
    <3>4. recent[m] = FALSE /\ touched = FALSE
      BY <1>1 DEF Steady
    <3>. QED
      BY <3>3, <3>4
  <2>4. \A j \in Key \ edited'[m] : live'[m][j] = live[m][j] /\ j \in Key \ edited[m]
    BY <2>2 DEF Table
  <2>. QED
    BY <1>1, <2>1, <2>3, <2>4 DEF Steady, Matching, repoVars, control
<1>3. ~ Quiesce(m) /\ ~ Upgrade(m) /\ ~ Crash(m)
  BY <1>1 DEF Steady, Quiesce, Upgrade, Crash, Undisturbed
<1>4. ~ ResolveByHand(m) /\ ~ AbortMerge(m)
  BY <1>1 DEF ResolveByHand, AbortMerge, NothingHalfMerged, Steady
<1>. QED
  BY <1>2, <1>3, <1>4 DEF HEnvironment

(* The start of a command leaves its machine steady.                       *)
LEMMA BeginSteady ==
    ASSUME IInv, MInv, Undisturbed, NEW m \in Machine, HBegin(m),
           \A c \in Made : commits'[c] = commits[c]
    PROVE  Steady(m)'
<1>. PICK cmd \in Command : \/ HStart(m, cmd)
                            \/ StartRefused(m, cmd) /\ UNCHANGED history
                            \/ HResume(m, cmd)
  BY DEF HBegin
<1>1. Steady(m) /\ ~ cmd.force /\ cmd.strategy # "manual"
  BY DEF MInv, Undisturbed
<1>2. CASE HStart(m, cmd)
  <2>1. Start(m, cmd) /\ edited'[m] = {}
    BY <1>2 DEF HStart, MInv
  <2>2. UNCHANGED liveVars
    BY <2>1 DEF Start
  <2>3. /\ commits'[head'[m]].tree = live[m]
        /\ commits'[head'[m]].version = version[m]
    BY <2>1, StartRecords
  <2>4. mergeHead'[m] = None
    BY <1>1, <2>1 DEF Start, CommitLiveState, Steady, IInv, TypeOK
  <2>5. ~ running'[m].force /\ ~ running'[m].dry /\ running'[m].strategy # "manual"
    <3>1. CASE cmd.name = "export" \/ (cmd.name = "push" /\ cmd.dry)
      BY <1>1, <2>1, <3>1 DEF Start, Steady, control
    <3>2. CASE ~ (cmd.name = "export" \/ (cmd.name = "push" /\ cmd.dry))
      <4>1. running'[m] = cmd
        BY <2>1, <3>2 DEF Start, IInv, TypeOK
      <4>2. ~ cmd.dry
        BY <3>2 DEF Undisturbed
      <4>. QED
        BY <1>1, <4>1, <4>2
    <3>. QED
      BY <3>1, <3>2
  <2>. QED
    BY <1>1, <2>1, <2>2, <2>3, <2>4, <2>5 DEF Steady, Matching, liveVars
<1>3. CASE StartRefused(m, cmd) /\ UNCHANGED history
  <2>1. Untouched(m) /\ edited' = edited
    BY <1>3 DEF StartRefused, Untouched, liveVars, repoVars, control, history
  <2>. QED
    BY <2>1, UntouchedSteady
<1>4. CASE HResume(m, cmd)
  <2>1. Resume(m, cmd)
    BY <1>4 DEF HResume
  <2>2. /\ UNCHANGED <<liveVars, commits, head, mergeHead>>
        /\ running'[m] = cmd /\ pc'[m] = "merge"
    BY <1>1, <2>1 DEF Resume, Steady, IInv, TypeOK, Goto
  <2>3. ~ cmd.dry
    BY <2>1 DEF Undisturbed, Resume
  <2>. QED
    BY <1>1, <2>2, <2>3 DEF Steady, liveVars
<1>. QED
  BY <1>2, <1>3, <1>4

(* Only machines of the same schema merge, and their merges go through.    *)
LEMMA TurnSteady ==
    ASSUME IInv, MInv, Undisturbed, NEW m \in Machine, MergeRef(m),
           \A c \in Made : commits'[c] = commits[c]
    PROVE  Steady(m)'
<1>1. /\ pc[m] = "merge" /\ head[m] \in Made /\ head[m] # None /\ UNCHANGED liveVars
  BY MergeTurn DEF IInv, Headed
<1>. PICK n \in Machine : Turn(m, n, tracking[m][n])
  BY MergeTurn DEF IInv
<1>. DEFINE c == tracking[m][n]
<1>2. Steady(m) /\ commits[head[m]].version = version[m]
  BY <1>1 DEF MInv, Steady
<1>3. CASE Skipped(m)
  BY <1>1, <1>2, <1>3 DEF Skipped, Steady, liveVars, repoVars, control
<1>4. CASE ~ Skipped(m)
  <2>1. c \in Made /\ commits[c].version = version[m]
    BY <1>2, <1>4 DEF Turn, Refused, Compatible, Steady
  <2>2. CASE Forwarded(m, c)
    <3>1. head'[m] = c /\ UNCHANGED <<mergeHead, control>>
      BY <2>2 DEF Forwarded, IInv, TypeOK
    <3>. HIDE DEF c
    <3>. QED
      BY <1>1, <1>2, <2>1, <3>1 DEF Steady, liveVars, control
  <2>3. ASSUME NEW tree, NEW ver, NEW base,
               Mix(tree, commits[head[m]].tree, commits[c].tree),
               Schema(base, commits[head[m]].version, commits[c].version, ver),
               MergedWith(m, c, tree, ver)
        PROVE  Steady(m)'
    <3>1. ver = version[m] /\ version[m] \in Version /\ tree \in Table
      BY <1>2, <2>1, <2>3 DEF Schema, Mix, IInv, TypeOK
    <3>2. /\ head'[m] = NextId /\ Committed(tree, ver, {head[m], c})
          /\ UNCHANGED <<mergeHead, control>>
      BY <2>3 DEF MergedWith, IInv, TypeOK
    <3>3. {head[m], c} \in SUBSET (Made \cup {None})
      BY <1>1, <2>1
    <3>. HIDE DEF c
    <3>4. commits'[NextId].version = ver
      BY <3>1, <3>2, <3>3, CommitsGrow DEF IInv
    <3>. QED
      BY <1>1, <1>2, <3>1, <3>2, <3>4 DEF Steady, liveVars, control
  <2>. QED
    BY <1>2, <1>4, <2>1, <2>2, <2>3 DEF Turn, Steady
<1>. QED
  BY <1>3, <1>4

(* Every step of a command leaves its machine steady.                      *)
LEMMA ContinueSteady ==
    ASSUME IInv, MInv, Undisturbed, NEW m \in Machine, HContinue(m),
           \A c \in Made : commits'[c] = commits[c]
    PROVE  Steady(m)'
<1>1. Steady(m)
  BY DEF MInv
<1>2. CASE Pull(m) /\ UNCHANGED history
  <2>1. UNCHANGED <<liveVars, repoVars, running, edited>> /\ pc[m] = "pull"
    BY <1>2 DEF Pull, history
  <2>. QED
    BY <1>1, <2>1 DEF Steady, Matching, liveVars, repoVars
<1>3. CASE HMergeRef(m)
  BY <1>3, TurnSteady DEF HMergeRef
<1>4. CASE EndWithoutPack(m)
  <2>1. head[m] # None /\ "pack" \notin Fault
    BY <1>4 DEF EndWithoutPack, Applying, IInv, Headed, Undisturbed
  <2>. QED
    BY <1>1, <1>4, <2>1 DEF EndWithoutPack, Gated, Compatible, Steady
<1>5. CASE HPack(m)
  <2>1. /\ UNCHANGED <<version, repoVars, running>>
        /\ recent'[m] = FALSE
        /\ live'[m] = commits[head[m]].tree
    BY <1>5 DEF HPack, Pack, IInv, TypeOK
  <2>. QED
    BY <1>1, <2>1 DEF Steady, Matching, repoVars
<1>6. CASE Publish(m) /\ UNCHANGED history
  <2>1. /\ UNCHANGED <<liveVars, repoVars, edited>> /\ pc[m] = "publish"
        /\ running'[m] = NoInvocation
    BY <1>6 DEF Publish, Finish, history, IInv, TypeOK
  <2>. QED
    BY <1>1, <2>1 DEF Steady, Matching, liveVars, repoVars, NoInvocation
<1>. QED
  BY <1>2, <1>3, <1>4, <1>5, <1>6 DEF HContinue

(* Every step leaves every machine steady.                                 *)
LEMMA MainSteady ==
    ASSUME Undisturbed
    PROVE  HSpec => []MInv
<1>1. HInit => MInv
  BY DEF HInit, Init, MInv, Steady, Matching, NoInvocation
<1>2. IInv /\ NothingHalfMerged /\ MInv /\ [HNext]_hvars => MInv'
  <2>. SUFFICES ASSUME IInv, NothingHalfMerged, MInv, [HNext]_hvars
                PROVE  MInv'
    OBVIOUS
  <2>1. CASE UNCHANGED hvars
    BY <2>1 DEF hvars, vars, liveVars, repoVars, control, history, MInv, Steady, Matching
  <2>2. CASE HNext
    <3>. PICK m \in Machine : HBegin(m) \/ HContinue(m) \/ HEnvironment(m)
      BY <2>2 DEF HNext
    <3>1. Begin(m) \/ Continue(m) \/ Environment(m)
      BY HistoryStep
    <3>2. \A c \in Made : commits'[c] = commits[c]
      BY <3>1, EveryStep, MovedForward DEF IInv
    <3>3. /\ edited' \in [Machine -> SUBSET Key]
          /\ \A n \in Machine \ {m} : edited'[n] = edited[n]
      <4>1. \E S \in SUBSET Key : edited' = edited \/ edited' = [edited EXCEPT ![m] = S]
        <5>1. ASSUME NEW k \in Key, NEW cell \in Cell, HWrite(m, k, cell)
              PROVE  \E S \in SUBSET Key : edited' = [edited EXCEPT ![m] = S]
          <6>1. edited[m] \cup {k} \in SUBSET Key
            BY DEF MInv
          <6>. QED
            BY <5>1, <6>1 DEF HWrite
        <5>2. \/ edited' = edited \/ edited' = [edited EXCEPT ![m] = {}]
              \/ \E k \in Key, cell \in Cell : HWrite(m, k, cell)
          BY DEF HBegin, HContinue, HEnvironment, HStart, HResume, HMergeRef, HPack, history
        <5>. QED
          BY <5>1, <5>2
      <4>. QED
        BY <4>1 DEF MInv
    <3>4. ASSUME NEW n \in Machine, n # m
          PROVE  Steady(n)'
      BY <3>1, <3>2, <3>3, <3>4, OthersUntouched, UntouchedSteady DEF IInv
    <3>5. Steady(m)'
      BY <3>2, <3>3, BeginSteady, ContinueSteady, EnvironmentSteady
    <3>. QED
      BY <3>3, <3>4, <3>5 DEF MInv
  <2>. QED
    BY <2>1, <2>2
<1>3. HSpec => []NothingHalfMerged
  BY HistoryOnlyWatches, HalfMergedStays, PTL
<1>. QED
  BY <1>1, <1>2, <1>3, HInvariance, PTL DEF HSpec

(* Between commands main differs from the live data only where KiroCrew    *)
(* has written since, on any number of machines with any schemas, with     *)
(* commands that overlap, pulls and pushes that fail, and writes that come *)
(* while a command runs.                                                   *)
THEOREM MainFollowsLive ==
    ASSUME Undisturbed
    PROVE  HSpec => []MainMatchesLive
<1>1. MInv => MainMatchesLive
  BY DEF MInv, Steady, Matching, MainMatchesLive
<1>. QED
  BY <1>1, MainSteady, PTL

-----------------------------------------------------------------------------
(* What became of every row.                                               *)

(* Syncs and pushes that overlap and whose backend fails, and nothing that *)
(* lets main and the live data drift apart or decides a merge without      *)
(* looking at the rows.                                                    *)
Quiet ==
    /\ Undisturbed /\ "concurrent" \notin Fault
    /\ \A cmd \in Command : cmd.name # "resume" /\ cmd.strategy = "auto"

Automatic(m) == running[m].name # "resume" /\ running[m].strategy = "auto"

Tracked ==
    /\ WrittenType
    /\ known \in [Machine -> [Key -> SUBSET Row]]
    /\ seen \in Seq([Key -> SUBSET Row]) /\ Len(seen) = Len(commits)
    /\ replaced \in [Key -> SUBSET Row] /\ outranked \in [Key -> SUBSET Row]
    /\ \A m \in Machine : Automatic(m)

(* The steps that move rows, told by what they do to the commits and to    *)
(* the history: KiroCrew writes, a command records the live data, main is  *)
(* forwarded to a commit or merged with it, and main is packed.            *)
Storing(m, k, cell) ==
    /\ cell # Absent => cell \notin WrittenRows(k)
    /\ pc[m] = "idle"
    /\ live' = [live EXCEPT ![m] = [live[m] EXCEPT ![k] = cell]]
    /\ replaced' = [replaced EXCEPT ![k] = @ \cup known[m][k]]
    /\ IF cell = Absent
       THEN UNCHANGED <<written, known>>
       ELSE /\ written' = [written EXCEPT ![k] = @ \cup {[row |-> cell, version |-> version[m]]}]
            /\ known' = [known EXCEPT ![m] = [known[m] EXCEPT ![k] = @ \cup {cell}]]
    /\ UNCHANGED <<commits, head, pc, running, seen, outranked, crossed>>

Committing(m) ==
    /\ pc[m] = "idle" /\ pc'[m] \in {"idle", "pull"}
    /\ \/ /\ head[m] # None /\ commits[head[m]].tree = live[m]
          /\ UNCHANGED <<commits, head, seen>>
       \/ /\ Committed(live[m], version[m], {head[m]} \ {None})
          /\ head' = [head EXCEPT ![m] = NextId]
          /\ seen' = Append(seen, known[m])
    /\ UNCHANGED <<live, written, known, replaced, outranked, crossed>>

Forwarding(m, c) ==
    /\ pc[m] = "merge" /\ IsAncestor(head[m], c)
    /\ head' = [head EXCEPT ![m] = c]
    /\ UNCHANGED <<live, commits, pc, running, written, known, seen, replaced, outranked, crossed>>

MergedRow(m, c, k) ==
    MergeRow(Base(MergeBases({head[m]}, c), "auto").tree[k],
             commits[head[m]].tree[k], commits[c].tree[k], "auto")

Merging(m, c) ==
    /\ pc[m] = "merge"
    /\ \E tree \in Table, ver \in Version :
         /\ Committed(tree, ver, {head[m], c})
         /\ \A k \in Key : tree[k] = MergedRow(m, c, k)
    /\ head' = [head EXCEPT ![m] = NextId]
    /\ seen' = Append(seen, Join(head[m], c))
    /\ outranked' = [k \in Key |-> outranked[k] \cup Losers(m, k, c)]
    /\ crossed' = (crossed \/ Crossing(m, c))
    /\ UNCHANGED <<live, pc, running, written, known, replaced>>

Packing(m) ==
    /\ pc[m] = "merge" /\ pc'[m] = "publish"
    /\ live' = [live EXCEPT ![m] = commits[head[m]].tree]
    /\ known' = [known EXCEPT ![m] = seen[head[m]]]
    /\ UNCHANGED <<commits, head, running, written, seen, replaced, outranked, crossed>>

(* Every other step leaves the rows where they are.                        *)
Passing(m) ==
    /\ pc'[m] = "pull" => pc[m] = "pull"
    /\ pc'[m] = "merge" => pc[m] \in {"pull", "merge"}
    /\ pc'[m] # "merge" => pc[m] # "merge"
    /\ UNCHANGED <<live, commits, head, written, known, seen, replaced, outranked, crossed>>

Acting(m) ==
    \/ \E k \in Key, cell \in Cell : Storing(m, k, cell)
    \/ Committing(m)
    \/ \E c \in Made : Forwarding(m, c) \/ Merging(m, c)
    \/ Packing(m)
    \/ Passing(m)

(* The turns of the merge loop.                                            *)
LEMMA TurnActs ==
    ASSUME Quiet, IInv, MInv, NEW m \in Machine, Automatic(m), HMergeRef(m)
    PROVE  (Passing(m) \/ \E c \in Made : Forwarding(m, c) \/ Merging(m, c)) /\ running' = running
<1>. DEFINE n == NextRef(m)
            c == tracking[m][n]
<1>1. /\ MergeRef(m) /\ pc[m] = "merge" /\ live' = live
      /\ UNCHANGED <<written, known, replaced>>
      /\ head[m] \in Made /\ head[m] # None
  BY DEF HMergeRef, MergeRef, liveVars, IInv, TypeOK, Headed
<1>2. n \in Machine
  <2>1. todo[m] \subseteq Machine /\ todo[m] \subseteq Nat /\ todo[m] # {}
    BY <1>1, EngineAssumption DEF IInv, TypeOK, MergeRef
  <2>2. \E first \in todo[m] : \A o \in todo[m] : first <= o
    BY <2>1, LeastNumber
  <2>. QED
    BY <2>1, <2>2 DEF NextRef
<1>3. c \in Made \cup {None}
  BY <1>2 DEF IInv, TypeOK
<1>4. commits' = commits => UNCHANGED <<seen, outranked, crossed>>
  BY DEF HMergeRef
<1>5. CASE SkipKnown(m, n) \/ Quarantine(m, n) \/ SkipBlocked(m, n)
  BY <1>1, <1>4, <1>5 DEF SkipKnown, Quarantine, SkipBlocked, repoVars, control, Passing
<1>6. CASE FastForward(m, n)
  <2>1. c \in Made /\ Forwarding(m, c)
    BY <1>1, <1>3, <1>4, <1>6 DEF FastForward, Mergeable, IsAncestor, control, Forwarding
  <2>. QED
    BY <1>6, <2>1 DEF FastForward, control
<1>7. CASE TrueMerge(m, n)
  <2>. DEFINE how == running[m].strategy
              base == Base(MergeBases({head[m]}, c), how)
              ours == commits[head[m]]
              theirs == commits[c]
              tree == MergeTable(base.tree, ours.tree, theirs.tree, how)
              ver == MergedVersion(base.version, ours.version, theirs.version)
  <2>1. c \in Made /\ ~ Refused(m, c)
    BY <1>3, <1>7 DEF TrueMerge, Mergeable, IsAncestor
  <2>2. ours.version = theirs.version
    BY <1>1, <2>1 DEF MInv, Steady, Refused, Compatible
  <2>3. how = "auto"
    BY DEF Automatic
  <2>4. ours.tree \in Table /\ theirs.tree \in Table /\ ours.version \in Version /\ theirs.version \in Version
    BY <1>1, <2>1, CommitType DEF IInv
  <2>5. ~ Unresolved(base.tree, ours.tree, theirs.tree, how)
    BY <2>3 DEF Unresolved
  <2>6. ~ SchemaConflict(base.version, ours.version, theirs.version)
    BY <2>2 DEF SchemaConflict
  <2>7. /\ Committed(tree, ver, {head[m], c})
        /\ head' = [head EXCEPT ![m] = NextId]
        /\ UNCHANGED control
    BY <1>7, <2>5, <2>6 DEF TrueMerge, Committed
  <2>8. tree \in Table /\ ver \in Version
    BY <2>2, <2>4, MergeTableType DEF MergedVersion
  <2>9. \A k \in Key : tree[k] = MergedRow(m, c, k)
    <3>1. DOMAIN ours.tree = Key
      BY <2>4 DEF Table
    <3>2. tree = [k \in Key |-> MergeRow(base.tree[k], ours.tree[k], theirs.tree[k], how)]
      BY <2>5, <3>1 DEF MergeTable
    <3>. QED
      BY <2>3, <3>2 DEF MergedRow
  <2>10. commits' # commits
    <3>1. {head[m], c} \in SUBSET (Made \cup {None})
      BY <1>1, <2>1
    <3>. HIDE DEF tree, ver, c
    <3>2. Made' = Made \cup {NextId} /\ NextId \notin Made
      BY <2>7, <2>8, <3>1, CommitsGrow DEF IInv
    <3>. QED
      BY <3>2 DEF Made
  <2>11. /\ seen' = Append(seen, Join(head[m], c))
         /\ outranked' = [k \in Key |-> outranked[k] \cup Losers(m, k, c)]
         /\ crossed' = (crossed \/ Crossing(m, c))
    BY <2>10 DEF HMergeRef
  <2>. HIDE DEF tree, ver, c
  <2>12. Merging(m, c)
    BY <1>1, <2>7, <2>8, <2>9, <2>11 DEF Merging, control
  <2>. QED
    BY <2>1, <2>7, <2>12 DEF control
<1>. QED
  BY <1>1, <1>5, <1>6, <1>7 DEF MergeRef

(* Every step is of one of these kinds.                                    *)
LEMMA EveryAct ==
    ASSUME Quiet, IInv, NothingHalfMerged, MInv, NEW m \in Machine, \A n \in Machine : Automatic(n),
           known \in [Machine -> [Key -> SUBSET Row]],
           HBegin(m) \/ HContinue(m) \/ HEnvironment(m)
    PROVE  Acting(m) /\ \A n \in Machine : Automatic(n)'
<1>. SUFFICES Acting(m) /\ Automatic(m)'
  BY HistoryStep, OthersUntouched DEF IInv, Untouched, Automatic
<1>0. Steady(m) /\ Automatic(m) /\ mergeHead[m] = None /\ ~ unmerged[m]
  BY DEF MInv, Steady, NothingHalfMerged
<1>1. CASE HBegin(m)
  <2>. PICK cmd \in Command : HStart(m, cmd) \/ StartRefused(m, cmd) \/ HResume(m, cmd)
    BY <1>1 DEF HBegin
  <2>1. HStart(m, cmd) /\ Start(m, cmd) /\ CommitLiveState(m) /\ cmd.strategy = "auto" /\ cmd.name # "resume"
    BY <1>0 DEF Quiet, StartRefused, HResume, Resume, HStart, Start
  <2>2. Automatic(m)' /\ pc'[m] \in {"idle", "pull"} /\ pc[m] = "idle" /\ live' = live
    BY <1>0, <2>1 DEF Start, Automatic, control, Goto, liveVars, IInv, TypeOK
  <2>3. UNCHANGED <<written, known, replaced, outranked, crossed>>
    BY <2>1 DEF HStart
  <2>. DEFINE h == head[m]
              same == h # None /\ commits[h].tree = live[m] /\ commits[h].version = version[m]
  <2>4. CASE same
    <3>1. UNCHANGED <<commits, head>>
      BY <2>1, <2>4 DEF CommitLiveState
    <3>. QED
      BY <2>1, <2>2, <2>3, <2>4, <3>1 DEF HStart, Committing, Acting
  <2>5. CASE ~ same
    <3>1. /\ Committed(live[m], version[m], {h, mergeHead[m]} \ {None})
          /\ head' = [head EXCEPT ![m] = NextId]
      BY <2>1, <2>5 DEF CommitLiveState, Committed
    <3>2. {h, mergeHead[m]} \ {None} = {h} \ {None}
      BY <1>0
    <3>3. Committed(live[m], version[m], {h} \ {None})
      BY <3>1, <3>2
    <3>4. commits' # commits
      <4>1. {h} \ {None} \in SUBSET (Made \cup {None}) /\ live[m] \in Table /\ version[m] \in Version
        BY DEF IInv, TypeOK
      <4>2. Made' = Made \cup {NextId} /\ NextId \notin Made
        BY <3>3, <4>1, CommitsGrow DEF IInv
      <4>. QED
        BY <4>2 DEF Made
    <3>. QED
      BY <2>1, <2>2, <2>3, <3>1, <3>3, <3>4 DEF HStart, Committing, Acting
  <2>. QED
    BY <2>4, <2>5
<1>2. CASE Pull(m) /\ UNCHANGED history
  <2>1. pc[m] = "pull" /\ pc'[m] \in {"merge", "publish"} /\ UNCHANGED <<live, commits, head, running>>
    BY <1>2 DEF Pull, Goto, liveVars, repoVars, IInv, TypeOK
  <2>. QED
    BY <1>0, <1>2, <2>1 DEF Passing, Acting, history, Automatic
<1>3. CASE HMergeRef(m)
  BY <1>0, <1>3, TurnActs DEF Acting, Automatic
<1>4. CASE EndWithoutPack(m)
  <2>1. head[m] # None /\ "pack" \notin Fault
    BY <1>4 DEF EndWithoutPack, Applying, IInv, Headed, Quiet, Undisturbed
  <2>. QED
    BY <1>0, <1>4, <2>1 DEF EndWithoutPack, Gated, Compatible, Steady
<1>5. CASE HPack(m)
  <2>1. pc[m] = "merge" /\ pc'[m] = "publish" /\ UNCHANGED <<commits, head, running>>
        /\ live' = [live EXCEPT ![m] = commits[head[m]].tree]
    BY <1>0, <1>5 DEF HPack, Pack, Applying, Goto, repoVars, IInv, TypeOK, Automatic
  <2>. QED
    BY <1>0, <1>5, <2>1 DEF HPack, Packing, Acting, Automatic
<1>6. CASE Publish(m) /\ UNCHANGED history
  <2>1. /\ pc[m] = "publish" /\ pc'[m] = "idle" /\ running'[m] = NoInvocation
        /\ UNCHANGED <<live, commits, head>>
    BY <1>6 DEF Publish, Finish, Goto, liveVars, repoVars, IInv, TypeOK
  <2>. QED
    BY <1>6, <2>1 DEF Passing, Acting, history, Automatic, NoInvocation
<1>7. ASSUME NEW k \in Key, NEW cell \in Cell, HWrite(m, k, cell)
      PROVE  Acting(m) /\ Automatic(m)'
  <2>1. /\ pc[m] = "idle" /\ UNCHANGED <<commits, head, pc, running>>
        /\ live' = [live EXCEPT ![m] = [live[m] EXCEPT ![k] = cell]]
    BY <1>7 DEF HWrite, Write, MayWrite, Quiet, repoVars, control
  <2>2. IF cell = Absent
        THEN UNCHANGED <<written, known>>
        ELSE /\ written' = [written EXCEPT ![k] = @ \cup {[row |-> cell, version |-> version[m]]}]
             /\ known' = [known EXCEPT ![m] = [known[m] EXCEPT ![k] = @ \cup {cell}]]
    BY <1>7 DEF HWrite
  <2>3. Storing(m, k, cell)
    BY <1>7, <2>1, <2>2 DEF HWrite, Storing
  <2>. QED
    BY <1>0, <2>1, <2>3 DEF Acting, Automatic
<1>8. ~ Upgrade(m) /\ ~ Crash(m) /\ ~ ResolveByHand(m) /\ ~ AbortMerge(m)
  BY <1>0 DEF Upgrade, Crash, ResolveByHand, AbortMerge, Quiet, Undisturbed
<1>9. CASE Quiesce(m) /\ UNCHANGED history
  BY <1>0, <1>9 DEF Quiesce, Steady
<1>. QED
  BY <1>1, <1>2, <1>3, <1>4, <1>5, <1>6, <1>7, <1>8, <1>9 DEF HContinue, HEnvironment

-----------------------------------------------------------------------------
(* Every row is in somebody's hands until another beats it.                *)

Beaten(k) == replaced[k] \cup outranked[k]

(* A commit has seen its rows, those of its past and rows beaten since.    *)
CommitAccounts(c) ==
    \A k \in Key :
        /\ commits[c].tree[k] \in seen[c][k] \cup {Absent}
        /\ seen[c][k] \ {commits[c].tree[k]} \subseteq Beaten(k)
        /\ seen[c][k] \subseteq WrittenRows(k)
        /\ \A d \in commits[c].past : seen[d][k] \subseteq seen[c][k]

(* So has a machine.  Outside a merge it accounts for all that main does,  *)
(* and once it has recorded its live data main does for all that it does.  *)
MachineAccounts(m) ==
    \A k \in Key :
        /\ live[m][k] \in known[m][k] \cup {Absent}
        /\ known[m][k] \ {live[m][k]} \subseteq Beaten(k)
        /\ known[m][k] \subseteq WrittenRows(k)
        /\ head[m] # None /\ pc[m] # "merge" => seen[head[m]][k] \subseteq known[m][k]
        /\ pc[m] \in {"pull", "merge"} => known[m][k] \subseteq seen[head[m]][k] \cup Beaten(k)

Accounted ==
    \A k \in Key : \A row \in WrittenRows(k) \ Beaten(k) :
        \E m \in Machine : row \in known[m][k]

SInv ==
    /\ Tracked
    /\ \A c \in Made : CommitAccounts(c)
    /\ \A m \in Machine : MachineAccounts(m)
    /\ Accounted

(* What a step leaves as it was.                                           *)
Aside(m) ==
    /\ \A c \in Made : commits'[c] = commits[c] /\ seen'[c] = seen[c]
    /\ \A k \in Key : written[k] \subseteq written'[k] /\ Beaten(k) \subseteq Beaten(k)'
    /\ \A n \in Machine \ {m} :
          live'[n] = live[n] /\ head'[n] = head[n] /\ pc'[n] = pc[n] /\ known'[n] = known[n]

(* The history of a new commit is added to the others'.                    *)
LEMMA SeenGrows ==
    ASSUME TypeOK, Graph, Tracked, NEW rows \in [Key -> SUBSET Row], seen' = Append(seen, rows),
           NEW tree \in Table, NEW ver \in Version, NEW parents \in SUBSET (Made \cup {None}),
           Committed(tree, ver, parents)
    PROVE  /\ seen' \in Seq([Key -> SUBSET Row]) /\ Len(seen') = Len(commits')
           /\ \A c \in Made : seen'[c] = seen[c] /\ commits'[c] = commits[c]
           /\ seen'[NextId] = rows
<1>1. Made' = Made \cup {NextId} /\ \A c \in Made : commits'[c] = commits[c]
  BY CommitsGrow
<1>2. seen \in Seq([Key -> SUBSET Row]) /\ Len(seen) = Len(commits) /\ Len(commits) \in Nat
  BY DEF Tracked, TypeOK
<1>3. Len(commits') = Len(commits) + 1
  BY DEF Committed, TypeOK
<1>. QED
  BY <1>1, <1>2, <1>3 DEF Made, NextId

(* The rows that lose a merge are rows.                                    *)
LEMMA LosersType ==
    ASSUME TypeOK, NEW m \in Machine, head[m] \in Made, NEW c \in Made, NEW k \in Key
    PROVE  Losers(m, k, c) \subseteq Row
<1>1. commits[head[m]].tree[k] \in Cell /\ commits[c].tree[k] \in Cell
  BY CommitType DEF Table
<1>. QED
  BY <1>1 DEF Losers, Cell

(* The steps keep the types, and what they do not speak of as it was.      *)
LEMMA ActsType ==
    ASSUME IInv, Tracked, NEW m \in Machine, Begin(m) \/ Continue(m) \/ Environment(m),
           Acting(m), \A n \in Machine : Automatic(n)'
    PROVE  Tracked' /\ Aside(m)
<1>1. /\ \A c \in Made : commits'[c] = commits[c]
      /\ \A n \in Machine \ {m} : live'[n] = live[n] /\ head'[n] = head[n] /\ pc'[n] = pc[n]
  BY EveryStep, MovedForward, OthersUntouched DEF IInv, Untouched
<1>2. CASE Passing(m)
  BY <1>1, <1>2 DEF Passing, Tracked, WrittenType, Aside, Beaten
<1>3. ASSUME NEW k \in Key, NEW cell \in Cell, Storing(m, k, cell)
      PROVE  Tracked' /\ Aside(m)
  <2>1. replaced' \in [Key -> SUBSET Row] /\ \A j \in Key : replaced[j] \subseteq replaced'[j]
    <3>1. known[m][k] \in SUBSET Row
      BY DEF Tracked
    <3>. QED
      BY <1>3, <3>1 DEF Storing, Tracked
  <2>2. CASE cell = Absent
    BY <1>1, <1>3, <2>1, <2>2 DEF Storing, Tracked, WrittenType, Aside, Beaten
  <2>3. CASE cell # Absent
    <3>. DEFINE w == [row |-> cell, version |-> version[m]]
    <3>1. written' = [written EXCEPT ![k] = @ \cup {w}] /\ w \in [row : Row, version : Version]
      BY <1>3, <2>3 DEF Storing, Cell, IInv, TypeOK
    <3>. HIDE DEF w
    <3>2. WrittenType' /\ \A j \in Key : written[j] \subseteq written'[j]
      BY <3>1 DEF Tracked, WrittenType
    <3>3. [known[m] EXCEPT ![k] = @ \cup {cell}] \in [Key -> SUBSET Row]
      BY <2>3 DEF Tracked, Cell
    <3>4. known' \in [Machine -> [Key -> SUBSET Row]] /\ \A n \in Machine \ {m} : known'[n] = known[n]
      BY <1>3, <2>3, <3>3 DEF Storing, Tracked
    <3>. QED
      BY <1>1, <1>3, <2>1, <3>2, <3>4 DEF Storing, Tracked, Aside, Beaten
  <2>. QED
    BY <2>2, <2>3
<1>4. CASE Committing(m)
  <2>1. CASE UNCHANGED <<commits, seen>>
    BY <1>1, <1>4, <2>1 DEF Committing, Tracked, WrittenType, Aside, Beaten
  <2>2. CASE Committed(live[m], version[m], {head[m]} \ {None}) /\ seen' = Append(seen, known[m])
    <3>1. {head[m]} \ {None} \in SUBSET (Made \cup {None}) /\ live[m] \in Table /\ version[m] \in Version
          /\ known[m] \in [Key -> SUBSET Row]
      BY DEF IInv, TypeOK, Tracked
    <3>2. /\ seen' \in Seq([Key -> SUBSET Row]) /\ Len(seen') = Len(commits')
          /\ \A c \in Made : seen'[c] = seen[c] /\ commits'[c] = commits[c]
      BY <2>2, <3>1, SeenGrows DEF IInv
    <3>. QED
      BY <1>1, <1>4, <3>2 DEF Committing, Tracked, WrittenType, Aside, Beaten
  <2>. QED
    BY <1>4, <2>1, <2>2 DEF Committing
<1>5. ASSUME NEW c \in Made, Forwarding(m, c)
      PROVE  Tracked' /\ Aside(m)
  BY <1>1, <1>5 DEF Forwarding, Tracked, WrittenType, Aside, Beaten
<1>6. ASSUME NEW c \in Made, Merging(m, c)
      PROVE  Tracked' /\ Aside(m)
  <2>1. head[m] \in Made
    BY <1>6 DEF Merging, IInv, Headed, TypeOK
  <2>2. PICK tree \in Table, ver \in Version : Committed(tree, ver, {head[m], c})
    BY <1>6 DEF Merging
  <2>3. {head[m], c} \in SUBSET (Made \cup {None})
    BY <2>1
  <2>4. Join(head[m], c) \in [Key -> SUBSET Row]
    <3>1. seen[head[m]] \in [Key -> SUBSET Row] /\ seen[c] \in [Key -> SUBSET Row]
      BY <2>1 DEF Tracked, Made, IInv, TypeOK
    <3>. QED
      BY <3>1 DEF Join
  <2>5. /\ seen' \in Seq([Key -> SUBSET Row]) /\ Len(seen') = Len(commits')
        /\ \A d \in Made : seen'[d] = seen[d] /\ commits'[d] = commits[d]
    BY <1>6, <2>2, <2>3, <2>4, SeenGrows DEF Merging, IInv
  <2>6. \A k \in Key : outranked[k] \cup Losers(m, k, c) \in SUBSET Row
    BY <2>1, LosersType DEF IInv, Tracked
  <2>7. outranked' \in [Key -> SUBSET Row] /\ \A k \in Key : outranked[k] \subseteq outranked'[k]
    BY <1>6, <2>6 DEF Merging
  <2>. QED
    BY <1>1, <1>6, <2>5, <2>7 DEF Merging, Tracked, WrittenType, Aside, Beaten
<1>7. CASE Packing(m)
  <2>1. head[m] \in Made
    BY <1>7 DEF Packing, IInv, Headed, TypeOK
  <2>2. seen[head[m]] \in [Key -> SUBSET Row]
    BY <2>1 DEF Tracked, Made, IInv, TypeOK
  <2>3. known' \in [Machine -> [Key -> SUBSET Row]] /\ \A n \in Machine \ {m} : known'[n] = known[n]
    BY <1>7, <2>2 DEF Packing, Tracked
  <2>. QED
    BY <1>1, <1>7, <2>3 DEF Packing, Tracked, WrittenType, Aside, Beaten
<1>. QED
  BY <1>2, <1>3, <1>4, <1>5, <1>6, <1>7 DEF Acting

(* A commit made before goes on to account for its rows.                   *)
LEMMA OldCommitAccounts ==
    ASSUME IInv, NEW m \in Machine, Aside(m), NEW c \in Made, CommitAccounts(c)
    PROVE  CommitAccounts(c)'
<1>1. \A d \in commits[c].past : d \in Made
  BY CommitType DEF IInv, Graph, Made
<1>2. \A k \in Key : WrittenRows(k) \subseteq WrittenRows(k)'
  BY DEF Aside, WrittenRows
<1>. QED
  BY <1>1, <1>2 DEF Aside, CommitAccounts

(* So does a machine that did nothing.                                     *)
LEMMA IdlerAccounts ==
    ASSUME IInv, NEW m \in Machine, Aside(m), NEW n \in Machine \ {m}, MachineAccounts(n)
    PROVE  MachineAccounts(n)'
<1>1. head[n] \in Made \cup {None} /\ (pc[n] # "idle" => head[n] # None)
  BY DEF IInv, TypeOK, Headed
<1>2. \A k \in Key : WrittenRows(k) \subseteq WrittenRows(k)'
  BY DEF Aside, WrittenRows
<1>3. seen'[head[n]] = seen[head[n]] \/ (head[n] = None /\ pc[n] = "idle")
  BY <1>1 DEF Aside
<1>. QED
  BY <1>1, <1>2, <1>3 DEF Aside, MachineAccounts

(* A machine whose rows and main stay, and that is not on its way into or  *)
(* out of a merge.                                                         *)
LEMMA PassingAccounts ==
    ASSUME NEW m \in Machine, Passing(m), MachineAccounts(m)
    PROVE  MachineAccounts(m)'
BY DEF Passing, MachineAccounts, WrittenRows, Beaten

(* A row that is stored is written under its key, and nothing else is.     *)
LEMMA StoringWrites ==
    ASSUME Tracked, NEW m \in Machine, NEW k \in Key, NEW cell \in Cell, Storing(m, k, cell)
    PROVE  \A j \in Key : WrittenRows(j)' =
               WrittenRows(j) \cup (IF j = k THEN {cell} \ {Absent} ELSE {})
<1>1. CASE cell = Absent
  BY <1>1 DEF Storing, WrittenRows
<1>2. CASE cell # Absent
  <2>. DEFINE w == [row |-> cell, version |-> version[m]]
  <2>1. written' = [written EXCEPT ![k] = @ \cup {w}] /\ w.row = cell
    BY <1>2 DEF Storing
  <2>. HIDE DEF w
  <2>2. \A j \in Key : written'[j] = written[j] \cup (IF j = k THEN {w} ELSE {})
    BY <2>1 DEF Tracked, WrittenType
  <2>. QED
    BY <1>2, <2>1, <2>2 DEF WrittenRows
<1>. QED
  BY <1>1, <1>2

(* A row that is stored beats everything the machine accounted for.        *)
LEMMA StoringAccounts ==
    ASSUME IInv, SInv, NEW m \in Machine, NEW k \in Key, NEW cell \in Cell, Storing(m, k, cell),
           Aside(m)
    PROVE  MachineAccounts(m)' /\ Accounted'
<1>1. MachineAccounts(m) /\ Tracked
  BY DEF SInv
<1>2. /\ live'[m][k] = cell /\ \A j \in Key \ {k} : live'[m][j] = live[m][j]
      /\ \A j \in Key : live'[m][j] \in Cell
  <2>1. live[m] \in Table /\ live'[m] = [live[m] EXCEPT ![k] = cell]
    BY DEF Storing, IInv, TypeOK
  <2>. QED
    BY <2>1 DEF Table
<1>3. \A j \in Key : known'[m][j] = known[m][j] \cup (IF j = k THEN {cell} \ {Absent} ELSE {})
  <2>1. CASE cell = Absent
    BY <2>1 DEF Storing
  <2>2. CASE cell # Absent
    <3>1. known'[m] = [known[m] EXCEPT ![k] = @ \cup {cell}] /\ known[m] \in [Key -> SUBSET Row]
      BY <1>1, <2>2 DEF Storing, Tracked
    <3>. QED
      BY <2>2, <3>1
  <2>. QED
    BY <2>1, <2>2
<1>4. \A j \in Key : WrittenRows(j)' = WrittenRows(j) \cup (IF j = k THEN {cell} \ {Absent} ELSE {})
  BY <1>1, StoringWrites
<1>5. known[m][k] \subseteq replaced'[k]
  BY <1>1 DEF Storing, Tracked
<1>6. MachineAccounts(m)'
  <2>. SUFFICES ASSUME NEW j \in Key
                PROVE  /\ live'[m][j] \in known'[m][j] \cup {Absent}
                       /\ known'[m][j] \ {live'[m][j]} \subseteq Beaten(j)'
                       /\ known'[m][j] \subseteq WrittenRows(j)'
                       /\ head'[m] # None => seen'[head'[m]][j] \subseteq known'[m][j]
                       /\ pc'[m] \notin {"pull", "merge"}
    BY DEF MachineAccounts
  <2>1. live'[m][j] \in known'[m][j] \cup {Absent}
    BY <1>1, <1>2, <1>3 DEF MachineAccounts
  <2>2. known'[m][j] \ {live'[m][j]} \subseteq Beaten(j)'
    <3>1. CASE j = k
      BY <1>2, <1>3, <1>5, <3>1 DEF Beaten
    <3>2. CASE j # k
      BY <1>1, <1>2, <1>3, <3>2 DEF MachineAccounts, Aside
    <3>. QED
      BY <3>1, <3>2
  <2>3. known'[m][j] \subseteq WrittenRows(j)'
    BY <1>1, <1>3, <1>4 DEF MachineAccounts
  <2>4. pc'[m] = "idle" /\ pc[m] = "idle" /\ head' = head /\ seen' = seen
    BY DEF Storing
  <2>5. head'[m] # None => seen'[head'[m]][j] \subseteq known'[m][j]
    BY <1>1, <1>3, <2>4 DEF MachineAccounts
  <2>. QED
    BY <2>1, <2>2, <2>3, <2>4, <2>5
<1>7. Accounted'
  <2>. SUFFICES ASSUME NEW j \in Key, NEW row \in WrittenRows(j)', row \notin Beaten(j)'
                PROVE  \E n \in Machine : row \in known'[n][j]
    BY DEF Accounted
  <2>1. row \notin Beaten(j)
    BY DEF Aside
  <2>2. CASE row \in WrittenRows(j)
    <3>1. PICK n \in Machine : row \in known[n][j]
      BY <2>1, <2>2 DEF SInv, Accounted
    <3>. QED
      BY <1>3, <3>1 DEF Aside
  <2>3. CASE row \notin WrittenRows(j)
    BY <1>3, <1>4, <2>3
  <2>. QED
    BY <2>2, <2>3
<1>. QED
  BY <1>6, <1>7

(* A command that starts makes main account for what the machine does.     *)
LEMMA CommittingAccounts ==
    ASSUME IInv, SInv, NEW m \in Machine, Committing(m), Aside(m)
    PROVE  /\ MachineAccounts(m)'
           /\ \A c \in Made' \ Made : CommitAccounts(c)'
<1>1. MachineAccounts(m) /\ Tracked /\ head[m] \in Made \cup {None}
  BY DEF SInv, IInv, TypeOK
<1>2. UNCHANGED <<live, known>> /\ \A k \in Key : WrittenRows(k)' = WrittenRows(k) /\ Beaten(k)' = Beaten(k)
  BY DEF Committing, WrittenRows, Beaten
<1>3. pc[m] = "idle" /\ pc'[m] \in {"idle", "pull"}
  BY DEF Committing
<1>4. CASE head[m] # None /\ commits[head[m]].tree = live[m] /\ UNCHANGED <<commits, head, seen>>
  <2>1. CommitAccounts(head[m]) /\ Made' = Made
    BY <1>1, <1>4 DEF SInv, Made
  <2>2. \A k \in Key : known[m][k] \subseteq seen[head[m]][k] \cup Beaten(k)
    <3>1. \A k \in Key : known[m][k] \subseteq Row /\ Absent \notin Row
      BY <1>1, RowAssumption DEF Tracked
    <3>. QED
      BY <1>1, <1>4, <2>1, <3>1 DEF MachineAccounts, CommitAccounts
  <2>. QED
    BY <1>1, <1>2, <1>3, <1>4, <2>1, <2>2 DEF MachineAccounts
<1>5. CASE /\ Committed(live[m], version[m], {head[m]} \ {None})
           /\ head' = [head EXCEPT ![m] = NextId]
           /\ seen' = Append(seen, known[m])
  <2>. DEFINE parents == {head[m]} \ {None}
  <2>1. live[m] \in Table /\ version[m] \in Version /\ known[m] \in [Key -> SUBSET Row]
        /\ parents \in SUBSET (Made \cup {None})
    BY <1>1 DEF IInv, TypeOK, Tracked
  <2>. HIDE DEF parents
  <2>2. /\ Made' = Made \cup {NextId}
        /\ commits'[NextId].tree = live[m]
        /\ commits'[NextId].past = (UNION {Past(p) : p \in parents}) \cup {NextId}
        /\ seen'[NextId] = known[m]
    BY <1>5, <2>1, CommitsGrow, SeenGrows DEF IInv, SInv, parents
  <2>3. head'[m] = NextId
    BY <1>5 DEF IInv, TypeOK
  <2>4. \A k \in Key : \A d \in commits'[NextId].past : seen'[d][k] \subseteq known[m][k]
    <3>. SUFFICES ASSUME NEW k \in Key, NEW d \in commits'[NextId].past, d # NextId
                  PROVE  seen'[d][k] \subseteq known[m][k]
      BY <2>2
    <3>1. head[m] \in Made /\ head[m] # None /\ d \in commits[head[m]].past
      BY <1>1, <2>2 DEF parents, Past
    <3>2. d \in Made
      BY <3>1, CommitType DEF IInv, Graph, Made
    <3>3. seen[d][k] \subseteq seen[head[m]][k]
      BY <3>1 DEF SInv, CommitAccounts
    <3>4. seen[head[m]][k] \subseteq known[m][k]
      BY <1>1, <1>3, <3>1 DEF MachineAccounts
    <3>. QED
      BY <3>2, <3>3, <3>4 DEF Aside
  <2>5. ASSUME NEW c \in Made' \ Made
        PROVE  CommitAccounts(c)'
    <3>1. c = NextId
      BY <2>2
    <3>2. commits'[c].tree = live[m] /\ seen'[c] = known[m]
      BY <2>2, <3>1
    <3>3. \A k \in Key : \A d \in commits'[c].past : seen'[d][k] \subseteq seen'[c][k]
      BY <2>4, <3>1, <3>2
    <3>. QED
      BY <1>1, <1>2, <3>2, <3>3 DEF CommitAccounts, MachineAccounts
  <2>6. MachineAccounts(m)'
    BY <1>1, <1>2, <1>3, <2>2, <2>3 DEF MachineAccounts
  <2>. QED
    BY <2>2, <2>5, <2>6
<1>. QED
  BY <1>4, <1>5 DEF Committing

(* A side's row that a merge drops was seen and beaten on the other side,  *)
(* or gives way to a row that wins against it.                             *)
LEMMA MergeBeats ==
    ASSUME IInv, SInv, NEW m \in Machine, head[m] \in Made, NEW c \in Made, Merging(m, c),
           NEW k \in Key,
           NEW row \in seen[head[m]][k] \cup seen[c][k], row # MergedRow(m, c, k)
    PROVE  row \in Beaten(k) \cup Losers(m, k, c)
<1>. DEFINE ours == commits[head[m]].tree[k]
            theirs == commits[c].tree[k]
            bases == MergeBases({head[m]}, c)
            base == Base(bases, "auto").tree[k]
            merged == MergedRow(m, c, k)
<1>1. /\ ours \in seen[head[m]][k] \cup {Absent} /\ theirs \in seen[c][k] \cup {Absent}
      /\ seen[head[m]][k] \ {ours} \subseteq Beaten(k) /\ seen[c][k] \ {theirs} \subseteq Beaten(k)
  BY DEF SInv, CommitAccounts
<1>2. row # Absent
  <2>1. seen[head[m]] \in [Key -> SUBSET Row] /\ seen[c] \in [Key -> SUBSET Row]
    BY DEF SInv, Tracked, Made, IInv, TypeOK
  <2>. QED
    BY <2>1, RowAssumption
<1>3. /\ base = Absent \/ base \in seen[head[m]][k] \cap seen[c][k]
      /\ bases \subseteq Past(head[m]) \cap Past(c)
  <2>1. bases \subseteq Past(head[m]) \cap Past(c)
    BY DEF MergeBases
  <2>2. \A b \in bases : b \in commits[head[m]].past /\ b \in commits[c].past /\ b \in Made
    BY <2>1 DEF Past, IInv, Graph, Made, TypeOK
  <2>3. bases \in SUBSET Made
    BY <2>2
  <2>. HIDE DEF bases
  <2>4. base \in {commits[b].tree[k] : b \in bases} \cup {Absent}
    BY <2>3, BaseTreeRows DEF IInv
  <2>5. \A b \in bases : /\ commits[b].tree[k] \in seen[b][k] \cup {Absent}
                         /\ seen[b][k] \subseteq seen[head[m]][k] \cap seen[c][k]
    BY <2>2 DEF SInv, CommitAccounts
  <2>. QED
    BY <2>1, <2>4, <2>5
<1>4. merged = MergeRow(base, ours, theirs, "auto")
  BY DEF MergedRow
<1>5. commits'[NextId].tree[k] = merged
  <2>1. PICK tree \in Table, ver \in Version :
           Committed(tree, ver, {head[m], c}) /\ \A j \in Key : tree[j] = MergedRow(m, c, j)
    BY DEF Merging
  <2>2. {head[m], c} \in SUBSET (Made \cup {None})
    OBVIOUS
  <2>3. commits'[NextId].tree = tree
    BY <2>1, <2>2, CommitsGrow DEF IInv
  <2>. QED
    BY <2>1, <2>3
<1>6. Losers(m, k, c) = IF Absent \notin {ours, theirs} /\ merged = Winner(ours, theirs)
                        THEN {ours, theirs} \ {merged} ELSE {}
  BY <1>5 DEF Losers
<1>. HIDE DEF base, ours, theirs, merged
<1>7. row \in {ours, theirs} \/ row \in Beaten(k)
  BY <1>1
<1>8. CASE ~ Contested(base, ours, theirs)
  <2>1. merged = IF base = ours THEN theirs ELSE ours
    BY <1>4, <1>8 DEF MergeRow
  <2>2. row \in Beaten(k) \/ row = base
    BY <1>7, <1>8, <2>1 DEF Contested, merged
  <2>3. row = base => row \in seen[head[m]][k] /\ row \in seen[c][k]
    BY <1>2, <1>3
  <2>4. row # ours \/ row # theirs
    BY <2>1 DEF merged
  <2>. QED
    BY <1>1, <2>2, <2>3, <2>4
<1>9. CASE Contested(base, ours, theirs)
  <2>1. merged = AutoRow(ours, theirs)
    BY <1>4, <1>9 DEF MergeRow
  <2>2. CASE Absent \in {ours, theirs}
    <3>1. row \in {ours, theirs} => row = merged
      BY <1>2, <2>1, <2>2 DEF AutoRow
    <3>. QED
      BY <1>7, <3>1 DEF merged
  <2>3. CASE Absent \notin {ours, theirs}
    <3>1. merged = Winner(ours, theirs)
      BY <2>1, <2>3 DEF AutoRow
    <3>. QED
      BY <1>6, <1>7, <2>3, <3>1 DEF merged
  <2>. QED
    BY <2>2, <2>3
<1>. QED
  BY <1>8, <1>9

(* So a merge accounts for all that both sides did.                        *)
LEMMA MergingAccounts ==
    ASSUME IInv, SInv, NEW m \in Machine, NEW c \in Made, Merging(m, c), Aside(m)
    PROVE  /\ MachineAccounts(m)'
           /\ \A d \in Made' \ Made : CommitAccounts(d)'
<1>1. head[m] \in Made /\ pc[m] = "merge" /\ pc' = pc
  BY DEF Merging, IInv, Headed, TypeOK
<1>2. PICK tree \in Table, ver \in Version :
         Committed(tree, ver, {head[m], c}) /\ \A k \in Key : tree[k] = MergedRow(m, c, k)
  BY DEF Merging
<1>3. {head[m], c} \in SUBSET (Made \cup {None})
  BY <1>1
<1>4. Join(head[m], c) \in [Key -> SUBSET Row]
  <2>1. seen[head[m]] \in [Key -> SUBSET Row] /\ seen[c] \in [Key -> SUBSET Row]
    BY <1>1 DEF SInv, Tracked, Made, IInv, TypeOK
  <2>. QED
    BY <2>1 DEF Join
<1>5. /\ Made' = Made \cup {NextId}
      /\ commits'[NextId].tree = tree
      /\ commits'[NextId].past = (UNION {Past(p) : p \in {head[m], c}}) \cup {NextId}
      /\ seen'[NextId] = Join(head[m], c)
  BY <1>2, <1>3, <1>4, CommitsGrow, SeenGrows DEF IInv, SInv, Merging
<1>6. /\ head'[m] = NextId
      /\ \A k \in Key : WrittenRows(k)' = WrittenRows(k)
      /\ \A k \in Key : Beaten(k)' = Beaten(k) \cup Losers(m, k, c)
  BY DEF Merging, IInv, TypeOK, WrittenRows, Beaten
<1>7. ASSUME NEW k \in Key
      PROVE  /\ tree[k] \in Join(head[m], c)[k] \cup {Absent}
             /\ Join(head[m], c)[k] \ {tree[k]} \subseteq Beaten(k)'
             /\ Join(head[m], c)[k] \subseteq WrittenRows(k)
  <2>1. Join(head[m], c)[k] = seen[head[m]][k] \cup seen[c][k]
    BY DEF Join
  <2>2. tree[k] \in {commits[head[m]].tree[k], commits[c].tree[k]}
    BY <1>2 DEF MergedRow, MergeRow, AutoRow, Winner, Newer, Tiebreak
  <2>3. Join(head[m], c)[k] \ {tree[k]} \subseteq Beaten(k)'
    BY <1>1, <1>2, <1>6, <2>1, MergeBeats
  <2>. QED
    BY <1>1, <2>1, <2>2, <2>3 DEF SInv, CommitAccounts
<1>8. ASSUME NEW k \in Key, NEW d \in commits'[NextId].past
      PROVE  seen'[d][k] \subseteq Join(head[m], c)[k]
  <2>1. CASE d = NextId
    BY <1>5, <2>1
  <2>2. CASE d # NextId
    <3>1. PICK p \in {head[m], c} : d \in Past(p)
      BY <1>5, <2>2
    <3>2. p \in Made /\ d \in commits[p].past
      BY <1>1, <3>1 DEF Past
    <3>3. d \in Made
      BY <3>2, CommitType DEF IInv, Graph, Made
    <3>4. seen[d][k] \subseteq seen[p][k]
      BY <3>2 DEF SInv, CommitAccounts
    <3>. QED
      BY <3>1, <3>3, <3>4 DEF Aside, Join
  <2>. QED
    BY <2>1, <2>2
<1>9. ASSUME NEW d \in Made' \ Made
      PROVE  CommitAccounts(d)'
  <2>1. d = NextId
    BY <1>5
  <2>2. commits'[d].tree = tree /\ seen'[d] = Join(head[m], c)
    BY <1>5, <2>1
  <2>3. \A k \in Key : \A e \in commits'[d].past : seen'[e][k] \subseteq seen'[d][k]
    BY <1>8, <2>1, <2>2
  <2>. QED
    BY <1>6, <1>7, <2>2, <2>3 DEF CommitAccounts
<1>10. MachineAccounts(m)'
  <2>1. MachineAccounts(m) /\ live' = live /\ known' = known
    BY DEF SInv, Merging
  <2>2. \A k \in Key : seen[head[m]][k] \subseteq seen'[head'[m]][k]
    BY <1>5, <1>6 DEF Join
  <2>3. \A k \in Key : Beaten(k) \subseteq Beaten(k)'
    BY DEF Aside
  <2>. QED
    BY <1>1, <1>6, <2>1, <2>2, <2>3 DEF MachineAccounts
<1>. QED
  BY <1>9, <1>10

(* Main forwarded to a commit that has seen all it had.                    *)
LEMMA ForwardingAccounts ==
    ASSUME IInv, SInv, NEW m \in Machine, NEW c \in Made, Forwarding(m, c)
    PROVE  MachineAccounts(m)'
<1>1. head[m] \in Made /\ head[m] # None /\ head'[m] = c /\ pc[m] = "merge" /\ c # None
  BY DEF Forwarding, IInv, Headed, TypeOK, Made
<1>2. head[m] \in commits[c].past
  BY <1>1 DEF Forwarding, IsAncestor, Past
<1>3. \A k \in Key : seen[head[m]][k] \subseteq seen[c][k]
  BY <1>2 DEF SInv, CommitAccounts
<1>. QED
  BY <1>1, <1>3 DEF SInv, Forwarding, MachineAccounts, WrittenRows, Beaten

(* A pack drops only rows that main has seen beaten.                       *)
LEMMA PackingAccounts ==
    ASSUME IInv, SInv, NEW m \in Machine, Packing(m), Aside(m)
    PROVE  MachineAccounts(m)' /\ Accounted'
<1>1. head[m] \in Made /\ pc[m] = "merge" /\ pc'[m] = "publish" /\ UNCHANGED <<head, seen>>
  BY DEF Packing, IInv, Headed, TypeOK
<1>2. live'[m] = commits[head[m]].tree /\ known'[m] = seen[head[m]]
  BY DEF Packing, IInv, TypeOK, SInv, Tracked
<1>3. \A k \in Key : WrittenRows(k)' = WrittenRows(k) /\ Beaten(k)' = Beaten(k)
  BY DEF Packing, WrittenRows, Beaten
<1>4. CommitAccounts(head[m]) /\ MachineAccounts(m)
  BY <1>1 DEF SInv
<1>5. MachineAccounts(m)'
  BY <1>1, <1>2, <1>3, <1>4 DEF CommitAccounts, MachineAccounts
<1>6. Accounted'
  <2>. SUFFICES ASSUME NEW k \in Key, NEW row \in WrittenRows(k) \ Beaten(k)
                PROVE  \E n \in Machine : row \in known'[n][k]
    BY <1>3 DEF Accounted
  <2>1. PICK n \in Machine : row \in known[n][k]
    BY DEF SInv, Accounted
  <2>2. n = m => row \in known'[m][k]
    BY <1>1, <1>2, <1>4, <2>1 DEF MachineAccounts
  <2>. QED
    BY <2>1, <2>2 DEF Aside
<1>. QED
  BY <1>5, <1>6

(* Nothing written yet: nothing to account for.                            *)
LEMMA InitAccounts == HInit => SInv
<1>. SUFFICES ASSUME HInit PROVE SInv
  OBVIOUS
<1>1. WrittenType /\ \A m \in Machine : Automatic(m)
  BY DEF HInit, Init, WrittenType, NoRows, Automatic, NoInvocation
<1>2. NoRows \in [Key -> SUBSET Row]
  BY DEF NoRows
<1>3. known \in [Machine -> [Key -> SUBSET Row]]
  BY <1>2 DEF HInit
<1>4. commits = <<>> /\ seen = <<>> /\ Len(commits) = 0 /\ Len(seen) = 0
  BY DEF HInit, Init
<1>5. seen \in Seq([Key -> SUBSET Row]) /\ Made = {}
  BY <1>4 DEF Made
<1>6. Tracked
  BY <1>1, <1>2, <1>3, <1>4, <1>5 DEF HInit, Tracked
<1>7. \A k \in Key : WrittenRows(k) = {}
  BY DEF HInit, NoRows, WrittenRows
<1>8. \A m \in Machine : MachineAccounts(m)
  BY <1>7 DEF HInit, Init, NoTable, NoRows, MachineAccounts
<1>. QED
  BY <1>5, <1>6, <1>7, <1>8 DEF SInv, Accounted

(* Every step accounts for the rows.                                       *)
LEMMA StepAccounts ==
    ASSUME Quiet, IInv, NothingHalfMerged, MInv, SInv, [HNext]_hvars
    PROVE  SInv'
<1>1. CASE UNCHANGED hvars
  <2>1. UNCHANGED <<live, commits, head, pc, running, written, known, seen, replaced, outranked>>
    BY <1>1 DEF hvars, vars, liveVars, repoVars, control, history
  <2>. QED
    BY <2>1 DEF SInv, Tracked, WrittenType, Automatic, CommitAccounts, MachineAccounts, Accounted,
                Beaten, WrittenRows, Made
<1>2. CASE HNext
  <2>. PICK m \in Machine : HBegin(m) \/ HContinue(m) \/ HEnvironment(m)
    BY <1>2 DEF HNext
  <2>1. Acting(m) /\ (Begin(m) \/ Continue(m) \/ Environment(m)) /\ \A n \in Machine : Automatic(n)'
    BY EveryAct, HistoryStep DEF SInv, Tracked
  <2>2. Tracked' /\ Aside(m)
    BY <2>1, ActsType DEF SInv
  <2>3. \A c \in Made : CommitAccounts(c)'
    BY <2>2, OldCommitAccounts DEF SInv
  <2>4. \A n \in Machine \ {m} : MachineAccounts(n)'
    BY <2>2, IdlerAccounts DEF SInv
  <2>5. UNCHANGED <<written, known>> => Accounted'
    BY <2>2 DEF SInv, Accounted, Aside, WrittenRows
  <2>6. commits' = commits => Made' = Made
    BY DEF Made
  <2>7. ASSUME NEW k \in Key, NEW cell \in Cell, Storing(m, k, cell)
        PROVE  SInv'
    <3>1. MachineAccounts(m)' /\ Accounted'
      BY <2>2, <2>7, StoringAccounts
    <3>. QED
      BY <2>2, <2>3, <2>4, <2>6, <2>7, <3>1 DEF SInv, Storing
  <2>8. CASE Committing(m)
    <3>1. MachineAccounts(m)' /\ \A c \in Made' \ Made : CommitAccounts(c)'
      BY <2>2, <2>8, CommittingAccounts
    <3>. QED
      BY <2>2, <2>3, <2>4, <2>5, <2>8, <3>1 DEF SInv, Committing
  <2>9. ASSUME NEW c \in Made, Forwarding(m, c)
        PROVE  SInv'
    <3>1. MachineAccounts(m)'
      BY <2>9, ForwardingAccounts
    <3>. QED
      BY <2>2, <2>3, <2>4, <2>5, <2>6, <2>9, <3>1 DEF SInv, Forwarding
  <2>10. ASSUME NEW c \in Made, Merging(m, c)
         PROVE  SInv'
    <3>1. MachineAccounts(m)' /\ \A d \in Made' \ Made : CommitAccounts(d)'
      BY <2>2, <2>10, MergingAccounts
    <3>. QED
      BY <2>2, <2>3, <2>4, <2>5, <2>10, <3>1 DEF SInv, Merging
  <2>11. CASE Packing(m)
    <3>1. MachineAccounts(m)' /\ Accounted'
      BY <2>2, <2>11, PackingAccounts
    <3>. QED
      BY <2>2, <2>3, <2>4, <2>6, <2>11, <3>1 DEF SInv, Packing
  <2>12. CASE Passing(m)
    <3>1. MachineAccounts(m)'
      BY <2>12, PassingAccounts DEF SInv
    <3>. QED
      BY <2>2, <2>3, <2>4, <2>5, <2>6, <2>12, <3>1 DEF SInv, Passing
  <2>. QED
    BY <2>1, <2>7, <2>8, <2>9, <2>10, <2>11, <2>12 DEF Acting
<1>. QED
  BY <1>1, <1>2

(* The engine's invariants, those of a steady main and this one together.  *)
LEMMA RowsAccounted ==
    ASSUME Quiet
    PROVE  HSpec => [](IInv /\ NothingHalfMerged /\ MInv /\ SInv)
<1>1. HSpec => []MInv
  BY MainSteady DEF Quiet
<1>2. HSpec => []NothingHalfMerged
  BY HistoryOnlyWatches, HalfMergedStays, PTL
<1>3. IInv /\ NothingHalfMerged /\ MInv /\ SInv /\ [HNext]_hvars => SInv'
  BY StepAccounts
<1>. QED
  BY <1>1, <1>2, <1>3, InitAccounts, HInvariance, PTL DEF HSpec

(* No edit is lost on the way: on any number of machines, with commands    *)
(* that overlap, pulls and pushes that fail and merges that cross, every   *)
(* row KiroCrew wrote is in the live data of some machine until a user     *)
(* replaces or deletes it or an edit that outranks it wins a merge.        *)
THEOREM NoEditVanishes ==
    ASSUME Quiet
    PROVE  HSpec => []EditsSurvive
<1>1. SInv => EditsSurvive
  <2>. SUFFICES ASSUME SInv, NEW k \in Key, NEW row \in WrittenRows(k) \ (replaced[k] \cup outranked[k])
                PROVE  \E m \in Machine : live[m][k] = row
    BY DEF EditsSurvive
  <2>1. PICK m \in Machine : row \in known[m][k]
    BY DEF SInv, Accounted, Beaten
  <2>. QED
    BY <2>1 DEF SInv, MachineAccounts, Beaten
<1>. QED
  BY <1>1, RowsAccounted, PTL

-----------------------------------------------------------------------------
(* The engine implements Replicas.                                         *)

(* What Replicas sees of the rows written and of those that gave way.      *)
RowsBy == [k \in Key |-> WrittenRows(k)]
Gone == [k \in Key |-> Beaten(k)]

(* Its variables, told with those names.                                   *)
LEMMA PromiseVars ==
    /\ Promise!vars = <<live, RowsBy, Gone>>
    /\ (Promise!vars)' = <<live', RowsBy', Gone'>>
BY DEF Promise!vars, RowsBy, Gone, Beaten

(* Which of two rows wins does not depend on whose is local.               *)
LEMMA WinnerEitherWay ==
    ASSUME NEW r \in Row, NEW q \in Row
    PROVE  Winner(r, q) \in {r, q} /\ Winner(r, q) = Winner(q, r)
<1>. DEFINE o == r.at
            t == q.at
            Timely == o \in Parsed /\ t \in Parsed /\ Instant[o] # Instant[t]
<1>1. Tiebreak(r, q) = Tiebreak(q, r)
  <2>1. RowRank[r] \in Nat /\ RowRank[q] \in Nat /\ (RowRank[r] = RowRank[q] => r = q)
    BY RowAssumption
  <2>. QED
    BY <2>1 DEF Tiebreak
<1>2. CASE Timely
  <2>1. Instant[o] \in Nat /\ Instant[t] \in Nat
    BY <1>2, StampAssumption
  <2>. QED
    BY <1>1, <1>2, <2>1 DEF Winner, Newer, Tiebreak
<1>3. CASE ~ Timely
  <2>1. o \in Stamp /\ t \in Stamp
    BY DEF Row
  <2>2. TextRank[o] \in Nat /\ TextRank[t] \in Nat /\ (TextRank[o] = TextRank[t] => o = t)
    BY <2>1, StampAssumption
  <2>. QED
    BY <1>1, <1>3, <2>2 DEF Winner, Newer, Tiebreak
<1>. QED
  BY <1>2, <1>3

(* Nothing is written and nothing has given way at first.                  *)
LEMMA PromiseInit == HInit => Promise!Init
BY DEF HInit, Init, NoTable, NoRows, WrittenRows, Promise!Init, Promise!NoRows

(* KiroCrew's write is a user's: beyond what was beaten already, what the  *)
(* machine accounted for is the row it had.                                *)
LEMMA StoringKeepsPromise ==
    ASSUME IInv, SInv, NEW m \in Machine, NEW k \in Key, NEW cell \in Cell, Storing(m, k, cell)
    PROVE  Promise!Store(m, k, cell)
<1>1. Tracked /\ MachineAccounts(m)
  BY DEF SInv
<1>2. cell \notin WrittenRows(k)
  BY <1>1, RowAssumption DEF Storing, Tracked, WrittenType, WrittenRows
<1>3. live' = [live EXCEPT ![m][k] = cell]
  BY DEF Storing
<1>4. \A j \in Key : WrittenRows(j)' =
          WrittenRows(j) \cup (IF j = k THEN {cell} \ {Absent} ELSE {})
  BY <1>1, StoringWrites
<1>5. \A j \in Key : Beaten(j)' =
          Beaten(j) \cup (IF j = k THEN {live[m][k]} \ {Absent} ELSE {})
  <2>1. \A j \in Key : replaced'[j] = replaced[j] \cup (IF j = k THEN known[m][k] ELSE {})
    BY <1>1 DEF Storing, Tracked
  <2>2. known[m][k] \subseteq Row /\ Absent \notin Row
    BY <1>1, RowAssumption DEF Tracked
  <2>3. Beaten(k) \cup known[m][k] = Beaten(k) \cup ({live[m][k]} \ {Absent})
    BY <1>1, <2>2 DEF MachineAccounts
  <2>4. outranked' = outranked
    BY DEF Storing
  <2>. QED
    BY <2>1, <2>3, <2>4 DEF Beaten
<1>6. RowsBy' = [RowsBy EXCEPT ![k] = @ \cup ({cell} \ {Absent})]
  BY <1>4 DEF RowsBy
<1>7. Gone' = [Gone EXCEPT ![k] = @ \cup ({live[m][k]} \ {Absent})]
  BY <1>5 DEF Gone
<1>8. cell \notin RowsBy[k]
  BY <1>2 DEF RowsBy
<1>. QED
  BY <1>3, <1>6, <1>7, <1>8 DEF Promise!Store, RowsBy, Gone, Beaten

(* A merge judges the two sides' rows.                                     *)
LEMMA MergingKeepsPromise ==
    ASSUME IInv, SInv, NEW m \in Machine, NEW c \in Made, Merging(m, c)
    PROVE  Promise!Judge
<1>. DEFINE losers == [k \in Key |-> Losers(m, k, c)]
<1>1. head[m] \in Made
  BY DEF Merging, IInv, Headed, TypeOK
<1>2. losers \in [Key -> SUBSET Row]
  BY <1>1, LosersType DEF IInv
<1>3. ASSUME NEW k \in Key, NEW row \in Losers(m, k, c)
      PROVE  /\ row \in WrittenRows(k)
             /\ \E other \in WrittenRows(k) : Promise!Outranks(other, row)
  <2>. DEFINE ours == commits[head[m]].tree[k]
              theirs == commits[c].tree[k]
  <2>1. /\ Absent \notin {ours, theirs}
        /\ row \in {ours, theirs} /\ row # Winner(ours, theirs)
    BY DEF Losers
  <2>2. ours \in WrittenRows(k) /\ theirs \in WrittenRows(k)
    BY <1>1, <2>1 DEF SInv, CommitAccounts
  <2>3. ours \in Row /\ theirs \in Row
    BY <2>2 DEF SInv, Tracked, WrittenType, WrittenRows
  <2>. HIDE DEF ours, theirs
  <2>4. Winner(ours, theirs) \in {ours, theirs} /\ Winner(ours, theirs) = Winner(theirs, ours)
    BY <2>3, WinnerEitherWay
  <2>5. \A r, q \in Row : Promise!Winner(r, q) = Winner(r, q)
    BY DEF Promise!Winner, Promise!Newer, Promise!Tiebreak, Winner, Newer, Tiebreak
  <2>. QED
    BY <2>1, <2>2, <2>3, <2>4, <2>5 DEF Promise!Outranks
<1>4. UNCHANGED <<live, RowsBy>> /\ Gone' = [k \in Key |-> Gone[k] \cup losers[k]]
  BY DEF Merging, RowsBy, WrittenRows, Gone, Beaten
<1>. QED
  BY <1>2, <1>3, <1>4 DEF Promise!Judge, Promise!Row, Row, RowsBy, Gone, Beaten

(* A pack takes over main, which has seen beaten whatever it drops.        *)
LEMMA PackingKeepsPromise ==
    ASSUME IInv, SInv, NEW m \in Machine, Packing(m)
    PROVE  Promise!Adopt(m)
<1>. DEFINE table == commits[head[m]].tree
<1>1. head[m] \in Made /\ pc[m] = "merge"
  BY DEF Packing, IInv, Headed, TypeOK
<1>2. table \in [Key -> Cell]
  BY <1>1, CommitType DEF IInv, Table
<1>3. ASSUME NEW k \in Key, table[k] # live[m][k]
      PROVE  live[m][k] \in Beaten(k) \cup {Absent} /\ table[k] \in WrittenRows(k) \cup {Absent}
  <2>1. /\ table[k] \in seen[head[m]][k] \cup {Absent}
        /\ seen[head[m]][k] \ {table[k]} \subseteq Beaten(k)
        /\ seen[head[m]][k] \subseteq WrittenRows(k)
    BY <1>1 DEF SInv, CommitAccounts
  <2>2. live[m][k] \in seen[head[m]][k] \cup Beaten(k) \cup {Absent}
    BY <1>1 DEF SInv, MachineAccounts
  <2>. QED
    BY <1>3, <2>1, <2>2
<1>4. live' = [live EXCEPT ![m] = table] /\ UNCHANGED <<RowsBy, Gone>>
  BY DEF Packing, RowsBy, WrittenRows, Gone, Beaten
<1>. QED
  BY <1>2, <1>3, <1>4
     DEF Promise!Adopt, Promise!Cell, Promise!Row, Cell, Row, RowsBy, Gone, Beaten

(* Every other step is out of sight.                                       *)
LEMMA StepKeepsPromise ==
    ASSUME Quiet, IInv, NothingHalfMerged, MInv, SInv, [HNext]_hvars
    PROVE  Promise!Next \/ UNCHANGED Promise!vars
<1>1. UNCHANGED <<live, written, replaced, outranked>> => UNCHANGED Promise!vars
  BY DEF Promise!vars, WrittenRows
<1>2. CASE UNCHANGED hvars
  BY <1>1, <1>2 DEF hvars, vars, liveVars, history
<1>3. CASE HNext
  <2>. PICK m \in Machine : HBegin(m) \/ HContinue(m) \/ HEnvironment(m)
    BY <1>3 DEF HNext
  <2>1. Acting(m)
    BY EveryAct DEF SInv, Tracked
  <2>2. ASSUME NEW k \in Key, NEW cell \in Cell, Storing(m, k, cell)
        PROVE  Promise!Next
    BY <2>2, StoringKeepsPromise DEF Promise!Next, Promise!Cell, Promise!Row, Cell, Row
  <2>3. ASSUME NEW c \in Made, Merging(m, c)
        PROVE  Promise!Next
    BY <2>3, MergingKeepsPromise DEF Promise!Next
  <2>4. CASE Packing(m)
    BY <2>4, PackingKeepsPromise DEF Promise!Next
  <2>5. ASSUME Committing(m) \/ Passing(m) \/ \E c \in Made : Forwarding(m, c)
        PROVE  UNCHANGED Promise!vars
    BY <1>1, <2>5 DEF Committing, Passing, Forwarding
  <2>. QED
    BY <2>1, <2>2, <2>3, <2>4, <2>5 DEF Acting
<1>. QED
  BY <1>2, <1>3

(* The engine implements Replicas: whatever syncs overlap, fail and cross, *)
(* what users see is rows that leave a machine beaten and rows beaten by   *)
(* users or by rows that outrank them.                                     *)
THEOREM EngineImplementsReplicas ==
    ASSUME Quiet
    PROVE  HSpec => Promised
<1>1. IInv /\ NothingHalfMerged /\ MInv /\ SInv /\ [HNext]_hvars
      => [Promise!Next]_(Promise!vars)
  BY StepKeepsPromise
<1>. QED
  BY <1>1, PromiseInit, RowsAccounted, PTL DEF HSpec, Promised, Promise!Spec

(* Each machine has a table, and a row that is written is a row.           *)
PromiseType ==
    /\ live \in [Machine -> [Key -> Cell]]
    /\ \A k \in Key : Absent \notin RowsBy[k]

(* EditsSurvive, told with RowsBy and Gone.                                *)
LEMMA EditsOf ==
    EditsSurvive <=> \A k \in Key : \A row \in RowsBy[k] \ Gone[k] :
                         \E m \in Machine : live[m][k] = row
BY DEF EditsSurvive, RowsBy, Gone, Beaten

(* The same of the next state.                                             *)
LEMMA EditsOfNext ==
    EditsSurvive' <=> \A k \in Key : \A row \in RowsBy'[k] \ Gone'[k] :
                          \E m \in Machine : live'[m][k] = row
BY DEF EditsSurvive, RowsBy, Gone, Beaten

(* No step of Replicas drops a row that was not beaten.                    *)
LEMMA PromiseStep ==
    ASSUME PromiseType, EditsSurvive, Promise!Next
    PROVE  PromiseType' /\ EditsSurvive'
<1>. USE EditsOf, EditsOfNext
<1>1. DOMAIN RowsBy = Key /\ DOMAIN Gone = Key
  BY DEF RowsBy, Gone
<1>2. ASSUME NEW m \in Machine, NEW k \in Key, NEW cell \in Cell, Promise!Store(m, k, cell)
      PROVE  PromiseType' /\ EditsSurvive'
  <2>1. /\ live' = [live EXCEPT ![m][k] = cell]
        /\ RowsBy' = [RowsBy EXCEPT ![k] = @ \cup ({cell} \ {Absent})]
        /\ Gone' = [Gone EXCEPT ![k] = @ \cup ({live[m][k]} \ {Absent})]
    BY <1>2 DEF Promise!Store, RowsBy, Gone, Beaten
  <2>2. PromiseType'
    BY <1>1, <2>1 DEF PromiseType
  <2>3. ASSUME NEW j \in Key, NEW row \in RowsBy'[j] \ Gone'[j]
        PROVE  \E n \in Machine : live'[n][j] = row
    <3>1. CASE row \in RowsBy[j]
      <4>1. row \notin Gone[j] /\ row # Absent
        BY <1>1, <2>1, <2>3, <3>1 DEF PromiseType
      <4>2. PICK n \in Machine : live[n][j] = row
        BY <3>1, <4>1
      <4>3. n # m \/ j # k
        BY <1>1, <2>1, <2>3, <4>1, <4>2
      <4>4. live'[n][j] = row
        BY <2>1, <4>2, <4>3 DEF PromiseType
      <4>. QED
        BY <4>4
    <3>2. CASE row \notin RowsBy[j]
      <4>1. j = k /\ row = cell
        BY <1>1, <2>1, <2>3, <3>2
      <4>2. live'[m][j] = row
        BY <2>1, <4>1 DEF PromiseType
      <4>. QED
        BY <4>2
    <3>. QED
      BY <3>1, <3>2
  <2>. QED
    BY <2>2, <2>3
<1>3. CASE Promise!Judge
  <2>1. UNCHANGED <<live, RowsBy>> /\ \A k \in Key : Gone[k] \subseteq Gone'[k]
    <3>1. PICK losers : [k \in Key |-> Beaten(k)]' = [k \in Key |-> Gone[k] \cup losers[k]]
      BY <1>3 DEF Promise!Judge, Gone, Beaten
    <3>. QED
      BY <1>3, <3>1 DEF Promise!Judge, RowsBy, Gone
  <2>. QED
    BY <2>1 DEF PromiseType
<1>4. ASSUME NEW m \in Machine, Promise!Adopt(m)
      PROVE  PromiseType' /\ EditsSurvive'
  <2>1. UNCHANGED <<RowsBy, Gone>>
    BY <1>4 DEF Promise!Adopt, RowsBy, Gone, Beaten
  <2>2. PICK table \in [Key -> Cell] :
          /\ \A k \in Key : table[k] # live[m][k] => live[m][k] \in Gone[k] \cup {Absent}
          /\ live' = [live EXCEPT ![m] = table]
    BY <1>4 DEF Promise!Adopt, Promise!Cell, Promise!Row, Cell, Row, Gone, Beaten
  <2>3. PromiseType'
    BY <2>1, <2>2 DEF PromiseType
  <2>4. ASSUME NEW k \in Key, NEW row \in RowsBy[k] \ Gone[k]
        PROVE  \E n \in Machine : live'[n][k] = row
    <3>1. PICK n \in Machine : live[n][k] = row
      BY <2>4
    <3>2. row # Absent
      BY <2>4 DEF PromiseType
    <3>3. live'[n][k] = row
      BY <2>2, <2>4, <3>1, <3>2 DEF PromiseType
    <3>. QED
      BY <3>3
  <2>. QED
    BY <2>1, <2>3, <2>4
<1>. QED
  BY <1>2, <1>3, <1>4 DEF Promise!Next, Promise!Cell, Promise!Row, Cell, Row

(* Replicas promises enough: in whatever implements it, an edit that was   *)
(* not beaten is in the live data of some machine.                         *)
THEOREM PromiseKeepsEdits == Promised => []EditsSurvive
<1>. DEFINE Inv == PromiseType /\ EditsSurvive
<1>1. Promise!Init => Inv
  BY DEF Promise!Init, Promise!NoRows, PromiseType, RowsBy, EditsSurvive, Cell
<1>2. Inv /\ [Promise!Next]_(Promise!vars) => Inv'
  <2>. SUFFICES ASSUME Inv, [Promise!Next]_(Promise!vars)
                PROVE  Inv'
    OBVIOUS
  <2>1. CASE UNCHANGED Promise!vars
    BY <2>1, PromiseVars DEF PromiseType, EditsSurvive, RowsBy, Gone, Beaten
  <2>2. CASE Promise!Next
    BY <2>2, PromiseStep
  <2>. QED
    BY <2>1, <2>2
<1>3. Inv => EditsSurvive
  OBVIOUS
<1>. QED
  BY <1>1, <1>2, <1>3, PTL DEF Promised, Promise!Spec

-----------------------------------------------------------------------------
(* What comes back.                                                        *)

Nowhere(k, row) == \A c \in Made : row \notin seen[c][k]

(* All that have seen a row descend from one commit that has.              *)
Origins ==
    \A k \in Key : \A row \in UNION {seen[c][k] : c \in Made} :
        \E o \in Made : row \in seen[o][k] /\
            \A d \in Made : row \in seen[d][k] => o \in commits[d].past

(* A row that a machine has but main has not seen is nobody else's.        *)
Private(m) ==
    \A k \in Key : \A row \in known[m][k] :
        head[m] = None \/ row \notin seen[head[m]][k] =>
            Nowhere(k, row) /\ \A n \in Machine \ {m} : row \notin known[n][k]

(* A commit's row is that of every commit in its past that has seen it: a  *)
(* row that was dropped has not come back.                                 *)
Settled(c) ==
    \A d \in commits[c].past : \A k \in Key :
        commits[c].tree[k] \in seen[d][k] => commits[d].tree[k] = commits[c].tree[k]

(* Outside a merge the live data has no row that main has dropped.         *)
Onward(m) ==
    head[m] # None /\ pc[m] # "merge" =>
        \A k \in Key : live[m][k] \in seen[head[m]][k] =>
            live[m][k] = commits[head[m]].tree[k]

(* A command has recorded the live data in a commit that has seen all the  *)
(* machine has, but for rows overwritten before they were recorded.        *)
Since(m) ==
    pc[m] \in {"pull", "merge"} =>
        \E h \in Past(head[m]) :
            /\ commits[h].tree = live[m]
            /\ \A k \in Key : \A row \in known[m][k] : row \in seen[h][k] \/ Nowhere(k, row)

RInv ==
    /\ Origins
    /\ \A m \in Machine : Private(m) /\ Onward(m) /\ Since(m)
    /\ ~ crossed => \A c \in Made : Settled(c)

(* A commit more, whose rows were seen by its parents or are machine m's.  *)
Grown(m, rows, parents) ==
    /\ Made' = Made \cup {NextId} /\ NextId \notin Made
    /\ seen'[NextId] = rows
    /\ commits'[NextId].past = (UNION {Past(p) : p \in parents}) \cup {NextId}
    /\ \A k \in Key : \A row \in rows[k] :
          \/ \E p \in parents : p # None /\ row \in seen[p][k]
          \/ Nowhere(k, row) /\ row \in known[m][k]

(* What was in a commit's past was made before.                            *)
LEMMA PastMade ==
    ASSUME IInv, NEW c \in Made
    PROVE  /\ commits[c].past \subseteq Made /\ c \in commits[c].past /\ c # None
           /\ Past(c) = commits[c].past
           /\ \A d \in commits[c].past : commits[d].past \subseteq commits[c].past
BY CommitType DEF IInv, Graph, Made, Past

(* The new commit is the origin of the rows nobody has seen before.        *)
LEMMA OriginsGrow ==
    ASSUME IInv, SInv, Origins, NEW m \in Machine, Aside(m),
           NEW rows, NEW parents \in SUBSET (Made \cup {None}), Grown(m, rows, parents)
    PROVE  Origins'
<1>. SUFFICES ASSUME NEW k \in Key, NEW c \in Made', NEW row \in seen'[c][k]
              PROVE  \E o \in Made' : row \in seen'[o][k] /\
                         \A d \in Made' : row \in seen'[d][k] => o \in commits'[d].past
  BY DEF Origins
<1>1. CASE \E e \in Made : row \in seen[e][k]
  <2>1. PICK o \in Made : row \in seen[o][k] /\
                \A d \in Made : row \in seen[d][k] => o \in commits[d].past
    BY <1>1 DEF Origins
  <2>2. ASSUME NEW d \in Made', row \in seen'[d][k]
        PROVE  o \in commits'[d].past
    <3>1. CASE d \in Made
      BY <2>1, <2>2, <3>1 DEF Aside
    <3>2. CASE d = NextId
      <4>1. PICK p \in parents : p # None /\ row \in seen[p][k]
        BY <1>1, <2>2, <3>2 DEF Grown, Nowhere
      <4>2. p \in Made /\ o \in Past(p)
        BY <2>1, <4>1, PastMade
      <4>. QED
        BY <3>2, <4>2 DEF Grown
    <3>. QED
      BY <3>1, <3>2 DEF Grown
  <2>. QED
    BY <2>1, <2>2 DEF Aside, Grown
<1>2. CASE \A e \in Made : row \notin seen[e][k]
  <2>1. \A d \in Made' : row \in seen'[d][k] => d = NextId
    BY <1>2 DEF Aside, Grown
  <2>2. NextId \in Made' /\ NextId \in commits'[NextId].past
    BY DEF Grown
  <2>. QED
    BY <2>1, <2>2
<1>. QED
  BY <1>1, <1>2

(* The other machines' own rows stay their own.                            *)
LEMMA OthersGrow ==
    ASSUME IInv, SInv, NEW m \in Machine, Aside(m), known' = known,
           NEW rows, NEW parents \in SUBSET (Made \cup {None}), Grown(m, rows, parents),
           NEW n \in Machine \ {m}, Private(n), Onward(n), Since(n)
    PROVE  Private(n)' /\ Onward(n)' /\ Since(n)'
<1>1. /\ live'[n] = live[n] /\ head'[n] = head[n] /\ pc'[n] = pc[n]
      /\ head[n] \in Made \cup {None} /\ (pc[n] # "idle" => head[n] # None)
  BY DEF Aside, IInv, TypeOK, Headed
<1>2. ASSUME NEW k \in Key, NEW row \in known[n][k], Nowhere(k, row)
      PROVE  Nowhere(k, row)'
  <2>1. row \notin known[m][k]
    BY <1>1, <1>2 DEF Private, Nowhere
  <2>2. row \notin rows[k]
    <3>1. \A p \in parents : p # None => row \notin seen[p][k]
      BY <1>2 DEF Nowhere
    <3>. QED
      BY <2>1, <3>1 DEF Grown
  <2>. QED
    BY <1>2, <2>2 DEF Nowhere, Grown, Aside
<1>3. Private(n)'
  BY <1>1, <1>2 DEF Private, Aside
<1>4. Onward(n)'
  BY <1>1 DEF Onward, Aside
<1>5. Since(n)'
  <2>. SUFFICES ASSUME pc[n] \in {"pull", "merge"}
                PROVE  \E h \in Past(head[n])' :
                          /\ commits'[h].tree = live[n]
                          /\ \A k \in Key : \A row \in known[n][k] :
                                row \in seen'[h][k] \/ Nowhere(k, row)'
    BY <1>1 DEF Since
  <2>1. PICK h \in Past(head[n]) :
           /\ commits[h].tree = live[n]
           /\ \A k \in Key : \A row \in known[n][k] : row \in seen[h][k] \/ Nowhere(k, row)
    BY DEF Since
  <2>2. head[n] \in Made /\ h \in Made /\ h \in commits[head[n]].past
    BY <1>1, PastMade
  <2>3. h \in Past(head[n])'
    BY <1>1, <2>2 DEF Past, Aside
  <2>. QED
    BY <1>2, <2>1, <2>2, <2>3 DEF Aside
<1>. QED
  BY <1>3, <1>4, <1>5

(* Commits made before are as settled as they were.                        *)
LEMMA OldSettled ==
    ASSUME IInv, NEW m \in Machine, Aside(m), NEW c \in Made, Settled(c)
    PROVE  Settled(c)'
BY PastMade DEF Aside, Settled

(* Steps that make no commit.                                              *)
LEMMA SameCommits ==
    ASSUME RInv, UNCHANGED <<commits, seen>>, crossed' = crossed
    PROVE  /\ Made' = Made /\ Origins' /\ (~ crossed' => \A c \in Made : Settled(c)')
           /\ \A k, row : Nowhere(k, row)' <=> Nowhere(k, row)
<1>1. Made' = Made
  BY DEF Made
<1>2. Origins'
  <2>1. commits' = commits /\ seen' = seen
    OBVIOUS
  <2>2. Origins
    BY DEF RInv
  <2>. SUFFICES ASSUME NEW k \in Key, NEW c \in Made', NEW row \in seen'[c][k]
                PROVE  \E o \in Made' : row \in seen'[o][k] /\
                           \A d \in Made' : row \in seen'[d][k] => o \in commits'[d].past
    BY DEF Origins
  <2>3. PICK o \in Made : row \in seen[o][k] /\
                \A d \in Made : row \in seen[d][k] => o \in commits[d].past
    BY <1>1, <2>1, <2>2 DEF Origins
  <2>. QED
    BY <1>1, <2>1, <2>3
<1>3. \A c \in Made : Settled(c) => Settled(c)'
  BY DEF Settled
<1>4. \A k, row : Nowhere(k, row)' <=> Nowhere(k, row)
  BY <1>1 DEF Nowhere
<1>. QED
  BY <1>1, <1>2, <1>3, <1>4 DEF RInv

(* Of them only a store and a pack change what a machine has.              *)
LEMMA OthersStay ==
    ASSUME IInv, SInv, RInv, NEW m \in Machine, Aside(m), UNCHANGED <<commits, seen>>,
           NEW n \in Machine \ {m},
           \A k \in Key : \A row \in known[n][k] :
               Nowhere(k, row) => row \in known[m][k] \/ row \notin known'[m][k]
    PROVE  Private(n)' /\ Onward(n)' /\ Since(n)'
<1>1. /\ live'[n] = live[n] /\ head'[n] = head[n] /\ pc'[n] = pc[n] /\ known'[n] = known[n]
      /\ \A j \in Machine \ {m} : known'[j] = known[j]
  BY DEF Aside
<1>2. Made' = Made /\ \A k, row : Nowhere(k, row)' <=> Nowhere(k, row)
  BY DEF Made, Nowhere
<1>3. Private(n) /\ Onward(n) /\ Since(n)
  BY DEF RInv
<1>. QED
  BY <1>1, <1>2, <1>3 DEF Private, Onward, Since, Past

(* A row that is stored was nowhere before.                                *)
LEMMA StoringReturnsNothing ==
    ASSUME IInv, SInv, RInv, NEW m \in Machine, Aside(m), Tracked',
           NEW k \in Key, NEW cell \in Cell, Storing(m, k, cell)
    PROVE  RInv'
<1>1. /\ UNCHANGED <<commits, head, seen, crossed>> /\ pc'[m] = "idle" /\ pc[m] = "idle"
      /\ head[m] \in Made \cup {None}
  BY DEF Storing, IInv, TypeOK
<1>2. \A j \in Key :
        \/ known'[m][j] = known[m][j]
        \/ j = k /\ cell # Absent /\ known'[m][j] = known[m][j] \cup {cell}
  <2>1. CASE cell = Absent
    BY <2>1 DEF Storing
  <2>2. CASE cell # Absent
    <3>1. known'[m] = [known[m] EXCEPT ![k] = @ \cup {cell}] /\ known[m] \in [Key -> SUBSET Row]
      BY <2>2 DEF Storing, SInv, Tracked
    <3>. QED
      BY <2>2, <3>1
  <2>. QED
    BY <2>1, <2>2
<1>3. cell # Absent => /\ Nowhere(k, cell)
                       /\ \A n \in Machine : cell \notin known[n][k]
  <2>1. cell # Absent => cell \notin WrittenRows(k)
    BY DEF Storing
  <2>. QED
    BY <2>1 DEF SInv, CommitAccounts, MachineAccounts, Nowhere
<1>4. /\ Made' = Made /\ Origins' /\ (~ crossed' => \A c \in Made : Settled(c)')
      /\ \A j, row : Nowhere(j, row)' <=> Nowhere(j, row)
  BY <1>1, SameCommits
<1>5. ASSUME NEW n \in Machine \ {m}
      PROVE  Private(n)' /\ Onward(n)' /\ Since(n)'
  <2>1. \A j \in Key : \A row \in known[n][j] : row \in known[m][j] \/ row \notin known'[m][j]
    BY <1>2, <1>3
  <2>. QED
    BY <1>1, <2>1, OthersStay
<1>6. Private(m)'
  <2>. SUFFICES ASSUME NEW j \in Key, NEW row \in known'[m][j], head[m] = None \/ row \notin seen[head[m]][j]
                PROVE  Nowhere(j, row) /\ \A n \in Machine \ {m} : row \notin known[n][j]
    BY <1>1, <1>4 DEF Private, Aside
  <2>1. CASE row \in known[m][j]
    BY <2>1 DEF RInv, Private
  <2>2. CASE row \notin known[m][j]
    BY <1>2, <1>3, <2>2
  <2>. QED
    BY <2>1, <2>2
<1>7. Onward(m)'
  <2>. SUFFICES ASSUME head[m] # None, NEW j \in Key, live'[m][j] \in seen[head[m]][j]
                PROVE  live'[m][j] = commits[head[m]].tree[j]
    BY <1>1 DEF Onward
  <2>1. live'[m][j] = IF j = k THEN cell ELSE live[m][j]
    <3>1. live[m] \in Table /\ live'[m] = [live[m] EXCEPT ![k] = cell]
      BY DEF Storing, IInv, TypeOK
    <3>. QED
      BY <3>1 DEF Table
  <2>2. head[m] \in Made /\ seen[head[m]][j] \subseteq Row
    BY <1>1 DEF SInv, Tracked, Made, IInv, TypeOK
  <2>3. j # k
    BY <1>3, <2>1, <2>2, RowAssumption DEF Nowhere
  <2>. QED
    BY <1>1, <2>1, <2>3 DEF RInv, Onward
<1>8. Since(m)'
  BY <1>1 DEF Since
<1>. QED
  BY <1>4, <1>5, <1>6, <1>7, <1>8 DEF RInv

(* Nor does a start bring anything back: the commit it makes has the rows  *)
(* of the live data.                                                       *)
LEMMA CommittingReturnsNothing ==
    ASSUME IInv, SInv, RInv, NEW m \in Machine, Aside(m), Committing(m)
    PROVE  RInv'
<1>1. /\ pc[m] = "idle" /\ pc'[m] \in {"idle", "pull"}
      /\ UNCHANGED <<live, known, crossed>> /\ head[m] \in Made \cup {None}
      /\ Private(m) /\ Onward(m)
  BY DEF Committing, RInv, IInv, TypeOK
<1>2. CASE head[m] # None /\ commits[head[m]].tree = live[m] /\ UNCHANGED <<commits, head, seen>>
  <2>1. /\ Made' = Made /\ Origins' /\ (~ crossed' => \A c \in Made : Settled(c)')
        /\ \A j, row : Nowhere(j, row)' <=> Nowhere(j, row)
    BY <1>1, <1>2, SameCommits
  <2>2. \A n \in Machine \ {m} : Private(n)' /\ Onward(n)' /\ Since(n)'
    BY <1>1, <1>2, OthersStay
  <2>3. Private(m)' /\ Onward(m)'
    BY <1>1, <1>2, <2>1 DEF Private, Onward
  <2>4. Since(m)'
    <3>1. head[m] \in Past(head[m])
      BY <1>1, <1>2, PastMade
    <3>2. \A k \in Key : \A row \in known[m][k] : row \in seen[head[m]][k] \/ Nowhere(k, row)
      BY <1>1, <1>2 DEF Private
    <3>. QED
      BY <1>1, <1>2, <2>1, <3>1, <3>2 DEF Since, Past
  <2>. QED
    BY <2>1, <2>2, <2>3, <2>4 DEF RInv
<1>3. CASE /\ Committed(live[m], version[m], {head[m]} \ {None})
           /\ head' = [head EXCEPT ![m] = NextId]
           /\ seen' = Append(seen, known[m])
  <2>. DEFINE parents == {head[m]} \ {None}
  <2>1. live[m] \in Table /\ version[m] \in Version /\ known[m] \in [Key -> SUBSET Row]
        /\ parents \in SUBSET (Made \cup {None})
    BY <1>1 DEF IInv, TypeOK, SInv, Tracked
  <2>2. Committed(live[m], version[m], parents)
    BY <1>3
  <2>3. \A k \in Key : \A row \in known[m][k] :
           \/ \E p \in parents : p # None /\ row \in seen[p][k]
           \/ Nowhere(k, row)
    BY <1>1 DEF Private
  <2>. HIDE DEF parents
  <2>4. /\ Made' = Made \cup {NextId} /\ NextId \notin Made
        /\ commits'[NextId].tree = live[m]
        /\ commits'[NextId].past = (UNION {Past(p) : p \in parents}) \cup {NextId}
        /\ seen'[NextId] = known[m]
    BY <1>3, <2>1, <2>2, CommitsGrow, SeenGrows DEF IInv, SInv
  <2>5. Grown(m, known[m], parents)
    BY <2>3, <2>4 DEF Grown
  <2>6. head'[m] = NextId /\ NextId # None
    BY <1>3, NextIdNew DEF IInv, TypeOK
  <2>7. Origins'
    BY <2>1, <2>5, OriginsGrow DEF RInv
  <2>8. \A n \in Machine \ {m} : Private(n)' /\ Onward(n)' /\ Since(n)'
    BY <1>1, <2>1, <2>5, OthersGrow DEF RInv
  <2>9. Private(m)' /\ Onward(m)'
    BY <1>1, <2>4, <2>6 DEF Private, Onward
  <2>10. Since(m)'
    BY <1>1, <2>4, <2>6 DEF Since, Past
  <2>11. ASSUME ~ crossed', NEW c \in Made'
         PROVE  Settled(c)'
    <3>1. CASE c \in Made
      BY <1>1, <2>11, <3>1, OldSettled DEF RInv
    <3>2. CASE c = NextId
      <4>. SUFFICES ASSUME NEW d \in commits'[c].past, NEW k \in Key, commits'[c].tree[k] \in seen'[d][k]
                    PROVE  commits'[d].tree[k] = commits'[c].tree[k]
        BY DEF Settled
      <4>1. CASE d = c
        BY <4>1
      <4>2. CASE d # c
        <5>1. head[m] \in Made /\ head[m] # None /\ d \in commits[head[m]].past
          BY <1>1, <2>4, <3>2, <4>2 DEF parents, Past
        <5>2. d \in Made /\ commits'[d] = commits[d] /\ seen'[d] = seen[d]
          BY <5>1, PastMade DEF Aside
        <5>3. live[m][k] \in seen[d][k] /\ seen[d][k] \subseteq seen[head[m]][k]
          BY <2>4, <3>2, <5>1, <5>2 DEF SInv, CommitAccounts
        <5>4. live[m][k] = commits[head[m]].tree[k]
          BY <1>1, <5>1, <5>3 DEF Onward
        <5>5. commits[d].tree[k] = commits[head[m]].tree[k]
          BY <1>1, <2>11, <5>1, <5>3, <5>4 DEF RInv, Settled
        <5>. QED
          BY <2>4, <3>2, <5>2, <5>4, <5>5
      <4>. QED
        BY <4>1, <4>2
    <3>. QED
      BY <2>4, <3>1, <3>2
  <2>. QED
    BY <2>7, <2>8, <2>9, <2>10, <2>11 DEF RInv
<1>. QED
  BY <1>2, <1>3 DEF Committing

(* With one best common ancestor, a merged row that both sides have seen   *)
(* is the row of both: whichever side changed it since the base wins.      *)
LEMMA SeenByBoth ==
    ASSUME IInv, SInv, RInv, ~ crossed, NEW m \in Machine, head[m] \in Made, NEW c \in Made,
           ~ Crossing(m, c), NEW k \in Key,
           MergedRow(m, c, k) \in seen[head[m]][k], MergedRow(m, c, k) \in seen[c][k]
    PROVE  /\ commits[head[m]].tree[k] = MergedRow(m, c, k)
           /\ commits[c].tree[k] = MergedRow(m, c, k)
<1>. DEFINE ours == commits[head[m]].tree[k]
            theirs == commits[c].tree[k]
            bases == MergeBases({head[m]}, c)
            base == Base(bases, "auto").tree[k]
            merged == MergedRow(m, c, k)
<1>1. merged = MergeRow(base, ours, theirs, "auto")
  BY DEF MergedRow
<1>2. merged \in {ours, theirs}
  BY <1>1 DEF MergeRow, AutoRow, Winner, Newer, Tiebreak
<1>3. PICK o \in Made : merged \in seen[o][k] /\
              \A d \in Made : merged \in seen[d][k] => o \in commits[d].past
  BY DEF RInv, Origins
<1>4. o \in Past(head[m]) \cap Past(c)
  BY <1>3, PastMade
<1>5. PICK b \in bases : o \in Past(b) /\ b \in Made
  BY <1>4, BelowMergeBase DEF IInv
<1>6. bases = {b} /\ b \in Past(head[m]) /\ b \in Past(c)
  BY <1>5 DEF Crossing, MergeBases
<1>7. base = commits[b].tree[k]
  <2>1. bases \in SUBSET Made
    BY <1>5, <1>6
  <2>. HIDE DEF bases
  <2>. QED
    BY <1>5, <1>6, <2>1, BaseTreeRows DEF IInv
<1>8. merged \in seen[b][k]
  BY <1>3, <1>5, PastMade DEF SInv, CommitAccounts
<1>9. base = merged
  <2>1. b \in commits[head[m]].past /\ b \in commits[c].past
    BY <1>6, PastMade
  <2>2. Settled(head[m]) /\ Settled(c)
    BY DEF RInv
  <2>. HIDE DEF merged
  <2>. QED
    BY <1>2, <1>7, <1>8, <2>1, <2>2 DEF Settled
<1>. HIDE DEF base, ours, theirs, merged
<1>10. ours = merged /\ theirs = merged
  BY <1>1, <1>2, <1>9 DEF MergeRow, Contested
<1>. QED
  BY <1>10 DEF ours, theirs, merged

(* So a merge settles what its sides have settled.                         *)
LEMMA MergeSettles ==
    ASSUME IInv, SInv, RInv, ~ crossed, NEW m \in Machine, head[m] \in Made, NEW c \in Made,
           ~ Crossing(m, c), NEW k \in Key,
           NEW d \in commits[head[m]].past \cup commits[c].past, MergedRow(m, c, k) \in seen[d][k]
    PROVE  commits[d].tree[k] = MergedRow(m, c, k)
<1>. DEFINE ours == commits[head[m]].tree[k]
            theirs == commits[c].tree[k]
            merged == MergedRow(m, c, k)
<1>1. merged \in {ours, theirs}
  BY DEF MergedRow, MergeRow, AutoRow, Winner, Newer, Tiebreak
<1>2. d \in Made
  BY PastMade
<1>3. merged # Absent
  <2>1. seen[d] \in [Key -> SUBSET Row]
    BY <1>2 DEF SInv, Tracked, Made, IInv, TypeOK
  <2>. QED
    BY <2>1, RowAssumption
<1>4. /\ ours \in seen[head[m]][k] \cup {Absent} /\ theirs \in seen[c][k] \cup {Absent}
      /\ d \in commits[head[m]].past => seen[d][k] \subseteq seen[head[m]][k]
      /\ d \in commits[c].past => seen[d][k] \subseteq seen[c][k]
  BY DEF SInv, CommitAccounts
<1>5. merged \in seen[head[m]][k] /\ merged \in seen[c][k] => ours = merged /\ theirs = merged
  BY SeenByBoth
<1>. HIDE DEF merged
<1>6. d \in commits[head[m]].past => ours = merged
  BY <1>1, <1>3, <1>4, <1>5 DEF merged
<1>7. d \in commits[c].past => theirs = merged
  BY <1>1, <1>3, <1>4, <1>5 DEF merged
<1>8. Settled(head[m]) /\ Settled(c)
  BY DEF RInv
<1>. QED
  BY <1>6, <1>7, <1>8 DEF Settled, merged

(* A merge brings back nothing that either side has dropped.               *)
LEMMA MergingReturnsNothing ==
    ASSUME IInv, SInv, RInv, NEW m \in Machine, NEW c \in Made, Merging(m, c), Aside(m)
    PROVE  RInv'
<1>1. /\ head[m] \in Made /\ pc[m] = "merge" /\ UNCHANGED <<pc, live, known>>
      /\ Private(m) /\ Since(m)
  BY DEF Merging, IInv, Headed, TypeOK, RInv
<1>2. PICK tree \in Table, ver \in Version :
         Committed(tree, ver, {head[m], c}) /\ \A k \in Key : tree[k] = MergedRow(m, c, k)
  BY DEF Merging
<1>. DEFINE parents == {head[m], c}
            rows == Join(head[m], c)
<1>3. parents \in SUBSET (Made \cup {None}) /\ head[m] # None /\ c # None
  BY <1>1, PastMade
<1>4. rows \in [Key -> SUBSET Row]
  <2>1. seen[head[m]] \in [Key -> SUBSET Row] /\ seen[c] \in [Key -> SUBSET Row]
    BY <1>1 DEF SInv, Tracked, Made, IInv, TypeOK
  <2>. QED
    BY <2>1 DEF Join
<1>5. /\ Made' = Made \cup {NextId} /\ NextId \notin Made
      /\ commits'[NextId].tree = tree
      /\ commits'[NextId].past = (UNION {Past(p) : p \in parents}) \cup {NextId}
      /\ seen'[NextId] = rows
  BY <1>2, <1>3, <1>4, CommitsGrow, SeenGrows DEF IInv, SInv, Merging
<1>6. \A k \in Key : rows[k] = seen[head[m]][k] \cup seen[c][k]
  BY DEF Join
<1>7. Grown(m, rows, parents)
  BY <1>3, <1>5, <1>6 DEF Grown
<1>8. head'[m] = NextId /\ NextId # None
  BY NextIdNew DEF Merging, IInv, TypeOK
<1>9. commits'[NextId].past = commits[head[m]].past \cup commits[c].past \cup {NextId}
  BY <1>1, <1>5, PastMade
<1>. HIDE DEF rows, parents
<1>10. Origins'
  BY <1>3, <1>7, OriginsGrow DEF RInv
<1>11. \A n \in Machine \ {m} : Private(n)' /\ Onward(n)' /\ Since(n)'
  BY <1>1, <1>3, <1>7, OthersGrow DEF RInv
<1>12. ASSUME NEW k \in Key, NEW row, Nowhere(k, row)
       PROVE  Nowhere(k, row)'
  <2>1. row \notin rows[k]
    BY <1>1, <1>6, <1>12 DEF Nowhere
  <2>. QED
    BY <1>5, <1>12, <2>1 DEF Nowhere, Aside
<1>13. Private(m)'
  <2>. SUFFICES ASSUME NEW k \in Key, NEW row \in known[m][k], row \notin rows[k]
                PROVE  Nowhere(k, row)' /\ \A n \in Machine \ {m} : row \notin known[n][k]
    BY <1>1, <1>5, <1>8 DEF Private
  <2>1. row \notin seen[head[m]][k]
    BY <1>6
  <2>. QED
    BY <1>1, <1>12, <2>1 DEF Private
<1>14. Onward(m)'
  BY <1>1 DEF Onward
<1>15. Since(m)'
  <2>1. PICK h \in Past(head[m]) :
           /\ commits[h].tree = live[m]
           /\ \A k \in Key : \A row \in known[m][k] : row \in seen[h][k] \/ Nowhere(k, row)
    BY <1>1 DEF Since
  <2>2. h \in Made /\ h \in Past(head[m])'
    <3>1. h \in commits[head[m]].past /\ h \in Made
      BY <1>1, PastMade
    <3>. QED
      BY <1>8, <1>9, <3>1 DEF Past
  <2>3. commits'[h] = commits[h] /\ seen'[h] = seen[h]
    BY <2>2 DEF Aside
  <2>4. \A k \in Key : \A row \in known[m][k] : row \in seen'[h][k] \/ Nowhere(k, row)'
    BY <1>12, <2>1, <2>3
  <2>. QED
    BY <1>1, <2>1, <2>2, <2>3, <2>4 DEF Since
<1>16. ASSUME ~ crossed', NEW e \in Made'
       PROVE  Settled(e)'
  <2>1. ~ crossed /\ ~ Crossing(m, c)
    BY <1>16 DEF Merging
  <2>2. CASE e \in Made
    BY <2>1, <2>2, OldSettled DEF RInv
  <2>3. CASE e = NextId
    <3>. SUFFICES ASSUME NEW d \in commits'[e].past, NEW k \in Key, commits'[e].tree[k] \in seen'[d][k],
                         d # e
                  PROVE  commits'[d].tree[k] = commits'[e].tree[k]
      BY DEF Settled
    <3>1. d \in commits[head[m]].past \cup commits[c].past
      BY <1>9, <2>3
    <3>2. d \in Made /\ commits'[d] = commits[d] /\ seen'[d] = seen[d]
      BY <1>1, <3>1, PastMade DEF Aside
    <3>3. commits'[e].tree[k] = MergedRow(m, c, k)
      BY <1>2, <1>5, <2>3
    <3>. QED
      BY <1>1, <2>1, <3>1, <3>2, <3>3, MergeSettles
  <2>. QED
    BY <1>5, <2>2, <2>3
<1>. QED
  BY <1>10, <1>11, <1>13, <1>14, <1>15, <1>16 DEF RInv

(* Main forwarded to a commit that descends from it.                       *)
LEMMA ForwardingReturnsNothing ==
    ASSUME IInv, SInv, RInv, NEW m \in Machine, Aside(m), NEW c \in Made, Forwarding(m, c)
    PROVE  RInv'
<1>1. /\ UNCHANGED <<commits, seen, crossed, live, known, pc>> /\ pc[m] = "merge"
      /\ head[m] \in Made /\ head'[m] = c
  BY DEF Forwarding, IInv, Headed, TypeOK
<1>2. /\ Made' = Made /\ Origins' /\ (~ crossed' => \A d \in Made : Settled(d)')
      /\ \A j, row : Nowhere(j, row)' <=> Nowhere(j, row)
  BY <1>1, SameCommits
<1>3. \A n \in Machine \ {m} : Private(n)' /\ Onward(n)' /\ Since(n)'
  BY <1>1, OthersStay
<1>4. head[m] \in commits[c].past
  BY <1>1, PastMade DEF Forwarding, IsAncestor
<1>5. Private(m)'
  <2>1. \A k \in Key : seen[head[m]][k] \subseteq seen[c][k]
    BY <1>4 DEF SInv, CommitAccounts
  <2>2. c # None /\ head[m] # None
    BY <1>1, PastMade
  <2>. QED
    BY <1>1, <1>2, <2>1, <2>2 DEF RInv, Private
<1>6. Onward(m)'
  BY <1>1 DEF Onward
<1>7. Since(m)'
  <2>1. Past(head[m]) \subseteq Past(c)
    BY <1>1, <1>4, PastMade
  <2>2. Since(m) /\ Past(head[m])' = Past(c)
    BY <1>1 DEF RInv, Past
  <2>. QED
    BY <1>1, <1>2, <2>1, <2>2 DEF Since
<1>. QED
  BY <1>2, <1>3, <1>5, <1>6, <1>7 DEF RInv

(* A pack makes the live data what main is.                                *)
LEMMA PackingReturnsNothing ==
    ASSUME IInv, SInv, RInv, NEW m \in Machine, Aside(m), Packing(m)
    PROVE  RInv'
<1>1. /\ UNCHANGED <<commits, seen, crossed, head>> /\ pc'[m] = "publish"
      /\ head[m] \in Made /\ live'[m] = commits[head[m]].tree /\ known'[m] = seen[head[m]]
  BY DEF Packing, IInv, Headed, TypeOK, SInv, Tracked
<1>2. /\ Made' = Made /\ Origins' /\ (~ crossed' => \A d \in Made : Settled(d)')
      /\ \A j, row : Nowhere(j, row)' <=> Nowhere(j, row)
  BY <1>1, SameCommits
<1>3. \A n \in Machine \ {m} : Private(n)' /\ Onward(n)' /\ Since(n)'
  BY <1>1, OthersStay DEF Nowhere
<1>4. Private(m)' /\ Onward(m)' /\ Since(m)'
  BY <1>1, PastMade DEF Private, Onward, Since
<1>. QED
  BY <1>2, <1>3, <1>4 DEF RInv

(* The rest moves no row.                                                  *)
LEMMA PassingReturnsNothing ==
    ASSUME IInv, SInv, RInv, NEW m \in Machine, Aside(m), Passing(m)
    PROVE  RInv'
<1>1. UNCHANGED <<commits, seen, crossed, head, live, known>>
  BY DEF Passing
<1>2. /\ Made' = Made /\ Origins' /\ (~ crossed' => \A d \in Made : Settled(d)')
      /\ \A j, row : Nowhere(j, row)' <=> Nowhere(j, row)
  BY <1>1, SameCommits
<1>3. \A n \in Machine \ {m} : Private(n)' /\ Onward(n)' /\ Since(n)'
  BY <1>1, OthersStay
<1>4. Private(m)'
  BY <1>1, <1>2 DEF RInv, Private
<1>5. Onward(m)'
  BY <1>1 DEF RInv, Onward, Passing
<1>6. Since(m)'
  BY <1>1, <1>2 DEF RInv, Since, Passing, Past
<1>. QED
  BY <1>2, <1>3, <1>4, <1>5, <1>6 DEF RInv

(* No commits yet, so none to bring anything back.                         *)
LEMMA InitReturnsNothing == HInit => RInv
<1>. SUFFICES ASSUME HInit PROVE RInv
  OBVIOUS
<1>1. Made = {}
  BY DEF HInit, Init, Made
<1>. QED
  BY <1>1 DEF HInit, Init, NoRows, RInv, Origins, Private, Onward, Since, Nowhere

(* Every step keeps what no step may bring back.                           *)
LEMMA StepReturnsNothing ==
    ASSUME Quiet, IInv, NothingHalfMerged, MInv, SInv, RInv, [HNext]_hvars
    PROVE  RInv'
<1>1. CASE UNCHANGED hvars
  <2>1. /\ UNCHANGED <<commits, seen>> /\ crossed' = crossed
        /\ UNCHANGED <<live, head, pc, known>>
    BY <1>1 DEF hvars, vars, liveVars, repoVars, control, history
  <2>2. /\ Made' = Made /\ Origins' /\ (~ crossed' => \A c \in Made : Settled(c)')
        /\ \A k, row : Nowhere(k, row)' <=> Nowhere(k, row)
    BY <2>1, SameCommits
  <2>3. \A n \in Machine : Private(n)' /\ Onward(n)' /\ Since(n)'
    BY <2>1, <2>2 DEF RInv, Private, Onward, Since, Past
  <2>. QED
    BY <2>2, <2>3 DEF RInv
<1>2. CASE HNext
  <2>. PICK m \in Machine : HBegin(m) \/ HContinue(m) \/ HEnvironment(m)
    BY <1>2 DEF HNext
  <2>1. Acting(m) /\ Tracked' /\ Aside(m)
    BY EveryAct, HistoryStep, ActsType DEF SInv, Tracked
  <2>. QED
    BY <2>1, StoringReturnsNothing, CommittingReturnsNothing, ForwardingReturnsNothing,
       MergingReturnsNothing, PackingReturnsNothing, PassingReturnsNothing DEF Acting
<1>. QED
  BY <1>1, <1>2

(* Under the same conditions, as long as git has one best common ancestor  *)
(* to merge against, no machine ever gets back a row that it has held or   *)
(* merged and dropped: one its user edited or deleted, or saw deleted, or  *)
(* one that lost a merge.                                                  *)
THEOREM NoRowReturns ==
    ASSUME Quiet
    PROVE  HSpec => NothingComesBack
<1>. DEFINE Inv == IInv /\ NothingHalfMerged /\ MInv /\ SInv
            Away == ~ crossed' => \A m \in Machine, k \in Key : ~ Returns(m, k)
<1>1. Inv /\ RInv /\ [HNext]_hvars => RInv'
  BY StepReturnsNothing
<1>2. Inv /\ RInv /\ [HNext]_hvars => [Away]_hvars
  <2>. SUFFICES ASSUME Inv, RInv, HNext, ~ crossed', NEW n \in Machine, NEW k \in Key, Returns(n, k)
                PROVE  FALSE
    OBVIOUS
  <2>. PICK m \in Machine : HBegin(m) \/ HContinue(m) \/ HEnvironment(m)
    BY DEF HNext
  <2>1. Acting(m) /\ Aside(m)
    BY EveryAct, HistoryStep, ActsType DEF SInv, Tracked
  <2>2. n = m /\ live'[m][k] \in known[m][k] /\ live'[m][k] # live[m][k]
    BY <2>1 DEF Returns, Aside
  <2>3. live'[m][k] # Absent
    <3>1. known[m][k] \subseteq Row
      BY DEF SInv, Tracked
    <3>. QED
      BY <2>2, <3>1, RowAssumption
  <2>4. ASSUME NEW j \in Key, NEW cell \in Cell, Storing(m, j, cell)
        PROVE  FALSE
    <3>1. live'[m][k] = IF k = j THEN cell ELSE live[m][k]
      <4>1. live[m] \in Table /\ live'[m] = [live[m] EXCEPT ![j] = cell]
        BY <2>4 DEF Storing, IInv, TypeOK
      <4>. QED
        BY <4>1 DEF Table
    <3>2. cell \notin known[m][j]
      BY <2>2, <2>3, <2>4, <3>1 DEF Storing, SInv, MachineAccounts
    <3>. QED
      BY <2>2, <3>1, <3>2
  <2>5. CASE Packing(m)
    <3>. DEFINE row == commits[head[m]].tree[k]
    <3>1. head[m] \in Made /\ pc[m] = "merge" /\ live'[m][k] = row /\ crossed' = crossed
      BY <2>5 DEF Packing, IInv, Headed, TypeOK
    <3>2. row \in seen[head[m]][k] /\ Settled(head[m]) /\ Since(m)
      BY <2>3, <3>1 DEF SInv, CommitAccounts, RInv
    <3>3. PICK h \in Past(head[m]) :
             /\ commits[h].tree = live[m]
             /\ \A r \in known[m][k] : r \in seen[h][k] \/ Nowhere(k, r)
      BY <3>1, <3>2 DEF Since
    <3>4. row \in seen[h][k]
      BY <2>2, <3>1, <3>2, <3>3 DEF Nowhere
    <3>5. commits[h].tree[k] = row
      BY <3>1, <3>2, <3>3, <3>4, PastMade DEF Settled
    <3>. QED
      BY <2>2, <3>1, <3>3, <3>5
  <2>6. live'[m] # live[m]
    BY <2>2
  <2>. QED
    BY <2>1, <2>4, <2>5, <2>6 DEF Acting, Committing, Forwarding, Merging, Passing
<1>3. NothingComesBack <=> [][Away]_hvars
  BY PTL DEF NothingComesBack
<1>. HIDE DEF Away
<1>. QED
  BY <1>1, <1>2, <1>3, InitReturnsNothing, RowsAccounted, PTL DEF HSpec
=============================================================================
