-------------------------- MODULE SyncEngine_proofs -------------------------
(***************************************************************************)
(* Theorems about SyncEngine for any machines, tables, commands and        *)
(* disturbances.  The commit graph is well formed and only grows (Graph),  *)
(* main only moves forward in it, and a machine's bundle never runs ahead  *)
(* of that machine.                                                        *)
(***************************************************************************)
EXTENDS SyncEngine, WellFoundedInduction, TLAPS

(* Commits are numbered in the order they are made, and a commit's past is *)
(* closed under ancestry.                                                  *)
Graph ==
    \A c \in Made :
        /\ c \in commits[c].past
        /\ commits[c].past \subseteq 1 .. c
        /\ \A d \in commits[c].past : commits[d].past \subseteq commits[c].past

(* A command that got past its start has a commit to work with.            *)
Headed == \A m \in Machine : pc[m] # "idle" => head[m] # None

IInv == TypeOK /\ Graph /\ Headed /\ OwnHistory

USE DEF None

-----------------------------------------------------------------------------
(* What a merge keeps is a table of the same kind: each row is one of the  *)
(* two sides', whatever base git found.                                    *)
LEMMA MergeTableType ==
    ASSUME NEW base, NEW ours \in Table, NEW theirs \in Table, NEW strategy
    PROVE  MergeTable(base, ours, theirs, strategy) \in Table
<1>1. ASSUME NEW k \in Key
      PROVE  MergeRow(base[k], ours[k], theirs[k], strategy) \in Cell
  <2>1. ours[k] \in Cell /\ theirs[k] \in Cell
    BY DEF Table
  <2>2. AutoRow(ours[k], theirs[k]) \in {ours[k], theirs[k]}
    BY DEF AutoRow, Winner, Newer, Tiebreak
  <2>. QED
    BY <2>1, <2>2 DEF MergeRow
<1>2. DOMAIN ours = Key
  BY DEF Table
<1>. QED
  BY <1>1, <1>2 DEF MergeTable, Table

(* An empty table, before the first unpack, is a table.                    *)
LEMMA NoTableType == NoTable \in Table
BY DEF NoTable, Table, Cell

(* What running holds between commands is an invocation.                   *)
LEMMA NoInvocationType == NoInvocation \in Invocation
BY DEF NoInvocation, Invocation, Name, Strategy

(* The fields of a commit, from the type invariant.                        *)
LEMMA CommitType ==
    ASSUME TypeOK, NEW c \in Made
    PROVE  /\ c \in Nat
           /\ commits[c].tree \in Table
           /\ commits[c].version \in Version
           /\ commits[c].past \in SUBSET Nat
<1>1. commits \in Seq(Commit) /\ Len(commits) \in Nat
  BY DEF TypeOK
<1>2. commits[c] \in Commit
  BY <1>1 DEF Made
<1>. QED
  BY <1>1, <1>2 DEF Commit, Made

(* A set of numbers has a least one, so that NextRef picks from todo.      *)
LEMMA LeastNumber ==
    ASSUME NEW S \in SUBSET Nat, S # {}
    PROVE  \E i \in S : \A j \in S : i <= j
<1>. DEFINE R == OpToRel(<, Nat)
<1>1. IsWellFoundedOn(R, Nat)
  BY NatLessThanWellFounded
<1>2. R = {ss \in Nat \X Nat : ss[1] < ss[2]}
  BY Zenon DEF OpToRel
<1>. HIDE DEF R
<1>3. PICK i \in S : \A j \in S : <<j, i>> \notin R
  BY <1>1, WFMin
<1>4. ASSUME NEW j \in S
      PROVE  i <= j
  <2>1. i \in Nat /\ j \in Nat /\ <<j, i>> \in Nat \X Nat
    OBVIOUS
  <2>2. ~ (j < i)
    BY <1>2, <1>3, <2>1
  <2>. QED
    BY <2>1, <2>2
<1>. QED
  BY <1>4

-----------------------------------------------------------------------------
(* One commit more.                                                        *)
Committed(tree, ver, parents) ==
    commits' = Append(commits, NewCommit(tree, ver, parents))

(* A commit made is new, leaves the others as they were and has every      *)
(* parent in its past.                                                     *)
LEMMA CommitsGrow ==
    ASSUME TypeOK, Graph,
           NEW tree \in Table, NEW ver \in Version,
           NEW parents \in SUBSET (Made \cup {None}),
           Committed(tree, ver, parents)
    PROVE  /\ commits' \in Seq(Commit)
           /\ Made' = Made \cup {NextId}
           /\ NextId \notin Made
           /\ \A c \in Made : commits'[c] = commits[c]
           /\ \A p \in parents : Past(p) \subseteq commits'[NextId].past
           /\ commits'[NextId].tree = tree /\ commits'[NextId].version = ver
           /\ commits'[NextId].past = (UNION {Past(p) : p \in parents}) \cup {NextId}
           /\ Graph'
<1>. DEFINE new == NewCommit(tree, ver, parents)
            before == UNION {Past(p) : p \in parents}
<1>1. commits \in Seq(Commit) /\ Len(commits) \in Nat
  BY DEF TypeOK
<1>2. \A p \in parents : Past(p) \subseteq Made
  BY <1>1 DEF Past, Graph, Made
<1>3. before \subseteq Made
  BY <1>2
<1>4. new = [tree |-> tree, version |-> ver, past |-> before \cup {NextId}]
  BY DEF NewCommit, NextId
<1>. HIDE DEF new, before
<1>5. new \in Commit
  <2>1. before \cup {NextId} \in SUBSET Nat
    <3>1. Made \subseteq Nat /\ NextId \in Nat
      BY <1>1 DEF Made, NextId
    <3>. QED
      BY <1>3, <3>1
  <2>. QED
    BY <1>4, <2>1 DEF Commit
<1>6. commits' = Append(commits, new)
  BY DEF Committed, new
<1>7. commits' \in Seq(Commit) /\ Len(commits') = NextId
  BY <1>1, <1>5, <1>6 DEF NextId
<1>8. Made' = Made \cup {NextId} /\ NextId \notin Made
  BY <1>1, <1>7 DEF Made, NextId
<1>9. \A c \in Made : commits'[c] = commits[c]
  BY <1>1, <1>5, <1>6 DEF Made
<1>10. commits'[NextId] = new
  BY <1>1, <1>5, <1>6 DEF NextId
<1>11. new.past = before \cup {NextId}
  BY <1>4
<1>12. \A d \in before : commits[d].past \subseteq before
  <2>. SUFFICES ASSUME NEW d \in before
                PROVE  commits[d].past \subseteq before
    OBVIOUS
  <2>1. PICK p \in parents : d \in Past(p)
    BY DEF before
  <2>2. p \in Made /\ d \in commits[p].past
    BY <2>1 DEF Past
  <2>3. commits[d].past \subseteq Past(p)
    BY <2>2 DEF Graph, Past, Made
  <2>. QED
    BY <2>3 DEF before
<1>13. Graph'
  <2>. SUFFICES ASSUME NEW c \in Made'
                PROVE  /\ c \in commits'[c].past
                       /\ commits'[c].past \subseteq 1 .. c
                       /\ \A d \in commits'[c].past :
                              commits'[d].past \subseteq commits'[c].past
    BY DEF Graph
  <2>1. CASE c \in Made
    <3>1. commits[c].past \subseteq Made
      BY <1>1, <2>1 DEF Graph, Made
    <3>. QED
      BY <1>9, <2>1, <3>1 DEF Graph
  <2>2. CASE c = NextId
    <3>1. commits'[c].past = before \cup {NextId}
      BY <1>10, <1>11, <2>2
    <3>2. before \cup {NextId} \subseteq 1 .. NextId
      <4>1. Made \subseteq 1 .. NextId /\ NextId \in 1 .. NextId
        BY <1>1 DEF Made, NextId
      <4>. QED
        BY <1>3, <4>1
    <3>3. \A d \in before : commits'[d].past \subseteq before
      BY <1>3, <1>9, <1>12
    <3>. QED
      BY <2>2, <3>1, <3>2, <3>3
  <2>. QED
    BY <1>8, <2>1, <2>2
<1>14. \A p \in parents : Past(p) \subseteq before
  BY DEF before
<1>15. new.tree = tree /\ new.version = ver
  BY <1>4
<1>16. new.past = (UNION {Past(p) : p \in parents}) \cup {NextId}
  BY <1>11 DEF before
<1>. QED
  BY <1>7, <1>8, <1>9, <1>10, <1>11, <1>13, <1>14, <1>15, <1>16

-----------------------------------------------------------------------------
(* The type invariant, action by action.                                   *)

(* The steps that make no commit and start no command keep the types:      *)
(* KiroCrew, the user, a kill.                                             *)
LEMMA QuietType ==
    ASSUME TypeOK, NEW m \in Machine,
           \/ \E k \in Key, cell \in Cell : Write(m, k, cell)
           \/ Quiesce(m) \/ Upgrade(m) \/ Crash(m) \/ ResolveByHand(m) \/ AbortMerge(m)
    PROVE  TypeOK'
<1>. USE DEF TypeOK, Made, repoVars, transfer, control, liveVars
<1>1. CASE \E k \in Key, cell \in Cell : Write(m, k, cell)
  <2>. PICK k \in Key, cell \in Cell : Write(m, k, cell)
    BY <1>1
  <2>1. live' \in [Machine -> Table]
    BY DEF Write, Table
  <2>2. recent' \in [Machine -> BOOLEAN]
    BY DEF Write
  <2>. QED
    BY <2>1, <2>2 DEF Write
<1>2. CASE Quiesce(m)
  BY <1>2 DEF Quiesce
<1>3. CASE Upgrade(m)
  BY <1>3 DEF Upgrade
<1>4. CASE Crash(m)
  BY <1>4, NoInvocationType DEF Crash, Finish, Goto, NothingPulled, Step
<1>5. CASE ResolveByHand(m)
  BY <1>5 DEF ResolveByHand
<1>6. CASE AbortMerge(m)
  BY <1>6, NoTableType DEF AbortMerge
<1>. QED
  BY <1>1, <1>2, <1>3, <1>4, <1>5, <1>6

(* So do the steps of a running command that make no commit.               *)
LEMMA ContinueType ==
    ASSUME TypeOK, Headed, NEW m \in Machine,
           Pull(m) \/ EndWithoutPack(m) \/ Pack(m) \/ Publish(m)
    PROVE  TypeOK'
<1>. USE DEF TypeOK, Made, repoVars, transfer, control, liveVars
<1>1. CASE Pull(m)
  <2>. PICK got \in {remote} \cup {NothingPulled} :
         /\ pulled' = [pulled EXCEPT ![m] = got]
         /\ IF running[m].name # "sync"
            THEN Goto(m, "publish") /\ UNCHANGED <<tracking, todo>>
            ELSE LET fetched == {n \in Machine : Fetchable(m, n, got)}
                 IN  /\ tracking' = [tracking EXCEPT ![m] =
                            [n \in Machine |-> IF n \in fetched THEN got[n] ELSE @[n]]]
                     /\ todo' = [todo EXCEPT ![m] =
                            IF fetched = {} THEN {}
                            ELSE {n \in Machine : tracking'[m][n] # None}]
                     /\ Goto(m, "merge")
    BY <1>1 DEF Pull
  <2>1. got \in [Machine -> Made \cup {None}]
    BY DEF NothingPulled
  <2>2. pulled' \in [Machine -> [Machine -> Made \cup {None}]]
    BY <2>1
  <2>3. tracking' \in [Machine -> [Machine -> Made \cup {None}]]
    <3>. DEFINE row(F) == [n \in Machine |-> IF n \in F THEN got[n] ELSE tracking[m][n]]
    <3>1. ASSUME NEW F
          PROVE  row(F) \in [Machine -> Made \cup {None}]
      <4>1. tracking[m] \in [Machine -> Made \cup {None}]
        OBVIOUS
      <4>. QED
        BY <2>1, <4>1
    <3>2. PICK F : tracking' = tracking \/ tracking' = [tracking EXCEPT ![m] = row(F)]
      OBVIOUS
    <3>3. row(F) \in [Machine -> Made \cup {None}]
      BY <3>1
    <3>. HIDE DEF row
    <3>. QED
      BY <3>2, <3>3
  <2>4. todo' \in [Machine -> SUBSET Machine]
    <3>1. \E set \in SUBSET Machine : todo' = todo \/ todo' = [todo EXCEPT ![m] = set]
      <4>. DEFINE known == {n \in Machine : tracking'[m][n] # None}
      <4>1. known \in SUBSET Machine /\ {} \in SUBSET Machine
        OBVIOUS
      <4>2. todo' = todo \/ todo' = [todo EXCEPT ![m] = {}] \/ todo' = [todo EXCEPT ![m] = known]
        OBVIOUS
      <4>. QED
        BY <4>1, <4>2
    <3>. QED
      BY <3>1
  <2>5. pc' \in [Machine -> Step]
    BY DEF Goto, Step
  <2>. QED
    BY <1>1, <2>2, <2>3, <2>4, <2>5 DEF Pull
<1>2. CASE EndWithoutPack(m)
  BY <1>2, NoInvocationType DEF EndWithoutPack, Finish, Goto, NothingPulled, Step
<1>3. CASE Pack(m)
  <2>1. commits[head[m]].tree \in Table
    <3>1. pc[m] = "merge"
      BY <1>3 DEF Pack, Applying
    <3>2. head[m] \in 1 .. Len(commits)
      BY <3>1 DEF Headed
    <3>. QED
      BY <3>2, CommitType
  <2>. QED
    BY <1>3, <2>1 DEF Pack, Goto, Step
<1>4. CASE Publish(m)
  <2>1. Outgoing(m) \in [Machine -> Made \cup {None}]
    <3>1. pulled[m] \in [Machine -> Made \cup {None}] /\ head[m] \in Made \cup {None}
      OBVIOUS
    <3>. QED
      BY <3>1 DEF Outgoing
  <2>2. remote' \in [Machine -> Made \cup {None}]
    BY <1>4, <2>1 DEF Publish
  <2>. QED
    BY <1>4, <2>2, NoInvocationType DEF Publish, Finish, Goto, NothingPulled, Step
<1>. QED
  BY <1>1, <1>2, <1>3, <1>4

-----------------------------------------------------------------------------
(* What a step does to the commits and to main of the machine that takes   *)
(* it: nothing, a fast-forward, or one new commit on top.                  *)
Moved(m) ==
    \/ UNCHANGED <<commits, head>>
    \/ /\ commits' = commits
       /\ \E c \in Made : IsAncestor(head[m], c) /\ head' = [head EXCEPT ![m] = c]
    \/ \E tree \in Table, ver \in Version, parents \in SUBSET (Made \cup {None}) :
           /\ Committed(tree, ver, parents)
           /\ head[m] \in parents \cup {None}
           /\ head' = [head EXCEPT ![m] = NextId]

(* Either way the graph stays well formed, and every main moves forward.   *)
LEMMA MovedForward ==
    ASSUME TypeOK, Graph, NEW m \in Machine, Moved(m)
    PROVE  /\ commits' \in Seq(Commit)
           /\ Made \subseteq Made'
           /\ head' \in [Machine -> Made' \cup {None}]
           /\ Graph'
           /\ \A c \in Made : commits'[c] = commits[c]
           /\ \A n \in Machine \ {m} : head'[n] = head[n]
           /\ head[m] # None => /\ head'[m] # None
                                /\ Past(head[m]) \subseteq commits'[head'[m]].past
<1>1. head \in [Machine -> Made \cup {None}] /\ head[m] \in Made \cup {None}
  BY DEF TypeOK
<1>2. None \notin Made /\ NextId # None
  BY DEF TypeOK, Made, NextId
<1>3. CASE UNCHANGED <<commits, head>>
  BY <1>1, <1>3 DEF TypeOK, Graph, Made, Past
<1>4. CASE /\ commits' = commits
           /\ \E c \in Made : IsAncestor(head[m], c) /\ head' = [head EXCEPT ![m] = c]
  <2>. PICK c \in Made : IsAncestor(head[m], c) /\ head' = [head EXCEPT ![m] = c]
    BY <1>4
  <2>1. Made' = Made /\ Graph' /\ commits' \in Seq(Commit)
    BY <1>4 DEF TypeOK, Graph, Made
  <2>2. head' \in [Machine -> Made \cup {None}] /\ head'[m] = c
    BY <1>1
  <2>3. head[m] # None => Past(head[m]) \subseteq commits[c].past
    BY <1>1, <1>2 DEF IsAncestor, Past, Graph
  <2>. QED
    BY <1>1, <1>2, <1>4, <2>1, <2>2, <2>3
<1>5. CASE \E tree \in Table, ver \in Version, parents \in SUBSET (Made \cup {None}) :
             /\ Committed(tree, ver, parents)
             /\ head[m] \in parents \cup {None}
             /\ head' = [head EXCEPT ![m] = NextId]
  <2>. PICK tree \in Table, ver \in Version, parents \in SUBSET (Made \cup {None}) :
             /\ Committed(tree, ver, parents)
             /\ head[m] \in parents \cup {None}
             /\ head' = [head EXCEPT ![m] = NextId]
    BY <1>5
  <2>1. /\ commits' \in Seq(Commit)
        /\ Made' = Made \cup {NextId}
        /\ \A c \in Made : commits'[c] = commits[c]
        /\ \A p \in parents : Past(p) \subseteq commits'[NextId].past
        /\ Graph'
    BY CommitsGrow
  <2>2. head' \in [Machine -> Made' \cup {None}] /\ head'[m] = NextId
    BY <1>1, <2>1
  <2>. QED
    BY <1>1, <1>2, <2>1, <2>2
<1>. QED
  BY <1>3, <1>4, <1>5 DEF Moved

(* The rest of the state only ever refers to commits made before the step. *)
RestTyped ==
    /\ live' \in [Machine -> Table]
    /\ version' \in [Machine -> Version]
    /\ recent' \in [Machine -> BOOLEAN]
    /\ mergeHead' \in [Machine -> Made \cup {None}]
    /\ unmerged' \in [Machine -> BOOLEAN]
    /\ index' \in [Machine -> Table]
    /\ tracking' \in [Machine -> [Machine -> Made \cup {None}]]
    /\ remote' \in [Machine -> Made \cup {None}]
    /\ pulled' \in [Machine -> [Machine -> Made \cup {None}]]
    /\ todo' \in [Machine -> SUBSET Machine]
    /\ quarantined' \in [Machine -> SUBSET Machine]
    /\ running' \in [Machine -> Invocation]
    /\ pc' \in [Machine -> Step]

(* Moved, with the variables it does not speak of typed, keeps the types.  *)
LEMMA MovedType ==
    ASSUME TypeOK, Graph, NEW m \in Machine, Moved(m), RestTyped
    PROVE  TypeOK'
<1>. DEFINE refs == Made \cup {None}
            later == Made' \cup {None}
<1>1. commits' \in Seq(Commit) /\ refs \subseteq later /\ head' \in [Machine -> later]
  BY MovedForward
<1>2. mergeHead' \in [Machine -> later]
  BY <1>1 DEF RestTyped
<1>3. remote' \in [Machine -> later]
  BY <1>1 DEF RestTyped
<1>4. [Machine -> refs] \subseteq [Machine -> later]
  BY <1>1
<1>5. tracking' \in [Machine -> [Machine -> later]] /\ pulled' \in [Machine -> [Machine -> later]]
  BY <1>4 DEF RestTyped
<1>. HIDE DEF refs
<1>. QED
  BY <1>1, <1>2, <1>3, <1>5 DEF TypeOK, RestTyped

-----------------------------------------------------------------------------
(* The commands' starts and the turns of the merge loop.                   *)

(* Recording the live state makes at most one commit, on top of main and   *)
(* of an open merge.                                                       *)
LEMMA CommitLiveStateMoves ==
    ASSUME TypeOK, NEW m \in Machine, CommitLiveState(m)
    PROVE  /\ Moved(m)
           /\ head'[m] # None
           /\ mergeHead' \in [Machine -> Made \cup {None}]
           /\ unmerged' \in [Machine -> BOOLEAN]
           /\ index' \in [Machine -> Table]
<1>. DEFINE parents == {head[m], mergeHead[m]} \ {None}
<1>1. /\ live[m] \in Table
      /\ version[m] \in Version
      /\ head[m] \in Made \cup {None}
      /\ mergeHead[m] \in Made \cup {None}
  BY DEF TypeOK
<1>2. parents \in SUBSET (Made \cup {None}) /\ head[m] \in parents \cup {None}
  BY <1>1
<1>3. NextId # None
  BY DEF TypeOK, NextId
<1>. DEFINE same == /\ head[m] # None
                    /\ commits[head[m]].tree = live[m]
                    /\ commits[head[m]].version = version[m]
<1>4. CASE same
  <2>1. /\ index' = [index EXCEPT ![m] = IF mergeHead[m] = None THEN @ ELSE live[m]]
        /\ UNCHANGED <<commits, head, mergeHead>>
    BY <1>4 DEF CommitLiveState
  <2>2. index' \in [Machine -> Table]
    BY <1>1, <2>1 DEF TypeOK
  <2>3. unmerged' \in [Machine -> BOOLEAN]
    BY DEF CommitLiveState, TypeOK
  <2>. QED
    BY <1>4, <2>1, <2>2, <2>3 DEF TypeOK, Moved
<1>5. CASE ~ same
  <2>1. /\ index' = [index EXCEPT ![m] = NoTable]
        /\ Committed(live[m], version[m], parents)
        /\ head' = [head EXCEPT ![m] = NextId]
        /\ mergeHead' = [mergeHead EXCEPT ![m] = None]
    BY <1>5 DEF CommitLiveState, Committed
  <2>2. Moved(m)
    BY <1>1, <1>2, <2>1 DEF Moved
  <2>3. unmerged' \in [Machine -> BOOLEAN]
    BY DEF CommitLiveState, TypeOK
  <2>. QED
    BY <1>3, <2>1, <2>2, <2>3, NoTableType DEF TypeOK
<1>. QED
  BY <1>4, <1>5

(* sync, push and export move main by that commit and touch no copy.       *)
LEMMA StartMoves ==
    ASSUME TypeOK, NEW m \in Machine, NEW cmd \in Command, Start(m, cmd)
    PROVE  Moved(m) /\ RestTyped /\ head'[m] # None
<1>1. CommitLiveState(m)
  BY DEF Start
<1>2. cmd \in Invocation
  BY EngineAssumption
<1>3. running' \in [Machine -> Invocation] /\ pc' \in [Machine -> Step]
  <2>1. \/ running' = running /\ pc' = pc
        \/ running' = [running EXCEPT ![m] = cmd] /\ pc' = [pc EXCEPT ![m] = "pull"]
    BY DEF Start, control, Goto
  <2>2. running' \in [Machine -> Invocation]
    BY <1>2, <2>1 DEF TypeOK
  <2>3. pc' \in [Machine -> Step]
    BY <2>1 DEF TypeOK, Step
  <2>. QED
    BY <2>2, <2>3
<1>4. quarantined' \in [Machine -> SUBSET Machine]
  BY DEF Start, TypeOK
<1>. QED
  BY <1>1, <1>3, <1>4, CommitLiveStateMoves DEF Start, TypeOK, RestTyped, liveVars

(* A sync that refuses to start moves nothing.                             *)
LEMMA StartRefusedMoves ==
    ASSUME TypeOK, NEW m \in Machine, NEW cmd \in Command, StartRefused(m, cmd)
    PROVE  Moved(m) /\ RestTyped
BY DEF StartRefused, Moved, RestTyped, TypeOK, liveVars, repoVars, control

(* What resume commits carries the schema dump of one of the two sides.    *)
LEMMA ResolvedVersionsKnown ==
    ASSUME TypeOK, NEW m \in Machine, head[m] # None, mergeHead[m] # None,
           NEW ver \in ResolvedVersions(m)
    PROVE  /\ ver \in Version
           /\ ver \in {commits[head[m]].version, commits[mergeHead[m]].version}
<1>1. head[m] \in Made /\ mergeHead[m] \in Made
  BY DEF TypeOK
<1>2. ver \in {commits[head[m]].version, commits[mergeHead[m]].version}
  BY DEF ResolvedVersions, SchemaConflict, MergedVersion
<1>. QED
  BY <1>1, <1>2, CommitType

(* resume moves main by the merge commit it completes, if there is one.    *)
LEMMA ResumeMoves ==
    ASSUME TypeOK, NEW m \in Machine, NEW cmd \in Command, Resume(m, cmd)
    PROVE  Moved(m) /\ RestTyped /\ head'[m] # None
<1>1. cmd \in Invocation
  BY EngineAssumption
<1>2. /\ index[m] \in Table
      /\ head[m] \in Made
      /\ mergeHead[m] \in Made \cup {None}
      /\ commits[head[m]].version \in Version
  BY CommitType DEF Resume, TypeOK
<1>3. NextId # None
  BY DEF TypeOK, NextId
<1>4. mergeHead' \in [Machine -> Made \cup {None}]
  BY DEF Resume, TypeOK
<1>5. RestTyped
  BY <1>1, <1>4, NoTableType DEF Resume, TypeOK, RestTyped, liveVars, transfer, Goto, Step
<1>6. Moved(m)
  <2>1. CASE mergeHead[m] = None
    BY <2>1 DEF Resume, Moved
  <2>2. CASE mergeHead[m] # None
    <3>1. PICK ver \in ResolvedVersions(m) :
                Committed(index[m], ver, {head[m], mergeHead[m]})
      BY <2>2 DEF Resume, Committed
    <3>2. head' = [head EXCEPT ![m] = NextId]
      BY <2>2 DEF Resume
    <3>3. {head[m], mergeHead[m]} \in SUBSET (Made \cup {None})
      BY <1>2
    <3>4. ver \in Version
      BY <2>2, ResolvedVersionsKnown DEF Resume
    <3>. QED
      BY <1>2, <3>1, <3>2, <3>3, <3>4 DEF Moved
  <2>. QED
    BY <2>1, <2>2
<1>8. head'[m] # None
  BY <1>3 DEF Resume, TypeOK
<1>. QED
  BY <1>5, <1>6, <1>8

(* The loop's next ref is one it has yet to visit.                         *)
LEMMA NextRefPicked ==
    ASSUME TypeOK, NEW m \in Machine, todo[m] # {}
    PROVE  NextRef(m) \in todo[m] /\ NextRef(m) \in Machine
<1>1. todo[m] \subseteq Machine /\ todo[m] \subseteq Nat
  BY EngineAssumption DEF TypeOK
<1>2. \E first \in todo[m] : \A o \in todo[m] : first <= o
  BY <1>1, LeastNumber
<1>. QED
  BY <1>1, <1>2 DEF NextRef

(* The turns of the merge loop: only a true merge makes a commit.          *)
LEMMA MergeRefMoves ==
    ASSUME TypeOK, Headed, NEW m \in Machine, MergeRef(m)
    PROVE  /\ Moved(m)
           /\ RestTyped
           /\ head'[m] # None
           /\ pc' = pc \/ pc' = [pc EXCEPT ![m] = "idle"]
           /\ UNCHANGED <<tracking, remote>>
           /\ pulled' = pulled \/ pulled' = [pulled EXCEPT ![m] = NothingPulled]
<1>. DEFINE n == NextRef(m)
            c == tracking[m][n]
<1>1. pc[m] = "merge" /\ todo[m] # {} /\ UNCHANGED <<liveVars, tracking, remote>>
  BY DEF MergeRef
<1>2. head[m] # None /\ head[m] \in Made
  BY <1>1 DEF Headed, TypeOK
<1>3. n \in Machine
  BY <1>1, NextRefPicked
<1>4. c \in Made \cup {None}
  BY <1>3 DEF TypeOK
<1>5. NextId # None
  BY DEF TypeOK, NextId
<1>6. todo' = [todo EXCEPT ![m] = @ \ {n}] => todo' \in [Machine -> SUBSET Machine]
  BY DEF TypeOK
<1>7. CASE SkipKnown(m, n)
  BY <1>1, <1>2, <1>6, <1>7
     DEF SkipKnown, Visited, Moved, RestTyped, TypeOK, liveVars, repoVars, control
<1>8. CASE Quarantine(m, n)
  BY <1>1, <1>2, <1>3, <1>6, <1>8
     DEF Quarantine, Visited, Moved, RestTyped, TypeOK, liveVars, repoVars, control
<1>9. CASE SkipBlocked(m, n)
  BY <1>1, <1>2, <1>6, <1>9
     DEF SkipBlocked, Visited, Moved, RestTyped, TypeOK, liveVars, repoVars, control
<1>10. CASE FastForward(m, n)
  <2>1. c \in Made /\ IsAncestor(head[m], c)
    BY <1>2, <1>4, <1>10 DEF FastForward, Mergeable, IsAncestor, Past
  <2>2. Moved(m) /\ head'[m] # None
    <3>1. /\ commits' = commits
          /\ head' = [head EXCEPT ![m] = c]
      BY <1>10 DEF FastForward
    <3>2. c # None
      BY <2>1 DEF Made
    <3>. QED
      BY <2>1, <3>1, <3>2 DEF Moved, TypeOK
  <2>. QED
    BY <1>1, <1>6, <1>10, <2>2
       DEF FastForward, Visited, RestTyped, TypeOK, liveVars, control
<1>11. CASE TrueMerge(m, n)
  <2>. DEFINE how == running[m].strategy
              base == Base(MergeBases({head[m]}, c), how)
              ours == commits[head[m]]
              theirs == commits[c]
              tree == MergeTable(base.tree, ours.tree, theirs.tree, how)
              ver == MergedVersion(base.version, ours.version, theirs.version)
  <2>1. c \in Made
    BY <1>4, <1>11 DEF TrueMerge, Mergeable, IsAncestor
  <2>2. /\ ours.tree \in Table /\ ours.version \in Version
        /\ theirs.tree \in Table /\ theirs.version \in Version
    BY <1>2, <2>1, CommitType
  <2>3. tree \in Table
    BY <2>2, MergeTableType
  <2>4. SchemaConflict(base.version, ours.version, theirs.version) \/ ver \in Version
    BY <2>2 DEF MergedVersion, SchemaConflict
  <2>5. CASE /\ unmerged' = [unmerged EXCEPT ![m] = TRUE]
             /\ mergeHead' = [mergeHead EXCEPT ![m] = c]
             /\ index' = [index EXCEPT ![m] = tree]
             /\ StopUnmerged(m, n)
             /\ UNCHANGED <<commits, head>>
    <3>. HIDE DEF tree, c
    <3>1. index' \in [Machine -> Table] /\ mergeHead' \in [Machine -> Made \cup {None}]
      BY <1>4, <2>3, <2>5 DEF TypeOK
    <3>2. running' \in [Machine -> Invocation] /\ pc' \in [Machine -> Step]
      BY <2>5, NoInvocationType DEF StopUnmerged, Finish, Goto, TypeOK, Step
    <3>3. /\ unmerged' \in [Machine -> BOOLEAN]
          /\ pulled' \in [Machine -> [Machine -> Made \cup {None}]]
          /\ todo' \in [Machine -> SUBSET Machine]
      BY <2>5 DEF StopUnmerged, Finish, TypeOK, NothingPulled
    <3>4. quarantined' = quarantined
      BY <1>11 DEF TrueMerge
    <3>5. RestTyped
      BY <1>1, <3>1, <3>2, <3>3, <3>4 DEF RestTyped, TypeOK, liveVars
    <3>. QED
      BY <1>1, <1>2, <2>5, <3>5 DEF Moved, StopUnmerged, Finish, Goto
  <2>6. CASE /\ ver \in Version
             /\ commits' = Append(commits, NewCommit(tree, ver, {head[m], c}))
             /\ head' = [head EXCEPT ![m] = NextId]
             /\ Visited(m, n)
             /\ UNCHANGED <<mergeHead, unmerged, index, pulled, control>>
    <3>1. Committed(tree, ver, {head[m], c}) /\ {head[m], c} \in SUBSET (Made \cup {None})
      BY <1>2, <2>1, <2>6 DEF Committed
    <3>. HIDE DEF tree, ver, c
    <3>2. Moved(m)
      BY <2>3, <2>6, <3>1 DEF Moved
    <3>3. head'[m] # None
      BY <1>5, <2>6 DEF TypeOK
    <3>4. quarantined' = quarantined
      BY <1>11 DEF TrueMerge
    <3>5. RestTyped
      BY <1>1, <1>6, <2>6, <3>4 DEF Visited, RestTyped, TypeOK, liveVars, control
    <3>. QED
      BY <1>1, <2>6, <3>2, <3>3, <3>5 DEF control
  <2>. QED
    BY <1>11, <2>4, <2>5, <2>6 DEF TrueMerge
<1>. QED
  BY <1>7, <1>8, <1>9, <1>10, <1>11 DEF MergeRef

-----------------------------------------------------------------------------
(* Copies of a machine's bundle only ever come from other copies of it or  *)
(* from its main.                                                          *)

(* Steps outside the transfer leave every copy where it was.               *)
LEMMA QuietCopies ==
    ASSUME TypeOK, NEW m \in Machine,
           \/ \E k \in Key, cell \in Cell : Write(m, k, cell)
           \/ Quiesce(m) \/ Upgrade(m) \/ Crash(m) \/ ResolveByHand(m) \/ AbortMerge(m)
    PROVE  /\ UNCHANGED <<commits, head, tracking, remote>>
           /\ pc' = pc \/ pc' = [pc EXCEPT ![m] = "idle"]
           /\ pulled' = pulled \/ pulled' = [pulled EXCEPT ![m] = NothingPulled]
BY DEF Write, Quiesce, Upgrade, Crash, ResolveByHand, AbortMerge,
       Finish, Goto, transfer, repoVars, control

(* Where a step leaves the copies: Stored is what any of them may hold.    *)
Stored(n) == {remote[n], None}
             \cup (IF pc[n] = "publish" THEN {head[n]} ELSE {})
             \cup {tracking[m][n] : m \in Machine} \cup {pulled[m][n] : m \in Machine}

CopiesFollow ==
    \A m, n \in Machine : {remote'[n], pulled'[m][n], tracking'[m][n]} \subseteq Stored(n)

(* The end of a command drops what it pulled and changes no other copy.    *)
LEMMA ResetCopies ==
    ASSUME TypeOK, NEW m \in Machine,
           UNCHANGED <<tracking, remote>>,
           pulled' = pulled \/ pulled' = [pulled EXCEPT ![m] = NothingPulled]
    PROVE  CopiesFollow
<1>1. ASSUME NEW o \in Machine, NEW n \in Machine
      PROVE  pulled'[o][n] \in {pulled[o][n], None}
  <2>1. NothingPulled[n] = None
    BY DEF NothingPulled
  <2>2. pulled'[o] \in {pulled[o], NothingPulled}
    BY DEF TypeOK
  <2>. QED
    BY <2>1, <2>2
<1>. QED
  BY <1>1 DEF CopiesFollow, Stored

(* A pull copies what the remote holds, and a fetch what was pulled.       *)
LEMMA PullCopies ==
    ASSUME TypeOK, NEW m \in Machine, Pull(m)
    PROVE  CopiesFollow
<1>. DEFINE row(got, F) == [n \in Machine |-> IF n \in F THEN got[n] ELSE tracking[m][n]]
<1>. PICK got \in {remote} \cup (IF "pull" \in Fault THEN {NothingPulled} ELSE {}) :
       /\ pulled' = [pulled EXCEPT ![m] = got]
       /\ \/ UNCHANGED tracking
          \/ tracking' = [tracking EXCEPT ![m] = row(got, {n \in Machine : Fetchable(m, n, got)})]
  BY DEF Pull
<1>1. remote' = remote
  BY DEF Pull
<1>2. \A n \in Machine : got[n] \in {remote[n], None}
  BY DEF NothingPulled
<1>3. ASSUME NEW o \in Machine, NEW n \in Machine
      PROVE  pulled'[o][n] \in {pulled[o][n], got[n]}
  BY DEF TypeOK
<1>4. ASSUME NEW o \in Machine, NEW n \in Machine
      PROVE  tracking'[o][n] \in {tracking[o][n], got[n]}
  <2>1. \A F : row(got, F)[n] \in {tracking[m][n], got[n]}
    OBVIOUS
  <2>. HIDE DEF row
  <2>. QED
    BY <2>1 DEF TypeOK
<1>. QED
  BY <1>1, <1>2, <1>3, <1>4 DEF CopiesFollow, Stored

(* A publish stores the own main, and of the others what was pulled.       *)
LEMMA PublishCopies ==
    ASSUME TypeOK, NEW m \in Machine, Publish(m)
    PROVE  CopiesFollow
<1>1. /\ remote' = [pulled[m] EXCEPT ![m] = head[m]] \/ remote' = remote
      /\ pulled' = [pulled EXCEPT ![m] = NothingPulled]
      /\ UNCHANGED <<head, tracking>>
  BY DEF Publish, Outgoing, Finish, repoVars
<1>2. \A n \in Machine : \/ remote'[n] \in {remote[n], pulled[m][n]}
                         \/ remote'[n] = head[n] /\ pc[n] = "publish"
  BY <1>1 DEF Publish, TypeOK
<1>3. \A o, n \in Machine : pulled'[o][n] \in {pulled[o][n], None}
  BY <1>1 DEF TypeOK, NothingPulled
<1>. QED
  BY <1>1, <1>2, <1>3 DEF CopiesFollow, Stored

-----------------------------------------------------------------------------
(* Every step, taken together.                                             *)
LEMMA EveryStep ==
    ASSUME TypeOK, Graph, Headed, NEW m \in Machine,
           Begin(m) \/ Continue(m) \/ Environment(m)
    PROVE  TypeOK' /\ Headed' /\ Moved(m) /\ CopiesFollow
<1>. USE DEF Headed
<1>1. CASE Begin(m)
  <2>. PICK cmd \in Command : Start(m, cmd) \/ StartRefused(m, cmd) \/ Resume(m, cmd)
    BY <1>1 DEF Begin
  <2>1. UNCHANGED <<tracking, remote, pulled>>
    BY DEF Start, StartRefused, Resume, transfer
  <2>2. CopiesFollow
    BY <2>1, ResetCopies
  <2>3. Moved(m) /\ RestTyped
    BY StartMoves, StartRefusedMoves, ResumeMoves
  <2>4. TypeOK'
    BY <2>3, MovedType
  <2>5. \A n \in Machine \ {m} : head'[n] = head[n] /\ pc'[n] = pc[n]
    BY <2>3, MovedForward DEF Start, StartRefused, Resume, control, Goto, TypeOK
  <2>6. pc'[m] # "idle" => head'[m] # None
    <3>1. CASE Start(m, cmd) \/ Resume(m, cmd)
      BY <3>1, StartMoves, ResumeMoves
    <3>2. CASE StartRefused(m, cmd)
      BY <3>2 DEF StartRefused, control, repoVars
    <3>. QED
      BY <3>1, <3>2
  <2>. QED
    BY <2>2, <2>3, <2>4, <2>5, <2>6
<1>2. CASE MergeRef(m)
  <2>1. /\ Moved(m) /\ RestTyped /\ head'[m] # None
        /\ pc' = pc \/ pc' = [pc EXCEPT ![m] = "idle"]
        /\ UNCHANGED <<tracking, remote>>
        /\ pulled' = pulled \/ pulled' = [pulled EXCEPT ![m] = NothingPulled]
    BY <1>2, MergeRefMoves
  <2>2. TypeOK' /\ CopiesFollow
    BY <2>1, MovedType, ResetCopies
  <2>3. \A n \in Machine \ {m} : head'[n] = head[n] /\ pc'[n] = pc[n]
    BY <2>1, MovedForward DEF TypeOK
  <2>. QED
    BY <2>1, <2>2, <2>3
<1>3. CASE Pull(m) \/ EndWithoutPack(m) \/ Pack(m) \/ Publish(m)
  <2>1. TypeOK'
    BY <1>3, ContinueType
  <2>2. UNCHANGED <<commits, head>>
    BY <1>3 DEF Pull, EndWithoutPack, Pack, Publish, repoVars
  <2>3. CopiesFollow
    <3>1. CASE EndWithoutPack(m) \/ Pack(m)
      BY <3>1, ResetCopies DEF EndWithoutPack, Pack, Finish, transfer
    <3>. QED
      BY <1>3, <3>1, PullCopies, PublishCopies
  <2>4. pc[m] # "idle" /\ \A n \in Machine \ {m} : pc'[n] = pc[n]
    BY <1>3 DEF Pull, EndWithoutPack, Pack, Publish, Applying, Finish, Goto, TypeOK
  <2>. QED
    BY <2>1, <2>2, <2>3, <2>4 DEF Moved
<1>4. CASE Environment(m)
  <2>1. TypeOK'
    BY <1>4, QuietType DEF Environment
  <2>2. /\ UNCHANGED <<commits, head, tracking, remote>>
        /\ pc' = pc \/ pc' = [pc EXCEPT ![m] = "idle"]
        /\ pulled' = pulled \/ pulled' = [pulled EXCEPT ![m] = NothingPulled]
    BY <1>4, QuietCopies DEF Environment
  <2>3. CopiesFollow
    BY <2>2, ResetCopies
  <2>. QED
    BY <2>1, <2>2, <2>3 DEF Moved, TypeOK
<1>. QED
  BY <1>1, <1>2, <1>3, <1>4 DEF Continue

-----------------------------------------------------------------------------
(* What the theorems about a machine's own state need of a step.           *)

(* A step of one machine leaves every other machine's own state alone.     *)
Untouched(n) ==
    /\ live'[n] = live[n] /\ version'[n] = version[n] /\ recent'[n] = recent[n]
    /\ head'[n] = head[n] /\ mergeHead'[n] = mergeHead[n]
    /\ unmerged'[n] = unmerged[n] /\ index'[n] = index[n]
    /\ todo'[n] = todo[n] /\ running'[n] = running[n] /\ pc'[n] = pc[n]

(* The four things a turn of the merge loop does to the repository, with c *)
(* the commit its ref names.                                               *)
Skipped(m) == UNCHANGED <<repoVars, control>>

Forwarded(m, c) ==
    /\ head' = [head EXCEPT ![m] = c]
    /\ UNCHANGED <<commits, mergeHead, unmerged, index, control>>

StoppedAt(m, c, tree) ==
    /\ unmerged' = [unmerged EXCEPT ![m] = TRUE]
    /\ mergeHead' = [mergeHead EXCEPT ![m] = c]
    /\ index' = [index EXCEPT ![m] = tree]
    /\ UNCHANGED <<commits, head>>
    /\ Finish(m)

MergedWith(m, c, tree, ver) ==
    /\ Committed(tree, ver, {head[m], c})
    /\ head' = [head EXCEPT ![m] = NextId]
    /\ UNCHANGED <<mergeHead, unmerged, index, control>>

(* The rows of a merge are the two sides', in some mix.                    *)
Mix(tree, ours, theirs) ==
    tree \in Table /\ \A k \in Key : tree[k] \in {ours[k], theirs[k]}

(* Every row of a merged table is one of the two sides'.                   *)
LEMMA MergeTableMixes ==
    ASSUME NEW base, NEW ours \in Table, NEW theirs \in Table, NEW strategy
    PROVE  Mix(MergeTable(base, ours, theirs, strategy), ours, theirs)
<1>1. ASSUME NEW k \in Key
      PROVE  MergeRow(base[k], ours[k], theirs[k], strategy) \in {ours[k], theirs[k]}
  BY DEF MergeRow, AutoRow, Winner, Newer, Tiebreak
<1>2. DOMAIN ours = Key
  BY DEF Table
<1>. QED
  BY <1>1, <1>2, MergeTableType DEF MergeTable, Mix

(* A merge that goes through takes its schema dump from one side, and from *)
(* the changed side where the sides differ.                                *)
Schema(base, ours, theirs, ver) ==
    \/ ver = ours /\ ours = theirs
    \/ ver = theirs /\ ours = base
    \/ ver = ours /\ theirs = base

(* One turn: the ref is skipped, or its commit is compatible (unless       *)
(* forced) and main is forwarded to it, merged with it, or left in the     *)
(* middle of a merge that a user or two schemas make impossible to finish. *)
Turn(m, n, c) ==
    \/ Skipped(m)
    \/ /\ c \in Made
       /\ ~ Refused(m, c)
       /\ mergeHead[m] = None
       /\ \/ Forwarded(m, c)
          \/ \E tree : /\ Mix(tree, commits[head[m]].tree, commits[c].tree)
                       /\ StoppedAt(m, c, tree)
                       /\ \/ running[m].strategy = "manual"
                          \/ commits[head[m]].version # commits[c].version
          \/ \E tree, ver :
                       /\ Mix(tree, commits[head[m]].tree, commits[c].tree)
                       /\ Schema(Base(MergeBases({head[m]}, c), running[m].strategy).version,
                                 commits[head[m]].version, commits[c].version, ver)
                       /\ MergedWith(m, c, tree, ver)

(* Every turn of the loop in merge_remote_refs is one of these.            *)
LEMMA MergeTurn ==
    ASSUME TypeOK, Headed, NEW m \in Machine, MergeRef(m)
    PROVE  /\ pc[m] = "merge" /\ head[m] \in Made /\ UNCHANGED liveVars
           /\ \E n \in todo[m] :
                /\ n \in Machine
                /\ Turn(m, n, tracking[m][n])
           /\ todo' \in {[todo EXCEPT ![m] = S] : S \in SUBSET todo[m]}
<1>. DEFINE n == NextRef(m)
            c == tracking[m][n]
<1>1. pc[m] = "merge" /\ todo[m] # {} /\ UNCHANGED liveVars
  BY DEF MergeRef
<1>2. head[m] # None /\ head[m] \in Made
  BY <1>1 DEF Headed, TypeOK
<1>3. n \in todo[m] /\ n \in Machine
  BY <1>1, NextRefPicked
<1>4. Mergeable(m, n) => c \in Made /\ ~ Refused(m, c)
  BY <1>3 DEF Mergeable, IsAncestor, TypeOK
<1>5. Visited(m, n) \/ Finish(m) => todo' \in {[todo EXCEPT ![m] = S] : S \in SUBSET todo[m]}
  <2>1. todo[m] \ {n} \in SUBSET todo[m] /\ {} \in SUBSET todo[m]
    OBVIOUS
  <2>. HIDE DEF n
  <2>. QED
    BY <2>1 DEF Visited, Finish
<1>6. CASE SkipKnown(m, n) \/ Quarantine(m, n) \/ SkipBlocked(m, n)
  BY <1>1, <1>2, <1>3, <1>5, <1>6 DEF SkipKnown, Quarantine, SkipBlocked, Turn, Skipped
<1>7. CASE FastForward(m, n)
  BY <1>1, <1>2, <1>3, <1>4, <1>5, <1>7 DEF FastForward, Turn, Forwarded
<1>8. CASE TrueMerge(m, n)
  <2>. DEFINE how == running[m].strategy
              base == Base(MergeBases({head[m]}, c), how)
              ours == commits[head[m]]
              theirs == commits[c]
              tree == MergeTable(base.tree, ours.tree, theirs.tree, how)
              ver == MergedVersion(base.version, ours.version, theirs.version)
              stuck == \/ Unresolved(base.tree, ours.tree, theirs.tree, how)
                       \/ SchemaConflict(base.version, ours.version, theirs.version)
  <2>1. c \in Made /\ ~ Refused(m, c) /\ mergeHead[m] = None
    BY <1>4, <1>8 DEF TrueMerge
  <2>2. ours.tree \in Table /\ theirs.tree \in Table
    BY <1>2, <2>1, CommitType
  <2>3. Mix(tree, ours.tree, theirs.tree)
    BY <2>2, MergeTableMixes
  <2>5. CASE stuck
    <3>1. StoppedAt(m, c, tree)
      BY <1>8, <2>5 DEF TrueMerge, StoppedAt, StopUnmerged
    <3>2. how = "manual" \/ ours.version # theirs.version
      BY <2>5 DEF Unresolved, SchemaConflict
    <3>. HIDE DEF tree
    <3>. QED
      BY <1>1, <1>2, <1>3, <1>5, <2>1, <2>3, <3>1, <3>2 DEF Turn, StoppedAt
  <2>6. CASE ~ stuck
    <3>1. MergedWith(m, c, tree, ver) /\ Visited(m, n)
      BY <1>8, <2>6 DEF TrueMerge, MergedWith, Committed
    <3>2. Schema(base.version, ours.version, theirs.version, ver)
      BY <2>6 DEF SchemaConflict, MergedVersion, Schema
    <3>. HIDE DEF tree, ver
    <3>. QED
      BY <1>1, <1>2, <1>3, <1>5, <2>1, <2>3, <3>1, <3>2 DEF Turn
  <2>. QED
    BY <2>5, <2>6
<1>. QED
  BY <1>6, <1>7, <1>8 DEF MergeRef

(* Whatever machine m does, the others' own state stays.                   *)
LEMMA OthersUntouched ==
    ASSUME TypeOK, Headed, NEW m \in Machine,
           Begin(m) \/ Continue(m) \/ Environment(m),
           NEW n \in Machine, n # m
    PROVE  Untouched(n)
<1>. USE DEF TypeOK, Untouched
<1>1. CASE Begin(m)
  <2>. PICK cmd \in Command : Start(m, cmd) \/ StartRefused(m, cmd) \/ Resume(m, cmd)
    BY <1>1 DEF Begin
  <2>1. CASE Start(m, cmd)
    <3>1. UNCHANGED <<liveVars, todo>>
      BY <2>1 DEF Start
    <3>2. running'[n] = running[n] /\ pc'[n] = pc[n]
      BY <2>1 DEF Start, control, Goto
    <3>3. head'[n] = head[n] /\ mergeHead'[n] = mergeHead[n]
          /\ unmerged'[n] = unmerged[n] /\ index'[n] = index[n]
      BY <2>1 DEF Start, CommitLiveState
    <3>. QED
      BY <3>1, <3>2, <3>3 DEF liveVars
  <2>2. CASE StartRefused(m, cmd)
    BY <2>2 DEF StartRefused, liveVars, repoVars, control
  <2>3. CASE Resume(m, cmd)
    <3>1. head'[n] = head[n] /\ mergeHead'[n] = mergeHead[n]
      BY <2>3 DEF Resume
    <3>. QED
      BY <2>3, <3>1 DEF Resume, Goto, liveVars, transfer
  <2>. QED
    BY <2>1, <2>2, <2>3
<1>2. CASE MergeRef(m)
  <2>1. todo'[n] = todo[n] /\ UNCHANGED liveVars
    BY <1>2, MergeTurn
  <2>2. PICK r \in Machine : Turn(m, r, tracking[m][r])
    BY <1>2, MergeTurn
  <2>. QED
    BY <2>1, <2>2 DEF Turn, Skipped, Forwarded, StoppedAt, MergedWith, Finish, Goto,
                      repoVars, control, liveVars
<1>3. CASE Pull(m) \/ EndWithoutPack(m) \/ Publish(m)
  BY <1>3 DEF Pull, EndWithoutPack, Publish, Finish, Goto, liveVars, repoVars
<1>4. CASE Pack(m)
  BY <1>4 DEF Pack, Goto, repoVars, transfer
<1>5. CASE Environment(m)
  <2>1. CASE \E k \in Key, cell \in Cell : Write(m, k, cell)
    BY <2>1 DEF Write, repoVars, transfer, control
  <2>2. CASE Crash(m)
    BY <2>2 DEF Crash, Finish, Goto, liveVars, repoVars
  <2>. QED
    BY <1>5, <2>1, <2>2 DEF Environment, Quiesce, Upgrade, ResolveByHand, AbortMerge,
                            liveVars, repoVars, transfer, control
<1>. QED
  BY <1>1, <1>2, <1>3, <1>4, <1>5 DEF Continue

-----------------------------------------------------------------------------
(* What git merges against.                                                *)

Newest(T) == CHOOSE c \in T : \A d \in T : d <= c

(* One step of the recursion in Base, and what it defines up to the commit *)
(* n.                                                                      *)
BaseStep(base, T, strategy) ==
    LET rest == T \ {Newest(T)}
        below == base[MergeBases(rest, Newest(T))]
        other == base[rest]
        new == commits[Newest(T)]
    IN  IF T = {} THEN [tree |-> NoTable, version |-> None]
        ELSE IF rest = {} THEN [tree |-> new.tree, version |-> new.version]
        ELSE [tree |-> MergeTable(below.tree, other.tree, new.tree, strategy),
              version |-> MergedVersion(below.version, other.version, new.version)]

IsBases(n, base, strategy) ==
    base = [T \in SUBSET (1 .. n) |-> BaseStep(base, T, strategy)]

(* A set of commits has a newest one.                                      *)
LEMMA NewestCommit ==
    ASSUME NEW n \in Nat, NEW T \in SUBSET (1 .. n), T # {}
    PROVE  Newest(T) \in T /\ \A d \in T : d <= Newest(T)
<1>. DEFINE U == {n - t : t \in T}
<1>1. U \in SUBSET Nat /\ U # {}
  <2>1. \A t \in T : t \in Nat /\ t <= n
    OBVIOUS
  <2>2. \A t \in T : n - t \in Nat
    BY <2>1
  <2>. QED
    BY <2>2
<1>. HIDE DEF U
<1>2. PICK i \in U : \A j \in U : i <= j
  BY <1>1, LeastNumber
<1>3. PICK t \in T : i = n - t
  BY DEF U
<1>4. \A d \in T : n - d \in U
  BY DEF U
<1>5. \A d \in T : d <= t
  BY <1>2, <1>3, <1>4
<1>. QED
  BY <1>5 DEF Newest

(* The others, and what they have in common with it, are all older.        *)
LEMMA OlderCommits ==
    ASSUME Graph, Len(commits) \in Nat, NEW n \in 0 .. Len(commits), NEW T \in SUBSET (1 .. n), T # {}
    PROVE  /\ Newest(T) \in T /\ T \ {Newest(T)} \in SUBSET (1 .. n - 1)
           /\ MergeBases(T \ {Newest(T)}, Newest(T)) \in SUBSET (1 .. n - 1)
<1>1. n \in Nat
  OBVIOUS
<1>2. Newest(T) \in T /\ \A d \in T : d <= Newest(T)
  BY <1>1, NewestCommit
<1>3. \A d \in T \ {Newest(T)} : d \in 1 .. n - 1 /\ d \in Made
  <2>. DEFINE new == Newest(T)
  <2>. HIDE DEF new
  <2>1. ASSUME NEW d \in T \ {new}, new \in T, d <= new
        PROVE  d \in 1 .. n - 1 /\ d \in Made
    <3>1. d \in 1 .. n /\ new \in 1 .. n /\ d # new
      BY <2>1
    <3>. QED
      BY <1>1, <2>1, <3>1 DEF Made
  <2>. QED
    BY <1>2, <2>1 DEF new
<1>4. \A d \in T \ {Newest(T)} : Past(d) \subseteq 1 .. n - 1
  <2>. SUFFICES ASSUME NEW d \in T \ {Newest(T)} PROVE Past(d) \subseteq 1 .. n - 1
    OBVIOUS
  <2>1. commits[d].past \subseteq 1 .. d
    BY <1>3 DEF Graph
  <2>. QED
    BY <1>1, <1>3, <2>1 DEF Past
<1>5. MergeBases(T \ {Newest(T)}, Newest(T)) \subseteq UNION {Past(d) : d \in T \ {Newest(T)}}
  BY DEF MergeBases
<1>. QED
  BY <1>2, <1>3, <1>4, <1>5

(* The recursion is well founded.                                          *)
LEMMA BasesExist ==
    ASSUME Graph, Len(commits) \in Nat, NEW strategy
    PROVE  \E base : IsBases(Len(commits), base, strategy)
<1>. DEFINE stuck == {n \in 0 .. Len(commits) : ~ \E f : IsBases(n, f, strategy)}
<1>. SUFFICES ASSUME stuck # {}
              PROVE  FALSE
  OBVIOUS
<1>1. PICK n \in stuck : \A j \in stuck : n <= j
  <2>1. stuck \in SUBSET Nat
    OBVIOUS
  <2>. HIDE DEF stuck
  <2>. QED
    BY <2>1, LeastNumber
<1>2. CASE n = 0
  <2>. DEFINE g == [T \in SUBSET (1 .. 0) |-> [tree |-> NoTable, version |-> None]]
  <2>1. \A T \in SUBSET (1 .. 0) : BaseStep(g, T, strategy) = [tree |-> NoTable, version |-> None]
    BY DEF BaseStep
  <2>2. IsBases(0, g, strategy)
    BY <2>1 DEF IsBases
  <2>. HIDE DEF g
  <2>. QED
    BY <1>1, <1>2, <2>2
<1>3. CASE n # 0
  <2>1. n \in 0 .. Len(commits) /\ n - 1 \in 0 .. Len(commits) /\ n - 1 \notin stuck
    BY <1>1, <1>3
  <2>2. PICK f : IsBases(n - 1, f, strategy)
    BY <2>1
  <2>. DEFINE Old == SUBSET (1 .. n - 1)
              g == [T \in SUBSET (1 .. n) |-> BaseStep(f, T, strategy)]
  <2>3. ASSUME NEW T \in Old
        PROVE  T \in SUBSET (1 .. n) /\ g[T] = f[T]
    <3>1. T \in SUBSET (1 .. n)
      BY <2>1
    <3>2. f[T] = BaseStep(f, T, strategy)
      BY <2>2 DEF IsBases
    <3>. QED
      BY <3>1, <3>2
  <2>. HIDE DEF g
  <2>4. ASSUME NEW T \in SUBSET (1 .. n)
        PROVE  BaseStep(f, T, strategy) = BaseStep(g, T, strategy)
    <3>1. CASE T = {}
      BY <3>1 DEF BaseStep
    <3>2. CASE T # {}
      <4>1. T \ {Newest(T)} \in Old /\ MergeBases(T \ {Newest(T)}, Newest(T)) \in Old
        BY <2>1, <3>2, OlderCommits
      <4>2. /\ g[T \ {Newest(T)}] = f[T \ {Newest(T)}]
            /\ g[MergeBases(T \ {Newest(T)}, Newest(T))] = f[MergeBases(T \ {Newest(T)}, Newest(T))]
        BY <2>3, <4>1
      <4>. QED
        BY <4>2 DEF BaseStep
    <3>. QED
      BY <3>1, <3>2
  <2>5. IsBases(n, g, strategy)
    BY <2>4 DEF IsBases, g
  <2>. QED
    BY <1>1, <2>5
<1>. QED
  BY <1>2, <1>3

(* What one step of the recursion gives, part by part.                     *)
StepGives(base, T, strategy) ==
    LET rest == T \ {Newest(T)}
        both == MergeBases(rest, Newest(T))
        new == commits[Newest(T)]
    IN  /\ T = {} => base[T].tree = NoTable /\ base[T].version = None
        /\ T # {} /\ rest = {} => base[T].tree = new.tree /\ base[T].version = new.version
        /\ T # {} /\ rest # {} =>
              /\ base[T].tree = MergeTable(base[both].tree, base[rest].tree, new.tree, strategy)
              /\ base[T].version = MergedVersion(base[both].version, base[rest].version, new.version)

(* So Base is the function its recursion describes.                        *)
LEMMA BaseUnfolds ==
    ASSUME TypeOK, Graph, NEW strategy
    PROVE  \E base : /\ \A T \in SUBSET Made : StepGives(base, T, strategy)
                     /\ \A T \in SUBSET Made : Base(T, strategy) = base[T]
<1>. DEFINE base == CHOOSE f : IsBases(Len(commits), f, strategy)
<1>1. Len(commits) \in Nat
  BY DEF TypeOK
<1>2. IsBases(Len(commits), base, strategy)
  BY <1>1, BasesExist
<1>3. \A T \in SUBSET Made : Base(T, strategy) = base[T]
  BY DEF Base, IsBases, BaseStep, Newest, Made
<1>. HIDE DEF base
<1>4. ASSUME NEW T \in SUBSET Made
      PROVE  StepGives(base, T, strategy)
  <2>. DEFINE rest == T \ {Newest(T)}
              both == MergeBases(rest, Newest(T))
              new == commits[Newest(T)]
  <2>1. base[T] = BaseStep(base, T, strategy)
    BY <1>2, <1>4 DEF IsBases, Made
  <2>2. T = {} => base[T] = [tree |-> NoTable, version |-> None]
    BY <2>1 DEF BaseStep
  <2>3. T # {} /\ rest = {} => base[T] = [tree |-> new.tree, version |-> new.version]
    BY <2>1 DEF BaseStep
  <2>4. T # {} /\ rest # {} => base[T] =
          [tree |-> MergeTable(base[both].tree, base[rest].tree, new.tree, strategy),
           version |-> MergedVersion(base[both].version, base[rest].version, new.version)]
    BY <2>1 DEF BaseStep
  <2>. HIDE DEF rest, both, new
  <2>5. /\ T = {} => base[T].tree = NoTable /\ base[T].version = None
        /\ T # {} /\ rest = {} => base[T].tree = new.tree /\ base[T].version = new.version
        /\ T # {} /\ rest # {} =>
              /\ base[T].tree = MergeTable(base[both].tree, base[rest].tree, new.tree, strategy)
              /\ base[T].version = MergedVersion(base[both].version, base[rest].version, new.version)
    BY <2>2, <2>3, <2>4
  <2>. QED
    BY <2>5 DEF rest, both, new, StepGives
<1>. QED
  BY <1>3, <1>4

(* What git merges against holds rows of the best common ancestors only,   *)
(* and is the best common ancestor when there is one.                      *)
LEMMA BaseTreeRows ==
    ASSUME TypeOK, Graph, NEW S \in SUBSET Made, NEW strategy
    PROVE  /\ Base(S, strategy).tree \in Table
           /\ \A k \in Key : Base(S, strategy).tree[k] \in {commits[b].tree[k] : b \in S} \cup {Absent}
           /\ S = {} => Base(S, strategy).tree = NoTable
           /\ \A b \in S : S = {b} => Base(S, strategy).tree = commits[b].tree
<1>1. Len(commits) \in Nat
  BY DEF TypeOK
<1>4. PICK f : /\ \A T \in SUBSET Made : StepGives(f, T, strategy)
               /\ \A T \in SUBSET Made : Base(T, strategy) = f[T]
  BY BaseUnfolds
<1>. DEFINE tree == [T \in SUBSET Made |-> f[T].tree]
<1>3. Base(S, strategy).tree = tree[S]
  BY <1>4
<1>. DEFINE Good(T) == /\ tree[T] \in Table
                       /\ \A k \in Key : tree[T][k] \in {commits[b].tree[k] : b \in T} \cup {Absent}
            bad == {n \in 0 .. Len(commits) : \E T \in SUBSET (1 .. n) : ~ Good(T)}
<1>5. bad = {}
  <2>. SUFFICES ASSUME bad # {}
                PROVE  FALSE
    OBVIOUS
  <2>1. PICK n \in bad : \A j \in bad : n <= j
    <3>1. bad \in SUBSET Nat
      <4>. HIDE DEF Good
      <4>. QED
        BY <1>1
    <3>. HIDE DEF bad
    <3>. QED
      BY <3>1, LeastNumber
  <2>2. PICK T \in SUBSET (1 .. n) : ~ Good(T)
    <3>. HIDE DEF Good
    <3>. QED
      BY <2>1
  <2>3. n \in 0 .. Len(commits) /\ T \in SUBSET Made
    <3>. HIDE DEF Good
    <3>1. n \in 0 .. Len(commits)
      BY <2>1
    <3>. QED
      BY <1>1, <3>1 DEF Made
  <2>4. T # {}
    <3>1. T = {} => tree[T] = NoTable
      BY <1>4, <2>3 DEF StepGives
    <3>. QED
      BY <2>2, <3>1, NoTableType DEF NoTable
  <2>. DEFINE new == Newest(T)
              rest == T \ {new}
              base == tree[MergeBases(rest, new)]
  <2>5. new \in T /\ rest \in SUBSET (1 .. n - 1)
    BY <1>1, <2>3, <2>4, OlderCommits
  <2>6. commits[new].tree \in Table
    BY <2>3, <2>5, CommitType
  <2>7. rest # {}
    <3>1. rest = {} => tree[T] = commits[new].tree
      BY <1>4, <2>3, <2>4 DEF StepGives
    <3>. QED
      BY <2>2, <2>5, <2>6, <3>1
  <2>8. tree[T] = MergeTable(base, tree[rest], commits[new].tree, strategy)
    <3>. DEFINE both == MergeBases(rest, new)
    <3>1. f[T].tree = MergeTable(f[both].tree, f[rest].tree, commits[new].tree, strategy)
      BY <1>4, <2>3, <2>4, <2>7 DEF StepGives
    <3>2. both \in SUBSET Made /\ rest \in SUBSET Made
      <4>1. both \in SUBSET (1 .. n - 1) /\ rest \in SUBSET (1 .. n - 1)
        BY <1>1, <2>3, <2>4, OlderCommits
      <4>. HIDE DEF both, rest
      <4>. QED
        BY <1>1, <2>3, <4>1 DEF Made
    <3>. HIDE DEF both, rest, new
    <3>3. tree[both] = f[both].tree /\ tree[rest] = f[rest].tree /\ tree[T] = f[T].tree
      BY <2>3, <3>2
    <3>. HIDE DEF tree
    <3>4. tree[T] = MergeTable(tree[both], tree[rest], commits[new].tree, strategy)
      BY <3>1, <3>3
    <3>. QED
      BY <3>4 DEF both
  <2>9. Good(rest)
    <3>. HIDE DEF Good, rest
    <3>1. n # 0
      <4>1. PICK c \in T : TRUE
        BY <2>4
      <4>2. c \in 1 .. n
        BY <2>2
      <4>. QED
        BY <2>3, <4>2
    <3>2. n - 1 \in 0 .. Len(commits) /\ n - 1 < n
      BY <1>1, <2>3, <3>1
    <3>3. n - 1 \notin bad
      <4>1. \A j \in bad : n <= j
        BY <2>1
      <4>. HIDE DEF bad
      <4>. QED
        BY <2>3, <3>2, <4>1
    <3>. QED
      BY <2>5, <3>2, <3>3
  <2>10. Mix(tree[T], tree[rest], commits[new].tree)
    BY <2>6, <2>8, <2>9, MergeTableMixes
  <2>11. tree[T] \in Table /\ \A k \in Key : tree[T][k] \in {tree[rest][k], commits[new].tree[k]}
    BY <2>10 DEF Mix
  <2>12. \A k \in Key : tree[rest][k] \in {commits[b].tree[k] : b \in T} \cup {Absent}
    BY <2>9
  <2>. QED
    BY <2>2, <2>5, <2>11, <2>12
<1>6. Good(S)
  <2>1. S \in SUBSET (1 .. Len(commits)) /\ Len(commits) \in 0 .. Len(commits)
    BY <1>1 DEF Made
  <2>. HIDE DEF Good
  <2>. QED
    BY <1>5, <2>1
<1>7. S = {} => tree[S] = NoTable
  BY <1>4 DEF StepGives
<1>8. ASSUME NEW b \in S, S = {b}
      PROVE  tree[S] = commits[b].tree
  <2>1. Newest(S) = b
    <3>1. S \in SUBSET (1 .. Len(commits))
      BY DEF Made
    <3>. QED
      BY <1>1, <1>8, <3>1, NewestCommit
  <2>. QED
    BY <1>4, <1>8, <2>1 DEF StepGives
<1>. QED
  BY <1>3, <1>6, <1>7, <1>8

(* The schema dump git merges against is that of a commit the two sides    *)
(* have in common, or none.                                                *)
LEMMA BaseVersionKnown ==
    ASSUME TypeOK, Graph, NEW h \in Made, NEW c \in Made, NEW strategy
    PROVE  Base(MergeBases({h}, c), strategy).version \in
                {commits[b].version : b \in Past(h) \cap Past(c)} \cup {None}
<1>1. Len(commits) \in Nat
  BY DEF TypeOK
<1>2. PICK f : /\ \A T \in SUBSET Made : StepGives(f, T, strategy)
               /\ \A T \in SUBSET Made : Base(T, strategy) = f[T]
  BY BaseUnfolds
<1>. DEFINE Below(T) == UNION {Past(d) : d \in T}
            Good(T) == f[T].version \in {commits[b].version : b \in Below(T)} \cup {None}
            bad == {n \in 0 .. Len(commits) : \E T \in SUBSET (1 .. n) : ~ Good(T)}
<1>3. \A n \in 0 .. Len(commits) : SUBSET (1 .. n) \subseteq SUBSET Made
  BY <1>1 DEF Made
<1>4. bad = {}
  <2>. SUFFICES ASSUME bad # {}
                PROVE  FALSE
    OBVIOUS
  <2>. HIDE DEF Good
  <2>1. PICK n \in bad : \A j \in bad : n <= j
    <3>1. bad \in SUBSET Nat
      BY <1>1
    <3>. HIDE DEF bad
    <3>. QED
      BY <3>1, LeastNumber
  <2>2. PICK T \in SUBSET (1 .. n) : ~ Good(T)
    BY <2>1
  <2>3. n \in 0 .. Len(commits) /\ T \in SUBSET Made
    BY <1>3, <2>1
  <2>4. T # {}
    <3>1. T = {} => f[T].version = None
      BY <1>2, <2>3 DEF StepGives
    <3>. QED
      BY <2>2, <3>1 DEF Good
  <2>. DEFINE new == Newest(T)
              rest == T \ {new}
              both == MergeBases(rest, new)
  <2>5. new \in T /\ rest \in SUBSET (1 .. n - 1) /\ both \in SUBSET (1 .. n - 1)
    BY <1>1, <2>3, <2>4, OlderCommits
  <2>6. commits[new].version \in {commits[b].version : b \in Below(T)}
    <3>1. new \in Made /\ new \in Past(new)
      <4>. HIDE DEF new
      <4>. QED
        BY <1>1, <2>3, <2>5 DEF Graph, Past, Made
    <3>2. new \in Below(T)
      BY <2>5, <3>1
    <3>. HIDE DEF Below, new
    <3>. QED
      BY <3>2
  <2>7. f[T].version \in {f[both].version, f[rest].version, commits[new].version}
    <3>1. rest = {} => f[T].version = commits[new].version
      BY <1>2, <2>3, <2>4 DEF StepGives
    <3>2. rest # {} => f[T].version = MergedVersion(f[both].version, f[rest].version,
                                                    commits[new].version)
      BY <1>2, <2>3, <2>4 DEF StepGives
    <3>. HIDE DEF new, rest, both
    <3>. QED
      BY <3>1, <3>2 DEF MergedVersion
  <2>8. Good(rest) /\ Good(both)
    <3>1. n # 0
      <4>1. PICK d \in T : TRUE
        BY <2>4
      <4>2. d \in 1 .. n
        BY <2>2
      <4>. QED
        BY <2>3, <4>2
    <3>2. n - 1 \in 0 .. Len(commits) /\ n - 1 < n
      BY <1>1, <2>3, <3>1
    <3>3. n - 1 \notin bad
      <4>1. \A j \in bad : n <= j
        BY <2>1
      <4>. HIDE DEF bad
      <4>. QED
        BY <2>3, <3>2, <4>1
    <3>. HIDE DEF rest, both
    <3>. QED
      BY <2>5, <3>2, <3>3
  <2>9. Below(rest) \subseteq Below(T)
    OBVIOUS
  <2>10. Below(both) \subseteq Below(T)
    <3>1. \A b \in both : \E d \in T : b \in Past(d)
      BY DEF MergeBases
    <3>2. \A d \in T : \A b \in Past(d) : Past(b) \subseteq Past(d)
      <4>. SUFFICES ASSUME NEW d \in T, NEW b \in Past(d)
                    PROVE  Past(b) \subseteq Past(d)
        OBVIOUS
      <4>1. d \in Made /\ d # None
        BY <2>3 DEF Made
      <4>. QED
        BY <4>1 DEF Past, Graph
    <3>. HIDE DEF both
    <3>. QED
      BY <3>1, <3>2
  <2>. HIDE DEF Below, new, rest, both
  <2>. QED
    BY <2>2, <2>6, <2>7, <2>8, <2>9, <2>10 DEF Good
<1>. DEFINE bases == MergeBases({h}, c)
<1>5. bases \subseteq Past(h) \cap Past(c)
  BY DEF MergeBases
<1>6. \A d \in Made : Past(d) \subseteq Made /\ \A b \in Past(d) : Past(b) \subseteq Past(d)
  BY <1>1 DEF Past, Graph, Made
<1>7. Good(bases)
  <2>. HIDE DEF Good, bases
  <2>1. bases \in SUBSET (1 .. Len(commits)) /\ Len(commits) \in 0 .. Len(commits)
    BY <1>1, <1>5, <1>6 DEF Made
  <2>. QED
    BY <1>4, <2>1
<1>8. Below(bases) \subseteq Past(h) \cap Past(c)
  <2>. HIDE DEF bases
  <2>. QED
    BY <1>5, <1>6
<1>9. Base(bases, strategy) = f[bases]
  <2>. HIDE DEF bases
  <2>. QED
    BY <1>2, <1>5, <1>6
<1>. HIDE DEF bases, Below
<1>10. Base(bases, strategy).version \in {commits[b].version : b \in Past(h) \cap Past(c)} \cup {None}
  BY <1>7, <1>8, <1>9
<1>. QED
  BY <1>10 DEF bases

(* Whatever two commits have in common is in the past of one of the best   *)
(* common ancestors.                                                       *)
LEMMA BelowMergeBase ==
    ASSUME TypeOK, Graph, NEW h \in Made, NEW c \in Made,
           NEW o \in Past(h) \cap Past(c)
    PROVE  \E b \in MergeBases({h}, c) : o \in Past(b) /\ b \in Made
<1>. DEFINE common == (UNION {Past(d) : d \in {h}}) \cap Past(c)
            above == {b \in common : o \in Past(b)}
<1>1. common = Past(h) \cap Past(c) /\ common \subseteq Made /\ Len(commits) \in Nat
  BY DEF Past, Graph, Made, TypeOK
<1>2. o \in above
  BY <1>1 DEF Past, Graph, Made
<1>. DEFINE b == Newest(above)
<1>3. b \in above /\ \A d \in above : d <= b
  <2>1. above \in SUBSET (1 .. Len(commits)) /\ above # {}
    BY <1>1, <1>2 DEF Made
  <2>. HIDE DEF above
  <2>. QED
    BY <1>1, <2>1, NewestCommit
<1>. HIDE DEF b
<1>4. ASSUME NEW d \in common \ {b}, IsAncestor(b, d)
      PROVE  FALSE
  <2>1. b \in Made /\ d \in Made /\ b # None /\ d # None
    BY <1>1, <1>3 DEF Made
  <2>2. b \in commits[d].past
    BY <1>4, <2>1 DEF IsAncestor, Past
  <2>3. commits[b].past \subseteq commits[d].past /\ b \in 1 .. d
    BY <2>1, <2>2 DEF Graph
  <2>4. d \in above
    BY <1>3, <2>1, <2>3 DEF Past
  <2>. QED
    BY <1>3, <2>1, <2>3, <2>4 DEF Made
<1>5. b \in MergeBases({h}, c)
  BY <1>3, <1>4 DEF MergeBases
<1>. QED
  BY <1>1, <1>3, <1>5

-----------------------------------------------------------------------------
(* A machine's main absorbs everything a copy of its bundle may hold.      *)
LEMMA OwnHistoryStep ==
    ASSUME IInv, NEW m \in Machine, Moved(m), CopiesFollow, TypeOK'
    PROVE  OwnHistory'
<1>. USE DEF IInv
<1>1. ASSUME NEW n \in Machine
      PROVE  /\ Past(head[n]) \subseteq Past(head[n])'
             /\ head'[n] # None => head'[n] \in Past(head[n])'
  <2>1. head'[n] \in Made' \cup {None} /\ head[n] \in Made \cup {None}
    BY DEF TypeOK
  <2>2. Graph' /\ \A c \in Made : commits'[c] = commits[c]
    BY MovedForward
  <2>3. head'[n] # None => head'[n] \in Past(head[n])'
    BY <2>1, <2>2 DEF Graph, Past
  <2>4. CASE n = m
    BY <2>1, <2>3, <2>4, MovedForward DEF Past
  <2>5. CASE n # m
    <3>1. head'[n] = head[n]
      BY <2>5, MovedForward
    <3>. QED
      BY <2>1, <2>2, <2>3, <3>1 DEF Past
  <2>. QED
    BY <2>4, <2>5, <2>3
<1>2. ASSUME NEW o \in Machine, NEW n \in Machine,
             NEW c \in {remote'[n], pulled'[o][n], tracking'[o][n]} \ {None}
      PROVE  c \in Past(head[n])'
  <2>1. c \in Stored(n)
    BY DEF CopiesFollow
  <2>2. CASE c = head[n]
    <3>1. head[n] \in Past(head[n])
      BY <2>2 DEF TypeOK, Graph, Past
    <3>. QED
      BY <1>1, <2>2, <3>1
  <2>3. CASE c # head[n]
    <3>1. PICK q \in Machine : c \in {remote[n], pulled[q][n], tracking[q][n]}
      BY <2>1, <2>3 DEF Stored
    <3>2. c \in Past(head[n])
      BY <3>1 DEF OwnHistory
    <3>. QED
      BY <1>1, <3>2
  <2>. QED
    BY <2>2, <2>3
<1>. QED
  BY <1>2 DEF OwnHistory

(* The inductive invariant holds initially, and every step keeps it.       *)
LEMMA InitIInv == Init => IInv
<1>. SUFFICES ASSUME Init
              PROVE  IInv
  OBVIOUS
<1>1. commits = <<>> /\ Made = {}
  BY DEF Init, Made
<1>2. TypeOK
  BY NoTableType, NoInvocationType, <1>1 DEF Init, TypeOK, NothingPulled, Step
<1>3. Graph /\ Headed
  BY <1>1 DEF Graph, Headed, Init
<1>4. OwnHistory
  BY DEF OwnHistory, Init, NothingPulled
<1>. QED
  BY <1>2, <1>3, <1>4 DEF IInv

(* Every step keeps the inductive invariant.                               *)
LEMMA NextIInv == IInv /\ [Next]_vars => IInv'
<1>. SUFFICES ASSUME IInv, [Next]_vars
              PROVE  IInv'
  OBVIOUS
<1>1. CASE UNCHANGED vars
  BY <1>1 DEF vars, liveVars, repoVars, transfer, control, IInv, TypeOK, Graph, Headed,
              OwnHistory, Made, Past
<1>2. CASE Next
  <2>. PICK m \in Machine : Begin(m) \/ Continue(m) \/ Environment(m)
    BY <1>2 DEF Next
  <2>1. TypeOK' /\ Headed' /\ Moved(m) /\ CopiesFollow
    BY EveryStep DEF IInv
  <2>2. Graph'
    BY <2>1, MovedForward DEF IInv
  <2>3. OwnHistory'
    BY <2>1, OwnHistoryStep
  <2>. QED
    BY <2>1, <2>2, <2>3 DEF IInv
<1>. QED
  BY <1>1, <1>2

(* The inductive invariant: types, a closed commit graph, a head under     *)
(* every running command, and copies that never run ahead.                 *)
THEOREM Invariance == Spec => []IInv
BY InitIInv, NextIInv, PTL DEF Spec

(* The type invariant, for any number of machines, keys and commits.       *)
THEOREM TypeCorrect == Spec => []TypeOK
BY Invariance, PTL DEF IInv

(* No copy of a machine's bundle, in the backend, in a temporary directory *)
(* or in a tracking ref, is ever ahead of the machine it is named after,   *)
(* whatever commands overlap, fail or are killed.                          *)
THEOREM CopiesNeverAhead == Spec => []OwnHistory
BY Invariance, PTL DEF IInv

-----------------------------------------------------------------------------
(* Refs only move forward.                                                 *)

(* A tracking ref is moved by a fetch alone, and only to a descendant.     *)
LEMMA TrackingForward ==
    ASSUME TypeOK, Graph, Headed, NEW m \in Machine,
           Begin(m) \/ Continue(m) \/ Environment(m),
           NEW o \in Machine, NEW n \in Machine
    PROVE  \/ tracking'[o][n] = tracking[o][n]
           \/ commits' = commits /\ IsAncestor(tracking[o][n], tracking'[o][n])
<1>1. CASE Pull(m)
  <2>. DEFINE row(got, F) == [q \in Machine |-> IF q \in F THEN got[q] ELSE tracking[m][q]]
  <2>. PICK got \in {remote} \cup (IF "pull" \in Fault THEN {NothingPulled} ELSE {}) :
         \/ UNCHANGED tracking
         \/ tracking' = [tracking EXCEPT ![m] = row(got, {q \in Machine : Fetchable(m, q, got)})]
    BY <1>1 DEF Pull
  <2>1. commits' = commits
    BY <1>1 DEF Pull, repoVars
  <2>2. ASSUME o = m
        PROVE  \/ row(got, {q \in Machine : Fetchable(m, q, got)})[n] = tracking[o][n]
               \/ IsAncestor(tracking[o][n], row(got, {q \in Machine : Fetchable(m, q, got)})[n])
    BY <2>2 DEF Fetchable
  <2>. HIDE DEF row
  <2>. QED
    BY <2>1, <2>2 DEF TypeOK
<1>2. CASE Begin(m)
  BY <1>2 DEF Begin, Start, StartRefused, Resume, transfer
<1>3. CASE Continue(m) /\ ~ Pull(m)
  BY <1>3 DEF Continue, MergeRef, EndWithoutPack, Pack, Publish, transfer
<1>4. CASE Environment(m)
  BY <1>4, QuietCopies DEF Environment
<1>. QED
  BY <1>1, <1>2, <1>3, <1>4

(* main only moves to descendants of itself, and a tracking ref only to    *)
(* descendants of what it was: nothing a repository once had is rewound.   *)
THEOREM RefsOnlyAdvance == Spec => RefsAdvance
<1>. DEFINE Forward ==
       \A m \in Machine :
         /\ head[m] # None => head[m] \in commits'[head'[m]].past
         /\ \A n \in Machine :
              tracking[m][n] # None =>
                  tracking[m][n] \in commits'[tracking'[m][n]].past
<1>1. IInv /\ [Next]_vars => [Forward]_vars
  <2>. SUFFICES ASSUME IInv, Next, NEW o \in Machine, NEW n \in Machine
                PROVE  /\ head[o] # None => head[o] \in commits'[head'[o]].past
                       /\ tracking[o][n] # None =>
                              tracking[o][n] \in commits'[tracking'[o][n]].past
    OBVIOUS
  <2>. PICK m \in Machine : Begin(m) \/ Continue(m) \/ Environment(m)
    BY DEF Next
  <2>1. /\ head[o] \in Made \cup {None}
        /\ tracking[o][n] \in Made \cup {None}
    BY DEF IInv, TypeOK
  <2>2. \A c \in Made : c \in Past(c)
    BY DEF IInv, Graph, Past, Made
  <2>3. Moved(m)
    BY EveryStep DEF IInv
  <2>4. \A c \in Made : commits'[c] = commits[c]
    BY <2>3, MovedForward DEF IInv
  <2>5. head[o] # None => head[o] \in commits'[head'[o]].past
    <3>1. CASE o = m
      BY <2>1, <2>2, <2>3, <3>1, MovedForward DEF IInv
    <3>2. CASE o # m
      <4>1. head'[o] = head[o]
        BY <2>3, <3>2, MovedForward DEF IInv
      <4>. QED
        BY <2>1, <2>2, <2>4, <4>1 DEF Past
    <3>. QED
      BY <3>1, <3>2
  <2>6. tracking[o][n] # None => tracking[o][n] \in commits'[tracking'[o][n]].past
    <3>1. CASE tracking'[o][n] = tracking[o][n]
      BY <2>1, <2>2, <2>4, <3>1 DEF Past
    <3>2. CASE commits' = commits /\ IsAncestor(tracking[o][n], tracking'[o][n])
      BY <3>2 DEF IsAncestor, Past
    <3>. QED
      BY <3>1, <3>2, TrackingForward DEF IInv
  <2>. QED
    BY <2>5, <2>6
<1>. QED
  BY <1>1, Invariance, PTL DEF Spec, RefsAdvance

-----------------------------------------------------------------------------
(* An unfinished merge.                                                    *)

Unfinished(n) ==
    /\ pc[n] = "idle"
    /\ mergeHead[n] # None
    /\ ~ IsAncestor(mergeHead[n], head[n])

(* A step leaves an unfinished merge alone, ends it, or is the merge that  *)
(* cannot be finished.                                                     *)
LEMMA UnmergedStep ==
    ASSUME TypeOK, NothingHalfMerged, NEW m \in Machine,
           Begin(m) \/ Continue(m) \/ Environment(m),
           NEW n \in Machine, unmerged'[n]
    PROVE  \/ /\ unmerged[n]
              /\ pc'[n] = pc[n] /\ mergeHead'[n] = mergeHead[n] /\ head'[n] = head[n]
           \/ commits' = commits /\ Unfinished(n)'
<1>. USE DEF TypeOK
<1>1. CASE Begin(m)
  <2>. PICK cmd \in Command : Start(m, cmd) \/ StartRefused(m, cmd) \/ Resume(m, cmd)
    BY <1>1 DEF Begin
  <2>1. CASE Start(m, cmd)
    <3>1. unmerged' = [unmerged EXCEPT ![m] = FALSE]
      BY <2>1 DEF Start, CommitLiveState
    <3>2. n # m
      BY <3>1
    <3>3. pc'[n] = pc[n]
      BY <2>1, <3>2 DEF Start, control, Goto
    <3>4. head'[n] = head[n] /\ mergeHead'[n] = mergeHead[n]
      BY <2>1, <3>2 DEF Start, CommitLiveState
    <3>. QED
      BY <3>1, <3>2, <3>3, <3>4
  <2>2. CASE StartRefused(m, cmd)
    BY <2>2 DEF StartRefused, repoVars, control
  <2>3. CASE Resume(m, cmd)
    <3>1. unmerged' = unmerged /\ ~ unmerged[m]
      BY <2>3 DEF Resume
    <3>2. n # m
      BY <3>1
    <3>. QED
      BY <2>3, <3>1, <3>2 DEF Resume, Goto
  <2>. QED
    BY <2>1, <2>2, <2>3
<1>2. CASE Continue(m)
  <2>1. pc[m] # "idle" /\ ~ unmerged[m]
    BY <1>2 DEF Continue, Pull, MergeRef, EndWithoutPack, Pack, Publish, Applying,
                NothingHalfMerged
  <2>2. CASE Pull(m) \/ EndWithoutPack(m) \/ Pack(m) \/ Publish(m)
    BY <2>1, <2>2 DEF Pull, EndWithoutPack, Pack, Publish, Finish, Goto, repoVars
  <2>3. CASE MergeRef(m)
    <3>. DEFINE r == NextRef(m)
    <3>1. CASE SkipKnown(m, r) \/ Quarantine(m, r) \/ SkipBlocked(m, r)
      BY <2>1, <3>1 DEF SkipKnown, Quarantine, SkipBlocked, repoVars, control
    <3>2. CASE FastForward(m, r)
      BY <2>1, <3>2 DEF FastForward, control
    <3>3. CASE TrueMerge(m, r)
      <4>1. CASE UNCHANGED <<mergeHead, unmerged, control>>
        BY <2>1, <3>3, <4>1 DEF TrueMerge, control
      <4>2. CASE /\ unmerged' = [unmerged EXCEPT ![m] = TRUE]
                 /\ mergeHead' = [mergeHead EXCEPT ![m] = tracking[m][r]]
                 /\ StopUnmerged(m, r)
                 /\ UNCHANGED <<commits, head>>
        <5>1. ~ IsAncestor(tracking[m][r], head[m])
          BY <3>3 DEF TrueMerge, Mergeable
        <5>2. tracking[m][r] # None
          BY <5>1 DEF IsAncestor
        <5>3. pc' = [pc EXCEPT ![m] = "idle"]
          BY <4>2 DEF StopUnmerged, Finish, Goto
        <5>4. CASE n = m
          <6>1. /\ pc'[n] = "idle" /\ mergeHead'[n] = tracking[m][r] /\ head'[n] = head[n]
                /\ commits' = commits
            BY <4>2, <5>3, <5>4
          <6>. QED
            BY <5>1, <5>2, <5>4, <6>1 DEF Unfinished, IsAncestor, Past
        <5>5. CASE n # m
          BY <4>2, <5>3, <5>5
        <5>. QED
          BY <5>4, <5>5
      <4>. QED
        BY <3>3, <4>1, <4>2 DEF TrueMerge
    <3>. QED
      BY <2>3, <3>1, <3>2, <3>3 DEF MergeRef
  <2>. QED
    BY <1>2, <2>2, <2>3 DEF Continue
<1>3. CASE Environment(m)
  <2>1. CASE ResolveByHand(m) \/ AbortMerge(m)
    BY <2>1 DEF ResolveByHand, AbortMerge, control
  <2>2. CASE Crash(m)
    <3>1. ~ unmerged[m]
      BY <2>2 DEF Crash, NothingHalfMerged
    <3>. QED
      BY <2>2, <3>1 DEF Crash, Finish, Goto, repoVars
  <2>. QED
    BY <1>3, <2>1, <2>2 DEF Environment, Write, Quiesce, Upgrade, repoVars, control
<1>. QED
  BY <1>1, <1>2, <1>3

(* While a merge is unfinished no command runs and main does not hold the  *)
(* other side: what is half merged is neither applied nor published.       *)
THEOREM HalfMergedStays == Spec => []NothingHalfMerged
<1>1. Init => NothingHalfMerged
  BY DEF Init, NothingHalfMerged
<1>2. IInv /\ NothingHalfMerged /\ [Next]_vars => NothingHalfMerged'
  <2>. SUFFICES ASSUME IInv, NothingHalfMerged, [Next]_vars,
                       NEW n \in Machine, unmerged'[n]
                PROVE  Unfinished(n)'
    BY DEF NothingHalfMerged, Unfinished
  <2>1. CASE UNCHANGED vars
    BY <2>1 DEF vars, repoVars, control, NothingHalfMerged, Unfinished, IsAncestor, Past
  <2>2. CASE Next
    <3>. PICK m \in Machine : Begin(m) \/ Continue(m) \/ Environment(m)
      BY <2>2 DEF Next
    <3>1. CASE commits' = commits /\ Unfinished(n)'
      BY <3>1
    <3>2. CASE /\ unmerged[n]
               /\ pc'[n] = pc[n] /\ mergeHead'[n] = mergeHead[n] /\ head'[n] = head[n]
      <4>1. Unfinished(n)
        BY <3>2 DEF NothingHalfMerged, Unfinished
      <4>2. \A c \in Made : commits'[c] = commits[c]
        BY EveryStep, MovedForward DEF IInv
      <4>3. head[n] \in Made \cup {None}
        BY DEF IInv, TypeOK
      <4>. QED
        BY <3>2, <4>1, <4>2, <4>3 DEF Unfinished, IsAncestor, Past
    <3>. QED
      BY <3>1, <3>2, UnmergedStep DEF IInv
  <2>. QED
    BY <2>1, <2>2
<1>. QED
  BY <1>1, <1>2, Invariance, PTL DEF Spec

-----------------------------------------------------------------------------
(* What a publish carries forward.                                         *)

(* Commands one at a time, as kirocrew-sync.sh assumes of the machines     *)
(* ("overlap" is the fault that breaks it): what a command pulled is what  *)
(* the remote still holds.                                                 *)
Alone == \A m, n \in Machine : pc[m] # "idle" /\ pc[n] # "idle" => m = n

Pulled(m) == pc[m] = "publish" \/ (pc[m] = "merge" /\ running[m].name # "resume")

Fresh == \A m \in Machine : Pulled(m) => pulled[m] = remote

(* Alone needs only that no command starts while another runs.             *)
LEMMA AloneStep ==
    ASSUME TypeOK, Alone, "overlap" \notin Fault, NEW m \in Machine,
           Begin(m) \/ Continue(m) \/ Environment(m)
    PROVE  Alone'
<1>1. \A n \in Machine \ {m} : pc'[n] = pc[n]
  <2>1. CASE Begin(m)
    BY <2>1 DEF Begin, Start, StartRefused, Resume, control, Goto, TypeOK
  <2>2. CASE Continue(m)
    <3>1. pc' = pc \/ \E step : pc' = [pc EXCEPT ![m] = step]
      BY <2>2 DEF Continue, Pull, MergeRef, SkipKnown, Quarantine, SkipBlocked, FastForward,
                  TrueMerge, StopUnmerged, EndWithoutPack, Pack, Publish, Finish, Goto, control
    <3>. QED
      BY <3>1 DEF TypeOK
  <2>3. CASE Environment(m)
    BY <2>3, QuietCopies DEF Environment, TypeOK
  <2>. QED
    BY <2>1, <2>2, <2>3
<1>2. CASE pc[m] = "idle" /\ pc'[m] # "idle"
  <2>1. CASE Begin(m)
    BY <1>1, <2>1 DEF Begin, Alone
  <2>2. CASE Continue(m)
    BY <1>2, <2>2 DEF Continue, Pull, MergeRef, EndWithoutPack, Pack, Publish, Applying
  <2>3. CASE Environment(m)
    BY <1>2, <2>3, QuietCopies DEF Environment, TypeOK
  <2>. QED
    BY <2>1, <2>2, <2>3
<1>3. CASE pc[m] # "idle" \/ pc'[m] = "idle"
  BY <1>1, <1>3 DEF Alone
<1>. QED
  BY <1>2, <1>3

(* A command keeps what it pulled until it publishes, and nobody else      *)
(* publishes meanwhile.                                                    *)
LEMMA FreshStep ==
    ASSUME TypeOK, Headed, Alone, Fresh, "pull" \notin Fault, NEW m \in Machine,
           Begin(m) \/ Continue(m) \/ Environment(m)
    PROVE  Fresh'
<1>. USE DEF TypeOK
<1>1. CASE Begin(m)
  <2>. PICK cmd \in Command : Start(m, cmd) \/ StartRefused(m, cmd) \/ Resume(m, cmd)
    BY <1>1 DEF Begin
  <2>1. UNCHANGED <<pulled, remote>>
    BY DEF Start, StartRefused, Resume, transfer
  <2>2. \/ UNCHANGED control
        \/ running' = [running EXCEPT ![m] = cmd] /\ pc' = [pc EXCEPT ![m] = "pull"]
        \/ /\ running' = [running EXCEPT ![m] = cmd] /\ cmd.name = "resume"
           /\ pc' = [pc EXCEPT ![m] = "merge"]
    BY DEF Start, StartRefused, Resume, control, Goto
  <2>. QED
    BY <2>1, <2>2 DEF Fresh, Pulled, control
<1>2. CASE Pull(m)
  <2>1. /\ pulled' = [pulled EXCEPT ![m] = remote]
        /\ UNCHANGED <<remote, running>>
        /\ pc' = [pc EXCEPT ![m] = "publish"] \/ pc' = [pc EXCEPT ![m] = "merge"]
    BY <1>2 DEF Pull, Goto
  <2>. QED
    BY <2>1 DEF Fresh, Pulled
<1>3. CASE MergeRef(m)
  <2>. DEFINE n == NextRef(m)
  <2>1. UNCHANGED <<pulled, running, pc>> \/ Finish(m)
    BY <1>3 DEF MergeRef, SkipKnown, Quarantine, SkipBlocked, FastForward, TrueMerge,
                StopUnmerged, control
  <2>2. remote' = remote
    BY <1>3 DEF MergeRef
  <2>. QED
    BY <2>1, <2>2 DEF Fresh, Pulled, Finish, Goto
<1>4. CASE EndWithoutPack(m)
  BY <1>4 DEF EndWithoutPack, Finish, Goto, Fresh, Pulled
<1>5. CASE Pack(m)
  <2>1. /\ UNCHANGED <<pulled, remote, running>>
        /\ pc[m] = "merge"
        /\ pc' = [pc EXCEPT ![m] = IF running[m].name = "resume" THEN "pull" ELSE "publish"]
    BY <1>5 DEF Pack, Applying, Goto, transfer
  <2>. QED
    BY <2>1 DEF Fresh, Pulled
<1>6. CASE Publish(m)
  <2>1. /\ pc[m] = "publish" /\ pc' = [pc EXCEPT ![m] = "idle"]
        /\ pulled' = [pulled EXCEPT ![m] = NothingPulled]
    BY <1>6 DEF Publish, Finish, Goto
  <2>2. \A n \in Machine : pc'[n] = "idle"
    BY <2>1 DEF Alone
  <2>. QED
    BY <2>2 DEF Fresh, Pulled
<1>7. CASE Environment(m)
  <2>1. /\ remote' = remote
        /\ \/ UNCHANGED <<pulled, running, pc>>
           \/ Finish(m)
    BY <1>7 DEF Environment, Write, Quiesce, Upgrade, Crash, ResolveByHand, AbortMerge,
                transfer, control
  <2>. QED
    BY <2>1 DEF Fresh, Pulled, Finish, Goto
<1>. QED
  BY <1>1, <1>2, <1>3, <1>4, <1>5, <1>6, <1>7 DEF Continue

(* Then a step changes the remote by publishing, and by nothing else than  *)
(* the publishing machine's own bundle.                                    *)
LEMMA RemoteStep ==
    ASSUME TypeOK, Fresh, NEW m \in Machine,
           Begin(m) \/ Continue(m) \/ Environment(m)
    PROVE  \/ remote' = remote
           \/ Publish(m) /\ remote' = [remote EXCEPT ![m] = head[m]]
<1>1. CASE Publish(m)
  <2>1. pulled[m] = remote
    BY <1>1 DEF Publish, Fresh, Pulled
  <2>. QED
    BY <1>1, <2>1 DEF Publish, Outgoing
<1>2. CASE Begin(m)
  BY <1>2 DEF Begin, Start, StartRefused, Resume
<1>3. CASE Pull(m) \/ MergeRef(m) \/ EndWithoutPack(m) \/ Pack(m)
  BY <1>3 DEF Pull, MergeRef, EndWithoutPack, Pack
<1>4. CASE Environment(m)
  BY <1>4, QuietCopies DEF Environment
<1>. QED
  BY <1>1, <1>2, <1>3, <1>4 DEF Continue

(* As long as pulls succeed and commands do not overlap, a machine's       *)
(* bundle in the remote is never dropped and never taken back, however     *)
(* many machines publish and whatever is killed or fails in between.       *)
THEOREM NothingDropped ==
    ASSUME "pull" \notin Fault, "overlap" \notin Fault
    PROVE  Spec => BundlesCarriedForward
<1>. DEFINE Kept ==
       \A n \in Machine :
         remote[n] # None =>
             remote'[n] # None /\ remote[n] \in commits'[remote'[n]].past
<1>1. Init => Alone /\ Fresh
  BY DEF Init, Alone, Fresh, Pulled
<1>2. IInv /\ Alone /\ Fresh /\ [Next]_vars => (Alone /\ Fresh)'
  <2>1. CASE UNCHANGED vars
    BY <2>1 DEF vars, transfer, control, Alone, Fresh, Pulled
  <2>2. CASE Next
    BY <2>2, AloneStep, FreshStep DEF IInv, Next
  <2>. QED
    BY <2>1, <2>2
<1>3. IInv /\ Alone /\ Fresh /\ [Next]_vars => [Kept]_vars
  <2>. SUFFICES ASSUME IInv, Fresh, Next, NEW n \in Machine, remote[n] # None
                PROVE  remote'[n] # None /\ remote[n] \in commits'[remote'[n]].past
    OBVIOUS
  <2>. PICK m \in Machine : Begin(m) \/ Continue(m) \/ Environment(m)
    BY DEF Next
  <2>1. remote[n] \in Made /\ remote[n] \in commits[remote[n]].past
    BY DEF IInv, TypeOK, Graph
  <2>2. remote[n] \in Past(head[n])
    BY DEF IInv, OwnHistory
  <2>3. \A c \in Made : commits'[c] = commits[c]
    BY EveryStep, MovedForward DEF IInv
  <2>4. CASE remote' = remote
    BY <2>1, <2>3, <2>4
  <2>5. CASE Publish(m) /\ remote' = [remote EXCEPT ![m] = head[m]]
    <3>1. commits' = commits
      BY <2>5 DEF Publish, repoVars
    <3>2. head[m] # None
      BY <2>5 DEF Publish, IInv, Headed
    <3>3. remote'[n] = IF n = m THEN head[m] ELSE remote[n]
      BY <2>5 DEF IInv, TypeOK
    <3>. QED
      BY <2>1, <2>2, <3>1, <3>2, <3>3 DEF Past
  <2>6. remote' = remote \/ (Publish(m) /\ remote' = [remote EXCEPT ![m] = head[m]])
    BY RemoteStep DEF IInv
  <2>. QED
    BY <2>4, <2>5, <2>6
<1>. QED
  BY <1>1, <1>2, <1>3, Invariance, PTL DEF Spec, BundlesCarriedForward

-----------------------------------------------------------------------------
(* Agreement.                                                              *)

(* The other side of a merge that is not committed, resolved or not, is    *)
(* not in main, and is in the main of the machine it came from.            *)
OpenMerge ==
    \A m \in Machine :
        mergeHead[m] # None =>
            /\ head[m] # None
            /\ mergeHead[m] \notin Past(head[m])
            /\ \E n \in Machine : mergeHead[m] \in Past(head[n])

(* A step that leaves a merge open leaves main where it is; a merge is     *)
(* opened with a ref that main does not contain.                           *)
LEMMA MergeHeadStep ==
    ASSUME TypeOK, Headed, NEW m \in Machine,
           Begin(m) \/ Continue(m) \/ Environment(m),
           mergeHead'[m] # None
    PROVE  \/ mergeHead'[m] = mergeHead[m] /\ head'[m] = head[m]
           \/ /\ UNCHANGED <<commits, head>>
              /\ head[m] # None
              /\ \E n \in Machine : /\ mergeHead'[m] = tracking[m][n]
                                    /\ ~ IsAncestor(tracking[m][n], head[m])
<1>. USE DEF TypeOK
<1>1. CASE Begin(m)
  <2>. PICK cmd \in Command : Start(m, cmd) \/ StartRefused(m, cmd) \/ Resume(m, cmd)
    BY <1>1 DEF Begin
  <2>1. CASE Start(m, cmd)
    BY <2>1 DEF Start, CommitLiveState
  <2>2. CASE StartRefused(m, cmd)
    BY <2>2 DEF StartRefused, repoVars
  <2>3. CASE Resume(m, cmd)
    BY <2>3 DEF Resume
  <2>. QED
    BY <2>1, <2>2, <2>3
<1>2. CASE Pull(m) \/ EndWithoutPack(m) \/ Pack(m) \/ Publish(m)
  BY <1>2 DEF Pull, EndWithoutPack, Pack, Publish, repoVars
<1>3. CASE MergeRef(m)
  <2>. DEFINE n == NextRef(m)
  <2>1. n \in Machine /\ head[m] # None
    BY <1>3, NextRefPicked DEF MergeRef, Headed
  <2>2. CASE SkipKnown(m, n) \/ Quarantine(m, n) \/ SkipBlocked(m, n)
    BY <2>2 DEF SkipKnown, Quarantine, SkipBlocked, repoVars
  <2>3. CASE FastForward(m, n)
    BY <2>3 DEF FastForward
  <2>4. CASE TrueMerge(m, n)
    <3>1. ~ IsAncestor(tracking[m][n], head[m]) /\ mergeHead[m] = None
      BY <2>4 DEF TrueMerge, Mergeable
    <3>2. CASE /\ mergeHead' = [mergeHead EXCEPT ![m] = tracking[m][n]]
               /\ UNCHANGED <<commits, head>>
      BY <2>1, <3>1, <3>2
    <3>3. CASE UNCHANGED mergeHead
      BY <3>1, <3>3
    <3>. QED
      BY <2>4, <3>2, <3>3 DEF TrueMerge
  <2>. QED
    BY <1>3, <2>2, <2>3, <2>4 DEF MergeRef
<1>4. CASE Environment(m)
  <2>1. UNCHANGED head
    BY <1>4, QuietCopies DEF Environment
  <2>2. mergeHead' = mergeHead \/ mergeHead' = [mergeHead EXCEPT ![m] = None]
    BY <1>4 DEF Environment, Write, Quiesce, Upgrade, Crash, ResolveByHand, AbortMerge, repoVars
  <2>. QED
    BY <2>1, <2>2
<1>. QED
  BY <1>1, <1>2, <1>3, <1>4 DEF Continue

(* Every step keeps OpenMerge: no main loses what it contains, and what a  *)
(* ref names is in the main of its machine.                                *)
LEMMA OpenMergeStep == IInv /\ OpenMerge /\ [Next]_vars => OpenMerge'
<1>. SUFFICES ASSUME IInv, OpenMerge, [Next]_vars, NEW o \in Machine, mergeHead'[o] # None
              PROVE  /\ head'[o] # None
                     /\ mergeHead'[o] \notin Past(head[o])'
                     /\ \E n \in Machine : mergeHead'[o] \in Past(head[n])'
  BY DEF OpenMerge
<1>1. CASE UNCHANGED vars
  BY <1>1 DEF vars, repoVars, OpenMerge, Past
<1>2. CASE Next
  <2>. PICK m \in Machine : Begin(m) \/ Continue(m) \/ Environment(m)
    BY <1>2 DEF Next
  <2>1. TypeOK /\ Graph /\ Headed /\ OwnHistory
    BY DEF IInv
  <2>2. Moved(m)
    BY <2>1, EveryStep
  <2>3. ASSUME NEW n \in Machine
        PROVE  /\ Past(head[n]) \subseteq Past(head[n])'
               /\ head'[n] = head[n] => Past(head[n]) = Past(head[n])'
    <3>1. head[n] \in Made \cup {None} /\ \A c \in Made : commits'[c] = commits[c]
      BY <2>1, <2>2, MovedForward DEF TypeOK
    <3>2. head[n] # None /\ n = m => head'[n] # None /\ Past(head[n]) \subseteq commits'[head'[n]].past
      BY <2>1, <2>2, MovedForward
    <3>3. n # m => head'[n] = head[n]
      BY <2>1, <2>2, MovedForward
    <3>. QED
      BY <3>1, <3>2, <3>3 DEF Past
  <2>4. CASE mergeHead'[o] = mergeHead[o] /\ head'[o] = head[o]
    BY <2>3, <2>4 DEF OpenMerge
  <2>5. CASE /\ UNCHANGED <<commits, head>>
             /\ head[o] # None
             /\ \E n \in Machine : /\ mergeHead'[o] = tracking[o][n]
                                   /\ ~ IsAncestor(tracking[o][n], head[o])
    <3>. PICK n \in Machine : /\ mergeHead'[o] = tracking[o][n]
                              /\ ~ IsAncestor(tracking[o][n], head[o])
      BY <2>5
    <3>1. tracking[o][n] \in Past(head[n])
      BY <2>1 DEF OwnHistory
    <3>. QED
      BY <2>5, <3>1 DEF IsAncestor, Past
  <2>6. CASE o = m
    BY <2>1, <2>4, <2>5, <2>6, MergeHeadStep
  <2>7. CASE o # m
    <3>1. Untouched(o)
      BY <2>1, <2>7, OthersUntouched
    <3>. QED
      BY <2>4, <3>1 DEF Untouched
  <2>. QED
    BY <2>6, <2>7
<1>. QED
  BY <1>1, <1>2

(* Where all machines agree, no merge is open and no ref, fetched however  *)
(* long ago, names anything that main does not contain.                    *)
LEMMA NothingNewAtRest ==
    ASSUME IInv, OpenMerge, AtRest, NEW m \in Machine
    PROVE  /\ head[m] # None
           /\ mergeHead[m] = None
           /\ \A n \in Machine : IsAncestor(tracking[m][n], head[m])
<1>1. \A n \in Machine : head[n] = head[m] /\ head[m] # None
  BY DEF AtRest, Agreed
<1>2. mergeHead[m] = None
  BY <1>1 DEF OpenMerge
<1>3. \A n \in Machine : tracking[m][n] # None => tracking[m][n] \in Past(head[n])
  BY DEF IInv, OwnHistory
<1>. QED
  BY <1>1, <1>2, <1>3 DEF IsAncestor

(* So every step but KiroCrew's own finds nothing to commit, to merge or   *)
(* to write.                                                               *)
LEMMA RestStep ==
    ASSUME IInv, OpenMerge, AtRest, NEW m \in Machine,
           Begin(m) \/ Continue(m) \/ Environment(m), ~ KiroCrewActs
    PROVE  UNCHANGED <<commits, head, live, version>>
<1>1. TypeOK /\ Headed
  BY DEF IInv
<1>2. /\ head[m] # None /\ mergeHead[m] = None
      /\ \A n \in Machine : IsAncestor(tracking[m][n], head[m])
  BY NothingNewAtRest
<1>3. commits[head[m]].tree = live[m] /\ commits[head[m]].version = version[m]
  BY DEF AtRest, Agreed
<1>4. CASE Begin(m)
  <2>. PICK cmd \in Command : Start(m, cmd) \/ StartRefused(m, cmd) \/ Resume(m, cmd)
    BY <1>4 DEF Begin
  <2>1. CASE Start(m, cmd)
    BY <1>2, <1>3, <2>1 DEF Start, CommitLiveState, liveVars
  <2>2. CASE StartRefused(m, cmd)
    BY <2>2 DEF StartRefused, liveVars, repoVars
  <2>3. CASE Resume(m, cmd)
    BY <1>2, <2>3 DEF Resume, liveVars
  <2>. QED
    BY <2>1, <2>2, <2>3
<1>5. CASE Pull(m) \/ EndWithoutPack(m) \/ Publish(m)
  BY <1>5 DEF Pull, EndWithoutPack, Publish, liveVars, repoVars
<1>6. CASE MergeRef(m)
  <2>1. NextRef(m) \in Machine
    BY <1>1, <1>6, NextRefPicked DEF MergeRef
  <2>2. SkipKnown(m, NextRef(m))
    BY <1>2, <1>6, <2>1 DEF MergeRef, Quarantine, SkipBlocked, FastForward, TrueMerge, Mergeable
  <2>. QED
    BY <1>6, <2>2 DEF MergeRef, SkipKnown, repoVars, liveVars
<1>7. CASE Pack(m)
  <2>1. live' = [live EXCEPT ![m] = live[m]]
    BY <1>3, <1>7 DEF Pack
  <2>2. live' = live
    BY <1>1, <2>1 DEF TypeOK
  <2>. QED
    BY <1>7, <2>2 DEF Pack, repoVars
<1>8. CASE Environment(m)
  <2>1. Quiesce(m) \/ Crash(m) \/ ResolveByHand(m) \/ AbortMerge(m)
    BY <1>8 DEF Environment, KiroCrewActs
  <2>. QED
    BY <2>1 DEF Quiesce, Crash, ResolveByHand, AbortMerge, liveVars, repoVars
<1>. QED
  BY <1>4, <1>5, <1>6, <1>7, <1>8 DEF Continue

(* Agreement, once reached, is ended by KiroCrew alone: no command, no     *)
(* failure, no kill, no bundle of any age and no overlap of commands.      *)
THEOREM OnlyKiroCrewEndsAgreement == Spec => AgreementStands
<1>1. Init => OpenMerge
  BY DEF Init, OpenMerge
<1>2. IInv /\ OpenMerge /\ [Next]_vars => [AtRest /\ ~ KiroCrewActs => AtRest']_vars
  <2>. SUFFICES ASSUME IInv, OpenMerge, Next, AtRest, ~ KiroCrewActs
                PROVE  AtRest'
    OBVIOUS
  <2>1. UNCHANGED <<commits, head, live, version>>
    BY RestStep DEF Next
  <2>. QED
    BY <2>1 DEF AtRest, Agreed
<1>. QED
  BY <1>1, <1>2, OpenMergeStep, Invariance, PTL DEF Spec, AgreementStands

-----------------------------------------------------------------------------
(* What a sync takes in.                                                   *)

(* No ref is ahead of the bundle it was fetched from.                      *)
Behind == \A m, n \in Machine : n # m => IsAncestor(tracking[m][n], remote[n])

Syncing(m) == pc[m] \in {"merge", "publish"} /\ running[m].name = "sync"

(* After its pull a sync has every bundle of the backend in a ref, and by  *)
(* the time it publishes it has visited every ref; the ones it visited are *)
(* in main, unless their machine is quarantined or a merge blocks them.    *)
Taking ==
    \A m \in Machine :
        Syncing(m) =>
            /\ \A n \in Machine \ {m} : tracking[m][n] = remote[n]
            /\ pc[m] = "publish" => todo[m] = {}
            /\ mergeHead[m] = None =>
                   \A n \in Machine \ ({m} \cup todo[m] \cup quarantined[m]) :
                       IsAncestor(remote[n], head[m])

(* Whatever a step makes, a commit stays in the past of every main that    *)
(* had it there.                                                           *)
LEMMA AncestorStays ==
    ASSUME TypeOK, Graph, Headed, NEW m \in Machine,
           Begin(m) \/ Continue(m) \/ Environment(m)
    PROVE  \A n \in Machine, c \in Made \cup {None} :
               IsAncestor(c, head[n]) => IsAncestor(c, head[n])'
<1>. SUFFICES ASSUME NEW n \in Machine, NEW c \in Made \cup {None}, IsAncestor(c, head[n])
              PROVE  c = None \/ c \in Past(head[n])'
  BY DEF IsAncestor
<1>1. Moved(m)
  BY EveryStep
<1>2. head[n] \in Made \cup {None} /\ \A d \in Made : commits'[d] = commits[d]
  BY <1>1, MovedForward DEF TypeOK
<1>3. head[n] # None /\ n = m => head'[n] # None /\ Past(head[n]) \subseteq commits'[head'[n]].past
  BY <1>1, MovedForward
<1>4. n # m => head'[n] = head[n]
  BY <1>1, MovedForward
<1>. QED
  BY <1>2, <1>3, <1>4 DEF Past, IsAncestor

(* Fetches follow the backend and publishes carry bundles forward, so refs *)
(* stay behind the bundles.                                                *)
LEMMA BehindStep ==
    ASSUME IInv, Alone, Fresh, Behind, "pull" \notin Fault, NEW m \in Machine,
           Begin(m) \/ Continue(m) \/ Environment(m)
    PROVE  Behind'
<1>. SUFFICES ASSUME NEW o \in Machine, NEW n \in Machine, n # o
              PROVE  IsAncestor(tracking[o][n], remote[n])'
  BY DEF Behind
<1>1. TypeOK /\ Graph /\ Headed /\ OwnHistory
  BY DEF IInv
<1>2. /\ tracking[o][n] \in Made \cup {None} /\ remote[n] \in Made \cup {None}
      /\ head[n] \in Made \cup {None}
  BY <1>1 DEF TypeOK
<1>3. \A c \in Made : commits'[c] = commits[c]
  BY <1>1, EveryStep, MovedForward
<1>4. IsAncestor(tracking[o][n], remote[n])
  BY DEF Behind
<1>5. CASE Publish(m)
  <2>1. tracking' = tracking /\ commits' = commits
    BY <1>5 DEF Publish, repoVars
  <2>2. CASE remote' = remote
    BY <1>4, <2>1, <2>2 DEF IsAncestor, Past
  <2>3. CASE remote' = [remote EXCEPT ![m] = head[m]]
    <3>1. tracking[o][n] # None => tracking[o][n] \in Past(head[n])
      BY <1>1 DEF OwnHistory
    <3>2. remote'[n] = IF n = m THEN head[n] ELSE remote[n]
      BY <1>1, <2>3 DEF TypeOK
    <3>. QED
      BY <1>4, <2>1, <3>1, <3>2 DEF IsAncestor, Past
  <2>. QED
    BY <1>1, <1>5, <2>2, <2>3, RemoteStep DEF Continue
<1>6. CASE ~ Publish(m)
  <2>1. remote' = remote
    BY <1>1, <1>6, RemoteStep
  <2>2. CASE Pull(m)
    <3>1. tracking'[o][n] \in {tracking[o][n], remote[n]}
      <4>. DEFINE row(got, F) == [q \in Machine |-> IF q \in F THEN got[q] ELSE tracking[m][q]]
      <4>. DEFINE F == {q \in Machine : Fetchable(m, q, remote)}
      <4>1. \/ UNCHANGED tracking
            \/ tracking' = [tracking EXCEPT ![m] = row(remote, F)]
        BY <2>2 DEF Pull
      <4>2. row(remote, F)[n] \in {remote[n], tracking[m][n]}
        OBVIOUS
      <4>3. tracking'[o] \in {tracking[o], IF o = m THEN row(remote, F) ELSE tracking[o]}
        <5>. HIDE DEF row
        <5>. QED
          BY <1>1, <4>1 DEF TypeOK
      <4>. HIDE DEF row
      <4>. QED
        BY <4>2, <4>3
    <3>2. commits' = commits
      BY <2>2 DEF Pull, repoVars
    <3>3. IsAncestor(remote[n], remote[n])
      BY <1>1, <1>2 DEF IsAncestor, Past, Graph
    <3>. QED
      BY <1>4, <2>1, <3>1, <3>2, <3>3 DEF IsAncestor, Past
  <2>3. CASE ~ Pull(m)
    <3>1. tracking' = tracking
      <4>1. CASE Begin(m)
        BY <4>1 DEF Begin, Start, StartRefused, Resume, transfer
      <4>2. CASE Continue(m)
        BY <1>6, <2>3, <4>2 DEF Continue, MergeRef, EndWithoutPack, Pack, transfer
      <4>3. CASE Environment(m)
        BY <1>1, <4>3, QuietCopies DEF Environment
      <4>. QED
        BY <4>1, <4>2, <4>3
    <3>. QED
      BY <1>2, <1>3, <1>4, <2>1, <3>1 DEF IsAncestor, Past
  <2>. QED
    BY <2>2, <2>3
<1>. QED
  BY <1>5, <1>6

(* A sync's pull fetches every bundle of the backend and puts every ref    *)
(* that names a commit on the list.                                        *)
LEMMA PullTakes ==
    ASSUME TypeOK, Behind, "pull" \notin Fault, NEW m \in Machine,
           Pull(m), running[m].name = "sync"
    PROVE  /\ pc' = [pc EXCEPT ![m] = "merge"]
           /\ \A n \in Machine \ {m} : tracking'[m][n] = remote[n]
           /\ \A n \in Machine \ {m} : n \notin todo'[m] => remote[n] = None
<1>. DEFINE fetched == {n \in Machine : Fetchable(m, n, remote)}
            row == [n \in Machine |-> IF n \in fetched THEN remote[n] ELSE tracking[m][n]]
<1>1. /\ tracking' = [tracking EXCEPT ![m] = row]
      /\ todo' = [todo EXCEPT ![m] =
             IF fetched = {} THEN {} ELSE {n \in Machine : tracking'[m][n] # None}]
      /\ pc' = [pc EXCEPT ![m] = "merge"]
  BY DEF Pull, Goto
<1>2. \A n \in Machine \ {m} : IF remote[n] # None THEN n \in fetched ELSE tracking[m][n] = None
  BY DEF Behind, Fetchable, IsAncestor, Past
<1>3. \A n \in Machine \ {m} : row[n] = remote[n]
  BY <1>2
<1>. HIDE DEF row, fetched
<1>4. tracking'[m] = row
  BY <1>1 DEF TypeOK
<1>5. todo'[m] = IF fetched = {} THEN {} ELSE {n \in Machine : row[n] # None}
  BY <1>1, <1>4 DEF TypeOK
<1>. QED
  BY <1>1, <1>2, <1>3, <1>4, <1>5

(* A turn of the loop leaves the ref it visits in main or in quarantine,   *)
(* unless it finds or leaves a merge open.                                 *)
LEMMA TurnTakes ==
    ASSUME TypeOK, Graph, Headed, NEW m \in Machine, MergeRef(m), pc'[m] = "merge",
           mergeHead'[m] = None, NEW n \in Machine, n \in todo[m], n \notin todo'[m],
           n \notin quarantined'[m]
    PROVE  mergeHead[m] = None /\ IsAncestor(tracking[m][n], head[m])'
<1>. DEFINE r == NextRef(m)
            c == tracking[m][r]
<1>. USE DEF TypeOK
<1>1. r \in Machine /\ head[m] \in Made /\ c \in Made \cup {None} /\ tracking' = tracking
  BY NextRefPicked DEF MergeRef, Headed
<1>2. CASE SkipKnown(m, r)
  <2>1. r = n /\ UNCHANGED <<commits, head, mergeHead>>
    BY <1>2 DEF SkipKnown, Visited, repoVars
  <2>. QED
    BY <1>1, <1>2, <2>1 DEF SkipKnown, IsAncestor, Past
<1>3. CASE Quarantine(m, r)
  BY <1>1, <1>3 DEF Quarantine, Visited
<1>4. CASE SkipBlocked(m, r)
  BY <1>4 DEF SkipBlocked, repoVars
<1>5. CASE FastForward(m, r)
  <2>1. r = n /\ commits' = commits /\ head'[m] = c /\ mergeHead[m] = None
    BY <1>5 DEF FastForward, Visited
  <2>. QED
    BY <1>1, <2>1 DEF IsAncestor, Past, Graph
<1>6. CASE TrueMerge(m, r)
  <2>1. mergeHead[m] = None /\ c # None
    BY <1>6 DEF TrueMerge, Mergeable, IsAncestor
  <2>2. CASE StopUnmerged(m, r)
    BY <2>2 DEF StopUnmerged, Finish, Goto
  <2>3. CASE /\ Visited(m, r)
             /\ \E tree \in Table, ver \in Version : Committed(tree, ver, {head[m], c})
             /\ head' = [head EXCEPT ![m] = NextId]
    <3>1. r = n /\ head'[m] = NextId
      BY <2>3 DEF Visited
    <3>2. {head[m], c} \in SUBSET (Made \cup {None})
      BY <1>1
    <3>3. Past(c) \subseteq commits'[NextId].past
      <4>1. PICK tree \in Table, ver \in Version : Committed(tree, ver, {head[m], c})
        BY <2>3
      <4>. DEFINE parents == {head[m], c}
      <4>2. parents \in SUBSET (Made \cup {None}) /\ Committed(tree, ver, parents) /\ c \in parents
        BY <3>2, <4>1
      <4>. HIDE DEF parents, TypeOK, c
      <4>. QED
        BY <4>2, CommitsGrow
    <3>4. NextId # None
      BY DEF NextId
    <3>. QED
      BY <1>1, <2>1, <3>1, <3>3, <3>4 DEF IsAncestor, Past, Graph
  <2>. DEFINE how == running[m].strategy
              base == Base(MergeBases({head[m]}, c), how)
              ours == commits[head[m]]
              theirs == commits[c]
              tree == MergeTable(base.tree, ours.tree, theirs.tree, how)
              ver == MergedVersion(base.version, ours.version, theirs.version)
  <2>4. /\ tree \in Table
        /\ SchemaConflict(base.version, ours.version, theirs.version) \/ ver \in Version
    BY <1>1, <2>1, CommitType, MergeTableType DEF MergedVersion, SchemaConflict
  <2>5. \/ StopUnmerged(m, r)
        \/ /\ ver \in Version
           /\ Visited(m, r)
           /\ commits' = Append(commits, NewCommit(tree, ver, {head[m], c}))
           /\ head' = [head EXCEPT ![m] = NextId]
    BY <1>6, <2>4 DEF TrueMerge
  <2>. HIDE DEF tree, ver
  <2>. QED
    BY <2>2, <2>3, <2>4, <2>5 DEF Committed
<1>. QED
  BY <1>2, <1>3, <1>4, <1>5, <1>6 DEF MergeRef

(* Only its own machine's steps move a sync on, and nothing else moves     *)
(* what it takes in.                                                       *)
LEMMA TakingOthers ==
    ASSUME IInv, Alone, "overlap" \notin Fault, NEW m \in Machine,
           Begin(m) \/ Continue(m) \/ Environment(m),
           NEW o \in Machine, o # m, Syncing(o)
    PROVE  UNCHANGED <<commits, remote, tracking>> /\ quarantined'[o] = quarantined[o]
<1>1. pc[o] # "idle" /\ pc[m] = "idle"
  BY DEF Alone, Syncing
<1>2. CASE Begin(m)
  BY <1>1, <1>2 DEF Begin
<1>3. CASE Continue(m)
  BY <1>1, <1>3 DEF Continue, Pull, MergeRef, EndWithoutPack, Pack, Publish, Applying
<1>4. CASE Environment(m)
  <2>1. UNCHANGED <<commits, remote, tracking>>
    BY <1>4, QuietCopies DEF Environment, IInv
  <2>2. quarantined' = quarantined
    BY <1>4 DEF Environment, Write, Quiesce, Upgrade, Crash, ResolveByHand, AbortMerge, transfer
  <2>. QED
    BY <2>1, <2>2
<1>. QED
  BY <1>2, <1>3, <1>4

(* A sync that is past its pull after a step of its machine has just       *)
(* pulled, has merged a ref, or has packed.                                *)
LEMMA SyncingStep ==
    ASSUME TypeOK, NEW m \in Machine,
           Begin(m) \/ Continue(m) \/ Environment(m), Syncing(m)'
    PROVE  \/ Pull(m) /\ running[m].name = "sync"
           \/ Syncing(m) /\ MergeRef(m) /\ pc'[m] = "merge" /\ UNCHANGED <<remote, tracking>>
           \/ /\ Syncing(m) /\ UNCHANGED <<repoVars, remote, tracking, todo, quarantined>>
              /\ pc'[m] = "publish" /\ pc[m] # "publish" => todo[m] = {}
<1>. USE DEF TypeOK, Syncing
<1>1. CASE Begin(m)
  <2>. PICK cmd \in Command : Start(m, cmd) \/ StartRefused(m, cmd) \/ Resume(m, cmd)
    BY <1>1 DEF Begin
  <2>. QED
    BY DEF Start, StartRefused, Resume, control, Goto
<1>2. CASE Pull(m)
  BY <1>2 DEF Pull, Goto
<1>3. CASE MergeRef(m)
  <2>1. UNCHANGED control \/ Finish(m)
    BY <1>3 DEF MergeRef, SkipKnown, Quarantine, SkipBlocked, FastForward, TrueMerge, StopUnmerged
  <2>. QED
    BY <1>3, <2>1 DEF MergeRef, Finish, Goto, control
<1>4. CASE EndWithoutPack(m) \/ Publish(m)
  BY <1>4 DEF EndWithoutPack, Publish, Finish, Goto
<1>5. CASE Pack(m)
  BY <1>5 DEF Pack, Applying, Goto, transfer
<1>6. CASE Environment(m)
  <2>1. CASE (\E k \in Key, cell \in Cell : Write(m, k, cell)) \/ Quiesce(m) \/ Upgrade(m)
    BY <2>1 DEF Write, Quiesce, Upgrade, transfer, control
  <2>2. CASE Crash(m) \/ ResolveByHand(m) \/ AbortMerge(m)
    BY <2>2 DEF Crash, ResolveByHand, AbortMerge, Finish, Goto, control
  <2>. QED
    BY <1>6, <2>1, <2>2 DEF Environment
<1>. QED
  BY <1>1, <1>2, <1>3, <1>4, <1>5, <1>6 DEF Continue

(* Every step keeps what Taking says of a sync.                            *)
LEMMA TakingStep ==
    ASSUME IInv, Alone, Fresh, Behind, Taking, "pull" \notin Fault, "overlap" \notin Fault,
           NEW m \in Machine, Begin(m) \/ Continue(m) \/ Environment(m)
    PROVE  Taking'
<1>. SUFFICES ASSUME NEW o \in Machine, Syncing(o)'
              PROVE  /\ \A n \in Machine \ {o} : tracking'[o][n] = remote'[n]
                     /\ pc'[o] = "publish" => todo'[o] = {}
                     /\ mergeHead'[o] = None =>
                            \A n \in Machine \ ({o} \cup todo'[o] \cup quarantined'[o]) :
                                IsAncestor(remote[n], head[o])'
  BY DEF Taking
<1>1. TypeOK /\ Graph /\ Headed
  BY DEF IInv
<1>2. ASSUME NEW n \in Machine
      PROVE  IsAncestor(remote[n], head[o]) /\ remote'[n] = remote[n]
             => IsAncestor(remote[n], head[o])'
  <2>1. remote[n] \in Made \cup {None}
    BY <1>1 DEF TypeOK
  <2>2. IsAncestor(remote[n], head[o]) =>
            remote[n] = None \/ (remote[n] # None /\ remote[n] \in Past(head[o])')
    BY <1>1, <2>1, AncestorStays DEF IsAncestor
  <2>. QED
    BY <2>2 DEF IsAncestor
<1>3. CASE o # m
  <2>1. Untouched(o)
    BY <1>1, <1>3, OthersUntouched
  <2>2. Syncing(o)
    BY <2>1 DEF Syncing, Untouched
  <2>3. UNCHANGED <<commits, remote, tracking>> /\ quarantined'[o] = quarantined[o]
    BY <1>3, <2>2, TakingOthers
  <2>. QED
    BY <1>2, <2>1, <2>2, <2>3 DEF Taking, Untouched
<1>4. CASE o = m
  <2>1. CASE Pull(m) /\ running[m].name = "sync"
    <3>1. /\ pc' = [pc EXCEPT ![m] = "merge"]
          /\ \A n \in Machine \ {m} : tracking'[m][n] = remote[n]
          /\ \A n \in Machine \ {m} : n \notin todo'[m] => remote[n] = None
      BY <1>1, <2>1, PullTakes
    <3>2. remote' = remote
      BY <2>1 DEF Pull
    <3>. QED
      BY <1>1, <1>4, <3>1, <3>2 DEF IsAncestor, TypeOK
  <2>2. CASE Syncing(m) /\ MergeRef(m) /\ pc'[m] = "merge" /\ UNCHANGED <<remote, tracking>>
    <3>1. ASSUME mergeHead'[m] = None,
                 NEW n \in Machine \ ({m} \cup todo'[m] \cup quarantined'[m])
          PROVE  IsAncestor(remote[n], head[m])'
      <4>1. tracking[m][n] = remote[n] /\ tracking'[m][n] = remote'[n] /\ remote'[n] = remote[n]
        BY <2>2 DEF Taking
      <4>2. CASE n \in todo[m]
        <5>1. IsAncestor(tracking[m][n], head[m])'
          BY <1>1, <2>2, <3>1, <4>2, TurnTakes
        <5>. QED
          BY <4>1, <5>1
      <4>3. CASE n \notin todo[m]
        <5>1. mergeHead[m] = None /\ quarantined[m] \subseteq quarantined'[m]
          <6>. DEFINE r == NextRef(m)
          <6>1. quarantined' = quarantined
                \/ quarantined' = [quarantined EXCEPT ![m] = @ \cup {r}]
            BY <2>2 DEF MergeRef, SkipKnown, Quarantine, SkipBlocked, FastForward, TrueMerge
          <6>2. mergeHead[m] = None
            <7>1. mergeHead' = mergeHead \/ Finish(m)
              BY <2>2 DEF MergeRef, SkipKnown, Quarantine, SkipBlocked, FastForward, TrueMerge,
                          StopUnmerged, repoVars
            <7>. QED
              BY <1>1, <2>2, <3>1, <7>1 DEF Finish, Goto, TypeOK
          <6>. QED
            BY <1>1, <6>1, <6>2 DEF TypeOK
        <5>2. IsAncestor(remote[n], head[m])
          BY <2>2, <4>3, <5>1 DEF Taking
        <5>. QED
          BY <1>2, <1>4, <4>1, <5>2
      <4>. QED
        BY <4>2, <4>3
    <3>. QED
      BY <1>4, <2>2, <3>1 DEF Taking
  <2>3. CASE /\ Syncing(m) /\ UNCHANGED <<repoVars, remote, tracking, todo, quarantined>>
             /\ pc'[m] = "publish" /\ pc[m] # "publish" => todo[m] = {}
    BY <1>2, <1>4, <2>3 DEF Taking, repoVars
  <2>. QED
    BY <1>1, <1>4, <2>1, <2>2, <2>3, SyncingStep
<1>. QED
  BY <1>3, <1>4

(* As long as pulls succeed and commands do not overlap, a sync publishes  *)
(* a main that contains every bundle of the backend whose machine it does  *)
(* not report as quarantined, unless a merge was left open.                *)
THEOREM SyncTakesEverything ==
    ASSUME "pull" \notin Fault, "overlap" \notin Fault
    PROVE  Spec => []SyncTakesAll
<1>. DEFINE Inv == Alone /\ Fresh /\ Behind /\ Taking
<1>1. Init => Inv
  BY DEF Init, Alone, Fresh, Pulled, Behind, IsAncestor, Taking, Syncing
<1>2. IInv /\ Inv /\ [Next]_vars => Inv'
  <2>. SUFFICES ASSUME IInv, Inv, [Next]_vars
                PROVE  Inv'
    OBVIOUS
  <2>1. CASE UNCHANGED vars
    BY <2>1 DEF vars, transfer, control, repoVars, Alone, Fresh, Pulled, Behind, IsAncestor,
                Past, Taking, Syncing
  <2>2. CASE Next
    <3>. PICK m \in Machine : Begin(m) \/ Continue(m) \/ Environment(m)
      BY <2>2 DEF Next
    <3>1. Alone' /\ Fresh'
      BY AloneStep, FreshStep DEF IInv
    <3>2. Behind' /\ Taking'
      BY BehindStep, TakingStep
    <3>. QED
      BY <3>1, <3>2
  <2>. QED
    BY <2>1, <2>2
<1>3. Inv => SyncTakesAll
  BY DEF Taking, Syncing, SyncTakesAll
<1>. QED
  BY <1>1, <1>2, <1>3, Invariance, PTL DEF Spec
=============================================================================
