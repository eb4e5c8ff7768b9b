----------------------------- MODULE SyncHistory ----------------------------
(***************************************************************************)
(* SyncEngine with history variables that follow what became of every row  *)
(* KiroCrew wrote, and the properties of the engine.  The history          *)
(* variables restrict nothing but KiroCrew's writes: a row is stored under *)
(* a key once, so that a row names the write that made it.                 *)
(***************************************************************************)
EXTENDS SyncEngine

VARIABLES
    written,    \* per key, the rows KiroCrew has stored, each with its schema
    known,      \* per machine and key, the rows its live data accounts for
    seen,       \* the same for every commit's tree
    replaced,   \* per key, the rows a user edited or deleted having seen them
    outranked,  \* per key, the rows that lost a merge to another edit
    edited,     \* per machine, the keys KiroCrew changed since main held them
    lost,       \* per key, live rows a pack overwrote that no commit holds
    crossed     \* two branches that had merged the same commits were merged

history == <<written, known, seen, replaced, outranked, edited, lost, crossed>>
hvars == <<vars, history>>

NoRows == [k \in Key |-> {}]
WrittenRows(k) == {w.row : w \in written[k]}

HInit ==
    /\ Init
    /\ written = NoRows
    /\ known = [m \in Machine |-> NoRows]
    /\ seen = <<>>
    /\ replaced = NoRows
    /\ outranked = NoRows
    /\ edited = [m \in Machine |-> {}]
    /\ lost = NoRows
    /\ crossed = FALSE

HWrite(m, k, cell) ==
    /\ cell # Absent => cell \notin WrittenRows(k)
    /\ Write(m, k, cell)
    /\ replaced' = [replaced EXCEPT ![k] = @ \cup known[m][k]]
    /\ edited' = [edited EXCEPT ![m] = @ \cup {k}]
    /\ IF cell = Absent
       THEN UNCHANGED <<written, known>>
       ELSE /\ written' = [written EXCEPT ![k] = @ \cup {[row |-> cell, version |-> version[m]]}]
            /\ known' = [known EXCEPT ![m][k] = @ \cup {cell}]
    /\ UNCHANGED <<seen, outranked, lost, crossed>>

(* A commit of the live state accounts for what the live state does.       *)
HStart(m, cmd) ==
    /\ Start(m, cmd)
    /\ seen' = IF commits' = commits THEN seen ELSE Append(seen, known[m])
    /\ edited' = [edited EXCEPT ![m] = {}]
    /\ UNCHANGED <<written, known, replaced, outranked, lost, crossed>>

Join(c, d) == [k \in Key |-> seen[c][k] \cup seen[d][k]]

HResume(m, cmd) ==
    /\ Resume(m, cmd)
    /\ seen' = IF commits' = commits THEN seen
               ELSE Append(seen, Join(head[m], mergeHead[m]))
    /\ UNCHANGED <<written, known, replaced, outranked, edited, lost, crossed>>

(* The row of one side that gave way to a row of the other that wins       *)
(* against it.                                                             *)
Losers(m, k, c) ==
    LET ours == commits[head[m]].tree[k]
        theirs == commits[c].tree[k]
        merged == commits'[NextId].tree[k]
    IN  IF Absent \notin {ours, theirs} /\ merged = Winner(ours, theirs)
        THEN {ours, theirs} \ {merged} ELSE {}

(* git finds more than one best common ancestor.                           *)
Crossing(m, c) == \E b, d \in MergeBases({head[m]}, c) : b # d

HMergeRef(m) ==
    /\ MergeRef(m)
    /\ LET c == tracking[m][NextRef(m)]
       IN  IF commits' = commits
           THEN UNCHANGED <<seen, outranked, crossed>>
           ELSE /\ seen' = Append(seen, Join(head[m], c))
                /\ outranked' = [k \in Key |-> outranked[k] \cup Losers(m, k, c)]
                /\ crossed' = (crossed \/ Crossing(m, c))
    /\ UNCHANGED <<written, known, replaced, edited, lost>>

Recorded(m, k) == {commits[c].tree[k] : c \in Past(head[m])}

HPack(m) ==
    /\ Pack(m)
    /\ known' = [known EXCEPT ![m] = seen[head[m]]]
    /\ edited' = [edited EXCEPT ![m] = {}]
    /\ lost' = [k \in Key |-> lost[k] \cup ({live[m][k]} \ (Recorded(m, k) \cup {Absent}))]
    /\ UNCHANGED <<written, seen, replaced, outranked, crossed>>

HBegin(m) ==
    /\ \E cmd \in Command :
         \/ HStart(m, cmd)
         \/ StartRefused(m, cmd) /\ UNCHANGED history
         \/ HResume(m, cmd)
    /\ "overlap" \in Fault \/ \A n \in Machine : pc[n] = "idle"

HContinue(m) ==
    \/ Pull(m) /\ UNCHANGED history
    \/ HMergeRef(m)
    \/ EndWithoutPack(m) /\ UNCHANGED history
    \/ HPack(m)
    \/ Publish(m) /\ UNCHANGED history

HEnvironment(m) ==
    \/ \E k \in Key, cell \in Cell : HWrite(m, k, cell)
    \/ (Quiesce(m) \/ Upgrade(m) \/ Crash(m) \/ ResolveByHand(m) \/ AbortMerge(m))
       /\ UNCHANGED history

HNext == \E m \in Machine : HBegin(m) \/ HContinue(m) \/ HEnvironment(m)

HSpec == HInit /\ [][HNext]_hvars

(* Each machine's scheduler (the daemon, the app's cron) keeps starting    *)
(* syncs: strongly fair, since without "overlap" another machine's command *)
(* disables it time and again.  A command that has started goes on to its  *)
(* end.                                                                    *)
FairSpec ==
    /\ HSpec
    /\ \A m \in Machine : SF_hvars(HBegin(m)) /\ WF_hvars(HContinue(m))

-----------------------------------------------------------------------------
(* Properties.                                                             *)

(* "No data loss" (ADR 0002, README): an edit that no user replaced and    *)
(* that lost no merge to an edit that outranks it is in the live data of   *)
(* some machine, at every moment; so it is what every machine holds once   *)
(* they agree.                                                             *)
EditsSurvive ==
    \A k \in Key : \A row \in WrittenRows(k) \ (replaced[k] \cup outranked[k]) :
        \E m \in Machine : live[m][k] = row

(* A sync brings a machine a row that it has held or merged before and     *)
(* does not hold.                                                          *)
Returns(m, k) == live'[m][k] \in known[m][k] /\ live'[m][k] # live[m][k]

(* The engine, with all its commits and bundles, implements Replicas: the  *)
(* rows that gave way are those a user replaced and those that lost a      *)
(* merge to a row that outranks them, and every other row stays (ADR 0002).*)
Promise == INSTANCE Replicas WITH
    written <- [k \in Key |-> WrittenRows(k)],
    beaten <- [k \in Key |-> replaced[k] \cup outranked[k]]

Promised == Promise!Spec

(* What a user replaced or deleted, and what lost a merge, does not come   *)
(* back ("present, absent, present: delete", ADR 0002), as long as git has *)
(* one best common ancestor to merge against.                              *)
NothingComesBack ==
    [][~ crossed' => \A m \in Machine, k \in Key : ~ Returns(m, k)]_hvars

(* Whatever git has to merge against, no row comes back after a user       *)
(* replaced or deleted it.  The code breaks this.                          *)
NothingEverComesBack ==
    [][\A m \in Machine, k \in Key :
          Returns(m, k) => live'[m][k] \notin replaced[k]]_hvars

(* Between commands, main and the live data differ only where KiroCrew has *)
(* written since, so the next unpack records the user's changes and no     *)
(* others (commit_local_state's "local state from <machine>").             *)
MainMatchesLive ==
    \A m \in Machine :
        pc[m] = "idle" /\ head[m] # None /\ ~ unmerged[m] =>
            \A k \in Key \ edited[m] : commits[head[m]].tree[k] = live[m][k]

(* Whatever a pack overwrites is held by some commit of that repository    *)
(* ("every sync is a git commit ..., so any previous state can be          *)
(* recovered", README).                                                    *)
PackLosesNothing == lost = NoRows

(* Quarantine keeps a newer schema's rows out of an older machine's data   *)
(* (check_remote_compat before the merge, the pack gates after it).        *)
QuarantineHolds ==
    \A m \in Machine, k \in Key :
        live[m][k] # Absent =>
            \E w \in written[k] : w.row = live[m][k] /\ w.version <= version[m]

(* Once KiroCrew stops writing, every machine ends with the same commit    *)
(* and the same live data, and stays there.                                *)
Convergence == <>[]Agreed
=============================================================================
