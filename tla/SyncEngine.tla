----------------------------- MODULE SyncEngine -----------------------------
(***************************************************************************)
(* kirocrew-sync.sh: several machines, each with a live KiroCrew database  *)
(* and a git repository holding its unpacked form, exchange git bundles    *)
(* through one dumb remote.  The commands sync, pull, push, resume and     *)
(* export are modelled step by step; each step ends where another process  *)
(* (KiroCrew writing, another machine publishing, a kill) can come between.*)
(*                                                                         *)
(* Within one machine the commands exclude each other: acquire_sync_lock,  *)
(* modelled in SyncLock.                                                   *)
(***************************************************************************)
EXTENDS RowMerge, FiniteSets, Sequences

CONSTANTS
    Machine,     \* the machine ids; refs/remotes is walked in their order
    Key,         \* the primary keys of the synced table
    Version,     \* KiroCrew schema versions
    Command,     \* the invocations users and schedulers make
    Fault,       \* which disturbances happen, a subset of Faults
    MaxCommits   \* bound: no command starts without room for its commits

Faults == {"busy",       \* KiroCrew is running, and seen to be writing
           "concurrent", \* KiroCrew writes while a command runs
           "crash",      \* a command is killed
           "pack",       \* pack fails and restores its backups
           "pull", "push", \* the backend is unreachable for one call
           "upgrade",    \* KiroCrew is upgraded to a later schema
           "overlap"}    \* two machines run their commands at the same time

Name == {"sync", "push", "resume", "export"}
Invocation ==
    [name : Name, strategy : Strategy, force : BOOLEAN, dry : BOOLEAN]

ASSUME EngineAssumption ==
    /\ Machine \subseteq Nat
    /\ Version \subseteq Nat \ {0}
    /\ Command \subseteq Invocation
    /\ Fault \subseteq Faults
    /\ MaxCommits \in Nat

Table == [Key -> Cell]
NoTable == [k \in Key |-> Absent]
None == 0                       \* no commit
Step == {"idle", "pull", "merge", "publish"}
Commit == [tree : Table, version : Version, past : SUBSET Nat]

VARIABLES
    live,        \* each machine's databases, as unpack would export them
    version,     \* the schema version KiroCrew runs there
    recent,      \* a database file is newer than a minute and the pack marker
    commits,     \* every commit made anywhere; a commit's id is its index
    head,        \* refs/heads/main of each repository
    mergeHead,   \* MERGE_HEAD: the other parent of a merge not yet committed
    unmerged,    \* git ls-files -u is not empty
    index,       \* the staged tree, while a merge is open
    tracking,    \* refs/remotes/<machine>/main of each repository
    remote,      \* the backend: one bundle per machine
    pulled,      \* the temporary directory backend_pull filled
    todo,        \* the machines whose ref merge_remote_refs has yet to visit
    quarantined, \* the quarantine log
    running,     \* the invocation a machine executes
    pc           \* where it is

liveVars   == <<live, version, recent>>
repoVars   == <<commits, head, mergeHead, unmerged, index>>
transfer   == <<tracking, pulled, todo, quarantined>>
control    == <<running, pc>>
vars       == <<liveVars, repoVars, transfer, remote, control>>

NothingPulled == [n \in Machine |-> None]
NoInvocation ==
    [name |-> "export", strategy |-> "auto", force |-> FALSE, dry |-> FALSE]

Init ==
    /\ live = [m \in Machine |-> NoTable]
    /\ version \in [Machine -> Version]
    /\ recent = [m \in Machine |-> FALSE]
    /\ commits = <<>>
    /\ head = [m \in Machine |-> None]
    /\ mergeHead = [m \in Machine |-> None]
    /\ unmerged = [m \in Machine |-> FALSE]
    /\ index = [m \in Machine |-> NoTable]
    /\ tracking = [m \in Machine |-> [n \in Machine |-> None]]
    /\ remote = [n \in Machine |-> None]
    /\ pulled = [m \in Machine |-> NothingPulled]
    /\ todo = [m \in Machine |-> {}]
    /\ quarantined = [m \in Machine |-> {}]
    /\ running = [m \in Machine |-> NoInvocation]
    /\ pc = [m \in Machine |-> "idle"]

-----------------------------------------------------------------------------
(* Git: ancestry, merge bases and commits.                                 *)

Made == 1 .. Len(commits)

(* c and everything reachable from it.                                     *)
Past(c) == IF c = None THEN {} ELSE commits[c].past

IsAncestor(c, d) == c = None \/ c \in Past(d)

(* The best common ancestors of c and of any commit in S.                  *)
MergeBases(S, c) ==
    LET common == (UNION {Past(d) : d \in S}) \cap Past(c)
    IN  {b \in common : \A d \in common \ {b} : ~ IsAncestor(b, d)}

(* The schema dump is a file of its own that git merges as binary: one     *)
(* side's change is taken.  Two different changes are a conflict, and where *)
(* git only merges merge bases with each other, their own base stands.     *)
MergedVersion(base, ours, theirs) ==
    IF ours = theirs \/ theirs = base THEN ours
    ELSE IF ours = base THEN theirs ELSE base

(* Two different changes of the schema dump: git leaves it unmerged.        *)
SchemaConflict(base, ours, theirs) == ours # theirs /\ base \notin {ours, theirs}

(* What git merges against.  When there are several merge bases it first   *)
(* merges them with each other, oldest first, by the same drivers.         *)
Base(S, strategy) ==
    LET base[T \in SUBSET Made] ==
            IF T = {} THEN [tree |-> NoTable, version |-> None]
            ELSE LET newest == CHOOSE c \in T : \A d \in T : d <= c
                     rest == T \ {newest}
                     below == base[MergeBases(rest, newest)]
                     other == base[rest]
                     new == commits[newest]
                 IN  IF rest = {} THEN [tree |-> new.tree, version |-> new.version]
                     ELSE [tree |-> MergeTable(below.tree, other.tree, new.tree, strategy),
                           version |-> MergedVersion(below.version, other.version, new.version)]
    IN  base[S]

NewCommit(tree, ver, parents) ==
    [tree |-> tree, version |-> ver,
     past |-> (UNION {Past(p) : p \in parents}) \cup {Len(commits) + 1}]

NextId == Len(commits) + 1

(* Room for every commit a command may make, its own and one per merge,    *)
(* beside those of the commands already running.                           *)
Room ==
    LET busy == {m \in Machine : pc[m] # "idle"}
    IN  Len(commits) + Cardinality(Machine) * (1 + Cardinality(busy)) <= MaxCommits

-----------------------------------------------------------------------------
(* KiroCrew itself.                                                        *)

MayWrite(m) == pc[m] = "idle" \/ "concurrent" \in Fault

(* KiroCrew stores a row or deletes one.  A write that only reaches the    *)
(* WAL leaves the database file's mtime alone.                             *)
Write(m, k, cell) ==
    /\ MayWrite(m)
    /\ live[m][k] # cell
    /\ live' = [live EXCEPT ![m][k] = cell]
    /\ \E touched \in IF "busy" \in Fault THEN BOOLEAN ELSE {FALSE} :
           recent' = [recent EXCEPT ![m] = @ \/ touched]
    /\ UNCHANGED <<version, repoVars, transfer, remote, control>>

(* A minute without a write passes.                                        *)
Quiesce(m) ==
    /\ recent[m]
    /\ recent' = [recent EXCEPT ![m] = FALSE]
    /\ UNCHANGED <<live, version, repoVars, transfer, remote, control>>

Upgrade(m) ==
    /\ "upgrade" \in Fault
    /\ MayWrite(m)
    /\ version[m] + 1 \in Version
    /\ version' = [version EXCEPT ![m] = @ + 1]
    /\ UNCHANGED <<live, recent, repoVars, transfer, remote, control>>

-----------------------------------------------------------------------------
(* The commands.                                                           *)

Goto(m, step) == pc' = [pc EXCEPT ![m] = step]

(* The command returns or exits; on_exit removes the temporary directory.  *)
Finish(m) ==
    /\ Goto(m, "idle")
    /\ running' = [running EXCEPT ![m] = NoInvocation]
    /\ pulled' = [pulled EXCEPT ![m] = NothingPulled]
    /\ todo' = [todo EXCEPT ![m] = {}]

(* Two bugs for the runs to catch: main moves to a commit that was not     *)
(* made, and only the first export is committed.                           *)
CommitNothing(m) ==
    /\ head' = [head EXCEPT ![m] = NextId]
    /\ UNCHANGED <<commits, mergeHead, unmerged, index>>

CommitOnlyOnce(m) ==
    /\ unmerged' = [unmerged EXCEPT ![m] = FALSE]
    /\ UNCHANGED <<index, mergeHead>>
    /\ IF head[m] # None
       THEN UNCHANGED <<commits, head>>
       ELSE /\ commits' = Append(commits, NewCommit(live[m], version[m], {}))
            /\ head' = [head EXCEPT ![m] = NextId]

(* unpack, then commit_local_state: the working tree becomes the live      *)
(* state, git add -A stages it and settles any unmerged path, and a commit *)
(* is made unless the staged tree equals main's.  With MERGE_HEAD present  *)
(* that commit is the merge.                                               *)
CommitLiveState(m) ==
    LET h == head[m]
        same == h # None /\ commits[h].tree = live[m] /\ commits[h].version = version[m]
        parents == {h, mergeHead[m]} \ {None}
    IN  /\ unmerged' = [unmerged EXCEPT ![m] = FALSE]
        /\ IF same
           THEN /\ index' = [index EXCEPT ![m] = IF mergeHead[m] = None THEN @ ELSE live[m]]
                /\ UNCHANGED <<commits, head, mergeHead>>
           ELSE /\ index' = [index EXCEPT ![m] = NoTable]
                /\ commits' = Append(commits, NewCommit(live[m], version[m], parents))
                /\ head' = [head EXCEPT ![m] = NextId]
                /\ mergeHead' = [mergeHead EXCEPT ![m] = None]

(* cmd_sync, cmd_push and cmd_export up to the first use of the backend.   *)
Start(m, cmd) ==
    /\ pc[m] = "idle"
    /\ cmd.name \in {"sync", "push", "export"}
    /\ cmd.name = "sync" => ~ unmerged[m]
    /\ Room
    /\ CommitLiveState(m)
    /\ quarantined' = IF cmd.name = "sync"
                      THEN [quarantined EXCEPT ![m] = {}] ELSE quarantined
    /\ IF cmd.name = "export" \/ (cmd.name = "push" /\ cmd.dry)
       THEN UNCHANGED control
       ELSE /\ running' = [running EXCEPT ![m] = cmd]
            /\ Goto(m, "pull")
    /\ UNCHANGED <<liveVars, tracking, pulled, todo, remote>>

(* cmd_sync has already emptied the logs when it finds unmerged paths.     *)
StartRefused(m, cmd) ==
    /\ pc[m] = "idle"
    /\ cmd.name = "sync"
    /\ unmerged[m]
    /\ quarantined' = [quarantined EXCEPT ![m] = {}]
    /\ UNCHANGED <<liveVars, repoVars, tracking, pulled, todo, remote, control>>

(* The schema dump of a merge resolved by hand: git staged the one it      *)
(* merged, and only where both sides had changed it does the user choose.  *)
ResolvedVersions(m) ==
    LET base == Base(MergeBases({head[m]}, mergeHead[m]), "auto").version
        ours == commits[head[m]].version
        theirs == commits[mergeHead[m]].version
    IN  IF SchemaConflict(base, ours, theirs) THEN {ours, theirs}
        ELSE {MergedVersion(base, ours, theirs)}

(* cmd_resume: a merge resolved by hand is committed, and what main holds  *)
(* is then applied; resume does not unpack.                                *)
Resume(m, cmd) ==
    /\ pc[m] = "idle"
    /\ cmd.name = "resume"
    /\ ~ unmerged[m]
    /\ head[m] # None
    /\ Room
    /\ IF mergeHead[m] = None
       THEN UNCHANGED <<commits, head, mergeHead>>
       ELSE /\ \E ver \in ResolvedVersions(m) :
                    commits' = Append(commits,
                                      NewCommit(index[m], ver, {head[m], mergeHead[m]}))
            /\ head' = [head EXCEPT ![m] = NextId]
            /\ mergeHead' = [mergeHead EXCEPT ![m] = None]
    /\ index' = [index EXCEPT ![m] = NoTable]
    /\ running' = [running EXCEPT ![m] = cmd]
    /\ Goto(m, "merge")
    /\ UNCHANGED <<liveVars, unmerged, transfer, remote>>

(* fetch_bundles: without a "+" a fetch only moves a tracking ref forward. *)
Fetchable(m, n, got) ==
    n # m /\ got[n] # None /\ IsAncestor(tracking[m][n], got[n])

(* backend_pull into the temporary directory, which every command lets     *)
(* fail, and for a sync the fetch; merging is skipped if nothing came.     *)
Pull(m) ==
    /\ pc[m] = "pull"
    /\ \E got \in {remote} \cup
                  (IF "pull" \in Fault THEN {NothingPulled} ELSE {}) :
         /\ pulled' = [pulled EXCEPT ![m] = got]
         /\ IF running[m].name # "sync"
            THEN Goto(m, "publish") /\ UNCHANGED <<tracking, todo>>
            ELSE LET fetched == {n \in Machine : Fetchable(m, n, got)}
                 IN  /\ tracking' = [tracking EXCEPT ![m] =
                            [n \in Machine |-> IF n \in fetched THEN got[n] ELSE @[n]]]
                     /\ todo' = [todo EXCEPT ![m] =
                            IF fetched = {} THEN {}
                            ELSE {n \in Machine : tracking'[m][n] # None}]
                     /\ Goto(m, "merge")
    /\ UNCHANGED <<liveVars, repoVars, quarantined, remote, running>>

(* A bug for the runs to catch: only a remote older than the live schema   *)
(* is turned away.                                                         *)
CompatibleIfNewer(m, c) == version[m] <= commits[c].version

(* check_remote_compat: the live schema against the remote machine's tree. *)
Compatible(m, c) == version[m] = commits[c].version

Refused(m, c) == ~ running[m].force /\ ~ Compatible(m, c)

(* One turn of the loop in merge_remote_refs, for the next machine's ref.  *)
NextRef(m) == CHOOSE n \in todo[m] : \A o \in todo[m] : n <= o

Visited(m, n) == todo' = [todo EXCEPT ![m] = @ \ {n}]

SkipKnown(m, n) ==
    /\ IsAncestor(tracking[m][n], head[m])
    /\ Visited(m, n)
    /\ UNCHANGED <<repoVars, pulled, quarantined, control>>

Quarantine(m, n) ==
    /\ ~ IsAncestor(tracking[m][n], head[m])
    /\ Refused(m, tracking[m][n])
    /\ quarantined' = [quarantined EXCEPT ![m] = @ \cup {n}]
    /\ Visited(m, n)
    /\ UNCHANGED <<repoVars, pulled, control>>

Mergeable(m, n) ==
    /\ ~ IsAncestor(tracking[m][n], head[m])
    /\ ~ Refused(m, tracking[m][n])

(* git merge refuses while an earlier merge is still open.                 *)
SkipBlocked(m, n) ==
    /\ Mergeable(m, n)
    /\ mergeHead[m] # None
    /\ Visited(m, n)
    /\ UNCHANGED <<repoVars, pulled, quarantined, control>>

(* A bug for the runs to catch: main is reset to the remote's commit.      *)
ResetToTheirs(m, n) ==
    /\ Mergeable(m, n)
    /\ mergeHead[m] = None
    /\ head' = [head EXCEPT ![m] = tracking[m][n]]
    /\ Visited(m, n)
    /\ UNCHANGED <<commits, mergeHead, unmerged, index, pulled, quarantined, control>>

FastForward(m, n) ==
    /\ Mergeable(m, n)
    /\ mergeHead[m] = None
    /\ IsAncestor(head[m], tracking[m][n])
    /\ head' = [head EXCEPT ![m] = tracking[m][n]]
    /\ Visited(m, n)
    /\ UNCHANGED <<commits, mergeHead, unmerged, index, pulled, quarantined, control>>

(* A bug for the runs to catch: the loop goes on after a conflict.         *)
SkipUnmerged(m, n) == Visited(m, n) /\ UNCHANGED <<pulled, control>>

(* Unmerged paths: the command ends with an error.                         *)
StopUnmerged(m, n) == Finish(m)

(* A true merge.  One that leaves unmerged paths ends the command before   *)
(* the live data is touched; the next sync refuses to start.               *)
TrueMerge(m, n) ==
    LET c == tracking[m][n]
        how == running[m].strategy
        base == Base(MergeBases({head[m]}, c), how)
        ours == commits[head[m]]
        theirs == commits[c]
        tree == MergeTable(base.tree, ours.tree, theirs.tree, how)
    IN  /\ Mergeable(m, n)
        /\ mergeHead[m] = None
        /\ ~ IsAncestor(head[m], c)
        /\ IF \/ Unresolved(base.tree, ours.tree, theirs.tree, how)
              \/ SchemaConflict(base.version, ours.version, theirs.version)
           THEN /\ unmerged' = [unmerged EXCEPT ![m] = TRUE]
                /\ mergeHead' = [mergeHead EXCEPT ![m] = c]
                /\ index' = [index EXCEPT ![m] = tree]
                /\ StopUnmerged(m, n)
                /\ UNCHANGED <<commits, head>>
           ELSE /\ commits' = Append(commits, NewCommit(tree,
                       MergedVersion(base.version, ours.version, theirs.version),
                       {head[m], c}))
                /\ head' = [head EXCEPT ![m] = NextId]
                /\ Visited(m, n)
                /\ UNCHANGED <<mergeHead, unmerged, index, pulled, control>>
        /\ UNCHANGED quarantined

MergeRef(m) ==
    /\ pc[m] = "merge"
    /\ todo[m] # {}
    /\ LET n == NextRef(m)
       IN  \/ SkipKnown(m, n)
           \/ Quarantine(m, n)
           \/ SkipBlocked(m, n)
           \/ FastForward(m, n)
           \/ TrueMerge(m, n)
    /\ UNCHANGED <<liveVars, tracking, remote>>

(* apply_to_kirocrew.  Nothing is applied by a dry run, while KiroCrew is  *)
(* seen writing (check_kirocrew_running), when the repository's schema is  *)
(* not the live one (the pack gates), or when pack fails and restores its  *)
(* backups; every one of these ends the command with main as it is.        *)
Applying(m) == pc[m] = "merge" /\ todo[m] = {}

Gated(m) == ~ running[m].force /\ ~ Compatible(m, head[m])

EndWithoutPack(m) ==
    /\ Applying(m)
    /\ \/ running[m].dry
       \/ recent[m]
       \/ Gated(m)
       \/ "pack" \in Fault
    /\ Finish(m)
    /\ UNCHANGED <<liveVars, repoVars, tracking, quarantined, remote>>

(* A bug for the runs to catch: pack writes rows and deletes none.         *)
PackUpserts(m) ==
    /\ Applying(m)
    /\ ~ running[m].dry
    /\ ~ recent[m]
    /\ ~ Gated(m)
    /\ live' = [live EXCEPT ![m] =
           [k \in Key |-> IF commits[head[m]].tree[k] = Absent
                          THEN @[k] ELSE commits[head[m]].tree[k]]]
    /\ recent' = [recent EXCEPT ![m] = FALSE]
    /\ Goto(m, IF running[m].name = "resume" THEN "pull" ELSE "publish")
    /\ UNCHANGED <<version, repoVars, transfer, remote, running>>

Pack(m) ==
    /\ Applying(m)
    /\ ~ running[m].dry
    /\ ~ recent[m]
    /\ ~ Gated(m)
    /\ live' = [live EXCEPT ![m] = commits[head[m]].tree]
    /\ recent' = [recent EXCEPT ![m] = FALSE]
    /\ Goto(m, IF running[m].name = "resume" THEN "pull" ELSE "publish")
    /\ UNCHANGED <<version, repoVars, transfer, remote, running>>

(* Two bugs for the runs to catch: a fresh temporary directory, and a      *)
(* bundle that is already there and kept.                                  *)
OutgoingAlone(m) == [NothingPulled EXCEPT ![m] = head[m]]
OutgoingKept(m) ==
    IF pulled[m][m] = None THEN [pulled[m] EXCEPT ![m] = head[m]] ELSE pulled[m]

(* publish_bundle: the temporary directory plus this machine's new bundle  *)
(* replaces the remote; the mirror deletes what the pull did not bring.    *)
Outgoing(m) == [pulled[m] EXCEPT ![m] = head[m]]

Publish(m) ==
    /\ pc[m] = "publish"
    /\ \/ remote' = Outgoing(m)
       \/ "push" \in Fault /\ UNCHANGED remote
    /\ Finish(m)
    /\ UNCHANGED <<liveVars, repoVars, tracking, quarantined>>

(* The command's process is killed; its lock goes stale and is reclaimed.  *)
Crash(m) ==
    /\ "crash" \in Fault
    /\ pc[m] # "idle"
    /\ Finish(m)
    /\ UNCHANGED <<liveVars, repoVars, tracking, quarantined, remote>>

-----------------------------------------------------------------------------
(* The user, as show_unresolved tells them: edit the paths and git add     *)
(* them (resume commits), or git merge --abort.                            *)
ResolveByHand(m) ==
    /\ unmerged[m]
    /\ pc[m] = "idle"
    /\ \E tree \in Table :
         /\ \A k \in Key : \E c \in {head[m], mergeHead[m]} :
                tree[k] = commits[c].tree[k]
         /\ index' = [index EXCEPT ![m] = tree]
    /\ unmerged' = [unmerged EXCEPT ![m] = FALSE]
    /\ UNCHANGED <<liveVars, commits, head, mergeHead, transfer, remote, control>>

AbortMerge(m) ==
    /\ unmerged[m]
    /\ pc[m] = "idle"
    /\ unmerged' = [unmerged EXCEPT ![m] = FALSE]
    /\ mergeHead' = [mergeHead EXCEPT ![m] = None]
    /\ index' = [index EXCEPT ![m] = NoTable]
    /\ UNCHANGED <<liveVars, commits, head, transfer, remote, control>>

-----------------------------------------------------------------------------
Begin(m) ==
    /\ "overlap" \in Fault \/ \A n \in Machine : pc[n] = "idle"
    /\ \E cmd \in Command : Start(m, cmd) \/ StartRefused(m, cmd) \/ Resume(m, cmd)

Continue(m) ==
    Pull(m) \/ MergeRef(m) \/ EndWithoutPack(m) \/ Pack(m) \/ Publish(m)

Environment(m) ==
    \/ \E k \in Key, cell \in Cell : Write(m, k, cell)
    \/ Quiesce(m) \/ Upgrade(m) \/ Crash(m) \/ ResolveByHand(m) \/ AbortMerge(m)

Next == \E m \in Machine : Begin(m) \/ Continue(m) \/ Environment(m)

Spec == Init /\ [][Next]_vars

(* The type invariant.                                                     *)
TypeOK ==
    /\ live \in [Machine -> Table]
    /\ version \in [Machine -> Version]
    /\ recent \in [Machine -> BOOLEAN]
    /\ commits \in Seq(Commit)
    /\ head \in [Machine -> Made \cup {None}]
    /\ mergeHead \in [Machine -> Made \cup {None}]
    /\ unmerged \in [Machine -> BOOLEAN]
    /\ index \in [Machine -> Table]
    /\ tracking \in [Machine -> [Machine -> Made \cup {None}]]
    /\ remote \in [Machine -> Made \cup {None}]
    /\ pulled \in [Machine -> [Machine -> Made \cup {None}]]
    /\ todo \in [Machine -> SUBSET Machine]
    /\ quarantined \in [Machine -> SUBSET Machine]
    /\ running \in [Machine -> Invocation]
    /\ pc \in [Machine -> Step]

(* A machine's bundle, wherever a copy of it is, never runs ahead of the   *)
(* history of the machine it is named after.                               *)
OwnHistory ==
    \A m, n \in Machine :
        \A c \in {remote[n], pulled[m][n], tracking[m][n]} \ {None} :
            c \in Past(head[n])

(* A merge with unmerged paths ends the command and leaves main without    *)
(* the other side, for the user to finish or abort: nothing half-merged is *)
(* applied or published ("Sync stopped before touching your data").        *)
NothingHalfMerged ==
    \A m \in Machine :
        unmerged[m] => /\ pc[m] = "idle"
                       /\ mergeHead[m] # None
                       /\ ~ IsAncestor(mergeHead[m], head[m])

(* main only moves to a descendant, and a tracking ref only forward.       *)
RefsAdvance ==
    [][\A m \in Machine :
         /\ head[m] # None => head[m] \in commits'[head'[m]].past
         /\ \A n \in Machine :
              tracking[m][n] # None =>
                  tracking[m][n] \in commits'[tracking'[m][n]].past]_vars

(* A publish carries every other machine's bundle forward (cmd_push's      *)
(* "must be carried forward rather than dropped").                         *)
BundlesCarriedForward ==
    [][\A n \in Machine :
         remote[n] # None =>
             remote'[n] # None /\ remote[n] \in commits'[remote'[n]].past]_vars

(* A sync that publishes has merged every bundle on the backend, except    *)
(* those of machines it reports as quarantined, and unless an earlier      *)
(* merge still waits to be committed (fetch_bundles, merge_remote_refs).   *)
SyncTakesAll ==
    \A m \in Machine :
        pc[m] = "publish" /\ running[m].name = "sync" /\ mergeHead[m] = None =>
            \A n \in Machine \ ({m} \cup quarantined[m]) :
                IsAncestor(remote[n], head[m])

(* Every machine holds the same commit and the live data it describes.     *)
Agreed ==
    \A m, n \in Machine :
        /\ head[m] # None
        /\ head[m] = head[n]
        /\ live[m] = commits[head[m]].tree

AtRest == Agreed /\ \A m \in Machine : commits[head[m]].version = version[m]

KiroCrewActs ==
    \E m \in Machine :
        Upgrade(m) \/ \E k \in Key, cell \in Cell : Write(m, k, cell)

(* Once all machines agree only KiroCrew ends it: whatever command starts, *)
(* goes on, fails or is killed there, and whatever old bundle it finds, it *)
(* makes no commit and changes no live data (commit_local_state commits    *)
(* only a difference, merge_remote_refs skips what main contains).         *)
AgreementStands == [][AtRest /\ ~ KiroCrewActs => AtRest']_vars
=============================================================================
