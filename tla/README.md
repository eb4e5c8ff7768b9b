# kirocrew-sync: models, model checking and proofs

kirocrew-sync keeps the KiroCrew data of several machines the same. Each
machine unpacks its SQLite databases and files into a git repository, exchanges
git bundles with the others through a dumb file store, merges row by row, and
packs the result back into the live databases. There is no server that decides
anything. What must hold is therefore a property of many machines that run the
same shell script at their own time, of a KiroCrew that writes while they do,
and of commands that are killed.

This directory holds TLA+ specifications of that behaviour, translated from the
source, TLC configurations that check them on small instances, and proofs,
checked by TLAPS, of what holds for instances of any size.

## 1. The system

| Component | Source | State it keeps | Operations |
|---|---|---|---|
| Row merge | `lib/kcsync/merge.py` | none (a function of three tables) | `merge_table`, `driver_rows` |
| JSON merge and file stores | `merge.py`, `files.py`, `policy.py` | live files | `merge_json`, `unpack_files`, `pack_files`, secret stripping and grafting |
| Sync engine | `kirocrew-sync.sh` | git repository: main, `MERGE_HEAD`, index, tracking refs; logs | `sync`, `pull`, `push`, `resume`, `export`, `import`, `status` |
| Sync lock | `kirocrew-sync.sh` 180-259 | a file holding a PID | acquire, release, stale cleanup |
| Unpack and pack | `lib/kcsync/cli.py`, `dbio.py`, `stores.py` | live databases, backups | `cmd_unpack`, `cmd_pack`, `pack_db`, `backup`, `restore` |
| Gates | `gates.py` | none | schema drift, embedding space, secrets, scope |
| Portable paths | `paths.py`, `portable_paths.py` | `path_map.conf`, URI columns | encode and decode, in a sync and by hand |
| Canonical JSON and blobs | `canon.py` | blob directory | canonical order, externalised embeddings |
| Backends | `backends/*.sh` | the remote directory | `backend_push`, `_pull`, `_list`, mailbox verbs |
| Daemon | `lib/daemon.sh` | last listing, `daemon.lock` | `cmd_daemon`, `daemon_cycle` |
| Mailbox | `lib/kcsync/mailbox.py`, the `inbox` commands | state file, `mailbox.lock`, bundles on the backend | send, list, install, discard |
| App: sync runs | `sync_runner.py`, `sync_manager.py`, `history.py`, `conflicts.py`, `quarantine.py`, `notifications.py` | SQLite: runs, conflicts, quarantine, dedup | run a sync, record, ingest, notify, clean up, dismiss, resolve |
| App: daemon control | `sync_manager.py`, `server.py` | table `daemon_state` | start, stop, restart, configure |
| App: backend settings | `backends.py` | `config.sh` | read, edit, switch, show |
| App: routing, models, CLI, UI; installers; contrib | `app/`, `install*.sh`, `onboard.sh`, `contrib` | none that matters here | presentation, set-up |

How they interact. A command takes the sync lock, unpacks, commits the live
state to main, pulls the remote directory, fetches each other machine's bundle
into `refs/remotes/<machine>/main`, merges these refs one by one (git calls
the row merge and the JSON merge as merge drivers), packs main into the live
databases and files, adds its own bundle to the pulled directory and pushes the
whole directory back, which mirrors it: what is not in the directory disappears
from the remote. Paths become portable and credentials are taken out on the way
into the repository, and the reverse on the way back. The daemon, the app, its
cron entry and the user all start the same script; within a machine they meet
at the lock, across machines only at the remote directory. The app reads the
logs a sync left after the sync has let go of its lock, and keeps what it read
in a database its threads and cron processes share. KiroCrew shares the live
databases with pack and unpack and takes part in no lock.

What is hard. Two machines between pull and push at once. main and the live
data moving apart (a merge that is not packed: dry run, a busy KiroCrew, a
closed gate, a failed pack, a kill) and the next unpack taking the difference
for the user's edit. A merge left open with conflicts. Machines with different
schema versions. Several merge bases. Lock files that are tested, read, written
and removed in separate steps. One database of several failing to apply. A
delivery that happened and is not recorded. Logs of one run read by another. A
state file, a configuration or a table read, changed and written back while
somebody else does the same.

For each component the correctness properties are: the merges are the same
function on every machine and lose no edit to a deletion or to a copy nobody
touched; the engine loses no edit, rewinds no ref, drops no bundle, converges;
the lock excludes and never wedges; pack is all or nothing and always
recoverable; a folder stays the same folder and a credential stays where it is;
the mailbox installs once and loses nothing; the app tells each run's story,
tells it once and remembers what the user decided; the daemon is one, can be
stopped, and syncs what it noticed. Those, and the places where the code is
exposed, are listed line by line under `hazards` in `PROJECT.json`.

## 2. The modules

| Module | Models | Kind |
|---|---|---|
| `RowMerge` | the row merge, as operators | algorithm |
| `RowMergeLaws` | three machines that edit copies of one row, and the laws of the merge | properties |
| `SyncEngine` | the machines, their repositories, the remote, the commands step by step | state machine |
| `SyncHistory` | `SyncEngine` with history variables that follow each row; the engine's properties | properties |
| `Replicas` | what users of several machines are promised: tables, rows and what beats a row | abstract specification, implemented by `SyncHistory` |
| `SyncLock` | the lock, one system call per step | state machine |
| `Pack` | `cmd_pack`: backups, transactions, restore, files | state machine |
| `AtomicPack` | what the engine relies on when it calls pack | abstract specification, implemented by `Pack` |
| `PathSync` | folder sources, path maps, encode and decode, sync and manual repair | state machine |
| `ConfigSync` | `config.json` with credentials between machines, `merge_json` | state machine |
| `Mailbox` | bundles, inbox commands, the state file, the gateway | state machine |
| `SyncDaemon` | the daemon, its lock and signals, control and configuration requests | state machine |
| `SyncApp` | the app's syncs, their records and notifications | state machine |
| `BackendConfig` | `config.sh` edited by requests and sourced by syncs | state machine |
| `MCLaws` | `RowMergeLaws`, `PathSync`, `ConfigSync`, `BackendConfig`, one after the other | composition for TLC |
| other `MC*` | values for TLC | instances |
| `*_proofs` | theorems and proofs | proofs |

`SyncEngine` EXTENDS `RowMerge`: its merges are the verified operators.
`Replicas` knows no commits, bundles or commands. There a user stores or deletes
a row, two rows are judged, and a machine adopts what others did, and drops only
rows that were beaten. `SyncHistory` implements it (`Promised`) with `written`
and `beaten` read off its history; a merge is a `Judge`, a pack an `Adopt`.
`SyncEngine`'s actions `Pack` and `EndWithoutPack` are the `Succeed` and `Fail`
of `AtomicPack`, which `Pack` is shown to implement; that is what justifies a
one-step pack in the engine. A `CutShort` that applied everything (a file that
could not be written) is the engine's `Pack` followed by `Crash`; one that
leaves the databases mixed is not in the engine. `SyncLock` justifies that a
machine of `SyncEngine` runs one command at a time (see section 5), and that
`SyncApp` and `Mailbox` may take their locks in one step. In `PathSync` and
`ConfigSync` a whole sync of one machine is one step on a shared main:
`SyncEngine` shows what interleaving does to any row, and these modules ask what
the translation of its content does to it.

### Correspondence

`RowMerge`. `parse_ts`, `_newer`, `_tiebreak` and `merge_table` become
`Newer`, `Tiebreak`, `MergeRow`. The code only compares timestamps (as instants
if both parse, else as text) and canonical JSON, so a row is a pair of a
timestamp and a body, and three constants give the ranks: `Instant`,
`TextRank`, `RowRank`. Nothing is assumed of how they relate: two texts may
denote one instant, and text order may contradict time order. A table under
the `manual` strategy is left as it was if one row is contested, as
`driver_rows` returns 1.

`SyncEngine`. `live` is what `unpack` would export. `commits` is every commit
ever made, with its tree, schema version and set of ancestors; `head`,
`mergeHead`, `unmerged`, `index`, `tracking` are the parts of a repository of
those names. `remote` and `pulled` hold, per machine name, the commit at the tip
of its bundle. A command goes through the places `pull`, `merge`, `publish` of
`pc`; a step ends where another process can come in between. `Start` is
everything up to the first use of the backend (unpack, `commit_local_state`,
emptying the logs); `Pull` is `backend_pull` and `fetch_bundles`; `MergeRef` is
one turn of the loop of `merge_remote_refs` and has one disjunct per way
through it; `Pack` and `EndWithoutPack` are `apply_to_kirocrew`; `Publish` is
`publish_bundle`. `Base` is git's merge base; several are merged into a virtual
one, the rows by the driver and the schema dump as git merges a file, where two
changes of it leave the base as it was. `cmd_pull` differs from `cmd_sync` in
its default strategy only, so it is the invocation with `remote-wins`.
`ResolveByHand` is the `git add` that `show_unresolved` asks for; the commit is
`resume`'s (a commit by the user's own hand is the same commit), with the schema
dump that git has staged (`ResolvedVersions`), which the user chooses only where
both sides changed it. The environment acts in `Write`, `Quiesce`, `Upgrade`,
`Crash`.

`SyncHistory`. No part of the code: `written`, `known`, `seen`, `replaced`,
`outranked`, `edited`, `lost` and `crossed` follow what KiroCrew stored, what
each machine and commit accounts for, what users replaced, what lost a merge,
where main is behind KiroCrew, what a pack overwrote, and whether two branches
with several best common ancestors were merged. They restrict nothing but
KiroCrew's writes (a row is stored under a key once), so every step of
`SyncHistory` is one of `SyncEngine`.

`SyncLock`. `Create` is the `set -C` redirection (open with O_EXCL), `WritePid`
the `echo` into it, `Acquire` the assignment of `SYNC_LOCK_PATH` that follows,
`ReadPid` the `cat`, `Judge` the `kill -0`, `CleanStale` the `rm -f`, and
`CheckOwner` and `Unlink` the two halves of `release_sync_lock`. `Interrupt` is
INT or TERM at any step: its trap starts the release anew, and while
`SYNC_LOCK_PATH` is empty (`PathKnown`, line 227) the release returns at once.
Two histories remember what the code cannot undo: `robbed`, that a cleanup took
the file of a process that runs, and `stranded`, which processes a signal met
between the creation of the file and the assignment.

`Pack`. Databases are visited in the order of `stores.databases`. Each has its
own backup and its own transaction (`Apply`); a member store that only another
machine had is created first. `Create` makes its file and `CreateTables` its
tables, and a kill may come after either; a creation that fails removes what it
has made. `Raise` is any exception inside the `try`, before or after the commit of
`pack_db`. `RestoreCopy` and `RestoreDone` are `shutil.copy2` and the removal
of the stale WAL. Errors outside the `try` (backups, restore itself,
`pack_files`) end with outcome `error`.

`PathSync`. A path is a root (`/`, `~` or `${NAME}`) and components, because
`to_portable` and `to_local` compare whole components. `Sync` is unpack
(`Encoded`), the merge of rows that differ in their path, and pack (`Decoded`,
then `Inserted` for the `INSERT OR REPLACE`). `Repair` is `Rewriter.run`, row by
row. `EditMap` is the user's edit of `path_map.conf`, which a sync ignores when
it does not parse and the manual commands refuse.

`ConfigSync`. A document has a nested object, which may be missing, and a list;
that is what `merge_json`, the stripping and the two grafts distinguish. A file
may also be `Broken`, the text of a document that is not valid JSON. `Outgoing`
leaves such a file as it is, credentials included. `MergeFile` is git's merge of
the file, which calls the driver only if both sides changed it, and the driver
stops the sync when one of the three files does not parse (`Mergeable`).
`Restored` skips an incoming file that does not parse, and takes a local one for
an object without a section. `FindSecretLeaves`, the backstop that lets pack
refuse, passes a broken file over. `Slip` is the hand that breaks a file and
corrects it. So `PrivateStaysHome` speaks of files that parse, and
`OwnLeavesKept` says of a broken live file only that it is written over when the
last sync had put its text into the repository; section 5 has both leaks.

`Mailbox`. An inbox command goes through the places of `pc`: its listing is
taken before the lock, `Fetch` is the download and `load_state`, `Deliver` the
request to the gateway with its four answers, `Record` the `save_state`,
`Remove` the deletion from the backend. `DiscardLoad`, `DiscardSave` and `Drop`
are `--discard`, which takes no lock. `excused` counts the events after which a
machine cannot know that it has these bytes.

`SyncDaemon`. `Test`, `Clean` (the `rm -f`) and `Claim` (the `echo`) are
`acquire_daemon_lock`, `Capture` is the listing stored at start-up, `Check`,
`Decide` and `Sync` are `daemon_cycle`, `Wake` is the end of its sleep. `Release`
is the INT and TERM handler and `ExitTrap` the EXIT trap behind it, which removes
the file once more. A shell takes a signal
between two foreground commands, so never during a sync or a sleep (`Die`). A
request's places are the steps of `stop_daemon`, `start_daemon` and
`update_daemon_config`; `raced` and `overwrote` remember that a file or table
was changed between a read and the write that follows it.

`SyncApp`. An attempt is `run_sync_and_record` followed by
`send_sync_notifications`: `Check` (pgrep), `Launch`, `EngineEnd` or `Timeout`,
`Record`, `IngestRead`, `IngestWrite`, `Stamp`, then `Push` and `Post` per
notification. The logs carry the name of the run that emptied them or last
appended to them, so that a property can say whose conflicts were recorded. A
row of `sync_runs` says whose logs its changes were derived from and whose were
counted in it: `_artifact_counts` counts what lies in the logs, for a run that
was refused before it emptied them too. The count and the insert are one step;
they read the logs one right after the other. `runs` stands in the order of the
timestamps, which is the order `cleanup_old_runs` goes by (`Trim`). A new row may
come anywhere in it (`Inserted`), because the timestamp is a local time without
a zone, taken before the insert, and clocks are set back. The timeout of a run
kills bash alone: its git and merge drivers are a `stray` that may append to the
logs once more (`StrayWrites`; one append is enough to spoil them). `overtaken`
and `muted` remember what the code cannot prevent: logs that a sync emptied, or
a stray wrote to, before the run had read them, and an announcement lost to a
failed push, a failed database or a dead process. Of the dedup table the age of
the quarantined machine's row is kept; whether a failure is a duplicate is left open
(`Duplicates`), and the key of a conflict names its run.

`BackendConfig`. A line has a key, a value and who wrote it. The app quotes what
it writes, so bash leaves it alone; what the user wrote bash may expand
(`Expanded`: `"$HOME/..."`). `Open` is the truncation and `Write` the flush at
close, which starts at the beginning of the file whatever another writer has put
there. `With` replaces the first line of a key, and readers take the last
(`Last`). `Used` is what the bash script would take a setting to be, with the
defaults of the backend scripts (`ScriptDefault`), `Told` what the app shows,
with its own (`AppDefault`), which differ. `sourced` is the file as the last sync
found it when it started, truncated perhaps. `config.sh` is taken to exist, to
be the user's own before the first request, and to export no key twice;
a line that is no export sets nothing.

## 3. The runs

| Run | Instance | Shows |
|---|---|---|
| `laws` | the row merge over 4 timestamp texts (two of one instant, a later one, one that does not parse), 2 bodies, every base and three edits; 2 source rows, 2 machines, a name that may map to any folder, 2 edits of the maps; 2 machines with `config.json`, 3 words and 4 edits, which may break the file and mend it; 3 concurrent requests on `config.sh` and syncs that source it meanwhile, one request a switch back to the default backend with a folder of its own, over 3 first files, one with a folder bash expands | the laws of the merge; folders stay and repairs keep them; credentials of files that parse stay home and are kept; a sync that finds a switch finds all of it, and what is shown is what is used, with the exceptions the properties name |
| `two` | 2 machines, 2 versions of a row, `sync` and `push` on both at once, pulls that fail, up to 7 commits | no edit vanishes; what was replaced does not come back unless merges cross; nothing is overwritten that no commit holds; main matches the live data between commands; `SyncHistory` implements `Replicas` |
| `three` | 3 machines, 1 row, `sync`, `push` and `export` one at a time, up to 8 commits | a sync that gets to its publish has taken in every bundle on the backend, and every publish carries the other bundles forward |
| `disturbed` | `sync`, `push` and `resume`, also manual and dry, with writes during commands, a busy KiroCrew, kills, failed packs and pushes, upgrades between 2 schema versions; 5 commits | nothing half merged is applied or published; no bundle copy is ahead of its machine; rows of a newer schema stay out; once the machines agree no command ends it |
| `convergence` | 2 machines, 2 row versions; the commit bound of 16 is never reached | machines end on one commit and the live data it describes |
| `kills` | 3 processes, killed or signalled anywhere | only the stale-lock cleanup can break exclusion; an orderly exit leaves no lock unless a signal came before the path was noted; a dead owner keeps nobody out |
| `pack` | a fixed database and two stores, two contents, any subset linked or creatable, every fault | all or nothing on return, always recoverable, files last |
| `mailbox` | 2 bundles of equal bytes, to one machine or to all, 3 commands at once, kills, lost answers, `--force` | installed once, recorded truly, not lost |
| `app` | 2 syncs of the app and 1 of somebody else, one run kept, a dedup window of 1, timeouts whose merge drivers live on, clocks set back, kills, failing database and push | own records and counts (a refused run's counts excepted), announced, dismissals stand, open conflicts kept |
| `daemon` | 2 daemons, 2 requests, 1 remote publish | one daemon, confirmed stops, kept scope, answered requests |
| `daemon_defers`, `paths` | the smallest instance of each | two disagreements of section 5 |

Bounds. `MaxCommits` stops new commands when there may be no room for their
commits; what already runs may finish. A conflict between two machines needs
two edits, two local commits and one merge; seven and eight commits leave room
for a second round in which the result of the first is edited or merged again,
which is when wrong merge bases show. Seven is also what it takes for two
merges of the same branches to cross and for a third to meet both
(`Sync_crossing.cfg` needs them all). Five is what `disturbed` needs for two
machines to agree (two local commits and a merge) and to go on from there. A
property that a fault is known to break is checked without that fault, and
`disturbed` checks those that no fault breaks. Every key of a table is merged
by itself (except under `manual`), so one key is enough for the properties of
rows; `Stamp` bounds how many different rows are written under it. Each row is
written once per key in `SyncHistory`, so that a row names the write that made
it; machines may write them in any order, so clocks may disagree. `Attempts` of
the lock is the code's own. Two bundles of the same bytes are what it takes to
install twice, and three commands are what it takes to race a discard, an
install and one that takes a stale lock. Two attempts, one foreign sync and a
single kept run give every pair of runs that can overwrite each other's logs
and trim each other's rows. Their timestamps need no bound: a new row may come
anywhere among the others. `MaxRemote` of one publish is enough because the
listing is compared for equality only. Two edits of the path maps are a
declaration and its removal, before and after a sync; four edits of
`config.json` set and delete a section on both machines, or set a credential,
break the file, sync it and mend it, and three words let both change one value
of a common base differently. What a larger instance would add, a fourth
machine, command or process, the proofs cover for what they prove.
`CHECK_DEADLOCK FALSE` is set where the system really stops: nobody writes any
more, the commit bound is reached, every process has ended, or a torn database
waits for the user.

In `laws` the four systems share no variable and each moves only while the
others stand where they started; the run is their sum, not their product.

Each property is paired, in `PROJECT.json`, with a mutant of a modelled
definition that it catches. The mutants stand beside the definitions they
replace, each under a comment that starts "A bug for the runs to catch".

Fairness. `convergence` assumes that each machine keeps starting syncs (strong
fairness of `HBegin`, since another machine's running command disables it for
a while) and that a started command goes on (weak fairness of `HContinue`).
The first is what the app's cron entry and `contrib/kirocrew-cron` do: they run
`sync` every interval whatever happened. The daemon promises less, as
`daemon_defers` shows, so the run says nothing about a machine that has only
the daemon. Commands do not overlap there; two machines in lockstep can publish
over each other for ever, and with overlap the run would need a fairness no
scheduler gives. `kills` assumes that a process that runs is scheduled, and
`daemon` that the server's threads are: a daemon may sleep or sync for ever, and
`Answered` holds all the same. `daemon_defers` assumes all the good will there
can be: a daemon that can take a step does, and if KiroCrew is asked again and
again, it is at rest again and again, and so for a look at the backend and for a
sync. It is violated even so. In its trace the backend does not answer at
start-up, so that nothing is taken for seen; then another machine publishes, a
cycle finds the change (`Check`) and finds KiroCrew busy (`Decide`), and no later
cycle finds a change again. `DeferredIsSynced` claims nothing of what the
start-up capture took for seen, and is content with a sync that fails: the
deferral alone breaks it.

## 4. The proofs

Eight modules hold theorems, for any number of machines, processes, keys,
values and faults, from the named assumptions on the constants alone. Where a
theorem needs more, because the code breaks the property otherwise, its
hypothesis says so; each hypothesis holds on the instance of the run that checks
the property, and what it leaves out is in section 5 or below.

`Laws_proofs`, for the four systems of `laws`.

* Row merge: `MergeIsSymmetric`, `DeletionNeverBeatsEdit` and
  `OrderDoesNotMatter`. They rest on the assumptions on the ranks only:
  distinct texts and distinct rows have distinct ranks. For the last,
  `NewerByRank` says that among rows whose timestamps all parse the code compares
  one rank, so the winner of two is transitive (`WinnerTransitive`), and so is
  the merge of two edits of a base.
* `config.json`: `CredentialsStayHome` and `CredentialsAreKept`, by an invariant
  that is the type and the first of them. Broken files go through it as they do
  through the code: a merge of files gives one of them or a document
  (`MergeFileClean`), what comes back holds no credential but the machine's own,
  whichever of the two files parses (`RestoredOwn`), and a live file that is
  written over without parsing is the one that the last sync put into the tree
  (`BrokenFileIsKnown`). `EitherSideMergesAlike` needs `JsonAssumption`, that two
  values with equal canonical JSON are equal.
* Folders: `PathsTypeCorrect`, `FoldersAreKept` (decoding undoes encoding under
  any one map, `RoundTrip`) and `RepairsAreHarmless`. The repair goes row by row,
  and the model writes it as a recursive function. That such a function exists
  and obeys its equation, and what each of its values keeps, is proved by
  considering the least row at which it would fail.
* `config.sh`: `BackendTypeCorrect`, `ShownIsInEffect`, and `SwitchesAreWhole`,
  for any requests, first files, environment and defaults: a sync whose backend
  line is a request's finds each setting of that request in effect, or another
  request's in its place. `SwitchInv` says that, until two requests have the file
  open at once, the one that has it open has emptied it, and what everyone else
  holds or reads has this property and no key twice; `WithHolds` shows it for the
  lines a request makes of such a file.

`SyncEngine_proofs`. The inductive invariant is `IInv == TypeOK /\ Graph /\
Headed /\ OwnHistory`. `Graph` says that the commits form an acyclic graph whose
ancestor sets are closed; without it "a commit in the past of main" is not
preserved by a step. `Headed` says that a machine whose command is past its
start has a commit to work with. From it follow `TypeCorrect`,
`CopiesNeverAhead`, `RefsOnlyAdvance` (that `main` and tracking refs move to
descendants only, `RefsAdvance`) and `HalfMergedStays`. `NothingDropped`
(`BundlesCarriedForward`) supposes that pulls succeed and syncs do not overlap:
then a directory about to be published holds what the remote holds, or
something later. A section of its own is about git's merge bases: `Base`, which merges
several bases from the oldest on, always gives a tree whose rows come from
commits both sides contain (`BaseTreeRows`), and the schema of one of them
(`BaseVersionKnown`).

The last two sections prove what there is of convergence without fairness.
`OnlyKiroCrewEndsAgreement` (`AgreementStands`, with no hypothesis at all) says
that agreement, once reached, is ended by KiroCrew alone: whatever command runs,
overlaps, fails or is killed, forced or manual or dry, no commit is made and no
table changes. It needs `OpenMerge`, that a merge left open is of a commit its
machine does not have and another has, so that no `MERGE_HEAD` is left where all
agree, and `OwnHistory`, by which every bundle found anywhere is then merged
already. `SyncTakesEverything` (`SyncTakesAll`) says that a single sync is enough
to take everything in, if pulls succeed and commands do not overlap. `Taking`
follows the loop of `merge_remote_refs`: any other machine is still to be
visited, or quarantined, or its bundle is in main. `Behind` says that no tracking
ref is ahead of the backend, so that a fetch, which only fast-forwards, is never
refused.

`SyncHistory_proofs`. `HistoryOnlyWatches` carries every theorem of
`SyncEngine_proofs` over. On it rest six results on what happens to rows.

* `NewerSchemasStayOut` (`QuarantineHolds`), for any faults, if no command is
  forced. `QInv` says place by place what fits what: every row of a commit is of
  the commit's schema or an older one, in every copy and on every machine, the
  halfway states of a merge included.
* `NothingOverwrittenUnrecorded` (`PackLosesNothing`), if KiroCrew does not
  write during commands and nobody resumes. `LInv` says that a running command
  has the live data in some commit of main's past.
* `MainFollowsLive` (`MainMatchesLive`), if the system is `Undisturbed`: pulls
  and pushes may fail, commands overlap and KiroCrew write at any time, but there
  is no kill, busy KiroCrew, failed pack or upgrade, and no command is forced,
  manual or a dry sync, each of which can leave main apart from the live data.
  `MInv` says what is so in the middle of a command.
* `NoEditVanishes` (`EditsSurvive`), if the system is `Quiet`: `Undisturbed`
  without writes during a command, `resume` and the one-sided strategies, which
  drop the other side's edits as asked. "Every row is live somewhere" is not
  inductive: while a machine works, its row may be in its main only, and a merge
  may choose a third row. `SInv` says of every commit and of every machine's
  live data that each row it accounts for is the row it holds, or beaten: replaced
  by a user or outranked in a merge. `MergeBeats` shows it for a merge, whatever
  base git finds.
* `NoRowReturns` (`NothingComesBack`), if the system is `Quiet`, as long as no
  merge had several best common ancestors. `RInv` says that every row has one
  first commit, from which all that account for the row descend (`Origins`), and
  that when a commit that accounts for a row no longer holds it, neither does
  any that descends from it (`Settled`). A merge of two sides that both account
  for a row has a base that does, since the first commit is common
  (`SeenByBoth`); with several bases this fails, and the code with it.
* `EngineImplementsReplicas` (`Promised`), if the system is `Quiet`: the
  refinement of `Replicas`, step by step. A write is a `Store`, a merge a `Judge`
  (`WinnerEitherWay`: whoever lost, lost to a row that outranks it, whichever side
  it came from), a pack an `Adopt` (by `SInv`, what it drops was beaten), and
  every other step a stutter. `PromiseKeepsEdits` proves of `Replicas` that it
  promises enough: any system that implements it keeps every edit live that was
  not beaten.

`SyncLock_proofs`. `OwnFileNamed` adds to the type and to the property that the
lock file of a process past its write holds that process's PID, so that the
comparison in `release_sync_lock` recognises it: `NoLockLeftBehind`, wherever
signals come, for every process that is not `stranded`.
`OwnersOwn` adds that, until a cleanup removes the file of a process that runs,
whoever is between its create and its release is the one who made the file;
two holders would both have made it: `OnlyRobberyBreaksExclusion`.
`AloneIsNeverRefused` is the safety half of `StaleLockReclaimed`: a process that
comes to the lock and from then on runs alone (no other process is alive) is
never refused, whatever file the dead have left. That its own steps are taken is
the fairness that only TLC's run assumes.

`Pack_proofs`: `PackImplementsAtomicPack` (the refinement, as a theorem `Spec =>
AllOrNothing`), `AlwaysRecoverable` and `FilesComeLast`. The inductive
invariant says place by place what has been done so far: which databases are
backed up, which are as wanted, which are back to what they were.

`Mailbox_proofs`: `NeverInstalledTwice`, `StateFilesTell`, `BundlesWait`. That
bytes are installed at most once plus the excuses is not inductive. `Excluded`
gives every installing command the lock of its machine; `Truthful` says that
what is recorded, held in memory or about to be recorded was installed;
`Recorded` and `Unrecorded` say that sessions beyond the excuses are known to
the state file or to the command about to write it; `Addressed` says that a
command lists and drops only what was sent to its machine.

`SyncDaemon_proofs`: `LockNamesTheDaemon`, `StopsAreConfirmed`,
`ControlKeepsScope`. `Named` extends the lock property to the daemon whose
handler is about to remove the file; `TargetsRan` says that the target of a
request has been seen running, so that it cannot be launched again once dead.

`SyncApp_proofs`: `RunsKeepToThemselves`, `NothingIsListedSilently`,
`DismissalIsFinal`, `OpenConflictsAreKept`. `EngineHolds` and `OwnLogs` say
whose logs an attempt can read at each place, unless it was overtaken;
`TodoLate`, `KnownStays` and `SeenIsTold` say that nothing is told before it is
ingested, that a machine once known is never new again, and that a duplicate is
a duplicate of something told. The last theorem counts the runs that stand behind
the one that is trimmed. A section on sequences says what an insertion and a cut
do to the rows and their order (`InsertedRows`, `TrimmedRows`, `TrimKeeps`,
`RunAdded`): either `KeepCount` kept rows were recorded later than the trimmed
one, or one that was recorded earlier and stamped later is kept in its place.

Only model-checked: what is temporal under fairness, `Convergence`,
`StaleLockReclaimed` and `Answered`. Liveness and `ENABLED` are out of the prover's
reach. For the first two the part that is safety is proved
(`OnlyKiroCrewEndsAgreement` and `SyncTakesEverything`, `AloneIsNeverRefused`);
what remains is that the steps are taken, and for `Convergence` that taking turns
ends in agreement. Every other property of a passing run is the statement of a
theorem. An induction over data by way of the library's theorems is out of reach
too; the least-counterexample arguments above take its place where the models
have a recursive function (`Rewritten`, `NewLines`, `Base`).

## 5. Where code and documents disagree

* **A dry run changes what the next sync does** (`Sync_dry_run.cfg`,
  `EditsSurvive`). It commits the live state, merges the other machines into
  main and stops before pack (`kirocrew-sync.sh` 612-614, 769-772). The next
  sync unpacks the live data, which lacks the merge, on top of main: git sees
  the other machine's edit reverted, and the reversion is newer than the edit
  everywhere. `README.md` 731 calls a dry run safe at any time. The same
  happens when KiroCrew is busy at the moment of pack, when a gate refuses,
  when pack fails and when the command is killed between merge and pack; those
  faults are in the model and are left out of the runs that check
  `EditsSurvive`.
* **`resume` overwrites rows that are in no commit** (`Sync_resume.cfg`,
  `PackLosesNothing`). It does not
  unpack first, so what KiroCrew wrote after the conflict is replaced by main.
  The backup that pack takes is the only copy, and no command restores it.
* **Two commands may hold the sync lock** (`SyncLock_race.cfg`,
  `MutualExclusion`). The lock file exists, empty,
  before its PID is written, and an empty file counts as stale.
  `ExclusiveUnlessRobbed` is what remains true.
* **A failed pack may leave the databases changed** (`Pack_files.cfg`,
  `FailureLeavesData`). `pack_files`
  runs after the databases and outside the `try` that restores them; if it
  raises, the shell prints "Pack failed; KiroCrew data was left unchanged (or
  restored)" over databases that hold the merge.
* **What the daemon defers it forgets** (`daemon_defers`). The listing is stored
  as seen when it is looked at (`lib/daemon.sh` 264), before KiroCrew is found
  active and the sync put off; at the next check nothing has changed. Only
  another publish, or a local commit, brings it back. `docs/daemon.md` 12
  promises "**KiroCrew active** → defer sync until databases are idle". Two
  relatives of it have no run: what was published while no daemon ran is stored
  as seen at start-up (433) and waits for the next publish, where line 9 says
  "sync immediately"; and a sync that fails (400) is not tried again, where line
  11 says "back off for 10 minutes, then retry".
* **The second `rm -f` of a daemon that stops is not harmless.** `lib/daemon.sh`
  428 says it is. Between the handler's and the EXIT trap's (429-430) the next
  daemon may take the free lock, and loses its file. `LockIsHeld` counts this
  among its races.
* **A signal can leave the sync lock behind.** INT or TERM between
  `kirocrew-sync.sh` 199, which writes the file, and 200-201, which note its path,
  finds `SYNC_LOCK_PATH` empty, and the release returns at once (227). The next
  command takes the file for stale. `OrderlyExitLeavesNoLock` excepts it.
* **Path collisions delete a row** (`paths`). Two machines add `~/docs` under
  different ids before they sync; pack inserts both with `INSERT OR REPLACE`
  under a unique column, and the second deletes the first. The row is then
  missing from the next export, so it is deleted everywhere, and the items that
  name it are left without a source. ADR 0001 says that collisions are never
  merged and are reported; the manual repair does that (`RepairKeeps`).
* **The app may show settings that its syncs do not use.** `SYNC_BACKEND` in the
  environment wins in the script and is not looked at by `get_current_backend`.
  An empty export in `config.sh` hides the environment from the script but not
  from `_effective_value` (`backends.py` 386). A `$HOME` that the user wrote, or
  that is the default of `LOCAL_SYNC_DIR` (73), is shown as it stands and expanded
  by bash. And where nothing is set the app shows an empty bucket, host or path,
  and `s3.sh` 13 and `rsync.sh` 8-9 use placeholders. `ToldIsUsed` names these
  exceptions, and `ShownIsInEffect` proves that there are no others.
* **A switch of backend can be met half-done.** `config.sh` is emptied and then
  written (`backends.py` 281). A sync that sources it in between finds no
  settings at all and runs with the default backend, and after a switch to that
  one, without the settings of the switch. `SwitchIsWhole` therefore speaks of
  what a sync finds in the file: the backend line of a request never comes
  without the rest.
* **A refused run may record another run's counts.** `sync_manager.py` 195 counts
  the logs whether or not this run had emptied them, and `history.py` 48-49
  stores the counts in its row; its changes and its ingestion are held back
  (`sync_runner.py` 230, 246). `OwnRecords` excepts the counts of such a run.
* **The clean-up of old runs trusts the clock.** `history.py` 221 orders by a
  local time without a zone (41). In the hour the clocks go back, or after they
  are set back, a run just recorded counts as older than those before it, and
  its own clean-up deletes it with its open conflicts. `PendingKept` excepts it.
* **A `config.json` that is not valid JSON is published as it stands**, with its
  credentials (`files.py` 366-370); the gate passes it over too (`gates.py`
  197-200). On this machine it is written over by a later sync without its
  credentials and local-only keys, because it counts as empty (`files.py`
  430-433). `PrivateStaysHome` and `OwnLeavesKept` say what remains.
* **A credential inside a list is lost.** Stripping enters lists and the graft
  does not (`files.py` 297-307). `OwnLeavesKept` speaks of objects for this
  reason.
* **A deleted section comes back** on every machine that still has it, because
  the graft of credentials makes the object again; the graft of local-only keys
  beside it is careful not to.
* **A discard can make the mailbox forget an install.** It rewrites the state
  file without the lock. `InstalledOnce` counts this among its excuses.

* **Crossing merges may bring a deleted row back** (`Sync_crossing.cfg`,
  `NothingEverComesBack`). Machine B has a newer row under the key of machine
  A's row. A merges B's, and the newer row wins; at the same time B's user
  deletes it, and B merges A's older one, which B never had. A's user now deletes
  the row as well. When A meets B again there are two best common ancestors, the
  two rows. git merges these first, with the same driver, and takes the winner,
  the newer row, for the base. Seen from there B has edited what A deleted, and
  `merge_table` (93-110) keeps the edit: the older row is back on A, where it had
  lost, and both users had deleted what they saw. ADR 0002 (143) reads "present,
  absent, present: delete", which speaks of one base. Nothing is lost by it, and
  `NothingComesBack` says that there is no other way.

Those that name a `.cfg` are not among the runs above: `tlc -config
Sync_dry_run.cfg MCSync`, and `Sync_resume.cfg` and `Sync_crossing.cfg` with
`MCSync`, `SyncLock_race.cfg` with `MCSyncLock` and `Pack_files.cfg` with
`MCPack`, show their counterexamples.

Known, without a statement of their own: `push` and `export` run `git add -A`
and commit while a merge is open, and so conclude it with local content only; a
sync whose pull fails publishes a directory without the other machines'
bundles, which they put back at their next sync; a `config.sh` that exports a
key twice keeps the second line, which wins, when the app sets the first;
`import --dry-run` removes the sync repository (`kirocrew-sync.sh` 989) before
it looks at the flag (1008); two requests that write `config.sh` at the same
moment can leave one's tail behind the other's lines; the dedup window of a
notification is as long as the cron interval and compared with `<`, so a
failure that lasts can be announced at every tick; a blob that only a
merged-away row referenced can be missing for the row that won.

## 6. What is not modelled, and why

* `import` and its seed archive, a forced import and the machines that refuse
  its history, the scope collision guard, agent files: each replaces or refuses
  a whole repository in a single command and shares nothing with a running one
  but the lock.
* An unpack that reads the databases one after another, and what it makes of a
  store left empty or half made by a pack that was killed: this needs `Pack`
  joined with `SyncEngine`, a product too large for TLC at any instance where a
  merge happens.
* A partial `backend_push` (half a mirror), remote markers and retries: the
  scripts leave them to rclone, aws and rsync.
* Resolving by hand a merge of `config.json` that git could not do, because a
  side does not parse: such a machine stays where it is in `ConfigSync`.
* Blobs, renumbering and full-text triggers in `dbio.py`; paths inside JSON
  values and prose.
* git's object store and transport, SQLite's transactions and the cloud stores'
  consistency are modelled by what the code relies on: an atomic commit, an
  atomic ref update, a push that happens or does not.
* Request routing, parsing of printed text, log set-up, the UI, the installers:
  input and output with no state that matters to the data.

What would come next, in the order of its weight: the join of `Pack` and
`SyncEngine` for one database and one store; proofs of `EditsSurvive` and
`MainMatchesLive` with the faults that leave main and the live data apart, which
need a history that tells the reversions of section 5 from edits; `import`.
