------------------------------- MODULE SyncApp -------------------------------
(***************************************************************************)
(* The app's side of a sync: sync_runner.run_sync_and_record and           *)
(* send_sync_notifications over sync_manager, history, conflicts,          *)
(* quarantine and notifications.  An attempt is one POST /api/sync, in a   *)
(* thread of the server, or one cron tick, in a process of its own; what   *)
(* they share is the engine's lock, its two log files and the database.    *)
(* The engine holds its lock while it runs, and the app reads the logs     *)
(* after it has gone.                                                      *)
(*                                                                         *)
(* One scope, one row that can conflict and one machine that can be        *)
(* quarantined.  Time passes while an engine runs and between attempts;    *)
(* the app's own steps take none.                                          *)
(***************************************************************************)
EXTENDS Naturals, FiniteSets, SequencesExt

CONSTANTS
    Attempt,    \* the syncs the app is asked for, each once
    MaxOther,   \* the syncs started past the app: a terminal, a bare daemon
    KeepCount,  \* cleanup_old_runs keeps this many
    Window,     \* the notifications' dedup window
    Nobody,
    Fault       \* subset of {"timeout", "kill", "db", "push"}

ASSUME AppAssumption ==
    /\ MaxOther \in Nat
    /\ {KeepCount, Window} \subseteq Nat \ {0}
    /\ Nobody \notin Attempt
    /\ {"other"} \cap (Attempt \cup {Nobody}) = {}

Conflict == {"none", "kept", "open"}   \* an automatic strategy keeps one side
Log == [by : Attempt \cup {Nobody, "other"}, conflict : Conflict, quarantine : BOOLEAN]
NoLog == [by |-> Nobody, conflict |-> "none", quarantine |-> FALSE]

(* How cmd_sync ends: having merged (0, or 3 with a machine left out); with*)
(* 1 after it said "Unpacking local state", at a gate or a conflict; or    *)
(* with 1 before that, having emptied the logs because an earlier merge is *)
(* open, or not, because the lock is taken.                                *)
Result == {"merged", "failed", "refused"}
Ends ==
    [result : {"merged"}, conflict : {"none", "kept"}, quarantine : BOOLEAN] \cup
    [result : {"failed"}, conflict : Conflict, quarantine : BOOLEAN] \cup
    [result : {"refused"}, conflict : {"none"}, quarantine : {FALSE}]

\* The summary of a run with issues, which no later run can share, is left out.
Item == {"failure", "quarantine", "conflict"}
Place == {"new", "checked", "engine", "ended", "recorded", "ingesting", "stamping",
          "telling", "pushing", "done"}
Whose == Attempt \cup {Nobody, "other"}

(* A run's row: whose logs its changes were read off, or Nobody's, and     *)
(* whose logs its two counts were taken from.                              *)
Row == [id : Nat, by : Attempt, changes : Whose, counted : Whose]

VARIABLES
    lock,        \* the engine's sync lock
    log,         \* conflicts.jsonl and quarantine.txt, and who emptied them
    others,      \* the syncs started past the app so far
    stray,       \* the attempts whose engine timed out, and whose git and
                 \* merge drivers may outlive it
    pc,
    result,      \* what the engine of each attempt returned
    seen,        \* the logs as ingest_artifacts read them
    known,       \* the machine was active when ingest_artifacts looked
    todo,        \* the notifications an attempt has yet to send
    runs,        \* table sync_runs, in the order of the timestamps
    lastId,      \* its AUTOINCREMENT counter
    conflicts,   \* table conflicts
    quarantine,  \* table quarantine: the row of the one machine
    dedup        \* table notification_dedup: how long ago the quarantine was
                 \* sent, or Window for no row or one the window has passed

engineVars == <<lock, log, others, stray>>
readVars == <<result, seen, known>>
dbVars == <<runs, lastId, conflicts, quarantine>>

(* HISTORY: the attempts whose logs were emptied, or written to by drivers *)
(* of another, before they had read them out; what has been announced;     *)
(* whether the app lost an announcement in one of the ways the code accepts*)
VARIABLES overtaken, told, muted
historyVars == <<overtaken, told, muted>>
vars == <<engineVars, pc, readVars, todo, dbVars, dedup, historyVars>>

Goto(a, there) == pc' = [pc EXCEPT ![a] = there]
Forget(a) == /\ result' = [result EXCEPT ![a] = "refused"]
             /\ seen' = [seen EXCEPT ![a] = NoLog]
             /\ known' = [known EXCEPT ![a] = FALSE]
Reading == {"ended", "recorded"}

Init ==
    /\ lock = Nobody
    /\ log = NoLog
    /\ others = 0
    /\ stray = {}
    /\ pc = [a \in Attempt |-> "new"]
    /\ result = [a \in Attempt |-> "refused"]
    /\ seen = [a \in Attempt |-> NoLog]
    /\ known = [a \in Attempt |-> FALSE]
    /\ todo = [a \in Attempt |-> {}]
    /\ runs = << >>
    /\ lastId = 0
    /\ conflicts = {}
    /\ quarantine = "none"
    /\ dedup = Window
    /\ overtaken = {}
    /\ told = {}
    /\ muted = FALSE

-----------------------------------------------------------------------------
(* The engine, as far as the app sees it.                                  *)

Empties(who) ==
    /\ lock' = who
    /\ log' = [NoLog EXCEPT !.by = who]
    /\ overtaken' = overtaken \cup {a \in Attempt : pc[a] \in Reading}

Worse(c, d) ==
    IF "open" \in {c, d} THEN "open" ELSE IF c = "none" THEN d ELSE c

Leaves(end) ==
    /\ lock' = Nobody
    /\ log' = [log EXCEPT !.conflict = Worse(@, end.conflict), !.quarantine = end.quarantine]

OtherStart ==
    /\ others < MaxOther
    /\ lock = Nobody
    /\ Empties("other")
    /\ others' = others + 1
    /\ UNCHANGED <<stray, pc, readVars, todo, dbVars, dedup, told, muted>>

OtherEnd(end) ==
    /\ lock = "other"
    /\ Leaves(end)
    /\ UNCHANGED <<others, stray, pc, readVars, todo, dbVars, dedup, historyVars>>

(* A merge driver that outlived its engine appends the conflict of the one *)
(* row to the log, whoever has emptied it meanwhile.                       *)
StrayWrites(a) ==
    /\ a \in stray
    /\ \E c \in {"kept", "open"} :
          log' = [log EXCEPT !.by = a, !.conflict = Worse(@, c)]
    /\ stray' = stray \ {a}
    /\ overtaken' = overtaken \cup {b \in Attempt : pc[b] \in Reading \cup {"engine"}}
    /\ UNCHANGED <<lock, others, pc, readVars, todo, dbVars, dedup, told, muted>>

-----------------------------------------------------------------------------
(* run_sync_and_record.                                                    *)

(* is_running: pgrep, and nothing holds what it found.                     *)
Check(a) ==
    /\ pc[a] = "new"
    /\ Goto(a, IF lock = Nobody THEN "checked" ELSE "done")
    /\ UNCHANGED <<engineVars, readVars, todo, dbVars, dedup, historyVars>>

(* run_sync starts the engine; one that finds the lock taken gives up      *)
(* before it touches the logs.                                             *)
Launch(a) ==
    /\ pc[a] = "checked"
    /\ IF lock = Nobody
       THEN /\ Empties(a)
            /\ Goto(a, "engine")
            /\ UNCHANGED result
       ELSE /\ result' = [result EXCEPT ![a] = "refused"]
            /\ Goto(a, "ended")
            /\ UNCHANGED <<lock, log, overtaken>>
    /\ UNCHANGED <<others, stray, seen, known, todo, dbVars, dedup,
                   told, muted>>

EngineEnd(a, end) ==
    /\ pc[a] = "engine"
    /\ result' = [result EXCEPT ![a] = end.result]
    /\ Leaves(end)
    /\ Goto(a, "ended")
    /\ UNCHANGED <<others, stray, seen, known, todo, dbVars, dedup, historyVars>>

(* How many runs there are beyond LIMIT.                                   *)
Excess(old) == IF Len(old) > KeepCount THEN Len(old) - KeepCount ELSE 0

(* A bug for the runs to catch: cleanup keeps the oldest.                  *)
TrimOldest(old, rows) ==
    /\ runs' = SubSeq(old, 1, Len(old) - Excess(old))
    /\ conflicts' = {c \in rows : \E r \in Range(runs') : r.id = c.run}

(* cleanup_old_runs keeps the latest timestamps; conflicts go with their   *)
(* run (ON DELETE CASCADE).                                                *)
Trim(old, rows) ==
    /\ runs' = SubSeq(old, Excess(old) + 1, Len(old))
    /\ conflicts' = {c \in rows : \E r \in Range(runs') : r.id = c.run}

(* _cleanup_history_safe: a cleanup that fails is left for the next run.   *)
Cleanup(old, rows) ==
    \/ Trim(old, rows)
    \/ "db" \in Fault /\ runs' = old /\ conflicts' = rows

(* record_sync stamps the row with the local time, without a zone, and then*)
(* inserts it.  The clock may have been set back since the last one, and   *)
(* another process may stamp later and insert first: the row may come      *)
(* anywhere among the others.                                              *)
Inserted(row) == {InsertAt(runs, i, row) : i \in 1 .. Len(runs) + 1}
NewRow(a, changes, counted) ==
    [id |-> lastId + 1, by |-> a, changes |-> changes, counted |-> counted]

(* TimeoutExpired: bash is killed, which leaves a lock the next one takes  *)
(* for stale, and its children may go on.  The run is recorded, and nothing*)
(* is ingested or told.                                                    *)
Timeout(a) ==
    /\ "timeout" \in Fault
    /\ pc[a] = "engine"
    /\ \E end \in Ends : end.result = "failed" /\ Leaves(end)
    /\ \/ /\ lastId' = lastId + 1
          /\ \E all \in Inserted(NewRow(a, Nobody, Nobody)) : Cleanup(all, conflicts)
       \/ "db" \in Fault /\ UNCHANGED <<runs, lastId, conflicts>>
    /\ Goto(a, "done")
    /\ stray' = stray \cup {a}
    /\ UNCHANGED <<others, readVars, todo, quarantine, dedup, historyVars>>

(* A bug for the runs to catch: every result is taken to have emptied them.*)
AlwaysReached(res) == res \in Result

(* _sync_reached_truncation: whether the logs are of this run.             *)
Reached(res) == res \in {"merged", "failed"}

(* _derive_changes: read off the logs, whoever left them.                  *)
Derived(a) == IF Reached(result[a]) THEN log.by ELSE Nobody

(* _artifact_counts counts what is in the logs, whoever left it and whether*)
(* or not this engine had emptied them; record_sync inserts the row.  If   *)
(* the database refuses, nothing else is done for the run.                 *)
Record(a) ==
    /\ pc[a] = "ended"
    /\ \/ /\ lastId' = lastId + 1
          /\ runs' \in Inserted(NewRow(a, Derived(a), log.by))
          /\ Goto(a, "recorded")
          /\ UNCHANGED readVars
       \/ /\ "db" \in Fault
          /\ Goto(a, "done")
          /\ Forget(a)
          /\ UNCHANGED <<lastId, runs>>
    /\ UNCHANGED <<engineVars, todo, conflicts, quarantine, dedup, historyVars>>

Failed(a) == IF result[a] = "merged" THEN {} ELSE {"failure"}

(* ingest_artifacts reads the logs, and who is quarantined already.        *)
IngestRead(a) ==
    /\ pc[a] = "recorded"
    /\ IF Reached(result[a])
       THEN /\ seen' = [seen EXCEPT ![a] = log]
            /\ known' = [known EXCEPT ![a] = quarantine = "active"]
            /\ Goto(a, "ingesting")
            /\ UNCHANGED todo
       ELSE /\ Goto(a, "stamping")
            /\ todo' = [todo EXCEPT ![a] = Failed(a)]
            /\ UNCHANGED <<seen, known>>
    /\ UNCHANGED <<engineVars, result, dbVars, dedup, historyVars>>

(* A bug for the runs to catch: a machine listed again is active again.    *)
RelistedActive(listed) == IF listed THEN "active" ELSE quarantine

(* add_quarantine: a dismissed machine stays dismissed.                    *)
Relisted(listed) == IF listed /\ quarantine = "none" THEN "active" ELSE quarantine

RunOf(a) == CHOOSE r \in Range(runs) : r.by = a
HasRun(a) == \E r \in Range(runs) : r.by = a

(* A bug for the runs to catch: who was quarantined is read after the      *)
(* machines of this run have been added.                                   *)
NewsAfterwards(a) ==
    LET file == seen[a]
    IN  (IF file.quarantine /\ Relisted(TRUE) # "active" THEN {"quarantine"} ELSE {}) \cup
        (IF file.conflict = "open" THEN {"conflict"} ELSE {})

(* What ingest_artifacts returns, as far as there is something to tell.    *)
News(a) ==
    LET file == seen[a]
    IN  (IF file.quarantine /\ ~ known[a] THEN {"quarantine"} ELSE {}) \cup
        (IF file.conflict = "open" THEN {"conflict"} ELSE {})

(* ingest_artifacts writes, a transaction per record.  The row of a run    *)
(* that has been trimmed is refused by its foreign key.  What was written  *)
(* stays when a later record fails, and then nothing is told of it.        *)
IngestWrite(a) ==
    LET file == seen[a]
        orphan == file.conflict # "none" /\ ~ HasRun(a)
        added == IF file.conflict = "none" \/ orphan THEN {}
                 ELSE {[run |-> RunOf(a).id, by |-> file.by, for |-> a,
                        open |-> file.conflict = "open"]}
    IN  /\ pc[a] = "ingesting"
        /\ conflicts' = conflicts \cup added
        /\ \/ /\ ~ orphan
              /\ quarantine' = Relisted(file.quarantine)
              /\ todo' = [todo EXCEPT ![a] = Failed(a) \cup News(a)]
              /\ UNCHANGED muted
           \/ /\ orphan \/ "db" \in Fault
              /\ UNCHANGED quarantine
              /\ todo' = [todo EXCEPT ![a] = Failed(a)]
              /\ muted' = (muted \/ News(a) # {})
        /\ Goto(a, "stamping")
        /\ Forget(a)
        /\ UNCHANGED <<engineVars, runs, lastId, dedup,
                       overtaken, told>>

(* On with the notifications that are left, in send_sync_notifications.    *)
Tells(a, left) == /\ todo' = [todo EXCEPT ![a] = left]
                  /\ Goto(a, IF left = {} THEN "done" ELSE "telling")

(* record_daemon_run, whose failure is nobody's to catch, and the cleanup. *)
Stamp(a) ==
    /\ pc[a] = "stamping"
    /\ \/ /\ Cleanup(runs, conflicts)
          /\ Tells(a, todo[a])
          /\ UNCHANGED muted
       \/ /\ "db" \in Fault
          /\ Tells(a, {})
          /\ muted' = (muted \/ todo[a] # {})
          /\ UNCHANGED <<runs, conflicts>>
    /\ UNCHANGED <<engineVars, readVars, lastId, quarantine, dedup,
                   overtaken, told>>

-----------------------------------------------------------------------------
(* send_sync_notifications.                                                *)

Order(k) == CASE k = "failure" -> 1 [] k = "quarantine" -> 2
              [] k = "conflict" -> 3
First(a) == CHOOSE k \in todo[a] : \A l \in todo[a] : Order(k) <= Order(l)

(* _is_duplicate: the key is in the table, and young.  The key of a        *)
(* conflict holds an id no other run has; whether a failure was told lately*)
(* is left open.                                                           *)
Duplicates(k) == CASE k = "failure" -> BOOLEAN
                   [] k = "quarantine" -> {dedup < Window}
                   [] k = "conflict" -> {FALSE}

(* _push, up to the request.                                               *)
Push(a) ==
    LET k == First(a)
    IN  /\ pc[a] = "telling"
        /\ \/ TRUE \in Duplicates(k) /\ Tells(a, todo[a] \ {k})
           \/ FALSE \in Duplicates(k) /\ Goto(a, "pushing") /\ UNCHANGED todo
        /\ UNCHANGED <<engineVars, readVars, dbVars, dedup, overtaken, told, muted>>

(* The request, and _record_seen if it was answered ok.  A push that fails *)
(* is not tried again.                                                     *)
Post(a) ==
    LET k == First(a)
    IN  /\ pc[a] = "pushing"
        /\ \/ /\ told' = told \cup (CASE k = "conflict" -> {a}
                                      [] k = "quarantine" -> {k}
                                      [] OTHER -> {})
              /\ dedup' = (IF k = "quarantine" THEN 0 ELSE dedup)
              /\ UNCHANGED muted
           \/ /\ "push" \in Fault
              /\ muted' = TRUE
              /\ UNCHANGED <<told, dedup>>
        /\ Tells(a, todo[a] \ {k})
        /\ UNCHANGED <<engineVars, readVars, dbVars, overtaken>>

(* The process dies.  A server's engine outlives it; a cron tick's is      *)
(* killed with it, and its lock is taken for stale.                        *)
Kill(a) ==
    /\ "kill" \in Fault
    /\ pc[a] \notin {"new", "done"}
    /\ IF lock = a THEN lock' \in {Nobody, "other"} ELSE UNCHANGED lock
    /\ muted' = (muted \/ todo[a] # {})
    /\ Tells(a, {})
    /\ Forget(a)
    /\ UNCHANGED <<log, others, stray, dbVars, dedup, overtaken, told>>

-----------------------------------------------------------------------------
(* The user, in the dashboard.                                             *)

(* clear_quarantine.                                                       *)
Dismiss ==
    /\ quarantine = "active"
    /\ quarantine' = "cleared"
    /\ UNCHANGED <<engineVars, pc, readVars, todo, runs, lastId, conflicts, dedup, historyVars>>

(* resolve_conflict: only a conflict that is still open.                   *)
Resolve(c) ==
    /\ c.open
    /\ conflicts' = (conflicts \ {c}) \cup {[c EXCEPT !.open = FALSE]}
    /\ UNCHANGED <<engineVars, pc, readVars, todo, runs, lastId, quarantine, dedup, historyVars>>

(* Rows that are out of the window, which the code prunes now and then,    *)
(* are as good as none.                                                    *)
Tick ==
    /\ dedup < Window
    /\ \A a \in Attempt : pc[a] \in {"new", "engine", "done"}
    /\ dedup' = dedup + 1
    /\ UNCHANGED <<engineVars, pc, readVars, todo, dbVars, historyVars>>

Next ==
    \/ OtherStart \/ Dismiss \/ Tick
    \/ \E end \in Ends : OtherEnd(end)
    \/ \E c \in conflicts : Resolve(c)
    \/ \E a \in Attempt, end \in Ends : EngineEnd(a, end)
    \/ \E a \in Attempt :
          \/ Check(a) \/ Launch(a) \/ Timeout(a) \/ StrayWrites(a) \/ Record(a)
          \/ IngestRead(a) \/ IngestWrite(a) \/ Stamp(a)
          \/ Push(a) \/ Post(a) \/ Kill(a)

Spec == Init /\ [][Next]_vars

-----------------------------------------------------------------------------
(* The type invariant.                                                     *)
TypeOK ==
    /\ lock \in Whose
    /\ log \in Log
    /\ others \in Nat
    /\ stray \subseteq Attempt
    /\ pc \in [Attempt -> Place]
    /\ result \in [Attempt -> Result]
    /\ seen \in [Attempt -> Log]
    /\ known \in [Attempt -> BOOLEAN]
    /\ todo \in [Attempt -> SUBSET Item]
    /\ runs \in Seq(Row)
    /\ lastId \in Nat
    /\ conflicts \subseteq
          [run : Nat, by : Whose, for : Attempt, open : BOOLEAN]
    /\ quarantine \in {"none", "active", "cleared"}
    /\ dedup \in 0 .. Window
    /\ overtaken \subseteq Attempt
    /\ told \subseteq {"quarantine"} \cup Attempt
    /\ muted \in BOOLEAN

(* A run is given no changes and no conflicts of another run, and none are *)
(* counted in its row, unless a sync took the lock, or a driver wrote that *)
(* had outlived its engine, before this one had read its logs out: the     *)
(* reason for _sync_reached_truncation ("would re-record that old run's    *)
(* conflicts").  Nothing checks the counts of a run that was refused: they *)
(* are of whatever run has left its entries there.                         *)
OwnRecords ==
    /\ \A r \in Range(runs) :
          /\ r.changes \in {r.by, Nobody} \/ r.by \in overtaken
          /\ r.counted \in {r.by, Nobody} \/ r.by \in overtaken \/ r.changes = Nobody
    /\ \A c \in conflicts : c.by = c.for \/ c.for \in overtaken

(* A user's Dismiss is honoured (add_quarantine's RULE): no sync, whatever *)
(* it read before the click, makes the machine active again.               *)
DismissalStands == [][quarantine = "cleared" => quarantine' = "cleared"]_vars

(* What the dashboard lists as open has been announced, or is still about  *)
(* to be, or one of the losses happened that the code accepts: a push that *)
(* failed, a database that did, a process that died.                       *)
Announced ==
    LET toTell(k) == \E a \in Attempt : k \in todo[a]
    IN  \/ muted
        \/ /\ quarantine = "active" => "quarantine" \in told \/ toTell("quarantine")
           /\ \A c \in conflicts : c.open => c.for \in told \/ "conflict" \in todo[c.for]

(* An open conflict leaves the list when the user resolves it, or with its *)
(* run when KeepCount newer ones are kept: no cleanup takes it earlier     *)
(* ("keeping only the most recent N"), unless a run that was inserted      *)
(* before its own has a later timestamp and is kept in its place.          *)
PendingKept ==
    [][\A c \in conflicts : c.open =>
          \/ {c, [c EXCEPT !.open = FALSE]} \cap conflicts' # {}
          \/ Cardinality({i \in DOMAIN runs' : runs'[i].id > c.run}) >= KeepCount
          \/ \E i, j \in DOMAIN runs :
                /\ i < j
                /\ runs[i].id = c.run /\ runs[j].id < c.run
                /\ runs[j] \in Range(runs')]_vars
=============================================================================
