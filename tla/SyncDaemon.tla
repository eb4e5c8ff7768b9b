----------------------------- MODULE SyncDaemon -----------------------------
(***************************************************************************)
(* The polling daemon, lib/daemon.sh, and what drives it: sync_manager.py's*)
(* daemon lifecycle and configuration, behind the server's control routes. *)
(* A daemon is a process that lives once and names itself in daemon.lock;  *)
(* a request is a thread of the server.  They share nothing but that file, *)
(* signals and the daemon_state table, and every step here is one system   *)
(* call or one transaction.                                                *)
(*                                                                         *)
(* A PID is not used twice: _is_kirocrew_daemon_pid refuses one that names *)
(* another program.  Everyone acts on one machine's files, in one scope.   *)
(***************************************************************************)
EXTENDS Naturals, FiniteSets

CONSTANTS
    Daemon,     \* the daemon processes, each launched once
    Request,    \* the control and configuration requests
    MaxRemote,  \* how often another machine publishes
    Nothing

ASSUME DaemonAssumption ==
    /\ MaxRemote \in Nat
    /\ Nothing \notin Daemon \cup Request

Action == {"start", "stop", "restart"}
Scope == {"personal", "team"}
Config == [enabled : BOOLEAN, scope : Scope]
Default == [enabled |-> TRUE, scope |-> "personal"]
Life == {"new", "launched", "cleaning", "claiming", "starting", "checking", "remote", "local",
         "syncing", "asleep", "releasing", "exiting", "dead"}
Place == {"new", "stop", "signal", "wait", "escalate", "confirm", "match", "unlink",
          "start", "await", "load", "save", "done", "failed"}

VARIABLES
    lock,      \* daemon.lock
    life,      \* where each daemon is in cmd_daemon
    signal,    \* the signal each has pending
    listing,   \* what backend_list shows: how often another machine published
    seen,      \* daemon_state.txt: the listing the last check saw
    synced,    \* the listing as of the last sync
    pc,        \* where each request is,
    action,    \* its action, or "configure",
    target,    \* and the PID it read from the lock
    config,    \* table daemon_state
    read,      \* the configuration each request has read

    \* HISTORY: whether the lock was taken, removed or rewritten by someone
    \* who had read something else in it; the last scope a user chose;
    \* whether a configuration was written over a newer one
    raced, chosen, overwrote

cycleVars == <<listing, seen, synced>>
requestVars == <<pc, action, target>>
configVars == <<config, read, chosen, overwrote>>
vars == <<lock, life, signal, cycleVars, requestVars, configVars, raced>>

Alive(d) == d # Nothing /\ life[d] \notin {"new", "dead"}

(* daemon_cycle has found a change, of another machine or of this one, and *)
(* asks whether it may sync now.                                           *)
Deciding == {"remote", "local"}
Running == {"starting", "checking", "syncing", "asleep"} \cup Deciding

Becomes(d, where) == life' = [life EXCEPT ![d] = where]
Exits(d) == Becomes(d, "dead") /\ signal' = [signal EXCEPT ![d] = "none"]
Goto(r, there) == pc' = [pc EXCEPT ![r] = there]

Init ==
    /\ lock = Nothing
    /\ life = [d \in Daemon |-> "new"]
    /\ signal = [d \in Daemon |-> "none"]
    /\ listing = 0 /\ seen = 0 /\ synced = 0
    /\ pc = [r \in Request |-> "new"]
    /\ action = [r \in Request |-> "start"]
    /\ target = [r \in Request |-> Nothing]
    /\ config = Default
    /\ read = [r \in Request |-> Default]
    /\ raced = FALSE
    /\ chosen = "personal"
    /\ overwrote = FALSE

-----------------------------------------------------------------------------
(* The daemon: cmd_daemon and daemon_cycle.                                *)

(* From a terminal or a service manager.                                   *)
Launch(d) ==
    /\ life[d] = "new"
    /\ Becomes(d, "launched")
    /\ UNCHANGED <<lock, signal, cycleVars, requestVars, configVars, raced>>

(* acquire_daemon_lock, up to its test: a live process keeps it out.       *)
Test(d) ==
    /\ life[d] = "launched"
    /\ IF Alive(lock) THEN Exits(d)
       ELSE Becomes(d, IF lock = Nothing THEN "claiming" ELSE "cleaning") /\ UNCHANGED signal
    /\ UNCHANGED <<lock, cycleVars, requestVars, configVars, raced>>

(* It removes the stale lock, whatever is there by now,                    *)
Clean(d) ==
    /\ life[d] = "cleaning"
    /\ signal[d] = "none"
    /\ lock' = Nothing
    /\ raced' = (raced \/ Alive(lock))
    /\ Becomes(d, "claiming")
    /\ UNCHANGED <<signal, cycleVars, requestVars, configVars>>

(* and writes its own, over whatever is there by now.                      *)
Claim(d) ==
    /\ life[d] = "claiming"
    /\ signal[d] = "none"
    /\ lock' = d
    /\ raced' = (raced \/ Alive(lock))
    /\ Becomes(d, "starting")
    /\ UNCHANGED <<signal, cycleVars, requestVars, configVars>>

(* The initial state capture: before its first cycle it stores the listing *)
(* as seen, if the backend answers.                                        *)
Capture(d) ==
    /\ life[d] = "starting"
    /\ signal[d] = "none"
    /\ seen' \in {seen, listing}
    /\ Becomes(d, "checking")
    /\ UNCHANGED <<lock, signal, listing, synced, requestVars, configVars, raced>>

(* check_remote_changed stores what it sees; a backend that does not answer*)
(* ends the cycle, and so does one that finds no change.  A local change is*)
(* a commit, anyone's, within the idle interval.                           *)
Check(d) ==
    /\ life[d] = "checking"
    /\ signal[d] = "none"
    /\ \/ /\ seen' = listing
          /\ \E recent \in BOOLEAN :
                Becomes(d, IF listing # seen THEN "remote"
                           ELSE IF recent THEN "local" ELSE "asleep")
       \/ Becomes(d, "asleep") /\ UNCHANGED seen
    /\ UNCHANGED <<lock, signal, listing, synced, requestVars, configVars, raced>>

(* should_sync_now: whether a database was written within the last minute. *)
Decide(d) ==
    /\ life[d] \in Deciding
    /\ signal[d] = "none"
    /\ \E busy \in BOOLEAN : Becomes(d, IF busy THEN "asleep" ELSE "syncing")
    /\ UNCHANGED <<lock, signal, cycleVars, requestVars, configVars, raced>>

(* The sync it runs in the foreground; one that fails is backed off from.  *)
Sync(d) ==
    /\ life[d] = "syncing"
    /\ signal[d] # "KILL"
    /\ synced' = listing \/ UNCHANGED synced
    /\ Becomes(d, "asleep")
    /\ UNCHANGED <<lock, signal, listing, seen, requestVars, configVars, raced>>

Wake(d) ==
    /\ life[d] = "asleep"
    /\ signal[d] # "KILL"
    /\ Becomes(d, "checking")
    /\ UNCHANGED <<lock, signal, cycleVars, requestVars, configVars, raced>>

(* A bug for the runs to catch: the handler returns, and the loop resumes. *)
ReleaseAndResume(d) ==
    /\ life[d] = "releasing"
    /\ lock' = Nothing
    /\ raced' = (raced \/ lock # d)
    /\ Becomes(d, "checking")
    /\ signal' = [signal EXCEPT ![d] = "none"]
    /\ UNCHANGED <<cycleVars, requestVars, configVars>>

(* release_daemon_lock removes whatever is there, in the handler,          *)
Release(d) ==
    /\ life[d] = "releasing"
    /\ lock' = Nothing
    /\ raced' = (raced \/ lock # d)
    /\ Becomes(d, "exiting")
    /\ UNCHANGED <<signal, cycleVars, requestVars, configVars>>

(* and once more in the EXIT trap, on the way out of the handler.          *)
ExitTrap(d) ==
    /\ life[d] = "exiting"
    /\ lock' = Nothing
    /\ raced' = (raced \/ lock # Nothing)
    /\ Exits(d)
    /\ UNCHANGED <<cycleVars, requestVars, configVars>>

(* A signal takes effect: KILL at once, TERM between two commands of the   *)
(* shell, so never while a sync or a sleep is in the foreground, and before*)
(* the trap is set it kills.                                               *)
Die(d) ==
    /\ Alive(d)
    /\ \/ signal[d] = "KILL" /\ Exits(d)
       \/ /\ signal[d] = "TERM"
          /\ life[d] \in {"launched", "cleaning", "claiming", "starting"}
          /\ Exits(d)
       \/ /\ signal[d] = "TERM" /\ life[d] \in {"starting", "checking"} \cup Deciding
          /\ Becomes(d, "releasing")
          /\ UNCHANGED signal
    /\ UNCHANGED <<lock, cycleVars, requestVars, configVars, raced>>

-----------------------------------------------------------------------------
(* The world: other machines.                                              *)

Publish ==
    /\ listing < MaxRemote
    /\ listing' = listing + 1
    /\ UNCHANGED <<lock, life, signal, seen, synced, requestVars, configVars, raced>>

-----------------------------------------------------------------------------
(* POST /daemon/control and PUT /daemon/config.                            *)

Ask(r, act) ==
    /\ pc[r] = "new"
    /\ action' = [action EXCEPT ![r] = act]
    /\ Goto(r, CASE act = "start" -> "start" [] act = "configure" -> "load" [] OTHER -> "stop")
    /\ UNCHANGED <<lock, life, signal, cycleVars, target, configVars, raced>>

(* _read_daemon_pid, and the answers that need no more.                    *)
ReadPid == IF Alive(lock) THEN lock ELSE Nothing
Stopped(r) == Goto(r, IF action[r] = "restart" THEN "start" ELSE "load")
UnchangedButRequest == UNCHANGED <<lock, life, signal, cycleVars, configVars, raced>>

(* The answer, success or not; what the request knew goes with it.         *)
Answer(r, answer) ==
    /\ Goto(r, answer)
    /\ action' = [action EXCEPT ![r] = "start"]
    /\ target' = [target EXCEPT ![r] = Nothing]
Proceed(r, there) == Goto(r, there) /\ UNCHANGED <<action, target>>

StopRead(r) ==
    /\ pc[r] = "stop"
    /\ target' = [target EXCEPT ![r] = ReadPid]
    /\ IF ReadPid = Nothing THEN Stopped(r) ELSE Goto(r, "signal")
    /\ UNCHANGED action
    /\ UnchangedButRequest

(* os.kill, which fails if the process has gone meanwhile.                 *)
Send(r, sig) ==
    IF Alive(target[r])
    THEN /\ signal' = [signal EXCEPT ![target[r]] = sig]
         /\ Proceed(r, IF sig = "TERM" THEN "wait" ELSE "confirm")
    ELSE Answer(r, "failed") /\ UNCHANGED signal

Terminate(r) ==
    /\ pc[r] = "signal"
    /\ Send(r, "TERM")
    /\ UNCHANGED <<lock, life, cycleVars, configVars, raced>>

(* A bug for the runs to catch: a lock that is released counts as stopped. *)
WaitForTheLock(r) ==
    /\ pc[r] = "wait"
    /\ IF lock # target[r] THEN Stopped(r) ELSE Goto(r, "escalate")
    /\ UNCHANGED <<action, target>>
    /\ UnchangedButRequest

(* A bug for the runs to catch: no deadline, and no escalation.            *)
WaitForEver(r) ==
    /\ pc[r] = "wait"
    /\ ~ Alive(target[r])
    /\ Stopped(r)
    /\ UNCHANGED <<action, target>>
    /\ UnchangedButRequest

(* The polls: gone, or the deadline has passed.                            *)
Wait(r) ==
    /\ pc[r] = "wait"
    /\ IF Alive(target[r]) THEN Goto(r, "escalate") ELSE Stopped(r)
    /\ UNCHANGED <<action, target>>
    /\ UnchangedButRequest

Escalate(r) ==
    /\ pc[r] = "escalate"
    /\ Send(r, "KILL")
    /\ UNCHANGED <<lock, life, cycleVars, configVars, raced>>

Confirm(r) ==
    /\ pc[r] = "confirm"
    /\ IF Alive(target[r]) THEN Answer(r, "failed") ELSE Proceed(r, "match")
    /\ UnchangedButRequest

(* _clear_lock_if_pid_matches: the file is read, and then unlinked.        *)
Match(r) ==
    /\ pc[r] = "match"
    /\ IF lock = target[r] THEN Goto(r, "unlink") ELSE Stopped(r)
    /\ UNCHANGED <<action, target>>
    /\ UnchangedButRequest

Unlink(r) ==
    /\ pc[r] = "unlink"
    /\ lock' = Nothing
    /\ raced' = (raced \/ lock \notin {target[r], Nothing})
    /\ Stopped(r)
    /\ UNCHANGED <<life, signal, cycleVars, action, target, configVars>>

(* start_daemon: one that runs will do; else launch one, if the script can *)
(* be run, and wait for a daemon to hold the lock, for two seconds.        *)
StartRead(r) ==
    /\ pc[r] = "start"
    /\ \/ ReadPid # Nothing /\ Proceed(r, "load") /\ UNCHANGED life
       \/ /\ ReadPid = Nothing
          /\ \E d \in Daemon : life[d] = "new" /\ Becomes(d, "launched")
          /\ Proceed(r, "await")
       \/ ReadPid = Nothing /\ Answer(r, "failed") /\ UNCHANGED life
    /\ UNCHANGED <<lock, signal, cycleVars, configVars, raced>>

Await(r) ==
    /\ pc[r] = "await"
    /\ IF ReadPid # Nothing THEN Proceed(r, "load") ELSE Answer(r, "failed")
    /\ UnchangedButRequest

(* update_daemon_config reads all of the configuration and writes all of it*)
(* in two transactions.                                                    *)
Load(r) ==
    /\ pc[r] = "load"
    /\ read' = [read EXCEPT ![r] = config]
    /\ Goto(r, "save")
    /\ UNCHANGED <<lock, life, signal, cycleVars, action, target, config, chosen,
                   overwrote, raced>>

(* A bug for the runs to catch: control resets what it does not set.       *)
UpdatedFromDefaults(r) == [enabled |-> action[r] # "stop", scope |-> "personal"]

Updated(r) == [read[r] EXCEPT !.enabled = action[r] # "stop"]

Save(r) ==
    /\ pc[r] = "save"
    /\ IF action[r] = "configure"
       THEN \E new \in Config : config' = new /\ chosen' = new.scope
       ELSE config' = Updated(r) /\ UNCHANGED chosen
    /\ overwrote' = (overwrote \/ (action[r] # "configure" /\ read[r].scope # config.scope))
    /\ Answer(r, "done")
    /\ read' = [read EXCEPT ![r] = Default]
    /\ UNCHANGED <<lock, life, signal, cycleVars, raced>>

-----------------------------------------------------------------------------
DaemonStep(d) ==
    \/ Test(d) \/ Clean(d) \/ Claim(d) \/ Capture(d) \/ Check(d) \/ Decide(d) \/ Sync(d)
    \/ Wake(d) \/ Release(d) \/ ExitTrap(d) \/ Die(d)

RequestStep(r) ==
    \/ StopRead(r) \/ Terminate(r) \/ Wait(r) \/ Escalate(r) \/ Confirm(r)
    \/ Match(r) \/ Unlink(r) \/ StartRead(r) \/ Await(r) \/ Load(r) \/ Save(r)

Next ==
    \/ \E d \in Daemon : Launch(d) \/ DaemonStep(d)
    \/ Publish
    \/ \E r \in Request, act \in Action \cup {"configure"} : Ask(r, act)
    \/ \E r \in Request : RequestStep(r)

(* The server's threads are scheduled; a daemon may sleep, or sync, on.    *)
Fairness == \A r \in Request : WF_vars(RequestStep(r))

Spec == Init /\ [][Next]_vars /\ Fairness

(* KiroCrew's databases come to rest, and a backend that is looked at and a*)
(* sync that is tried again and again succeed in the end.                  *)
Reaches(d) == Check(d) /\ seen' = listing
IsIdle(d) == Decide(d) /\ life'[d] = "syncing"
Succeeds(d) == Sync(d) /\ synced' = listing
KindSpec ==
    /\ Spec
    /\ \A d \in Daemon :
        WF_vars(DaemonStep(d)) /\ SF_vars(Reaches(d)) /\ SF_vars(IsIdle(d)) /\ SF_vars(Succeeds(d))

-----------------------------------------------------------------------------
(* The type invariant.                                                     *)
TypeOK ==
    /\ lock \in Daemon \cup {Nothing}
    /\ life \in [Daemon -> Life]
    /\ signal \in [Daemon -> {"none", "TERM", "KILL"}]
    /\ {listing, seen, synced} \subseteq Nat
    /\ {raced, overwrote} \subseteq BOOLEAN
    /\ pc \in [Request -> Place]
    /\ action \in [Request -> Action \cup {"configure"}]
    /\ target \in [Request -> Daemon \cup {Nothing}]
    /\ config \in Config
    /\ read \in [Request -> Config]
    /\ chosen \in Scope

(* The lock names the daemon that runs: without one of the three races of  *)
(* a file that is read and then written (a claim over a live daemon, a     *)
(* release or an unlink of another's lock), there is no second daemon,     *)
(* whoever stops, kills and starts daemons meanwhile.                      *)
LockIsHeld == raced \/ \A d \in Daemon : life[d] \in Running => lock = d

(* "Confirm the process is actually gone -- not just that the lock file is *)
(* gone" (stop_daemon): a request that goes on to report success, or to    *)
(* start the next daemon, has seen the one it was to stop die.             *)
StopConfirmed ==
    \A r \in Request :
        pc[r] \in {"match", "unlink", "start", "await", "load", "save"} => ~ Alive(target[r])

(* Starting and stopping the daemon does not touch the scope a user chose, *)
(* unless the choice was made between its read and its write.              *)
ScopeKept == overwrote \/ config.scope = chosen

(* Every request is answered, whatever the daemon is doing: a sleep of half*)
(* an hour does not hold up a stop.                                        *)
Answered == \A r \in Request : pc[r] # "new" ~> pc[r] \in {"done", "failed"}

(* "KiroCrew active -> defer sync until databases are idle" (docs/daemon.md*)
(* line 12): a change of another machine that a daemon's cycle has found,  *)
(* and that waits for the databases to be idle, is given a sync in the end.*)
(* What the start-up capture takes for seen was never found, and so is not *)
(* claimed here; nor is it claimed that the sync succeeds.                 *)
DeferredIsSynced ==
    \A d \in Daemon :
        life[d] = "remote" /\ synced < listing ~>
            life[d] = "syncing" \/ synced = listing \/ life[d] \notin Running
=============================================================================
