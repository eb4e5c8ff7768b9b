------------------------------ MODULE SyncLock ------------------------------
(***************************************************************************)
(* acquire_sync_lock and release_sync_lock of kirocrew-sync.sh: commands   *)
(* of one machine and scope (the daemon's, the app's, cron's and the       *)
(* user's) exclude each other by a lock file that holds its owner's PID.   *)
(* Each step is one system call another process can come between.          *)
(*                                                                         *)
(* A process lives once: a PID is not reused while a lock file names it.   *)
(***************************************************************************)
EXTENDS Naturals, FiniteSets

CONSTANTS
    Proc,     \* the processes, named by their PID
    NoProc,   \* an empty or missing file
    Crashes   \* a process may be killed without running its traps

ASSUME LockAssumption ==
    /\ NoProc \notin Proc
    /\ Crashes \in BOOLEAN

Attempts == 2                   \* turns of acquire_sync_lock's loop
NoFile == [by |-> NoProc, written |-> FALSE]
File == {NoFile} \cup [by : Proc, written : BOOLEAN]
Phase == {"new", "create", "write", "wrote", "read", "judge", "clean",
          "hold", "check", "unlink", "exit", "refused", "killed"}
Over == {"exit", "refused", "killed"}    \* nothing runs any more

VARIABLES
    file,     \* the lock file: which process created it, and whether its
              \* PID has been written to it yet
    phase,    \* where each process is
    attempt,  \* the turn of the loop
    saw,      \* the PID it read from the file
    robbed,   \* history: a cleanup removed the file of a process that runs
    stranded  \* history: the processes a signal met after they had created
              \* the file and before they had noted its path

vars == <<file, phase, attempt, saw, robbed, stranded>>

Init ==
    /\ file = NoFile
    /\ phase = [p \in Proc |-> "new"]
    /\ attempt = [p \in Proc |-> 1]
    /\ saw = [p \in Proc |-> NoProc]
    /\ robbed = FALSE
    /\ stranded = {}

Alive(p) == p \in Proc /\ phase[p] \notin Over \cup {"new"}

(* SYNC_LOCK_PATH is assigned when the file has been made and written, and *)
(* cleared when it has been released.                                      *)
PathKnown(p) == phase[p] \in {"hold", "check", "unlink"}
Content == IF file.written THEN file.by ELSE NoProc
At(p, here) == phase[p] = here
Goto(p, there) == phase' = [phase EXCEPT ![p] = there]

-----------------------------------------------------------------------------
(* acquire_sync_lock.                                                      *)

Start(p) == At(p, "new") /\ Goto(p, "create") /\ UNCHANGED <<file, attempt, saw, robbed, stranded>>

(* A bug for the runs to catch: noclobber is not set.                      *)
CreateOver(p) ==
    /\ At(p, "create")
    /\ file' = [by |-> p, written |-> FALSE]
    /\ Goto(p, "write")
    /\ UNCHANGED <<attempt, saw, robbed, stranded>>

(* set -C: open with O_EXCL, which creates an empty file or fails.         *)
Create(p) ==
    /\ At(p, "create")
    /\ IF file = NoFile
       THEN file' = [by |-> p, written |-> FALSE] /\ Goto(p, "write")
       ELSE UNCHANGED file /\ Goto(p, "read")
    /\ UNCHANGED <<attempt, saw, robbed, stranded>>

(* echo $$ into the open file, which another process may have unlinked.    *)
WritePid(p) ==
    /\ At(p, "write")
    /\ file' = IF file.by = p THEN [file EXCEPT !.written = TRUE] ELSE file
    /\ Goto(p, "wrote")
    /\ UNCHANGED <<attempt, saw, robbed, stranded>>

(* The subshell that did both has ended; SYNC_LOCK_PATH is set.            *)
Acquire(p) == At(p, "wrote") /\ Goto(p, "hold") /\ UNCHANGED <<file, attempt, saw, robbed, stranded>>

(* cat.                                                                    *)
ReadPid(p) ==
    /\ At(p, "read")
    /\ saw' = [saw EXCEPT ![p] = Content]
    /\ Goto(p, "judge")
    /\ UNCHANGED <<file, attempt, robbed, stranded>>

(* A bug for the runs to catch: a file no live process wrote is an error.  *)
JudgeRefuses(p) ==
    /\ At(p, "judge")
    /\ Goto(p, "refused")
    /\ UNCHANGED <<file, attempt, saw, robbed, stranded>>

(* kill -0 on what was read.                                               *)
Judge(p) ==
    /\ At(p, "judge")
    /\ Goto(p, IF Alive(saw[p]) THEN "refused" ELSE "clean")
    /\ UNCHANGED <<file, attempt, saw, robbed, stranded>>

(* rm -f, then the next turn of the loop if there is one.                  *)
CleanStale(p) ==
    /\ At(p, "clean")
    /\ file' = NoFile
    /\ robbed' = (robbed \/ Alive(file.by))
    /\ IF attempt[p] < Attempts
       THEN Goto(p, "create") /\ attempt' = [attempt EXCEPT ![p] = @ + 1]
       ELSE Goto(p, "refused") /\ UNCHANGED attempt
    /\ UNCHANGED <<saw, stranded>>

-----------------------------------------------------------------------------
(* The command ends and on_exit calls release_sync_lock: cat, compare,     *)
(* rm -f.                                                                  *)

Finish(p) == At(p, "hold") /\ Goto(p, "check") /\ UNCHANGED <<file, attempt, saw, robbed, stranded>>

(* INT or TERM: the trap calls on_exit, which starts the release anew even *)
(* if one is under way, and exits.  While SYNC_LOCK_PATH is empty          *)
(* release_sync_lock returns at once.                                      *)
Interrupt(p) ==
    /\ Alive(p)
    /\ Goto(p, IF PathKnown(p) THEN "check" ELSE "exit")
    /\ stranded' = IF phase[p] \in {"write", "wrote"} THEN stranded \cup {p} ELSE stranded
    /\ UNCHANGED <<file, attempt, saw, robbed>>

(* A bug for the runs to catch: the comparison is the wrong way round.     *)
CheckOwnerNegated(p) ==
    /\ At(p, "check")
    /\ Goto(p, IF Content # p THEN "unlink" ELSE "exit")
    /\ UNCHANGED <<file, attempt, saw, robbed, stranded>>

CheckOwner(p) ==
    /\ At(p, "check")
    /\ Goto(p, IF Content = p THEN "unlink" ELSE "exit")
    /\ UNCHANGED <<file, attempt, saw, robbed, stranded>>

Unlink(p) ==
    /\ At(p, "unlink")
    /\ file' = NoFile
    /\ Goto(p, "exit")
    /\ UNCHANGED <<attempt, saw, robbed, stranded>>

(* SIGKILL, or a power cut.                                                *)
Kill(p) ==
    /\ Crashes
    /\ Alive(p)
    /\ Goto(p, "killed")
    /\ UNCHANGED <<file, attempt, saw, robbed, stranded>>

Step(p) ==
    \/ Create(p) \/ WritePid(p) \/ Acquire(p) \/ ReadPid(p) \/ Judge(p) \/ CleanStale(p)
    \/ Finish(p) \/ CheckOwner(p) \/ Unlink(p)

Next == \E p \in Proc : Start(p) \/ Step(p) \/ Interrupt(p) \/ Kill(p)

Spec == Init /\ [][Next]_vars

(* A process that runs keeps running: the scheduler is fair to each.       *)
FairSpec == Spec /\ \A p \in Proc : WF_vars(Step(p))

-----------------------------------------------------------------------------
(* The type invariant.                                                     *)
TypeOK ==
    /\ file \in File
    /\ phase \in [Proc -> Phase]
    /\ attempt \in [Proc -> 1 .. Attempts]
    /\ saw \in [Proc -> Proc \cup {NoProc}]
    /\ robbed \in BOOLEAN
    /\ stranded \subseteq Proc

(* A command that ends without being killed leaves no lock file of its own *)
(* behind, whatever the others did to the file meanwhile and wherever INT  *)
(* or TERM met it (release_sync_lock and the EXIT, INT and TERM traps),    *)
(* with one exception: a signal between the creation of the file and the   *)
(* assignment of SYNC_LOCK_PATH, when the trap does not know of the file.  *)
OrderlyExitLeavesNoLock ==
    file # NoFile /\ file.by \notin stranded => phase[file.by] \notin {"exit", "refused"}

(* A lock whose owner was killed or stranded does not keep the next        *)
(* command out: one that starts and runs alone gets it (the stale-lock     *)
(* cleanup), unless a signal ends it first.                                *)
Alone(p) == \A q \in Proc \ {p} : ~ Alive(q)
StaleLockReclaimed ==
    \A p \in Proc :
        phase[p] = "create" /\ attempt[p] = 1 /\ Alone(p)
            ~> phase[p] \in {"hold", "exit", "killed"} \/ ~ Alone(p)

(* "Two racing acquires can never both succeed" (the comment above         *)
(* acquire_sync_lock).                                                     *)
MutualExclusion ==
    \A p, q \in Proc : phase[p] = "hold" /\ phase[q] = "hold" => p = q

(* What the comment may claim: as long as no stale-lock cleanup removes    *)
(* the file of a process that runs, two commands never hold the lock at    *)
(* once, whoever is killed, cleans up or releases meanwhile. The cleanup   *)
(* is the only way exclusion is lost.                                      *)
ExclusiveUnlessRobbed == robbed \/ MutualExclusion
=============================================================================
