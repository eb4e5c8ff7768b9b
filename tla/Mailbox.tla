------------------------------- MODULE Mailbox -------------------------------
(***************************************************************************)
(* The session mailbox: mailbox.py and the send-session and inbox commands *)
(* of kirocrew-sync.sh.  A bundle is put on the backend once, for one      *)
(* machine or for all, and stays until its addressee installs or discards  *)
(* it.  A machine remembers in a local state file what it has dealt with,  *)
(* because KiroCrew makes a new session of every bundle it is given.       *)
(*                                                                         *)
(* A command is a process that lives once.  What it holds in memory is as  *)
(* old as its last read: the listing is taken before mailbox.lock, and     *)
(* discard reads and writes the state file without that lock.  mailbox.lock*)
(* is taken in one step here; SyncLock has its system calls.               *)
(***************************************************************************)
EXTENDS Naturals, FiniteSets

CONSTANTS
    Machine,
    Name,     \* bundle file names, as numbers: a name starts with its stamp
    Bytes,    \* what a bundle holds: two sends of one session may be equal
    Command,  \* the inbox commands that are run, each a process
    Host,     \* the machine a command runs on
    Address,  \* where bundles are sent: machines, or "all" for a broadcast
    Nothing,  \* no bundle, no process, no name
    Fault     \* what may go wrong: "kill", "lost" (an answer), "force"

All == "all"

Request == [act : {"install", "discard"}, name : Name \cup {Nothing}, force : BOOLEAN]
Bundle == [bytes : Bytes, from : Machine, to : Address]

ASSUME MailboxAssumption ==
    /\ Name \subseteq Nat
    /\ Host \in [Command -> Machine]
    /\ Address \subseteq Machine \cup {All}
    /\ All \notin Machine
    /\ Nothing \notin Command \cup Bundle

State == [installed : SUBSET Bytes, names : [Name -> {"new", "installed", "discarded"}]]
Locked == {"next", "loaded", "posted", "remove"}
Place == Locked \cup {"new", "listed", "discarding", "dropping", "done"}

VARIABLES
    sent,      \* what was put under each name
    box,       \* the names now on the backend
    state,     \* the state file of each machine
    sessions,  \* how often KiroCrew was made to install these bytes
    lock,      \* mailbox.lock: the command it names
    pc,
    request,   \* the arguments of each command
    listing,   \* the names it listed, then those it has left to install
    mem,       \* the state file as it last read it
    excused    \* HISTORY: the times a machine could not know that it had
               \* installed these bytes, or was told to do so regardless

vars == <<sent, box, state, sessions, lock, pc, request, listing, mem, excused>>
Empty == [installed |-> {}, names |-> [n \in Name |-> "new"]]
Sent(n) == sent[n] # Nothing
Goto(p, there) == pc' = [pc EXCEPT ![p] = there]
Keep(p, names, read) == /\ listing' = [listing EXCEPT ![p] = names]
                        /\ mem' = [mem EXCEPT ![p] = read]
End(p) == Goto(p, "done") /\ Keep(p, {}, Empty)
Min(S) == CHOOSE n \in S : \A o \in S : n <= o

Init ==
    /\ sent = [n \in Name |-> Nothing]
    /\ box = {}
    /\ state = [m \in Machine |-> Empty]
    /\ sessions = [m \in Machine |-> [b \in Bytes |-> 0]]
    /\ lock = [m \in Machine |-> Nothing]
    /\ pc = [p \in Command |-> "new"]
    /\ request = [p \in Command |-> [act |-> "install", name |-> Nothing, force |-> FALSE]]
    /\ listing = [p \in Command |-> {}]
    /\ mem = [p \in Command |-> Empty]
    /\ excused = [m \in Machine |-> [b \in Bytes |-> 0]]

-----------------------------------------------------------------------------
(* send-session: export a slot through the gateway, stamp the sender, put  *)
(* the file under the recipient's address.  A failure of either sends      *)
(* nothing.                                                                *)
Send(m, n, b, to) ==
    /\ ~ Sent(n)
    /\ \A o \in Name : o < n => Sent(o)
    /\ sent' = [sent EXCEPT ![n] = [bytes |-> b, from |-> m, to |-> to]]
    /\ box' = box \cup {n}
    /\ UNCHANGED <<state, sessions, lock, pc, request, listing, mem, excused>>

(* inbox_listing, at the start of every inbox command.                     *)
List(p, r) ==
    /\ pc[p] = "new"
    /\ r.force => r.act = "install" /\ "force" \in Fault
    /\ r.act = "discard" => r.name # Nothing
    /\ request' = [request EXCEPT ![p] = r]
    /\ listing' = [listing EXCEPT ![p] = {n \in box : sent[n].to \in {Host[p], All}}]
    /\ Goto(p, "listed")
    /\ UNCHANGED <<sent, box, state, sessions, lock, mem, excused>>

-----------------------------------------------------------------------------
(* inbox --install.                                                        *)

(* mailbox-list --names-only: not our own broadcast, not dealt with here.  *)
Fresh(p) ==
    LET m == Host[p]
    IN  {n \in listing[p] : /\ ~ (sent[n].to = All /\ sent[n].from = m)
                            /\ state[m].names[n] = "new"}

(* What the command will install; a name it may not install ends it.       *)
Pending(p) ==
    LET r == request[p]
    IN  IF r.name = Nothing THEN Fresh(p)
        ELSE {r.name} \cap (IF r.force THEN listing[p] ELSE Fresh(p))

Dead(p) == p = Nothing \/ pc[p] = "done"

(* A bug for the runs to catch: a live holder does not keep others out.    *)
TakeAnyLock(p) ==
    LET m == Host[p]
    IN  /\ pc[p] = "listed"
        /\ request[p].act = "install"
        /\ lock' = [lock EXCEPT ![m] = p]
        /\ listing' = [listing EXCEPT ![p] = Pending(p)]
        /\ Goto(p, "next")
        /\ UNCHANGED <<sent, box, state, sessions, request, mem, excused>>

TakeLock(p) ==
    LET m == Host[p]
    IN  /\ pc[p] = "listed"
        /\ request[p].act = "install"
        /\ IF Dead(lock[m])
           THEN /\ lock' = [lock EXCEPT ![m] = p]
                /\ listing' = [listing EXCEPT ![p] = Pending(p)]
                /\ Goto(p, "next")
                /\ UNCHANGED mem
           ELSE End(p) /\ UNCHANGED lock
        /\ UNCHANGED <<sent, box, state, sessions, request, excused>>

Current(p) == Min(listing[p])
Known(p) == sent[Current(p)].bytes \in mem[p].installed
Skip(p) == Goto(p, "next") /\ Keep(p, listing[p] \ {Current(p)}, Empty)
Release(m) == lock' = [lock EXCEPT ![m] = Nothing]

(* The download, which fails if the bundle is gone or the backend is, and  *)
(* the start of mailbox-import, which loads the state file.                *)
Fetch(p) ==
    /\ pc[p] = "next"
    /\ listing[p] # {}
    /\ \/ Skip(p)
       \/ /\ Current(p) \in box
          /\ mem' = [mem EXCEPT ![p] = state[Host[p]]]
          /\ Goto(p, "loaded")
          /\ UNCHANGED listing
    /\ UNCHANGED <<sent, box, state, sessions, lock, request, excused>>

(* save_state over whatever the file holds by now.  What it held and this  *)
(* save does not is forgotten, and that excuses one more installation.     *)
Save(p, new) ==
    LET m == Host[p]
        lost == state[m].installed \ new.installed
    IN  /\ state' = [state EXCEPT ![m] = new]
        /\ excused' = [excused EXCEPT ![m] =
               [b \in Bytes |-> IF b \in lost THEN @[b] + 1 ELSE @[b]]]

Mark(p, n, status) == [mem[p].names EXCEPT ![n] = status]

(* The bytes are already recorded: only the name is.                       *)
Duplicate(p) ==
    /\ pc[p] = "loaded"
    /\ Known(p)
    /\ ~ request[p].force
    /\ Save(p, [mem[p] EXCEPT !.names = Mark(p, Current(p), "installed")])
    /\ Goto(p, "remove")
    /\ UNCHANGED <<sent, box, sessions, lock, request, listing, mem>>

(* How a call to the gateway ends: Gateway.authenticate and .request.  A   *)
(* gateway that is down or refuses the token (exit codes 2 and 3) ends the *)
(* command; so does a connection that breaks after the gateway did the     *)
(* work, which the command cannot tell from the first.                     *)
Answer == {"installed", "refused", "down"} \cup ({"lost"} \cap Fault)

(* A bug for the runs to catch: a refused bundle is taken for delivered.   *)
DeliverAnyway(p, answer) ==
    LET m == Host[p]
        b == sent[Current(p)].bytes
    IN  /\ pc[p] = "loaded"
        /\ ~ Known(p)
        /\ IF answer = "refused"
           THEN Goto(p, "posted") /\ UNCHANGED <<sessions, lock, listing, mem>>
           ELSE /\ sessions' = [sessions EXCEPT ![m][b] = @ + 1]
                /\ End(p)
                /\ Release(m)
        /\ UNCHANGED <<sent, box, state, request, excused>>

(* POST /api/chat/slots/import.                                            *)
Deliver(p, answer) ==
    LET m == Host[p]
        b == sent[Current(p)].bytes
        reaches == answer \in {"installed", "lost"}
        unknowing == Known(p) \/ answer = "lost"
    IN  /\ pc[p] = "loaded"
        /\ Known(p) => request[p].force
        /\ sessions' = IF reaches THEN [sessions EXCEPT ![m][b] = @ + 1] ELSE sessions
        /\ excused' = IF reaches /\ unknowing THEN [excused EXCEPT ![m][b] = @ + 1] ELSE excused
        /\ CASE answer = "installed" -> Goto(p, "posted") /\ UNCHANGED <<lock, listing, mem>>
             [] answer = "refused"   -> Skip(p) /\ UNCHANGED lock
             [] OTHER                -> End(p) /\ Release(m)
        /\ UNCHANGED <<sent, box, state, request>>

Record(p) ==
    /\ pc[p] = "posted"
    /\ Save(p, [installed |-> mem[p].installed \cup {sent[Current(p)].bytes},
                names |-> Mark(p, Current(p), "installed")])
    /\ Goto(p, "remove")
    /\ UNCHANGED <<sent, box, sessions, lock, request, listing, mem>>

(* backend_mailbox_delete; a broadcast stays for the other machines, and   *)
(* a deletion that fails is only a warning.                                *)
Take(n) == box' = IF sent[n].to = All THEN box ELSE box \ {n}

Remove(p) ==
    /\ pc[p] = "remove"
    /\ Take(Current(p)) \/ UNCHANGED box
    /\ Skip(p)
    /\ UNCHANGED <<sent, state, sessions, lock, request, excused>>

Finish(p) ==
    /\ pc[p] = "next"
    /\ listing[p] = {}
    /\ Release(Host[p])
    /\ End(p)
    /\ UNCHANGED <<sent, box, state, sessions, request, excused>>

-----------------------------------------------------------------------------
(* inbox --discard, which takes no lock: cmd_discard loads the file, marks *)
(* the name and saves the file, and the shell then removes the bundle.     *)

DiscardLoad(p) ==
    /\ pc[p] = "listed"
    /\ request[p].act = "discard"
    /\ IF request[p].name \in listing[p]
       THEN Keep(p, {}, state[Host[p]]) /\ Goto(p, "discarding")
       ELSE End(p)
    /\ UNCHANGED <<sent, box, state, sessions, lock, request, excused>>

DiscardSave(p) ==
    /\ pc[p] = "discarding"
    /\ Save(p, [mem[p] EXCEPT !.names = Mark(p, request[p].name, "discarded")])
    /\ Keep(p, {}, Empty)
    /\ Goto(p, "dropping")
    /\ UNCHANGED <<sent, box, sessions, lock, request>>

Drop(p) ==
    /\ pc[p] = "dropping"
    /\ Take(request[p].name) \/ UNCHANGED box
    /\ End(p)
    /\ UNCHANGED <<sent, state, sessions, lock, request, excused>>

(* SIGKILL.  Between the gateway's answer and the record, the machine has  *)
(* the session and will not know.                                          *)
Kill(p) ==
    LET m == Host[p]
    IN  /\ "kill" \in Fault
        /\ pc[p] \notin {"new", "done"}
        /\ End(p)
        /\ excused' = IF pc[p] = "posted"
                      THEN [excused EXCEPT ![m][sent[Current(p)].bytes] = @ + 1]
                      ELSE excused
        /\ UNCHANGED <<sent, box, state, sessions, lock, request>>

Next ==
    \/ \E m \in Machine, n \in Name, b \in Bytes, to \in Address : Send(m, n, b, to)
    \/ \E p \in Command, r \in Request : List(p, r)
    \/ \E p \in Command, answer \in Answer : Deliver(p, answer)
    \/ \E p \in Command :
          \/ TakeLock(p) \/ Fetch(p) \/ Duplicate(p) \/ Record(p) \/ Remove(p) \/ Finish(p)
          \/ DiscardLoad(p) \/ DiscardSave(p) \/ Drop(p) \/ Kill(p)

Spec == Init /\ [][Next]_vars

-----------------------------------------------------------------------------
(* The type invariant.                                                     *)
TypeOK ==
    /\ sent \in [Name -> Bundle \cup {Nothing}]
    /\ box \subseteq {n \in Name : Sent(n)}
    /\ state \in [Machine -> State]
    /\ sessions \in [Machine -> [Bytes -> Nat]]
    /\ lock \in [Machine -> Command \cup {Nothing}]
    /\ pc \in [Command -> Place]
    /\ request \in [Command -> Request]
    /\ listing \in [Command -> SUBSET {n \in Name : Sent(n)}]
    /\ mem \in [Command -> State]
    /\ excused \in [Machine -> [Bytes -> Nat]]

(* "The same bundle is never installed twice" (mailbox.py, the module's    *)
(* docstring), in the form the code keeps: KiroCrew gets the same bytes    *)
(* again only after a kill between its answer and the record, an answer    *)
(* that was lost, a --force, or a save that overwrote the record.          *)
InstalledOnce ==
    \A m \in Machine, b \in Bytes : sessions[m][b] <= 1 + excused[m][b]

(* What the state file calls installed was installed: a bundle KiroCrew    *)
(* refused is never recorded, whatever other commands write meanwhile.     *)
RecordsAreTrue ==
    \A m \in Machine : \A b \in state[m].installed : sessions[m][b] > 0

(* A bundle sent to one machine leaves the backend only when that machine  *)
(* has installed those bytes or its user has discarded it ("they stay in   *)
(* the inbox", inbox_install).                                             *)
Discarded(m, n) ==
    \E p \in Command : /\ Host[p] = m
                       /\ request[p].act = "discard"
                       /\ request[p].name = n
NothingLost ==
    \A n \in Name : Sent(n) /\ n \notin box =>
        LET to == sent[n].to
        IN  /\ to # All
            /\ sessions[to][sent[n].bytes] > 0 \/ Discarded(to, n)
=============================================================================
