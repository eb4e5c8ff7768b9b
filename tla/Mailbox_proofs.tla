--------------------------- MODULE Mailbox_proofs ---------------------------
(***************************************************************************)
(* Mailbox for any number of machines, bundles and commands.               *)
(***************************************************************************)
EXTENDS Mailbox, WellFoundedInduction, TLAPS

(* Every set of numbers has a least one.                                   *)
LEMMA LeastOf ==
    ASSUME NEW S \in SUBSET Nat, S # {}
    PROVE  Min(S) \in S
<1>. DEFINE R == OpToRel(<, Nat)
<1>1. R = {ss \in Nat \X Nat : ss[1] < ss[2]}
  BY Zenon DEF OpToRel
<1>2. IsWellFoundedOn(R, Nat)
  BY NatLessThanWellFounded
<1>. HIDE DEF R
<1>3. PICK n \in S : \A o \in S : <<o, n>> \notin R
  BY <1>2, WFMin
<1>4. ASSUME NEW o \in S
      PROVE  n <= o
  <2>1. n \in Nat /\ o \in Nat /\ <<o, n>> \in Nat \X Nat
    OBVIOUS
  <2>2. ~ (o < n)
    BY <1>1, <1>3, <2>1
  <2>. QED
    BY <2>1, <2>2
<1>. QED
  BY <1>4 DEF Min

(* The bundle a command is at is one of those it listed.                   *)
LEMMA CurrentListed ==
    ASSUME TypeOK, NEW p \in Command, listing[p] # {}
    PROVE  Current(p) \in listing[p] /\ Current(p) \in Name /\ Sent(Current(p))
<1>1. listing[p] \in SUBSET Nat /\ listing[p] \subseteq {n \in Name : Sent(n)}
  BY MailboxAssumption DEF TypeOK
<1>. QED
  BY <1>1, LeastOf DEF Current

(* A command that is at a bundle has one.                                  *)
Working == \A p \in Command : pc[p] \in {"loaded", "posted", "remove"} => listing[p] # {}

(* A save leaves a state file and a count.                                 *)
LEMMA SaveType ==
    ASSUME TypeOK, NEW p \in Command, NEW new \in State, Save(p, new)
    PROVE  state' \in [Machine -> State] /\ excused' \in [Machine -> [Bytes -> Nat]]
BY MailboxAssumption DEF TypeOK, Save

(* A file with one more name marked is a state file.                       *)
LEMMA MarkType ==
    ASSUME TypeOK, NEW p \in Command, NEW n, NEW bytes \in SUBSET Bytes,
           NEW status \in {"new", "installed", "discarded"}
    PROVE  /\ [mem[p] EXCEPT !.names = Mark(p, n, status)] \in State
           /\ [mem[p] EXCEPT !.names = Mark(p, n, status)].installed = mem[p].installed
           /\ [installed |-> bytes, names |-> Mark(p, n, status)] \in State
<1>1. mem[p] \in State /\ mem[p].names \in [Name -> {"new", "installed", "discarded"}]
  BY DEF TypeOK, State
<1>2. Mark(p, n, status) \in [Name -> {"new", "installed", "discarded"}]
  BY <1>1 DEF Mark
<1>. QED
  BY <1>1, <1>2 DEF State

(* The type of the mailbox holds at first.                                 *)
LEMMA InitType == Init => TypeOK /\ Working
BY MailboxAssumption DEF Init, TypeOK, Working, Empty, State, Request, Place, Locked

(* A count that went up is a count.                                        *)
LEMMA CountType ==
    ASSUME NEW count \in [Machine -> [Bytes -> Nat]], NEW m \in Machine, NEW b \in Bytes
    PROVE  [count EXCEPT ![m][b] = @ + 1] \in [Machine -> [Bytes -> Nat]]
OBVIOUS

(* A command that goes on to the next bundle.                              *)
LEMMA SkipType ==
    ASSUME TypeOK, NEW p \in Command, Skip(p), UNCHANGED sent
    PROVE  /\ pc' \in [Command -> Place] /\ pc' = [pc EXCEPT ![p] = "next"]
           /\ listing' \in [Command -> SUBSET {n \in Name : Sent(n)'}]
           /\ listing' = [listing EXCEPT ![p] = listing'[p]]
           /\ mem' \in [Command -> State]
<1>1. Empty \in State /\ "next" \in Place
  BY DEF Empty, State, Place, Locked
<1>2. listing[p] \ {Current(p)} \in SUBSET {n \in Name : Sent(n)}
  BY DEF TypeOK
<1>3. listing' = [listing EXCEPT ![p] = listing[p] \ {Current(p)}]
  BY DEF Skip, Keep
<1>. QED
  BY <1>1, <1>2, <1>3 DEF TypeOK, Skip, Keep, Goto, Sent

(* A command's own steps.                                                  *)
CommandStep(p) ==
    \/ \E r \in Request : List(p, r)
    \/ \E answer \in Answer : Deliver(p, answer)
    \/ TakeLock(p) \/ Fetch(p) \/ Duplicate(p) \/ Record(p) \/ Remove(p) \/ Finish(p)
    \/ DiscardLoad(p) \/ DiscardSave(p) \/ Drop(p) \/ Kill(p)

(* Every step keeps the type.                                              *)
LEMMA StepType ==
    ASSUME TypeOK, Working, NEW p \in Command, CommandStep(p)
    PROVE  TypeOK' /\ Working'
<1>. DEFINE m == Host[p]
            n == Current(p)
<1>. m \in Machine
  BY MailboxAssumption
<1>. Empty \in State
  BY DEF Empty, State
<1>. USE DEF TypeOK, Working, Goto, Keep, Place, Locked
<1>1. ASSUME NEW r \in Request, List(p, r)
      PROVE  TypeOK' /\ Working'
  BY <1>1 DEF List, Sent
<1>2. CASE TakeLock(p)
  <2>1. Pending(p) \subseteq listing[p]
    BY DEF Pending, Fresh
  <2>. QED
    BY <1>2, <2>1 DEF TakeLock, End, Sent
<1>3. CASE Fetch(p)
  <2>1. CASE Skip(p)
    BY <1>3, <2>1, SkipType DEF Fetch, Sent
  <2>2. CASE mem' = [mem EXCEPT ![p] = state[m]] /\ Goto(p, "loaded") /\ UNCHANGED listing
    <3>1. state[m] \in State
      OBVIOUS
    <3>. QED
      BY <1>3, <2>2, <3>1 DEF Fetch, Sent
  <2>. QED
    BY <1>3, <2>1, <2>2 DEF Fetch
<1>4. CASE Duplicate(p)
  <2>2. [mem[p] EXCEPT !.names = Mark(p, n, "installed")] \in State
    BY MarkType
  <2>3. state' \in [Machine -> State] /\ excused' \in [Machine -> [Bytes -> Nat]]
    BY <1>4, <2>2, SaveType DEF Duplicate
  <2>. QED
    BY <1>4, <2>3 DEF Duplicate, Sent
<1>5. ASSUME NEW answer \in Answer, Deliver(p, answer)
      PROVE  TypeOK' /\ Working'
  <2>. DEFINE b == sent[n].bytes
  <2>1. listing[p] # {} /\ b \in Bytes
    BY <1>5, CurrentListed, MailboxAssumption DEF Deliver, Sent, Bundle
  <2>2. sessions' \in [Machine -> [Bytes -> Nat]] /\ excused' \in [Machine -> [Bytes -> Nat]]
    <3>1. sessions' \in {sessions, [sessions EXCEPT ![m][b] = @ + 1]}
      BY <1>5 DEF Deliver
    <3>2. excused' \in {excused, [excused EXCEPT ![m][b] = @ + 1]}
      BY <1>5, <2>1 DEF Deliver
    <3>3. m \in Machine /\ b \in Bytes
      BY <2>1
    <3>. HIDE DEF m, b
    <3>4. [sessions EXCEPT ![m][b] = @ + 1] \in [Machine -> [Bytes -> Nat]]
      BY <3>3, CountType
    <3>5. [excused EXCEPT ![m][b] = @ + 1] \in [Machine -> [Bytes -> Nat]]
      BY <3>3, CountType
    <3>. QED
      BY <3>1, <3>2, <3>4, <3>5
  <2>3. CASE answer = "installed"
    BY <1>5, <2>1, <2>2, <2>3 DEF Deliver, Sent
  <2>4. CASE answer = "refused"
    BY <1>5, <2>2, <2>4, SkipType DEF Deliver, Sent
  <2>5. CASE answer \notin {"installed", "refused"}
    BY <1>5, <2>2, <2>5 DEF Deliver, Release, End, Sent
  <2>. QED
    BY <2>3, <2>4, <2>5
<1>6. CASE Record(p)
  <2>1. n \in Name /\ sent[n].bytes \in Bytes
    BY <1>6, CurrentListed, MailboxAssumption DEF Record, Sent, Bundle
  <2>2. [installed |-> mem[p].installed \cup {sent[n].bytes},
         names |-> Mark(p, n, "installed")] \in State
    <3>1. mem[p].installed \cup {sent[n].bytes} \in SUBSET Bytes
      BY <2>1 DEF State
    <3>. QED
      BY <3>1, MarkType
  <2>3. state' \in [Machine -> State] /\ excused' \in [Machine -> [Bytes -> Nat]]
    BY <1>6, <2>2, SaveType DEF Record
  <2>. QED
    BY <1>6, <2>3 DEF Record, Sent
<1>7. CASE Remove(p)
  <2>1. box' \subseteq box
    BY <1>7 DEF Remove, Take
  <2>. QED
    BY <1>7, <2>1, SkipType DEF Remove, Sent
<1>8. CASE Finish(p)
  BY <1>8 DEF Finish, Release, End, Sent
<1>9. CASE DiscardLoad(p)
  <2>1. state[m] \in State
    OBVIOUS
  <2>2. CASE request[p].name \in listing[p]
    BY <1>9, <2>1, <2>2 DEF DiscardLoad, Sent
  <2>3. CASE request[p].name \notin listing[p]
    BY <1>9, <2>3 DEF DiscardLoad, End, Sent
  <2>. QED
    BY <2>2, <2>3
<1>10. CASE DiscardSave(p)
  <2>2. [mem[p] EXCEPT !.names = Mark(p, request[p].name, "discarded")] \in State
    BY MarkType
  <2>3. state' \in [Machine -> State] /\ excused' \in [Machine -> [Bytes -> Nat]]
    BY <1>10, <2>2, SaveType DEF DiscardSave
  <2>. QED
    BY <1>10, <2>3 DEF DiscardSave, Sent
<1>11. CASE Drop(p)
  BY <1>11 DEF Drop, Take, End, Sent
<1>12. CASE Kill(p)
  <2>1. excused' \in [Machine -> [Bytes -> Nat]]
    <3>1. CASE pc[p] = "posted"
      <4>1. sent[n].bytes \in Bytes
        BY <3>1, CurrentListed, MailboxAssumption DEF Bundle, Sent
      <4>. QED
        BY <1>12, <3>1, <4>1, CountType DEF Kill
    <3>2. CASE pc[p] # "posted"
      BY <1>12, <3>2 DEF Kill
    <3>. QED
      BY <3>1, <3>2
  <2>. QED
    BY <1>12, <2>1 DEF Kill, End, Sent
<1>. QED
  BY <1>1, <1>2, <1>3, <1>4, <1>5, <1>6, <1>7, <1>8, <1>9, <1>10, <1>11, <1>12
     DEF CommandStep

(* A bundle that is sent keeps the type.                                   *)
LEMMA SendType ==
    ASSUME TypeOK, Working, NEW m \in Machine, NEW n \in Name, NEW b \in Bytes,
           NEW to \in Address, Send(m, n, b, to)
    PROVE  TypeOK' /\ Working'
<1>1. [bytes |-> b, from |-> m, to |-> to] \in Bundle
  BY DEF Bundle
<1>2. sent' \in [Name -> Bundle \cup {Nothing}]
  BY <1>1 DEF TypeOK, Send
<1>. QED
  BY <1>1, <1>2, MailboxAssumption DEF TypeOK, Working, Send, Sent

(* The steps of the mailbox by who takes them.                             *)
LEMMA NextCases ==
    ASSUME Next
    PROVE  \/ \E m \in Machine, n \in Name, b \in Bytes, to \in Address : Send(m, n, b, to)
           \/ \E p \in Command : CommandStep(p)
BY DEF Next, CommandStep

-----------------------------------------------------------------------------
(* The lock: a command that installs holds the one of its machine, so no   *)
(* other command of that machine installs.                                 *)
Excluded == \A p \in Command : pc[p] \in Locked => lock[Host[p]] = p

(* Every step leaves an installing command the lock of its machine.        *)
LEMMA StepExcluded ==
    ASSUME TypeOK, Excluded, NEW p \in Command, CommandStep(p)
    PROVE  Excluded'
<1>. DEFINE m == Host[p]
<1>. m \in Machine /\ Nothing \notin Command /\ \A q \in Command : Host[q] \in Machine
  BY MailboxAssumption
<1>. USE DEF TypeOK, Excluded, Goto, Keep, Place, Locked
<1>1. ASSUME NEW r \in Request, List(p, r)
      PROVE  Excluded'
  BY <1>1 DEF List
<1>2. CASE TakeLock(p)
  BY <1>2 DEF TakeLock, End, Dead
<1>3. CASE Fetch(p)
  BY <1>3 DEF Fetch, Skip
<1>4. CASE Duplicate(p)
  BY <1>4 DEF Duplicate
<1>5. ASSUME NEW answer \in Answer, Deliver(p, answer)
      PROVE  Excluded'
  <2>1. CASE answer = "installed"
    BY <1>5, <2>1 DEF Deliver
  <2>2. CASE answer = "refused"
    BY <1>5, <2>2 DEF Deliver, Skip
  <2>3. CASE answer \notin {"installed", "refused"}
    <3>1. /\ pc[p] = "loaded"
          /\ pc' = [pc EXCEPT ![p] = "done"]
          /\ lock' = [lock EXCEPT ![m] = Nothing]
      BY <1>5, <2>3 DEF Deliver, Release, End
    <3>. QED
      BY <3>1
  <2>. QED
    BY <2>1, <2>2, <2>3
<1>6. CASE Record(p)
  BY <1>6 DEF Record
<1>7. CASE Remove(p)
  BY <1>7 DEF Remove, Skip
<1>8. CASE Finish(p)
  BY <1>8 DEF Finish, Release, End
<1>9. CASE DiscardLoad(p)
  BY <1>9 DEF DiscardLoad, End
<1>10. CASE DiscardSave(p)
  BY <1>10 DEF DiscardSave
<1>11. CASE Drop(p)
  BY <1>11 DEF Drop, End
<1>12. CASE Kill(p)
  BY <1>12 DEF Kill, End
<1>. QED
  BY <1>1, <1>2, <1>3, <1>4, <1>5, <1>6, <1>7, <1>8, <1>9, <1>10, <1>11, <1>12
     DEF CommandStep

-----------------------------------------------------------------------------
(* What is recorded, read or about to be recorded as installed was         *)
(* installed.                                                              *)
Holds(m) == {b \in Bytes : sessions[m][b] > 0}
Truthful ==
    /\ \A m \in Machine : state[m].installed \subseteq Holds(m)
    /\ \A p \in Command : mem[p].installed \subseteq Holds(Host[p])
    /\ \A p \in Command :
          pc[p] \in {"posted", "remove"} => sent[Current(p)].bytes \in Holds(Host[p])

(* A command that goes on, outside the places between a delivery and its   *)
(* removal, keeps the records true if what it holds is.                    *)
LEMMA MovingOn ==
    ASSUME TypeOK, Truthful, NEW p \in Command, NEW there \in Place, NEW names, NEW read,
           there \notin {"posted", "remove"}, Goto(p, there), Keep(p, names, read),
           read.installed \subseteq Holds(Host[p])', UNCHANGED <<sent, state>>,
           \A o \in Machine : Holds(o) \subseteq Holds(o)'
    PROVE  Truthful'
<1>. \A q \in Command : Host[q] \in Machine
  BY MailboxAssumption
<1>1. /\ pc' = [pc EXCEPT ![p] = there]
      /\ listing' = [listing EXCEPT ![p] = names]
      /\ mem' = [mem EXCEPT ![p] = read]
  BY DEF Goto, Keep
<1>2. \A q \in Command : mem'[q].installed \subseteq Holds(Host[q])'
  BY <1>1 DEF Truthful, TypeOK
<1>3. ASSUME NEW q \in Command, pc'[q] \in {"posted", "remove"}
      PROVE  sent[Min(listing'[q])].bytes \in Holds(Host[q])'
  BY <1>1, <1>3 DEF Truthful, TypeOK, Current
<1>. QED
  BY <1>2, <1>3 DEF Truthful, Current

(* A command that ends leaves nothing untrue behind.                       *)
LEMMA EndTruthful ==
    ASSUME TypeOK, Truthful, NEW p \in Command, End(p), UNCHANGED <<sent, state, sessions>>
    PROVE  Truthful'
<1>1. Empty.installed \subseteq Holds(Host[p])' /\ "done" \in Place
  BY DEF Empty, Place
<1>2. \A o \in Machine : Holds(o) \subseteq Holds(o)'
  BY DEF Holds
<1>3. Goto(p, "done") /\ Keep(p, {}, Empty)
  BY DEF End
<1>. QED
  BY <1>1, <1>2, <1>3, MovingOn

(* Every step records, holds or is about to record only what was           *)
(* installed.                                                              *)
LEMMA StepTruthful ==
    ASSUME TypeOK, Working, Truthful, NEW p \in Command, CommandStep(p)
    PROVE  Truthful'
<1>. DEFINE m == Host[p]
            n == Current(p)
<1>. m \in Machine /\ \A q \in Command : Host[q] \in Machine
  BY MailboxAssumption
<1>. USE DEF TypeOK, Truthful, Goto, Keep, Current
<1>1. ASSUME NEW r \in Request, List(p, r)
      PROVE  Truthful'
  BY <1>1 DEF List, Holds
<1>2. CASE TakeLock(p)
  <2>1. UNCHANGED <<sent, sessions, state>>
    BY <1>2 DEF TakeLock
  <2>2. CASE Dead(lock[m])
    <3>1. pc' = [pc EXCEPT ![p] = "next"] /\ UNCHANGED mem
      BY <1>2, <2>2 DEF TakeLock
    <3>2. \A q \in Command : q # p => listing'[q] = listing[q]
      BY <1>2, <2>2 DEF TakeLock
    <3>3. \A o \in Machine : Holds(o)' = Holds(o)
      BY <2>1 DEF Holds
    <3>4. ASSUME NEW q \in Command, pc'[q] \in {"posted", "remove"}
          PROVE  q # p /\ pc'[q] = pc[q] /\ listing'[q] = listing[q]
      BY <3>1, <3>2, <3>4
    <3>. QED
      BY <2>1, <3>1, <3>3, <3>4
  <2>3. CASE ~ Dead(lock[m])
    <3>1. End(p)
      BY <1>2, <2>3 DEF TakeLock
    <3>. HIDE DEF TypeOK, Truthful
    <3>. QED
      BY <2>1, <3>1, EndTruthful
  <2>. QED
    BY <2>2, <2>3
<1>3. CASE Fetch(p)
  BY <1>3 DEF Fetch, Skip, Empty, Holds
<1>4. CASE Duplicate(p)
  <2>1. /\ state' = [state EXCEPT ![m] = [mem[p] EXCEPT !.names = Mark(p, n, "installed")]]
        /\ pc' = [pc EXCEPT ![p] = "remove"]
        /\ UNCHANGED <<sent, sessions, listing, mem>>
        /\ sent[n].bytes \in Holds(m)
    BY <1>4 DEF Duplicate, Save, Known
  <2>2. state'[m].installed = mem[p].installed
    BY <2>1 DEF State
  <2>. QED
    BY <2>1, <2>2 DEF Holds
<1>5. ASSUME NEW answer \in Answer, Deliver(p, answer)
      PROVE  Truthful'
  <2>1. n \in Name /\ sent[n].bytes \in Bytes
    BY <1>5, CurrentListed, MailboxAssumption DEF Deliver, Sent, Working, Bundle
  <2>2. \A o \in Machine : Holds(o) \subseteq Holds(o)'
    BY <1>5, <2>1 DEF Deliver, Holds
  <2>3. CASE answer = "installed"
    <3>1. /\ UNCHANGED <<sent, listing, mem, state>>
          /\ pc' = [pc EXCEPT ![p] = "posted"]
          /\ sessions' = [sessions EXCEPT ![m][sent[n].bytes] = @ + 1]
      BY <1>5, <2>3 DEF Deliver
    <3>2. sent[n].bytes \in Holds(m)'
      BY <2>1, <3>1 DEF Holds
    <3>. QED
      BY <2>2, <3>1, <3>2
  <2>4. CASE answer = "refused"
    BY <1>5, <2>2, <2>4, MovingOn DEF Deliver, Skip, Empty, Place, Locked
  <2>5. CASE answer \notin {"installed", "refused"}
    BY <1>5, <2>2, <2>5, MovingOn DEF Deliver, End, Empty, Place
  <2>. QED
    BY <2>3, <2>4, <2>5
<1>6. CASE Record(p)
  BY <1>6 DEF Record, Save, Holds
<1>7. CASE Remove(p)
  BY <1>7 DEF Remove, Skip, Empty, Holds
<1>8. CASE Finish(p)
  BY <1>8 DEF Finish, End, Empty, Holds
<1>9. CASE DiscardLoad(p)
  <2>1. UNCHANGED <<sent, sessions, state>>
    BY <1>9 DEF DiscardLoad
  <2>2. CASE request[p].name \in listing[p]
    <3>1. Goto(p, "discarding") /\ Keep(p, {}, state[m])
      BY <1>9, <2>2 DEF DiscardLoad
    <3>2. state[m].installed \subseteq Holds(m)' /\ \A o \in Machine : Holds(o) \subseteq Holds(o)'
      BY <2>1 DEF Holds
    <3>3. "discarding" \in Place
      BY DEF Place
    <3>. HIDE DEF Goto, Keep, Truthful, TypeOK
    <3>. QED
      BY <2>1, <3>1, <3>2, <3>3, MovingOn
  <2>3. CASE request[p].name \notin listing[p]
    <3>1. End(p)
      BY <1>9, <2>3 DEF DiscardLoad
    <3>. HIDE DEF TypeOK, Truthful
    <3>. QED
      BY <2>1, <3>1, EndTruthful
  <2>. QED
    BY <2>2, <2>3
<1>10. CASE DiscardSave(p)
  <2>1. /\ state' = [state EXCEPT ![m] =
                        [mem[p] EXCEPT !.names = Mark(p, request[p].name, "discarded")]]
        /\ pc' = [pc EXCEPT ![p] = "dropping"]
        /\ listing' = [listing EXCEPT ![p] = {}]
        /\ mem' = [mem EXCEPT ![p] = Empty]
        /\ UNCHANGED <<sent, sessions>>
    BY <1>10 DEF DiscardSave, Save
  <2>2. state'[m].installed = mem[p].installed
    BY <2>1 DEF State
  <2>. QED
    BY <2>1, <2>2 DEF Holds, Empty
<1>11. CASE Drop(p)
  BY <1>11 DEF Drop, End, Empty, Holds
<1>12. CASE Kill(p)
  BY <1>12 DEF Kill, End, Empty, Holds
<1>. QED
  BY <1>1, <1>2, <1>3, <1>4, <1>5, <1>6, <1>7, <1>8, <1>9, <1>10, <1>11, <1>12
     DEF CommandStep

-----------------------------------------------------------------------------
(* KiroCrew was given these bytes at most as often as excused, and once    *)
(* more only while the state file, or the command that is about to write   *)
(* it, knows of them.                                                      *)
Posting(m, b) ==
    \E q \in Command : Host[q] = m /\ pc[q] = "posted" /\ sent[Current(q)].bytes = b
Recorded ==
    \A m \in Machine, b \in Bytes :
        b \in state[m].installed \/ Posting(m, b) \/ sessions[m][b] <= excused[m][b]
Unrecorded ==
    \A q \in Command :
        LET b == sent[Current(q)].bytes
        IN  pc[q] = "loaded" /\ ~ Known(q) => sessions[Host[q]][b] <= excused[Host[q]][b]
Counted == InstalledOnce /\ Recorded /\ Unrecorded

OthersStay(p) ==
    \A q \in Command \ {p} :
        pc'[q] = pc[q] /\ listing'[q] = listing[q] /\ mem'[q] = mem[q]

(* A step that is not about a delivery.                                    *)
LEMMA QuietCounted ==
    ASSUME TypeOK, Counted, NEW p \in Command, UNCHANGED <<sent, state, sessions, excused>>,
           pc[p] # "posted", pc'[p] \notin {"loaded", "posted"}, OthersStay(p)
    PROVE  Counted'
<1>1. InstalledOnce'
  BY DEF Counted, InstalledOnce
<1>2. \A m \in Machine, b \in Bytes : Posting(m, b) => Posting(m, b)'
  BY DEF Posting, OthersStay, Current
<1>3. Recorded'
  BY <1>2 DEF Counted, Recorded
<1>4. Unrecorded'
  BY DEF Counted, Unrecorded, OthersStay, Known, Current
<1>. QED
  BY <1>1, <1>3, <1>4 DEF Counted

(* A save: what it forgets is excused.                                     *)
LEMMA SaveCounted ==
    ASSUME TypeOK, Working, Counted, NEW p \in Command, NEW new \in State, Save(p, new),
           UNCHANGED <<sent, sessions>>, OthersStay(p), pc'[p] \notin {"loaded", "posted"},
           pc[p] = "posted" => sent[Current(p)].bytes \in new.installed
    PROVE  Counted'
<1>. DEFINE m == Host[p]
<1>1. m \in Machine /\ \A q \in Command : Host[q] \in Machine
  BY MailboxAssumption
<1>2. /\ state'[m] = new
      /\ \A o \in Machine \ {m} : state'[o] = state[o] /\ excused'[o] = excused[o]
      /\ \A b \in Bytes :
            excused'[m][b] = IF b \in state[m].installed \ new.installed
                             THEN excused[m][b] + 1 ELSE excused[m][b]
  BY <1>1 DEF Save, TypeOK
<1>3. \A o \in Machine, b \in Bytes :
         sessions[o][b] \in Nat /\ excused[o][b] \in Nat /\ excused[o][b] <= excused'[o][b]
  BY <1>1, <1>2 DEF TypeOK
<1>4. InstalledOnce'
  <2>. SUFFICES ASSUME NEW o \in Machine, NEW b \in Bytes
                PROVE  sessions[o][b] <= 1 + excused'[o][b]
    BY DEF InstalledOnce
  <2>1. sessions[o][b] <= 1 + excused[o][b]
    BY DEF Counted, InstalledOnce
  <2>2. excused'[o][b] \in Nat
    BY <1>1, <1>2, <1>3
  <2>. QED
    BY <1>3, <2>1, <2>2
<1>5. Recorded'
  <2>. SUFFICES ASSUME NEW o \in Machine, NEW b \in Bytes, b \notin state'[o].installed,
                       ~ Posting(o, b)'
                PROVE  sessions[o][b] <= excused'[o][b]
    BY DEF Recorded
  <2>1. excused'[o][b] \in Nat
    BY <1>1, <1>2, <1>3
  <2>2. CASE b \in state[o].installed
    <3>1. o = m /\ excused'[o][b] = excused[o][b] + 1
      BY <1>2, <2>2
    <3>. QED
      BY <1>3, <3>1 DEF Counted, InstalledOnce
  <2>3. CASE b \notin state[o].installed
    <3>1. ~ Posting(o, b)
      BY <1>2 DEF Posting, OthersStay, Current
    <3>2. sessions[o][b] <= excused[o][b]
      BY <2>3, <3>1 DEF Counted, Recorded
    <3>. QED
      BY <1>3, <2>1, <3>2
  <2>. QED
    BY <2>2, <2>3
<1>6. Unrecorded'
  <2>. SUFFICES ASSUME NEW q \in Command, pc'[q] = "loaded", ~ Known(q)'
                PROVE  sessions[Host[q]][sent[Current(q)'].bytes]
                          <= excused'[Host[q]][sent[Current(q)'].bytes]
    BY DEF Unrecorded
  <2>. DEFINE b == sent[Current(q)].bytes
  <2>1. q # p /\ Current(q)' = Current(q) /\ ~ Known(q) /\ pc[q] = "loaded"
    BY DEF OthersStay, Current, Known
  <2>2. sessions[Host[q]][b] <= excused[Host[q]][b]
    BY <2>1 DEF Counted, Unrecorded
  <2>3. b \in Bytes
    BY <2>1, CurrentListed, MailboxAssumption DEF Working, TypeOK, Sent, Bundle
  <2>. HIDE DEF b
  <2>4. excused'[Host[q]][b] \in Nat
    BY <1>1, <1>2, <1>3, <2>3
  <2>5. sessions[Host[q]][b] <= excused'[Host[q]][b]
    BY <1>1, <1>3, <2>2, <2>3, <2>4
  <2>. QED
    BY <2>1, <2>5 DEF b
<1>. QED
  BY <1>4, <1>5, <1>6 DEF Counted

(* Every step keeps the sessions beyond the excuses known.                 *)
LEMMA StepCounted ==
    ASSUME TypeOK, Working, Excluded, Counted, NEW p \in Command, CommandStep(p)
    PROVE  Counted'
<1>. DEFINE m == Host[p]
            n == Current(p)
            b == sent[n].bytes
<1>. m \in Machine /\ \A q \in Command : Host[q] \in Machine
  BY MailboxAssumption
<1>. USE DEF TypeOK, Goto, Keep
<1>1. ASSUME NEW r \in Request, List(p, r)
      PROVE  Counted'
  BY <1>1, QuietCounted DEF List, OthersStay
<1>2. CASE TakeLock(p)
  <2>1. OthersStay(p) /\ pc'[p] \in {"next", "done"}
    BY <1>2 DEF TakeLock, OthersStay, End
  <2>. QED
    BY <1>2, <2>1, QuietCounted DEF TakeLock
<1>3. CASE Fetch(p)
  <2>1. CASE Skip(p)
    BY <1>3, <2>1, QuietCounted DEF Fetch, Skip, OthersStay
  <2>2. CASE mem' = [mem EXCEPT ![p] = state[m]] /\ Goto(p, "loaded") /\ UNCHANGED listing
    <3>1. /\ UNCHANGED <<sent, state, sessions, excused, listing>>
          /\ pc[p] = "next" /\ listing[p] # {}
          /\ pc' = [pc EXCEPT ![p] = "loaded"]
      BY <1>3, <2>2 DEF Fetch
    <3>2. \A o \in Machine, c \in Bytes : Posting(o, c) => Posting(o, c)'
      BY <3>1 DEF Posting, Current
    <3>3. ~ Posting(m, b)
      BY <3>1 DEF Posting, Excluded, Locked
    <3>4. b \in Bytes
      BY <3>1, CurrentListed, MailboxAssumption DEF Sent, Bundle
    <3>5. Unrecorded'
      <4>. SUFFICES ASSUME NEW q \in Command, pc'[q] = "loaded", ~ Known(q)'
                    PROVE  sessions[Host[q]][sent[Current(q)].bytes]
                              <= excused[Host[q]][sent[Current(q)].bytes]
        BY <3>1 DEF Unrecorded, Current
      <4>1. CASE q = p
        BY <2>2, <3>1, <3>3, <3>4, <4>1 DEF Known, Current, Counted, Recorded
      <4>2. CASE q # p
        BY <2>2, <3>1, <4>2 DEF Known, Current, Counted, Unrecorded
      <4>. QED
        BY <4>1, <4>2
    <3>. QED
      BY <3>1, <3>2, <3>5 DEF Counted, InstalledOnce, Recorded
  <2>. QED
    BY <1>3, <2>1, <2>2 DEF Fetch
<1>4. CASE Duplicate(p)
  <2>2. [mem[p] EXCEPT !.names = Mark(p, n, "installed")] \in State
    BY MarkType
  <2>3. OthersStay(p) /\ pc[p] # "posted" /\ pc'[p] = "remove"
    BY <1>4 DEF Duplicate, OthersStay, Place
  <2>. QED
    BY <1>4, <2>2, <2>3, SaveCounted DEF Duplicate
<1>6. CASE Record(p)
  <2>1. n \in Name /\ b \in Bytes
    BY <1>6, CurrentListed, MailboxAssumption DEF Record, Working, Sent, Bundle
  <2>2. [installed |-> mem[p].installed \cup {b}, names |-> Mark(p, n, "installed")] \in State
    <3>1. mem[p].installed \cup {b} \in SUBSET Bytes
      BY <2>1 DEF State
    <3>. QED
      BY <3>1, MarkType
  <2>3. OthersStay(p) /\ pc'[p] = "remove"
    BY <1>6 DEF Record, OthersStay
  <2>. QED
    BY <1>6, <2>2, <2>3, SaveCounted DEF Record
<1>7. CASE Remove(p)
  BY <1>7, QuietCounted DEF Remove, Skip, OthersStay
<1>8. CASE Finish(p)
  BY <1>8, QuietCounted DEF Finish, End, OthersStay
<1>9. CASE DiscardLoad(p)
  <2>1. OthersStay(p) /\ pc'[p] \in {"discarding", "done"}
    BY <1>9 DEF DiscardLoad, OthersStay, End
  <2>. QED
    BY <1>9, <2>1, QuietCounted DEF DiscardLoad
<1>10. CASE DiscardSave(p)
  <2>1. [mem[p] EXCEPT !.names = Mark(p, request[p].name, "discarded")] \in State
    BY MarkType
  <2>2. OthersStay(p) /\ pc[p] # "posted" /\ pc'[p] = "dropping"
    BY <1>10 DEF DiscardSave, OthersStay
  <2>. QED
    BY <1>10, <2>1, <2>2, SaveCounted DEF DiscardSave
<1>11. CASE Drop(p)
  BY <1>11, QuietCounted DEF Drop, End, OthersStay
<1>12. ASSUME NEW answer \in Answer, Deliver(p, answer)
      PROVE  Counted'
  <2>1. /\ pc[p] = "loaded" /\ listing[p] # {}
        /\ n \in Name /\ b \in Bytes
    BY <1>12, CurrentListed, MailboxAssumption DEF Deliver, Working, Sent, Bundle
  <2>2. \A o \in Machine, c \in Bytes : sessions[o][c] \in Nat /\ excused[o][c] \in Nat
    OBVIOUS
  <2>3. CASE answer = "installed"
    <3>1. /\ pc' = [pc EXCEPT ![p] = "posted"]
          /\ sessions' = [sessions EXCEPT ![m][b] = @ + 1]
          /\ excused' = IF Known(p) THEN [excused EXCEPT ![m][b] = @ + 1] ELSE excused
          /\ UNCHANGED <<sent, state, listing, mem>>
      BY <1>12, <2>3 DEF Deliver
    <3>2. InstalledOnce'
      BY <2>1, <2>2, <3>1 DEF Counted, InstalledOnce, Unrecorded
    <3>3. Recorded'
      BY <2>1, <2>2, <3>1 DEF Counted, Recorded, Posting, Current
    <3>4. Unrecorded'
      BY <2>1, <2>2, <3>1 DEF Counted, Unrecorded, Known, Current, Excluded, Locked
    <3>. QED
      BY <3>2, <3>3, <3>4 DEF Counted
  <2>4. CASE answer = "lost"
    <3>1. /\ pc' = [pc EXCEPT ![p] = "done"]
          /\ sessions' = [sessions EXCEPT ![m][b] = @ + 1]
          /\ excused' = [excused EXCEPT ![m][b] = @ + 1]
          /\ UNCHANGED <<sent, state>>
          /\ OthersStay(p)
      BY <1>12, <2>4 DEF Deliver, End, OthersStay
    <3>2. \A o \in Machine, c \in Bytes :
             \/ sessions'[o][c] = sessions[o][c] + 1 /\ excused'[o][c] = excused[o][c] + 1
             \/ sessions'[o][c] = sessions[o][c] /\ excused'[o][c] = excused[o][c]
      BY <2>1, <2>2, <3>1
    <3>3. InstalledOnce'
      <4>. SUFFICES ASSUME NEW o \in Machine, NEW c \in Bytes
                    PROVE  sessions'[o][c] <= 1 + excused'[o][c]
        BY DEF InstalledOnce
      <4>1. sessions[o][c] <= 1 + excused[o][c]
        BY DEF Counted, InstalledOnce
      <4>. HIDE DEF TypeOK
      <4>. QED
        BY <2>2, <3>2, <4>1
    <3>4. \A o \in Machine, c \in Bytes : Posting(o, c) => Posting(o, c)'
      BY <2>1, <3>1 DEF Posting, Current, OthersStay
    <3>5. Recorded'
      BY <2>2, <3>1, <3>2, <3>4 DEF Counted, Recorded
    <3>6. Unrecorded'
      <4>. SUFFICES ASSUME NEW q \in Command, pc'[q] = "loaded", ~ Known(q)'
                    PROVE  sessions'[Host[q]][sent[Current(q)'].bytes]
                              <= excused'[Host[q]][sent[Current(q)'].bytes]
        BY <3>1 DEF Unrecorded
      <4>1. q # p /\ Current(q)' = Current(q) /\ pc[q] = "loaded" /\ ~ Known(q)
        BY <3>1 DEF OthersStay, Current, Known
      <4>2. PICK o \in Machine, c \in Bytes : o = Host[q] /\ c = sent[Current(q)].bytes
        BY <4>1, CurrentListed, MailboxAssumption DEF Working, Sent, Bundle
      <4>3. sessions[o][c] <= excused[o][c]
        BY <4>1, <4>2 DEF Counted, Unrecorded
      <4>4. sessions'[o][c] <= excused'[o][c]
        <5>. HIDE DEF TypeOK, b, m
        <5>. QED
          BY <2>2, <3>2, <4>3
      <4>. QED
        BY <4>1, <4>2, <4>4, <3>2, <3>1
    <3>. QED
      BY <3>3, <3>5, <3>6 DEF Counted
  <2>5. CASE answer \notin {"installed", "lost"}
    <3>1. pc'[p] \in {"next", "done"} /\ OthersStay(p)
      BY <1>12, <2>5 DEF Deliver, Skip, End, OthersStay
    <3>. QED
      BY <1>12, <2>1, <2>5, <3>1, QuietCounted DEF Deliver
  <2>. QED
    BY <2>3, <2>4, <2>5
<1>13. CASE Kill(p)
  <2>1. CASE pc[p] = "posted"
    <3>1. listing[p] # {} /\ n \in Name /\ b \in Bytes
      BY <2>1, CurrentListed, MailboxAssumption DEF Working, Sent, Bundle
    <3>2. /\ pc' = [pc EXCEPT ![p] = "done"]
          /\ excused' = [excused EXCEPT ![m][b] = @ + 1]
          /\ UNCHANGED <<sent, state, sessions>>
          /\ OthersStay(p)
      BY <1>13, <2>1 DEF Kill, End, OthersStay
    <3>3. \A o \in Machine, c \in Bytes :
             /\ sessions[o][c] \in Nat /\ excused[o][c] \in Nat
             /\ excused'[o][c] = IF o = m /\ c = b THEN excused[o][c] + 1 ELSE excused[o][c]
      BY <3>1, <3>2
    <3>4. InstalledOnce'
      BY <3>2, <3>3 DEF Counted, InstalledOnce
    <3>5. \A o \in Machine, c \in Bytes :
             Posting(o, c) => Posting(o, c)' \/ (o = m /\ c = b)
      BY <3>2 DEF Posting, Current, OthersStay
    <3>6. Recorded'
      <4>. SUFFICES ASSUME NEW o \in Machine, NEW c \in Bytes, c \notin state[o].installed,
                           ~ Posting(o, c)'
                    PROVE  sessions[o][c] <= excused'[o][c]
        BY <3>2 DEF Recorded
      <4>1. CASE o = m /\ c = b
        BY <3>3, <4>1 DEF Counted, InstalledOnce
      <4>2. CASE ~ (o = m /\ c = b)
        <5>1. sessions[o][c] <= excused[o][c]
          BY <3>5, <4>2 DEF Counted, Recorded
        <5>. QED
          BY <3>3, <4>2, <5>1
      <4>. QED
        BY <4>1, <4>2
    <3>7. Unrecorded'
      <4>. SUFFICES ASSUME NEW q \in Command, pc'[q] = "loaded", ~ Known(q)'
                    PROVE  sessions'[Host[q]][sent[Current(q)'].bytes]
                              <= excused'[Host[q]][sent[Current(q)'].bytes]
        BY <3>2 DEF Unrecorded
      <4>1. q # p /\ Current(q)' = Current(q) /\ pc[q] = "loaded" /\ ~ Known(q)
        BY <3>2 DEF OthersStay, Current, Known
      <4>2. PICK o \in Machine, c \in Bytes : o = Host[q] /\ c = sent[Current(q)].bytes
        BY <4>1, CurrentListed, MailboxAssumption DEF Working, Sent, Bundle
      <4>3. sessions[o][c] <= excused[o][c]
        BY <4>1, <4>2 DEF Counted, Unrecorded
      <4>4. sessions'[o][c] <= excused'[o][c]
        <5>. HIDE DEF TypeOK, b, m
        <5>. QED
          BY <3>3, <4>3, <3>2
      <4>. QED
        BY <4>1, <4>2, <4>4, <3>2, <3>1
    <3>. QED
      BY <3>4, <3>6, <3>7 DEF Counted
  <2>2. CASE pc[p] # "posted"
    <3>1. OthersStay(p) /\ pc'[p] = "done"
      BY <1>13 DEF Kill, End, OthersStay
    <3>. QED
      BY <1>13, <2>2, <3>1, QuietCounted DEF Kill
  <2>. QED
    BY <2>1, <2>2
<1>. QED
  BY <1>1, <1>2, <1>3, <1>4, <1>6, <1>7, <1>8, <1>9, <1>10, <1>11, <1>12, <1>13
     DEF CommandStep

-----------------------------------------------------------------------------
(* A command removes what it was sent: what it lists and what it is told   *)
(* to discard is addressed to its machine, or to all.                      *)
For(m, n) == n \in Name /\ Sent(n) /\ sent[n].to \in {m, All}
Addressed ==
    /\ \A p \in Command : \A n \in listing[p] : For(Host[p], n)
    /\ \A p \in Command : pc[p] = "new" => request[p].act = "install"
    /\ \A p \in Command : pc[p] \in {"discarding", "dropping"} =>
          request[p].act = "discard" /\ For(Host[p], request[p].name)

(* Every step lists and drops only what was sent to its machine.           *)
LEMMA StepAddressed ==
    ASSUME TypeOK, Addressed, NEW p \in Command, CommandStep(p)
    PROVE  Addressed'
<1>. USE DEF TypeOK, Addressed, Goto, Keep, For, Sent
<1>1. ASSUME NEW r \in Request, List(p, r)
      PROVE  Addressed'
  BY <1>1 DEF List
<1>2. CASE TakeLock(p)
  <2>1. Pending(p) \subseteq listing[p]
    BY DEF Pending, Fresh
  <2>. QED
    BY <1>2, <2>1 DEF TakeLock, End
<1>3. CASE Fetch(p)
  BY <1>3 DEF Fetch, Skip
<1>4. CASE Duplicate(p)
  BY <1>4 DEF Duplicate
<1>5. ASSUME NEW answer \in Answer, Deliver(p, answer)
      PROVE  Addressed'
  <2>1. /\ UNCHANGED <<sent, request>>
        /\ pc' \in {[pc EXCEPT ![p] = there] : there \in {"next", "posted", "done"}}
        /\ \A q \in Command : listing'[q] \subseteq listing[q]
    BY <1>5 DEF Deliver, Skip, End
  <2>. QED
    BY <2>1
<1>6. CASE Record(p)
  BY <1>6 DEF Record
<1>7. CASE Remove(p)
  BY <1>7 DEF Remove, Skip
<1>8. CASE Finish(p)
  BY <1>8 DEF Finish, End
<1>9. CASE DiscardLoad(p)
  BY <1>9 DEF DiscardLoad, End
<1>10. CASE DiscardSave(p)
  BY <1>10 DEF DiscardSave
<1>11. CASE Drop(p)
  BY <1>11 DEF Drop, End
<1>12. CASE Kill(p)
  BY <1>12 DEF Kill, End
<1>. QED
  BY <1>1, <1>2, <1>3, <1>4, <1>5, <1>6, <1>7, <1>8, <1>9, <1>10, <1>11, <1>12
     DEF CommandStep

(* Nothing is lost by a step that leaves the backend alone, or that takes  *)
(* from it what was installed or discarded.                                *)
LEMMA StillKept ==
    ASSUME TypeOK, NothingLost, UNCHANGED sent,
           \A n \in Name : Sent(n) /\ n \in box \ box' =>
               /\ sent[n].to # All
               /\ sessions[sent[n].to][sent[n].bytes] > 0 \/ Discarded(sent[n].to, n),
           \A m \in Machine, b \in Bytes : sessions[m][b] > 0 => sessions'[m][b] > 0,
           \A m \in Machine, n \in Name : Discarded(m, n) => Discarded(m, n)'
    PROVE  NothingLost'
<1>. SUFFICES ASSUME NEW n \in Name, Sent(n), n \notin box'
              PROVE  /\ sent[n].to # All
                     /\ sessions'[sent[n].to][sent[n].bytes] > 0 \/ Discarded(sent[n].to, n)'
  BY DEF NothingLost, Sent
<1>1. /\ sent[n].to # All
      /\ sessions[sent[n].to][sent[n].bytes] > 0 \/ Discarded(sent[n].to, n)
  BY DEF NothingLost
<1>2. sent[n] \in Bundle
  BY DEF TypeOK, Sent
<1>3. sent[n].to \in Machine /\ sent[n].bytes \in Bytes
  BY <1>1, <1>2, MailboxAssumption DEF Bundle
<1>. QED
  BY <1>1, <1>3

(* Every step of a command loses no bundle.                                *)
LEMMA StepKept ==
    ASSUME TypeOK, Working, Truthful, Addressed, NothingLost, NEW p \in Command, CommandStep(p)
    PROVE  NothingLost'
<1>1. \A m \in Machine, n \in Name : Discarded(m, n) => Discarded(m, n)'
  <2>1. CASE UNCHANGED request
    BY <2>1 DEF Discarded
  <2>2. CASE \E r \in Request : List(p, r)
    BY <2>2 DEF List, Discarded, Addressed, TypeOK
  <2>3. UNCHANGED request \/ \E r \in Request : List(p, r)
    <3>1. ASSUME NEW answer \in Answer, Deliver(p, answer)
          PROVE  UNCHANGED request
      BY <3>1 DEF Deliver
    <3>. QED
      BY <3>1 DEF CommandStep, TakeLock, Fetch, Duplicate, Record, Remove, Finish, DiscardLoad,
                  DiscardSave, Drop, Kill
  <2>. QED
    BY <2>1, <2>2, <2>3
<1>2. \A m \in Machine, b \in Bytes : sessions[m][b] > 0 => sessions'[m][b] > 0
  <2>1. ASSUME NEW answer \in Answer, Deliver(p, answer)
        PROVE  \A m \in Machine, b \in Bytes : sessions[m][b] > 0 => sessions'[m][b] > 0
    BY <2>1 DEF Deliver, TypeOK
  <2>. QED
    BY <2>1 DEF CommandStep, List, TakeLock, Fetch, Duplicate, Record, Remove, Finish,
                DiscardLoad, DiscardSave, Drop, Kill
<1>3. UNCHANGED sent
  <2>1. ASSUME NEW answer \in Answer, Deliver(p, answer)
        PROVE  UNCHANGED sent
    BY <2>1 DEF Deliver
  <2>. QED
    BY <2>1 DEF CommandStep, List, TakeLock, Fetch, Duplicate, Record, Remove, Finish,
                DiscardLoad, DiscardSave, Drop, Kill
<1>4. CASE UNCHANGED box
  BY <1>1, <1>2, <1>3, <1>4, StillKept
<1>5. CASE Remove(p)
  <2>1. pc[p] = "remove" /\ Current(p) \in listing[p]
    BY <1>5, CurrentListed DEF Remove, Working
  <2>2. For(Host[p], Current(p)) /\ sent[Current(p)].bytes \in Holds(Host[p])
    BY <2>1 DEF Addressed, Truthful
  <2>3. \A n \in box \ box' : n = Current(p) /\ sent[n].to # All
    BY <1>5 DEF Remove, Take
  <2>. QED
    BY <1>1, <1>2, <1>3, <2>2, <2>3, StillKept DEF For, Holds
<1>6. CASE Drop(p)
  <2>1. request[p].act = "discard" /\ For(Host[p], request[p].name)
    BY <1>6 DEF Drop, Addressed
  <2>2. \A n \in box \ box' : n = request[p].name /\ sent[n].to # All
    BY <1>6 DEF Drop, Take
  <2>3. \A n \in box \ box' : Discarded(Host[p], n)
    BY <2>1, <2>2 DEF Discarded
  <2>. QED
    BY <1>1, <1>2, <1>3, <2>1, <2>2, <2>3, StillKept DEF For
<1>7. UNCHANGED box \/ Remove(p) \/ Drop(p)
  <2>1. ASSUME NEW answer \in Answer, Deliver(p, answer)
        PROVE  UNCHANGED box
    BY <2>1 DEF Deliver
  <2>. QED
    BY <2>1 DEF CommandStep, List, TakeLock, Fetch, Duplicate, Record, Finish,
                DiscardLoad, DiscardSave, Kill
<1>. QED
  BY <1>4, <1>5, <1>6, <1>7

-----------------------------------------------------------------------------
IInv == /\ TypeOK /\ Working /\ Excluded /\ Truthful
        /\ Counted /\ Addressed /\ NothingLost

(* The invariant holds before the first bundle.                            *)
LEMMA InitIInv == Init => IInv
<1>. SUFFICES ASSUME Init PROVE IInv
  OBVIOUS
<1>1. TypeOK /\ Working
  BY InitType
<1>2. Excluded /\ Truthful /\ Addressed /\ NothingLost
  BY MailboxAssumption
     DEF Init, Excluded, Locked, Truthful, Holds, Addressed, NothingLost, Sent, Empty
<1>3. InstalledOnce /\ Recorded /\ Unrecorded
  BY MailboxAssumption DEF Init, InstalledOnce, Recorded, Unrecorded
<1>. QED
  BY <1>1, <1>2, <1>3 DEF IInv, Counted

(* A bundle put on the backend disturbs nobody.                            *)
LEMMA SendIInv ==
    ASSUME IInv, NEW m \in Machine, NEW n \in Name, NEW b \in Bytes, NEW to \in Address,
           Send(m, n, b, to)
    PROVE  IInv'
<1>1. TypeOK' /\ Working'
  BY SendType DEF IInv
<1>2. /\ UNCHANGED <<state, sessions, lock, pc, request, listing, mem, excused>>
      /\ box' = box \cup {n}
      /\ \A o \in Name : Sent(o) => Sent(o)' /\ sent'[o] = sent[o]
      /\ \A o \in Name : Sent(o)' => Sent(o) \/ o = n
  BY DEF Send, IInv, TypeOK, Sent
<1>3. \A p \in Command : listing[p] # {} =>
         Current(p)' = Current(p) /\ sent'[Current(p)] = sent[Current(p)]
  BY <1>2, CurrentListed DEF IInv, Current
<1>4. Excluded'
  BY <1>2 DEF IInv, Excluded
<1>5. Truthful'
  BY <1>2, <1>3 DEF IInv, Truthful, Holds, Working
<1>6. Addressed'
  BY <1>2 DEF IInv, Addressed, For
<1>7. NothingLost'
  BY <1>2 DEF IInv, NothingLost, Discarded
<1>8. InstalledOnce'
  BY <1>2 DEF IInv, Counted, InstalledOnce
<1>9. \A o \in Machine, c \in Bytes : Posting(o, c) => Posting(o, c)'
  BY <1>2, <1>3 DEF IInv, Posting, Working
<1>10. Recorded'
  BY <1>2, <1>9 DEF IInv, Counted, Recorded
<1>11. Unrecorded'
  BY <1>2, <1>3 DEF IInv, Counted, Unrecorded, Known, Working
<1>. QED
  BY <1>1, <1>4, <1>5, <1>6, <1>7, <1>8, <1>10, <1>11 DEF IInv, Counted

(* The inductive invariant.                                                *)
THEOREM Invariance == Spec => []IInv
<1>1. IInv /\ [Next]_vars => IInv'
  <2>1. ASSUME IInv, NEW p \in Command, CommandStep(p)
        PROVE  IInv'
    BY <2>1, StepType, StepExcluded, StepTruthful, StepCounted, StepAddressed, StepKept
       DEF IInv
  <2>2. ASSUME IInv, UNCHANGED vars
        PROVE  IInv'
    BY <2>2 DEF IInv, vars, TypeOK, Sent, Working, Excluded, Truthful, Holds, Current, Counted,
                InstalledOnce, Recorded, Posting, Unrecorded, Known, Addressed, For,
                NothingLost, Discarded
  <2>. QED
    BY <2>1, <2>2, SendIInv, NextCases
<1>. QED
  BY <1>1, InitIInv, PTL DEF Spec

(* Whatever kills, lost answers and discards without the lock happen, on   *)
(* any number of machines, KiroCrew is given the same bytes again only as  *)
(* often as the machine could not know, was told to, or had its record     *)
(* overwritten.                                                            *)
THEOREM NeverInstalledTwice == Spec => []InstalledOnce
BY Invariance, PTL DEF IInv, Counted

(* No state file calls installed what KiroCrew was never given.            *)
THEOREM StateFilesTell == Spec => []RecordsAreTrue
<1>1. IInv => RecordsAreTrue
  BY DEF IInv, Truthful, Holds, RecordsAreTrue
<1>. QED
  BY <1>1, Invariance, PTL

(* No bundle for one machine disappears before it has been dealt with.     *)
THEOREM BundlesWait == Spec => []NothingLost
BY Invariance, PTL DEF IInv
=============================================================================
