--------------------------- MODULE SyncApp_proofs ---------------------------
(***************************************************************************)
(* SyncApp for any number of attempts and of other syncs.                  *)
(***************************************************************************)
EXTENDS SyncApp, SequenceTheorems, FiniteSetTheorems, TLAPS

(* The engine's lock holds every other engine off its logs.                *)
EngineHolds ==
    \A a \in Attempt : pc[a] = "engine" => lock = a /\ (log.by = a \/ a \in overtaken)

(* What an attempt will read, or has read, is its own, unless overtaken.   *)
OwnLogs ==
    \A a \in Attempt :
        /\ pc[a] \in Reading /\ Reached(result[a]) => log.by = a \/ a \in overtaken
        /\ pc[a] = "ingesting" => seen[a].by = a \/ a \in overtaken

(* An attempt has nothing to tell before it has ingested; a machine that   *)
(* was active is never unknown again; a quarantine is a duplicate only of  *)
(* one that was told.                                                      *)
TodoLate == \A a \in Attempt : pc[a] \notin {"stamping", "telling", "pushing"} => todo[a] = {}
KnownStays == \A a \in Attempt : known[a] => quarantine # "none"
SeenIsTold == dedup < Window => "quarantine" \in told

IInv == TypeOK /\ EngineHolds /\ OwnLogs /\ OwnRecords
        /\ TodoLate /\ KnownStays /\ SeenIsTold /\ Announced

(* The invariant holds before the first sync.                              *)
LEMMA InitIInv == Init => IInv
<1>. SUFFICES ASSUME Init PROVE IInv
  OBVIOUS
<1>1. TypeOK
  <2>1. NoLog \in Log
    BY DEF NoLog, Log, Conflict
  <2>2. /\ lock \in Whose /\ others \in Nat /\ lastId \in Nat
        /\ pc \in [Attempt -> Place] /\ result \in [Attempt -> Result]
        /\ known \in [Attempt -> BOOLEAN] /\ todo \in [Attempt -> SUBSET Item]
    BY DEF Init, Whose, Place, Result
  <2>3. dedup \in 0 .. Window
    BY AppAssumption DEF Init
  <2>4. runs \in Seq(Row)
    BY DEF Init
  <2>. QED
    BY <2>1, <2>2, <2>3, <2>4 DEF Init, TypeOK
<1>2. EngineHolds /\ OwnLogs /\ OwnRecords /\ TodoLate /\ KnownStays /\ SeenIsTold /\ Announced
  <2>1. Range(runs) = {}
    BY DEF Init, Range
  <2>2. SeenIsTold
    BY AppAssumption DEF Init, SeenIsTold
  <2>. QED
    BY <2>1, <2>2 DEF Init, EngineHolds, OwnLogs, OwnRecords, TodoLate, KnownStays,
                      Announced, Reading
<1>. QED
  BY <1>1, <1>2 DEF IInv

-----------------------------------------------------------------------------
(* The steps of one attempt.                                               *)
AttemptStep(a) ==
    \/ \E end \in Ends : EngineEnd(a, end)
    \/ Check(a) \/ Launch(a) \/ Timeout(a) \/ StrayWrites(a) \/ Record(a)
    \/ IngestRead(a) \/ IngestWrite(a) \/ Stamp(a)
    \/ Push(a) \/ Post(a) \/ Kill(a)

(* The steps of the others.                                                *)
WorldStep ==
    \/ OtherStart \/ Dismiss \/ Tick
    \/ \E end \in Ends : OtherEnd(end)
    \/ \E c \in conflicts : Resolve(c)

(* The steps of the app by who takes them.                                 *)
LEMMA NextCases == Next => WorldStep \/ \E a \in Attempt : AttemptStep(a)
BY DEF Next, WorldStep, AttemptStep

(* Emptying the logs keeps their type.                                     *)
LEMMA EmptiesType ==
    ASSUME TypeOK, NEW who \in Whose, Empties(who)
    PROVE  lock' \in Whose /\ log' \in Log /\ overtaken' \subseteq Attempt
<1>1. [NoLog EXCEPT !.by = who] \in Log
  BY DEF NoLog, Log, Conflict, Whose
<1>. QED
  BY <1>1 DEF TypeOK, Empties

(* A sync that leaves entries in the logs keeps their type.                *)
LEMMA LeavesType ==
    ASSUME TypeOK, NEW end \in Ends, Leaves(end)
    PROVE  lock' \in Whose /\ log' \in Log /\ log'.by = log.by
<1>1. end.conflict \in Conflict /\ end.quarantine \in BOOLEAN /\ end.result \in Result
  BY DEF Ends, Conflict, Result
<1>2. [log EXCEPT !.conflict = Worse(@, end.conflict), !.quarantine = end.quarantine] \in Log
  BY <1>1 DEF TypeOK, Log, Worse, Conflict
<1>. QED
  BY <1>2 DEF TypeOK, Leaves, Whose, Log

(* A process that dies keeps the type of what it held.                     *)
LEMMA ForgetType ==
    ASSUME TypeOK, NEW a \in Attempt, Forget(a)
    PROVE  /\ result' \in [Attempt -> Result] /\ seen' \in [Attempt -> Log]
           /\ known' \in [Attempt -> BOOLEAN]
<1>1. NoLog \in Log
  BY DEF NoLog, Log, Conflict
<1>. QED
  BY <1>1 DEF Forget, TypeOK, Result

(* An announcement keeps the type of what was told.                        *)
LEMMA TellsType ==
    ASSUME TypeOK, NEW a \in Attempt, NEW left \in SUBSET Item, Tells(a, left)
    PROVE  pc' \in [Attempt -> Place] /\ todo' \in [Attempt -> SUBSET Item]
BY DEF Tells, Goto, TypeOK, Place

(* A row is inserted somewhere among the others, which keep their order.   *)
LEMMA InsertedRows ==
    ASSUME runs \in Seq(Row), NEW row \in Row, NEW all \in Inserted(row)
    PROVE  /\ all \in Seq(Row) /\ Len(all) = Len(runs) + 1
           /\ Range(all) = Range(runs) \cup {row}
           /\ \E i \in 1 .. Len(all) :
                 /\ all[i] = row
                 /\ \A k \in 1 .. Len(all) : k < i => all[k] = runs[k]
                 /\ \A k \in 1 .. Len(all) : k > i => all[k] = runs[k - 1]
<1>1. PICK i \in 1 .. Len(runs) + 1 : all = InsertAt(runs, i, row)
  BY DEF Inserted
<1>. DEFINE before == SubSeq(runs, 1, i - 1)
            after == SubSeq(runs, i, Len(runs))
<1>2. all = (before \o <<row>>) \o after
  BY <1>1 DEF InsertAt
<1>3. Len(runs) \in Nat /\ i \in Int /\ i - 1 \in Int
  OBVIOUS
<1>4. /\ before \in Seq(Row) /\ Len(before) = i - 1
      /\ \A k \in 1 .. i - 1 : before[k] = runs[k]
  <2>1. \A k \in 1 .. i - 1 : runs[k] \in Row
    BY ElementOfSeq
  <2>. QED
    BY <2>1, <1>3, SubSeqProperties
<1>5. /\ after \in Seq(Row) /\ Len(after) = Len(runs) - i + 1
      /\ \A k \in 1 .. Len(runs) - i + 1 : after[k] = runs[i + k - 1]
  <2>1. \A k \in i .. Len(runs) : runs[k] \in Row
    BY ElementOfSeq
  <2>. QED
    BY <2>1, <1>3, SubSeqProperties
<1>. HIDE DEF before, after
<1>6. <<row>> \in Seq(Row) /\ Len(<<row>>) = 1 /\ <<row>>[1] = row
  OBVIOUS
<1>7. /\ before \o <<row>> \in Seq(Row) /\ Len(before \o <<row>>) = i
      /\ \A k \in 1 .. i : (before \o <<row>>)[k] = IF k <= i - 1 THEN before[k] ELSE row
  BY <1>4, <1>6, ConcatProperties
<1>8. /\ all \in Seq(Row) /\ Len(all) = Len(runs) + 1
      /\ \A k \in 1 .. Len(runs) + 1 :
            all[k] = IF k <= i THEN (before \o <<row>>)[k] ELSE after[k - i]
  BY <1>2, <1>3, <1>5, <1>7, ConcatProperties
<1>9. /\ all[i] = row
      /\ \A k \in 1 .. Len(all) : k < i => all[k] = runs[k]
      /\ \A k \in 1 .. Len(all) : k > i => all[k] = runs[k - 1]
  <2>1. all[i] = row
    BY <1>3, <1>7, <1>8
  <2>2. ASSUME NEW k \in 1 .. Len(all), k < i
        PROVE  all[k] = runs[k]
    <3>1. k \in 1 .. i - 1 /\ k <= i /\ k \in 1 .. i
      BY <2>2, <1>3, <1>8
    <3>. QED
      BY <3>1, <1>4, <1>7, <1>8
  <2>3. ASSUME NEW k \in 1 .. Len(all), k > i
        PROVE  all[k] = runs[k - 1]
    <3>1. k - i \in 1 .. Len(runs) - i + 1 /\ ~ (k <= i) /\ i + (k - i) - 1 = k - 1
      BY <2>3, <1>3, <1>8
    <3>. QED
      BY <3>1, <1>5, <1>8
  <2>. QED
    BY <2>1, <2>2, <2>3
<1>10. Range(all) = Range(runs) \cup {row}
  <2>1. Range(all) = {all[k] : k \in 1 .. Len(runs) + 1} /\ Range(runs) = {runs[k] : k \in 1 .. Len(runs)}
    BY <1>8, RangeEquality
  <2>2. ASSUME NEW k \in 1 .. Len(runs)
        PROVE  \E l \in 1 .. Len(runs) + 1 : all[l] = runs[k]
    <3>1. CASE k < i
      <4>1. k \in 1 .. Len(runs) + 1 /\ k \in 1 .. Len(all)
        BY <1>3, <1>8
      <4>2. all[k] = runs[k]
        BY <3>1, <4>1, <1>9
      <4>. QED
        BY <4>1, <4>2
    <3>2. CASE k >= i
      <4>1. /\ k + 1 \in 1 .. Len(runs) + 1 /\ k + 1 \in 1 .. Len(all)
            /\ k + 1 > i /\ k + 1 - 1 = k
        BY <3>2, <1>3, <1>8
      <4>2. all[k + 1] = runs[k]
        BY <4>1, <1>9
      <4>. QED
        BY <4>1, <4>2
    <3>. QED
      BY <3>1, <3>2, <1>3
  <2>3. ASSUME NEW k \in 1 .. Len(runs) + 1
        PROVE  all[k] = row \/ \E l \in 1 .. Len(runs) : all[k] = runs[l]
    <3>1. CASE k > i
      <4>1. k - 1 \in 1 .. Len(runs)
        BY <3>1, <1>3
      <4>. QED
        BY <3>1, <4>1, <1>8, <1>9
    <3>2. CASE k < i
      BY <3>2, <1>3, <1>8, <1>9
    <3>3. CASE k = i
      BY <3>3, <1>9
    <3>. QED
      BY <3>1, <3>2, <3>3, <1>3
  <2>. QED
    <3>1. row \in Range(all)
      BY <2>1, <1>9
    <3>2. Range(all) \subseteq Range(runs) \cup {row}
      BY <2>1, <2>3
    <3>3. Range(runs) \subseteq Range(all)
      BY <2>1, <2>2
    <3>. QED
      BY <3>1, <3>2, <3>3
<1>. QED
  BY <1>8, <1>9, <1>10

(* A cleanup keeps the latest KeepCount, in their order.                   *)
LEMMA TrimmedRows ==
    ASSUME NEW old \in Seq(Row)
    PROVE  LET new == SubSeq(old, Excess(old) + 1, Len(old))
           IN  /\ Excess(old) \in Nat /\ Excess(old) <= Len(old)
               /\ new \in Seq(Row) /\ Len(new) = Len(old) - Excess(old)
               /\ \A k \in 1 .. Len(new) : new[k] = old[k + Excess(old)]
               /\ Range(new) \subseteq Range(old)
<1>. DEFINE e == Excess(old)
            new == SubSeq(old, e + 1, Len(old))
<1>1. e \in Nat /\ e <= Len(old) /\ Len(old) \in Nat
  BY AppAssumption DEF Excess
<1>. HIDE DEF e
<1>2. \A k \in e + 1 .. Len(old) : old[k] \in Row
  BY <1>1, ElementOfSeq
<1>3. /\ new \in Seq(Row)
      /\ Len(new) = IF e + 1 <= Len(old) THEN Len(old) - (e + 1) + 1 ELSE 0
      /\ \A k \in 1 .. Len(old) - (e + 1) + 1 : new[k] = old[e + 1 + k - 1]
  BY <1>1, <1>2, SubSeqProperties
<1>. HIDE DEF new
<1>4. Len(new) = Len(old) - e /\ \A k \in 1 .. Len(new) : new[k] = old[k + e]
  BY <1>1, <1>3
<1>5. Range(new) \subseteq Range(old)
  <2>1. Range(new) = {new[k] : k \in 1 .. Len(new)} /\ Range(old) = {old[k] : k \in 1 .. Len(old)}
    BY <1>3, RangeEquality
  <2>2. \A k \in 1 .. Len(new) : k + e \in 1 .. Len(old)
    BY <1>1, <1>4
  <2>. QED
    BY <2>1, <2>2, <1>4
<1>. QED
  BY <1>1, <1>3, <1>4, <1>5 DEF new, e

(* What is left after a cleanup, which may fail.                           *)
LEMMA CleanedRows ==
    ASSUME NEW old \in Seq(Row), NEW rows, Cleanup(old, rows)
    PROVE  runs' \in Seq(Row) /\ Range(runs') \subseteq Range(old) /\ conflicts' \subseteq rows
BY TrimmedRows DEF Cleanup, Trim

(* A row that says where its changes and its counts are from.              *)
LEMMA NewRowType ==
    ASSUME TypeOK, NEW a \in Attempt, NEW changes \in Whose, NEW counted \in Whose
    PROVE  NewRow(a, changes, counted) \in Row
BY DEF NewRow, Row, TypeOK

(* What others do, and what the user does in the app, keeps the type.      *)
LEMMA WorldType ==
    ASSUME TypeOK, WorldStep
    PROVE  TypeOK'
<1>1. CASE OtherStart
  <2>1. Empties("other") /\ "other" \in Whose
    BY <1>1 DEF OtherStart, Whose
  <2>2. lock' \in Whose /\ log' \in Log /\ overtaken' \subseteq Attempt
    BY <2>1, EmptiesType
  <2>3. others' \in Nat
    BY <1>1 DEF OtherStart, TypeOK
  <2>. QED
    BY <1>1, <2>2, <2>3 DEF TypeOK, OtherStart, readVars, dbVars
<1>2. ASSUME NEW end \in Ends, OtherEnd(end)
      PROVE  TypeOK'
  <2>1. lock' \in Whose /\ log' \in Log
    BY <1>2, LeavesType DEF OtherEnd
  <2>. QED
    BY <1>2, <2>1 DEF TypeOK, OtherEnd, readVars, dbVars, historyVars
<1>3. CASE Dismiss
  BY <1>3 DEF TypeOK, Dismiss, engineVars, readVars, historyVars
<1>4. CASE Tick
  <2>1. dedup' \in 0 .. Window
    BY <1>4, AppAssumption DEF TypeOK, Tick
  <2>. QED
    BY <1>4, <2>1 DEF TypeOK, Tick, engineVars, readVars, dbVars, historyVars
<1>5. ASSUME NEW c \in conflicts, Resolve(c)
      PROVE  TypeOK'
  BY <1>5 DEF TypeOK, Resolve, engineVars, readVars, historyVars
<1>. QED
  BY <1>1, <1>2, <1>3, <1>4, <1>5 DEF WorldStep

(* Every step of an attempt keeps the type.                                *)
LEMMA AttemptType ==
    ASSUME TypeOK, NEW a \in Attempt, AttemptStep(a)
    PROVE  TypeOK'
<1>1. ASSUME NEW end \in Ends, EngineEnd(a, end)
      PROVE  TypeOK'
  <2>1. lock' \in Whose /\ log' \in Log /\ end.result \in Result
    BY <1>1, LeavesType DEF EngineEnd, Ends, Result
  <2>. QED
    BY <1>1, <2>1 DEF TypeOK, EngineEnd, Goto, Place, readVars, dbVars, historyVars
<1>2. CASE Check(a)
  BY <1>2 DEF TypeOK, Check, Goto, Place, engineVars, readVars, dbVars, historyVars
<1>3. CASE Launch(a)
  <2>1. CASE lock = Nobody
    <3>1. lock' \in Whose /\ log' \in Log /\ overtaken' \subseteq Attempt
      BY <1>3, <2>1, EmptiesType DEF Launch, Whose
    <3>. QED
      BY <1>3, <2>1, <3>1 DEF TypeOK, Launch, Goto, Place, dbVars
  <2>2. CASE lock # Nobody
    BY <1>3, <2>2 DEF TypeOK, Launch, Goto, Place, dbVars, Result
  <2>. QED
    BY <2>1, <2>2
<1>4. CASE Timeout(a)
  <2>1. lock' \in Whose /\ log' \in Log
    BY <1>4, LeavesType DEF Timeout
  <2>2. CASE UNCHANGED <<runs, lastId, conflicts>>
    BY <1>4, <2>1, <2>2 DEF TypeOK, Timeout, Goto, Place, readVars, historyVars
  <2>3. ASSUME lastId' = lastId + 1,
               NEW all \in Inserted(NewRow(a, Nobody, Nobody)), Cleanup(all, conflicts)
        PROVE  TypeOK'
    <3>1. NewRow(a, Nobody, Nobody) \in Row
      BY NewRowType DEF Whose
    <3>2. all \in Seq(Row)
      BY <3>1, InsertedRows DEF TypeOK
    <3>3. runs' \in Seq(Row) /\ conflicts' \subseteq conflicts
      BY <2>3, <3>2, CleanedRows
    <3>. QED
      BY <1>4, <2>1, <2>3, <3>3 DEF TypeOK, Timeout, Goto, Place, readVars, historyVars
  <2>. QED
    BY <1>4, <2>2, <2>3 DEF Timeout
<1>5. CASE Record(a)
  <2>1. CASE Forget(a) /\ Goto(a, "done") /\ UNCHANGED <<lastId, runs>>
    <3>1. /\ result' \in [Attempt -> Result] /\ seen' \in [Attempt -> Log]
          /\ known' \in [Attempt -> BOOLEAN]
      BY <2>1, ForgetType
    <3>. QED
      BY <1>5, <2>1, <3>1 DEF TypeOK, Record, Goto, Place, engineVars, historyVars
  <2>2. CASE /\ lastId' = lastId + 1
             /\ runs' \in Inserted(NewRow(a, Derived(a), log.by))
             /\ Goto(a, "recorded")
             /\ UNCHANGED readVars
    <3>1. Derived(a) \in Whose /\ log.by \in Whose
      BY DEF Derived, TypeOK, Log, Whose
    <3>2. runs' \in Seq(Row)
      BY <2>2, <3>1, NewRowType, InsertedRows DEF TypeOK
    <3>. QED
      BY <1>5, <2>2, <3>2
         DEF TypeOK, Record, Goto, Place, engineVars, readVars, historyVars
  <2>. QED
    BY <1>5, <2>1, <2>2 DEF Record
<1>6. CASE IngestRead(a)
  <2>1. Failed(a) \in SUBSET Item
    BY DEF Failed, Item
  <2>2. pc' \in [Attempt -> Place] /\ todo' \in [Attempt -> SUBSET Item]
    BY <1>6, <2>1 DEF TypeOK, IngestRead, Goto, Place
  <2>3. seen' \in [Attempt -> Log] /\ known' \in [Attempt -> BOOLEAN]
    BY <1>6 DEF TypeOK, IngestRead
  <2>. QED
    BY <1>6, <2>2, <2>3 DEF TypeOK, IngestRead, engineVars, dbVars, historyVars
<1>7. CASE IngestWrite(a)
  <2>1. /\ result' \in [Attempt -> Result] /\ seen' \in [Attempt -> Log]
        /\ known' \in [Attempt -> BOOLEAN]
    BY <1>7, ForgetType DEF IngestWrite
  <2>2. Failed(a) \cup News(a) \in SUBSET Item /\ Failed(a) \in SUBSET Item
    BY DEF Failed, News, Item
  <2>3. todo' \in [Attempt -> SUBSET Item]
    BY <1>7, <2>2 DEF IngestWrite, TypeOK
  <2>4. quarantine' \in {"none", "active", "cleared"} /\ muted' \in BOOLEAN
    <3>1. Relisted(seen[a].quarantine) \in {"none", "active", "cleared"}
      BY DEF Relisted, TypeOK
    <3>. QED
      BY <1>7, <3>1 DEF IngestWrite, TypeOK
  <2>5. conflicts' \subseteq [run : Nat, by : Whose, for : Attempt, open : BOOLEAN]
    <3>1. CASE seen[a].conflict = "none" \/ ~ HasRun(a)
      BY <1>7, <3>1 DEF IngestWrite, TypeOK
    <3>2. CASE HasRun(a)
      <4>1. RunOf(a) \in Row
        <5>1. RunOf(a) \in Range(runs)
          BY <3>2 DEF HasRun, RunOf
        <5>. QED
          BY <5>1, RangeOfSeq DEF TypeOK
      <4>2. [run |-> RunOf(a).id, by |-> seen[a].by, for |-> a, open |-> seen[a].conflict = "open"]
              \in [run : Nat, by : Whose, for : Attempt, open : BOOLEAN]
        BY <4>1 DEF TypeOK, Row, Log, Whose
      <4>. QED
        BY <1>7, <4>2 DEF IngestWrite, TypeOK
    <3>. QED
      BY <3>1, <3>2
  <2>. QED
    BY <1>7, <2>1, <2>3, <2>4, <2>5
       DEF TypeOK, IngestWrite, Goto, Place, engineVars
<1>8. CASE Stamp(a)
  <2>1. pc' \in [Attempt -> Place] /\ todo' \in [Attempt -> SUBSET Item]
    BY <1>8, TellsType DEF Stamp, TypeOK
  <2>2. runs' \in Seq(Row) /\ conflicts' \subseteq conflicts /\ muted' \in BOOLEAN
    BY <1>8, CleanedRows DEF Stamp, TypeOK
  <2>. QED
    BY <1>8, <2>1, <2>2 DEF TypeOK, Stamp, engineVars, readVars
<1>9. CASE Push(a)
  <2>1. pc' \in [Attempt -> Place] /\ todo' \in [Attempt -> SUBSET Item]
    <3>1. todo[a] \ {First(a)} \in SUBSET Item
      BY DEF TypeOK
    <3>. QED
      BY <1>9, <3>1, TellsType DEF Push, TypeOK, Goto, Place
  <2>. QED
    BY <1>9, <2>1 DEF TypeOK, Push, engineVars, readVars, dbVars
<1>10. CASE Post(a)
  <2>1. pc' \in [Attempt -> Place] /\ todo' \in [Attempt -> SUBSET Item]
    <3>1. todo[a] \ {First(a)} \in SUBSET Item
      BY DEF TypeOK
    <3>. QED
      BY <1>10, <3>1, TellsType DEF Post
  <2>2. dedup' \in 0 .. Window
    BY <1>10, AppAssumption DEF Post, TypeOK
  <2>3. told' \subseteq {"quarantine"} \cup Attempt /\ muted' \in BOOLEAN
    BY <1>10 DEF Post, TypeOK
  <2>. QED
    BY <1>10, <2>1, <2>2, <2>3 DEF TypeOK, Post, engineVars, readVars, dbVars
<1>11. CASE Kill(a)
  <2>1. /\ result' \in [Attempt -> Result] /\ seen' \in [Attempt -> Log]
        /\ known' \in [Attempt -> BOOLEAN]
    BY <1>11, ForgetType DEF Kill
  <2>2. pc' \in [Attempt -> Place] /\ todo' \in [Attempt -> SUBSET Item]
    BY <1>11, TellsType DEF Kill
  <2>3. lock' \in Whose /\ muted' \in BOOLEAN
    BY <1>11 DEF Kill, TypeOK, Whose
  <2>. QED
    BY <1>11, <2>1, <2>2, <2>3 DEF TypeOK, Kill, dbVars
<1>12. CASE StrayWrites(a)
  <2>1. log' \in Log
    BY <1>12 DEF StrayWrites, TypeOK, Log, Worse, Conflict
  <2>. QED
    BY <1>12, <2>1 DEF TypeOK, StrayWrites, readVars, dbVars
<1>. QED
  BY <1>1, <1>2, <1>3, <1>4, <1>5, <1>6, <1>7, <1>8, <1>9, <1>10, <1>11, <1>12 DEF AttemptStep

-----------------------------------------------------------------------------
(* Whose logs are read and recorded.                                       *)
Owned == EngineHolds /\ OwnLogs /\ OwnRecords

(* What others do leaves every attempt with its own logs.                  *)
LEMMA WorldOwned ==
    ASSUME TypeOK, Owned, WorldStep
    PROVE  Owned'
<1>. USE AppAssumption DEF Owned, EngineHolds, OwnLogs, OwnRecords
<1>1. CASE OtherStart
  BY <1>1 DEF OtherStart, Empties, readVars, dbVars
<1>2. ASSUME NEW end \in Ends, OtherEnd(end)
      PROVE  Owned'
  <2>1. log'.by = log.by /\ lock = "other"
    BY <1>2, LeavesType DEF OtherEnd
  <2>. QED
    BY <1>2, <2>1 DEF OtherEnd, readVars, dbVars, historyVars
<1>3. CASE Dismiss
  BY <1>3 DEF Dismiss, engineVars, readVars, historyVars
<1>4. CASE Tick
  BY <1>4 DEF Tick, engineVars, readVars, dbVars, historyVars
<1>5. ASSUME NEW c \in conflicts, Resolve(c)
      PROVE  Owned'
  BY <1>5 DEF TypeOK, Resolve, engineVars, readVars, historyVars
<1>. QED
  BY <1>1, <1>2, <1>3, <1>4, <1>5 DEF WorldStep

(* A step of an attempt that leaves the engine and the records alone.      *)
LEMMA QuietOwned ==
    ASSUME TypeOK, Owned, NEW a \in Attempt, UNCHANGED <<lock, log, overtaken>>,
           Range(runs') \subseteq Range(runs), conflicts' \subseteq conflicts,
           pc'[a] \notin Reading \cup {"engine", "ingesting"},
           \A b \in Attempt \ {a} : pc'[b] = pc[b] /\ result'[b] = result[b] /\ seen'[b] = seen[b]
    PROVE  Owned'
BY DEF Owned, EngineHolds, OwnLogs, OwnRecords, Reading

(* An attempt reads its own logs and leaves the other attempts theirs.     *)
LEMMA AttemptOwned ==
    ASSUME TypeOK, Owned, NEW a \in Attempt, AttemptStep(a)
    PROVE  Owned'
<1>. USE DEF TypeOK, Goto
<1>1. ASSUME NEW end \in Ends, EngineEnd(a, end)
      PROVE  Owned'
  <2>1. log'.by = log.by
    BY <1>1, LeavesType DEF EngineEnd
  <2>. QED
    BY <1>1, <2>1, AppAssumption
       DEF Owned, EngineHolds, OwnLogs, OwnRecords, EngineEnd, Leaves, Reading, dbVars, historyVars
<1>2. CASE Check(a)
  BY <1>2, QuietOwned DEF Check, Reading, engineVars, readVars, dbVars, historyVars
<1>3. CASE Launch(a)
  <2>1. CASE lock = Nobody
    <3>1. /\ log'.by = a /\ lock' = a /\ pc' = [pc EXCEPT ![a] = "engine"]
          /\ overtaken' = overtaken \cup {b \in Attempt : pc[b] \in Reading}
          /\ UNCHANGED <<result, seen, runs, conflicts>>
      BY <1>3, <2>1 DEF Launch, Empties, NoLog, dbVars
    <3>2. \A b \in Attempt : pc[b] # "engine"
      BY <2>1, AppAssumption DEF Owned, EngineHolds
    <3>. QED
      BY <3>1, <3>2 DEF Owned, EngineHolds, OwnLogs, OwnRecords, Reading
  <2>2. CASE lock # Nobody
    BY <1>3, <2>2
       DEF Launch, Owned, EngineHolds, OwnLogs, OwnRecords, Reading, Reached, dbVars
  <2>. QED
    BY <2>1, <2>2
<1>4. CASE Timeout(a)
  <2>1. log'.by = log.by /\ lock' = Nobody
    BY <1>4, LeavesType DEF Timeout, Leaves
  <2>2. /\ \A r \in Range(runs') : r \in Range(runs) \/ (r.changes = Nobody /\ r.counted = Nobody)
        /\ conflicts' \subseteq conflicts
    <3>1. ASSUME NEW all \in Inserted(NewRow(a, Nobody, Nobody)), Cleanup(all, conflicts)
          PROVE  /\ Range(runs') \subseteq Range(runs) \cup {NewRow(a, Nobody, Nobody)}
                 /\ conflicts' \subseteq conflicts
      <4>1. NewRow(a, Nobody, Nobody) \in Row
        BY NewRowType DEF Whose
      <4>2. all \in Seq(Row) /\ Range(all) = Range(runs) \cup {NewRow(a, Nobody, Nobody)}
        BY <4>1, InsertedRows
      <4>. QED
        BY <3>1, <4>2, CleanedRows
    <3>2. NewRow(a, Nobody, Nobody).changes = Nobody /\ NewRow(a, Nobody, Nobody).counted = Nobody
      BY DEF NewRow
    <3>. QED
      BY <1>4, <3>1, <3>2 DEF Timeout
  <2>3. \A b \in Attempt \ {a} : pc[b] # "engine"
    BY <1>4 DEF Timeout, Owned, EngineHolds
  <2>4. pc' = [pc EXCEPT ![a] = "done"] /\ UNCHANGED <<result, seen, overtaken>>
    BY <1>4 DEF Timeout, readVars, historyVars
  <2>. QED
    BY <2>1, <2>2, <2>3, <2>4 DEF Owned, EngineHolds, OwnLogs, OwnRecords, Reading
<1>5. CASE Record(a)
  <2>1. CASE Forget(a) /\ Goto(a, "done") /\ UNCHANGED <<lastId, runs>>
    BY <1>5, <2>1, QuietOwned DEF Record, Forget, Reading, engineVars, historyVars
  <2>2. CASE /\ lastId' = lastId + 1
             /\ runs' \in Inserted(NewRow(a, Derived(a), log.by))
             /\ Goto(a, "recorded")
             /\ UNCHANGED readVars
    <3>. DEFINE row == NewRow(a, Derived(a), log.by)
    <3>1. Derived(a) \in Whose /\ log.by \in Whose
      BY DEF Derived, Log, Whose
    <3>2. row \in Row /\ row.by = a /\ row.changes = Derived(a) /\ row.counted = log.by
      BY <3>1, NewRowType DEF NewRow
    <3>3. Range(runs') = Range(runs) \cup {row}
      BY <2>2, <3>2, InsertedRows
    <3>4. /\ Derived(a) \in {a, Nobody} \/ a \in overtaken
          /\ log.by = a \/ a \in overtaken \/ Derived(a) = Nobody
      BY <1>5 DEF Record, Derived, Owned, OwnLogs, Reading
    <3>. HIDE DEF row
    <3>5. OwnRecords'
      BY <1>5, <3>2, <3>3, <3>4 DEF Record, Owned, OwnRecords, historyVars
    <3>. QED
      BY <1>5, <2>2, <3>5
         DEF Record, Owned, EngineHolds, OwnLogs, Reading, engineVars, readVars, historyVars
  <2>. QED
    BY <1>5, <2>1, <2>2 DEF Record
<1>6. CASE IngestRead(a)
  BY <1>6 DEF IngestRead, Owned, EngineHolds, OwnLogs, OwnRecords, Reading, engineVars, dbVars,
              historyVars
<1>7. CASE IngestWrite(a)
  <2>1. \A c \in conflicts' : c \in conflicts \/ (c.by = seen[a].by /\ c.for = a)
    BY <1>7 DEF IngestWrite
  <2>2. /\ pc' = [pc EXCEPT ![a] = "stamping"] /\ pc[a] = "ingesting"
        /\ UNCHANGED <<lock, log, overtaken, runs>>
        /\ \A b \in Attempt \ {a} : result'[b] = result[b] /\ seen'[b] = seen[b]
    BY <1>7 DEF IngestWrite, Forget, engineVars
  <2>. QED
    BY <2>1, <2>2 DEF Owned, EngineHolds, OwnLogs, OwnRecords, Reading
<1>8. CASE Stamp(a)
  <2>1. /\ Range(runs') \subseteq Range(runs) /\ conflicts' \subseteq conflicts
        /\ pc'[a] \in {"done", "telling"} /\ \A b \in Attempt \ {a} : pc'[b] = pc[b]
    BY <1>8, CleanedRows DEF Stamp, Tells
  <2>. QED
    BY <1>8, <2>1, QuietOwned DEF Stamp, Reading, engineVars, readVars
<1>9. CASE Push(a)
  BY <1>9, QuietOwned DEF Push, Tells, Reading, engineVars, readVars, dbVars
<1>10. CASE Post(a)
  BY <1>10, QuietOwned DEF Post, Tells, Reading, engineVars, readVars, dbVars
<1>11. CASE Kill(a)
  <2>1. /\ pc' = [pc EXCEPT ![a] = "done"]
        /\ lock' = lock \/ lock = a
        /\ \A b \in Attempt \ {a} : result'[b] = result[b] /\ seen'[b] = seen[b]
        /\ UNCHANGED <<log, overtaken, runs, conflicts>>
    BY <1>11 DEF Kill, Tells, Forget, dbVars
  <2>. QED
    BY <2>1 DEF Owned, EngineHolds, OwnLogs, OwnRecords, Reading
<1>12. CASE StrayWrites(a)
  BY <1>12 DEF StrayWrites, Owned, EngineHolds, OwnLogs, OwnRecords, Reading, readVars, dbVars
<1>. QED
  BY <1>1, <1>2, <1>3, <1>4, <1>5, <1>6, <1>7, <1>8, <1>9, <1>10, <1>11, <1>12 DEF AttemptStep

-----------------------------------------------------------------------------
(* What is told.                                                           *)
Told == TodoLate /\ KnownStays /\ SeenIsTold /\ Announced

ToTell(k) == \E a \in Attempt : k \in todo[a]

(* A step that loses nothing it has to tell, and lists nothing new.        *)
LEMMA StillAnnounced ==
    ASSUME TypeOK, Announced, UNCHANGED muted,
           quarantine' = "active" => quarantine = "active" \/ "quarantine" \in told' \/ ToTell("quarantine")',
           \A c \in conflicts' : c.open =>
               c \in conflicts \/ c.for \in told' \/ "conflict" \in todo'[c.for],
           told \subseteq told',
           \A a \in Attempt : "quarantine" \in todo[a] => "quarantine" \in todo'[a] \cup told',
           \A a \in Attempt : "conflict" \in todo[a] => "conflict" \in todo'[a] \/ a \in told'
    PROVE  Announced'
<1>. SUFFICES ASSUME ~ muted
              PROVE  Announced'
  BY DEF Announced
<1>1. quarantine' = "active" => "quarantine" \in told' \/ ToTell("quarantine")'
  BY DEF Announced, ToTell
<1>2. \A c \in conflicts' : c.open => c.for \in told' \/ "conflict" \in todo'[c.for]
  BY DEF Announced, TypeOK
<1>. QED
  BY <1>1, <1>2 DEF Announced, ToTell

(* What others do announces nothing that was not ingested.                 *)
LEMMA WorldTold ==
    ASSUME TypeOK, Told, WorldStep
    PROVE  Told'
<1>. USE DEF Told, TodoLate, KnownStays, SeenIsTold
<1>1. CASE OtherStart
  BY <1>1 DEF OtherStart, Announced, readVars, dbVars
<1>2. ASSUME NEW end \in Ends, OtherEnd(end)
      PROVE  Told'
  BY <1>2 DEF OtherEnd, Announced, readVars, dbVars, historyVars
<1>3. CASE Dismiss
  BY <1>3 DEF Dismiss, Announced, engineVars, readVars, historyVars
<1>4. CASE Tick
  BY <1>4 DEF Tick, Announced, engineVars, readVars, dbVars, historyVars
<1>5. ASSUME NEW c \in conflicts, Resolve(c)
      PROVE  Told'
  <2>1. \A d \in conflicts' : d.open => d \in conflicts
    BY <1>5 DEF Resolve, TypeOK
  <2>. QED
    BY <1>5, <2>1 DEF Resolve, Announced, engineVars, readVars, historyVars
<1>. QED
  BY <1>1, <1>2, <1>3, <1>4, <1>5 DEF WorldStep

(* A step of an attempt that has nothing to tell yet, or goes on to tell.  *)
LEMMA QuietTold ==
    ASSUME TypeOK, Told, NEW a \in Attempt, UNCHANGED <<quarantine, dedup, told, muted>>,
           conflicts' \subseteq conflicts,
           \A b \in Attempt \ {a} : pc'[b] = pc[b] /\ todo'[b] = todo[b] /\ known'[b] = known[b],
           todo[a] \subseteq todo'[a],
           pc'[a] \notin {"stamping", "telling", "pushing"} => todo'[a] = {},
           known'[a] => quarantine # "none"
    PROVE  Told'
<1>1. \A b \in Attempt : todo[b] \subseteq todo'[b]
  OBVIOUS
<1>2. Announced'
  BY <1>1, StillAnnounced DEF Told
<1>3. TodoLate' /\ KnownStays' /\ SeenIsTold'
  BY DEF Told, TodoLate, KnownStays, SeenIsTold
<1>. QED
  BY <1>2, <1>3 DEF Told

(* An attempt announces what it ingested, once.                            *)
LEMMA AttemptTold ==
    ASSUME TypeOK, Told, NEW a \in Attempt, AttemptStep(a)
    PROVE  Told'
<1>. USE DEF TypeOK, Goto
<1>0. pc[a] \notin {"stamping", "telling", "pushing"} => todo[a] = {}
  BY DEF Told, TodoLate
<1>k. \A b \in Attempt : known[b] => quarantine # "none"
  BY DEF Told, KnownStays
<1>1. ASSUME NEW end \in Ends, EngineEnd(a, end)
      PROVE  Told'
  BY <1>0, <1>1, <1>k, QuietTold DEF EngineEnd, dbVars, historyVars
<1>2. CASE Check(a)
  BY <1>0, <1>2, <1>k, QuietTold DEF Check, readVars, dbVars, historyVars
<1>3. CASE Launch(a)
  <2>1. pc'[a] \in {"engine", "ended"} /\ \A b \in Attempt \ {a} : pc'[b] = pc[b]
    BY <1>3 DEF Launch
  <2>. QED
    BY <1>0, <1>3, <1>k, <2>1, QuietTold DEF Launch, dbVars
<1>4. CASE Timeout(a)
  <2>1. conflicts' \subseteq conflicts
    BY <1>4 DEF Timeout, Cleanup, Trim
  <2>. QED
    BY <1>0, <1>4, <1>k, <2>1, QuietTold DEF Timeout, readVars, historyVars
<1>5. CASE Record(a)
  <2>1. /\ pc'[a] \in {"recorded", "done"} /\ (known'[a] => known[a])
        /\ \A b \in Attempt \ {a} : pc'[b] = pc[b] /\ known'[b] = known[b]
    BY <1>5 DEF Record, Forget, readVars
  <2>. QED
    BY <1>0, <1>5, <1>k, <2>1, QuietTold DEF Record, historyVars
<1>6. CASE IngestRead(a)
  <2>1. /\ known'[a] => quarantine # "none"
        /\ pc'[a] \in {"ingesting", "stamping"}
        /\ pc'[a] = "ingesting" => UNCHANGED todo
        /\ \A b \in Attempt \ {a} :
              pc'[b] = pc[b] /\ todo'[b] = todo[b] /\ known'[b] = known[b]
    BY <1>6, <1>k DEF IngestRead
  <2>2. todo[a] = {}
    BY <1>0, <1>6 DEF IngestRead
  <2>. QED
    BY <1>6, <2>1, <2>2, QuietTold DEF IngestRead, dbVars, historyVars
<1>8. CASE Stamp(a)
  <2>1. CASE Cleanup(runs, conflicts) /\ Tells(a, todo[a]) /\ UNCHANGED muted
    <3>1. conflicts' \subseteq conflicts
      BY <2>1 DEF Cleanup, Trim
    <3>. QED
      BY <1>8, <1>k, <2>1, <3>1, QuietTold DEF Stamp, Tells, readVars
  <2>2. CASE Tells(a, {}) /\ muted' = (muted \/ todo[a] # {}) /\ UNCHANGED conflicts
    <3>1. CASE todo[a] = {}
      BY <1>8, <1>k, <2>2, <3>1, QuietTold DEF Stamp, Tells, readVars
    <3>2. CASE todo[a] # {}
      BY <1>8, <2>2, <3>2
         DEF Stamp, Tells, Told, TodoLate, KnownStays, SeenIsTold, Announced, readVars
    <3>. QED
      BY <3>1, <3>2
  <2>. QED
    BY <1>8, <2>1, <2>2 DEF Stamp
<1>7. CASE IngestWrite(a)
  <2>. DEFINE file == seen[a]
  <2>1. /\ pc[a] = "ingesting" /\ pc' = [pc EXCEPT ![a] = "stamping"]
        /\ known' = [known EXCEPT ![a] = FALSE]
        /\ UNCHANGED <<dedup, told>>
    BY <1>7 DEF IngestWrite, Forget
  <2>2. todo[a] = {}
    BY <1>0, <2>1
  <2>3. \A c \in conflicts' : c \in conflicts \/ (c.for = a /\ c.open = (file.conflict = "open"))
    BY <1>7 DEF IngestWrite
  <2>4. TodoLate' /\ SeenIsTold'
    <3>1. \A b \in Attempt \ {a} : todo'[b] = todo[b]
      BY <1>7 DEF IngestWrite
    <3>. QED
      BY <2>1, <3>1 DEF Told, TodoLate, SeenIsTold
  <2>5. CASE /\ quarantine' = Relisted(file.quarantine)
             /\ todo' = [todo EXCEPT ![a] = Failed(a) \cup News(a)]
             /\ UNCHANGED muted
    <3>1. KnownStays'
      BY <1>k, <2>1, <2>5 DEF KnownStays, Relisted
    <3>2. News(a) \subseteq todo'[a] /\ \A b \in Attempt \ {a} : todo'[b] = todo[b]
      BY <2>5
    <3>3. quarantine' = "active" => quarantine = "active" \/ "quarantine" \in todo'[a]
      BY <1>k, <2>5, <3>2 DEF Relisted, News
    <3>4. \A c \in conflicts' : c.open =>
             c \in conflicts \/ c.for \in told' \/ "conflict" \in todo'[c.for]
      BY <2>3, <3>2 DEF News
    <3>5. \A b \in Attempt : todo[b] \subseteq todo'[b]
      BY <2>2, <3>2
    <3>6. Announced'
      BY <2>1, <2>5, <3>3, <3>4, <3>5, StillAnnounced DEF Told, ToTell
    <3>. QED
      BY <2>4, <3>1, <3>6 DEF Told
  <2>6. CASE /\ UNCHANGED quarantine
             /\ todo' = [todo EXCEPT ![a] = Failed(a)]
             /\ muted' = (muted \/ News(a) # {})
    <3>1. KnownStays'
      BY <1>k, <2>1, <2>6 DEF KnownStays
    <3>2. CASE News(a) = {}
      <4>1. \A c \in conflicts' : c.open => c \in conflicts
        BY <2>3, <3>2 DEF News
      <4>2. \A b \in Attempt : todo[b] \subseteq todo'[b]
        BY <2>2, <2>6
      <4>3. Announced'
        BY <2>1, <2>6, <3>2, <4>1, <4>2, StillAnnounced DEF Told
      <4>. QED
        BY <2>4, <3>1, <4>3 DEF Told
    <3>3. CASE News(a) # {}
      BY <2>4, <2>6, <3>1, <3>3 DEF Told, Announced
    <3>. QED
      BY <3>2, <3>3
  <2>. QED
    BY <1>7, <2>5, <2>6 DEF IngestWrite
<1>9. CASE Push(a)
  <2>1. CASE TRUE \in Duplicates(First(a)) /\ Tells(a, todo[a] \ {First(a)})
    <3>1. /\ UNCHANGED <<quarantine, conflicts, dedup, told, muted, known>>
          /\ pc' = [pc EXCEPT ![a] = IF todo[a] \ {First(a)} = {} THEN "done" ELSE "telling"]
          /\ todo' = [todo EXCEPT ![a] = todo[a] \ {First(a)}]
      BY <1>9, <2>1 DEF Push, Tells, readVars, dbVars
    <3>2. First(a) # "conflict" /\ (First(a) = "quarantine" => "quarantine" \in told)
      <4>1. First(a) = "conflict" => TRUE \notin Duplicates(First(a))
        BY DEF Duplicates
      <4>2. First(a) = "quarantine" => TRUE \notin Duplicates(First(a)) \/ dedup < Window
        BY DEF Duplicates
      <4>. QED
        BY <2>1, <4>1, <4>2 DEF Told, SeenIsTold
    <3>3. /\ "quarantine" \in todo[a] => "quarantine" \in todo'[a] \cup told'
          /\ "conflict" \in todo[a] => "conflict" \in todo'[a]
          /\ \A b \in Attempt \ {a} : todo'[b] = todo[b]
      BY <3>1, <3>2
    <3>4. Announced'
      <4>1. Announced
        BY DEF Told
      <4>. QED
        BY <3>1, <3>3, <4>1, StillAnnounced
    <3>5. TodoLate'
      BY <3>1 DEF Told, TodoLate
    <3>. QED
      BY <3>1, <3>4, <3>5 DEF Told, KnownStays, SeenIsTold
  <2>2. CASE Goto(a, "pushing") /\ UNCHANGED todo
    BY <1>9, <1>k, <2>2, QuietTold DEF Push, readVars, dbVars
  <2>. QED
    BY <1>9, <2>1, <2>2 DEF Push
<1>10. CASE Post(a)
  <2>. DEFINE k == First(a)
  <2>1. /\ UNCHANGED <<quarantine, conflicts, known>>
        /\ pc' = [pc EXCEPT ![a] = IF todo[a] \ {k} = {} THEN "done" ELSE "telling"]
        /\ todo' = [todo EXCEPT ![a] = todo[a] \ {k}]
    BY <1>10 DEF Post, Tells, readVars, dbVars
  <2>2. TodoLate' /\ KnownStays'
    BY <2>1 DEF Told, TodoLate, KnownStays
  <2>3. CASE /\ told' = told \cup (CASE k = "conflict" -> {a}
                                     [] k = "quarantine" -> {k}
                                     [] OTHER -> {})
             /\ dedup' = (IF k = "quarantine" THEN 0 ELSE dedup)
             /\ UNCHANGED muted
    <3>1. /\ told \subseteq told'
          /\ k = "quarantine" => "quarantine" \in told'
          /\ k = "conflict" => a \in told'
      BY <2>3
    <3>2. SeenIsTold'
      BY <2>3, <3>1 DEF Told, SeenIsTold
    <3>3. /\ "quarantine" \in todo[a] => "quarantine" \in todo'[a] \cup told'
          /\ "conflict" \in todo[a] => "conflict" \in todo'[a] \/ a \in told'
          /\ \A b \in Attempt \ {a} : todo'[b] = todo[b]
      <4>. HIDE DEF k
      <4>. QED
        BY <2>1, <3>1
    <3>4. Announced'
      <4>1. Announced
        BY DEF Told
      <4>. QED
        BY <2>1, <2>3, <3>1, <3>3, <4>1, StillAnnounced
    <3>. QED
      BY <2>2, <3>2, <3>4 DEF Told
  <2>4. CASE muted' = TRUE /\ UNCHANGED <<told, dedup>>
    BY <2>2, <2>4 DEF Told, SeenIsTold, Announced
  <2>. QED
    BY <1>10, <2>3, <2>4 DEF Post
<1>11. CASE Kill(a)
  <2>1. /\ UNCHANGED <<quarantine, conflicts, dedup, told>>
        /\ pc' = [pc EXCEPT ![a] = "done"]
        /\ todo' = [todo EXCEPT ![a] = {}]
        /\ known' = [known EXCEPT ![a] = FALSE]
        /\ muted' = (muted \/ todo[a] # {})
    BY <1>11 DEF Kill, Tells, Forget, dbVars
  <2>2. CASE todo[a] = {}
    BY <1>k, <2>1, <2>2, QuietTold
  <2>3. CASE todo[a] # {}
    BY <1>k, <2>1, <2>3 DEF Told, TodoLate, KnownStays, SeenIsTold, Announced
  <2>. QED
    BY <2>2, <2>3
<1>12. CASE StrayWrites(a)
  BY <1>12 DEF StrayWrites, Told, TodoLate, KnownStays, SeenIsTold, Announced, readVars, dbVars
<1>. QED
  BY <1>1, <1>2, <1>3, <1>4, <1>5, <1>6, <1>7, <1>8, <1>9, <1>10, <1>11, <1>12 DEF AttemptStep

-----------------------------------------------------------------------------
LEMMA StepIInv == IInv /\ [Next]_vars => IInv'
<1>. SUFFICES ASSUME IInv, [Next]_vars
              PROVE  IInv'
  OBVIOUS
<1>. USE DEF IInv, Owned, Told
<1>1. CASE WorldStep
  BY <1>1, WorldType, WorldOwned, WorldTold
<1>2. ASSUME NEW a \in Attempt, AttemptStep(a)
      PROVE  IInv'
  BY <1>2, AttemptType, AttemptOwned, AttemptTold
<1>3. CASE UNCHANGED vars
  BY <1>3 DEF vars, engineVars, readVars, dbVars, historyVars, TypeOK, EngineHolds, OwnLogs,
              OwnRecords, TodoLate, KnownStays, SeenIsTold, Announced
<1>. QED
  BY <1>1, <1>2, <1>3, NextCases

(* The inductive invariant: who owns what is read, and what is still to be *)
(* told, at every step of every attempt.                                   *)
THEOREM Invariance == Spec => []IInv
<1>. QED
  BY InitIInv, StepIInv, PTL DEF Spec

(* However many syncs run, in whatever order, a run is never recorded with *)
(* another run's changes or conflicts, unless it was overtaken.            *)
THEOREM RunsKeepToThemselves == Spec => []OwnRecords
<1>1. IInv => OwnRecords
  BY DEF IInv
<1>. QED
  BY <1>1, Invariance, PTL

(* What the dashboard lists as open was announced, or is about to be, or   *)
(* was lost in a way the code accepts.                                     *)
THEOREM NothingIsListedSilently == Spec => []Announced
<1>1. IInv => Announced
  BY DEF IInv
<1>. QED
  BY <1>1, Invariance, PTL

(* No step of any sync reactivates a machine the user has dismissed.       *)
THEOREM DismissalIsFinal == Spec => DismissalStands
<1>1. [Next]_vars => [quarantine = "cleared" => quarantine' = "cleared"]_vars
  <2>. SUFFICES ASSUME Next, quarantine = "cleared"
                PROVE  quarantine' = "cleared"
    BY DEF vars, dbVars
  <2>1. CASE WorldStep
    BY <2>1 DEF WorldStep, OtherStart, OtherEnd, Dismiss, Resolve, Tick, dbVars
  <2>2. ASSUME NEW a \in Attempt, AttemptStep(a)
        PROVE  quarantine' = "cleared"
    <3>1. CASE IngestWrite(a)
      BY <3>1 DEF IngestWrite, Relisted
    <3>. QED
      BY <2>2, <3>1 DEF AttemptStep, EngineEnd, Check, Launch, Timeout, Record, IngestRead, Stamp,
                        StrayWrites, Push, Post, Kill, dbVars
  <2>. QED
    BY <2>1, <2>2, NextCases
<1>. QED
  BY <1>1, PTL DEF Spec, DismissalStands

-----------------------------------------------------------------------------
(* What a cleanup takes.                                                   *)

(* The history's ids are those given out, each once, and no conflict is    *)
(* without its run.                                                        *)
Numbered(rows, last) ==
    /\ rows \in Seq(Row)
    /\ \A i \in 1 .. Len(rows) : rows[i].id <= last
    /\ \A i, j \in 1 .. Len(rows) : rows[i].id = rows[j].id => i = j
Owing(rows, list) == \A c \in list : \E r \in Range(rows) : r.id = c.run
Filed == Numbered(runs, lastId) /\ Owing(runs, conflicts)

(* The conflict's run had an older one above it, which is still there.     *)
Overstamped(rows, c) ==
    \E i, j \in 1 .. Len(rows) :
        /\ i < j
        /\ rows[i].id = c.run /\ rows[j].id < c.run
        /\ rows[j] \in Range(runs')
PushedOut(c) == Cardinality({i \in 1 .. Len(runs') : runs'[i].id > c.run}) >= KeepCount

(* A run that a cleanup takes lies below KeepCount that stay, which are    *)
(* all newer or have an older one among them.                              *)
LEMMA TrimKeeps ==
    ASSUME NEW old, NEW rows, NEW last \in Nat, Numbered(old, last), Owing(old, rows),
           Trim(old, rows)
    PROVE  /\ Numbered(runs', last) /\ Owing(runs', conflicts') /\ conflicts' \subseteq rows
           /\ \A c \in rows \ conflicts' : PushedOut(c) \/ Overstamped(old, c)
<1>0. /\ old \in Seq(Row) /\ Len(old) \in Nat
      /\ \A i \in 1 .. Len(old) : old[i] \in Row /\ old[i].id \in Nat
  <2>1. old \in Seq(Row) /\ Len(old) \in Nat
    BY DEF Numbered
  <2>2. \A i \in 1 .. Len(old) : old[i] \in Row
    BY <2>1, ElementOfSeq
  <2>. QED
    BY <2>1, <2>2 DEF Row
<1>1. /\ Excess(old) \in Nat /\ Excess(old) <= Len(old)
      /\ runs' \in Seq(Row) /\ Len(runs') = Len(old) - Excess(old)
      /\ \A k \in 1 .. Len(runs') : runs'[k] = old[k + Excess(old)]
      /\ Range(runs') \subseteq Range(old)
  BY <1>0, TrimmedRows DEF Trim
<1>2. conflicts' = {c \in rows : \E r \in Range(runs') : r.id = c.run}
  BY DEF Trim
<1>3. \A k \in 1 .. Len(runs') : k + Excess(old) \in 1 .. Len(old)
  BY <1>0, <1>1
<1>4. Numbered(runs', last)
  <2>1. \A k \in 1 .. Len(runs') : runs'[k].id <= last
    BY <1>1, <1>3 DEF Numbered
  <2>2. ASSUME NEW k \in 1 .. Len(runs'), NEW l \in 1 .. Len(runs'), runs'[k].id = runs'[l].id
        PROVE  k = l
    <3>1. k + Excess(old) = l + Excess(old)
      BY <1>1, <1>3, <2>2 DEF Numbered
    <3>. QED
      BY <3>1, <1>1
  <2>. QED
    BY <1>1, <2>1, <2>2 DEF Numbered
<1>5. Owing(runs', conflicts') /\ conflicts' \subseteq rows
  BY <1>2 DEF Owing
<1>6. ASSUME NEW c \in rows \ conflicts', ~ Overstamped(old, c)
      PROVE  PushedOut(c)
  <2>1. PICK i \in 1 .. Len(old) : old[i].id = c.run
    <3>1. PICK r \in Range(old) : r.id = c.run
      BY DEF Owing
    <3>2. Range(old) = {old[k] : k \in 1 .. Len(old)}
      BY <1>0, RangeEquality
    <3>. QED
      BY <3>1, <3>2
  <2>2. Range(runs') = {runs'[k] : k \in 1 .. Len(runs')}
    BY <1>1, RangeEquality
  <2>3. i <= Excess(old)
    <3>. SUFFICES ASSUME i > Excess(old)
                  PROVE  FALSE
      BY <1>1
    <3>1. i - Excess(old) \in 1 .. Len(runs') /\ (i - Excess(old)) + Excess(old) = i
      BY <1>0, <1>1
    <3>2. runs'[i - Excess(old)] = old[i]
      BY <1>1, <3>1
    <3>3. old[i] \in Range(runs')
      BY <2>2, <3>1, <3>2
    <3>. QED
      BY <1>2, <1>6, <2>1, <3>3
  <2>4. Len(runs') = KeepCount
    BY <1>0, <1>1, <2>3, AppAssumption DEF Excess
  <2>5. ASSUME NEW k \in 1 .. Len(runs')
        PROVE  runs'[k].id > c.run
    <3>. DEFINE j == k + Excess(old)
    <3>1. j \in 1 .. Len(old) /\ i < j /\ runs'[k] = old[j]
      BY <1>0, <1>1, <1>3, <2>3
    <3>. HIDE DEF j
    <3>2. old[j].id # old[i].id
      BY <3>1 DEF Numbered
    <3>3. runs'[k] \in Range(runs')
      BY <2>2
    <3>4. ~ (old[j].id < c.run)
      BY <1>6, <2>1, <3>1, <3>3 DEF Overstamped
    <3>5. old[j].id \in Nat /\ c.run \in Nat
      BY <1>0, <2>1, <3>1
    <3>. QED
      BY <2>1, <3>1, <3>2, <3>4, <3>5
  <2>6. {k \in 1 .. Len(runs') : runs'[k].id > c.run} = 1 .. KeepCount
    BY <2>4, <2>5
  <2>7. Cardinality(1 .. KeepCount) = KeepCount
    BY FS_Interval, AppAssumption
  <2>8. KeepCount >= KeepCount
    BY AppAssumption
  <2>. QED
    BY Zenon, <2>6, <2>7, <2>8 DEF PushedOut
<1>. QED
  BY <1>4, <1>5, <1>6

(* An open conflict stays, or its run has been pushed out, or has a later  *)
(* one's place.                                                            *)
KeptOrPushedOut(rows, c) ==
    \/ {c, [c EXCEPT !.open = FALSE]} \cap conflicts' # {}
    \/ PushedOut(c)
    \/ Overstamped(rows, c)

(* The cleanup after a run keeps the runs numbered and every run that open *)
(* conflicts belong to, unless other runs push it out.                     *)
LEMMA CleanupKeeps ==
    ASSUME NEW old, NEW last \in Nat, Numbered(old, last), Owing(old, conflicts),
           Cleanup(old, conflicts)
    PROVE  /\ Numbered(runs', last) /\ Owing(runs', conflicts')
           /\ \A c \in conflicts : KeptOrPushedOut(old, c)
<1>1. CASE Trim(old, conflicts)
  BY <1>1, TrimKeeps DEF KeptOrPushedOut
<1>2. CASE runs' = old /\ conflicts' = conflicts
  BY <1>2 DEF KeptOrPushedOut
<1>. QED
  BY <1>1, <1>2 DEF Cleanup

(* One run more, wherever its timestamp puts it: the others keep their     *)
(* order.                                                                  *)
LEMMA RunAdded ==
    ASSUME TypeOK, Filed, NEW r \in Row, r.id = lastId + 1, NEW all \in Inserted(r)
    PROVE  /\ lastId + 1 \in Nat
           /\ Numbered(all, lastId + 1) /\ Owing(all, conflicts)
           /\ \A c \in conflicts : Overstamped(all, c) => Overstamped(runs, c)
<1>1. lastId \in Nat /\ runs \in Seq(Row) /\ Len(runs) \in Nat
  BY DEF TypeOK
<1>2. /\ all \in Seq(Row) /\ Len(all) = Len(runs) + 1
      /\ Range(all) = Range(runs) \cup {r}
  BY <1>1, InsertedRows
<1>3. PICK p \in 1 .. Len(all) :
         /\ all[p] = r
         /\ \A k \in 1 .. Len(all) : k < p => all[k] = runs[k]
         /\ \A k \in 1 .. Len(all) : k > p => all[k] = runs[k - 1]
  BY <1>1, InsertedRows
<1>. DEFINE at(k) == IF k < p THEN k ELSE k - 1
<1>4. \A k \in 1 .. Len(all) : k # p => at(k) \in 1 .. Len(runs) /\ all[k] = runs[at(k)]
  BY <1>1, <1>2, <1>3
<1>5. \A k, l \in 1 .. Len(all) : k # p /\ l # p /\ k < l => at(k) < at(l)
  BY <1>1, <1>2, <1>3
<1>6. \A k \in 1 .. Len(runs) : runs[k].id \in Nat /\ runs[k].id <= lastId
  <2>1. \A k \in 1 .. Len(runs) : runs[k] \in Row
    BY <1>1, ElementOfSeq
  <2>. QED
    BY <2>1 DEF Filed, Numbered, Row
<1>7. \A k \in 1 .. Len(all) : k # p => all[k].id \in Nat /\ all[k].id <= lastId
  BY <1>4, <1>6
<1>. HIDE DEF at
<1>8. Numbered(all, lastId + 1)
  <2>1. \A k \in 1 .. Len(all) : all[k].id <= lastId + 1
    BY <1>1, <1>3, <1>7
  <2>2. ASSUME NEW k \in 1 .. Len(all), NEW l \in 1 .. Len(all), all[k].id = all[l].id
        PROVE  k = l
    <3>1. CASE k = p \/ l = p
      BY <1>1, <1>3, <1>7, <2>2, <3>1
    <3>2. CASE k # p /\ l # p
      <4>1. at(k) = at(l)
        BY <1>4, <2>2, <3>2 DEF Filed, Numbered
      <4>2. at(k) \in 1 .. Len(runs) /\ at(l) \in 1 .. Len(runs)
        BY <1>4, <3>2
      <4>3. ~ (k < l) /\ ~ (l < k)
        BY <1>5, <3>2, <4>1, <4>2
      <4>. QED
        BY <1>2, <4>3
    <3>. QED
      BY <3>1, <3>2
  <2>. QED
    BY <1>2, <2>1, <2>2 DEF Numbered
<1>9. Owing(all, conflicts)
  BY <1>2 DEF Filed, Owing
<1>10. ASSUME NEW c \in conflicts, Overstamped(all, c)
       PROVE  Overstamped(runs, c)
  <2>1. PICK i, j \in 1 .. Len(all) :
           /\ i < j /\ all[i].id = c.run /\ all[j].id < c.run
           /\ all[j] \in Range(runs')
    BY <1>10 DEF Overstamped
  <2>2. c.run \in Nat /\ c.run <= lastId
    <3>1. PICK q \in Range(runs) : q.id = c.run
      BY DEF Filed, Owing
    <3>2. Range(runs) = {runs[k] : k \in 1 .. Len(runs)}
      BY <1>1, RangeEquality
    <3>. QED
      BY <1>6, <3>1, <3>2
  <2>3. i # p /\ j # p
    BY <1>1, <1>3, <2>1, <2>2
  <2>4. /\ at(i) \in 1 .. Len(runs) /\ at(j) \in 1 .. Len(runs) /\ at(i) < at(j)
        /\ all[i] = runs[at(i)] /\ all[j] = runs[at(j)]
    BY <1>4, <1>5, <2>1, <2>3
  <2>. QED
    BY <2>1, <2>4 DEF Overstamped
<1>. QED
  BY <1>1, <1>8, <1>9, <1>10

(* Every step keeps the runs numbered and, of the open conflicts, all that *)
(* are not resolved or pushed out.                                         *)
LEMMA FiledStep ==
    ASSUME TypeOK, Filed, [Next]_vars
    PROVE  Filed' /\ \A c \in conflicts : KeptOrPushedOut(runs, c)
<1>1. CASE UNCHANGED <<runs, lastId, conflicts>>
  BY <1>1 DEF Filed, KeptOrPushedOut
<1>2. ASSUME NEW c \in conflicts, Resolve(c)
      PROVE  Filed' /\ \A d \in conflicts : KeptOrPushedOut(runs, d)
  <2>1. /\ conflicts' = (conflicts \ {c}) \cup {[c EXCEPT !.open = FALSE]}
        /\ UNCHANGED <<runs, lastId>>
    BY <1>2 DEF Resolve
  <2>2. [c EXCEPT !.open = FALSE].run = c.run
    BY DEF TypeOK
  <2>3. Owing(runs, conflicts')
    BY <2>1, <2>2 DEF Filed, Owing
  <2>. QED
    BY <2>1, <2>3 DEF Filed, KeptOrPushedOut
<1>3. ASSUME NEW a \in Attempt, Timeout(a)
      PROVE  Filed' /\ \A c \in conflicts : KeptOrPushedOut(runs, c)
  <2>1. ASSUME lastId' = lastId + 1,
               NEW all \in Inserted(NewRow(a, Nobody, Nobody)), Cleanup(all, conflicts)
        PROVE  Filed' /\ \A c \in conflicts : KeptOrPushedOut(runs, c)
    <3>1. NewRow(a, Nobody, Nobody) \in Row /\ NewRow(a, Nobody, Nobody).id = lastId + 1
      BY NewRowType DEF Whose, NewRow
    <3>2. /\ lastId + 1 \in Nat
          /\ Numbered(all, lastId + 1) /\ Owing(all, conflicts)
          /\ \A c \in conflicts : Overstamped(all, c) => Overstamped(runs, c)
      BY <3>1, RunAdded
    <3>3. /\ Numbered(runs', lastId + 1) /\ Owing(runs', conflicts')
          /\ \A c \in conflicts : KeptOrPushedOut(all, c)
      BY <2>1, <3>2, CleanupKeeps
    <3>. QED
      BY <2>1, <3>2, <3>3 DEF Filed, KeptOrPushedOut
  <2>. QED
    BY <1>1, <1>3, <2>1 DEF Timeout
<1>4. ASSUME NEW a \in Attempt, Record(a)
      PROVE  Filed' /\ \A c \in conflicts : KeptOrPushedOut(runs, c)
  <2>. DEFINE r == NewRow(a, Derived(a), log.by)
  <2>1. CASE lastId' = lastId + 1 /\ runs' \in Inserted(r)
    <3>1. Derived(a) \in Whose /\ log.by \in Whose
      BY DEF Derived, TypeOK, Log, Whose
    <3>2. r \in Row /\ r.id = lastId + 1
      BY <3>1, NewRowType DEF NewRow
    <3>. HIDE DEF r
    <3>3. Numbered(runs', lastId + 1) /\ Owing(runs', conflicts)
      BY <2>1, <3>2, RunAdded
    <3>4. UNCHANGED conflicts
      BY <1>4 DEF Record
    <3>. QED
      BY <2>1, <3>3, <3>4 DEF Filed, KeptOrPushedOut
  <2>. QED
    BY <1>1, <1>4, <2>1 DEF Record
<1>5. ASSUME NEW a \in Attempt, Stamp(a)
      PROVE  Filed' /\ \A c \in conflicts : KeptOrPushedOut(runs, c)
  <2>1. CASE Cleanup(runs, conflicts)
    BY <1>5, <2>1, CleanupKeeps DEF Stamp, Filed, TypeOK
  <2>. QED
    BY <1>1, <1>5, <2>1 DEF Stamp
<1>6. ASSUME NEW a \in Attempt, IngestWrite(a)
      PROVE  Filed' /\ \A c \in conflicts : KeptOrPushedOut(runs, c)
  <2>1. /\ conflicts \subseteq conflicts' /\ UNCHANGED <<runs, lastId>>
        /\ \A c \in conflicts' \ conflicts : HasRun(a) /\ c.run = RunOf(a).id
    BY <1>6 DEF IngestWrite
  <2>2. HasRun(a) => RunOf(a) \in Range(runs)
    BY DEF HasRun, RunOf
  <2>3. Owing(runs, conflicts')
    BY <2>1, <2>2 DEF Filed, Owing
  <2>. QED
    BY <2>1, <2>3 DEF Filed, KeptOrPushedOut
<1>7. CASE WorldStep
  <2>1. CASE \E c \in conflicts : Resolve(c)
    BY <1>2, <2>1
  <2>. QED
    BY <1>1, <1>7, <2>1 DEF WorldStep, OtherStart, OtherEnd, Dismiss, Tick, dbVars
<1>8. ASSUME NEW a \in Attempt, AttemptStep(a)
      PROVE  Filed' /\ \A c \in conflicts : KeptOrPushedOut(runs, c)
  <2>1. CASE Timeout(a) \/ Record(a) \/ Stamp(a) \/ IngestWrite(a)
    BY <1>3, <1>4, <1>5, <1>6, <2>1
  <2>2. CASE ~ (Timeout(a) \/ Record(a) \/ Stamp(a) \/ IngestWrite(a))
    BY <1>1, <1>8, <2>2 DEF AttemptStep, EngineEnd, Check, Launch, StrayWrites, IngestRead,
                            Push, Post, Kill, dbVars
  <2>. QED
    BY <2>1, <2>2
<1>9. CASE UNCHANGED vars
  BY <1>1, <1>9 DEF vars, dbVars
<1>. QED
  BY <1>7, <1>8, <1>9, NextCases

(* An open conflict leaves the dashboard only when the user resolves it,   *)
(* when KeepCount newer runs are kept, or when an older run with a later   *)
(* timestamp is, whatever fails and however many syncs trim the same       *)
(* history.                                                                *)
THEOREM OpenConflictsAreKept == Spec => PendingKept
<1>1. Init => Filed
  <2>. SUFFICES ASSUME Init PROVE Filed
    OBVIOUS
  <2>1. runs = << >> /\ conflicts = {}
    BY DEF Init
  <2>. QED
    BY <2>1 DEF Filed, Numbered, Owing
<1>2. TypeOK /\ Filed /\ [Next]_vars => Filed'
  BY FiledStep
<1>3. TypeOK /\ Filed /\ [Next]_vars =>
        [\A c \in conflicts : c.open =>
            \/ {c, [c EXCEPT !.open = FALSE]} \cap conflicts' # {}
            \/ Cardinality({i \in DOMAIN runs' : runs'[i].id > c.run}) >= KeepCount
            \/ \E i, j \in DOMAIN runs :
                  /\ i < j
                  /\ runs[i].id = c.run /\ runs[j].id < c.run
                  /\ runs[j] \in Range(runs')]_vars
  <2>. SUFFICES ASSUME TypeOK, Filed, [Next]_vars
                PROVE  \A c \in conflicts : c.open =>
            \/ {c, [c EXCEPT !.open = FALSE]} \cap conflicts' # {}
            \/ Cardinality({i \in DOMAIN runs' : runs'[i].id > c.run}) >= KeepCount
            \/ \E i, j \in DOMAIN runs :
                  /\ i < j
                  /\ runs[i].id = c.run /\ runs[j].id < c.run
                  /\ runs[j] \in Range(runs')
    OBVIOUS
  <2>1. Filed' /\ \A c \in conflicts : KeptOrPushedOut(runs, c)
    BY FiledStep
  <2>2. DOMAIN runs = 1 .. Len(runs)
    BY DEF Filed, Numbered
  <2>3. DOMAIN runs' = 1 .. Len(runs')
    BY <2>1 DEF Filed, Numbered
  <2>. QED
    BY <2>1, <2>2, <2>3 DEF KeptOrPushedOut, PushedOut, Overstamped
<1>4. IInv => TypeOK
  BY DEF IInv
<1>. QED
  BY <1>1, <1>2, <1>3, <1>4, Invariance, PTL DEF Spec, PendingKept
=============================================================================
