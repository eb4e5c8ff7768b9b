----------------------------- MODULE Laws_proofs ----------------------------
(***************************************************************************)
(* The small systems that one run checks together, for every value of      *)
(* their constants: the laws of the row merge, config.json between any     *)
(* number of machines, folder paths under any path maps, and config.sh.    *)
(***************************************************************************)
EXTENDS RowMergeLaws, PathSync, ConfigSync, BackendConfig,
        SequenceTheorems, WellFoundedInduction, TLAPS

-----------------------------------------------------------------------------
(* The row merge: any timestamps, parseable or not, any rows, with or      *)
(* without a timestamp column.                                             *)

(* The type invariant.                                                     *)
THEOREM TypeCorrect == Spec => []TypeOK
<1>1. Init => TypeOK
  BY DEF Init, TypeOK
<1>2. TypeOK /\ [Next]_vars => TypeOK'
  BY DEF TypeOK, Next, EditOurs, EditTheirs, EditThird, vars
<1>. QED
  BY <1>1, <1>2, PTL DEF Spec

-----------------------------------------------------------------------------
(* Distinct rows have distinct ranks, so either order of the arguments     *)
(* picks the same row.                                                     *)
LEMMA TiebreakSymmetric ==
    ASSUME NEW r \in Row, NEW q \in Row
    PROVE  Tiebreak(r, q) = Tiebreak(q, r)
<1>1. RowRank[r] \in Nat /\ RowRank[q] \in Nat
  BY RowAssumption
<1>2. CASE r = q
  BY <1>2
<1>3. CASE RowRank[r] > RowRank[q]
  BY <1>1, <1>3 DEF Tiebreak
<1>4. CASE RowRank[q] > RowRank[r]
  BY <1>1, <1>4 DEF Tiebreak
<1>5. RowRank[r] = RowRank[q] => r = q
  BY RowAssumption
<1>. QED
  BY <1>1, <1>2, <1>3, <1>4, <1>5

(* The same of the last-writer-wins rule of _newer.                        *)
LEMMA NewerSymmetric ==
    ASSUME NEW r \in Row, NEW q \in Row
    PROVE  Newer(r, q) = Newer(q, r)
<1>. DEFINE o == r.at
            t == q.at
            Timely == o \in Parsed /\ t \in Parsed /\ Instant[o] # Instant[t]
<1>1. o \in Stamp /\ t \in Stamp
  BY DEF Row
<1>2. CASE Timely
  <2>1. Instant[o] \in Nat /\ Instant[t] \in Nat
    BY <1>2, StampAssumption
  <2>. QED
    BY <1>2, <2>1 DEF Newer
<1>3. CASE ~ Timely /\ o # t
  <2>1. TextRank[o] \in Nat /\ TextRank[t] \in Nat /\ TextRank[o] # TextRank[t]
    BY <1>1, <1>3, StampAssumption
  <2>. QED
    BY <1>3, <2>1 DEF Newer
<1>4. CASE ~ Timely /\ o = t
  BY <1>4, TiebreakSymmetric DEF Newer
<1>. QED
  BY <1>2, <1>3, <1>4

(* Whichever rule the table has, the winner is one of the two rows and     *)
(* does not depend on which of them is local.                              *)
LEMMA WinnerSymmetric ==
    ASSUME NEW r \in Row, NEW q \in Row
    PROVE  /\ Winner(r, q) = Winner(q, r)
           /\ Winner(r, q) \in {r, q}
<1>1. Winner(r, q) = Winner(q, r)
  BY NewerSymmetric, TiebreakSymmetric DEF Winner
<1>2. Winner(r, q) \in {r, q}
  BY DEF Winner, Newer, Tiebreak
<1>. QED
  BY <1>1, <1>2

(* The same with deletions: of a contested row, the edit wins either way.  *)
LEMMA AutoRowSymmetric ==
    ASSUME NEW c \in Cell, NEW d \in Cell
    PROVE  AutoRow(c, d) = AutoRow(d, c)
BY WinnerSymmetric, RowAssumption DEF AutoRow, Cell

(* Two machines that merge each other's copy of a row get the same row.    *)
THEOREM MergeIsSymmetric == Spec => []Symmetric
<1>1. TypeOK => Symmetric
  <2>. SUFFICES ASSUME TypeOK
                PROVE  Symmetric
    OBVIOUS
  <2>1. ours \in Cell /\ theirs \in Cell
    BY DEF TypeOK
  <2>2. Contested(base, ours, theirs) <=> Contested(base, theirs, ours)
    BY DEF Contested
  <2>3. CASE Contested(base, ours, theirs)
    BY <2>1, <2>2, <2>3, AutoRowSymmetric DEF Symmetric, Merged, MergeRow
  <2>4. CASE ~ Contested(base, ours, theirs)
    BY <2>2, <2>4 DEF Symmetric, Merged, MergeRow, Contested
  <2>. QED
    BY <2>3, <2>4
<1>. QED
  BY <1>1, TypeCorrect, PTL

(* An edit on either machine is never lost to a deletion on the other.     *)
THEOREM DeletionNeverBeatsEdit == Spec => []EditBeatsDeletion
<1>1. TypeOK => EditBeatsDeletion
  <2>. SUFFICES ASSUME TypeOK
                PROVE  EditBeatsDeletion
    OBVIOUS
  <2>1. ours \in Cell /\ theirs \in Cell
    BY DEF TypeOK
  <2>2. CASE Contested(base, ours, theirs)
    <3>1. Merged(ours, theirs) = AutoRow(ours, theirs)
      BY <2>2 DEF Merged, MergeRow
    <3>2. CASE ours = Absent \/ theirs = Absent
      BY <2>2, <3>1, <3>2 DEF EditBeatsDeletion, AutoRow, Contested
    <3>3. CASE ours # Absent /\ theirs # Absent
      <4>1. ours \in Row /\ theirs \in Row
        BY <2>1, <3>3 DEF Cell
      <4>2. Merged(ours, theirs) \in {ours, theirs}
        BY <3>1, <3>3, <4>1, WinnerSymmetric DEF AutoRow
      <4>. QED
        BY <3>3, <4>2 DEF EditBeatsDeletion
    <3>. QED
      BY <3>2, <3>3
  <2>3. CASE ~ Contested(base, ours, theirs)
    BY <2>3 DEF EditBeatsDeletion, Merged, MergeRow, Contested
  <2>. QED
    BY <2>2, <2>3
<1>. QED
  BY <1>1, TypeCorrect, PTL

-----------------------------------------------------------------------------
(* Three copies.  Where every timestamp parses, _newer goes by the instant,*)
(* then the text, then the row, so beating is transitive.                  *)
LEMMA NewerByRank ==
    ASSUME NEW r \in Row, NEW q \in Row, r.at \in Parsed, q.at \in Parsed
    PROVE  Newer(r, q) = r <=>
             \/ Instant[r.at] > Instant[q.at]
             \/ Instant[r.at] = Instant[q.at] /\ TextRank[r.at] > TextRank[q.at]
             \/ r.at = q.at /\ RowRank[r] >= RowRank[q]
<1>1. /\ Instant[r.at] \in Nat /\ Instant[q.at] \in Nat
      /\ TextRank[r.at] \in Nat /\ TextRank[q.at] \in Nat
      /\ RowRank[r] \in Nat /\ RowRank[q] \in Nat
      /\ TextRank[r.at] = TextRank[q.at] => r.at = q.at
      /\ RowRank[r] = RowRank[q] => r = q
  BY StampAssumption, RowAssumption DEF Row
<1>2. CASE Instant[r.at] # Instant[q.at]
  BY <1>1, <1>2 DEF Newer
<1>3. CASE Instant[r.at] = Instant[q.at] /\ r.at # q.at
  BY <1>1, <1>3 DEF Newer
<1>4. CASE r.at = q.at
  BY <1>1, <1>4 DEF Newer, Tiebreak
<1>. QED
  BY <1>2, <1>3, <1>4

(* Of rows whose timestamps parse, whoever beats the one that beats a      *)
(* third beats the third: instants, then texts, then rows are compared by  *)
(* their ranks.                                                            *)
LEMMA WinnerTransitive ==
    ASSUME NEW r \in Row, NEW q \in Row, NEW z \in Row,
           {r.at, q.at, z.at} \subseteq Parsed, Winner(r, q) = r, Winner(q, z) = q
    PROVE  Winner(r, z) = r
<1>1. \A c \in {r, q, z} : /\ c \in Row /\ c.at \in Parsed /\ Instant[c.at] \in Nat
                           /\ TextRank[c.at] \in Nat /\ RowRank[c] \in Nat
  BY StampAssumption, RowAssumption DEF Row
<1>2. CASE Timed
  <2>1. Newer(r, q) = r /\ Newer(q, z) = q
    BY <1>2 DEF Winner
  <2>2. Newer(r, z) = r
    BY <1>1, <2>1, NewerByRank
  <2>. QED
    BY <1>2, <2>2 DEF Winner
<1>3. CASE ~ Timed
  <2>1. Tiebreak(r, q) = r /\ Tiebreak(q, z) = q
    BY <1>3 DEF Winner
  <2>2. RowRank[r] >= RowRank[q] /\ RowRank[q] >= RowRank[z]
    BY <1>1, <2>1 DEF Tiebreak
  <2>3. Tiebreak(r, z) = r
    BY <1>1, <2>2 DEF Tiebreak
  <2>. QED
    BY <1>3, <2>3 DEF Winner
<1>. QED
  BY <1>2, <1>3

(* What merge_table keeps of two copies, as a choice between them.         *)
LEMMA MergedChooses ==
    ASSUME base \in Cell, NEW c \in Cell, NEW d \in Cell
    PROVE  /\ Merged(c, d) \in {c, d}
           /\ Merged(c, d) = Merged(d, c)
           /\ c = base => Merged(c, d) = d
           /\ c = Absent /\ d # base => Merged(c, d) = d
           /\ c # base /\ d # base /\ c \in Row /\ d \in Row => Merged(c, d) = Winner(c, d)
<1>1. CASE Contested(base, c, d)
  <2>1. Merged(c, d) = AutoRow(c, d) /\ Merged(d, c) = AutoRow(d, c)
    BY <1>1 DEF Merged, MergeRow, Contested
  <2>2. c # base
    BY <1>1 DEF Contested
  <2>3. AutoRow(c, d) \in {c, d}
    BY WinnerSymmetric, RowAssumption DEF AutoRow, Cell
  <2>4. c \in Row /\ d \in Row => AutoRow(c, d) = Winner(c, d)
    BY RowAssumption DEF AutoRow
  <2>. QED
    BY <2>1, <2>2, <2>3, <2>4, AutoRowSymmetric DEF AutoRow
<1>2. CASE ~ Contested(base, c, d)
  <2>1. c \in Row => Winner(c, c) = c
    BY WinnerSymmetric
  <2>. QED
    BY <1>2, <2>1 DEF Merged, MergeRow, Contested
<1>. QED
  BY <1>1, <1>2

(* A copy left as it was loses to everything, a deletion to every edit.    *)
LEMMA MergedTransitive ==
    ASSUME base \in Cell, NEW c \in Cell, NEW d \in Cell, NEW e \in Cell,
           \A r \in {c, d, e} \ {Absent} : r.at \in Parsed,
           Merged(c, d) = c, Merged(d, e) = d
    PROVE  Merged(c, e) = c
<1>. USE MergedChooses
<1>1. CASE c = base
  BY <1>1
<1>2. CASE e = base \/ c = e \/ d = e
  BY <1>2
<1>3. CASE c # base /\ e # base /\ c # e /\ d # e
  <2>1. d # base
    BY <1>3
  <2>2. CASE e = Absent
    BY <1>3, <2>2
  <2>3. CASE e # Absent
    <3>1. d # Absent
      BY <1>3, <2>1, <2>3
    <3>2. c # Absent
      BY <1>3, <2>1, <3>1
    <3>3. c \in Row /\ d \in Row /\ e \in Row
      BY <2>3, <3>1, <3>2 DEF Cell
    <3>4. Winner(c, d) = c /\ Winner(d, e) = d
      BY <1>3, <2>1, <3>3
    <3>5. Winner(c, e) = c
      BY <2>3, <3>1, <3>2, <3>3, <3>4, WinnerTransitive
    <3>. QED
      BY <1>3, <3>3, <3>5
  <2>. QED
    BY <2>2, <2>3
<1>. QED
  BY <1>1, <1>2, <1>3

(* Three machines that merge in different orders end with the same row, as *)
(* long as every timestamp of theirs parses.                               *)
THEOREM OrderDoesNotMatter == Spec => []OrderIndependent
<1>1. TypeOK => OrderIndependent
  <2>. SUFFICES ASSUME TypeOK,
                       \A r \in {ours, theirs, third} \ {Absent} : r.at \in Parsed
                PROVE  Merged(Merged(ours, theirs), third) = Merged(ours, Merged(theirs, third))
    BY DEF OrderIndependent
  <2>1. base \in Cell /\ ours \in Cell /\ theirs \in Cell /\ third \in Cell
    BY DEF TypeOK
  <2>2. \A c, d \in Cell : Merged(c, d) \in {c, d} /\ Merged(c, d) = Merged(d, c)
    BY <2>1, MergedChooses
  <2>3. \A c, d, e \in {ours, theirs, third} :
           Merged(c, d) = c /\ Merged(d, e) = d => Merged(c, e) = c
    BY <2>1, MergedTransitive
  <2>4. CASE Merged(ours, theirs) = ours
    BY <2>1, <2>2, <2>3, <2>4
  <2>5. CASE Merged(ours, theirs) = theirs
    BY <2>1, <2>2, <2>3, <2>5
  <2>. QED
    BY <2>1, <2>2, <2>4, <2>5
<1>. QED
  BY <1>1, TypeCorrect, PTL

-----------------------------------------------------------------------------
(* config.json: any number of machines, any values and any credentials.    *)

CleanSection(s) == s \in Section /\ \A leaf \in PrivateLeaf : s[leaf] = Missing

(* A document in canonical form: what the provers are told of a clean one. *)
LEMMA CleanForm ==
    ASSUME NEW doc \in Document
    PROVE  Clean(doc) <=> /\ doc.hooks.token = Missing
                          /\ doc.section = Missing \/ CleanSection(doc.section)
<1>1. doc.section \in Section \cup {Missing}
  BY DEF Document
<1>2. CASE doc.section = Missing
  BY <1>2 DEF Clean, PrivateOf, PrivateLeaves, Parses
<1>3. CASE doc.section # Missing
  BY <1>1, <1>3 DEF Clean, PrivateOf, PrivateLeaves, Parses, CleanSection
<1>. QED
  BY <1>2, <1>3

(* A slip makes a file that does not parse, with the same private leaves.  *)
LEMMA SlipForm ==
    ASSUME NEW doc \in Document
    PROVE  ~ Parses([broken |-> doc]) /\ PrivateOf([broken |-> doc]) = PrivateLeaves(doc)
<1>1. [broken |-> doc] \notin Document
  BY DEF Document
<1>. QED
  BY <1>1 DEF Parses, PrivateOf

(* A section without entries holds no credential.                          *)
LEMMA EmptyIsClean == CleanSection(EmptySection)
BY DEF CleanSection, EmptySection, Section, Leaf, PrivateLeaf

(* A section in which one entry is set or deleted is a section.            *)
LEMMA ChangedLeaf ==
    ASSUME NEW s \in Section, NEW leaf \in Leaf,
           NEW v \in IF leaf = "name" THEN Word \cup {Missing} ELSE Credential \cup {Missing}
    PROVE  [s EXCEPT ![leaf] = v] \in Section
<1>1. v \in Word \cup Credential \cup {Missing}
  OBVIOUS
<1>. QED
  BY <1>1 DEF Section, Leaf, PrivateLeaf

(* What leaves a machine whose file parses is clean.                       *)
LEMMA ParsedOutgoing ==
    ASSUME NEW h \in Host, Parses(config[h])
    PROVE  Outgoing(h) \in Document /\ Clean(Outgoing(h))
<1>. DEFINE s == config[h].section
            stripped == [[s EXCEPT !["token"] = Missing] EXCEPT !["stamp"] = Missing]
            hooks == [config[h].hooks EXCEPT !.token = Missing]
<1>1. config[h] \in Document /\ s \in Section \cup {Missing} /\ config[h].hooks \in Hooks
  BY DEF Parses, Document
<1>2. hooks \in Hooks /\ hooks.token = Missing
  BY <1>1 DEF Hooks
<1>3. CASE s = Missing
  <2>1. Outgoing(h) = [section |-> Missing, hooks |-> hooks]
    BY <1>1, <1>3 DEF Outgoing, StripLocalOnly, StripSecrets
  <2>. HIDE DEF hooks
  <2>2. Outgoing(h) \in Document
    BY <1>2, <2>1 DEF Document
  <2>. QED
    BY <1>2, <2>1, <2>2, CleanForm
<1>4. CASE s # Missing
  <2>1. [s EXCEPT !["token"] = Missing] \in Section
    BY <1>1, <1>4, ChangedLeaf DEF Leaf
  <2>2. stripped \in Section
    BY <2>1, ChangedLeaf DEF Leaf
  <2>3. CleanSection(stripped)
    BY <1>1, <1>4, <2>2 DEF CleanSection, PrivateLeaf, Section, Leaf
  <2>4. Outgoing(h) = [section |-> stripped, hooks |-> hooks]
    <3>1. [s EXCEPT !["token"] = Missing] # Missing
      BY <2>1, ConfigAssumption
    <3>. QED
      BY <1>1, <1>4, <3>1 DEF Outgoing, StripLocalOnly, StripSecrets
  <2>5. Outgoing(h) \in Document
    BY <1>2, <2>2, <2>4 DEF Document
  <2>. QED
    BY <1>2, <2>3, <2>4, <2>5, CleanForm
<1>. QED
  BY <1>3, <1>4

(* A file that does not parse leaves as it is.                             *)
LEMMA OutgoingClean ==
    ASSUME ConfigTypeOK, NEW h \in Host
    PROVE  Outgoing(h) \in Document \cup Broken /\ Clean(Outgoing(h))
<1>1. CASE Parses(config[h])
  BY <1>1, ParsedOutgoing
<1>2. CASE ~ Parses(config[h])
  BY <1>2 DEF Outgoing, ConfigTypeOK, Clean
<1>. QED
  BY <1>1, <1>2

(* A merge of sections without credentials has none.                       *)
LEMMA MergeObjectClean ==
    ASSUME NEW b, b = Missing \/ CleanSection(b),
           NEW o, CleanSection(o), NEW t, CleanSection(t)
    PROVE  CleanSection(MergeObject(b, o, t))
<1>. DEFINE before == IF b = Missing THEN EmptySection ELSE b
            merged == [leaf \in Leaf |->
                          MergeKey(before[leaf], o[leaf], t[leaf], MergeValue)]
<1>1. MergeObject(b, o, t) = merged
  BY DEF MergeObject
<1>2. \A leaf \in Leaf : merged[leaf] \in {o[leaf], t[leaf]}
  BY DEF MergeKey, MergeValue, Larger
<1>. HIDE DEF merged
<1>3. merged \in [Leaf -> Word \cup Credential \cup {Missing}]
  <2>1. merged = [leaf \in Leaf |-> merged[leaf]]
    BY DEF merged
  <2>. QED
    BY <1>2, <2>1 DEF CleanSection, Section
<1>4. merged["name"] \in Word \cup {Missing} /\ \A leaf \in PrivateLeaf : merged[leaf] = Missing
  BY <1>2 DEF CleanSection, Section, Leaf, PrivateLeaf
<1>. QED
  BY <1>1, <1>3, <1>4 DEF CleanSection, Section

(* A merge of clean documents is clean.                                    *)
LEMMA MergeClean ==
    ASSUME NEW b \in Document, Clean(b), NEW o \in Document, Clean(o),
           NEW t \in Document, Clean(t)
    PROVE  LET merged == MergeJson(b, o, t) IN merged \in Document /\ Clean(merged)
<1>. DEFINE section == MergeKey(b.section, o.section, t.section, MergeObject)
            hooks == MergeKey(b.hooks, o.hooks, t.hooks, MergeValue)
<1>1. /\ b.section = Missing \/ CleanSection(b.section)
      /\ o.section = Missing \/ CleanSection(o.section)
      /\ t.section = Missing \/ CleanSection(t.section)
  BY CleanForm
<1>2. section = Missing \/ CleanSection(section)
  <2>1. CASE o.section = Missing \/ t.section = Missing
    BY <1>1, <2>1 DEF MergeKey
  <2>2. CASE CleanSection(o.section) /\ CleanSection(t.section)
    <3>1. CleanSection(MergeObject(b.section, o.section, t.section))
      BY <1>1, <2>2, MergeObjectClean
    <3>. QED
      BY <2>2, <3>1 DEF MergeKey
  <2>. QED
    BY <1>1, <2>1, <2>2
<1>3. hooks \in {o.hooks, t.hooks}
  BY DEF MergeKey, MergeValue, Larger
<1>4. hooks \in Hooks /\ hooks.token = Missing
  BY <1>3, CleanForm DEF Document
<1>. HIDE DEF section, hooks
<1>5. MergeJson(b, o, t) = [section |-> section, hooks |-> hooks]
  BY DEF MergeJson, section, hooks
<1>6. [section |-> section, hooks |-> hooks] \in Document
  BY <1>2, <1>4 DEF Document, CleanSection
<1>. QED
  BY <1>2, <1>4, <1>5, <1>6, CleanForm

(* The same of whole files, whether or not they parse.                     *)
LEMMA MergeFileClean ==
    ASSUME NEW b \in Document \cup Broken, Clean(b),
           NEW o \in Document \cup Broken, Clean(o),
           NEW t \in Document \cup Broken, Clean(t), Mergeable(b, o, t)
    PROVE  MergeFile(b, o, t) \in Document \cup Broken /\ Clean(MergeFile(b, o, t))
<1>1. CASE o = t \/ b \in {o, t}
  BY <1>1 DEF MergeFile
<1>2. CASE ~ (o = t \/ b \in {o, t})
  <2>1. b \in Document /\ o \in Document /\ t \in Document
    BY <1>2 DEF Mergeable, Parses
  <2>2. MergeFile(b, o, t) = MergeJson(b, o, t)
    BY <1>2 DEF MergeFile
  <2>. QED
    BY <2>1, <2>2, MergeClean
<1>. QED
  BY <1>1, <1>2

(* What the two grafts put back on a machine: the private leaves of its    *)
(* own section, if the object it merges with has one.                      *)
LEMMA GraftedOwn ==
    ASSUME NEW merged \in Document, Clean(merged),
           NEW local, local.section \in Section \cup {Missing}
    PROVE  LET back == GraftLocalOnly(GraftLocalSecrets(merged, local), local)
           IN  /\ back \in Document
               /\ back.hooks = merged.hooks
               /\ local.section = Missing =>
                     back.section = Missing \/ CleanSection(back.section)
               /\ local.section # Missing =>
                     /\ back.section # Missing
                     /\ \A leaf \in PrivateLeaf : back.section[leaf] = local.section[leaf]
<1>. DEFINE first == GraftLocalSecrets(merged, local)
            back == GraftLocalOnly(first, local)
            s == IF merged.section = Missing THEN EmptySection ELSE merged.section
            token == local.section["token"]
            stamp == local.section["stamp"]
            grafted == [s EXCEPT !["token"] = token]
            whole == [grafted EXCEPT !["stamp"] = stamp]
<1>1. /\ merged.hooks \in Hooks
      /\ merged.section = Missing \/ CleanSection(merged.section)
      /\ merged = [section |-> merged.section, hooks |-> merged.hooks]
  BY CleanForm DEF Document
<1>2. CASE local.section = Missing
  <2>1. first = merged
    BY <1>2 DEF GraftLocalSecrets
  <2>2. CASE merged.section = Missing
    BY <1>2, <2>1, <2>2 DEF GraftLocalOnly
  <2>3. CASE merged.section # Missing
    <3>1. back = [section |-> [merged.section EXCEPT !["stamp"] = Missing], hooks |-> merged.hooks]
      BY <1>1, <1>2, <2>1, <2>3 DEF GraftLocalOnly
    <3>2. [merged.section EXCEPT !["stamp"] = Missing] = merged.section
      BY <1>1, <2>3 DEF CleanSection, Section, PrivateLeaf
    <3>. QED
      BY <1>1, <1>2, <2>3, <3>1, <3>2
  <2>. QED
    BY <2>2, <2>3
<1>3. CASE local.section # Missing
  <2>1. CleanSection(s)
    BY <1>1, EmptyIsClean
  <2>2. local.section \in Section /\ token \in Credential \cup {Missing}
        /\ stamp \in Credential \cup {Missing}
    BY <1>3 DEF Section, PrivateLeaf
  <2>3. grafted \in Section
    BY <2>1, <2>2, ChangedLeaf DEF CleanSection, Leaf
  <2>4. whole \in Section
    BY <2>2, <2>3, ChangedLeaf DEF Leaf
  <2>5. whole["token"] = token /\ whole["stamp"] = stamp
    BY <2>1 DEF CleanSection, Section, Leaf
  <2>6. back = [section |-> whole, hooks |-> merged.hooks]
    <3>1. s["token"] = Missing
      BY <2>1 DEF CleanSection, PrivateLeaf
    <3>2. first = [section |-> grafted, hooks |-> merged.hooks]
      BY <1>1, <1>3, <3>1 DEF GraftLocalSecrets
    <3>3. grafted # Missing
      BY <2>3, ConfigAssumption
    <3>. HIDE DEF first, grafted
    <3>. QED
      BY <1>3, <3>2, <3>3 DEF GraftLocalOnly
  <2>7. whole # Missing
    BY <2>4, ConfigAssumption
  <2>. HIDE DEF back, whole
  <2>8. back \in Document /\ back.hooks = merged.hooks /\ back.section = whole
    BY <1>1, <2>4, <2>6 DEF Document
  <2>9. \A leaf \in PrivateLeaf : whole[leaf] = local.section[leaf]
    BY <2>5 DEF PrivateLeaf
  <2>. QED
    BY <1>3, <2>7, <2>8, <2>9 DEF back
<1>. QED
  BY <1>2, <1>3

(* What comes back to a machine.  A file in the tree that does not parse   *)
(* changes nothing, and over a live file that does not parse the merged    *)
(* one is written as it is.                                                *)
LEMMA RestoredOwn ==
    ASSUME NEW merged \in Document \cup Broken, Clean(merged),
           NEW local \in Document \cup Broken
    PROVE  LET back == Restored(merged, local)
           IN  /\ back \in Document \cup Broken
               /\ Parses(merged) =>
                     /\ back \in Document
                     /\ back.hooks = merged.hooks
                     /\ Parses(local) /\ local.section # Missing =>
                           /\ back.section # Missing
                           /\ \A leaf \in PrivateLeaf :
                                 back.section[leaf] = local.section[leaf]
                     /\ ~ Parses(local) \/ local.section = Missing =>
                           back.section = Missing \/ CleanSection(back.section)
               /\ ~ Parses(merged) => back = local
<1>. DEFINE known == IF Parses(local) THEN local ELSE [section |-> Missing]
<1>1. CASE ~ Parses(merged)
  BY <1>1 DEF Restored
<1>2. CASE Parses(merged)
  <2>1. merged \in Document /\ known.section \in Section \cup {Missing}
    BY <1>2 DEF Parses, Document
  <2>2. Restored(merged, local) = GraftLocalOnly(GraftLocalSecrets(merged, known), known)
    BY <1>2 DEF Restored
  <2>3. /\ Parses(local) => known = local
        /\ ~ Parses(local) => known.section = Missing
    OBVIOUS
  <2>. HIDE DEF known
  <2>. QED
    BY <1>2, <2>1, <2>2, <2>3, GraftedOwn
<1>. QED
  BY <1>1, <1>2

-----------------------------------------------------------------------------
ConfigIInv == ConfigTypeOK /\ PrivateStaysHome

(* The private leaves of a document are one machine's own.                 *)
Own(h, doc) == PrivateOf(doc) \subseteq {Private[h], Missing}

(* What it takes for a document to hold no machine's credentials but its   *)
(* own, entry by entry.                                                    *)
LEMMA OwnForm ==
    ASSUME NEW doc \in Document, NEW h
    PROVE  Own(h, doc) <=>
               /\ doc.hooks.token \in {Private[h], Missing}
               /\ doc.section = Missing \/
                     \A leaf \in PrivateLeaf : doc.section[leaf] \in {Private[h], Missing}
BY DEF Own, PrivateOf, PrivateLeaves, Parses

(* The invariant of config.json holds before the first sync.               *)
LEMMA ConfigInitIInv == ConfigInit => ConfigIInv
<1>. SUFFICES ASSUME ConfigInit PROVE ConfigIInv
  OBVIOUS
<1>1. PICK w \in Word :
         mainFile = [section |-> [EmptySection EXCEPT !["name"] = w],
                     hooks |-> [name |-> w, token |-> Missing]]
  BY DEF ConfigInit
<1>2. [EmptySection EXCEPT !["name"] = w] \in Section
  BY EmptyIsClean, ChangedLeaf DEF CleanSection, Leaf
<1>3. mainFile \in Document
  BY <1>1, <1>2 DEF Document, Hooks
<1>4. CleanSection(mainFile.section)
  BY <1>1, <1>2, EmptyIsClean DEF CleanSection, EmptySection, PrivateLeaf, Leaf
<1>5. Clean(mainFile)
  BY <1>1, <1>3, <1>4, CleanForm
<1>6. ConfigTypeOK
  BY <1>3, ConfigAssumption DEF ConfigInit, ConfigTypeOK
<1>7. PrivateStaysHome
  <2>1. PrivateOf(mainFile) \subseteq {Missing}
    BY <1>3, <1>5 DEF Clean, Parses
  <2>. QED
    BY <1>5, <2>1 DEF ConfigInit, PrivateStaysHome
<1>. QED
  BY <1>6, <1>7 DEF ConfigIInv

(* What a merge leaves in the repository is clean, if it parses.           *)
LEMMA MergedClean ==
    ASSUME ConfigIInv, NEW h \in Host, Mergeable(lastFile[h], Outgoing(h), mainFile)
    PROVE  MergedFile(h) \in Document \cup Broken /\ Clean(MergedFile(h))
<1>1. /\ lastFile[h] \in Document \cup Broken /\ Clean(lastFile[h])
      /\ mainFile \in Document \cup Broken /\ Clean(mainFile)
  BY DEF ConfigIInv, ConfigTypeOK, PrivateStaysHome
<1>2. Outgoing(h) \in Document \cup Broken /\ Clean(Outgoing(h))
  BY OutgoingClean DEF ConfigIInv
<1>. QED
  BY <1>1, <1>2, MergeFileClean DEF MergedFile

(* A step that gives one machine another live file.                        *)
LEMMA OneFile ==
    ASSUME ConfigIInv, NEW h \in Host, NEW doc \in Document \cup Broken, Own(h, doc),
           config' = [config EXCEPT ![h] = doc],
           mainFile' \in Document \cup Broken, Clean(mainFile)',
           lastFile' \in [Host -> Document \cup Broken],
           \A g \in Host : Clean(lastFile[g])',
           configEdits' \in 0..MaxConfigEdits
    PROVE  ConfigIInv'
<1>1. ConfigTypeOK'
  BY DEF ConfigIInv, ConfigTypeOK
<1>2. \A g \in Host : Own(g, config'[g])
  BY DEF ConfigIInv, ConfigTypeOK, PrivateStaysHome, Own
<1>3. PrivateStaysHome'
  BY <1>2 DEF PrivateStaysHome, Own, PrivateOf, PrivateLeaves, Clean, Parses
<1>. QED
  BY <1>1, <1>3 DEF ConfigIInv

(* A sync keeps the credentials of its machine and brings in no others.    *)
LEMMA SyncKeeps ==
    ASSUME ConfigIInv, NEW h \in Host, SyncConfig(h)
    PROVE  ConfigIInv'
<1>. DEFINE merged == MergedFile(h)
            back == Restored(merged, config[h])
<1>1. merged \in Document \cup Broken /\ Clean(merged)
  BY MergedClean DEF SyncConfig
<1>2. config[h] \in Document \cup Broken /\ Own(h, config[h])
  BY DEF ConfigIInv, ConfigTypeOK, PrivateStaysHome, Own
<1>3. Parses(merged) => merged.hooks.token = Missing
  BY <1>1, CleanForm DEF Parses
<1>4. /\ mainFile' = merged /\ lastFile' = [lastFile EXCEPT ![h] = merged]
      /\ config' = [config EXCEPT ![h] = back] /\ UNCHANGED configEdits
  BY DEF SyncConfig
<1>. HIDE DEF merged
<1>5. back \in Document \cup Broken
  BY <1>1, <1>2, RestoredOwn
<1>6. Own(h, back)
  <2>1. CASE ~ Parses(merged)
    <3>1. back = config[h]
      BY <1>1, <1>2, <2>1, RestoredOwn
    <3>. QED
      BY <1>2, <3>1
  <2>2. CASE Parses(merged)
    <3>1. /\ back \in Document /\ back.hooks = merged.hooks
          /\ Parses(config[h]) /\ config[h].section # Missing =>
                \A leaf \in PrivateLeaf : back.section[leaf] = config[h].section[leaf]
          /\ ~ Parses(config[h]) \/ config[h].section = Missing =>
                back.section = Missing \/ CleanSection(back.section)
      BY <1>1, <1>2, <2>2, RestoredOwn
    <3>. HIDE DEF back
    <3>2. CASE Parses(config[h]) /\ config[h].section # Missing
      <4>1. config[h] \in Document
        BY <3>2 DEF Parses
      <4>. QED
        BY <1>2, <1>3, <2>2, <3>1, <3>2, <4>1, OwnForm
    <3>3. CASE ~ (Parses(config[h]) /\ config[h].section # Missing)
      BY <1>3, <2>2, <3>1, <3>3, OwnForm DEF CleanSection
    <3>. QED
      BY <3>2, <3>3
  <2>. QED
    BY <2>1, <2>2
<1>. HIDE DEF back
<1>7. /\ mainFile' \in Document \cup Broken /\ Clean(mainFile)'
      /\ lastFile' \in [Host -> Document \cup Broken] /\ \A g \in Host : Clean(lastFile[g])'
      /\ configEdits' \in 0..MaxConfigEdits
  <2>1. mainFile' \in Document \cup Broken /\ Clean(mainFile)'
    BY <1>1, <1>4 DEF Clean, Parses, PrivateOf, PrivateLeaves
  <2>2. lastFile' \in [Host -> Document \cup Broken] /\ configEdits' \in 0..MaxConfigEdits
    BY <1>1, <1>4 DEF ConfigIInv, ConfigTypeOK
  <2>3. ASSUME NEW g \in Host
        PROVE  Clean(lastFile[g])'
    <3>1. CASE g = h
      <4>1. lastFile'[g] = merged
        BY <1>4, <3>1 DEF ConfigIInv, ConfigTypeOK
      <4>. QED
        BY <1>1, <4>1 DEF Clean, Parses, PrivateOf, PrivateLeaves
    <3>2. CASE g # h
      <4>1. lastFile'[g] = lastFile[g] /\ Clean(lastFile[g])
        BY <1>4, <3>2 DEF ConfigIInv, ConfigTypeOK, PrivateStaysHome
      <4>. QED
        BY <4>1 DEF Clean, Parses, PrivateOf, PrivateLeaves
    <3>. QED
      BY <3>1, <3>2
  <2>. QED
    BY <2>1, <2>2, <2>3
<1>. QED
  BY <1>4, <1>5, <1>6, <1>7, OneFile

(* An edit leaves the repository alone.                                    *)
EditFrame ==
    /\ mainFile' \in Document \cup Broken /\ Clean(mainFile)'
    /\ lastFile' \in [Host -> Document \cup Broken] /\ \A g \in Host : Clean(lastFile[g])'
    /\ configEdits' \in 0..MaxConfigEdits

(* What an edit leaves alone is as the invariant says.                     *)
LEMMA EditLeavesTheRest ==
    ASSUME ConfigIInv, NEW h \in Host, EditConfig(h)
    PROVE  EditFrame
BY ConfigAssumption DEF EditConfig, EditFrame, ConfigIInv, ConfigTypeOK, PrivateStaysHome, Clean,
                        Parses, PrivateOf, PrivateLeaves

(* KiroCrew and its user write the credentials of their own machine only.  *)
LEMMA DocumentEditKeeps ==
    ASSUME ConfigIInv, NEW h \in Host, EditConfig(h), EditDocument(h)
    PROVE  ConfigIInv'
<1>1. config[h] \in Document /\ Own(h, config[h])
  BY DEF ConfigIInv, EditDocument, Parses, PrivateStaysHome, Own
<1>2. EditFrame
  BY EditLeavesTheRest
<1>3. /\ \A x : [config[h] EXCEPT !.section = x] = [section |-> x, hooks |-> config[h].hooks]
      /\ \A x : [config[h] EXCEPT !.hooks = x] = [section |-> config[h].section, hooks |-> x]
  BY <1>1 DEF Document
<1>4. ASSUME NEW doc \in Document, Own(h, doc), config' = [config EXCEPT ![h] = doc]
      PROVE  ConfigIInv'
  BY <1>2, <1>4, OneFile DEF EditFrame
<1>5. ASSUME NEW leaf \in Leaf,
             NEW v \in (IF leaf = "name" THEN Word ELSE {Private[h]}) \cup {Missing},
             LET section == IF config[h].section = Missing THEN EmptySection ELSE config[h].section
             IN  config' = [config EXCEPT ![h].section = [section EXCEPT ![leaf] = v]]
      PROVE  ConfigIInv'
  <2>. DEFINE section == IF config[h].section = Missing THEN EmptySection ELSE config[h].section
              changed == [section EXCEPT ![leaf] = v]
              doc == [section |-> changed, hooks |-> config[h].hooks]
  <2>1. section \in Section
    BY <1>1, EmptyIsClean DEF Document, CleanSection
  <2>2. \A p \in PrivateLeaf : section[p] \in {Private[h], Missing}
    BY <1>1, OwnForm, EmptyIsClean DEF CleanSection
  <2>3. v \in IF leaf = "name" THEN Word \cup {Missing} ELSE Credential \cup {Missing}
    BY <1>5 DEF Credential
  <2>. HIDE DEF section
  <2>4. changed \in Section
    BY <2>1, <2>3, ChangedLeaf
  <2>5. \A p \in PrivateLeaf : changed[p] \in {Private[h], Missing}
    BY <1>5, <2>1, <2>2 DEF Section, PrivateLeaf, Leaf
  <2>. HIDE DEF changed
  <2>6. doc \in Document
    BY <1>1, <2>4 DEF Document
  <2>7. doc.hooks = config[h].hooks /\ doc.section = changed
    OBVIOUS
  <2>8. config' = [config EXCEPT ![h] = doc]
    <3>1. config' = [config EXCEPT ![h] = [config[h] EXCEPT !.section = changed]]
      BY <1>5 DEF section, changed
    <3>. QED
      BY <1>3, <3>1
  <2>. HIDE DEF doc
  <2>9. Own(h, doc)
    BY <1>1, <2>5, <2>6, <2>7, OwnForm
  <2>. QED
    BY <1>4, <2>6, <2>8, <2>9
<1>6. CASE config' = [config EXCEPT ![h].section = Missing]
  <2>. DEFINE doc == [section |-> Missing, hooks |-> config[h].hooks]
  <2>1. doc \in Document /\ config' = [config EXCEPT ![h] = doc]
    <3>1. config' = [config EXCEPT ![h] = [config[h] EXCEPT !.section = Missing]]
      BY <1>6
    <3>. QED
      BY <1>1, <1>3, <3>1 DEF Document
  <2>2. doc.hooks = config[h].hooks /\ doc.section = Missing
    OBVIOUS
  <2>. HIDE DEF doc
  <2>3. Own(h, doc)
    BY <1>1, <2>1, <2>2, OwnForm
  <2>. QED
    BY <1>4, <2>1, <2>3
<1>7. ASSUME NEW w \in Word, NEW t \in {Private[h], Missing},
             config' = [config EXCEPT ![h].hooks = [name |-> w, token |-> t]]
      PROVE  ConfigIInv'
  <2>. DEFINE doc == [section |-> config[h].section, hooks |-> [name |-> w, token |-> t]]
  <2>1. doc \in Document /\ config' = [config EXCEPT ![h] = doc]
    <3>1. config' = [config EXCEPT ![h] = [config[h] EXCEPT !.hooks = [name |-> w, token |-> t]]]
      BY <1>7
    <3>2. [name |-> w, token |-> t] \in Hooks
      BY <1>7 DEF Hooks, Credential
    <3>. QED
      BY <1>1, <1>3, <3>1, <3>2 DEF Document
  <2>2. doc.hooks.token = t /\ doc.section = config[h].section
    OBVIOUS
  <2>. HIDE DEF doc
  <2>3. Own(h, doc)
    BY <1>1, <1>7, <2>1, <2>2, OwnForm
  <2>. QED
    BY <1>4, <2>1, <2>3
<1>. QED
  BY <1>5, <1>6, <1>7 DEF EditDocument

(* A slip, or its correction, keeps what the file holds.                   *)
LEMMA SlipKeeps ==
    ASSUME ConfigIInv, NEW h \in Host, EditConfig(h), Slip(h)
    PROVE  ConfigIInv'
<1>1. config[h] \in Document \cup Broken /\ Own(h, config[h])
  BY DEF ConfigIInv, ConfigTypeOK, PrivateStaysHome, Own
<1>2. EditFrame
  BY EditLeavesTheRest
<1>3. CASE Parses(config[h])
  <2>. DEFINE doc == [broken |-> config[h]]
  <2>1. config[h] \in Document /\ config' = [config EXCEPT ![h] = doc]
    BY <1>3 DEF Slip, Parses
  <2>2. doc \in Broken
    BY <2>1 DEF Broken
  <2>3. Own(h, doc)
    BY <1>1, <1>3, <2>1, SlipForm DEF Own, PrivateOf
  <2>. HIDE DEF doc
  <2>. QED
    BY <1>2, <2>1, <2>2, <2>3, OneFile DEF EditFrame
<1>4. CASE ~ Parses(config[h])
  <2>. DEFINE doc == config[h].broken
  <2>1. doc \in Document /\ config' = [config EXCEPT ![h] = doc]
    BY <1>1, <1>4 DEF Slip, Parses, Broken
  <2>2. Own(h, doc)
    BY <1>1, <1>4, <2>1 DEF Own, PrivateOf, Parses
  <2>. QED
    BY <1>2, <2>1, <2>2, OneFile DEF EditFrame
<1>. QED
  BY <1>3, <1>4

(* Every step of config.json preserves the invariant.                      *)
LEMMA ConfigStepIInv == ConfigIInv /\ [ConfigNext]_configVars => ConfigIInv'
<1>1. ConfigIInv /\ UNCHANGED configVars => ConfigIInv'
  <2>. SUFFICES ASSUME ConfigIInv, UNCHANGED configVars
                PROVE  ConfigIInv'
    OBVIOUS
  <2>1. config' = config /\ lastFile' = lastFile /\ mainFile' = mainFile
        /\ configEdits' = configEdits
    BY DEF configVars
  <2>2. ConfigTypeOK'
    BY <2>1 DEF ConfigIInv, ConfigTypeOK
  <2>3. PrivateStaysHome'
    BY <2>1 DEF ConfigIInv, PrivateStaysHome, Clean, Parses, PrivateOf, PrivateLeaves
  <2>. QED
    BY <2>2, <2>3 DEF ConfigIInv
<1>2. ASSUME ConfigIInv, NEW h \in Host, EditConfig(h)
      PROVE  ConfigIInv'
  BY <1>2, DocumentEditKeeps, SlipKeeps DEF EditConfig
<1>. QED
  BY <1>1, <1>2, SyncKeeps DEF ConfigNext

(* The inductive invariant: a file is a document or the text of one with a *)
(* slip in it, what parses on the backend is clean, and a machine holds no *)
(* credential but its own.                                                 *)
THEOREM ConfigInvariance == ConfigSpec => []ConfigIInv
<1>. QED
  BY ConfigInitIInv, ConfigStepIInv, PTL DEF ConfigSpec

(* Whatever is edited, merged, mistyped and deleted on any number of       *)
(* machines, no credential and no local-only key leaves its machine in a   *)
(* file that is valid JSON, and none arrives on another machine.           *)
THEOREM CredentialsStayHome == ConfigSpec => []PrivateStaysHome
<1>1. ConfigIInv => PrivateStaysHome
  BY DEF ConfigIInv
<1>. QED
  BY <1>1, ConfigInvariance, PTL

(* A live file that does not parse is written over by a sync only when the *)
(* repository had its text already: otherwise the merge has the text for   *)
(* its result, and leaves the file, or cannot be made.                     *)
LEMMA BrokenFileIsKnown ==
    ASSUME ConfigIInv, NEW h \in Host, SyncConfig(h),
           ~ Parses(config[h]), lastFile[h] # config[h]
    PROVE  config'[h] = config[h]
<1>1. Outgoing(h) = config[h]
  BY DEF Outgoing
<1>2. MergedFile(h) = config[h]
  BY <1>1 DEF SyncConfig, Mergeable, MergedFile, MergeFile
<1>3. config'[h] = Restored(config[h], config[h])
  BY <1>2 DEF SyncConfig, ConfigIInv, ConfigTypeOK
<1>. QED
  BY <1>3 DEF Restored

(* And no sync takes one away from the machine that has it.                *)
THEOREM CredentialsAreKept == ConfigSpec => OwnLeavesKept
<1>. DEFINE Leaves(h) == config[h].section # Missing =>
                            /\ config'[h].section # Missing
                            /\ \A leaf \in PrivateLeaf :
                                 config'[h].section[leaf] = config[h].section[leaf]
            Known(h) == config'[h] # config[h] => lastFile[h] = config[h]
            Keeps == \A h \in Host :
                        SyncConfig(h) => IF Parses(config[h]) THEN Leaves(h) ELSE Known(h)
<1>1. ConfigIInv /\ [ConfigNext]_configVars => [Keeps]_configVars
  <2>. SUFFICES ASSUME ConfigIInv, NEW h \in Host, SyncConfig(h)
                PROVE  IF Parses(config[h]) THEN Leaves(h) ELSE Known(h)
    OBVIOUS
  <2>1. CASE Parses(config[h])
    <3>1. /\ MergedFile(h) \in Document \cup Broken /\ Clean(MergedFile(h))
          /\ config[h] \in Document \cup Broken
      BY MergedClean DEF SyncConfig, ConfigIInv, ConfigTypeOK
    <3>2. config'[h] = Restored(MergedFile(h), config[h])
      BY DEF SyncConfig, ConfigIInv, ConfigTypeOK
    <3>3. Leaves(h)
      BY <2>1, <3>1, <3>2, RestoredOwn
    <3>. QED
      BY <2>1, <3>3
  <2>2. CASE ~ Parses(config[h])
    <3>1. Known(h)
      BY <2>2, BrokenFileIsKnown
    <3>. QED
      BY <2>2, <3>1
  <2>. QED
    BY <2>1, <2>2
<1>. QED
  BY <1>1, ConfigInvariance, PTL DEF ConfigSpec, OwnLeavesKept

(* The larger of two values is the same from either side; a deletion, and  *)
(* a key one side left alone, never come to that.                          *)
LEMMA KeySymmetric ==
    ASSUME NEW b, NEW o, NEW t,
           o # Missing /\ t # Missing =>
               /\ {RankOfJson(o), RankOfJson(t)} \subseteq Nat
               /\ RankOfJson(o) = RankOfJson(t) => o = t
    PROVE  MergeKey(b, o, t, MergeValue) = MergeKey(b, t, o, MergeValue)
<1>1. o # Missing /\ t # Missing => Larger(o, t) = Larger(t, o)
  BY DEF Larger
<1>. QED
  BY <1>1 DEF MergeKey, MergeValue

(* Merging two sections without credentials does not depend on which       *)
(* machine is ours.                                                        *)
LEMMA ObjectSymmetric ==
    ASSUME NEW b, NEW o, CleanSection(o), NEW t, CleanSection(t)
    PROVE  MergeObject(b, o, t) = MergeObject(b, t, o)
<1>. DEFINE before == IF b = Missing THEN EmptySection ELSE b
<1>1. ASSUME NEW leaf \in Leaf
      PROVE  MergeKey(before[leaf], o[leaf], t[leaf], MergeValue)
                 = MergeKey(before[leaf], t[leaf], o[leaf], MergeValue)
  <2>1. CASE leaf = "name"
    <3>1. o[leaf] \in Word \cup {Missing} /\ t[leaf] \in Word \cup {Missing}
      BY <2>1 DEF CleanSection, Section
    <3>2. o[leaf] # Missing /\ t[leaf] # Missing =>
             /\ {RankOfJson(o[leaf]), RankOfJson(t[leaf])} \subseteq Nat
             /\ RankOfJson(o[leaf]) = RankOfJson(t[leaf]) => o[leaf] = t[leaf]
      BY <3>1, JsonAssumption
    <3>. QED
      BY <3>2, KeySymmetric
  <2>2. CASE leaf # "name"
    BY <2>2 DEF CleanSection, Leaf, PrivateLeaf, MergeKey
  <2>. QED
    BY <2>1, <2>2
<1>. HIDE DEF before
<1>2. /\ MergeObject(b, o, t) =
             [leaf \in Leaf |-> MergeKey(before[leaf], o[leaf], t[leaf], MergeValue)]
      /\ MergeObject(b, t, o) =
             [leaf \in Leaf |-> MergeKey(before[leaf], t[leaf], o[leaf], MergeValue)]
  BY DEF MergeObject, before
<1>. QED
  BY <1>1, <1>2

(* The larger of two documents key by key: what leaves a machine and what  *)
(* it meets hold no credential, so every tie is between values with an     *)
(* order.                                                                  *)
LEMMA DocumentSymmetric ==
    ASSUME NEW b, NEW o \in Document, Clean(o), NEW t \in Document, Clean(t)
    PROVE  MergeJson(b, o, t) = MergeJson(b, t, o)
<1>1. /\ o.section = Missing \/ CleanSection(o.section)
      /\ t.section = Missing \/ CleanSection(t.section)
      /\ o.hooks.token = Missing /\ t.hooks.token = Missing
      /\ o.hooks \in Hooks /\ t.hooks \in Hooks
  BY CleanForm DEF Document
<1>2. MergeKey(b.section, o.section, t.section, MergeObject)
         = MergeKey(b.section, t.section, o.section, MergeObject)
  <2>1. o.section # Missing /\ t.section # Missing =>
           MergeObject(b.section, o.section, t.section)
               = MergeObject(b.section, t.section, o.section)
    BY <1>1, ObjectSymmetric
  <2>. QED
    BY <2>1 DEF MergeKey
<1>3. MergeKey(b.hooks, o.hooks, t.hooks, MergeValue)
         = MergeKey(b.hooks, t.hooks, o.hooks, MergeValue)
  <2>1. /\ o.hooks.name \in Word /\ t.hooks.name \in Word
        /\ o.hooks = [name |-> o.hooks.name, token |-> Missing]
        /\ t.hooks = [name |-> t.hooks.name, token |-> Missing]
    BY <1>1 DEF Hooks
  <2>2. /\ {RankOfJson(o.hooks), RankOfJson(t.hooks)} \subseteq Nat
        /\ RankOfJson(o.hooks) = RankOfJson(t.hooks) => o.hooks = t.hooks
    BY <2>1, JsonAssumption
  <2>. QED
    BY <2>2, KeySymmetric
<1>. QED
  BY <1>2, <1>3 DEF MergeJson

(* It does not matter which machine merges config.json, whether or not the *)
(* files parse.                                                            *)
THEOREM EitherSideMergesAlike == ConfigSpec => []JsonSymmetric
<1>1. ConfigIInv => JsonSymmetric
  <2>. SUFFICES ASSUME ConfigIInv, NEW h \in Host,
                       Mergeable(lastFile[h], Outgoing(h), mainFile)
                PROVE  MergedFile(h) = MergeFile(lastFile[h], mainFile, Outgoing(h))
    BY DEF JsonSymmetric
  <2>. DEFINE b == lastFile[h]
              o == Outgoing(h)
              t == mainFile
  <2>1. Clean(o) /\ Clean(t)
    BY OutgoingClean DEF ConfigIInv, PrivateStaysHome
  <2>2. MergedFile(h) = MergeFile(b, o, t)
    BY DEF MergedFile
  <2>3. Mergeable(b, o, t)
    OBVIOUS
  <2>. HIDE DEF b, o, t
  <2>4. ASSUME o = t \/ b \in {o, t}
        PROVE  MergeFile(b, o, t) = MergeFile(b, t, o)
    BY <2>4 DEF MergeFile
  <2>5. ASSUME ~ (o = t \/ b \in {o, t})
        PROVE  MergeFile(b, o, t) = MergeFile(b, t, o)
    <3>1. o \in Document /\ t \in Document
      BY <2>3, <2>5 DEF Mergeable, Parses
    <3>2. MergeFile(b, o, t) = MergeJson(b, o, t) /\ MergeFile(b, t, o) = MergeJson(b, t, o)
      BY <2>5 DEF MergeFile
    <3>. QED
      BY <2>1, <3>1, <3>2, DocumentSymmetric
  <2>. QED
    BY <2>2, <2>4, <2>5 DEF b, o, t
<1>. QED
  BY <1>1, ConfigInvariance, PTL

-----------------------------------------------------------------------------
(* Folder paths: any machines, any homes and folders, any path maps.       *)

(* A set of numbers with a member has a least one.                         *)
LEMMA LeastNumber ==
    ASSUME NEW S \in SUBSET Nat, S # {}
    PROVE  \E i \in S : \A j \in S : i <= j
<1>. DEFINE R == OpToRel(<, Nat)
<1>1. IsWellFoundedOn(R, Nat)
  BY NatLessThanWellFounded
<1>2. R = {ss \in Nat \X Nat : ss[1] < ss[2]}
  BY Zenon DEF OpToRel
<1>. HIDE DEF R
<1>3. PICK i \in S : \A j \in S : <<j, i>> \notin R
  BY <1>1, WFMin
<1>4. ASSUME NEW j \in S
      PROVE  i <= j
  <2>1. i \in Nat /\ j \in Nat /\ <<j, i>> \in Nat \X Nat
    OBVIOUS
  <2>2. ~ (j < i)
    BY <1>2, <1>3, <2>1
  <2>. QED
    BY <2>1, <2>2
<1>. QED
  BY <1>4

(* A directory is what it lies under, and then what is below.              *)
LEMMA CutAndPaste ==
    ASSUME NEW dir \in Dir, NEW top \in Dir, Under(dir, top)
    PROVE  Below(dir, top) \in Dir /\ top \o Below(dir, top) = dir
<1>1. /\ Len(top) \in Nat /\ Len(dir) \in Nat /\ Len(top) <= Len(dir)
      /\ SubSeq(dir, 1, Len(top)) = top
  BY DEF Under, Dir
<1>2. \A i \in 1 .. Len(dir) : dir[i] \in Part
  BY ElementOfSeq DEF Dir
<1>3. Below(dir, top) \in Dir
  BY <1>1, <1>2, SubSeqProperties DEF Below, Dir
<1>4. SubSeq(dir, 1, Len(top)) \o SubSeq(dir, Len(top) + 1, Len(dir)) = SubSeq(dir, 1, Len(dir))
  <2>. DEFINE k == Len(top)
              n == Len(dir)
  <2>1. dir \in Seq(Part) /\ 1 \in 1 .. n + 1 /\ k \in 1 - 1 .. n /\ n \in k .. n
    BY <1>1 DEF Dir
  <2>. HIDE DEF k, n
  <2>2. SubSeq(dir, 1, k) \o SubSeq(dir, k + 1, n) = SubSeq(dir, 1, n)
    BY <2>1, ConcatAdjacentSubSeq DEF n
  <2>. QED
    BY <2>2 DEF k, n
<1>5. SubSeq(dir, 1, Len(dir)) = dir
  BY SubSeqFull DEF Dir
<1>. QED
  BY <1>1, <1>3, <1>4, <1>5 DEF Below

(* Of the mappings that cover a directory there is a closest one.          *)
LEMMA ClosestCovers ==
    ASSUME PathTypeOK, NEW m \in Machine, NEW dir \in Dir, Covering(m, dir) # {}
    PROVE  Closest(m, dir) \in Covering(m, dir)
<1>1. \A n \in Covering(m, dir) :
         pathMap[m][n] \in Dir /\ Len(pathMap[m][n]) \in Nat /\ Len(pathMap[m][n]) <= Len(dir)
  BY DEF PathTypeOK, Covering, Declared, Under, Dir
<1>2. Len(dir) \in Nat
  BY DEF Dir
<1>. DEFINE left == {Len(dir) - Len(pathMap[m][n]) : n \in Covering(m, dir)}
<1>3. left \in SUBSET Nat /\ left # {}
  BY <1>1, <1>2
<1>4. PICK d \in left : \A e \in left : d <= e
  BY <1>3, LeastNumber
<1>5. PICK n \in Covering(m, dir) : d = Len(dir) - Len(pathMap[m][n])
  BY <1>4
<1>6. ASSUME NEW o \in Covering(m, dir)
      PROVE  Len(pathMap[m][o]) <= Len(pathMap[m][n])
  <2>1. d <= Len(dir) - Len(pathMap[m][o])
    BY <1>4
  <2>. QED
    BY <1>1, <1>2, <1>5, <2>1
<1>. QED
  BY <1>5, <1>6 DEF Closest

(* The portable form of a path is a path.                                  *)
LEMMA PortablePath ==
    ASSUME PathTypeOK, NEW m \in Machine, NEW path \in Path
    PROVE  ToPortable(m, path) \in Path
<1>1. path.rest \in Dir /\ path.root \in {"/", "~"} \cup Name
  BY DEF Path
<1>2. CASE path.root # "/"
  BY <1>2 DEF ToPortable
<1>3. CASE path.root = "/" /\ Covering(m, path.rest) # {}
  <2>. DEFINE n == Closest(m, path.rest)
  <2>1. n \in Covering(m, path.rest)
    BY <1>1, <1>3, ClosestCovers
  <2>2. n \in Name /\ pathMap[m][n] \in Dir /\ Under(path.rest, pathMap[m][n])
    BY <2>1 DEF Covering, Declared, PathTypeOK
  <2>3. Below(path.rest, pathMap[m][n]) \in Dir
    BY <1>1, <2>2, CutAndPaste
  <2>4. ToPortable(m, path) = [root |-> n, rest |-> Below(path.rest, pathMap[m][n])]
    BY <1>3 DEF ToPortable
  <2>. HIDE DEF n
  <2>. QED
    BY <2>2, <2>3, <2>4 DEF Path
<1>4. CASE /\ path.root = "/" /\ Covering(m, path.rest) = {} /\ Under(path.rest, Home[m])
  <2>1. Below(path.rest, Home[m]) \in Dir
    BY <1>1, <1>4, CutAndPaste, PathAssumption
  <2>2. ToPortable(m, path) = [root |-> "~", rest |-> Below(path.rest, Home[m])]
    BY <1>4 DEF ToPortable
  <2>. QED
    BY <2>1, <2>2 DEF Path
<1>5. CASE /\ path.root = "/" /\ Covering(m, path.rest) = {} /\ ~ Under(path.rest, Home[m])
  BY <1>5 DEF ToPortable
<1>. QED
  BY <1>2, <1>3, <1>4, <1>5

(* The local form of a path is a path, stays what it is when it is made    *)
(* local once more, and is the path itself when that is absolute.          *)
LEMMA LocalPath ==
    ASSUME PathTypeOK, NEW m \in Machine, NEW path \in Path
    PROVE  /\ ToLocal(m, path) \in Path
           /\ ToLocal(m, ToLocal(m, path)) = ToLocal(m, path)
           /\ path.root = "/" => ToLocal(m, path) = path
<1>1. path.rest \in Dir /\ path.root \in {"/", "~"} \cup Name
  BY DEF Path
<1>2. "/" \notin Declared(m)
  BY PathAssumption DEF Declared
<1>3. \A dir \in Dir : Absolute(dir) \in Path /\ ToLocal(m, Absolute(dir)) = Absolute(dir)
  BY <1>2 DEF Absolute, Path, ToLocal
<1>4. CASE path.root = "~"
  <2>1. Home[m] \o path.rest \in Dir
    BY <1>1, PathAssumption DEF Dir
  <2>. QED
    BY <1>3, <1>4, <2>1 DEF ToLocal
<1>5. CASE path.root # "~" /\ path.root \in Declared(m)
  <2>1. pathMap[m][path.root] \in Dir
    BY <1>5 DEF Declared, PathTypeOK
  <2>2. pathMap[m][path.root] \o path.rest \in Dir
    BY <1>1, <2>1 DEF Dir
  <2>. QED
    BY <1>2, <1>3, <1>5, <2>2 DEF ToLocal
<1>6. CASE path.root # "~" /\ path.root \notin Declared(m)
  BY <1>6 DEF ToLocal
<1>. QED
  BY <1>4, <1>5, <1>6

(* A path that was made portable means the same folder on this machine.    *)
LEMMA RoundTrip ==
    ASSUME PathTypeOK, NEW m \in Machine, NEW path \in Path
    PROVE  ToLocal(m, ToPortable(m, path)) = ToLocal(m, path)
<1>1. path.rest \in Dir /\ (path.root = "/" => path = Absolute(path.rest))
  BY DEF Path, Absolute
<1>2. CASE path.root # "/"
  BY <1>2 DEF ToPortable
<1>3. CASE path.root = "/" /\ Covering(m, path.rest) # {}
  <2>. DEFINE n == Closest(m, path.rest)
              below == Below(path.rest, pathMap[m][n])
  <2>1. n \in Covering(m, path.rest)
    BY <1>1, <1>3, ClosestCovers
  <2>2. n \in Declared(m) /\ pathMap[m][n] \in Dir /\ Under(path.rest, pathMap[m][n])
    BY <2>1 DEF Covering, Declared, PathTypeOK
  <2>3. n # "~"
    BY <2>2, PathAssumption DEF Declared
  <2>4. pathMap[m][n] \o below = path.rest
    BY <1>1, <2>2, CutAndPaste
  <2>5. ToPortable(m, path) = [root |-> n, rest |-> below]
    BY <1>3 DEF ToPortable
  <2>. HIDE DEF n, below
  <2>6. ToLocal(m, ToPortable(m, path)) = Absolute(pathMap[m][n] \o below)
    BY <2>2, <2>3, <2>5 DEF ToLocal
  <2>. QED
    BY <1>1, <1>3, <2>4, <2>6, LocalPath
<1>4. CASE /\ path.root = "/" /\ Covering(m, path.rest) = {} /\ Under(path.rest, Home[m])
  <2>. DEFINE below == Below(path.rest, Home[m])
  <2>1. Home[m] \o below = path.rest
    BY <1>1, <1>4, CutAndPaste, PathAssumption
  <2>2. ToPortable(m, path) = [root |-> "~", rest |-> below]
    BY <1>4 DEF ToPortable
  <2>. HIDE DEF below
  <2>3. ToLocal(m, ToPortable(m, path)) = Absolute(Home[m] \o below)
    BY <2>2 DEF ToLocal
  <2>. QED
    BY <1>1, <1>4, <2>1, <2>3, LocalPath
<1>5. CASE /\ path.root = "/" /\ Covering(m, path.rest) = {} /\ ~ Under(path.rest, Home[m])
  BY <1>5 DEF ToPortable
<1>. QED
  BY <1>2, <1>3, <1>4, <1>5

(* The pass over the rows that Rewritten makes, as a function of how many  *)
(* rows it has been at.                                                    *)
RowStep(m, direction, table, i) ==
    IF table[i] = NoRow THEN table
    ELSE Updated(table, i, Translate(m, table[i], direction))

IsPass(m, direction, n, f) ==
    f = [i \in 0 .. n |-> IF i = 0 THEN sources[m] ELSE RowStep(m, direction, f[i - 1], i)]

Pass(m, direction) == CHOOSE f : IsPass(m, direction, Rows, f)

(* The rewritten table is what a pass that follows the loop of the repair  *)
(* ends with.                                                              *)
LEMMA RewrittenIsPass ==
    ASSUME NEW m, NEW direction
    PROVE  Rewritten(m, direction) = Pass(m, direction)[Rows]
BY DEF Rewritten, Pass, IsPass, RowStep

(* There is such a pass: the shortest one that cannot be made could be     *)
(* made from the one before it.                                            *)
LEMMA PassExists ==
    ASSUME NEW m, NEW direction
    PROVE  IsPass(m, direction, Rows, Pass(m, direction))
<1>. DEFINE stuck == {n \in Nat : ~ \E f : IsPass(m, direction, n, f)}
<1>1. stuck = {}
  <2>. SUFFICES ASSUME stuck # {}
                PROVE  FALSE
    OBVIOUS
  <2>1. PICK n \in stuck : \A k \in stuck : n <= k
    BY LeastNumber
  <2>2. CASE n = 0
    <3>1. IsPass(m, direction, 0, [i \in 0 .. 0 |-> sources[m]])
      BY DEF IsPass
    <3>. QED
      BY <2>1, <2>2, <3>1
  <2>3. CASE n # 0
    <3>1. n \in Nat /\ n - 1 \in Nat /\ n - 1 \notin stuck
      BY <2>1, <2>3
    <3>2. PICK f : IsPass(m, direction, n - 1, f)
      BY <3>1
    <3>. DEFINE g == [i \in 0 .. n |->
                        IF i = n THEN RowStep(m, direction, f[n - 1], n) ELSE f[i]]
    <3>3. \A i \in 0 .. n - 1 :
             f[i] = IF i = 0 THEN sources[m] ELSE RowStep(m, direction, f[i - 1], i)
      BY <3>2 DEF IsPass
    <3>4. \A i \in 0 .. n :
             g[i] = IF i = 0 THEN sources[m] ELSE RowStep(m, direction, g[i - 1], i)
      <4>. SUFFICES ASSUME NEW i \in 0 .. n
                    PROVE  g[i] = IF i = 0 THEN sources[m] ELSE RowStep(m, direction, g[i - 1], i)
        OBVIOUS
      <4>1. CASE i = n
        <5>1. g[n - 1] = f[n - 1] /\ g[n] = RowStep(m, direction, f[n - 1], n)
          BY <3>1
        <5>. HIDE DEF g
        <5>. QED
          BY <2>3, <4>1, <5>1
      <4>2. CASE i = 0
        <5>1. g[0] = f[0] /\ f[0] = sources[m]
          BY <2>3, <3>1, <3>3
        <5>. HIDE DEF g
        <5>. QED
          BY <4>2, <5>1
      <4>3. CASE i # n /\ i # 0
        <5>1. i \in 0 .. n - 1 /\ i - 1 \in 0 .. n - 1
          BY <3>1, <4>3
        <5>2. g[i] = f[i] /\ g[i - 1] = f[i - 1]
          BY <3>1, <4>3, <5>1
        <5>3. f[i] = RowStep(m, direction, f[i - 1], i)
          BY <3>3, <4>3, <5>1
        <5>. HIDE DEF g
        <5>. QED
          BY <4>3, <5>2, <5>3
      <4>. QED
        BY <4>1, <4>2, <4>3
    <3>5. g = [i \in 0 .. n |-> g[i]]
      OBVIOUS
    <3>. HIDE DEF g
    <3>6. IsPass(m, direction, n, g)
      BY <3>4, <3>5 DEF IsPass
    <3>. QED
      BY <2>1, <3>6
  <2>. QED
    BY <2>2, <2>3
<1>2. \E f : IsPass(m, direction, Rows, f)
  BY <1>1, PathAssumption
<1>. QED
  BY <1>2 DEF Pass

(* One row rewritten: no row goes, and every row means the same folder.    *)
LEMMA RowStepKeeps ==
    ASSUME PathTypeOK, NEW m \in Machine, NEW direction \in Directions,
           NEW table \in Table, NEW i \in Id
    PROVE  /\ RowStep(m, direction, table, i) \in Table
           /\ Decoded(m, RowStep(m, direction, table, i)) = Decoded(m, table)
<1>1. CASE RowStep(m, direction, table, i) = table
  BY <1>1
<1>2. CASE RowStep(m, direction, table, i) # table
  <2>. DEFINE new == Translate(m, table[i], direction)
  <2>1. table[i] \in Path /\ RowStep(m, direction, table, i) = [table EXCEPT ![i] = new]
    BY <1>2 DEF RowStep, Updated, Table
  <2>2. new \in Path /\ ToLocal(m, new) = ToLocal(m, table[i])
    BY <2>1, PortablePath, LocalPath, RoundTrip DEF Translate
  <2>. HIDE DEF new
  <2>3. [table EXCEPT ![i] = new] \in Table
    BY <2>2 DEF Table
  <2>4. Decoded(m, [table EXCEPT ![i] = new]) = Decoded(m, table)
    BY <2>1, <2>2, PathAssumption DEF Decoded, Each, Table
  <2>. QED
    BY <2>1, <2>3, <2>4
<1>. QED
  BY <1>1, <1>2

(* The whole repair, row after row.                                        *)
LEMMA RewrittenKeeps ==
    ASSUME PathTypeOK, NEW m \in Machine, NEW direction \in Directions
    PROVE  /\ Rewritten(m, direction) \in Table
           /\ Decoded(m, Rewritten(m, direction)) = Decoded(m, sources[m])
<1>. DEFINE pass == Pass(m, direction)
            Good(table) == table \in Table /\ Decoded(m, table) = Decoded(m, sources[m])
            bad == {n \in 0 .. Rows : ~ Good(pass[n])}
<1>1. Rows \in Nat
  BY PathAssumption
<1>2. \A i \in 0 .. Rows :
         pass[i] = IF i = 0 THEN sources[m] ELSE RowStep(m, direction, pass[i - 1], i)
  <2>1. IsPass(m, direction, Rows, pass)
    BY PassExists
  <2>. HIDE DEF pass
  <2>. QED
    BY <2>1 DEF IsPass
<1>. HIDE DEF pass
<1>3. bad = {}
  <2>. SUFFICES ASSUME bad # {}
                PROVE  FALSE
    OBVIOUS
  <2>1. PICK n \in bad : \A k \in bad : n <= k
    <3>1. bad \in SUBSET Nat
      <4>. HIDE DEF Good
      <4>. QED
        BY <1>1
    <3>. HIDE DEF bad
    <3>. QED
      BY <3>1, LeastNumber
  <2>2. n # 0
    BY <1>1, <1>2, <2>1 DEF PathTypeOK
  <2>3. n \in Id /\ n - 1 \in 0 .. Rows /\ n - 1 \notin bad
    BY <1>1, <2>1, <2>2 DEF Id
  <2>4. Good(pass[n - 1])
    BY <2>3
  <2>5. pass[n] = RowStep(m, direction, pass[n - 1], n)
    BY <1>2, <2>1, <2>2
  <2>6. Good(pass[n])
    BY <2>3, <2>4, <2>5, RowStepKeeps
  <2>. QED
    BY <2>1, <2>6
<1>4. Good(pass[Rows])
  BY <1>1, <1>3
<1>. QED
  BY <1>4, RewrittenIsPass DEF pass

(* Pack and unpack make tables of tables.                                  *)
LEMMA EncodedType ==
    ASSUME PathTypeOK, NEW m \in Machine
    PROVE  /\ Encoded(m) \in Table
           /\ \A table \in Table : Decoded(m, table) \in Table /\ Inserted(table) \in Table
<1>1. Encoded(m) \in Table
  BY PortablePath DEF Encoded, Each, Table, PathTypeOK
<1>2. \A table \in Table : Decoded(m, table) \in Table
  BY LocalPath DEF Decoded, Each, Table
<1>3. \A table \in Table : Inserted(table) \in Table
  BY DEF Inserted, Table
<1>. QED
  BY <1>1, <1>2, <1>3

(* The type of the path model holds at first.                              *)
LEMMA PathInitType == PathInit => PathTypeOK
<1>. SUFFICES ASSUME PathInit PROVE PathTypeOK
  OBVIOUS
<1>1. NoRows \in Table
  BY DEF NoRows, Table
<1>. QED
  BY <1>1, PathAssumption DEF PathInit, PathTypeOK

(* Every step of the path model keeps the type.                            *)
LEMMA PathStepType == PathTypeOK /\ [PathNext]_pathVars => PathTypeOK'
<1>. SUFFICES ASSUME PathTypeOK, [PathNext]_pathVars
              PROVE  PathTypeOK'
  OBVIOUS
<1>1. ASSUME NEW m \in Machine, Sync(m)
      PROVE  PathTypeOK'
  <2>1. Merge(m) \in Table
    <3>1. Encoded(m) \in Table /\ lastTree[m] \in Table /\ mainTree \in Table
      BY EncodedType DEF PathTypeOK
    <3>. QED
      BY <3>1 DEF Merge, MergedPath, Table
  <2>2. Inserted(Decoded(m, Merge(m))) \in Table
    BY <2>1, EncodedType
  <2>. QED
    BY <1>1, <2>1, <2>2 DEF Sync, PathTypeOK
<1>2. ASSUME NEW m \in Machine, NEW direction \in Directions, Repair(m, direction)
      PROVE  PathTypeOK'
  BY <1>2, RewrittenKeeps DEF Repair, PathTypeOK
<1>3. ASSUME NEW m \in Machine, Add(m)
      PROVE  PathTypeOK'
  <2>1. PICK i \in Id \ used, dir \in Folders[m] :
           /\ used' = used \cup {i}
           /\ sources' = [sources EXCEPT ![m][i] = Absolute(dir)]
           /\ UNCHANGED <<pathMap, malformed, lastTree, mainTree, mapEdits>>
    BY <1>3 DEF Add
  <2>2. Absolute(dir) \in Path
    BY PathAssumption DEF Absolute, Path
  <2>3. [sources[m] EXCEPT ![i] = Absolute(dir)] \in Table
    BY <2>2 DEF PathTypeOK, Table
  <2>4. sources' = [sources EXCEPT ![m] = [sources[m] EXCEPT ![i] = Absolute(dir)]]
    BY <2>1
  <2>. QED
    BY <2>1, <2>3, <2>4 DEF PathTypeOK
<1>4. ASSUME NEW m \in Machine, Remove(m)
      PROVE  PathTypeOK'
  <2>1. PICK i \in Id : sources' = [sources EXCEPT ![m][i] = NoRow]
    BY <1>4 DEF Remove
  <2>2. [sources[m] EXCEPT ![i] = NoRow] \in Table
    BY DEF PathTypeOK, Table
  <2>3. sources' = [sources EXCEPT ![m] = [sources[m] EXCEPT ![i] = NoRow]]
    BY <2>1
  <2>. QED
    BY <1>4, <2>2, <2>3 DEF Remove, PathTypeOK
<1>5. ASSUME NEW m \in Machine, EditMap(m)
      PROVE  PathTypeOK'
  <2>1. mapEdits' \in 0 .. MaxMapEdits
    BY <1>5, PathAssumption DEF EditMap, PathTypeOK
  <2>2. CASE \E n \in Name, dir \in Folders[m] \cup {NoRow} :
                pathMap' = [pathMap EXCEPT ![m][n] = dir] /\ UNCHANGED malformed
    <3>1. PICK n \in Name, dir \in Folders[m] \cup {NoRow} :
             pathMap' = [pathMap EXCEPT ![m][n] = dir] /\ UNCHANGED malformed
      BY <2>2
    <3>2. [pathMap[m] EXCEPT ![n] = dir] \in [Name -> Dir \cup {NoRow}]
      BY PathAssumption DEF PathTypeOK
    <3>3. pathMap' = [pathMap EXCEPT ![m] = [pathMap[m] EXCEPT ![n] = dir]]
      BY <3>1
    <3>. QED
      BY <1>5, <2>1, <3>1, <3>2, <3>3 DEF EditMap, PathTypeOK
  <2>3. CASE malformed' = [malformed EXCEPT ![m] = ~ @] /\ UNCHANGED pathMap
    BY <1>5, <2>1, <2>3 DEF EditMap, PathTypeOK
  <2>. QED
    BY <1>5, <2>2, <2>3 DEF EditMap
<1>6. CASE UNCHANGED pathVars
  BY <1>6 DEF pathVars, PathTypeOK
<1>. QED
  BY <1>1, <1>2, <1>3, <1>4, <1>5, <1>6 DEF PathNext

(* Every tree and database holds paths, and every map directories.         *)
THEOREM PathsTypeCorrect == PathSpec => []PathTypeOK
<1>. QED
  BY PathInitType, PathStepType, PTL DEF PathSpec

(* No sync takes a folder away that no other machine touched, whatever was *)
(* mapped, unmapped or malformed since the last one: encoding and decoding *)
(* cancel, and of the rows that now name one folder the last one inserted  *)
(* is still there.                                                         *)
THEOREM FoldersAreKept == PathSpec => FoldersStay
<1>1. ASSUME PathTypeOK, NEW m \in Machine, Sync(m), NEW i \in Id,
             sources[m][i] # NoRow, sources[m][i].root = "/", mainTree[i] = lastTree[m][i]
      PROVE  Holds(sources'[m], sources[m][i])
  <2>. DEFINE path == sources[m][i]
              table == Decoded(m, Merge(m))
  <2>1. path \in Path
    BY <1>1 DEF PathTypeOK, Table
  <2>2. Encoded(m)[i] = ToPortable(m, path) /\ ToPortable(m, path) \in Path
    BY <1>1, <2>1, PortablePath DEF Encoded, Each
  <2>3. Merge(m)[i] = ToPortable(m, path)
    BY <1>1, <2>2 DEF Merge, MergedPath
  <2>4. table[i] = path
    <3>1. ToLocal(m, ToPortable(m, path)) = path
      BY <1>1, <2>1, RoundTrip, LocalPath
    <3>2. ToPortable(m, path) # NoRow
      BY <2>2, PathAssumption
    <3>. QED
      BY <2>3, <3>1, <3>2 DEF Decoded, Each
  <2>5. sources'[m] = Inserted(table)
    BY <1>1 DEF Sync, PathTypeOK
  <2>. HIDE DEF table, path
  <2>. DEFINE after == {Rows - j : j \in {k \in Id : table[k] = path}}
  <2>6. after \in SUBSET Nat /\ after # {}
    BY <2>4, PathAssumption DEF Id
  <2>7. PICK d \in after : \A e \in after : d <= e
    BY <2>6, LeastNumber
  <2>8. PICK j \in Id : table[j] = path /\ d = Rows - j
    BY <2>7
  <2>9. ASSUME NEW k \in Id, j < k
        PROVE  table[k] # table[j]
    <3>. SUFFICES ASSUME table[k] = path
                  PROVE  FALSE
      BY <2>8
    <3>1. d <= Rows - k
      BY <2>7
    <3>. QED
      BY <2>8, <2>9, <3>1, PathAssumption DEF Id
  <2>10. Inserted(table)[j] = path
    BY <2>8, <2>9 DEF Inserted
  <2>. QED
    BY <2>5, <2>10 DEF Holds, path
<1>2. PathTypeOK /\ [PathNext]_pathVars =>
        [\A m \in Machine : Sync(m) =>
            \A i \in Id :
                LET path == sources[m][i]
                IN  /\ path # NoRow /\ path.root = "/"
                    /\ mainTree[i] = lastTree[m][i]
                    => Holds(sources'[m], path)]_pathVars
  BY <1>1
<1>. QED
  BY <1>2, PathsTypeCorrect, PTL DEF PathSpec, FoldersStay

(* A manual repair in either direction drops no row and changes the folder *)
(* of none, for any table and any map, however its rows collide.           *)
THEOREM RepairsAreHarmless == PathSpec => RepairKeeps
<1>1. PathTypeOK /\ [PathNext]_pathVars =>
        [\A m \in Machine, direction \in Directions : Repair(m, direction) =>
            Decoded(m, sources'[m]) = Decoded(m, sources[m])]_pathVars
  <2>1. ASSUME PathTypeOK, NEW m \in Machine, NEW direction \in Directions, Repair(m, direction)
        PROVE  Decoded(m, sources'[m]) = Decoded(m, sources[m])
    <3>1. sources'[m] = Rewritten(m, direction)
      BY <2>1 DEF Repair, PathTypeOK
    <3>. QED
      BY <2>1, <3>1, RewrittenKeeps
  <2>. QED
    BY <2>1
<1>. QED
  BY <1>1, PathsTypeCorrect, PTL DEF PathSpec, RepairKeeps

-----------------------------------------------------------------------------
(* config.sh: any settings, any file, any number of requests.              *)

(* A value the list does not give is passed over.                          *)
LEMMA FirstOfTwo ==
    ASSUME NEW v, NEW w
    PROVE  FirstOf(<<v, w>>) = IF v # Empty THEN v ELSE w
<1>. DEFINE given == {i \in DOMAIN <<v, w>> : <<v, w>>[i] # Empty}
<1>1. given = (IF v # Empty THEN {1} ELSE {}) \cup (IF w # Empty THEN {2} ELSE {})
  OBVIOUS
<1>. QED
  BY <1>1 DEF FirstOf

(* The first of three settings that is not empty.                          *)
LEMMA FirstOfThree ==
    ASSUME NEW u, NEW v, NEW w
    PROVE  FirstOf(<<u, v, w>>) = IF u # Empty THEN u ELSE IF v # Empty THEN v ELSE w
<1>. DEFINE given == {i \in DOMAIN <<u, v, w>> : <<u, v, w>>[i] # Empty}
<1>1. given = (IF u # Empty THEN {1} ELSE {}) \cup (IF v # Empty THEN {2} ELSE {})
              \cup (IF w # Empty THEN {3} ELSE {})
  OBVIOUS
<1>. QED
  BY <1>1 DEF FirstOf

(* What the app shows as in effect is what a sync that starts now uses,    *)
(* whatever requests write over each other.  The exceptions it names are   *)
(* all there are: two orders of looking a value up that differ in the      *)
(* backend, in an empty export and in what they fall back to.              *)
THEOREM ShownIsInEffect == BackendSpec => []ToldIsUsed
<1>1. ToldIsUsed
  <2>. DEFINE Export(k) == Places(file, k) # {}
  <2>. SUFFICES ASSUME NEW k \in Key,
                       ~ (k = "SYNC_BACKEND" /\ Env[k] # Empty),
                       ~ (Export(k) /\ Value(file, k) = Empty /\ Env[k] # Empty),
                       ~ (/\ Export(k) /\ Last(file, k).by = User
                          /\ Expanded[Value(file, k)] # Value(file, k)),
                       ~ (/\ Value(file, k) = Empty /\ Env[k] = Empty
                          /\ AppDefault[k] # ScriptDefault[k])
                PROVE  Told(file, k) = Used(file, k)
    BY Zenon DEF ToldIsUsed
  <2>1. ~ Export(k) => Value(file, k) = Empty
    BY DEF Value
  <2>2. ShellValue(file, k) = Value(file, k)
    BY DEF ShellValue
  <2>. QED
    BY <2>1, <2>2, FirstOfTwo, FirstOfThree DEF Told, Used
<1>. QED
  BY <1>1, PTL

-----------------------------------------------------------------------------
(* What _write_config_values makes of the lines.                           *)

(* A key with a line has a last one.                                       *)
LEMMA LastIs ==
    ASSUME NEW seq \in Seq(Line), NEW k, Places(seq, k) # {}
    PROVE  \E i \in Places(seq, k) : Last(seq, k) = seq[i]
<1>. DEFINE left == {Len(seq) - i : i \in Places(seq, k)}
<1>1. Places(seq, k) \subseteq 1 .. Len(seq) /\ Len(seq) \in Nat
  BY DEF Places
<1>2. left \in SUBSET Nat /\ left # {}
  BY <1>1
<1>3. PICK d \in left : \A e \in left : d <= e
  <2>. HIDE DEF left
  <2>. QED
    BY <1>2, LeastNumber
<1>4. PICK last \in Places(seq, k) : d = Len(seq) - last
  BY <1>3
<1>5. ASSUME NEW j \in Places(seq, k)
      PROVE  j <= last
  <2>1. d <= Len(seq) - j
    BY <1>3
  <2>. QED
    BY <1>1, <1>4, <2>1
<1>. QED
  BY <1>5 DEF Last

(* The loop over the updates that have no line.                            *)
IsAppending(seq, updates, n, f) ==
    f = [i \in 0 .. n |->
            IF i = 0 THEN <<>>
            ELSE IF Places(seq, updates[i].key) = {} THEN Append(f[i - 1], updates[i])
            ELSE f[i - 1]]

Appending(seq, updates) == CHOOSE f : IsAppending(seq, updates, Len(updates), f)

(* The lines that are added are those of the loop over the updates.        *)
LEMMA NewLinesAppended ==
    ASSUME NEW seq, NEW updates
    PROVE  NewLines(seq, updates) = Appending(seq, updates)[Len(updates)]
BY DEF NewLines, Appending, IsAppending

(* There is such a loop: the shortest one that could not run could be made *)
(* from the one before it.                                                 *)
LEMMA AppendingExists ==
    ASSUME NEW seq, NEW updates, Len(updates) \in Nat
    PROVE  IsAppending(seq, updates, Len(updates), Appending(seq, updates))
<1>. DEFINE Next_(g, i) == IF Places(seq, updates[i].key) = {} THEN Append(g, updates[i]) ELSE g
            stuck == {n \in Nat : ~ \E f : IsAppending(seq, updates, n, f)}
<1>1. stuck = {}
  <2>. SUFFICES ASSUME stuck # {}
                PROVE  FALSE
    OBVIOUS
  <2>1. PICK n \in stuck : \A k \in stuck : n <= k
    BY LeastNumber
  <2>2. CASE n = 0
    <3>1. IsAppending(seq, updates, 0, [i \in 0 .. 0 |-> <<>>])
      BY DEF IsAppending
    <3>. QED
      BY <2>1, <2>2, <3>1
  <2>3. CASE n # 0
    <3>1. n \in Nat /\ n - 1 \in Nat /\ n - 1 \notin stuck
      BY <2>1, <2>3
    <3>2. PICK f : IsAppending(seq, updates, n - 1, f)
      BY <3>1
    <3>. DEFINE g == [i \in 0 .. n |-> IF i = n THEN Next_(f[n - 1], n) ELSE f[i]]
    <3>3. \A i \in 0 .. n - 1 : f[i] = IF i = 0 THEN <<>> ELSE Next_(f[i - 1], i)
      BY <3>2 DEF IsAppending
    <3>. HIDE DEF Next_
    <3>4. ASSUME NEW i \in 0 .. n
          PROVE  g[i] = IF i = 0 THEN <<>> ELSE Next_(g[i - 1], i)
      <4>1. CASE i = n
        <5>1. g[n - 1] = f[n - 1] /\ g[n] = Next_(f[n - 1], n)
          BY <3>1
        <5>. HIDE DEF g
        <5>. QED
          BY <2>3, <4>1, <5>1
      <4>2. CASE i = 0
        <5>1. g[0] = f[0] /\ f[0] = <<>>
          BY <2>3, <3>1, <3>3
        <5>. HIDE DEF g
        <5>. QED
          BY <4>2, <5>1
      <4>3. CASE i # n /\ i # 0
        <5>1. i \in 0 .. n - 1 /\ i - 1 \in 0 .. n - 1
          BY <3>1, <4>3
        <5>2. g[i] = f[i] /\ g[i - 1] = f[i - 1]
          BY <3>1, <4>3, <5>1
        <5>3. f[i] = Next_(f[i - 1], i)
          BY <3>3, <4>3, <5>1
        <5>. HIDE DEF g
        <5>. QED
          BY <4>3, <5>2, <5>3
      <4>. QED
        BY <4>1, <4>2, <4>3
    <3>5. g = [i \in 0 .. n |-> g[i]]
      OBVIOUS
    <3>. HIDE DEF g
    <3>6. IsAppending(seq, updates, n, g)
      BY <3>4, <3>5 DEF IsAppending, Next_
    <3>. QED
      BY <2>1, <3>6
  <2>. QED
    BY <2>2, <2>3
<1>2. \E f : IsAppending(seq, updates, Len(updates), f)
  BY <1>1
<1>. QED
  BY <1>2 DEF Appending

Distinct(seq) == \A i, j \in DOMAIN seq : seq[i].key = seq[j].key => i = j

(* The first n updates, of which those without a line in seq were added.   *)
Added(seq, updates, n, new) ==
    /\ new \in Seq(Line)
    /\ \A i \in 1 .. Len(new) : \E j \in 1 .. n :
          new[i] = updates[j] /\ Places(seq, updates[j].key) = {}
    /\ \A j \in 1 .. n : Places(seq, updates[j].key) = {} =>
          \E i \in 1 .. Len(new) : new[i] = updates[j]
    /\ Distinct(updates) => Distinct(new)

(* One turn of the loop that adds a line.                                  *)
LEMMA OneMoreLine ==
    ASSUME NEW seq \in Seq(Line), NEW updates \in Seq(Line), NEW n \in 1 .. Len(updates),
           NEW new, Added(seq, updates, n - 1, new),
           Places(seq, updates[n].key) = {}
    PROVE  Added(seq, updates, n, Append(new, updates[n]))
<1>. DEFINE more == Append(new, updates[n])
<1>1. /\ more \in Seq(Line) /\ Len(new) \in Nat /\ Len(more) = Len(new) + 1
      /\ more[Len(new) + 1] = updates[n]
      /\ \A i \in 1 .. Len(new) : more[i] = new[i]
      /\ DOMAIN more = 1 .. Len(new) + 1 /\ DOMAIN new = 1 .. Len(new)
  BY DEF Added
<1>. HIDE DEF more
<1>2. \A i \in 1 .. Len(more) : \E j \in 1 .. n :
         more[i] = updates[j] /\ Places(seq, updates[j].key) = {}
  <2>. SUFFICES ASSUME NEW i \in 1 .. Len(more)
                PROVE  \E j \in 1 .. n :
                          more[i] = updates[j] /\ Places(seq, updates[j].key) = {}
    OBVIOUS
  <2>1. CASE i = Len(new) + 1
    <3>1. n \in 1 .. n
      OBVIOUS
    <3>. QED
      BY <1>1, <2>1, <3>1
  <2>2. CASE i # Len(new) + 1
    <3>1. i \in 1 .. Len(new)
      BY <1>1, <2>2
    <3>2. PICK j \in 1 .. n - 1 : new[i] = updates[j] /\ Places(seq, updates[j].key) = {}
      BY <3>1 DEF Added
    <3>3. j \in 1 .. n
      OBVIOUS
    <3>. QED
      BY <1>1, <3>1, <3>2, <3>3
  <2>. QED
    BY <2>1, <2>2
<1>3. \A j \in 1 .. n : Places(seq, updates[j].key) = {} =>
         \E i \in 1 .. Len(more) : more[i] = updates[j]
  <2>. SUFFICES ASSUME NEW j \in 1 .. n, Places(seq, updates[j].key) = {}
                PROVE  \E i \in 1 .. Len(more) : more[i] = updates[j]
    OBVIOUS
  <2>1. CASE j = n
    BY <1>1, <2>1
  <2>2. CASE j # n
    <3>1. j \in 1 .. n - 1
      BY <2>2
    <3>2. PICK i \in 1 .. Len(new) : new[i] = updates[j]
      BY <3>1 DEF Added
    <3>. QED
      BY <1>1, <3>2
  <2>. QED
    BY <2>1, <2>2
<1>4. ASSUME Distinct(updates)
      PROVE  Distinct(more)
  <2>1. ASSUME NEW i \in 1 .. Len(new)
        PROVE  new[i].key # updates[n].key
    <3>1. PICK j \in 1 .. n - 1 : new[i] = updates[j]
      BY DEF Added
    <3>2. j \in DOMAIN updates /\ n \in DOMAIN updates /\ j # n
      OBVIOUS
    <3>. QED
      BY <1>4, <3>1, <3>2 DEF Distinct
  <2>. SUFFICES ASSUME NEW i \in DOMAIN more, NEW j \in DOMAIN more, more[i].key = more[j].key
                PROVE  i = j
    BY DEF Distinct
  <2>2. CASE i \in 1 .. Len(new) /\ j \in 1 .. Len(new)
    BY <1>1, <1>4, <2>2 DEF Added, Distinct
  <2>3. CASE i = Len(new) + 1 \/ j = Len(new) + 1
    BY <1>1, <2>1, <2>3
  <2>. QED
    BY <1>1, <2>2, <2>3
<1>. QED
  BY <1>1, <1>2, <1>3, <1>4 DEF Added, more

(* The lines added are exactly the updates whose key has no line, each     *)
(* once.                                                                   *)
LEMMA NewLinesAre ==
    ASSUME NEW seq \in Seq(Line), NEW updates \in Seq(Line)
    PROVE  Added(seq, updates, Len(updates), NewLines(seq, updates))
<1>. DEFINE f == Appending(seq, updates)
            bad == {n \in 0 .. Len(updates) : ~ Added(seq, updates, n, f[n])}
<1>1. Len(updates) \in Nat
  OBVIOUS
<1>2. IsAppending(seq, updates, Len(updates), f)
  BY <1>1, AppendingExists
<1>. HIDE DEF f
<1>3. \A i \in 0 .. Len(updates) :
         f[i] = IF i = 0 THEN <<>>
                ELSE IF Places(seq, updates[i].key) = {} THEN Append(f[i - 1], updates[i])
                ELSE f[i - 1]
  BY <1>2 DEF IsAppending
<1>4. bad = {}
  <2>. SUFFICES ASSUME bad # {}
                PROVE  FALSE
    OBVIOUS
  <2>1. bad \in SUBSET Nat
    BY <1>1
  <2>2. PICK n \in bad : \A k \in bad : n <= k
    <3>. HIDE DEF bad
    <3>. QED
      BY <2>1, LeastNumber
  <2>3. CASE n = 0
    <3>1. f[0] = <<>>
      BY <1>1, <1>3
    <3>2. Added(seq, updates, 0, <<>>)
      BY DEF Added, Distinct
    <3>. QED
      BY <2>2, <2>3, <3>1, <3>2
  <2>4. CASE n # 0
    <3>1. /\ n \in 1 .. Len(updates) /\ n - 1 \in 0 .. Len(updates) /\ n - 1 \notin bad
          /\ n \in 0 .. Len(updates)
      BY <1>1, <2>2, <2>4
    <3>5. f[n] = IF Places(seq, updates[n].key) = {} THEN Append(f[n - 1], updates[n])
                 ELSE f[n - 1]
      BY <1>3, <2>4, <3>1
    <3>2. Added(seq, updates, n - 1, f[n - 1])
      BY <3>1
    <3>3. CASE Places(seq, updates[n].key) = {}
      <4>1. f[n] = Append(f[n - 1], updates[n])
        BY <3>3, <3>5
      <4>2. Added(seq, updates, n, Append(f[n - 1], updates[n]))
        BY <3>1, <3>2, <3>3, OneMoreLine
      <4>. QED
        BY <2>2, <4>1, <4>2
    <3>4. CASE Places(seq, updates[n].key) # {}
      <4>1. f[n] = f[n - 1]
        BY <3>4, <3>5
      <4>. DEFINE new == f[n - 1]
      <4>. HIDE DEF new
      <4>2. Added(seq, updates, n - 1, new)
        BY <3>2 DEF new
      <4>3. Added(seq, updates, n, new)
        <5>1. \A j \in 1 .. n - 1 : j \in 1 .. n
          BY <3>1
        <5>2. \A i \in 1 .. Len(new) : \E j \in 1 .. n :
                 new[i] = updates[j] /\ Places(seq, updates[j].key) = {}
          BY <4>2, <5>1 DEF Added
        <5>3. \A j \in 1 .. n : j \in 1 .. n - 1 \/ j = n
          BY <3>1
        <5>4. \A j \in 1 .. n : Places(seq, updates[j].key) = {} =>
                 \E i \in 1 .. Len(new) : new[i] = updates[j]
          BY <3>4, <4>2, <5>3 DEF Added
        <5>. QED
          BY <4>2, <5>2, <5>4 DEF Added
      <4>. QED
        BY <2>2, <4>1, <4>3 DEF new
    <3>. QED
      BY <3>3, <3>4
  <2>. QED
    BY <2>3, <2>4
<1>5. Added(seq, updates, Len(updates), f[Len(updates)])
  BY <1>1, <1>4
<1>. QED
  BY <1>5, NewLinesAppended DEF f

(* A written file, line by line: the old lines, then the new ones.         *)
LEMMA WithLines ==
    ASSUME NEW seq \in Seq(Line), NEW updates \in Seq(Line)
    PROVE  /\ With(seq, updates) \in Seq(Line)
           /\ Len(With(seq, updates)) = Len(seq) + Len(NewLines(seq, updates))
           /\ \A i \in 1 .. Len(seq) :
                 With(seq, updates)[i] =
                     IF /\ Places(updates, seq[i].key) # {}
                        /\ \A j \in Places(seq, seq[i].key) : i <= j
                     THEN Last(updates, seq[i].key)
                     ELSE seq[i]
           /\ \A i \in 1 .. Len(NewLines(seq, updates)) :
                 With(seq, updates)[Len(seq) + i] = NewLines(seq, updates)[i]
<1>. DEFINE first(i) == /\ Places(updates, seq[i].key) # {}
                        /\ \A j \in Places(seq, seq[i].key) : i <= j
            line(i) == IF first(i) THEN Last(updates, seq[i].key) ELSE seq[i]
            old == [i \in DOMAIN seq |-> line(i)]
            new == NewLines(seq, updates)
<1>1. new \in Seq(Line)
  BY NewLinesAre DEF Added
<1>2. DOMAIN seq = 1 .. Len(seq) /\ Len(seq) \in Nat
  OBVIOUS
<1>3. ASSUME NEW i \in 1 .. Len(seq)
      PROVE  line(i) \in Line
  <2>1. seq[i] \in Line
    OBVIOUS
  <2>2. CASE Places(updates, seq[i].key) # {}
    <3>1. PICK j \in Places(updates, seq[i].key) : Last(updates, seq[i].key) = updates[j]
      BY <2>2, LastIs
    <3>2. updates[j] \in Line
      BY DEF Places
    <3>. QED
      BY <2>1, <3>1, <3>2
  <2>3. CASE Places(updates, seq[i].key) = {}
    BY <2>1, <2>3
  <2>. QED
    BY <2>2, <2>3
<1>4. With(seq, updates) = old \o new
  BY DEF With
<1>. HIDE DEF line, new
<1>5. old \in Seq(Line) /\ Len(old) = Len(seq) /\ \A i \in 1 .. Len(seq) : old[i] = line(i)
  <2>1. old \in [1 .. Len(seq) -> Line]
    BY <1>2, <1>3
  <2>2. \A i \in 1 .. Len(seq) : old[i] = line(i)
    BY <1>2
  <2>. HIDE DEF old
  <2>3. old \in Seq(Line) /\ DOMAIN old = 1 .. Len(seq)
    BY <1>2, <2>1
  <2>. QED
    BY <1>2, <2>2, <2>3
<1>. HIDE DEF old
<1>6. /\ old \o new \in Seq(Line) /\ Len(old \o new) = Len(seq) + Len(new)
      /\ \A i \in 1 .. Len(seq) : (old \o new)[i] = old[i]
      /\ \A i \in 1 .. Len(new) : (old \o new)[Len(seq) + i] = new[i]
  <2>1. /\ old \o new \in Seq(Line) /\ Len(old \o new) = Len(seq) + Len(new)
        /\ \A i \in 1 .. Len(seq) + Len(new) :
              (old \o new)[i] = IF i <= Len(seq) THEN old[i] ELSE new[i - Len(seq)]
    <3>1. old \in Seq(Line) /\ new \in Seq(Line)
      BY <1>1, <1>5
    <3>2. /\ old \o new \in Seq(Line) /\ Len(old \o new) = Len(old) + Len(new)
          /\ \A i \in 1 .. Len(old) + Len(new) :
                (old \o new)[i] = IF i <= Len(old) THEN old[i] ELSE new[i - Len(old)]
      BY ONLY <3>1, ConcatProperties
    <3>. QED
      BY <1>5, <3>2
  <2>2. \A i \in 1 .. Len(seq) : (old \o new)[i] = old[i]
    BY <1>1, <1>2, <2>1
  <2>3. ASSUME NEW i \in 1 .. Len(new)
        PROVE  (old \o new)[Len(seq) + i] = new[i]
    <3>1. /\ Len(seq) + i \in 1 .. Len(seq) + Len(new) /\ ~ (Len(seq) + i <= Len(seq))
          /\ Len(seq) + i - Len(seq) = i
      BY <1>1, <1>2
    <3>. QED
      BY <2>1, <3>1
  <2>. QED
    BY <2>1, <2>2, <2>3
<1>. QED
  BY <1>4, <1>5, <1>6 DEF line, new

Has(seq, k) == Places(seq, k) # {}

(* Where keys are distinct, the last line of a key is its only one.        *)
LEMMA LastAt ==
    ASSUME NEW seq \in Seq(Line), Distinct(seq), NEW i \in 1 .. Len(seq)
    PROVE  Last(seq, seq[i].key) = seq[i] /\ Has(seq, seq[i].key)
<1>1. i \in Places(seq, seq[i].key)
  BY DEF Places
<1>2. PICK j \in Places(seq, seq[i].key) : Last(seq, seq[i].key) = seq[j]
  BY <1>1, LastIs
<1>3. j = i
  BY <1>2 DEF Places, Distinct
<1>. QED
  BY <1>1, <1>2, <1>3 DEF Has

(* The updates are in the written file, and nothing else has changed.      *)
LEMMA WithHolds ==
    ASSUME NEW seq \in Seq(Line), Distinct(seq), NEW updates \in Seq(Line), Distinct(updates)
    PROVE  /\ Distinct(With(seq, updates))
           /\ \A k : IF Has(updates, k)
                     THEN /\ Has(With(seq, updates), k)
                          /\ Last(With(seq, updates), k) = Last(updates, k)
                     ELSE /\ Has(With(seq, updates), k) <=> Has(seq, k)
                          /\ Has(seq, k) => Last(With(seq, updates), k) = Last(seq, k)
<1>. DEFINE w == With(seq, updates)
            new == NewLines(seq, updates)
<1>1. /\ w \in Seq(Line) /\ Len(w) = Len(seq) + Len(new)
      /\ \A i \in 1 .. Len(new) : w[Len(seq) + i] = new[i]
      /\ Len(seq) \in Nat /\ Len(new) \in Nat /\ new \in Seq(Line)
  BY WithLines, NewLinesAre DEF Added
<1>0. \A k : Has(updates, k) => Last(updates, k).key = k
  BY LastIs DEF Has, Places
<1>2. ASSUME NEW i \in 1 .. Len(seq)
      PROVE  /\ w[i].key = seq[i].key
             /\ w[i] = IF Has(updates, seq[i].key) THEN Last(updates, seq[i].key) ELSE seq[i]
  <2>1. \A j \in Places(seq, seq[i].key) : j = i
    BY DEF Places, Distinct
  <2>2. \A j \in Places(seq, seq[i].key) : i <= j
    BY <2>1
  <2>3. w[i] = IF Has(updates, seq[i].key) THEN Last(updates, seq[i].key) ELSE seq[i]
    BY <2>2, WithLines DEF Has
  <2>. HIDE DEF w
  <2>. QED
    BY <1>0, <2>3
<1>3. Added(seq, updates, Len(updates), new)
  BY NewLinesAre
<1>. HIDE DEF w, new
<1>4. \A i \in 1 .. Len(w) : i \in 1 .. Len(seq) \/ \E n \in 1 .. Len(new) : i = Len(seq) + n
  <2>. SUFFICES ASSUME NEW i \in 1 .. Len(w), i \notin 1 .. Len(seq)
                PROVE  \E n \in 1 .. Len(new) : i = Len(seq) + n
    OBVIOUS
  <2>1. i - Len(seq) \in 1 .. Len(new) /\ i = Len(seq) + (i - Len(seq))
    BY <1>1
  <2>. QED
    BY <2>1
<1>5. ASSUME NEW n \in 1 .. Len(new)
      PROVE  /\ Len(seq) + n \in 1 .. Len(w)
             /\ \E j \in 1 .. Len(updates) : w[Len(seq) + n] = updates[j]
             /\ ~ Has(seq, w[Len(seq) + n].key)
  <2>1. Len(seq) + n \in 1 .. Len(w) /\ w[Len(seq) + n] = new[n]
    BY <1>1
  <2>2. PICK j \in 1 .. Len(updates) : new[n] = updates[j] /\ Places(seq, updates[j].key) = {}
    BY <1>3 DEF Added
  <2>. QED
    BY <2>1, <2>2 DEF Has
<1>6. Distinct(w)
  <2>. SUFFICES ASSUME NEW i \in 1 .. Len(w), NEW j \in 1 .. Len(w), w[i].key = w[j].key
                PROVE  i = j
    BY <1>1 DEF Distinct
  <2>0. \A a_ \in 1 .. Len(seq) : Has(seq, seq[a_].key)
    BY LastAt
  <2>1. CASE i \in 1 .. Len(seq) /\ j \in 1 .. Len(seq)
    <3>1. seq[i].key = seq[j].key
      BY <1>2, <2>1
    <3>. QED
      BY <2>1, <3>1 DEF Distinct
  <2>2. CASE i \in 1 .. Len(seq) /\ j \notin 1 .. Len(seq)
    BY <1>2, <1>4, <1>5, <2>0, <2>2
  <2>3. CASE i \notin 1 .. Len(seq) /\ j \in 1 .. Len(seq)
    BY <1>2, <1>4, <1>5, <2>0, <2>3
  <2>4. CASE i \notin 1 .. Len(seq) /\ j \notin 1 .. Len(seq)
    <3>1. PICK m \in 1 .. Len(new) : i = Len(seq) + m
      BY <1>4, <2>4
    <3>2. PICK n \in 1 .. Len(new) : j = Len(seq) + n
      BY <1>4, <2>4
    <3>3. new[m].key = new[n].key
      BY <1>1, <3>1, <3>2
    <3>4. m = n
      <4>1. Distinct(new) /\ DOMAIN new = 1 .. Len(new)
        BY <1>1, <1>3 DEF Added
      <4>. QED
        BY <3>3, <4>1 DEF Distinct
    <3>. QED
      BY <3>1, <3>2, <3>4
  <2>. QED
    BY <2>1, <2>2, <2>3, <2>4
<1>7. ASSUME NEW k, Has(updates, k)
      PROVE  Has(w, k) /\ Last(w, k) = Last(updates, k)
  <2>1. PICK j \in 1 .. Len(updates) : updates[j].key = k /\ Last(updates, k) = updates[j]
    BY <1>7, LastIs DEF Has, Places
  <2>2. CASE Has(seq, k)
    <3>1. PICK i \in 1 .. Len(seq) : seq[i].key = k
      BY <2>2 DEF Has, Places
    <3>2. i \in 1 .. Len(w) /\ w[i].key = k /\ w[i] = Last(updates, k)
      BY <1>1, <1>2, <1>7, <3>1
    <3>. QED
      BY <1>1, <1>6, <3>2, LastAt
  <2>3. CASE ~ Has(seq, k)
    <3>1. PICK n \in 1 .. Len(new) : new[n] = updates[j]
      BY <1>3, <2>1, <2>3 DEF Added, Has
    <3>2. Len(seq) + n \in 1 .. Len(w) /\ w[Len(seq) + n] = updates[j]
      BY <1>1, <1>5, <3>1
    <3>. QED
      BY <1>1, <1>6, <2>1, <3>2, LastAt
  <2>. QED
    BY <2>2, <2>3
<1>8. ASSUME NEW k, ~ Has(updates, k)
      PROVE  (Has(w, k) <=> Has(seq, k)) /\ (Has(seq, k) => Last(w, k) = Last(seq, k))
  <2>1. CASE Has(seq, k)
    <3>1. PICK i \in 1 .. Len(seq) : seq[i].key = k
      BY <2>1 DEF Has, Places
    <3>2. i \in 1 .. Len(w) /\ w[i].key = k /\ w[i] = seq[i]
      BY <1>1, <1>2, <1>8, <3>1
    <3>3. Last(seq, k) = seq[i]
      BY <3>1, LastAt
    <3>4. Last(w, k) = w[i] /\ Has(w, k)
      BY <1>1, <1>6, <3>2, LastAt
    <3>. QED
      BY <2>1, <3>2, <3>3, <3>4
  <2>2. CASE ~ Has(seq, k)
    <3>1. ASSUME NEW i \in 1 .. Len(w)
          PROVE  w[i].key # k
      <4>1. CASE i \in 1 .. Len(seq)
        BY <1>2, <2>2, <4>1 DEF Has, Places
      <4>2. CASE i \notin 1 .. Len(seq)
        <5>1. PICK j \in 1 .. Len(updates) : w[i] = updates[j]
          BY <1>4, <1>5, <4>2
        <5>. QED
          BY <1>8, <5>1 DEF Has, Places
      <4>. QED
        BY <4>1, <4>2
    <3>2. ~ Has(w, k)
      BY <1>1, <3>1 DEF Has, Places
    <3>. QED
      BY <2>2, <3>2
  <2>. QED
    BY <2>1, <2>2
<1>. QED
  BY <1>6, <1>7, <1>8 DEF w

-----------------------------------------------------------------------------
(* Switching the backend.                                                  *)

(* Lines that hold the backend of a request's switch hold, for each of its *)
(* settings, its line or that of another request.                          *)
WholeFor(seq, r) ==
    Has(seq, "SYNC_BACKEND") /\ Last(seq, "SYNC_BACKEND").by = r =>
        \A i \in DOMAIN Updates[r] :
            LET key == Updates[r][i].key
            IN  /\ Has(seq, key)
                /\ Last(seq, key) = Updates[r][i] \/ Last(seq, key).by \in Request \ {r}

Whole(seq) == \A r \in Request : WholeFor(seq, r)

GoodFile(seq) == seq \in Seq(Line) /\ Distinct(seq) /\ Whole(seq)

UpdatesOf(r) ==
    /\ Updates[r] \in Seq(Line) /\ Distinct(Updates[r])
    /\ \A k : Has(Updates[r], k) => Last(Updates[r], k).by = r

(* What a request wants to write names every key once, in its own name.    *)
LEMMA UpdatesAre == \A r \in Request : UpdatesOf(r)
<1>. SUFFICES ASSUME NEW r \in Request
              PROVE  UpdatesOf(r)
  OBVIOUS
<1>1. Updates[r] \in Seq(Line) /\ Distinct(Updates[r])
  BY BackendAssumption DEF Distinct
<1>2. ASSUME NEW k, Has(Updates[r], k)
      PROVE  Last(Updates[r], k).by = r
  <2>1. PICK i \in Places(Updates[r], k) : Last(Updates[r], k) = Updates[r][i]
    BY <1>1, <1>2, LastIs DEF Has
  <2>. QED
    BY <2>1, BackendAssumption DEF Places
<1>. QED
  BY <1>1, <1>2 DEF UpdatesOf

(* What the user wrote holds no request's switch, and nor does the empty   *)
(* file.                                                                   *)
LEMMA FirstAreGood == \A seq \in FirstFiles \cup {<<>>} : GoodFile(seq)
<1>1. <<>> \in Seq(Line) /\ Distinct(<<>>) /\ ~ Has(<<>>, "SYNC_BACKEND")
  BY DEF Distinct, Has, Places
<1>2. ASSUME NEW seq \in FirstFiles
      PROVE  GoodFile(seq)
  <2>1. seq \in Seq(Line) /\ Distinct(seq)
    BY BackendAssumption DEF Distinct
  <2>2. ASSUME Has(seq, "SYNC_BACKEND")
        PROVE  Last(seq, "SYNC_BACKEND").by \notin Request
    <3>1. PICK i \in Places(seq, "SYNC_BACKEND") : Last(seq, "SYNC_BACKEND") = seq[i]
      BY <2>1, <2>2, LastIs DEF Has
    <3>. QED
      BY <3>1, BackendAssumption DEF Places
  <2>. QED
    BY <2>1, <2>2 DEF GoodFile, Whole, WholeFor
<1>. QED
  BY <1>1, <1>2 DEF GoodFile, Whole, WholeFor

(* What one request writes over a file that is whole is whole.             *)
LEMMA WrittenIsGood ==
    ASSUME NEW seq, GoodFile(seq), NEW q \in Request
    PROVE  GoodFile(With(seq, Updates[q]))
<1>. DEFINE w == With(seq, Updates[q])
            sb == "SYNC_BACKEND"
<1>1. UpdatesOf(q)
  BY UpdatesAre
<1>2. w \in Seq(Line) /\ Distinct(w)
  BY <1>1, WithLines, WithHolds DEF GoodFile, UpdatesOf
<1>3. ASSUME NEW k, Has(Updates[q], k)
      PROVE  Has(w, k) /\ Last(w, k) = Last(Updates[q], k) /\ Last(w, k).by = q
  BY <1>1, <1>3, WithHolds DEF GoodFile, UpdatesOf
<1>4. ASSUME NEW k, ~ Has(Updates[q], k)
      PROVE  (Has(w, k) <=> Has(seq, k)) /\ (Has(seq, k) => Last(w, k) = Last(seq, k))
  BY <1>1, <1>4, WithHolds DEF GoodFile, UpdatesOf
<1>. HIDE DEF w
<1>5. ASSUME NEW r \in Request, Has(w, sb), Last(w, sb).by = r, NEW i \in DOMAIN Updates[r]
      PROVE  /\ Has(w, Updates[r][i].key)
             /\ \/ Last(w, Updates[r][i].key) = Updates[r][i]
                \/ Last(w, Updates[r][i].key).by \in Request \ {r}
  <2>. DEFINE key == Updates[r][i].key
  <2>1. CASE r = q
    <3>1. i \in 1 .. Len(Updates[q])
      BY <1>1, <2>1 DEF UpdatesOf
    <3>2. Last(Updates[q], key) = Updates[r][i] /\ Has(Updates[q], key)
      BY <1>1, <2>1, <3>1, LastAt DEF UpdatesOf
    <3>. QED
      BY <1>3, <3>2
  <2>2. CASE r # q
    <3>1. ~ Has(Updates[q], sb)
      BY <1>3, <1>5, <2>2
    <3>2. Has(seq, sb) /\ Last(seq, sb).by = r
      BY <1>4, <1>5, <3>1
    <3>3. /\ Has(seq, key)
          /\ Last(seq, key) = Updates[r][i] \/ Last(seq, key).by \in Request \ {r}
      BY <3>2 DEF GoodFile, Whole, WholeFor
    <3>4. CASE Has(Updates[q], key)
      BY <1>3, <2>2, <3>4
    <3>5. CASE ~ Has(Updates[q], key)
      BY <1>4, <3>3, <3>5
    <3>. QED
      BY <3>4, <3>5
  <2>. QED
    BY <2>1, <2>2
<1>6. Whole(w)
  BY <1>5 DEF Whole, WholeFor
<1>. QED
  BY <1>2, <1>6 DEF GoodFile, w

(* The type of the backend settings holds at first.                        *)
LEMMA BackendInitType == BackendInit => BackendTypeOK
<1>. SUFFICES ASSUME BackendInit PROVE BackendTypeOK
  OBVIOUS
<1>1. file \in Seq(Line)
  BY BackendAssumption DEF BackendInit
<1>2. sourced \in Seq(Line)
  BY <1>1 DEF BackendInit
<1>3. at \in [Request -> {"asked", "read", "open", "written"}]
  BY DEF BackendInit
<1>4. lines \in [Request -> Seq(Line)]
  <2>1. <<>> \in Seq(Line)
    OBVIOUS
  <2>. QED
    BY <2>1 DEF BackendInit
<1>5. collided \in BOOLEAN
  BY DEF BackendInit
<1>. QED
  BY <1>1, <1>2, <1>3, <1>4, <1>5 DEF BackendTypeOK

(* Every step of the backend settings keeps the type.                      *)
LEMMA BackendStepType == BackendTypeOK /\ [BackendNext]_backendVars => BackendTypeOK'
<1>. SUFFICES ASSUME BackendTypeOK, [BackendNext]_backendVars
              PROVE  BackendTypeOK'
  OBVIOUS
<1>1. ASSUME NEW r \in Request, Read(r)
      PROVE  BackendTypeOK'
  <2>1. UpdatesOf(r)
    BY UpdatesAre
  <2>2. With(file, Updates[r]) \in Seq(Line)
    BY <2>1, WithLines DEF BackendTypeOK, UpdatesOf
  <2>. QED
    BY <1>1, <2>2 DEF Read, BackendTypeOK
<1>2. ASSUME NEW r \in Request, Open(r)
      PROVE  BackendTypeOK'
  BY <1>2 DEF Open, BackendTypeOK
<1>3. ASSUME NEW r \in Request, Write(r)
      PROVE  BackendTypeOK'
  <2>1. lines[r] \in Seq(Line) /\ file \in Seq(Line)
    BY DEF BackendTypeOK
  <2>2. SubSeq(file, Len(lines[r]) + 1, Len(file)) \in Seq(Line)
    <3>1. Len(lines[r]) + 1 \in Int /\ Len(file) \in Int
      BY <2>1
    <3>2. \A i \in Len(lines[r]) + 1 .. Len(file) : file[i] \in Line
      BY <2>1
    <3>. QED
      BY <3>1, <3>2, SubSeqProperties
  <2>3. file' \in Seq(Line)
    BY <1>3, <2>1, <2>2 DEF Write
  <2>. QED
    BY <1>3, <2>3 DEF Write, BackendTypeOK
<1>4. CASE SyncStarts
  BY <1>4 DEF SyncStarts, BackendTypeOK
<1>5. CASE UNCHANGED backendVars
  BY <1>5 DEF backendVars, BackendTypeOK
<1>. QED
  BY <1>1, <1>2, <1>3, <1>4, <1>5 DEF BackendNext

(* config.sh holds lines, and a sync sources lines, whatever requests      *)
(* write over each other.                                                  *)
THEOREM BackendTypeCorrect == BackendSpec => []BackendTypeOK
<1>. QED
  BY BackendInitType, BackendStepType, PTL DEF BackendSpec

(* While no two requests have met, the file and the lines still to be      *)
(* written are whole, and a file that is open is empty.                    *)
OneWriter == \A r, q \in Request : at[r] = "open" /\ at[q] = "open" => r = q
OpenIsEmpty == \A r \in Request : at[r] = "open" => file = <<>>
LinesGood == \A r \in Request : at[r] \in {"read", "open"} => GoodFile(lines[r])

Orderly == OneWriter /\ OpenIsEmpty /\ LinesGood /\ GoodFile(file) /\ Whole(sourced)

SwitchInv == BackendTypeOK /\ (~ collided => Orderly)

(* The invariant of the backend settings holds at first.                   *)
LEMMA SwitchInitInv ==
    ASSUME BackendInit
    PROVE  SwitchInv
<1>1. GoodFile(file)
  BY FirstAreGood DEF BackendInit
<1>2. Whole(sourced)
  BY <1>1 DEF BackendInit, GoodFile
<1>3. OneWriter /\ OpenIsEmpty /\ LinesGood
  BY DEF BackendInit, OneWriter, OpenIsEmpty, LinesGood
<1>. QED
  BY <1>1, <1>2, <1>3, BackendInitType DEF SwitchInv, Orderly

(* Every step of the backend settings preserves the invariant; after two   *)
(* requests have had the file open at once only the type is left.          *)
LEMMA SwitchStepInv ==
    ASSUME SwitchInv, [BackendNext]_backendVars
    PROVE  SwitchInv'
<1>1. BackendTypeOK'
  BY BackendStepType DEF SwitchInv
<1>. SUFFICES ASSUME ~ collided'
              PROVE  Orderly'
  BY <1>1 DEF SwitchInv
<1>. USE DEF SwitchInv, Orderly
<1>2. ASSUME NEW r \in Request, Read(r)
      PROVE  Orderly'
  <2>1. /\ at[r] = "asked" /\ at' = [at EXCEPT ![r] = "read"]
        /\ lines' = [lines EXCEPT ![r] = With(file, Updates[r])]
        /\ UNCHANGED <<file, collided, sourced>>
    BY <1>2 DEF Read
  <2>2. GoodFile(With(file, Updates[r]))
    BY <2>1, WrittenIsGood
  <2>3. OneWriter' /\ OpenIsEmpty'
    BY <2>1 DEF OneWriter, OpenIsEmpty, BackendTypeOK
  <2>4. LinesGood'
    BY <2>1, <2>2 DEF LinesGood, BackendTypeOK
  <2>5. GoodFile(file') /\ Whole(sourced')
    BY <2>1
  <2>. QED
    BY <2>3, <2>4, <2>5
<1>3. ASSUME NEW r \in Request, Open(r)
      PROVE  Orderly'
  <2>1. /\ at[r] = "read" /\ at' = [at EXCEPT ![r] = "open"] /\ file' = <<>>
        /\ ~ collided /\ \A q \in Request : at[q] # "open"
        /\ UNCHANGED <<lines, sourced>>
    BY <1>3 DEF Open
  <2>2. OneWriter' /\ OpenIsEmpty'
    BY <2>1 DEF OneWriter, OpenIsEmpty, BackendTypeOK
  <2>3. LinesGood'
    BY <2>1 DEF LinesGood, BackendTypeOK
  <2>4. GoodFile(file') /\ Whole(sourced')
    BY <2>1, FirstAreGood
  <2>. QED
    BY <2>2, <2>3, <2>4
<1>4. ASSUME NEW r \in Request, Write(r)
      PROVE  Orderly'
  <2>1. /\ at[r] = "open" /\ at' = [at EXCEPT ![r] = "written"]
        /\ file' = lines[r] \o SubSeq(file, Len(lines[r]) + 1, Len(file))
        /\ UNCHANGED <<lines, collided, sourced>>
    BY <1>4 DEF Write
  <2>2. file = <<>> /\ GoodFile(lines[r])
    BY <2>1 DEF OpenIsEmpty, LinesGood
  <2>3. file' = lines[r]
    <3>1. lines[r] \in Seq(Line) /\ Len(lines[r]) \in Nat
      BY <2>2 DEF GoodFile
    <3>2. SubSeq(file, Len(lines[r]) + 1, Len(file)) = <<>>
      <4>1. Len(file) = 0 /\ Len(lines[r]) + 1 \in Int /\ Len(lines[r]) + 1 > 0
        BY <2>2, <3>1
      <4>. QED
        BY <4>1, SubSeqEmpty
    <3>. QED
      BY <2>1, <3>1, <3>2, ConcatEmptySeq
  <2>4. OneWriter' /\ \A q \in Request : at'[q] # "open"
    BY <2>1 DEF OneWriter, BackendTypeOK
  <2>5. LinesGood'
    BY <2>1 DEF LinesGood, BackendTypeOK
  <2>6. GoodFile(file') /\ Whole(sourced')
    BY <2>1, <2>2, <2>3
  <2>. QED
    BY <2>4, <2>5, <2>6 DEF OpenIsEmpty
<1>5. CASE SyncStarts
  <2>1. sourced' = file /\ UNCHANGED <<file, at, lines, collided>>
    BY <1>5 DEF SyncStarts
  <2>2. Whole(sourced')
    BY <2>1 DEF GoodFile
  <2>. QED
    BY <2>1, <2>2 DEF OneWriter, OpenIsEmpty, LinesGood
<1>6. CASE UNCHANGED backendVars
  BY <1>6 DEF backendVars, OneWriter, OpenIsEmpty, LinesGood
<1>. QED
  BY <1>2, <1>3, <1>4, <1>5, <1>6 DEF BackendNext

(* A sync that starts at any moment finds with the backend of a switch all *)
(* that came with it, for any requests, any file and any number of         *)
(* rewrites, until two requests have the file open at once.                *)
THEOREM SwitchesAreWhole == BackendSpec => []SwitchIsWhole
<1>1. BackendInit => SwitchInv
  BY SwitchInitInv
<1>2. SwitchInv /\ [BackendNext]_backendVars => SwitchInv'
  BY SwitchStepInv
<1>3. SwitchInv => SwitchIsWhole
  BY DEF SwitchInv, Orderly, Whole, WholeFor, SwitchIsWhole, Has
<1>. QED
  BY <1>1, <1>2, <1>3, PTL DEF BackendSpec
=============================================================================
