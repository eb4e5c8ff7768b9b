------------------------------ MODULE RowMerge ------------------------------
(***************************************************************************)
(* The row-level three-way merge of lib/kcsync/merge.py, which git runs as *)
(* the merge driver of every db/**/*.jsonl file of the sync repository.    *)
(*                                                                         *)
(* A row is its timestamp column and everything else in it.  What the      *)
(* merge observes of a row is whether the timestamp parses, the instant it *)
(* parses to, its text, and the row's canonical JSON; the last three are   *)
(* given as ranks, since the code only ever compares them.                 *)
(***************************************************************************)
EXTENDS Naturals

CONSTANTS
    Stamp,      \* the texts a timestamp column may hold
    Parsed,     \* those parse_ts understands
    Instant,    \* the point in time a parsed text denotes
    TextRank,   \* the order of the texts themselves: str(...) > str(...)
    Body,       \* what a row holds beside its timestamp
    RowRank,    \* the order of canonical JSON: dumps(...) >= dumps(...)
    Timed,      \* the table has a ts_col and its policy mode is not UNION
    Absent      \* no row under this key

Row == [at : Stamp, body : Body]
Cell == Row \cup {Absent}

ASSUME StampAssumption ==
    /\ Parsed \subseteq Stamp
    /\ Instant \in [Parsed -> Nat]
    /\ TextRank \in [Stamp -> Nat]
    /\ \A s, u \in Stamp : TextRank[s] = TextRank[u] => s = u

ASSUME RowAssumption ==
    /\ RowRank \in [Row -> Nat]
    /\ \A r, q \in Row : RowRank[r] = RowRank[q] => r = q
    /\ Absent \notin Row
    /\ Timed \in BOOLEAN

Strategy == {"auto", "local-wins", "remote-wins", "manual"}

-----------------------------------------------------------------------------
(* A bug for the runs to catch: each machine prefers its own copy. *)
TiebreakOurs(ours, theirs) == ours

(* The side-independent winner of two edits of one row. *)
Tiebreak(ours, theirs) ==
    IF RowRank[ours] >= RowRank[theirs] THEN ours ELSE theirs

(* A bug for the runs to catch: an older timestamp falls through to the    *)
(* comparison of the texts.                                                *)
NewerFallsThrough(ours, theirs) ==
    LET o == ours.at
        t == theirs.at
    IN  IF o \in Parsed /\ t \in Parsed /\ Instant[o] > Instant[t] THEN ours
        ELSE IF o # t
             THEN IF TextRank[o] > TextRank[t] THEN ours ELSE theirs
             ELSE Tiebreak(ours, theirs)

(* Last writer wins.  Two timestamps that both parse are compared as       *)
(* instants; equal instants, or a timestamp that does not parse, fall back *)
(* to the text, and equal texts to the canonical JSON.                     *)
Newer(ours, theirs) ==
    LET o == ours.at
        t == theirs.at
    IN  IF o \in Parsed /\ t \in Parsed /\ Instant[o] # Instant[t]
        THEN IF Instant[o] > Instant[t] THEN ours ELSE theirs
        ELSE IF o # t
             THEN IF TextRank[o] > TextRank[t] THEN ours ELSE theirs
             ELSE Tiebreak(ours, theirs)

Winner(ours, theirs) ==
    IF Timed THEN Newer(ours, theirs) ELSE Tiebreak(ours, theirs)

(* A bug for the runs to catch: the base is not looked at. *)
ContestedWithoutBase(base, ours, theirs) == ours # theirs

(* Both sides changed the row since the base, and differently. *)
Contested(base, ours, theirs) ==
    /\ ours # theirs
    /\ base # ours
    /\ base # theirs

(* A bug for the runs to catch: a deletion beats an edit. *)
AutoRowDeletes(ours, theirs) ==
    IF Absent \in {ours, theirs} THEN Absent ELSE Winner(ours, theirs)

(* A contested row under "auto": an edit beats a deletion.                 *)
AutoRow(ours, theirs) ==
    IF ours = Absent THEN theirs
    ELSE IF theirs = Absent THEN ours
    ELSE Winner(ours, theirs)

(* The value merge_table keeps for one key. "manual" never gets to keep a  *)
(* contested row: the driver returns 1 and leaves the file as it was.      *)
MergeRow(base, ours, theirs, strategy) ==
    IF ~ Contested(base, ours, theirs)
    THEN IF base = ours THEN theirs ELSE ours
    ELSE CASE strategy \in {"local-wins", "manual"} -> ours
           [] strategy = "remote-wins"               -> theirs
           [] OTHER                                  -> AutoRow(ours, theirs)

(* A whole table: every key on its own, except that one unresolved key     *)
(* makes the "manual" driver keep the whole of ours.                       *)
Unresolved(base, ours, theirs, strategy) ==
    /\ strategy = "manual"
    /\ \E k \in DOMAIN ours : Contested(base[k], ours[k], theirs[k])

MergeTable(base, ours, theirs, strategy) ==
    IF Unresolved(base, ours, theirs, strategy)
    THEN ours
    ELSE [k \in DOMAIN ours |-> MergeRow(base[k], ours[k], theirs[k], strategy)]
=============================================================================
