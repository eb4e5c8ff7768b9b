---------------------------- MODULE RowMergeLaws ----------------------------
(***************************************************************************)
(* What merge.py promises of its row merge, as laws of RowMerge's          *)
(* operators.  Three machines fork from one copy of a row and each edits   *)
(* or deletes its own, so that TLC meets every combination of them.        *)
(***************************************************************************)
EXTENDS RowMerge

VARIABLES base, ours, theirs, third
vars == <<base, ours, theirs, third>>

Init ==
    /\ base \in Cell
    /\ ours = base
    /\ theirs = base
    /\ third = base

EditOurs   == ours' \in Cell   /\ UNCHANGED <<base, theirs, third>>
EditTheirs == theirs' \in Cell /\ UNCHANGED <<base, ours, third>>
EditThird  == third' \in Cell  /\ UNCHANGED <<base, ours, theirs>>

Next == EditOurs \/ EditTheirs \/ EditThird
Spec == Init /\ [][Next]_vars

Merged(o, t) == MergeRow(base, o, t, "auto")

-----------------------------------------------------------------------------
(* The type invariant: every copy is a row or no row (the maps merge_table *)
(* takes and returns).                                                     *)
TypeOK == {base, ours, theirs, third} \subseteq Cell

(* Machine A merging B yields the row that B merging A yields: the         *)
(* convergence requirement at the top of merge.py.                         *)
Symmetric == Merged(ours, theirs) = Merged(theirs, ours)

(* An automatic merge keeps one of the two copies, and keeps a deletion    *)
(* only if neither machine edited the row (merge.py's delete/modify case). *)
EditBeatsDeletion ==
    LET kept == Merged(ours, theirs)
    IN  /\ kept \in {ours, theirs}
        /\ kept = Absent => {ours, theirs} \subseteq {Absent, base}

(* Three machines end with the same row whichever two of them merge first  *)
(* (merge_table over two fetched machines), when every timestamp among     *)
(* their edits parses: then _newer ranks the rows one way.                 *)
OrderIndependent ==
    (\A r \in {ours, theirs, third} \ {Absent} : r.at \in Parsed) =>
        Merged(Merged(ours, theirs), third) = Merged(ours, Merged(theirs, third))
=============================================================================
