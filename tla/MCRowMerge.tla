----------------------------- MODULE MCRowMerge -----------------------------
(***************************************************************************)
(* TLC values for RowMergeLaws: two instants written as three texts, so    *)
(* that equal instants with different texts occur, one text that does not  *)
(* parse, and two bodies.                                                  *)
(***************************************************************************)
EXTENDS RowMergeLaws, TLC

CONSTANTS early, alsoEarly, late, garbled, x, y

MCInstant == [s \in Parsed |-> IF s = late THEN 2 ELSE 1]
MCTextRank ==
    LET rank == early :> 1 @@ late :> 2 @@ garbled :> 3 @@ alsoEarly :> 4
    IN  [s \in Stamp |-> rank[s]]

(* Canonical JSON writes the keys in order, and "body" sorts before the    *)
(* timestamp column here, so the body decides first.                       *)
MCRowRank ==
    [r \in Row |-> (IF r.body = x THEN 10 ELSE 20) + TextRank[r.at]]
=============================================================================
