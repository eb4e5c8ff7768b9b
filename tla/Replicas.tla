------------------------------ MODULE Replicas ------------------------------
(***************************************************************************)
(* What the sync engine promises the users of several machines, told       *)
(* without commits, bundles or commands: a row leaves a machine only when  *)
(* its user replaces or deletes it, or when it has been beaten, here or on *)
(* another machine; and a row is beaten only by a user who has it, or by   *)
(* another user's row that outranks it.                                    *)
(***************************************************************************)
EXTENDS RowMerge

CONSTANTS Machine, Key

VARIABLES
    live,     \* each machine's table
    written,  \* per key, the rows users have stored
    beaten    \* per key, the rows that gave way

vars == <<live, written, beaten>>

NoRows == [k \in Key |-> {}]

Init ==
    /\ live = [m \in Machine |-> [k \in Key |-> Absent]]
    /\ written = NoRows
    /\ beaten = NoRows

(* A user stores a new row or deletes the one that is there.               *)
Store(m, k, cell) ==
    /\ cell \notin written[k]
    /\ live' = [live EXCEPT ![m][k] = cell]
    /\ written' = [written EXCEPT ![k] = @ \cup ({cell} \ {Absent})]
    /\ beaten' = [beaten EXCEPT ![k] = @ \cup ({live[m][k]} \ {Absent})]

Outranks(row, other) == row # other /\ Winner(row, other) = row

(* Two machines' rows are compared; nobody's table changes yet.            *)
Judge ==
    /\ \E losers \in [Key -> SUBSET Row] :
         /\ \A k \in Key : \A row \in losers[k] :
                row \in written[k] /\ \E other \in written[k] : Outranks(other, row)
         /\ beaten' = [k \in Key |-> beaten[k] \cup losers[k]]
    /\ UNCHANGED <<live, written>>

(* A machine takes over what others did: it drops beaten rows only, and    *)
(* gains only rows that a user stored.                                     *)
Adopt(m) ==
    /\ \E table \in [Key -> Cell] :
         /\ \A k \in Key :
                table[k] # live[m][k] =>
                    /\ live[m][k] \in beaten[k] \cup {Absent}
                    /\ table[k] \in written[k] \cup {Absent}
         /\ live' = [live EXCEPT ![m] = table]
    /\ UNCHANGED <<written, beaten>>

Next ==
    \/ \E m \in Machine, k \in Key, cell \in Cell : Store(m, k, cell)
    \/ Judge
    \/ \E m \in Machine : Adopt(m)

Spec == Init /\ [][Next]_vars
=============================================================================
