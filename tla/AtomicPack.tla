----------------------------- MODULE AtomicPack -----------------------------
(***************************************************************************)
(* What the sync engine relies on when it calls pack: once it returns, the *)
(* databases are all as wanted or all as they were.  Nothing is promised   *)
(* of a pack that is cut short, but that each database by itself is one or *)
(* the other or recognisably unfinished.                                   *)
(***************************************************************************)
CONSTANTS
    Db,         \* the databases
    Unfinished  \* what a pack that is cut short may leave of a database

VARIABLES
    data,       \* each database's content, before pack until it returns
    wanted,     \* what the pack that is running was asked to make of it
    packing,    \* a pack is running
    result      \* how the last one ended: "none" | "ok" | "failed" | "cut"

vars == <<data, wanted, packing, result>>

Init == packing = FALSE /\ wanted = data /\ result = "none"

Begin ==
    /\ ~ packing
    /\ packing' = TRUE
    /\ result' = "none"
    /\ UNCHANGED data

End(how) ==
    /\ packing
    /\ packing' = FALSE
    /\ result' = how
    /\ UNCHANGED wanted

Succeed == End("ok") /\ data' = wanted
Fail == End("failed") /\ UNCHANGED data
CutShort ==
    /\ End("cut")
    /\ \A d \in Db : data'[d] \in {data[d], wanted[d]} \cup Unfinished

Next == Begin \/ Succeed \/ Fail \/ CutShort

Spec == Init /\ [][Next]_vars
=============================================================================
