----------------------------- MODULE MCSyncLock -----------------------------
(* TLC instance of SyncLock: three processes, interchangeable.             *)
EXTENDS SyncLock, TLC
CONSTANTS p1, p2, p3
Interchangeable == Permutations(Proc)
=============================================================================
