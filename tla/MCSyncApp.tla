----------------------------- MODULE MCSyncApp ------------------------------
(* TLC instance of SyncApp.                                                *)
EXTENDS SyncApp, TLC
CONSTANTS a1, a2, a3
Interchangeable == Permutations(Attempt)
=============================================================================
