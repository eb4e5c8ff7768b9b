---------------------------- MODULE MCSyncDaemon ----------------------------
(* TLC instance of SyncDaemon.                                             *)
EXTENDS SyncDaemon
CONSTANTS d1, d2, d3, r1, r2
=============================================================================
