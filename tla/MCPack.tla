------------------------------- MODULE MCPack -------------------------------
(* TLC instance of Pack: one fixed database and two stores.                *)
EXTENDS Pack
=============================================================================
