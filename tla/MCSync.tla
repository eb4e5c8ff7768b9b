------------------------------- MODULE MCSync -------------------------------
(***************************************************************************)
(* TLC values for SyncHistory: every timestamp parses, the row bodies are  *)
(* equal, and so a row is its timestamp.  Row 1 is older than row 2, and   *)
(* so on, but any machine may write any of them first (clocks disagree).   *)
(***************************************************************************)
EXTENDS SyncHistory, TLC

MCInstant == [s \in Stamp |-> s]
MCRowRank == [r \in Row |-> r.at]

Plain(name) ==
    [name |-> name, strategy |-> "auto", force |-> FALSE, dry |-> FALSE]
Manual == [Plain("sync") EXCEPT !.strategy = "manual"]
DryRun(name) == [Plain(name) EXCEPT !.dry = TRUE]

SyncOnly == {Plain("sync")}
Everyday == {Plain("sync"), Plain("push"), Plain("export")}
WithPush == {Plain("sync"), Plain("push")}
WithDryRun == {Plain("sync"), DryRun("sync")}
ByHand == {Plain("sync"), Manual, Plain("resume")}
Everything == ByHand \cup {Plain("push"), DryRun("sync"), DryRun("push")}
=============================================================================
