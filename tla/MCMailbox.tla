------------------------------ MODULE MCMailbox ------------------------------
(* TLC instance of Mailbox: one machine sends, another runs the commands.  *)
EXTENDS Mailbox, TLC
CONSTANTS here, away, p1, p2, p3, b1, b2
MCHost == [p \in Command |-> here]
Interchangeable == Permutations(Command)
=============================================================================
