----------------------------- MODULE MCPathSync -----------------------------
(***************************************************************************)
(* TLC values for PathSync: two home directories with a folder in each, a  *)
(* folder outside, and a name that may map to any of them.                 *)
(***************************************************************************)
EXTENDS PathSync

CONSTANTS a, b

MCHome == [m \in {a, b} |-> IF m = a THEN <<"ha">> ELSE <<"hb">>]
MCFolders ==
    [m \in {a, b} |-> {MCHome[m] \o <<"docs">>}
                       \cup (IF m = a THEN {<<"opt">>} ELSE {})]
MCRankOf(path) == Len(path.rest) + (IF path.root = "~" THEN 10 ELSE 0)
=============================================================================
