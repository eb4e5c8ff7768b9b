------------------------------- MODULE MCLaws -------------------------------
(***************************************************************************)
(* The small systems in one run, one after the other: each moves only      *)
(* while the others are where they started.                                *)
(***************************************************************************)
EXTENDS MCRowMerge, MCPathSync, ConfigSync, BackendConfig

CONSTANTS p, q, switch, plain, back

MCPrivate == [h \in {p, q} |-> h]
Symmetry == Permutations({p, q})
\* A word, or a hook of that name.
MCRankOfJson(v) ==
    LET words == <<"w1", "w2", "w3">>
    IN  CHOOSE i \in DOMAIN words :
            ToString(v) \in {ToString(words[i]),
                             ToString([name |-> words[i], token |-> Missing])}

Set(by, key, value) == [key |-> key, value |-> value, by |-> by]
UserSet(key, value) == Set(User, key, value)

(* A bucket left from earlier, or in use with a folder written with $HOME; *)
(* a switch with its bucket, settings of another backend, and a switch     *)
(* back to the default backend with a setting.                             *)
MCFirstFiles ==
    {<<>>,
     <<UserSet("SYNC_BACKEND", "gdrive"), UserSet("verbatim", ""),
       UserSet("S3_BUCKET", "old")>>,
     <<UserSet("LOCAL_DIR", "$HOME"), UserSet("SYNC_BACKEND", "s3"),
       UserSet("S3_BUCKET", "old"), UserSet("FOLDER", "old")>>}
MCUpdates ==
    [r \in {switch, plain, back} |->
        CASE r = switch -> <<Set(r, "S3_BUCKET", "new"), Set(r, "SYNC_BACKEND", "s3")>>
          [] r = plain  -> <<Set(r, "REMOTE", ""), Set(r, "FOLDER", "own")>>
          [] r = back   -> <<Set(r, "FOLDER", "new"), Set(r, "SYNC_BACKEND", "gdrive")>>]
MCEnv == [k \in Key |-> IF k \in {"REMOTE", "FOLDER"} THEN "env" ELSE ""]
MCExpanded == [v \in Setting |-> IF v = "$HOME" THEN "home" ELSE v]
MCScriptDefault ==
    [k \in Key |-> CASE k = "SYNC_BACKEND" -> "gdrive" [] k = "S3_BUCKET" -> "your-bucket"
                     [] k = "LOCAL_DIR" -> "home" [] OTHER -> "default"]
MCAppDefault ==
    [k \in Key |-> CASE k = "SYNC_BACKEND" -> "gdrive" [] k = "S3_BUCKET" -> ""
                     [] k = "LOCAL_DIR" -> "$HOME" [] OTHER -> "default"]

RowsRest == Init /\ base = Absent
PathsRest == PathInit
ConfigRest == ConfigInit /\ mainFile.hooks.name = "w1"
BackendRest == BackendInit /\ file = <<>>

LawsInit ==
    /\ Init /\ PathInit /\ ConfigInit /\ BackendInit
    /\ \/ PathsRest /\ ConfigRest /\ BackendRest
       \/ RowsRest /\ PathsRest /\ (ConfigRest \/ BackendRest)

LawsNext ==
    \/ /\ PathsRest /\ ConfigRest /\ BackendRest
       /\ Next /\ UNCHANGED <<pathVars, configVars, backendVars>>
    \/ /\ RowsRest /\ ConfigRest /\ BackendRest
       /\ PathNext /\ UNCHANGED <<vars, configVars, backendVars>>
    \/ /\ RowsRest /\ PathsRest /\ BackendRest
       /\ ConfigNext /\ UNCHANGED <<vars, pathVars, backendVars>>
    \/ /\ RowsRest /\ PathsRest /\ ConfigRest
       /\ BackendNext /\ UNCHANGED <<vars, pathVars, configVars>>

LawsVars == <<vars, pathVars, configVars, backendVars>>
LawsSpec == LawsInit /\ [][LawsNext]_LawsVars
=============================================================================
