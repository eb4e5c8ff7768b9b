----------------------------- MODULE ConfigSync -----------------------------
(***************************************************************************)
(* config.json between machines: what unpack_files takes out of it, how    *)
(* merge_json merges it, and what pack_files puts back (lib/kcsync/        *)
(* files.py, merge.py).  A whole sync is one step here; SyncEngine         *)
(* interleaves them.                                                       *)
(*                                                                         *)
(* A document is an object with one nested object, "section", that may be  *)
(* missing, and one list, "hooks", of one object.  "name" is an ordinary   *)
(* value, "token" a credential by its name (SECRET_KEY_RE), and "stamp" a  *)
(* key of LOCAL_ONLY_KEYS.  A file may also hold the text of a document    *)
(* with a slip in it, so that it is not valid JSON.                        *)
(***************************************************************************)
EXTENDS Naturals

CONSTANTS
    Host,           \* the machines
    Word,           \* ordinary values
    Private,        \* each machine's own credential, and its own stamp
    Missing,        \* no such key
    MaxConfigEdits, \* bound on edits of the live files
    RankOfJson(_)   \* the order of canonical JSON, for the merge's tie

Leaf == {"name", "token", "stamp"}
PrivateLeaf == {"token", "stamp"}
Credential == {Private[h] : h \in Host}

Section ==
    {s \in [Leaf -> Word \cup Credential \cup {Missing}] :
        /\ s["name"] \in Word \cup {Missing}
        /\ \A leaf \in PrivateLeaf : s[leaf] \in Credential \cup {Missing}}
Hooks == [name : Word, token : Credential \cup {Missing}]
Document == [section : Section \cup {Missing}, hooks : Hooks]
Broken == [broken : Document]

Parses(doc) == doc \in Document

ASSUME ConfigAssumption ==
    /\ MaxConfigEdits \in Nat
    /\ Missing \notin Word \cup Credential \cup Section
    /\ Word \cap Credential = {}

(* Different values have different canonical JSON.                         *)
ASSUME JsonAssumption ==
    \A v, w \in Word :
        LET hook(u) == [name |-> u, token |-> Missing]
        IN  /\ {RankOfJson(v), RankOfJson(hook(v))} \subseteq Nat
            /\ RankOfJson(v) = RankOfJson(w) => v = w
            /\ RankOfJson(hook(v)) = RankOfJson(hook(w)) => v = w

VARIABLES
    config,     \* per machine, the live config.json
    lastFile,   \* per machine, the file in the tree of its last sync
    mainFile,   \* the file in main on the backend
    configEdits \* edits so far

configVars == <<config, lastFile, mainFile, configEdits>>

EmptySection == [leaf \in Leaf |-> Missing]

ConfigInit ==
    /\ \E w \in Word :
         mainFile = [section |-> [EmptySection EXCEPT !["name"] = w],
                     hooks |-> [name |-> w, token |-> Missing]]
    /\ lastFile = [h \in Host |-> mainFile]
    /\ config = lastFile
    /\ configEdits = 0

-----------------------------------------------------------------------------
(* unpack_files: what leaves the machine. *)
StripSecrets(doc) ==
    [section |-> IF doc.section = Missing THEN Missing
                 ELSE [doc.section EXCEPT !["token"] = Missing],
     hooks |-> [doc.hooks EXCEPT !.token = Missing]]

(* A bug for the runs to catch: the key is looked up at the top level. *)
StripNothing(doc) == doc

StripLocalOnly(doc) ==
    IF doc.section = Missing THEN doc
    ELSE [doc EXCEPT !.section["stamp"] = Missing]

(* A file that does not parse is synced verbatim.                          *)
Outgoing(h) ==
    IF Parses(config[h]) THEN StripLocalOnly(StripSecrets(config[h])) ELSE config[h]

-----------------------------------------------------------------------------
(* A bug for the runs to catch: each machine prefers its own value. *)
LargerOurs(ours, theirs) == ours

(* merge_json, automatic.                                                  *)
Larger(ours, theirs) ==
    IF RankOfJson(ours) >= RankOfJson(theirs) THEN ours ELSE theirs

(* One key of an object, or the whole of it: a key that one side deleted   *)
(* stays deleted only if the other side left it alone; what both changed   *)
(* is merged by Both.                                                      *)
MergeKey(base, ours, theirs, Both(_, _, _)) ==
    IF ours = theirs \/ base = theirs THEN ours
    ELSE IF base = ours \/ ours = Missing THEN theirs
    ELSE IF theirs = Missing THEN ours
    ELSE Both(base, ours, theirs)

(* Two values that are not both objects; a list counts as one value.       *)
MergeValue(base, ours, theirs) == Larger(ours, theirs)

MergeObject(base, ours, theirs) ==
    LET before == IF base = Missing THEN EmptySection ELSE base
    IN  [leaf \in Leaf |-> MergeKey(before[leaf], ours[leaf], theirs[leaf], MergeValue)]

MergeJson(base, ours, theirs) ==
    [section |-> MergeKey(base.section, ours.section, theirs.section, MergeObject),
     hooks |-> MergeKey(base.hooks, ours.hooks, theirs.hooks, MergeValue)]

(* The whole file: git calls the driver only when both sides changed it.   *)
MergeFile(base, ours, theirs) ==
    IF ours = theirs \/ base = theirs THEN ours
    ELSE IF base = ours THEN theirs
    ELSE MergeJson(base, ours, theirs)

(* The driver stops the merge, and with it the sync, when one of the three *)
(* is not valid JSON.                                                      *)
Mergeable(base, ours, theirs) ==
    \/ ours = theirs \/ base \in {ours, theirs}
    \/ \A doc \in {base, ours, theirs} : Parses(doc)

-----------------------------------------------------------------------------
(* A bug for the runs to catch: a deleted object takes its credential      *)
(* along.                                                                  *)
GraftIntoExisting(merged, local) ==
    IF Missing \in {merged.section, local.section} THEN merged
    ELSE [merged EXCEPT !.section["token"] = local.section["token"]]

(* pack_files: what comes back.  A credential the merged object lacks is   *)
(* taken from the live file, and an object the merged file lacks is made   *)
(* again to hold it; lists are not entered.                                *)
GraftLocalSecrets(merged, local) ==
    IF local.section = Missing THEN merged
    ELSE LET section == IF merged.section = Missing THEN EmptySection ELSE merged.section
         IN  [merged EXCEPT !.section =
                IF section["token"] = Missing
                THEN [section EXCEPT !["token"] = local.section["token"]]
                ELSE section]

GraftLocalOnly(merged, local) ==
    IF merged.section = Missing THEN merged
    ELSE [merged EXCEPT !.section["stamp"] =
            IF local.section = Missing THEN Missing ELSE local.section["stamp"]]

(* A file in the tree that does not parse is skipped; a live one that does *)
(* not parse counts as an empty object, which has no section.              *)
Restored(merged, local) ==
    IF ~ Parses(merged) THEN local
    ELSE LET known == IF Parses(local) THEN local ELSE [section |-> Missing]
         IN  GraftLocalOnly(GraftLocalSecrets(merged, known), known)

(* The backstop of cmd_pack: a tree with a credential in it is refused,    *)
(* unless the file that holds it does not parse.                           *)
FindSecretLeaves(doc) ==
    /\ Parses(doc)
    /\ \/ doc.section # Missing /\ doc.section["token"] # Missing
       \/ doc.hooks.token # Missing

MergedFile(h) == MergeFile(lastFile[h], Outgoing(h), mainFile)

SyncConfig(h) ==
    /\ Mergeable(lastFile[h], Outgoing(h), mainFile)
    /\ ~ FindSecretLeaves(MergedFile(h))
    /\ mainFile' = MergedFile(h)
    /\ lastFile' = [lastFile EXCEPT ![h] = MergedFile(h)]
    /\ config' = [config EXCEPT ![h] = Restored(MergedFile(h), config[h])]
    /\ UNCHANGED configEdits

(* The user's settings and KiroCrew's, one key at a time. *)
EditDocument(h) ==
    /\ Parses(config[h])
    /\ \/ \E leaf \in Leaf :
            \E v \in (IF leaf = "name" THEN Word ELSE {Private[h]}) \cup {Missing} :
                LET section == IF config[h].section = Missing THEN EmptySection
                               ELSE config[h].section
                IN  config' = [config EXCEPT ![h].section = [section EXCEPT ![leaf] = v]]
       \/ config' = [config EXCEPT ![h].section = Missing]
       \/ \E w \in Word, t \in {Private[h], Missing} :
            config' = [config EXCEPT ![h].hooks = [name |-> w, token |-> t]]

(* A slip of the user's hand in the file, and its correction.              *)
Slip(h) ==
    config' = [config EXCEPT ![h] =
                  IF Parses(config[h]) THEN [broken |-> config[h]] ELSE config[h].broken]

EditConfig(h) ==
    /\ configEdits < MaxConfigEdits
    /\ configEdits' = configEdits + 1
    /\ EditDocument(h) \/ Slip(h)
    /\ UNCHANGED <<lastFile, mainFile>>

ConfigNext == \E h \in Host : SyncConfig(h) \/ EditConfig(h)

ConfigSpec == ConfigInit /\ [][ConfigNext]_configVars

-----------------------------------------------------------------------------
ConfigTypeOK ==
    /\ config \in [Host -> Document \cup Broken]
    /\ lastFile \in [Host -> Document \cup Broken]
    /\ mainFile \in Document \cup Broken
    /\ configEdits \in 0..MaxConfigEdits

PrivateLeaves(doc) ==
    {doc.hooks.token} \cup
        (IF doc.section = Missing THEN {} ELSE {doc.section[leaf] : leaf \in PrivateLeaf})

PrivateOf(doc) == PrivateLeaves(IF Parses(doc) THEN doc ELSE doc.broken)

Clean(doc) == Parses(doc) => PrivateOf(doc) \subseteq {Missing}

(* "A token never reaches the backend", nor does a key that describes one  *)
(* machine (files.py, SECRET_KEY_RE and LOCAL_ONLY_KEYS), in any file that *)
(* is valid JSON; and no machine ever holds another's, although a file     *)
(* that is not valid JSON is published as it stands (see README).          *)
PrivateStaysHome ==
    /\ Clean(mainFile)
    /\ \A h \in Host : Clean(lastFile[h])
    /\ \A h \in Host : PrivateOf(config[h]) \subseteq {Private[h], Missing}

(* A sync leaves every credential and local-only key of an object as it    *)
(* was on this machine, whatever the other machines did to the object      *)
(* ("restored from the local file on pack, so a token ... is never         *)
(* clobbered", files.py).  Credentials inside lists are lost, and so are   *)
(* those of a live file that is not valid JSON: that one is written over   *)
(* only once its text is in the repository, where the last sync left it;   *)
(* see README.                                                             *)
OwnLeavesKept ==
    [][\A h \in Host : SyncConfig(h) =>
        IF Parses(config[h])
        THEN config[h].section # Missing =>
                /\ config'[h].section # Missing
                /\ \A leaf \in PrivateLeaf :
                     config'[h].section[leaf] = config[h].section[leaf]
        ELSE config'[h] # config[h] => lastFile[h] = config[h]]_configVars

(* Which of two machines merges the other's file does not matter: the      *)
(* convergence requirement at the top of merge.py, for JSON documents and  *)
(* for files that are none.                                                *)
JsonSymmetric ==
    \A h \in Host :
        Mergeable(lastFile[h], Outgoing(h), mainFile) =>
            MergedFile(h) = MergeFile(lastFile[h], mainFile, Outgoing(h))
=============================================================================
