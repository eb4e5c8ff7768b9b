------------------------------ MODULE PathSync ------------------------------
(***************************************************************************)
(* The folder sources of the knowledge database.  Their paths are absolute *)
(* in every live database and portable in the sync repository: unpack      *)
(* encodes them row by row with the machine's path_map.conf, pack decodes  *)
(* them (lib/kcsync/paths.py, lib/portable_paths.py), and sources.uri is   *)
(* UNIQUE.  A whole sync is one step here; SyncEngine interleaves them.    *)
(*                                                                         *)
(* A path is a root and the components below it.  Roots: "/" for an        *)
(* absolute path, "~" for the home directory, and the names declared in a  *)
(* path map, written ${NAME}.  The other columns of a row do not change.   *)
(***************************************************************************)
EXTENDS Naturals, Sequences

CONSTANTS
    Machine,
    Rows,           \* how many source rows there may ever be
    Name,           \* names a path map may declare
    Part,           \* path components
    Home,           \* each machine's home directory
    Folders,        \* the directories a user adds or maps, per machine
    Directions,     \* of manual repairs: a subset of {"encode", "decode"}
    MaxMapEdits,    \* bound on edits of the path maps
    RankOf(_),      \* the order of canonical JSON, for the merge's tie
    NoRow           \* no row, or no declaration

Dir == Seq(Part)
Path == [root : {"/", "~"} \cup Name, rest : Dir]
Id == 1..Rows       \* in the order of the row identity
Table == [Id -> Path \cup {NoRow}]

ASSUME PathAssumption ==
    /\ Rows \in Nat
    /\ MaxMapEdits \in Nat
    /\ Directions \subseteq {"encode", "decode"}
    /\ Home \in [Machine -> Dir]
    /\ Folders \in [Machine -> SUBSET Dir]
    /\ NoRow \notin Path \cup Dir
    /\ {"/", "~"} \cap Name = {}

VARIABLES
    sources,        \* per machine, the rows of the live database
    pathMap,        \* per machine, what path_map.conf declares
    malformed,        \* per machine, whether path_map.conf is malformed
    lastTree,       \* per machine, the tree of its last sync
    mainTree,       \* the tree of main on the backend
    used,           \* row ids given out
    mapEdits        \* edits of path maps so far

pathVars == <<sources, pathMap, malformed, lastTree, mainTree, used, mapEdits>>

NoRows == [i \in Id |-> NoRow]

PathInit ==
    /\ sources = [m \in Machine |-> NoRows]
    /\ pathMap = [m \in Machine |-> [n \in Name |-> NoRow]]
    /\ malformed = [m \in Machine |-> FALSE]
    /\ lastTree = [m \in Machine |-> NoRows]
    /\ mainTree = NoRows
    /\ used = {}
    /\ mapEdits = 0

-----------------------------------------------------------------------------
Absolute(dir) == [root |-> "/", rest |-> dir]

(* Whole components are compared: /home/pawel2 is not under /home/pawel.   *)
Under(dir, base) == Len(base) <= Len(dir) /\ SubSeq(dir, 1, Len(base)) = base

(* A bug for the runs to catch: the remainder keeps the last component of  *)
(* the base.                                                               *)
BelowWithBase(dir, base) == SubSeq(dir, Len(base), Len(dir))

Below(dir, base) == SubSeq(dir, Len(base) + 1, Len(dir))

(* A sync takes a malformed map for an empty one.                          *)
Declared(m) == {n \in Name : ~ malformed[m] /\ pathMap[m][n] # NoRow}
Covering(m, dir) == {n \in Declared(m) : Under(dir, pathMap[m][n])}

(* The longest mapping wins. *)
Closest(m, dir) ==
    CHOOSE n \in Covering(m, dir) :
        \A o \in Covering(m, dir) : Len(pathMap[m][o]) <= Len(pathMap[m][n])

ToPortable(m, path) ==
    IF path.root # "/" THEN path
    ELSE IF Covering(m, path.rest) # {}
         THEN LET n == Closest(m, path.rest)
              IN  [root |-> n, rest |-> Below(path.rest, pathMap[m][n])]
    ELSE IF Under(path.rest, Home[m])
         THEN [root |-> "~", rest |-> Below(path.rest, Home[m])]
    ELSE path

(* A name this machine does not declare stays as it is.                    *)
ToLocal(m, path) ==
    IF path.root = "~" THEN Absolute(Home[m] \o path.rest)
    ELSE IF path.root \in Declared(m) THEN Absolute(pathMap[m][path.root] \o path.rest)
    ELSE path

Each(F(_), table) == [i \in Id |-> IF table[i] = NoRow THEN NoRow ELSE F(table[i])]

Encoded(m) == Each(LAMBDA path : ToPortable(m, path), sources[m])
Decoded(m, tree) == Each(LAMBDA path : ToLocal(m, path), tree)

-----------------------------------------------------------------------------
(* The row merge, for rows that differ in their path only.                 *)
MergedPath(base, ours, theirs) ==
    IF ours = theirs \/ base = theirs THEN ours
    ELSE IF base = ours \/ ours = NoRow THEN theirs
    ELSE IF theirs = NoRow \/ RankOf(ours) >= RankOf(theirs) THEN ours
    ELSE theirs

Merge(m) ==
    [i \in Id |-> MergedPath(lastTree[m][i], Encoded(m)[i], mainTree[i])]

(* INSERT OR REPLACE, row by row in the order of the identities: a row     *)
(* that decodes to a path already in the table deletes the row there.      *)
Inserted(table) ==
    [i \in Id |-> IF \E j \in Id : i < j /\ table[j] = table[i] THEN NoRow ELSE table[i]]

Sync(m) ==
    /\ mainTree' = Merge(m)
    /\ lastTree' = [lastTree EXCEPT ![m] = Merge(m)]
    /\ sources' = [sources EXCEPT ![m] = Inserted(Decoded(m, Merge(m)))]
    /\ UNCHANGED <<pathMap, malformed, used, mapEdits>>

-----------------------------------------------------------------------------
(* The manual encode and decode of a database: one UPDATE per row, and a   *)
(* row that would collide is left as it was.                               *)
Translate(m, path, direction) ==
    IF direction = "encode" THEN ToPortable(m, path) ELSE ToLocal(m, path)

Holds(table, path) == \E i \in Id : table[i] = path

(* A bug for the runs to catch: UPDATE OR REPLACE. *)
UpdatedOrReplaced(table, i, path) ==
    [j \in Id |-> IF j = i THEN path ELSE IF table[j] = path THEN NoRow ELSE table[j]]

Updated(table, i, path) ==
    IF Holds(table, path) THEN table ELSE [table EXCEPT ![i] = path]

Rewritten(m, direction) ==
    LET after[i \in 0..Rows] ==
            IF i = 0 THEN sources[m]
            ELSE LET table == after[i - 1]
                 IN  IF table[i] = NoRow THEN table
                     ELSE Updated(table, i, Translate(m, table[i], direction))
    IN  after[Rows]

(* Unlike a sync it refuses a malformed map. *)
Repair(m, direction) ==
    /\ ~ malformed[m]
    /\ sources' = [sources EXCEPT ![m] = Rewritten(m, direction)]
    /\ UNCHANGED <<pathMap, malformed, lastTree, mainTree, used, mapEdits>>

-----------------------------------------------------------------------------
(* The user and KiroCrew. *)
Add(m) ==
    \E i \in Id \ used, dir \in Folders[m] :
        /\ ~ Holds(sources[m], Absolute(dir))
        /\ used' = used \cup {i}
        /\ sources' = [sources EXCEPT ![m][i] = Absolute(dir)]
        /\ UNCHANGED <<pathMap, malformed, lastTree, mainTree, mapEdits>>

Remove(m) ==
    \E i \in Id :
        /\ sources[m][i] # NoRow
        /\ sources' = [sources EXCEPT ![m][i] = NoRow]
        /\ UNCHANGED <<pathMap, malformed, lastTree, mainTree, used, mapEdits>>

EditMap(m) ==
    /\ mapEdits < MaxMapEdits
    /\ mapEdits' = mapEdits + 1
    /\ \/ \E n \in Name, dir \in Folders[m] \cup {NoRow} :
            pathMap' = [pathMap EXCEPT ![m][n] = dir] /\ UNCHANGED malformed
       \/ malformed' = [malformed EXCEPT ![m] = ~ @] /\ UNCHANGED pathMap
    /\ UNCHANGED <<sources, lastTree, mainTree, used>>

PathNext ==
    \E m \in Machine :
        \/ Sync(m)
        \/ \E direction \in Directions : Repair(m, direction)
        \/ Add(m) \/ Remove(m) \/ EditMap(m)

PathSpec == PathInit /\ [][PathNext]_pathVars

-----------------------------------------------------------------------------
PathTypeOK ==
    /\ sources \in [Machine -> Table]
    /\ pathMap \in [Machine -> [Name -> Dir \cup {NoRow}]]
    /\ malformed \in [Machine -> BOOLEAN]
    /\ lastTree \in [Machine -> Table]
    /\ mainTree \in Table
    /\ used \subseteq Id
    /\ mapEdits \in 0..MaxMapEdits

(* A folder whose row no other machine changed is still a source, under    *)
(* the same absolute path, after this machine's sync ("the live database   *)
(* must never hold a ~", dbio.py; "both directions are idempotent",        *)
(* portable_paths.py), whatever was mapped, unmapped or malformed between.   *)
FoldersStay ==
    [][\A m \in Machine : Sync(m) =>
        \A i \in Id :
            LET path == sources[m][i]
            IN  /\ path # NoRow /\ path.root = "/"
                /\ mainTree[i] = lastTree[m][i]
                => Holds(sources'[m], path)]_pathVars

(* A manual repair neither drops a row nor makes it mean another folder    *)
(* ("the row is left as it was and reported instead", Rewriter.run).       *)
RepairKeeps ==
    [][\A m \in Machine, direction \in Directions : Repair(m, direction) =>
        Decoded(m, sources'[m]) = Decoded(m, sources[m])]_pathVars

(* "Collisions are never merged. When normalization makes two rows equal,  *)
(* the row is left untouched and reported" (ADR 0001): a sync drops no row *)
(* that its merge kept.  The code breaks this.                             *)
CollisionsKept ==
    [][\A m \in Machine : Sync(m) =>
        \A i \in Id : mainTree'[i] # NoRow => sources'[m][i] # NoRow]_pathVars
=============================================================================
