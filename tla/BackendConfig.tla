---------------------------- MODULE BackendConfig ----------------------------
(***************************************************************************)
(* config.sh as the app edits it (app/backend/backends.py) and the sync    *)
(* script reads it.  The server runs requests in a thread pool, without a  *)
(* lock: each reads the lines, replaces or appends the keys it was asked   *)
(* to set, and writes the whole file again in place.  The script and the   *)
(* app's connection test source the file whenever they start.              *)
(***************************************************************************)
EXTENDS Naturals, Sequences

CONSTANTS
    Request,        \* requests in flight at the same time
    Key,            \* the settings, one of them "SYNC_BACKEND"
    Setting,        \* their values
    Updates,        \* what each request sets: lines of different keys
    FirstFiles,     \* config.sh before the first request, one of these
    Env,            \* the environment, of the server and of its syncs
    User,           \* whoever writes config.sh by hand
    Expanded,       \* what bash makes of a value written by hand
    ScriptDefault,  \* what a backend script falls back to
    AppDefault      \* what the app takes for that

(* A line exports a key, or is kept verbatim.  The app quotes the values   *)
(* it writes, so that bash leaves them alone.                              *)
Verbatim == "verbatim"
Line == [key : Key \cup {Verbatim}, value : Setting, by : Request \cup {User}]

(* No value, and the empty one: bash's ${VAR:-default} takes them alike.   *)
Empty == ""

ASSUME BackendAssumption ==
    /\ "SYNC_BACKEND" \in Key /\ Verbatim \notin Key /\ Empty \in Setting
    /\ {Env, ScriptDefault, AppDefault} \subseteq [Key -> Setting]
    /\ Expanded \in [Setting -> Setting] /\ Expanded[Empty] = Empty
    /\ User \notin Request
    /\ FirstFiles \subseteq Seq(Line)
    /\ \A seq \in FirstFiles : \A i \in DOMAIN seq : seq[i].by = User
    /\ Updates \in [Request -> Seq(Line)]
    /\ \A r \in Request : \A i \in DOMAIN Updates[r] :
         Updates[r][i].key \in Key /\ Updates[r][i].by = r
    /\ \A seq \in FirstFiles \cup {Updates[r] : r \in Request} :
         \A i, j \in DOMAIN seq : seq[i].key = seq[j].key => i = j

VARIABLES
    file,       \* the lines of config.sh
    at,         \* where each request is
    lines,      \* the lines a request is about to write
    collided,   \* whether two requests ever had the file open for writing
    sourced     \* the lines of the file when the last sync started

backendVars == <<file, at, lines, collided, sourced>>

-----------------------------------------------------------------------------
Places(seq, key) == {i \in DOMAIN seq : seq[i].key = key}

(* The last export of a key wins, in a shell and in _read_config_values.   *)
Last(seq, key) ==
    seq[CHOOSE i \in Places(seq, key) : \A j \in Places(seq, key) : j <= i]

(* Its value as _parse_shell_value reads it, and as bash does.             *)
Value(seq, key) ==
    IF Places(seq, key) = {} THEN Empty ELSE Last(seq, key).value

ShellValue(seq, key) ==
    IF Places(seq, key) # {} /\ Last(seq, key).by = User
    THEN Expanded[Value(seq, key)] ELSE Value(seq, key)

FirstOf(values) ==
    LET given == {i \in DOMAIN values : values[i] # Empty}
    IN  IF given = {} THEN Empty
        ELSE values[CHOOSE i \in given : \A j \in given : i <= j]

(* What a sync uses: the environment wins for the backend, which the       *)
(* script saves before it sources the file; an export in the file, empty   *)
(* ones too, wins for everything else.                                     *)
Used(seq, key) ==
    LET written == ShellValue(seq, key)
    IN  IF key = "SYNC_BACKEND" THEN FirstOf(<<Env[key], written, ScriptDefault[key]>>)
        ELSE IF Places(seq, key) # {} THEN FirstOf(<<written, ScriptDefault[key]>>)
        ELSE FirstOf(<<Env[key], ScriptDefault[key]>>)

(* A bug for the runs to catch: the environment is asked first. *)
ToldEnvFirst(seq, key) == FirstOf(<<Env[key], Value(seq, key), AppDefault[key]>>)

(* What the app shows: get_current_backend and _effective_value. *)
Told(seq, key) ==
    IF key = "SYNC_BACKEND" THEN FirstOf(<<Value(seq, key), AppDefault[key]>>)
    ELSE FirstOf(<<Value(seq, key), Env[key], AppDefault[key]>>)

BackendInit ==
    /\ file \in FirstFiles
    /\ at = [r \in Request |-> "asked"]
    /\ lines = [r \in Request |-> <<>>]
    /\ collided = FALSE
    /\ sourced = file

-----------------------------------------------------------------------------
(* A bug for the runs to catch: a key that has a line already is left out. *)
WithAppended(seq, updates) ==
    seq \o SelectSeq(updates, LAMBDA u : u.key = "SYNC_BACKEND" \/ Places(seq, u.key) = {})

(* The updates left when every line has been passed, in their order.       *)
NewLines(seq, updates) ==
    LET added[n \in 0 .. Len(updates)] ==
            IF n = 0 THEN <<>>
            ELSE IF Places(seq, updates[n].key) = {} THEN Append(added[n - 1], updates[n])
            ELSE added[n - 1]
    IN  added[Len(updates)]

(* The first line that exports a key is replaced, every other line kept,   *)
(* and a key without a line is appended.                                   *)
With(seq, updates) ==
    [i \in DOMAIN seq |->
        IF /\ Places(updates, seq[i].key) # {}
           /\ \A j \in Places(seq, seq[i].key) : i <= j
        THEN Last(updates, seq[i].key)
        ELSE seq[i]]
    \o NewLines(seq, updates)

Read(r) ==
    /\ at[r] = "asked"
    /\ at' = [at EXCEPT ![r] = "read"]
    /\ lines' = [lines EXCEPT ![r] = With(file, Updates[r])]
    /\ UNCHANGED <<file, collided, sourced>>

(* open(..., "w") truncates the file; the lines are written when it is     *)
(* closed.                                                                 *)
Open(r) ==
    /\ at[r] = "read"
    /\ at' = [at EXCEPT ![r] = "open"]
    /\ file' = <<>>
    /\ collided' = (collided \/ \E other \in Request : at[other] = "open")
    /\ UNCHANGED <<lines, sourced>>

(* A writer starts at the beginning: what another one wrote beyond its own *)
(* length stays.                                                           *)
Write(r) ==
    /\ at[r] = "open"
    /\ at' = [at EXCEPT ![r] = "written"]
    /\ file' = lines[r] \o SubSeq(file, Len(lines[r]) + 1, Len(file))
    /\ UNCHANGED <<lines, collided, sourced>>

SyncStarts ==
    /\ sourced' = file
    /\ UNCHANGED <<file, at, lines, collided>>

BackendNext ==
    \/ \E r \in Request : Read(r) \/ Open(r) \/ Write(r)
    \/ SyncStarts

BackendSpec == BackendInit /\ [][BackendNext]_backendVars

-----------------------------------------------------------------------------
BackendTypeOK ==
    /\ file \in Seq(Line)
    /\ at \in [Request -> {"asked", "read", "open", "written"}]
    /\ lines \in [Request -> Seq(Line)]
    /\ collided \in BOOLEAN
    /\ sourced \in Seq(Line)

(* A sync that finds in config.sh the backend that a request switched to   *)
(* finds with it every setting of the switch, unless another request set   *)
(* that one to something else ("a switch and its settings never land only  *)
(* half-applied", switch_backend), at whatever moment it starts and        *)
(* whatever was written over, unless two requests write at the same time.  *)
(* A sync that sources the file while a request has it open finds no       *)
(* settings at all, and takes the default for each: see README.            *)
SwitchIsWhole ==
    \A r \in Request :
        /\ ~ collided
        /\ Places(sourced, "SYNC_BACKEND") # {} /\ Last(sourced, "SYNC_BACKEND").by = r
        => \A i \in DOMAIN Updates[r] :
             LET key == Updates[r][i].key
             IN  /\ Places(sourced, key) # {}
                 /\ \/ Last(sourced, key) = Updates[r][i]
                    \/ Last(sourced, key).by \in Request \ {r}

(* What the app shows as in effect is what a sync that starts now would    *)
(* use ("precedence mirrors what actually happens when kirocrew-sync.sh    *)
(* runs", _effective_value), except where the environment names the        *)
(* backend; an export in the file is empty over a value in the             *)
(* environment; bash makes something else of what the user wrote; or       *)
(* nobody set the key and the app has another default than the script.     *)
ToldIsUsed ==
    \A k \in Key :
        LET value == Value(file, k)
            export == Places(file, k) # {}
        IN  \/ k = "SYNC_BACKEND" /\ Env[k] # Empty
            \/ export /\ value = Empty /\ Env[k] # Empty
            \/ export /\ Last(file, k).by = User /\ Expanded[value] # value
            \/ value = Empty /\ Env[k] = Empty /\ AppDefault[k] # ScriptDefault[k]
            \/ Told(file, k) = Used(file, k)
=============================================================================
