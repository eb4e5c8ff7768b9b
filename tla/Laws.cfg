SPECIFICATION LawsSpec
CONSTANTS
    early = early
    alsoEarly = alsoEarly
    late = late
    garbled = garbled
    x = x
    y = y
    Body = {x, y}
    Absent = Absent
    Timed = TRUE
    Instant <- MCInstant
    TextRank <- MCTextRank
    RowRank <- MCRowRank
    Parsed = {early, alsoEarly, late}
    Stamp = {early, alsoEarly, late, garbled}
    a = a
    b = b
    Machine = {a, b}
    Rows = 2
    Name = {"CODE"}
    Part = {"ha", "hb", "docs", "opt"}
    Directions = {"encode", "decode"}
    MaxMapEdits = 2
    NoRow = NoRow
    Home <- MCHome
    Folders <- MCFolders
    RankOf <- MCRankOf
    p = p
    q = q
    Host = {p, q}
    Word = {"w1", "w2", "w3"}
    Missing = Missing
    MaxConfigEdits = 4
    Private <- MCPrivate
    RankOfJson <- MCRankOfJson
    switch = switch
    plain = plain
    back = back
    Request = {switch, plain, back}
    Key = {"SYNC_BACKEND", "S3_BUCKET", "REMOTE", "FOLDER", "LOCAL_DIR"}
    Setting = {"", "env", "default", "own", "old", "new", "s3", "gdrive", "$HOME", "home", "your-bucket"}
    User = User
    Updates <- MCUpdates
    FirstFiles <- MCFirstFiles
    Env <- MCEnv
    Expanded <- MCExpanded
    ScriptDefault <- MCScriptDefault
    AppDefault <- MCAppDefault
SYMMETRY Symmetry
INVARIANTS Symmetric EditBeatsDeletion OrderIndependent PrivateStaysHome JsonSymmetric SwitchIsWhole ToldIsUsed
PROPERTIES FoldersStay RepairKeeps OwnLeavesKept
