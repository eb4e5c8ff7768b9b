SPECIFICATION HSpec
CONSTANTS
    Machine = {1, 2}
    Key = {"k"}
    Absent = Absent
    Body = {"row"}
    Timed = TRUE
    Instant <- MCInstant
    TextRank <- MCInstant
    RowRank <- MCRowRank
    Stamp = {1, 2}
    Parsed = {1, 2}
    Version = {1}
    Command <- WithPush
    Fault = {"pull", "overlap"}
    MaxCommits = 7
CHECK_DEADLOCK FALSE
INVARIANTS EditsSurvive PackLosesNothing MainMatchesLive
PROPERTIES NothingComesBack Promised
