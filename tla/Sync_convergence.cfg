SPECIFICATION FairSpec
CONSTANTS
    Machine = {1, 2}
    Key = {"k"}
    Absent = Absent
    Body = {"row"}
    Timed = TRUE
    Instant <- MCInstant
    TextRank <- MCInstant
    RowRank <- MCRowRank
    Stamp = {1, 2}
    Parsed = {1, 2}
    Version = {1}
    Command <- SyncOnly
    Fault = {}
    MaxCommits = 16
CHECK_DEADLOCK FALSE
PROPERTIES Convergence
