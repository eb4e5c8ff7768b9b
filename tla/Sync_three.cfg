SPECIFICATION HSpec
CONSTANTS
    Machine = {1, 2, 3}
    Key = {"k"}
    Absent = Absent
    Body = {"row"}
    Timed = TRUE
    Instant <- MCInstant
    TextRank <- MCInstant
    RowRank <- MCRowRank
    Stamp = {1}
    Parsed = {1}
    Version = {1}
    Command <- Everyday
    Fault = {}
    MaxCommits = 8
CHECK_DEADLOCK FALSE
INVARIANTS SyncTakesAll
PROPERTIES BundlesCarriedForward
