SPECIFICATION HSpec
CONSTANTS
    Machine = {1, 2}
    Key = {"k"}
    Absent = Absent
    Body = {"row"}
    Timed = TRUE
    Instant <- MCInstant
    TextRank <- MCInstant
    RowRank <- MCRowRank
    Stamp = {1}
    Parsed = {1}
    Version = {1, 2}
    Command <- Everything
    Fault = {"busy", "concurrent", "crash", "pack", "push", "upgrade"}
    MaxCommits = 5
CHECK_DEADLOCK FALSE
INVARIANTS TypeOK OwnHistory NothingHalfMerged QuarantineHolds
PROPERTIES AgreementStands
