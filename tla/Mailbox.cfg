SPECIFICATION Spec
CONSTANTS
    here = here
    away = away
    p1 = p1
    p2 = p2
    p3 = p3
    b1 = b1
    b2 = b2
    Machine = {here, away}
    Name = {1, 2}
    Bytes = {b1}
    Command = {p1, p2, p3}
    Host <- MCHost
    Address = {here, "all"}
    Nothing = Nothing
    Fault = {"kill", "lost", "force"}
SYMMETRY Interchangeable
CHECK_DEADLOCK FALSE
INVARIANTS InstalledOnce RecordsAreTrue NothingLost
