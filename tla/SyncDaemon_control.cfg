SPECIFICATION Spec
CONSTANTS
    d1 = d1
    d2 = d2
    d3 = d3
    r1 = r1
    r2 = r2
    Daemon = {d1, d2}
    Request = {r1, r2}
    MaxRemote = 1
    Nothing = Nothing
CHECK_DEADLOCK FALSE
INVARIANTS LockIsHeld StopConfirmed ScopeKept
PROPERTIES Answered
