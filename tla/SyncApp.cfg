SPECIFICATION Spec
CONSTANTS
    a1 = a1
    a2 = a2
    a3 = a3
    Attempt = {a1, a2}
    MaxOther = 1
    KeepCount = 1
    Window = 1
    Nobody = Nobody
    Fault = {"timeout", "kill", "db", "push"}
SYMMETRY Interchangeable
CHECK_DEADLOCK FALSE
INVARIANTS OwnRecords Announced
PROPERTIES DismissalStands PendingKept
