SPECIFICATION KindSpec
CONSTANTS
    d1 = d1
    d2 = d2
    d3 = d3
    r1 = r1
    r2 = r2
    Daemon = {d1}
    Request = {}
    MaxRemote = 1
    Nothing = Nothing
CHECK_DEADLOCK FALSE
PROPERTIES DeferredIsSynced
