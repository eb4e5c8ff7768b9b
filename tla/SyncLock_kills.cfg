SPECIFICATION FairSpec
CONSTANTS
    p1 = p1
    p2 = p2
    p3 = p3
    Proc = {p1, p2, p3}
    NoProc = NoProc
    Crashes = TRUE
CHECK_DEADLOCK FALSE
INVARIANTS ExclusiveUnlessRobbed OrderlyExitLeavesNoLock
PROPERTIES StaleLockReclaimed
