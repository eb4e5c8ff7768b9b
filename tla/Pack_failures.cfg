SPECIFICATION Spec
CONSTANTS
    N = 3
    Store = {2, 3}
    Content = {"a", "b"}
    Files = 1
    Missing = Missing
    Bare = Bare
    Empty = Empty
    Torn = Torn
    Fault = {"gates", "backup", "apply", "restore", "files", "kill"}
CHECK_DEADLOCK FALSE
INVARIANTS Recoverable FilesLast
PROPERTIES AllOrNothing
