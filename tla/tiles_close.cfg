SPECIFICATION Spec
CONSTANTS
    NULL = NULL
    Windows <- MCWindows
    Tiles = {x1, x2, x3}
    Stored = {x1, x2}
    Threads = {t1, t2}
    MaxCalls = 2
    MaxErrors = 1
INVARIANT UsesLiveWindow
CHECK_DEADLOCK FALSE
