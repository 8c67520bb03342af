SPECIFICATION FairSpec
CONSTANTS
    NULL = NULL
    Windows <- MCWindows
    Tiles = {x1, x2}
    Stored = {x1}
    Threads = {t1, t2}
    MaxCalls = 2
    MaxErrors = 1
INVARIANTS
    TypeOK
    ConnectionOpenWhileUsed
    FilledWindowIsHeld
    ClosedInTheEnd
    TileIsTheOneAsked
PROPERTIES
    CallsEnd
    CorruptDatabaseCloses
CHECK_DEADLOCK FALSE
