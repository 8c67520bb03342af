SPECIFICATION FairSpec
CONSTANTS
    Sessions <- MCSessions
    Disconnects = {d1, d2}
    MaxLosses = 1
INVARIANTS
    TypeOK
    OpenSessionIsCurrent
PROPERTIES
    KillMatchesStart
    ToggleEnds
CHECK_DEADLOCK FALSE
