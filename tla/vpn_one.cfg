SPECIFICATION Spec
CONSTANTS
    Starts = {c1}
    Stops = {s1}
    NULL = NULL
    Reported <- MCReported
    Requests = {"hold", "bytecount", "password"}
    MaxEvents = 2
INVARIANTS
    TypeOK
    NoLeakedSocket
    NoZombieService
    RunLeavesDisconnected
PROPERTIES
    NeverAbandonsConnection
CHECK_DEADLOCK FALSE
