SPECIFICATION Spec
CONSTANTS
    Starts = {c1, c2}
    Stops = {}
    NULL = NULL
    Reported <- MCConnected
    Requests = {}
    MaxEvents = 0
INVARIANTS
    RunningHasThread
    RunHasStreams
SYMMETRY StartSymmetry
CHECK_DEADLOCK FALSE
