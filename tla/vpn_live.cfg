SPECIFICATION FairSpec
CONSTANTS
    Starts = {c1}
    Stops = {s1}
    NULL = NULL
    Reported <- MCConnected
    Requests = {"unsupported"}
    MaxEvents = 1
PROPERTIES ShutsDown StopReturns
CHECK_DEADLOCK FALSE
