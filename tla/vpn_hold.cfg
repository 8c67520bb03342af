SPECIFICATION Spec
CONSTANTS
    Starts = {c1}
    Stops = {}
    NULL = NULL
    Reported <- MCAuth
    Requests = {"hold"}
    MaxEvents = 3
PROPERTIES HoldAfterAuthFailureCloses
CHECK_DEADLOCK FALSE
