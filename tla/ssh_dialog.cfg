SPECIFICATION Spec
CONSTANTS
    Sessions <- MCSessions
    Disconnects = {d1}
    MaxLosses = 0
PROPERTIES
    AgreeingNeverDisconnects
CHECK_DEADLOCK FALSE
