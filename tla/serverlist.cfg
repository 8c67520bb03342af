SPECIFICATION FairSpec
CONSTANTS
    r1 = r1
    r2 = r2
    Networks = {wifi}
    MaxChanges = 2
    Refreshes = {r1, r2}
    Packaged = packaged
    Pieces <- MCPieces
    MaxCrashes = 1
INVARIANTS
    TypeOK
    NoStaleOnline
    LoadedListIsLastWritten
    DialogMeansSaved
PROPERTIES
    ProgressEnds
CHECK_DEADLOCK FALSE
