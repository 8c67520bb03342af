SPECIFICATION FairSpec
CONSTANTS
    ChunkRows = 2
    Sizes = {72, 84, 100, 130, 160}
    Results <- MCResults
    NumColumns = 2
    MaxRetries = 1
    MaxPosition = 5
INVARIANTS
    TypeOK
    LayoutIsSound
    MovedRowIsReadable
    CountIsExact
PROPERTIES
    HoldsSlice
    MoveEnds
