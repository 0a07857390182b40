CONSTANTS
    Cap = 4
    ChunkSizes = {1, 3, 5}
    MaxChunks = 4
    Lengths = {0, 4, 5}
    Undeclared = Undeclared
SPECIFICATION FairSpec
INVARIANTS TypeOK DownloadIntact
PROPERTIES FailureExplained EveryFetchEnds
CHECK_DEADLOCK FALSE
