SPECIFICATION PartsSpec
CONSTANTS
    Requests = {t1, t2, t3}
    Blocks <- SmallTorrent
    LastBlock <- LastOfTorrent
    ReportCapacity = 0
    Kinds = {"add", "remove", "sync", "load", "process"}
    Faults = TRUE
    None = None
    PieceLength = 4
    MergeBlocks <- AnyBlock
    MaxPending = 4
    FileLists <- SmallFiles
    Positions = {0, 1, 2, 3, 4, 5, 6, 7, 8}
    Lengths = {0, 1, 2, 3, 4}
SYMMETRY Symmetry
CHECK_DEADLOCK FALSE
INVARIANTS
    AddedAfterGoodPieces
    ProcessedIsReported
    GoodIsGood
    NeverStuck
    MergeExact
    BlockIsAccessed

    
