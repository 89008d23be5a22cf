SPECIFICATION WorkersSpec
CONSTANTS
    Workers = {w1, w2}
    PieceLength = 2
    Accessors <- MCAccessors
    UtHashes = {"h1"}
    UtPeers = {"p1", "p2"}
    HashOf <- MCHashOf
    MAX_REQUEST_SIZE = 2
    MAX_PEER_REQUESTS = 1
    REQUEST_TIMEOUT = 1
    InfoSize = 3
    ClaimedSizes = {2, 3}
    Durations = {1}
    MaxUnsent = 1
    HashLen = 1
    ByteBits = 3
    SelfId = 0
    Contacts <- SomeContacts
    Knows <- SomeKnows
    BucketSize = 2
    LastSeen = 1
    RefreshRequests = 1
    StartAddrs <- SomeAddrs
    Routers <- SomeRouters
    InfoHash <- SomeHashes
    Kinds = {"nodes", "values", "both"}
    PingsPerBucket = 2
    GoodThreshold = 1
    MaxAttempts = 2
    InitialPick = 1
    IterativePick = 1
    Credits <- SomeCredits
CHECK_DEADLOCK FALSE
INVARIANTS
    PiecesAreReturned
    DownloadIsSound
    
PROPERTIES
    BuildEnds
    
