SPECIFICATION TablesSpec
CONSTANTS
    HashLen = 2
    ByteBits = 2
    SelfId = 9
    Contacts <- SomeContacts
    BucketSize = 2
    LastSeen = 1
    RefreshRequests = 1
    Requesters <- SomeRequesters
    Known <- SomeKnown
    Askers <- SomeAskers
    RefreshInterval = 1
    InfoHashes = {1}
    PeerAddrs <- SomePeers
    MaxItemsStored = 2
    ExpirationTime = 2
    Ports = {2}
    ReadOnly = FALSE
    ClosestNum = 1
    Secrets = {1, 2, 3, 4, 5}
    MaxActionId = 4
    ActionPrealloc = 2
    MaxMessageId = 6
    MessagePrealloc = 2
    Actions = 2
INVARIANTS
    WellPlaced
    
    
    RequestsAreServed
    IdsIdentifyRequests
PROPERTIES
    GoodNodesStay
