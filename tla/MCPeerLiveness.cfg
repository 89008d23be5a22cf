SPECIFICATION PeerFairSpec
CONSTANTS
    None = None
    p1 = p1
    s1 = s1
    Peers = {p1}
    Sinks = {s1}
    MaxPeers = 1
    SinkCapacity = 0
    PeerStreamCapacity = 0
    MaxAdds = 2
    MaxSends = 1
    Kinds <- AllKinds
    Events <- Traffic
PROPERTIES
    AcceptedIsSettled
    CallsReturn
CHECK_DEADLOCK FALSE
