SPECIFICATION PeerSpec
CONSTANTS
    None = None
    p1 = p1
    p2 = p2
    s1 = s1
    s2 = s2
    Peers = {p1, p2}
    Sinks = {s1, s2}
    MaxPeers = 1
    SinkCapacity = 0
    PeerStreamCapacity = 0
    MaxAdds = 2
    MaxSends = 1
    Kinds <- AllKinds
    Events <- Failures
SYMMETRY Symmetry
INVARIANTS
    RunningIsListed
    StrikesTheRightPeer
    SeenInOrder
CHECK_DEADLOCK FALSE
