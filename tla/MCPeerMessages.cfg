SPECIFICATION WireSpec
CONSTANTS
    IntMax = 1000000
    p1 = p1
    p2 = p2
    Peers <- MCConnected
    Messages <- MCPeerMessages
    Changes <- MCBuilderCalls
    max_payload = {16}
    MaxOps = 2
    HandshakeMessages <- MCHandshakeMessages
    LaterBytes <- MCLaterBytes
    InitiateMessages <- MCInitiateMessages
    RemoteAddrs = {"a1"}
    RemoteHandshakes <- MCRemoteHandshakes
    FilterChoices <- MCFilterChoices
    OurExtensions = {2, 3}
    sink_buffer_size = 0
    wait_buffer_size = 0
    done_buffer_size = 0
    MaxStarted = 2
    MaxAccepted = 1
    MaxFilterCalls = 3
INVARIANT ReceivedIsSent
CHECK_DEADLOCK FALSE
