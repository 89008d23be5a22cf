--------------------------- MODULE MCConnections ---------------------------
(* What a connection to a peer goes through: the pipeline of handshakes,   *)
(* a handshake on its socket, and the messages of the wire protocol.  A    *)
(* behaviour is one of a part, while the others wait in an initial state,  *)
(* where nothing their fairness is about is enabled.                       *)
EXTENDS PeerWire, HandshakeFramed, Handshaker

CONSTANTS p1, p2

VARIABLE part

V4 == <<10, 0, 0, 1>>
V6 == [k \in 1 .. 16 |-> k]

MCPeerMessages ==
    {KeepAlive, [type |-> "Choke"], [type |-> "UnInterested"],
     [type |-> "Have", piece_index |-> 258],
     [type |-> "BitField", bytes |-> <<161, 64>>],
     [type |-> "Request", piece_index |-> 1, block_offset |-> 2, block_length |-> 3],
     [type |-> "Cancel", piece_index |-> 1, block_offset |-> 2, block_length |-> 3],
     [type |-> "Piece", piece_index |-> 1, block_offset |-> 0, block |-> <<7, 8>>],
     [type |-> "Port", port |-> 6881],
     [type |-> "UtRequest", piece |-> 1], [type |-> "UtReject", piece |-> 0],
     [type |-> "UtData", piece |-> 0, total_size |-> 2, data |-> <<101, 5>>]}

Builder(field, key, opt) == [field |-> field, key |-> key, opt |-> opt]

MCBuilderCalls ==
    {Builder("id_map", UtMetadata, {3}), Builder("id_map", UtMetadata, {}), Builder("id_map", CustomType(<<120>>), {255}),
     Builder("our_id", <<>>, {<<65>>}), Builder("our_tcp_port", <<>>, {65535}),
     Builder("their_ip", <<>>, {V4}), Builder("their_ip", <<>>, {V6}),
     Builder("our_ipv6_addr", <<>>, {V6}), Builder("our_ipv4_addr", <<>>, {V4}),
     Builder("our_max_requests", <<>>, {-1}), Builder("metadata_size", <<>>, {0}),
     Builder("custom_entries", CLIENT_ID_KEY, {ben_int(5)}), Builder("custom_entries", ID_MAP_KEY, {ben_bytes(<<>>)}),
     Builder("custom_entries", <<120>>, {ben_list(<<ben_int(1)>>)})}

MCConnected == {p1, p2}

HandshakeField(n, b) == [k \in 1 .. n |-> b]

MCHandshake(prot) ==
    [prot |-> prot, ext |-> HandshakeField(NUM_EXTENSION_BYTES, 3),
     hash |-> HandshakeField(INFO_HASH_LEN, 4), pid |-> HandshakeField(PEER_ID_LEN, 5)]

MCHandshakeMessages == {MCHandshake(BitTorrent), MCHandshake([custom |-> {<<>>}]), MCHandshake([custom |-> {<<1>>}])}

MCLaterBytes == <<9, 9>>

MCInitiateMessages == {[addr |-> "a1", prot |-> "bt", hash |-> "h1"], [addr |-> "a2", prot |-> "bt", hash |-> "h1"]}

MCRemoteHandshakes ==
    {[prot |-> "bt", ext |-> {1, 2}, hash |-> "h1", pid |-> "p1"],
     [prot |-> "bt", ext |-> {3}, hash |-> "h2", pid |-> "p2"]}

MCFilterChoices ==
    {[field |-> "addr", wants |-> "a1", hit |-> Block, miss |-> Pass],
     [field |-> "pid", wants |-> "p1", hit |-> Allow, miss |-> Pass]}

ConnectionsInit ==
    /\ part \in {"wire", "framed", "handshaker"}
    /\ PeerWireInit /\ FramedInit /\ HandshakerInit

ConnectionsNext ==
    /\ UNCHANGED part
    /\ \/ part = "wire" /\ PeerWireNext /\ UNCHANGED <<framedVars, handVars>>
       \/ part = "framed" /\ FramedNext /\ UNCHANGED <<peerWireVars, handVars>>
       \/ part = "handshaker" /\ HandshakerNextState /\ UNCHANGED <<peerWireVars, framedVars>>

ConnectionsSpec ==
    /\ ConnectionsInit /\ [][ConnectionsNext]_<<part, peerWireVars, framedVars, handVars>>
    /\ HandshakerFairness

(* The messages alone.                                                     *)
WireSpec ==
    /\ ConnectionsInit /\ part = "wire"
    /\ [][ConnectionsNext]_<<part, peerWireVars, framedVars, handVars>>
=============================================================================
