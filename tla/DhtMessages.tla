---------------------------- MODULE DhtMessages ----------------------------
(***************************************************************************)
(* The messages of the DHT: what the encoders write, and what              *)
(* MessageType::new makes of a value that came from another node.  Names   *)
(* of methods and of message types are one byte of text, node ids and      *)
(* addresses have their real lengths.  An optional field is a set with at  *)
(* most one element.                                                       *)
(***************************************************************************)
EXTENDS BencodeAccess

NODE_ID_LEN == 20
BYTES_PER_COMPACT_IP == 6
BYTES_PER_COMPACT_NODE_INFO == 26

REQUEST_TYPE_KEY == <<113>>
RESPONSE_TYPE_KEY == <<114>>
ERROR_TYPE_KEY == <<101>>

PING_TYPE_KEY == <<112>>
FIND_NODE_TYPE_KEY == <<102>>
GET_PEERS_TYPE_KEY == <<103>>
ANNOUNCE_PEER_TYPE_KEY == <<97>>

-----------------------------------------------------------------------------
(* Compact addresses: four bytes of an address and two of a port.          *)

(* Mutant: the port is written with its low byte first.                    *)
WriteSocketSwapped(addr) == addr.ip \o <<addr.port % 256, addr.port \div 256>>

WriteSocket(addr) == addr.ip \o <<addr.port \div 256, addr.port % 256>>

NodeEncode(node) == node.id \o WriteSocket(node.addr)

socket_v4_from_bytes_be(bytes) == [ip |-> SubSeq(bytes, 1, 4), port |-> 256 * bytes[5] + bytes[6]]

parts_from_compact_info(bytes) ==
    [id |-> SubSeq(bytes, 1, NODE_ID_LEN),
     addr |-> socket_v4_from_bytes_be(SubSeq(bytes, NODE_ID_LEN + 1, NODE_ID_LEN + BYTES_PER_COMPACT_IP))]

(* Mutant: any number of bytes that holds a node.                          *)
CompactNodeInfoAny(nodes) ==
    IF nodes = <<>> \/ Len(nodes) >= BYTES_PER_COMPACT_NODE_INFO THEN Ok(nodes) ELSE Err("InvalidResponse")

CompactNodeInfo(nodes) ==
    IF Len(nodes) % BYTES_PER_COMPACT_NODE_INFO = 0 THEN Ok(nodes) ELSE Err("InvalidResponse")

(* validate_values: a list of strings, each the size of an address.        *)
CompactValueInfo(values) ==
    IF \A k \in DOMAIN values : ~Failed(convert_bytes(values[k])) /\ Len(values[k].bytes) = BYTES_PER_COMPACT_IP
    THEN Ok(values) ELSE Err("InvalidResponse")

(* The iterators over both slice an entry until the bytes are used up.     *)
CompactNodeCount(nodes) == (Len(nodes) + BYTES_PER_COMPACT_NODE_INFO - 1) \div BYTES_PER_COMPACT_NODE_INFO

CompactNodes(nodes) ==
    [k \in 1 .. CompactNodeCount(nodes) |->
        parts_from_compact_info(SubSeq(nodes, (k - 1) * BYTES_PER_COMPACT_NODE_INFO + 1, k * BYTES_PER_COMPACT_NODE_INFO))]

CompactValues(values) == [k \in DOMAIN values |-> socket_v4_from_bytes_be(values[k].bytes)]

-----------------------------------------------------------------------------
(* Requests                                                                *)

validate_node_id(bytes) == IF Len(bytes) = NODE_ID_LEN THEN Ok(bytes) ELSE Err("ProtocolError")
validate_info_hash(bytes) == IF Len(bytes) = NODE_ID_LEN THEN Ok(bytes) ELSE Err("ProtocolError")

NodeIdAt(args, key) ==
    LET b == lookup_and_convert_bytes(args, key) IN IF Failed(b) THEN b ELSE validate_node_id(b.ok)

InfoHashAt(args) ==
    LET b == lookup_and_convert_bytes(args, "info_hash") IN IF Failed(b) THEN b ELSE validate_info_hash(b.ok)

PingRequest(args, trans) ==
    LET id == NodeIdAt(args, "id")
    IN  Checked(<<id>>, Ok([type |-> "PingRequest", trans |-> trans, node_id |-> id.ok]))

FindNodeRequest(args, trans, target_key) ==
    LET id == NodeIdAt(args, "id")
        target == NodeIdAt(args, target_key)
    IN  Checked(<<id, target>>,
            Ok([type |-> "FindNodeRequest", trans |-> trans, node_id |-> id.ok, target_id |-> target.ok]))

GetPeersRequest(args, trans) ==
    LET id == NodeIdAt(args, "id")
        hash == InfoHashAt(args)
    IN  Checked(<<id, hash>>,
            Ok([type |-> "GetPeersRequest", trans |-> trans, node_id |-> id.ok, info_hash |-> hash.ok]))

(* The port of an announcement: none if it is implied, otherwise the low   *)
(* sixteen bits of what the key says.                                      *)
ConnectPort(args) ==
    LET implied == lookup_and_convert_int(args, "implied_port")
        port == lookup_and_convert_int(args, "port")
    IN  IF ~Failed(implied) /\ implied.ok # 0 THEN Ok({})
        ELSE IF Failed(port) THEN port
        ELSE Ok({(IF port.ok < 0 THEN -port.ok ELSE port.ok) % 65536})

AnnouncePeerRequest(args, trans) ==
    LET id == NodeIdAt(args, "id")
        hash == InfoHashAt(args)
        token == lookup_and_convert_bytes(args, "token")
        port == ConnectPort(args)
    IN  Checked(<<id, hash, token, port>>,
            Ok([type |-> "AnnouncePeerRequest", trans |-> trans, node_id |-> id.ok, info_hash |-> hash.ok,
                token |-> token.ok, port |-> port.ok]))

(* The key of the target in a request of an unknown method, if any.        *)
forward_compatible_find_node(args) ==
    IF "target" \in DOMAIN args THEN {"target"} ELSE {"info_hash"} \cap DOMAIN args

RequestFromParts(root, trans, method) ==
    LET args == lookup_and_convert_dict(root, "a")
        target_key == forward_compatible_find_node(args.ok)
    IN  IF Failed(args) THEN args
        ELSE IF method = PING_TYPE_KEY THEN PingRequest(args.ok, trans)
        ELSE IF method = FIND_NODE_TYPE_KEY THEN FindNodeRequest(args.ok, trans, "target")
        ELSE IF method = GET_PEERS_TYPE_KEY THEN GetPeersRequest(args.ok, trans)
        ELSE IF method = ANNOUNCE_PEER_TYPE_KEY THEN AnnouncePeerRequest(args.ok, trans)
        ELSE IF target_key = {} THEN Err("MethodUnknown")
        ELSE FindNodeRequest(args.ok, trans, CHOOSE k \in target_key : TRUE)

-----------------------------------------------------------------------------
(* Responses and errors                                                    *)

PingResponse(args, trans) ==
    LET id == NodeIdAt(args, "id")
    IN  Checked(<<id>>, Ok([type |-> "PingResponse", trans |-> trans, node_id |-> id.ok]))

AnnouncePeerResponse(args, trans) ==
    LET id == NodeIdAt(args, "id")
    IN  Checked(<<id>>, Ok([type |-> "AnnouncePeerResponse", trans |-> trans, node_id |-> id.ok]))

FindNodeResponse(args, trans) ==
    LET id == NodeIdAt(args, "id")
        nodes == lookup_and_convert_bytes(args, "nodes")
        info == IF Failed(nodes) THEN nodes ELSE CompactNodeInfo(nodes.ok)
    IN  Checked(<<id, info>>,
            Ok([type |-> "FindNodeResponse", trans |-> trans, node_id |-> id.ok, nodes |-> {info.ok}]))

(* nodes and values that are there and of the right type are validated;    *)
(* one of them has to be.                                                  *)
GetPeersResponse(args, trans) ==
    LET id == NodeIdAt(args, "id")
        token == lookup_and_convert_bytes(args, "token")
        nodes == lookup_and_convert_bytes(args, "nodes")
        values == lookup_and_convert_list(args, "values")
        nodes_info == IF Failed(nodes) THEN Ok(<<>>) ELSE CompactNodeInfo(nodes.ok)
        values_info == IF Failed(values) THEN Ok(<<>>) ELSE CompactValueInfo(values.ok)
    IN  Checked(<<id, nodes_info, values_info,
                  IF Failed(nodes) /\ Failed(values) THEN Err("InvalidResponse") ELSE Ok(<<>>)>>,
            Ok([type |-> "GetPeersResponse", trans |-> trans, node_id |-> id.ok,
                token |-> IF Failed(token) THEN {} ELSE {token.ok},
                nodes |-> IF Failed(nodes) THEN {} ELSE {nodes.ok},
                values |-> IF Failed(values) THEN {} ELSE {values.ok}]))

(* expected is what the transaction id stands for: handler.rs maps the ids *)
(* of searches to find_node and get_peers, and all others to nothing.      *)
ResponseFromParts(root, trans, expected) ==
    LET args == lookup_and_convert_dict(root, "r")
    IN  IF Failed(args) THEN args
        ELSE IF expected = "Ping" THEN PingResponse(args.ok, trans)
        ELSE IF expected = "FindNode" THEN FindNodeResponse(args.ok, trans)
        ELSE IF expected = "GetPeers" THEN GetPeersResponse(args.ok, trans)
        ELSE IF expected = "AnnouncePeer" THEN AnnouncePeerResponse(args.ok, trans)
        ELSE Err("UnsolicitedResponse")

ErrorCodes == 201 .. 204    \* generic, server, protocol, method unknown

(* The two arguments of an error, the code cut to eight bits.              *)
extract_error_args(args) ==
    IF Len(args) # 2 THEN Err("InvalidResponse")
    ELSE LET code == convert_int(args[1])
             text == convert_str(args[2])
         IN  Checked(<<code, text>>, Ok([code |-> (IF code.ok < 0 THEN -code.ok ELSE code.ok) % 256, text |-> text.ok]))

ErrorFromParts(root, trans) ==
    LET list == lookup_and_convert_list(root, "e")
        args == IF Failed(list) THEN list ELSE extract_error_args(list.ok)
    IN  IF Failed(args) THEN args
        ELSE IF args.ok.code \notin ErrorCodes THEN Err("InvalidResponse")
        ELSE Ok([type |-> "ErrorMessage", trans |-> trans, code |-> args.ok.code, message |-> args.ok.text])

(* MessageType::new                                                        *)
ParseMessage(value, expected) ==
    LET root == convert_dict(value)
        trans == lookup_and_convert_bytes(root.ok, "t")
        type == lookup_and_convert_str(root.ok, "y")
        method == lookup_and_convert_str(root.ok, "q")
    IN  IF Failed(root) THEN root
        ELSE Checked(<<trans, type>>,
            IF type.ok = REQUEST_TYPE_KEY
              THEN IF Failed(method) THEN method ELSE RequestFromParts(root.ok, trans.ok, method.ok)
            ELSE IF type.ok = RESPONSE_TYPE_KEY THEN ResponseFromParts(root.ok, trans.ok, expected)
            ELSE IF type.ok = ERROR_TYPE_KEY THEN ErrorFromParts(root.ok, trans.ok)
            ELSE Err("InvalidMessage"))

-----------------------------------------------------------------------------
(* Encoders                                                                *)

RequestRoot(trans, method, args) ==
    ben_map([t |-> ben_bytes(trans), y |-> ben_bytes(REQUEST_TYPE_KEY), q |-> ben_bytes(method), a |-> ben_map(args)])

ResponseRoot(trans, args) ==
    ben_map([t |-> ben_bytes(trans), y |-> ben_bytes(RESPONSE_TYPE_KEY), r |-> ben_map(args)])

EncodePingRequest(m) == RequestRoot(m.trans, PING_TYPE_KEY, [id |-> ben_bytes(m.node_id)])

EncodeFindNodeRequest(m) ==
    RequestRoot(m.trans, FIND_NODE_TYPE_KEY, [id |-> ben_bytes(m.node_id), target |-> ben_bytes(m.target_id)])

EncodeGetPeersRequest(m) ==
    RequestRoot(m.trans, GET_PEERS_TYPE_KEY, [id |-> ben_bytes(m.node_id), info_hash |-> ben_bytes(m.info_hash)])

(* An implied port is written as port 0.                                   *)
EncodeAnnouncePeerRequest(m) ==
    RequestRoot(m.trans, ANNOUNCE_PEER_TYPE_KEY,
        [id |-> ben_bytes(m.node_id), info_hash |-> ben_bytes(m.info_hash), token |-> ben_bytes(m.token),
         implied_port |-> ben_int(IF m.port = {} THEN 1 ELSE 0),
         port |-> ben_int(IF m.port = {} THEN 0 ELSE CHOOSE p \in m.port : TRUE)])

EncodePingResponse(m) == ResponseRoot(m.trans, [id |-> ben_bytes(m.node_id)])
EncodeAnnouncePeerResponse(m) == ResponseRoot(m.trans, [id |-> ben_bytes(m.node_id)])

EncodeFindNodeResponse(m) ==
    ResponseRoot(m.trans, [id |-> ben_bytes(m.node_id)] @@ Entry("nodes", m.nodes, ben_bytes))

(* This response also names its method.                                    *)
EncodeGetPeersResponse(m) ==
    LET args == [id |-> ben_bytes(m.node_id)] @@ Entry("token", m.token, ben_bytes) @@ Entry("values", m.values, ben_list)
                 @@ Entry("nodes", m.nodes, ben_bytes)
    IN  ben_map(ResponseRoot(m.trans, args).dict @@ [q |-> ben_bytes(GET_PEERS_TYPE_KEY)])

EncodeErrorMessage(m) ==
    ben_map([t |-> ben_bytes(m.trans), y |-> ben_bytes(ERROR_TYPE_KEY),
             e |-> ben_list(<<ben_int(m.code), ben_bytes(m.message)>>)])

EncodeMessage(m) ==
    CASE m.type = "PingRequest" -> EncodePingRequest(m)
      [] m.type = "FindNodeRequest" -> EncodeFindNodeRequest(m)
      [] m.type = "GetPeersRequest" -> EncodeGetPeersRequest(m)
      [] m.type = "AnnouncePeerRequest" -> EncodeAnnouncePeerRequest(m)
      [] m.type = "PingResponse" -> EncodePingResponse(m)
      [] m.type = "FindNodeResponse" -> EncodeFindNodeResponse(m)
      [] m.type = "GetPeersResponse" -> EncodeGetPeersResponse(m)
      [] m.type = "AnnouncePeerResponse" -> EncodeAnnouncePeerResponse(m)
      [] m.type = "ErrorMessage" -> EncodeErrorMessage(m)

(* The response a query asks for, which its transaction id stands for.     *)
Expected(m) ==
    CASE m.type = "PingResponse" -> "Ping" [] m.type = "FindNodeResponse" -> "FindNode"
      [] m.type = "GetPeersResponse" -> "GetPeers" [] m.type = "AnnouncePeerResponse" -> "AnnouncePeer"
      [] OTHER -> "None"
=============================================================================
