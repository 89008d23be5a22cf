------------------------------ MODULE DhtWire ------------------------------
(***************************************************************************)
(* A DHT message on its way: encoded by one node, possibly changed, or     *)
(* written differently by another implementation, and parsed by the node   *)
(* that receives it, which expects one kind of response.                   *)
(***************************************************************************)
EXTENDS DhtMessages

CONSTANTS
    Ids,            \* node ids and info hashes, NODE_ID_LEN bytes each
    Addrs,          \* IPv4 addresses with ports
    Garbage,        \* values another implementation may write in a field
    MaxChanges      \* bound: fields changed on the way

VARIABLES
    sent,           \* the message
    listed,         \* the nodes and addresses that were put in it
    expects,        \* the response its receiver waits for
    wire,           \* the value on the wire
    changes         \* fields changed so far

wireVars == <<sent, listed, expects, wire, changes>>

Trans == <<1, 2>>
NodeList == {<<>>} \cup {<<[id |-> i, addr |-> a]>> : i \in Ids, a \in Addrs}
            \cup {<<[id |-> i, addr |-> a], [id |-> j, addr |-> a]>> : i, j \in Ids, a \in Addrs}
ValueList == {<<>>} \cup {<<a>> : a \in Addrs} \cup {<<a, b>> : a, b \in Addrs}

EncodeNodes(nodes) == FlattenSeq([k \in DOMAIN nodes |-> NodeEncode(nodes[k])])
EncodeValues(values) == [k \in DOMAIN values |-> ben_bytes(WriteSocket(values[k]))]

Requests ==
    [type : {"PingRequest"}, trans : {Trans}, node_id : Ids]
    \cup [type : {"FindNodeRequest"}, trans : {Trans}, node_id : Ids, target_id : Ids]
    \cup [type : {"GetPeersRequest"}, trans : {Trans}, node_id : Ids, info_hash : Ids]
    \cup [type : {"AnnouncePeerRequest"}, trans : {Trans}, node_id : Ids, info_hash : Ids, token : {<<7>>},
          port : {{}, {0}, {65535}}]

Responses ==
    [type : {"PingResponse", "AnnouncePeerResponse"}, trans : {Trans}, node_id : Ids]
    \cup [type : {"ErrorMessage"}, trans : {Trans}, code : ErrorCodes, message : {<<>>, <<65>>}]

WireInit ==
    /\ \/ sent \in Requests \cup Responses /\ listed = <<<<>>, <<>>>>
       \/ \E nodes \in NodeList, i \in Ids :
            /\ listed = <<nodes, <<>>>>
            /\ sent = [type |-> "FindNodeResponse", trans |-> Trans, node_id |-> i, nodes |-> {EncodeNodes(nodes)}]
       \/ \E nodes \in NodeList, values \in ValueList, i \in Ids, has \in SUBSET {"nodes", "values", "token"} :
            /\ has \cap {"nodes", "values"} # {}
            /\ listed = <<IF "nodes" \in has THEN nodes ELSE <<>>, IF "values" \in has THEN values ELSE <<>>>>
            /\ sent = [type |-> "GetPeersResponse", trans |-> Trans, node_id |-> i,
                       token |-> IF "token" \in has THEN {<<7>>} ELSE {},
                       nodes |-> IF "nodes" \in has THEN {EncodeNodes(nodes)} ELSE {},
                       values |-> IF "values" \in has THEN {EncodeValues(values)} ELSE {}]
    /\ expects = Expected(sent)
    /\ wire = EncodeMessage(sent)
    /\ changes = 0

Keys == {"t", "y", "q", "a", "r", "e", "id", "target", "info_hash", "token", "port", "implied_port", "nodes", "values"}

Put(dict, key, values) == ben_map([k \in {x \in {key} : values # {}} |-> CHOOSE v \in values : TRUE]
                                  @@ [k \in DOMAIN dict \ {key} |-> dict[k]])

(* One field of the message or of its arguments is another value, or gone. *)
ChangeField == \E key \in Keys, values \in {{}} \cup {{g} : g \in Garbage} :
    /\ changes < MaxChanges
    /\ changes' = changes + 1
    /\ \/ wire' = Put(wire.dict, key, values)
       \/ \E inner \in {"a", "r"} \cap DOMAIN wire.dict :
            /\ "dict" \in DOMAIN wire.dict[inner]
            /\ wire' = Put(wire.dict, inner, {Put(wire.dict[inner].dict, key, values)})
    /\ UNCHANGED <<sent, listed, expects>>

(* The receiver waits for something else, or for nothing: the transaction  *)
(* id is one of another action.                                            *)
OtherTransaction ==
    /\ changes = 0
    /\ expects' \in {"None", "FindNode", "GetPeers"}
    /\ changes' = MaxChanges
    /\ UNCHANGED <<sent, listed, wire>>

WireNext == ChangeField \/ OtherTransaction

(* A message on its way.                                                   *)
DhtWireSpec == WireInit /\ [][WireNext]_wireVars

Parsed == ParseMessage(wire, expects)

(* A result is the message that was sent, with what was listed in it.      *)
ReadAsSent(r) ==
    /\ r = Ok(sent)
    /\ "nodes" \in DOMAIN sent => \A n \in r.ok.nodes : CompactNodes(n) = listed[1]
    /\ "values" \in DOMAIN sent => \A v \in r.ok.values : CompactValues(v) = listed[2]

(* A message that is not changed is read back as it was sent, with the     *)
(* nodes and addresses that were put in it.                                *)
SentIsRead == (changes = 0) => ReadAsSent(Parsed)

(* Whatever is accepted can be used: node ids and hashes have their        *)
(* length, and the iterators over nodes and addresses find whole entries   *)
(* to the end, so none of them slices past the bytes it was given.         *)
IsUsable(m) ==
    /\ \A f \in {"node_id", "target_id", "info_hash"} \cap DOMAIN m : Len(m[f]) = NODE_ID_LEN
    /\ "nodes" \in DOMAIN m => \A n \in m.nodes : Len(n) = BYTES_PER_COMPACT_NODE_INFO * CompactNodeCount(n)
    /\ "values" \in DOMAIN m => \A v \in m.values : \A k \in DOMAIN v : Len(v[k].bytes) = BYTES_PER_COMPACT_IP
    /\ "port" \in DOMAIN m => m.port \subseteq 0 .. 65535

(* Whatever is accepted can be encoded again and is then read as the same  *)
(* message: the parser never makes up a message that has no encoding.      *)
IsStable(m) == ParseMessage(EncodeMessage(m), Expected(m)) = Ok(m)

(* A response is only accepted as what the receiver asked for.             *)
IsExpected(m) == wire.dict["y"] = ben_bytes(RESPONSE_TYPE_KEY) => expects # "None" /\ Expected(m) = expects

Sound(r) == Failed(r) \/ (IsUsable(r.ok) /\ IsStable(r.ok) /\ IsExpected(r.ok))

(* What is accepted, also of messages changed on the way, is what the      *)
(* receiver expects, is whole and is read the same once more.              *)
AcceptedIsSound == Sound(Parsed)
=============================================================================
