---------------------------- MODULE DhtRequests ----------------------------
(***************************************************************************)
(* The serving side of the DHT handler: what it does with the requests of  *)
(* other nodes (ping, find_node, get_peers, announce_peer), over the       *)
(* routing table, the token store and the storage of announced peers.  The *)
(* handler is one task, so a request is handled in one step.               *)
(***************************************************************************)
EXTENDS RoutingTable, TokenRequests, AnnounceStorage

CONSTANTS
    Known,        \* contacts that are in the routing table at the start
    Requesters,   \* the contacts that ask us
    Ports,        \* ports a peer can announce explicitly
    ReadOnly,     \* the read_only flag of the builder
    ClosestNum    \* nodes in an answer

VARIABLE
    routing       \* the routing table

requestVars == <<routing, tokenVars, storageVars>>

Implied == -1                                    \* ConnectPort::Implied
WrongToken == [ip |-> "none", secret |-> -1]     \* any other token that is not valid
ShortToken == [ip |-> "none", secret |-> 0]      \* bytes that Token::new refuses

RequestsInit ==
    /\ routing = AddNodes(<<NewBucket>>, [k \in DOMAIN Known |-> as_good(Known[k])])
    /\ TokensInit
    /\ StorageInit

(* The node asked us something: mark it, if it is in the table.            *)
MarkRequest(c) == Mark(routing, FindNode(routing, c), remote_request)

(* The nodes in the answers to find_node and get_peers.                    *)
ClosestAnswer(target) ==
    LET walk == closest_nodes(routing, target)
    IN  SubSeq(walk, 1, Min({Len(walk), ClosestNum}))

(* ping and find_node: only the mark stays behind.                         *)
Ping(c) ==
    /\ ~ReadOnly
    /\ routing' = MarkRequest(c)
    /\ UNCHANGED <<tokenVars, storageVars>>

(* The answer has the peers find_items returns, ClosestAnswer and a token. *)
GetPeers(c, hash) ==
    /\ ~ReadOnly
    /\ routing' = MarkRequest(c)
    /\ FindItems
    /\ CheckoutToken(c.addr.ip)

(* The peer's address: that of the node, with the port it names if any.    *)
ConnectAddr(c, port) == IF port = Implied THEN c.addr ELSE [c.addr EXCEPT !.port = port]

(* An announce with any token, of the right length or not.                 *)
AnnouncePeer(c, hash, token, port) ==
    LET valid == token # ShortToken /\ checkin(Refreshed, c.addr.ip, token)
        peer == ConnectAddr(c, port)
    IN  /\ ~ReadOnly
        /\ routing' = MarkRequest(c)
        /\ IF token = ShortToken THEN UNCHANGED tokenVars ELSE CheckinToken
        /\ IF valid THEN AddItem(hash, peer) ELSE UNCHANGED storageVars

RequestsTick ==
    /\ routing' = AgeTable(routing)
    /\ TokensTick
    /\ StorageTick

RequestsNext ==
    \/ RequestsTick
    \/ \E c \in Requesters :
        \/ Ping(c)
        \/ \E hash \in InfoHashes :
            \/ GetPeers(c, hash)
            \/ \E token \in issued \cup {ShortToken, WrongToken}, port \in Ports \cup {Implied} :
                AnnouncePeer(c, hash, token, port)

RequestsSpec == RequestsInit /\ [][RequestsNext]_requestVars

-----------------------------------------------------------------------------
(* Properties                                                              *)

(* An answer, for an info hash or an id of a node, names at most ClosestNum*)
(* nodes, none of them twice and none of them bad, and it is short only    *)
(* when the table has no more.                                             *)
AnswersAreFull ==
    \A target \in InfoHashes \cup {c.id : c \in Requesters} :
        LET nodes == ClosestAnswer(target)
        IN  /\ \A k \in DOMAIN nodes : Pingable(nodes[k])
            /\ Cardinality(ToSet(nodes)) = Min({ClosestNum, Cardinality({n \in Entries(routing) : Pingable(n)})})

(* What get_peers and find_node answer and announce_peer stores, through   *)
(* expiry and a full storage: all live peers, as many of the closest nodes *)
(* as there may be, and no refusal while there is room.                    *)
RequestsAreServed == StorageIsRight /\ AnswersAreFull
=============================================================================
