----------------------------- MODULE UberModule -----------------------------
(***************************************************************************)
(* The UberModule of the select package with one discovery module, the     *)
(* UtMetadataModule, which downloads the metainfo of a torrent from peers  *)
(* and serves it to them.  The ExtendedModule tells it which peers can.    *)
(* A poll of UberStream that finds nothing wakes its task again at once,   *)
(* so the wakers the modules keep are left out.  Sizes are in units of     *)
(* which a request asks for MAX_REQUEST_SIZE.  An optional value is a set  *)
(* of at most one element, and a map is a function on its keys.            *)
(***************************************************************************)
EXTENDS Integers, Sequences, FiniteSets

CONSTANTS UtHashes, UtPeers, HashOf,     \* peers, and the torrent of each
          MAX_REQUEST_SIZE, MAX_PEER_REQUESTS, REQUEST_TIMEOUT,
          InfoSize,       \* the size of the info dictionary of a torrent
          ClaimedSizes,   \* what a peer may say of it
          Durations,      \* of a tick
          MaxUnsent       \* bound: extended messages not yet taken

ASSUME UberAssumption ==
    /\ HashOf \in [UtPeers -> UtHashes]
    /\ MAX_REQUEST_SIZE \in Nat \ {0}
    /\ ClaimedSizes \subseteq Nat
    /\ REQUEST_TIMEOUT \in Nat /\ Durations \subseteq Nat

VARIABLES with_extended,   \* the builder was given an extended builder
          ext_peers,       \* ExtendedModule::peers: what they told is only passed on
          ext_queue,       \* ExtendedModule::out_queue: the peers to send to
          completed_map, pending_map, active_peers, active_requests, peer_requests,
          yielded          \* what the last step, if it was a poll, returned

uberVars == <<with_extended, ext_peers, ext_queue, completed_map, pending_map, active_peers,
              active_requests, peer_requests, yielded>>
extVars == <<with_extended, ext_peers, ext_queue>>

MapSet(map, key, value) == [k \in DOMAIN map \cup {key} |-> IF k = key THEN value ELSE map[k]]
Without(map, keys) == [k \in DOMAIN map \ keys |-> map[k]]

Quiet == [type |-> "Pending"]

-----------------------------------------------------------------------------
(* UtMetadataModule                                                        *)

num_pieces(size) == IF size % MAX_REQUEST_SIZE = 0 THEN size \div MAX_REQUEST_SIZE ELSE (size \div MAX_REQUEST_SIZE) + 1

pending_info_from_metadata_size(size) ==
    [messages |-> [k \in 1 .. num_pieces(size) |-> k - 1],
     left |-> num_pieces(size),
     size |-> size,
     bytes |-> [piece \in 0 .. num_pieces(size) - 1 |-> "zero"]]

(* add_peer: both sides support the extension, and the peer has a size.    *)
ut_add_peer(info, theirs, map) ==
    IF \A msg \in theirs : ~msg.supports \/ msg.metadata_size = {} THEN map
    ELSE LET msg == CHOOSE m \in theirs : TRUE
             hash == HashOf[info]
             entry == IF hash \in DOMAIN map THEN map[hash]
                      ELSE [peers |-> {}, metadata_size |-> CHOOSE size \in msg.metadata_size : TRUE]
         IN  MapSet(map, hash, [entry EXCEPT !.peers = @ \cup {info}])

ut_remove_peer(info, map) ==
    LET hash == HashOf[info]
    IN  IF hash \notin DOMAIN map THEN map
        ELSE IF map[hash].peers \ {info} = {} THEN Without(map, {hash})
             ELSE [map EXCEPT ![hash].peers = @ \ {info}]

(* The bytes hash to the info hash: all of them are there and are right.   *)
IsInfo(pending) == pending.size = InfoSize /\ \A piece \in DOMAIN pending.bytes : pending.bytes[piece] = "good"

validate_downloaded(map) ==
    [hash \in DOMAIN map |->
        {pending \in map[hash] : pending.left # 0 \/ IsInfo(pending)}]

initialize_pending(map, active) ==
    [hash \in DOMAIN map |->
        IF map[hash] = {} /\ hash \in DOMAIN active
        THEN {pending_info_from_metadata_size(active[hash].metadata_size)}
        ELSE map[hash]]

(* on_update: add_peer, then what check_stream_unblock does to the map.    *)
on_update(info, theirs) ==
    LET active == ut_add_peer(info, theirs, active_peers)
    IN  /\ active_peers' = active
        /\ pending_map' = initialize_pending(validate_downloaded(pending_map), active)

IsExpired(request, duration) == request.left < duration

(* Mutant: what was asked of a peer that is too slow is not asked again.   *)
PushExpired_none(messages, expired) == messages

(* The requests that expired, in their order, are to be made again.        *)
PushExpired(messages, expired) == messages \o expired

LeftAfter(request, duration) == [request EXCEPT !.left = @ - duration]

(* The positions of a set from the first to the last.                      *)
InOrder(ks) == [n \in 1 .. Cardinality(ks) |-> CHOOSE k \in ks : Cardinality({l \in ks : l <= k}) = n]

Expired(duration) == {k \in DOMAIN active_requests : IsExpired(active_requests[k], duration)}
ExpiredOf(hash, duration) == {k \in Expired(duration) : HashOf[active_requests[k].sent_to] = hash}

apply_tick(duration) ==
    LET kept == InOrder(DOMAIN active_requests \ Expired(duration))
        of(hash) == InOrder(ExpiredOf(hash, duration))
    IN  /\ active_requests' = [n \in DOMAIN kept |-> LeftAfter(active_requests[kept[n]], duration)]
        /\ active_peers' = [hash \in DOMAIN active_peers |->
                [active_peers[hash] EXCEPT !.peers = @ \ {active_requests[k].sent_to : k \in ExpiredOf(hash, duration)}]]
        /\ pending_map' = [hash \in DOMAIN pending_map |->
                {[pending EXCEPT !.messages =
                    PushExpired(@, [n \in DOMAIN of(hash) |-> active_requests[of(hash)[n]].piece])] :
                    pending \in pending_map[hash]}]

FirstIndex(ks) == CHOOSE k \in ks : \A other \in ks : k <= other

UtSwapRemove(list, k) == SubSeq([list EXCEPT ![k] = list[Len(list)]], 1, Len(list) - 1)

recv_data(info, piece, data) ==
    LET asked == {k \in DOMAIN active_requests : active_requests[k].sent_to = info /\ active_requests[k].piece = piece}
    IN  IF asked = {} THEN UNCHANGED <<active_requests, pending_map>>
        ELSE /\ active_requests' = UtSwapRemove(active_requests, FirstIndex(asked))
             /\ pending_map' = [hash \in DOMAIN pending_map |->
                    {IF hash = HashOf[info] THEN [pending EXCEPT !.left = @ - 1, !.bytes[piece] = data] ELSE pending :
                        pending \in pending_map[hash]}]

-----------------------------------------------------------------------------
(* UberSink: a control message goes to the extended module first.          *)

UberInit ==
    /\ with_extended \in BOOLEAN
    /\ ext_peers = {} /\ ext_queue = <<>>
    /\ completed_map = {} /\ pending_map = <<>> /\ active_peers = <<>>
    /\ active_requests = <<>> /\ peer_requests = <<>>
    /\ yielded = Quiet

(* A torrent that is there already is an error.                            *)
AddTorrent(hash) ==
    /\ hash \notin completed_map
    /\ completed_map' = completed_map \cup {hash}
    /\ yielded' = Quiet
    /\ UNCHANGED <<extVars, pending_map, active_peers, active_requests, peer_requests>>

RemoveTorrent(hash) ==
    /\ hash \in completed_map
    /\ completed_map' = completed_map \ {hash}
    /\ yielded' = Quiet
    /\ UNCHANGED <<extVars, pending_map, active_peers, active_requests, peer_requests>>

PeerConnected(info) ==
    /\ with_extended /\ Len(ext_queue) < MaxUnsent
    /\ ext_peers' = ext_peers \cup {info}
    /\ ext_queue' = Append(ext_queue, info)
    /\ on_update(info, {})
    /\ yielded' = Quiet
    /\ UNCHANGED <<with_extended, completed_map, active_requests, peer_requests>>

PeerDisconnected(info) ==
    /\ ext_peers' = ext_peers \ {info}
    /\ active_peers' = ut_remove_peer(info, active_peers)
    /\ yielded' = Quiet
    /\ UNCHANGED <<with_extended, ext_queue, completed_map, pending_map, active_requests, peer_requests>>

Tick(duration) ==
    /\ apply_tick(duration)
    /\ yielded' = Quiet
    /\ UNCHANGED <<extVars, completed_map, peer_requests>>

ReceivedExtendedMessage(info, msg) ==
    /\ with_extended /\ info \in ext_peers
    /\ on_update(info, {msg})
    /\ yielded' = Quiet
    /\ UNCHANGED <<extVars, completed_map, active_requests, peer_requests>>

DownloadMetainfo(hash) ==
    /\ pending_map' = IF hash \in DOMAIN pending_map THEN pending_map ELSE MapSet(pending_map, hash, {})
    /\ yielded' = Quiet
    /\ UNCHANGED <<extVars, completed_map, active_peers, active_requests, peer_requests>>

(* recv_request: a request too many is dropped.                            *)
ReceivedRequest(info, piece) ==
    /\ Len(peer_requests) < MAX_PEER_REQUESTS
    /\ peer_requests' = Append(peer_requests, [send_to |-> info, piece |-> piece])
    /\ yielded' = Quiet
    /\ UNCHANGED <<extVars, completed_map, pending_map, active_peers, active_requests>>

ReceivedData(info, piece, data) ==
    /\ recv_data(info, piece, data)
    /\ yielded' = Quiet
    /\ UNCHANGED <<extVars, completed_map, active_peers, peer_requests>>

-----------------------------------------------------------------------------
(* UberStream: the extended module is polled first, then the discovery     *)
(* module, which looks for a download, a request and a response in turn.   *)

PollExtended ==
    /\ ext_queue # <<>>
    /\ yielded' = [type |-> "SendExtendedMessage", to |-> Head(ext_queue)]
    /\ ext_queue' = Tail(ext_queue)
    /\ UNCHANGED <<with_extended, ext_peers, completed_map, pending_map, active_peers, active_requests, peer_requests>>

Downloaded(map) == {hash \in DOMAIN map : \E pending \in map[hash] : pending.left = 0}

(* What the bytes of a download parse to is not known unless they are the  *)
(* info dictionary.  The map is searched in no order, and a download that  *)
(* does not parse is dropped.                                              *)
MayNotParse(hash) == \A pending \in pending_map[hash] : ~IsInfo(pending)

retrieve_completed_download(dropped, hash) ==
    /\ pending_map' = Without(pending_map, dropped \cup {hash})
    /\ active_peers' = Without(active_peers, dropped \cup {hash})
    /\ yielded' = [type |-> "DownloadedMetainfo", hash |-> hash, info |-> pending_map[hash]]
    /\ UNCHANGED <<active_requests, peer_requests>>

generate_active_request(piece, peer) == [left |-> REQUEST_TIMEOUT, piece |-> piece, sent_to |-> peer]

retrieve_piece_request(pending, active, hash, peer) ==
    LET old == CHOOSE p \in pending[hash] : TRUE
        piece == old.messages[Len(old.messages)]
    IN  /\ pending_map' = [pending EXCEPT ![hash] = {[old EXCEPT !.messages = SubSeq(@, 1, Len(@) - 1)]}]
        /\ active_peers' = active
        /\ active_requests' = Append(active_requests, generate_active_request(piece, peer))
        /\ yielded' = [type |-> "SendRequest", to |-> peer, piece |-> piece]
        /\ UNCHANGED peer_requests

MayRequest(pending, active) ==
    {choice \in (DOMAIN pending) \X UtPeers :
        /\ \E p \in pending[choice[1]] : p.messages # <<>>
        /\ choice[1] \in DOMAIN active /\ choice[2] \in active[choice[1]].peers}

(* Only a whole piece is served.                                           *)
IsServed(request) ==
    /\ HashOf[request.send_to] \in completed_map
    /\ request.piece * MAX_REQUEST_SIZE <= InfoSize
    /\ request.piece * MAX_REQUEST_SIZE + MAX_REQUEST_SIZE <= InfoSize

(* Requests that cannot be served are dropped on the way.                  *)
retrieve_piece_response ==
    LET served == {k \in DOMAIN peer_requests : IsServed(peer_requests[k])}
    IN  IF served = {}
        THEN peer_requests' = <<>> /\ yielded' = Quiet
        ELSE LET k == FirstIndex(served)
             IN  /\ peer_requests' = SubSeq(peer_requests, k + 1, Len(peer_requests))
                 /\ yielded' = [type |-> "SendData", to |-> peer_requests[k].send_to, piece |-> peer_requests[k].piece]

RequestOrResponse(pending, active) ==
    \/ \E choice \in MayRequest(pending, active) : retrieve_piece_request(pending, active, choice[1], choice[2])
    \/ /\ MayRequest(pending, active) = {}
       /\ pending_map' = pending /\ active_peers' = active
       /\ retrieve_piece_response
       /\ UNCHANGED active_requests

PollDiscovery ==
    /\ ext_queue = <<>>
    /\ \E dropped \in SUBSET {h \in Downloaded(pending_map) : MayNotParse(h)} :
        \/ \E hash \in Downloaded(pending_map) \ dropped : retrieve_completed_download(dropped, hash)
        \/ /\ dropped = Downloaded(pending_map)
           /\ RequestOrResponse(Without(pending_map, dropped), Without(active_peers, dropped))
    /\ UNCHANGED <<extVars, completed_map>>

(* A peer without the extension has no size to tell.                       *)
ExtendedMessages ==
    {[supports |-> FALSE, metadata_size |-> {}]}
    \cup [supports : {TRUE}, metadata_size : {{}} \cup {{size} : size \in ClaimedSizes}]

UtPieces == 0 .. (InfoSize \div MAX_REQUEST_SIZE)

UberNext ==
    \/ \E hash \in UtHashes : AddTorrent(hash) \/ RemoveTorrent(hash) \/ DownloadMetainfo(hash)
    \/ \E info \in UtPeers :
        \/ PeerConnected(info) \/ PeerDisconnected(info)
        \/ \E msg \in ExtendedMessages : ReceivedExtendedMessage(info, msg)
        \/ \E piece \in UtPieces :
            \/ ReceivedRequest(info, piece)
            \/ \E data \in {"good", "bad"} : ReceivedData(info, piece, data)
    \/ \E duration \in Durations : Tick(duration)
    \/ PollExtended \/ PollDiscovery

(* The module under any calls.                                             *)
UberSpec == UberInit /\ [][UberNext]_uberVars

-----------------------------------------------------------------------------
(* Properties                                                              *)

ActiveOf(hash) == {k \in DOMAIN active_requests : HashOf[active_requests[k].sent_to] = hash}

(* A piece of a download is to be asked for, is asked for, or has come,    *)
(* and exactly one of them: `left` reaches zero when the last one comes,   *)
(* and never falls below it, through timeouts, retries and restarts.       *)
PiecesAccounted ==
    \A hash \in DOMAIN pending_map : \A pending \in pending_map[hash] :
        LET waiting == {pending.messages[k] : k \in DOMAIN pending.messages}
            asked == {active_requests[k].piece : k \in ActiveOf(hash)}
        IN  /\ waiting \cap asked = {}
            /\ Cardinality(waiting) = Len(pending.messages) /\ Cardinality(asked) = Cardinality(ActiveOf(hash))
            /\ pending.left = Len(pending.messages) + Cardinality(ActiveOf(hash))
            /\ waiting \cup asked \subseteq DOMAIN pending.bytes

(* A peer that pieces are asked of is connected, and has told us of its    *)
(* support: the discovery module never falls behind the extended module.   *)
ActivePeersAreConnected ==
    \A hash \in DOMAIN active_peers : active_peers[hash].peers \subseteq ext_peers

(* A metainfo is yielded only when each of its pieces has come from a peer *)
(* that was asked for it, whoever else sends pieces, or sends them twice.  *)
(* Whether they hash to the info hash is not known by then: poll_next does *)
(* not look, and on_update may not have been called since the last piece.  *)
DownloadedIsWhole ==
    yielded.type = "DownloadedMetainfo" =>
        \A pending \in yielded.info : \A piece \in DOMAIN pending.bytes : pending.bytes[piece] # "zero"

(* A download asks connected peers, knows where each of its pieces is and  *)
(* is yielded when all have come.                                          *)
DownloadIsSound == PiecesAccounted /\ ActivePeersAreConnected /\ DownloadedIsWhole
=============================================================================
