---------------------------- MODULE HonestReveal ----------------------------
(***************************************************************************)
(* The HonestRevealModule: it tells every peer of a torrent which pieces   *)
(* we have, with a bitfield when the peer connects and with a have message *)
(* for each piece that is found later.                                     *)
(***************************************************************************)
EXTENDS Integers, Sequences, FiniteSets

CONSTANTS RevealTorrents, \* torrent hashes
          RevealPeers,    \* [hash, addr]: peers, each of one torrent
          PieceCount,     \* pieces of a torrent
          FoundPieces,    \* the indexes that FoundGoodPiece may give
          MaxQueued       \* bound: messages not yet taken from the stream

ASSUME RevealAssumption == PieceCount \in Nat /\ FoundPieces \subseteq Nat

VARIABLES torrents,  \* hash to [status, peers]
          out_queue, \* messages to be sent
          told       \* history: what the messages to a peer have told it

revealVars == <<torrents, out_queue, told>>

-----------------------------------------------------------------------------
(* bit_set::BitSet<u8>: bytes up to the last bit that is set, the first    *)
(* bit of each in its lowest place.  A byte is the set of places, from 0,  *)
(* of its bits that are set.                                               *)
LastBit(status) == CHOOSE bit \in status : \A other \in status : other <= bit
storage(status) == [b \in 1 .. (LastBit(status) \div 8) + 1 |-> {k \in 0 .. 7 : 8 * (b - 1) + k \in status}]

(* Mutant: the bits are sent as they are stored.                           *)
insert_reversed_bits_none(slice) == slice

insert_reversed_bits(slice) == [b \in DOMAIN slice |-> {7 - k : k \in slice[b]}]

(* What a bitfield tells its receiver: the first piece is the highest bit. *)
BitFieldPieces(bytes) == {piece \in 0 .. Len(bytes) * 8 - 1 : 7 - (piece % 8) \in bytes[(piece \div 8) + 1]}

-----------------------------------------------------------------------------
RevealInit ==
    /\ torrents = <<>> /\ out_queue = <<>>
    /\ told = [peer \in RevealPeers |-> {}]

(* A torrent that is there already is an error.                            *)
RevealAddTorrent(hash) ==
    /\ hash \notin DOMAIN torrents
    /\ torrents' = [h \in DOMAIN torrents \cup {hash} |->
                        IF h = hash THEN [status |-> {}, peers |-> {}] ELSE torrents[h]]
    /\ UNCHANGED <<out_queue, told>>

RevealRemoveTorrent(hash) ==
    /\ hash \in DOMAIN torrents
    /\ torrents' = [h \in DOMAIN torrents \ {hash} |-> torrents[h]]
    /\ UNCHANGED <<out_queue, told>>

(* A peer of a torrent that is not there is an error, as it is below.      *)
RevealAddPeer(peer) ==
    /\ peer.hash \in DOMAIN torrents
    /\ Len(out_queue) < MaxQueued
    /\ torrents' = [torrents EXCEPT ![peer.hash].peers = @ \cup {peer}]
    /\ LET status == torrents[peer.hash].status
           bytes == insert_reversed_bits(storage(status))
       IN  IF status = {} THEN out_queue' = out_queue /\ told' = [told EXCEPT ![peer] = {}]
           ELSE /\ out_queue' = Append(out_queue, [type |-> "SendBitField", to |-> peer, bytes |-> bytes])
                /\ told' = [told EXCEPT ![peer] = BitFieldPieces(bytes)]

RevealRemovePeer(peer) ==
    /\ peer.hash \in DOMAIN torrents
    /\ torrents' = [torrents EXCEPT ![peer.hash].peers = @ \ {peer}]
    /\ UNCHANGED <<out_queue, told>>

InRange(index) == index < PieceCount

PeerOrders(peers) == {order \in [1 .. Cardinality(peers) -> peers] : \A j, k \in DOMAIN order : order[j] = order[k] => j = k}

(* FoundGoodPiece, for an index in range: the peers in any order.          *)
insert_piece(hash, index) ==
    /\ hash \in DOMAIN torrents /\ InRange(index)
    /\ Len(out_queue) + Cardinality(torrents[hash].peers) <= MaxQueued
    /\ \E order \in PeerOrders(torrents[hash].peers) :
        out_queue' = out_queue \o [k \in DOMAIN order |-> [type |-> "SendHave", to |-> order[k], index |-> index]]
    /\ torrents' = [torrents EXCEPT ![hash].status = @ \cup {index}]
    /\ told' = [peer \in RevealPeers |->
                    IF peer \in torrents[hash].peers THEN told[peer] \cup {index} ELSE told[peer]]

poll_next_message ==
    /\ out_queue # <<>>
    /\ out_queue' = Tail(out_queue)
    /\ UNCHANGED <<torrents, told>>

RevealNext ==
    \/ \E hash \in RevealTorrents :
        \/ RevealAddTorrent(hash) \/ RevealRemoveTorrent(hash)
        \/ \E index \in FoundPieces : insert_piece(hash, index)
    \/ \E peer \in RevealPeers : RevealAddPeer(peer) \/ RevealRemovePeer(peer)
    \/ poll_next_message

(* The module under any calls.                                             *)
RevealSpec == RevealInit /\ [][RevealNext]_revealVars

-----------------------------------------------------------------------------
(* Properties                                                              *)

(* A peer of a torrent has been told, by its bitfield and by the haves     *)
(* behind it, of exactly the pieces we have: none is forgotten, whatever   *)
(* order peers connect and pieces are found in, and none is made up.       *)
PeersKnowOurPieces ==
    \A hash \in DOMAIN torrents : \A peer \in torrents[hash].peers :
        told[peer] = torrents[hash].status /\ told[peer] \subseteq 0 .. PieceCount - 1
=============================================================================
