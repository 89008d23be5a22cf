-------------------------- MODULE HandshakeFramed --------------------------
(***************************************************************************)
(* FramedHandshake: one side writes a handshake message to a socket, and   *)
(* what the protocol after it sends follows at once; the other side reads  *)
(* the message, in pieces of any size, and hands the socket on.  The       *)
(* fields of a message are bytes of their real lengths.                    *)
(***************************************************************************)
EXTENDS Integers, Sequences

CONSTANTS HandshakeMessages, \* the messages that may be sent
          LaterBytes         \* what the writer sends behind its handshake

VARIABLES fmsg,         \* the message of the writer, none before start_send: a set
          write_buffer, \* what poll_flush has still to write
          sock,         \* bytes written and not read
          later,        \* whether the later bytes are written
          read_buffer,  \* what the reader has read
          read_len,     \* the length of its buffer
          fstate,       \* HandshakeState
          fgot          \* the message it has parsed: a set

framedVars == <<fmsg, write_buffer, sock, later, read_buffer, read_len, fstate, fgot>>

NUM_EXTENSION_BYTES == 8
INFO_HASH_LEN == 20
PEER_ID_LEN == 20

BT_PROTOCOL_LEN == 19
BT_PROTOCOL == [k \in 1 .. BT_PROTOCOL_LEN |-> 66]

Octets == 0 .. 255

(* What from_parts asserts of a custom protocol, and the lengths of the    *)
(* other fields.  A custom protocol with the name of BitTorrent would be   *)
(* read as BitTorrent.                                                     *)
ASSUME MessagesFit ==
    /\ LaterBytes \in Seq(Octets)
    /\ \A msg \in HandshakeMessages :
        /\ msg = [prot |-> [custom |-> msg.prot.custom], ext |-> msg.ext, hash |-> msg.hash, pid |-> msg.pid]
        /\ msg.ext \in Seq(Octets) /\ Len(msg.ext) = NUM_EXTENSION_BYTES
        /\ msg.hash \in Seq(Octets) /\ Len(msg.hash) = INFO_HASH_LEN
        /\ msg.pid \in Seq(Octets) /\ Len(msg.pid) = PEER_ID_LEN
        /\ \A name \in msg.prot.custom :
            msg.prot.custom = {name} /\ name \in Seq(Octets) /\ Len(name) <= 255 /\ name # BT_PROTOCOL

-----------------------------------------------------------------------------
(* HandshakeMessage                                                        *)

(* Protocol: the name of BitTorrent, or any other.                         *)
BitTorrent == [custom |-> {}]
ProtocolBytes(prot) == IF prot.custom = {} THEN BT_PROTOCOL ELSE CHOOSE c \in prot.custom : TRUE

ProtocolWrite(prot) == <<Len(ProtocolBytes(prot)) % 256>> \o ProtocolBytes(prot)

parse_real_protocol(bytes) ==
    LET raw == SubSeq(bytes, 2, bytes[1] + 1)
    IN  IF raw = BT_PROTOCOL THEN BitTorrent ELSE [custom |-> {raw}]

HandshakeWrite(msg) == ProtocolWrite(msg.prot) \o msg.ext \o msg.hash \o msg.pid

(* Mutant: the length byte is counted twice.                               *)
write_len_with_protocol_len_over(protocol_len) ==
    2 + protocol_len + NUM_EXTENSION_BYTES + INFO_HASH_LEN + PEER_ID_LEN

write_len_with_protocol_len(protocol_len) ==
    1 + protocol_len + NUM_EXTENSION_BYTES + INFO_HASH_LEN + PEER_ID_LEN

(* take(n) fails where there are fewer bytes.                              *)
Parses(bytes) == Len(bytes) >= 1 + bytes[1] + NUM_EXTENSION_BYTES + INFO_HASH_LEN + PEER_ID_LEN

parse_remote_handshake(bytes) ==
    LET at == bytes[1] + 1
    IN  [prot |-> parse_real_protocol(bytes),
         ext |-> SubSeq(bytes, at + 1, at + NUM_EXTENSION_BYTES),
         hash |-> SubSeq(bytes, at + NUM_EXTENSION_BYTES + 1, at + NUM_EXTENSION_BYTES + INFO_HASH_LEN),
         pid |-> SubSeq(bytes, at + NUM_EXTENSION_BYTES + INFO_HASH_LEN + 1,
                               at + NUM_EXTENSION_BYTES + INFO_HASH_LEN + PEER_ID_LEN)]

-----------------------------------------------------------------------------
(* The writer                                                              *)

FramedInit ==
    /\ fmsg = {} /\ write_buffer = <<>> /\ sock = <<>> /\ later = FALSE
    /\ read_buffer = <<>> /\ read_len = 0 /\ fstate = "Waiting" /\ fgot = {}

FramedStartSend ==
    /\ fmsg = {}
    /\ \E msg \in HandshakeMessages : fmsg' = {msg} /\ write_buffer' = HandshakeWrite(msg)
    /\ UNCHANGED <<sock, later, read_buffer, read_len, fstate, fgot>>

(* One poll_write of poll_flush, of any number of bytes.                   *)
FramedFlush ==
    /\ \E n \in 1 .. Len(write_buffer) :
        /\ sock' = sock \o SubSeq(write_buffer, 1, n)
        /\ write_buffer' = SubSeq(write_buffer, n + 1, Len(write_buffer))
    /\ UNCHANGED <<fmsg, later, read_buffer, read_len, fstate, fgot>>

(* The handshake is flushed, and its owner goes on with the socket.        *)
WriteLater ==
    /\ fmsg # {} /\ write_buffer = <<>> /\ ~later
    /\ later' = TRUE
    /\ sock' = sock \o LaterBytes
    /\ UNCHANGED <<fmsg, write_buffer, read_buffer, read_len, fstate, fgot>>

-----------------------------------------------------------------------------
(* The reader: poll_next.  A poll that finds no bytes changes nothing.     *)

PollWaiting ==
    /\ fstate = "Waiting" /\ sock # <<>>
    /\ read_buffer' = <<Head(sock)>>
    /\ sock' = Tail(sock)
    /\ read_len' = write_len_with_protocol_len(Head(sock))
    /\ fstate' = "Reading"
    /\ UNCHANGED <<fmsg, write_buffer, later, fgot>>

IsFull(filled, length) == filled = length

PollReading ==
    /\ fstate = "Reading"
    /\ \E n \in 1 .. Len(sock) :
        /\ Len(read_buffer) + n <= read_len
        /\ read_buffer' = read_buffer \o SubSeq(sock, 1, n)
        /\ sock' = SubSeq(sock, n + 1, Len(sock))
        /\ fstate' = IF IsFull(Len(read_buffer) + n, read_len) THEN "Ready" ELSE "Reading"
    /\ UNCHANGED <<fmsg, write_buffer, later, read_len, fgot>>

PollReady ==
    /\ fstate = "Ready"
    /\ read_buffer' = <<>>
    /\ IF Parses(read_buffer)
       THEN fgot' = {parse_remote_handshake(read_buffer)} /\ fstate' = "Finished"
       ELSE fgot' = {} /\ fstate' = "Errored"
    /\ UNCHANGED <<fmsg, write_buffer, sock, later, read_len>>

(* poll_read returns an error.                                             *)
PollError ==
    /\ fstate \in {"Waiting", "Reading"}
    /\ fstate' = "Errored"
    /\ UNCHANGED <<fmsg, write_buffer, sock, later, read_buffer, read_len, fgot>>

FramedNext ==
    FramedStartSend \/ FramedFlush \/ WriteLater \/ PollWaiting \/ PollReading \/ PollReady \/ PollError

(* One handshake over a socket.                                            *)
FramedSpec == FramedInit /\ [][FramedNext]_framedVars

-----------------------------------------------------------------------------
(* Properties                                                              *)

(* The reader parses the message that was written, whatever the length of  *)
(* its protocol's name and however the bytes were cut.                     *)
HandshakeIsRead == \A got \in fgot : fgot = fmsg

(* A reader that is done has left every byte behind the handshake in the   *)
(* socket: the owner of the socket reads them first.                       *)
LaterBytesStay ==
    fstate = "Finished" => sock = IF later THEN LaterBytes ELSE <<>>

(* The reader takes the handshake from the socket, all of it and nothing   *)
(* more.                                                                   *)
HandshakeIsCut == HandshakeIsRead /\ LaterBytesStay
=============================================================================
