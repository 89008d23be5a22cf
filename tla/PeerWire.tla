------------------------------ MODULE PeerWire ------------------------------
(***************************************************************************)
(* Two peers that exchange the messages of PeerWireProtocol, with          *)
(* PeerExtensionProtocol nested in it and NullProtocol as the custom       *)
(* protocol, through PeerProtocolCodec.  The bytes one peer writes reach   *)
(* the other in order and in pieces of any size.                           *)
(***************************************************************************)
EXTENDS PeerMessages

CONSTANTS Peers,       \* two of them
          Messages,    \* the messages a peer may send, besides the extended one
          Changes,     \* the arguments of the builder's setters
          max_payload, \* the limit of the codec, if it has one: a set
          MaxOps       \* bound: setters and sends of all peers

VARIABLES ebuilder, \* peer -> its ExtendedMessageBuilder
          protocol, \* peer -> our_extended_msg and their_extended_msg
          sent,     \* peer -> what it has encoded: message, reserved size and frame size
          stream,   \* peer -> bytes it has written and the other has not read
          src,      \* peer -> bytes it has read and not decoded
          decoded,  \* peer -> the messages it has decoded
          errored,  \* peer -> which halves of its connection have failed
          ops       \* setters and sends so far

peerWireVars == <<ebuilder, protocol, sent, stream, src, decoded, errored, ops>>

Other(p) == CHOOSE q \in Peers : q # p

KeepAlive == [type |-> "KeepAlive"]

-----------------------------------------------------------------------------
(* PeerExtensionProtocol                                                   *)

UtTypes == {"UtRequest", "UtData", "UtReject"}

(* NullProtocol::parse_bytes                                               *)
CustomParse(bytes) == Err("Attempted To Parse Bytes As Null Protocol")

parse_extensions_with_id(bytes, extended) ==
    IF query_id(extended, UtMetadata) = {} THEN Ok([type |-> "UnknownId"]) ELSE UtMetadataParse(bytes)

parse_extensions(bytes, extended) ==
    IF Len(bytes) < EXTENSION_HEADER_LEN THEN CustomParse(bytes)
    ELSE IF bytes[5] # EXTENDED_MESSAGE_ID THEN Ok([type |-> "UnknownExtensionId"])
    ELSE parse_extensions_with_id(SubSeq(bytes, EXTENSION_HEADER_LEN + 1, be_u32(bytes, 0) + 4), extended)

ExtensionWrite(msg, extended) ==
    LET ids == query_id(extended, UtMetadata)
    IN  IF ids = {} THEN Err("Can't Send UtMetadataMessage As We Have No Id Mapping")
        ELSE Ok(write_length_id_pair(2 + UtMetadataSize(msg), {EXTENDED_MESSAGE_ID})
                    \o <<CHOOSE i \in ids : TRUE>> \o UtMetadataWrite(msg))

ExtensionProtocolParse(prot, bytes) ==
    IF prot.our_extended_msg = {} THEN Err("Extension Message Received From Peer Before Extended Message...")
    ELSE parse_extensions(bytes, CHOOSE e \in prot.our_extended_msg : TRUE)

ExtensionProtocolWrite(prot, msg) ==
    IF prot.their_extended_msg = {} THEN Err("Extension Message Sent From Us Before Extended Message...")
    ELSE ExtensionWrite(msg, CHOOSE e \in prot.their_extended_msg : TRUE)

received_message(prot, extended) == [prot EXCEPT !.their_extended_msg = {extended}]
sent_message(prot, extended) == [prot EXCEPT !.our_extended_msg = {extended}]

-----------------------------------------------------------------------------
(* PeerWireProtocolMessage: the alternatives of parse_message.  value(x, p)*)
(* of nom returns x when p succeeds, whatever p read.                      *)

parse_keep_alive(bytes) == IF Len(bytes) < MESSAGE_LENGTH_LEN_BYTES THEN NomError ELSE Nom(Ok(KeepAlive))

parse_choke(bytes) == IF Len(bytes) < HEADER_LEN THEN NomError ELSE Nom(Ok([type |-> "Choke"]))
parse_unchoke(bytes) == IF Len(bytes) < HEADER_LEN THEN NomError ELSE Nom(Ok([type |-> "UnChoke"]))
parse_interested(bytes) == IF Len(bytes) < HEADER_LEN THEN NomError ELSE Nom(Ok([type |-> "Interested"]))
parse_uninterested(bytes) == IF Len(bytes) < HEADER_LEN THEN NomError ELSE Nom(Ok([type |-> "UnInterested"]))

(* preceded(header, take(4))                                               *)
Take4(bytes) == SubSeq(bytes, HEADER_LEN + 1, HEADER_LEN + 4)
HasFour(bytes) == Len(bytes) >= HEADER_LEN + 4

parse_have(bytes) == IF HasFour(bytes) THEN Nom(HaveParse(Take4(bytes))) ELSE NomError
parse_bitfield(bytes) == IF HasFour(bytes) THEN Nom(BitFieldParse(Take4(bytes))) ELSE NomError
parse_request(bytes) == IF HasFour(bytes) THEN Nom(RequestParse(Take4(bytes), "Request")) ELSE NomError
parse_piece(bytes) == IF HasFour(bytes) THEN Nom(PieceParse(Take4(bytes), be_u32(Take4(bytes), 0))) ELSE NomError
parse_cancel(bytes) == IF HasFour(bytes) THEN Nom(CancelParse(Take4(bytes))) ELSE NomError

parse_bits_extension(bytes) == BitsExtensionParse(bytes)

NomOf(r) == IF Failed(r) THEN NomError ELSE Nom(r)

parse_prot_extension(bytes, prot) == NomOf(ExtensionProtocolParse(prot, bytes))

parse_message(bytes, prot) ==
    alt(<<parse_keep_alive(bytes), parse_choke(bytes), parse_unchoke(bytes), parse_interested(bytes),
          parse_uninterested(bytes), parse_have(bytes), parse_bitfield(bytes), parse_request(bytes),
          parse_piece(bytes), parse_cancel(bytes), parse_bits_extension(bytes),
          parse_prot_extension(bytes, prot)>>)

(* What is left of nom's result: its errors become one of ours.            *)
ParseResult(r) == IF "nom" \in DOMAIN r THEN Err("Failed To Parse PeerWireProtocolMessage") ELSE r.res

WireMessageParse(bytes, prot) == ParseResult(parse_message(bytes, prot))

WireMessageWrite(msg, prot) ==
    IF msg.type = "KeepAlive" THEN Ok(write_length_id_pair(KEEP_ALIVE_MESSAGE_LEN, {}))
    ELSE IF msg.type \in DOMAIN BareId THEN Ok(write_length_id_pair(1, {BareId[msg.type]}))
    ELSE IF msg.type = "Have" THEN Ok(HaveWrite(msg))
    ELSE IF msg.type = "BitField" THEN Ok(BitFieldWrite(msg))
    ELSE IF msg.type = "Request" THEN Ok(RequestWrite(msg, REQUEST_MESSAGE_ID))
    ELSE IF msg.type = "Piece" THEN Ok(PieceWrite(msg))
    ELSE IF msg.type = "Cancel" THEN Ok(CancelWrite(msg))
    ELSE IF msg.type = "Port" THEN Ok(PortWrite(msg))
    ELSE IF msg.type = "Extended" THEN Ok(ExtendedWrite(msg))
    ELSE ExtensionProtocolWrite(prot, msg)

BitsExtensionSize(msg) ==
    IF msg.type = "Port" THEN PORT_MESSAGE_LEN ELSE BASE_EXTENDED_MESSAGE_LEN + Len(msg.raw_bencode)

MessageSpecificLen(msg) ==
    IF msg.type = "KeepAlive" THEN KEEP_ALIVE_MESSAGE_LEN
    ELSE IF msg.type \in DOMAIN BareId THEN 1
    ELSE IF msg.type = "Have" THEN HAVE_MESSAGE_LEN
    ELSE IF msg.type = "BitField" THEN BASE_BITFIELD_MESSAGE_LEN + Len(msg.bytes)
    ELSE IF msg.type \in {"Request", "Cancel"} THEN REQUEST_MESSAGE_LEN
    ELSE IF msg.type = "Piece" THEN BASE_PIECE_MESSAGE_LEN + Len(msg.block)
    ELSE IF msg.type \in {"Port", "Extended"} THEN BitsExtensionSize(msg)
    ELSE UtMetadataSize(msg)

message_size(msg) == MESSAGE_LENGTH_LEN_BYTES + MessageSpecificLen(msg)

-----------------------------------------------------------------------------
(* PeerProtocolCodec                                                       *)

bytes_needed(bytes) ==
    IF Len(bytes) < MESSAGE_LENGTH_LEN_BYTES THEN {} ELSE {MESSAGE_LENGTH_LEN_BYTES + be_u32(bytes, 0)}

TooLarge(needed) == \E max \in max_payload : needed > max

Complete(needed, bytes) == needed <= Len(bytes)

-----------------------------------------------------------------------------
(* Actions                                                                 *)

PeerWireInit ==
    /\ ebuilder = [p \in Peers |-> NewBuilder]
    /\ protocol = [p \in Peers |-> [our_extended_msg |-> {}, their_extended_msg |-> {}]]
    /\ sent = [p \in Peers |-> <<>>]
    /\ stream = [p \in Peers |-> <<>>]
    /\ src = [p \in Peers |-> <<>>]
    /\ decoded = [p \in Peers |-> <<>>]
    /\ errored = [p \in Peers |-> {}]
    /\ ops = 0

(* One setter of the extended message's builder.                           *)
Configure(p) ==
    /\ ops < MaxOps
    /\ ops' = ops + 1
    /\ \E c \in Changes :
        ebuilder' = [ebuilder EXCEPT ![p] =
            IF c.field = "id_map" THEN with_extended_type(@, c.key, c.opt)
            ELSE IF c.field = "custom_entries" THEN with_custom_entry(@, c.key, c.opt)
            ELSE with_field(@, c.field, c.opt)]
    /\ UNCHANGED <<protocol, sent, stream, src, decoded, errored>>

(* What Encoder::encode does with the frame of a message, or its error.    *)
Written(p, msg, r) ==
    IF Failed(r)
    THEN /\ errored' = [errored EXCEPT ![p] = @ \cup {"sink"}]
         /\ UNCHANGED <<sent, stream, protocol>>
    ELSE /\ stream' = [stream EXCEPT ![p] = @ \o r.ok]
         /\ sent' = [sent EXCEPT ![p] = Append(@,
                [msg |-> msg, reserved |-> message_size(msg), size |-> Len(r.ok)])]
         /\ protocol' = IF msg.type = "Extended" THEN [protocol EXCEPT ![p] = sent_message(@, msg)] ELSE protocol
         /\ UNCHANGED errored

(* Encoder::encode, and PeerWireProtocol::write_bytes in it.               *)
Send(p, msg) ==
    /\ ops < MaxOps
    /\ ops' = ops + 1
    /\ "sink" \notin errored[p]
    /\ Written(p, msg, WireMessageWrite(msg, protocol[p]))
    /\ UNCHANGED <<ebuilder, src, decoded>>

SendMessage(p) == \E msg \in Messages : Send(p, msg)
SendExtended(p) == Send(p, from_builder(ebuilder[p]))

(* Some bytes the other peer has written arrive.                           *)
Deliver(p) ==
    /\ "stream" \notin errored[p]
    /\ \E n \in 1 .. Len(stream[Other(p)]) :
        /\ src' = [src EXCEPT ![p] = @ \o Prefix(stream[Other(p)], n)]
        /\ stream' = [stream EXCEPT ![Other(p)] = From(@, n)]
    /\ UNCHANGED <<ebuilder, protocol, sent, decoded, errored, ops>>

(* What Decoder::decode does with the message of a frame, or its error.    *)
Read(p, r) ==
    IF Failed(r)
    THEN /\ errored' = [errored EXCEPT ![p] = @ \cup {"stream"}]
         /\ UNCHANGED <<decoded, protocol>>
    ELSE /\ decoded' = [decoded EXCEPT ![p] = Append(@, r.ok)]
         /\ protocol' = IF r.ok.type = "Extended" THEN [protocol EXCEPT ![p] = received_message(@, r.ok)] ELSE protocol
         /\ UNCHANGED errored

(* Decoder::decode, and PeerWireProtocol::parse_bytes in it: a frame above *)
(* the limit or one that does not parse ends the stream of messages.       *)
DecodeFrame(p) ==
    /\ "stream" \notin errored[p]
    /\ \E needed \in bytes_needed(src[p]) :
        \/ /\ TooLarge(needed)
           /\ errored' = [errored EXCEPT ![p] = @ \cup {"stream"}]
           /\ UNCHANGED <<src, decoded, protocol>>
        \/ /\ ~TooLarge(needed) /\ Complete(needed, src[p])
           /\ src' = [src EXCEPT ![p] = From(@, needed)]
           /\ Read(p, WireMessageParse(Prefix(src[p], needed), protocol[p]))
    /\ UNCHANGED <<ebuilder, sent, stream, ops>>

PeerWireNext ==
    \E p \in Peers : Configure(p) \/ SendMessage(p) \/ SendExtended(p) \/ Deliver(p) \/ DecodeFrame(p)

(* Two peers on a connection.                                              *)
PeerWireSpec == PeerWireInit /\ [][PeerWireNext]_peerWireVars

-----------------------------------------------------------------------------
(* Properties                                                              *)

SizesAfter(frames, n) == FoldLeft(LAMBDA total, f : total + f.size, 0, SubSeq(frames, n + 1, Len(frames)))

(* The decoder always stands at the start of a frame: what is buffered and *)
(* what is under way is exactly the frames that are not decoded, however   *)
(* the bytes were cut.  Each length prefix the writers put in front of a   *)
(* message has to be right for this.                                       *)
FramesStayAligned ==
    \A p \in Peers : "stream" \notin errored[p] =>
        Len(src[p]) + Len(stream[Other(p)]) = SizesAfter(sent[Other(p)], Len(decoded[p]))

(* No frame above max_payload is decoded, and none behind one.             *)
PayloadIsLimited ==
    \A p \in Peers : \A k \in DOMAIN decoded[p] : \A max \in max_payload : sent[Other(p)][k].size <= max

(* What encode reserves holds the frame it then writes.                    *)
ReservedIsEnough == \A p \in Peers : \A k \in DOMAIN sent[p] : sent[p][k].reserved >= sent[p][k].size

(* BitFieldIter yields the pieces of a bit field in order, and they make   *)
(* up its bytes, the first piece in the highest bit.                       *)
BitFieldIsIterated ==
    \A p \in Peers : \A k \in DOMAIN sent[p] :
        LET msg == sent[p][k].msg
            bits == BitFieldIter(msg.bytes)
        IN  msg.type = "BitField" =>
                /\ \A i, j \in DOMAIN bits : i < j => bits[i] < bits[j]
                /\ \A b \in DOMAIN msg.bytes :
                    msg.bytes[b] = FoldLeft(LAMBDA n, bit : n + (IF bit \div 8 = b - 1 THEN 2 ^ (7 - (bit % 8)) ELSE 0), 0, bits)

Fields == {"our_id", "our_tcp_port", "their_ip", "our_ipv6_addr", "our_ipv4_addr", "our_max_requests", "metadata_size"}

(* What is read of a message holds what its builder was given.             *)
ReadAsBuilt(read, raw, b) ==
    /\ "res" \in DOMAIN read /\ ~Failed(read.res)
    /\ read.res.ok.raw_bencode = raw
    /\ \A f \in Fields : b[f] # {} => read.res.ok[f] = b[f]
    /\ ID_MAP_KEY \notin DOMAIN b.custom_entries => read.res.ok.id_map = b.id_map

(* Every field set in a builder is read from the extended message by its   *)
(* receiver with the value it was set to, whatever custom entries there    *)
(* are, and so is the id map unless a custom entry takes its key.          *)
ExtendedIsRead ==
    \A p \in Peers :
        LET msg == from_builder(ebuilder[p])
        IN  ReadAsBuilt(BitsExtensionParse(ExtendedWrite(msg)), msg.raw_bencode, ebuilder[p])

(* With an id for ut_metadata in the extended message, the extension       *)
(* protocol reads back each metadata message it writes, raw data included, *)
(* and marks it with that id.                                              *)
MetadataIsRead ==
    \A p \in Peers :
        LET e == from_builder(ebuilder[p])
        IN  \A id \in query_id(e, UtMetadata) : \A msg \in {m \in Messages : m.type \in UtTypes} :
                LET frame == ExtensionWrite(msg, e).ok
                IN  frame[6] = id /\ parse_extensions(frame, e) = Ok(msg)

(* A message is received as it was sent.                                   *)
ReceivedIsSent == \A p \in Peers : \A k \in DOMAIN decoded[p] : decoded[p][k] = sent[Other(p)][k].msg

(* What the messages carry is read by their receiver as it was put in.     *)
ContentsAreRead == BitFieldIsIterated /\ ExtendedIsRead /\ MetadataIsRead

(* The codec cuts the stream where the frames begin, refuses those that    *)
(* are too large and reserves room for those it writes.                    *)
FramesAreCut == FramesStayAligned /\ PayloadIsLimited /\ ReservedIsEnough
=============================================================================
