---------------------------- MODULE PeerMessages ----------------------------
(***************************************************************************)
(* The messages of the peer wire protocol as bytes: what write_bytes       *)
(* writes, what message_size counts, and what the parsers make of a frame. *)
(* A message is a record with its type.  A parser of nom returns           *)
(* [nom |-> kind] where it fails and [res |-> r] where it succeeds, with r *)
(* a result of its own.  The names of dictionary keys are one letter here, *)
(* and an optional field is a set with at most one element.                *)
(***************************************************************************)
EXTENDS BencodeCodec

MESSAGE_LENGTH_LEN_BYTES == 4
HEADER_LEN == 5
EXTENSION_HEADER_LEN == 6

KEEP_ALIVE_MESSAGE_LEN == 0
HAVE_MESSAGE_LEN == 5
BASE_BITFIELD_MESSAGE_LEN == 1
REQUEST_MESSAGE_LEN == 13
BASE_PIECE_MESSAGE_LEN == 9
PORT_MESSAGE_LEN == 3
BASE_EXTENDED_MESSAGE_LEN == 6

(* The messages that are an id and nothing else.                           *)
BareId == [Choke |-> 0, UnChoke |-> 1, Interested |-> 2, UnInterested |-> 3]

HAVE_MESSAGE_ID == 4
BITFIELD_MESSAGE_ID == 5
REQUEST_MESSAGE_ID == 6
PIECE_MESSAGE_ID == 7
CANCEL_MESSAGE_ID == 8
PORT_MESSAGE_ID == 9
EXTENDED_MESSAGE_ID == 20
EXTENDED_MESSAGE_HANDSHAKE_ID == 0

-----------------------------------------------------------------------------
(* Numbers and nom                                                         *)

U16(n) == <<n \div 256, n % 256>>
U32(n) == U16(n \div 65536) \o U16(n % 65536)

BigEndian(bytes) == FoldLeft(LAMBDA n, b : 256 * n + b, 0, bytes)

From(bytes, k) == SubSeq(bytes, k + 1, Len(bytes))
Prefix(bytes, k) == SubSeq(bytes, 1, k)

(* The u32 at an offset of the bytes.                                      *)
be_u32(bytes, k) == BigEndian(SubSeq(bytes, k + 1, k + 4))

NomError == [nom |-> "Error"]
Incomplete == [nom |-> "Incomplete"]
Nom(r) == [res |-> r]

(* nom's alt: an Error goes on to the next parser, everything else ends it. *)
alt(parsers) ==
    LET ends == {k \in DOMAIN parsers : ~("nom" \in DOMAIN parsers[k] /\ parsers[k] = NomError)}
    IN  IF ends = {} THEN NomError ELSE parsers[Min(ends)]

-----------------------------------------------------------------------------
(* Standard messages                                                       *)

write_length_id_pair(length, ids) == U32(length) \o (IF ids = {} THEN <<>> ELSE <<CHOOSE i \in ids : TRUE>>)

HaveWrite(msg) == write_length_id_pair(HAVE_MESSAGE_LEN, {HAVE_MESSAGE_ID}) \o U32(msg.piece_index)

BitFieldWrite(msg) == write_length_id_pair(Len(msg.bytes) + 1, {BITFIELD_MESSAGE_ID}) \o msg.bytes

RequestWrite(msg, id) ==
    write_length_id_pair(REQUEST_MESSAGE_LEN, {id})
        \o U32(msg.piece_index) \o U32(msg.block_offset) \o U32(msg.block_length)

CancelWrite(msg) == RequestWrite(msg, CANCEL_MESSAGE_ID)

(* Mutant: the length does not count the id.                               *)
PieceWriteShort(msg) ==
    write_length_id_pair(Len(msg.block) + 8, {PIECE_MESSAGE_ID})
        \o U32(msg.piece_index) \o U32(msg.block_offset) \o msg.block

PieceWrite(msg) ==
    write_length_id_pair(Len(msg.block) + 9, {PIECE_MESSAGE_ID})
        \o U32(msg.piece_index) \o U32(msg.block_offset) \o msg.block

PortWrite(msg) == write_length_id_pair(PORT_MESSAGE_LEN, {PORT_MESSAGE_ID}) \o U16(msg.port)

HaveParse(bytes) ==
    IF Len(bytes) < 4 THEN Err("Failed to parse HaveMessage") ELSE Ok([type |-> "Have", piece_index |-> be_u32(bytes, 0)])

BitFieldParse(bytes) == Ok([type |-> "BitField", bytes |-> bytes])

RequestParse(bytes, type) ==
    IF Len(bytes) < 12 THEN Err("Failed to parse RequestMessage")
    ELSE Ok([type |-> type, piece_index |-> be_u32(bytes, 0), block_offset |-> be_u32(bytes, 4),
             block_length |-> be_u32(bytes, 8)])

CancelParse(bytes) == RequestParse(bytes, "Cancel")

(* len - 8 below zero is an overflow of usize.                             *)
PieceParse(bytes, len) ==
    IF len < 8 THEN Err("Panic")
    ELSE IF Len(bytes) < len THEN Err("Failed to parse PieceMessage")
    ELSE Ok([type |-> "Piece", piece_index |-> be_u32(bytes, 0), block_offset |-> be_u32(bytes, 4),
             block |-> SubSeq(bytes, 9, len)])

PortParse(bytes) == IF Len(bytes) < 2 THEN NomError ELSE Nom([type |-> "Port", port |-> BigEndian(Prefix(bytes, 2))])

(* (byte << bit_in_byte) >> 7 == 1                                         *)
BitSet(bytes, bit) == (((bytes[(bit \div 8) + 1] * (2 ^ (bit % 8))) % 256) \div 128) = 1

(* BitFieldIter: the pieces whose bits are set, in order.                  *)
BitFieldIter(bytes) ==
    SelectSeq([k \in 1 .. 8 * Len(bytes) |-> k - 1], LAMBDA bit : BitSet(bytes, bit))

-----------------------------------------------------------------------------
(* The extended message                                                    *)

ID_MAP_KEY == <<109>>
CLIENT_ID_KEY == <<118>>
CLIENT_TCP_PORT_KEY == <<112>>
OUR_IP_KEY == <<121>>
CLIENT_IPV6_ADDR_KEY == <<54>>
CLIENT_IPV4_ADDR_KEY == <<52>>
CLIENT_MAX_REQUESTS_KEY == <<114>>
METADATA_SIZE_KEY == <<110>>

UtMetadata == [kind |-> "UtMetadata", id |-> <<97>>]
UtPex == [kind |-> "UtPex", id |-> <<98>>]
CustomType(id) == [kind |-> "Custom", id |-> id]

from_id(id) == IF id = UtMetadata.id THEN UtMetadata ELSE IF id = UtPex.id THEN UtPex ELSE CustomType(id)

NewBuilder ==
    [id_map |-> [t \in {} |-> 0], our_id |-> {}, our_tcp_port |-> {}, their_ip |-> {}, our_ipv6_addr |-> {},
     our_ipv4_addr |-> {}, our_max_requests |-> {}, metadata_size |-> {}, custom_entries |-> EmptyDict]

(* The setters with_our_id, with_our_tcp_port and so on: a value or none.  *)
with_field(builder, field, opt) == [builder EXCEPT ![field] = opt]

(* with_extended_type and with_custom_entry: a value is inserted, none     *)
(* removes the entry.                                                      *)
WithEntry(map, key, opt) ==
    [k \in (DOMAIN map \ {key}) \cup (IF opt = {} THEN {} ELSE {key}) |->
        IF k = key THEN CHOOSE v \in opt : TRUE ELSE map[k]]

with_extended_type(builder, type, opt) == [builder EXCEPT !.id_map = WithEntry(@, type, opt)]
with_custom_entry(builder, key, opt) == [builder EXCEPT !.custom_entries = WithEntry(@, key, opt)]

FieldEntries(b) ==
    Entry(CLIENT_ID_KEY, b.our_id, ben_bytes) @@ Entry(CLIENT_TCP_PORT_KEY, b.our_tcp_port, ben_int)
        @@ Entry(OUR_IP_KEY, b.their_ip, ben_bytes) @@ Entry(CLIENT_IPV6_ADDR_KEY, b.our_ipv6_addr, ben_bytes)
        @@ Entry(CLIENT_IPV4_ADDR_KEY, b.our_ipv4_addr, ben_bytes)
        @@ Entry(CLIENT_MAX_REQUESTS_KEY, b.our_max_requests, ben_int)
        @@ Entry(METADATA_SIZE_KEY, b.metadata_size, ben_int)

BenIdMap(id_map) == [id \in {t.id : t \in DOMAIN id_map} |-> ben_int(id_map[CHOOSE t \in DOMAIN id_map : t.id = id])]

(* Mutant: the custom entries are inserted last.                           *)
bencode_from_builder_last(b) ==
    Encode(ben_map(b.custom_entries @@ FieldEntries(b) @@ (ID_MAP_KEY :> ben_map(BenIdMap(b.id_map)))))

(* The id map, then the custom entries, then the fields: a later insert    *)
(* replaces an earlier one.                                                *)
bencode_from_builder(b) ==
    Encode(ben_map(FieldEntries(b) @@ b.custom_entries @@ (ID_MAP_KEY :> ben_map(BenIdMap(b.id_map)))))

from_builder(b) ==
    [type |-> "Extended", id_map |-> b.id_map, our_id |-> b.our_id, our_tcp_port |-> b.our_tcp_port,
     their_ip |-> b.their_ip, our_ipv6_addr |-> b.our_ipv6_addr, our_ipv4_addr |-> b.our_ipv4_addr,
     our_max_requests |-> b.our_max_requests, metadata_size |-> b.metadata_size,
     raw_bencode |-> bencode_from_builder(b)]

query_id(extended, type) == IF type \in DOMAIN extended.id_map THEN {extended.id_map[type]} ELSE {}

ExtendedWrite(msg) ==
    write_length_id_pair(Len(msg.raw_bencode) + 2, {EXTENDED_MESSAGE_ID})
        \o <<EXTENDED_MESSAGE_HANDSHAKE_ID>> \o msg.raw_bencode

(* The value of a lookup that may fail, as an option.                      *)
Optional(r) == IF Failed(r) THEN {} ELSE {r.ok}

BytesOf(dict, key, lengths) == {b \in Optional(lookup_and_convert_bytes(dict, key)) : Len(b) \in lengths}

(* The integers of the map; one that is no u8 is a panic of unwrap.        *)
parse_id_map(dict) ==
    LET m == lookup_and_convert_dict(dict, ID_MAP_KEY)
        ids == IF Failed(m) THEN {} ELSE {id \in DOMAIN m.ok : ~Failed(convert_str(ben_bytes(id))) /\ ~Failed(convert_int(m.ok[id]))}
    IN  IF \E id \in ids : m.ok[id].int \notin 0 .. 255 THEN Err("Panic")
        ELSE Ok([t \in {from_id(id) : id \in ids} |-> m.ok[t.id].int])

parse_client_tcp_port(dict) == {p \in Optional(lookup_and_convert_int(dict, CLIENT_TCP_PORT_KEY)) : p \in 0 .. 65535}

parse_client_id(dict) == Optional(lookup_and_convert_str(dict, CLIENT_ID_KEY))
parse_our_ip(dict) == BytesOf(dict, OUR_IP_KEY, {4, 16})
parse_client_ipv6_addr(dict) == BytesOf(dict, CLIENT_IPV6_ADDR_KEY, {16})
parse_client_ipv4_addr(dict) == BytesOf(dict, CLIENT_IPV4_ADDR_KEY, {4})
parse_client_max_requests(dict) == Optional(lookup_and_convert_int(dict, CLIENT_MAX_REQUESTS_KEY))
parse_metadata_size(dict) == Optional(lookup_and_convert_int(dict, METADATA_SIZE_KEY))

(* The dictionary that is all of a decoded value.                          *)
DictOf(decoded) == Then(decoded, convert_dict)

DefaultOpt == [max_recursion |-> 50, check_key_sort |-> FALSE, enforce_full_decode |-> TRUE]

ExtendedFrom(dict, raw) ==
    Then(parse_id_map(dict), LAMBDA id_map :
        Ok([type |-> "Extended", id_map |-> id_map,
            our_id |-> parse_client_id(dict),
            our_tcp_port |-> parse_client_tcp_port(dict),
            their_ip |-> parse_our_ip(dict),
            our_ipv6_addr |-> parse_client_ipv6_addr(dict),
            our_ipv4_addr |-> parse_client_ipv4_addr(dict),
            our_max_requests |-> parse_client_max_requests(dict),
            metadata_size |-> parse_metadata_size(dict),
            raw_bencode |-> raw]))

ExtendedParse(bytes, len) ==
    IF Len(bytes) < len THEN Incomplete
    ELSE Nom(Then(DictOf(Decode(Prefix(bytes, len), DefaultOpt)), LAMBDA dict : ExtendedFrom(dict, Prefix(bytes, len))))

(* BitsExtensionMessage::parse_bytes: a port message, or an extended one.  *)
BitsExtensionParse(bytes) ==
    LET port == IF Len(bytes) >= HEADER_LEN /\ be_u32(bytes, 0) = PORT_MESSAGE_LEN /\ bytes[5] = PORT_MESSAGE_ID
                THEN LET p == PortParse(From(bytes, HEADER_LEN))
                     IN  IF "nom" \in DOMAIN p THEN p ELSE Nom(Ok(p.res))
                ELSE NomError
        extended ==
            IF Len(bytes) > HEADER_LEN /\ bytes[5] = EXTENDED_MESSAGE_ID /\ bytes[6] = EXTENDED_MESSAGE_HANDSHAKE_ID
            THEN ExtendedParse(From(bytes, HEADER_LEN + 1), be_u32(bytes, 0) - 2)
            ELSE NomError
    IN  alt(<<port, extended>>)

-----------------------------------------------------------------------------
(* ut_metadata                                                             *)

MESSAGE_TYPE_KEY == <<109>>
PIECE_INDEX_KEY == <<112>>
TOTAL_SIZE_KEY == <<116>>

REQUEST_MESSAGE_TYPE_ID == 0
DATA_MESSAGE_TYPE_ID == 1
REJECT_MESSAGE_TYPE_ID == 2

MetadataHead(type_id, piece, totals) ==
    Encode(ben_map((MESSAGE_TYPE_KEY :> ben_int(type_id)) @@ (PIECE_INDEX_KEY :> ben_int(piece))
        @@ Entry(TOTAL_SIZE_KEY, totals, ben_int)))

UtRequestWrite(msg) == MetadataHead(REQUEST_MESSAGE_TYPE_ID, msg.piece, {})
UtDataWrite(msg) == MetadataHead(DATA_MESSAGE_TYPE_ID, msg.piece, {msg.total_size}) \o msg.data
UtRejectWrite(msg) == MetadataHead(REJECT_MESSAGE_TYPE_ID, msg.piece, {})

UtMetadataWrite(msg) ==
    IF msg.type = "UtRequest" THEN UtRequestWrite(msg)
    ELSE IF msg.type = "UtData" THEN UtDataWrite(msg) ELSE UtRejectWrite(msg)

(* message_size is the size of what is written, for messages made with new *)
(* and for messages parsed from what write_bytes wrote.                    *)
UtMetadataSize(msg) == Len(UtMetadataWrite(msg))

parse_message_type(dict) ==
    LET t == lookup_and_convert_int(dict, MESSAGE_TYPE_KEY)
    IN  IF Failed(t) \/ t.ok \in 0 .. 255 THEN t ELSE Err("Panic")

(* The message of a dictionary with a type and a piece; extra is what      *)
(* follows the dictionary.                                                 *)
UtMessage(dict, type, piece, extra) ==
    IF type = REQUEST_MESSAGE_TYPE_ID THEN Ok([type |-> "UtRequest", piece |-> piece])
    ELSE IF type = REJECT_MESSAGE_TYPE_ID THEN Ok([type |-> "UtReject", piece |-> piece])
    ELSE IF type = DATA_MESSAGE_TYPE_ID
      THEN Then(lookup_and_convert_int(dict, TOTAL_SIZE_KEY), LAMBDA total :
              Ok([type |-> "UtData", piece |-> piece, total_size |-> total, data |-> extra]))
    ELSE Ok([type |-> "UnknownMessageType"])

UtMetadataFrom(dict, extra) ==
    Then(parse_message_type(dict), LAMBDA type :
        Then(lookup_and_convert_int(dict, PIECE_INDEX_KEY), LAMBDA piece : UtMessage(dict, type, piece, extra)))

UtMetadataParse(bytes) ==
    ThenAll(Decode(bytes, [max_recursion |-> 2, check_key_sort |-> FALSE, enforce_full_decode |-> FALSE]), LAMBDA decoded :
        Then(convert_dict(decoded.ok), LAMBDA dict : UtMetadataFrom(dict, From(bytes, decoded.next - 1))))

=============================================================================
