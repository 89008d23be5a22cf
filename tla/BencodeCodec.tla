---------------------------- MODULE BencodeCodec ----------------------------
(***************************************************************************)
(* Bencode: the decoder of BencodeRef and the encoder of BencodeMut.  A    *)
(* byte is its number, and positions count from 1.  A value is a record    *)
(* with one field, [int |-> ], [bytes |-> ], [list |-> ] or [dict |-> ],   *)
(* and the result of a decoder also has the position after it.             *)
(***************************************************************************)
EXTENDS BencodeAccess

CONSTANT IntMax     \* the largest i64

BEN_END == 101        \* e
DICT_START == 100     \* d
LIST_START == 108     \* l
INT_START == 105      \* i
BYTE_LEN_LOW == 48    \* 0
BYTE_LEN_HIGH == 57   \* 9
BYTE_LEN_END == 58    \* :
Minus == 45
Plus == 43

-----------------------------------------------------------------------------
(* Decoding                                                                *)

IsDigit(b) == b \in BYTE_LEN_LOW .. BYTE_LEN_HIGH

(* str::parse::<i64>: a sign, then digits; {} if it is not a number or out *)
(* of range.                                                               *)
ParseInt(s) ==
    LET digits == IF s # <<>> /\ s[1] \in {Minus, Plus} THEN Tail(s) ELSE s
        sign == IF s # <<>> /\ s[1] = Minus THEN -1 ELSE 1
    IN  IF digits = <<>> \/ (\E k \in DOMAIN digits : ~IsDigit(digits[k])) THEN {}
        ELSE {sign * FoldLeft(LAMBDA n, b : 10 * n + (b - BYTE_LEN_LOW), 0, digits)} \cap ((-IntMax - 1) .. IntMax)

(* The checks on the bytes up to the delimiter.                            *)
IntOf(slice, next) ==
    IF Len(slice) > 1 /\ slice[1] = Minus /\ slice[2] = BYTE_LEN_LOW THEN Err("InvalidIntNegativeZero")
    ELSE IF Len(slice) > 1 /\ slice[1] = BYTE_LEN_LOW THEN Err("InvalidIntZeroPadding")
    ELSE IF ParseInt(slice) = {} THEN Err("InvalidIntParseError")
    ELSE [ok |-> CHOOSE n \in ParseInt(slice) : TRUE, next |-> next]

decode_int(bytes, pos, delim) ==
    LET ends == {k \in pos .. Len(bytes) : bytes[k] = delim}
    IN  IF ends = {} THEN Err("InvalidIntNoDelimiter")
        ELSE IntOf(SubSeq(bytes, pos, Min(ends) - 1), Min(ends) + 1)

(* The bytes behind a length.                                              *)
BytesOfLength(bytes, len) ==
    IF len.ok < 0 THEN Err("InvalidLengthNegative")
    ELSE IF len.ok > Len(bytes) - len.next + 1 THEN Err("InvalidLengthOverflow")
    ELSE [ok |-> SubSeq(bytes, len.next, len.next + len.ok - 1), next |-> len.next + len.ok]

decode_bytes(bytes, pos) == ThenAll(decode_int(bytes, pos, BYTE_LEN_END), LAMBDA len : BytesOfLength(bytes, len))

(* The order of byte strings.                                              *)
LexLess(a, b) ==
    \/ \E k \in 1 .. Len(a) : k <= Len(b) /\ a[k] < b[k] /\ SubSeq(a, 1, k - 1) = SubSeq(b, 1, k - 1)
    \/ Len(a) < Len(b) /\ a = SubSeq(b, 1, Len(a))

(* The last key of a dictionary is greater than this one.                  *)
OutOfOrder(dict, key) == \E k \in DOMAIN dict : LexLess(key, k)

Duplicate(dict, key) == key \in DOMAIN dict

TooDeep(depth, opts) == depth >= opts.max_recursion

RECURSIVE decode(_, _, _, _), decode_list(_, _, _, _, _), decode_dict(_, _, _, _, _)

decode(bytes, pos, opts, depth) ==
    IF TooDeep(depth, opts) THEN Err("InvalidRecursionExceeded")
    ELSE IF pos > Len(bytes) THEN Err("BytesEmpty")
    ELSE IF bytes[pos] = INT_START
      THEN ThenAll(decode_int(bytes, pos + 1, BEN_END), LAMBDA r : [ok |-> [int |-> r.ok], next |-> r.next])
    ELSE IF bytes[pos] = LIST_START
      THEN ThenAll(decode_list(bytes, pos + 1, opts, depth, <<>>), LAMBDA r : [ok |-> [list |-> r.ok], next |-> r.next])
    ELSE IF bytes[pos] = DICT_START
      THEN ThenAll(decode_dict(bytes, pos + 1, opts, depth, EmptyDict), LAMBDA r : [ok |-> [dict |-> r.ok], next |-> r.next])
    ELSE IF IsDigit(bytes[pos])
      THEN ThenAll(decode_bytes(bytes, pos), LAMBDA r : [ok |-> [bytes |-> r.ok], next |-> r.next])
    ELSE Err("InvalidByte")

(* The loops of decode_list and decode_dict, with what is decoded so far.  *)
decode_list(bytes, pos, opts, depth, list) ==
    IF pos > Len(bytes) THEN Err("BytesEmpty")
    ELSE IF bytes[pos] = BEN_END THEN [ok |-> list, next |-> pos + 1]
    ELSE ThenAll(decode(bytes, pos, opts, depth + 1),
            LAMBDA item : decode_list(bytes, item.next, opts, depth, Append(list, item.ok)))

decode_dict(bytes, pos, opts, depth, dict) ==
    IF pos > Len(bytes) THEN Err("BytesEmpty")
    ELSE IF bytes[pos] = BEN_END THEN [ok |-> dict, next |-> pos + 1]
    ELSE ThenAll(decode_bytes(bytes, pos), LAMBDA key :
            IF opts.check_key_sort /\ OutOfOrder(dict, key.ok) THEN Err("InvalidKeyOrdering")
            ELSE ThenAll(decode(bytes, key.next, opts, depth + 1), LAMBDA value :
                    IF Duplicate(dict, key.ok) THEN Err("InvalidKeyDuplicates")
                    ELSE decode_dict(bytes, value.next, opts, depth, (key.ok :> value.ok) @@ dict)))

(* BencodeRef::decode                                                      *)
Decode(bytes, opts) ==
    ThenAll(decode(bytes, 1, opts, 0),
        LAMBDA r : IF r.next # Len(bytes) + 1 /\ opts.enforce_full_decode THEN Err("BytesEmpty") ELSE r)

-----------------------------------------------------------------------------
(* Encoding                                                                *)

RECURSIVE Digits(_)
Digits(n) == IF n < 10 THEN <<BYTE_LEN_LOW + n>> ELSE Digits(n \div 10) \o <<BYTE_LEN_LOW + (n % 10)>>

encode_int(n) == <<INT_START>> \o (IF n < 0 THEN <<Minus>> \o Digits(-n) ELSE Digits(n)) \o <<BEN_END>>

encode_bytes(s) == Digits(Len(s)) \o <<BYTE_LEN_END>> \o s

(* Mutant: shorter keys come first.                                        *)
SortedKeysByLength(dict) == SetToSortSeq(DOMAIN dict, LAMBDA a, b : Len(a) < Len(b) \/ (Len(a) = Len(b) /\ LexLess(a, b)))

SortedKeys(dict) == SetToSortSeq(DOMAIN dict, LexLess)

RECURSIVE Encode(_)
Encode(v) ==
    IF "int" \in DOMAIN v THEN encode_int(v.int)
    ELSE IF "bytes" \in DOMAIN v THEN encode_bytes(v.bytes)
    ELSE IF "list" \in DOMAIN v
      THEN <<LIST_START>> \o FlattenSeq([k \in DOMAIN v.list |-> Encode(v.list[k])]) \o <<BEN_END>>
    ELSE LET keys == SortedKeys(v.dict)
         IN  <<DICT_START>>
              \o FlattenSeq([k \in DOMAIN keys |-> encode_bytes(keys[k]) \o Encode(v.dict[keys[k]])])
              \o <<BEN_END>>
=============================================================================
