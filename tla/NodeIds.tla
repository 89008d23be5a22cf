------------------------------ MODULE NodeIds ------------------------------
(***************************************************************************)
(* Node ids and info hashes of the DHT: ShaHash values, here numbers of    *)
(* HashLen bytes of ByteBits bits (20 bytes of 8 bits in the code), most   *)
(* significant bit first, so that < is the order derived for ShaHash.      *)
(***************************************************************************)
EXTENDS Integers, FiniteSets, FiniteSetsExt

CONSTANTS HashLen, ByteBits

MAX_BUCKETS == HashLen * ByteBits

Id == 0 .. (2^MAX_BUCKETS - 1)

(* Bit i of x, counted from the left from 0.                               *)
Bit(x, i) == (x \div 2^(MAX_BUCKETS - 1 - i)) % 2

(* BitXor for ShaHash, tabulated.                                          *)
Xor == [a \in Id, b \in Id |->
    MapThenSumSet(LAMBDA i : IF Bit(a, i) = Bit(b, i) THEN 0 ELSE 2^(MAX_BUCKETS - 1 - i),
                  0 .. (MAX_BUCKETS - 1))]

(* The iterator Bits: a byte is shifted and not masked, so a bit reads as  *)
(* set when it is the first one set in its byte and as unset otherwise.    *)
Bits(x) == [i \in 0 .. (MAX_BUCKETS - 1) |->
    LET byte == (x \div 2^(ByteBits * (HashLen - 1 - (i \div ByteBits)))) % 2^ByteBits
    IN  IF byte \div 2^(ByteBits - 1 - (i % ByteBits)) = 1 THEN "Set" ELSE "Unset"]

(* Number of leading bits that two ids share, counted on Bits.             *)
leading_bit_count == [a \in Id, b \in Id |->
    LET bits == Bits(Xor[a, b])
    IN  Cardinality({i \in 0 .. (MAX_BUCKETS - 1) : \A j \in 0 .. i : bits[j] = "Unset"})]

(* The id that differs from id in one bit.                                 *)
flip_id_bit_at_index(id, i) == Xor[id, 2^(MAX_BUCKETS - 1 - i)]

(* The reference for leading_bit_count.                                    *)
CommonPrefix == [a \in Id, b \in Id |->
    Max({n \in 0 .. MAX_BUCKETS : \A i \in 0 .. (n - 1) : Bit(a, i) = Bit(b, i)})]
=============================================================================
