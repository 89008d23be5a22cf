------------------------------ MODULE Bencode ------------------------------
(***************************************************************************)
(* The bencode decoder and encoder over an input that arrives piece by     *)
(* piece.                                                                  *)
(***************************************************************************)
EXTENDS BencodeCodec

CONSTANTS Lexemes,    \* the strings of bytes an input is made of
          MaxLexemes, \* bound: how many of them
          Limit       \* the recursion limit of the options

VARIABLES input,   \* the bytes
          lexemes  \* how many lexemes they are

bencodeVars == <<input, lexemes>>

-----------------------------------------------------------------------------
(* The input                                                               *)

(* BDecodeOpt::new(Limit, check_key_sort, enforce_full_decode)             *)
Options(sorted, full) == [max_recursion |-> Limit, check_key_sort |-> sorted, enforce_full_decode |-> full]

(* Errors that a longer input can turn into a value.                       *)
Unfinished == {"BytesEmpty", "InvalidIntNoDelimiter", "InvalidLengthOverflow"}

BencodeInit == input = <<>> /\ lexemes = 0

(* The input is a value, or can become one.                                *)
CanGrow(r) == IF Failed(r) THEN r.error \in Unfinished ELSE r.next > Len(input)

(* One more lexeme arrives, behind a value or behind what can become one.  *)
Arrive ==
    /\ lexemes < MaxLexemes
    /\ lexemes' = lexemes + 1
    /\ CanGrow(decode(input, 1, Options(FALSE, FALSE), 0))
    /\ \E x \in Lexemes : input' = input \o x

BencodeNext == Arrive

(* Input that grows lexeme by lexeme.                                      *)
BencodeSpec == BencodeInit /\ [][BencodeNext]_bencodeVars

-----------------------------------------------------------------------------
(* Properties                                                              *)

(* The bytes decode to the value, to the last byte.                        *)
DecodeTo(bytes, value) == Decode(bytes, Options(TRUE, TRUE)) = [ok |-> value, next |-> Len(bytes) + 1]

Survives(r) == Failed(r) \/ DecodeTo(Encode(r.ok), r.ok)

IsCanonical(r) == Failed(r) \/ (\E k \in DOMAIN input : input[k] = Plus) \/ Encode(r.ok) = input

(* What the decoder accepts survives the encoder: the bytes written for a  *)
(* decoded value decode to the same value, to the last byte, even where    *)
(* keys must be in order.                                                  *)
RoundTrips == Survives(Decode(input, Options(FALSE, FALSE)))

(* With ordered keys and a full decode every value has one encoding: an    *)
(* accepted input is the one the encoder writes.  The decoder accepts a    *)
(* plus sign in front of a number, so inputs with one are left out.        *)
Canonical == IsCanonical(Decode(input, Options(TRUE, TRUE)))

(* What is decoded and what is encoded fit: a value comes back from its    *)
(* encoding, and an encoding from its value.                               *)
OneEncoding == RoundTrips /\ Canonical
=============================================================================
