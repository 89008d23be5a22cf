--------------------------- MODULE BencodeAccess ---------------------------
(***************************************************************************)
(* Typed access to bencoded values, which the parsers of all messages use: *)
(* BRefAccess, BConvert and BConvertExt.  A result is [ok |-> ] or         *)
(* [error |-> ]; an error names its kind.                                  *)
(***************************************************************************)
EXTENDS Integers, Sequences, SequencesExt, FiniteSets, FiniteSetsExt, TLC

Ok(x) == [ok |-> x]
Err(e) == [error |-> e]
Failed(r) == "error" \in DOMAIN r

(* The ? of the source: an error ends it, otherwise F goes on, with the    *)
(* value or with all of the result.                                        *)
Then(r, F(_)) == IF Failed(r) THEN r ELSE F(r.ok)
ThenAll(r, F(_)) == IF Failed(r) THEN r ELSE F(r)

EmptyDict == [k \in {} |-> [int |-> 0]]

convert_int(v) == IF "int" \in DOMAIN v THEN Ok(v.int) ELSE Err("WrongType")
convert_bytes(v) == IF "bytes" \in DOMAIN v THEN Ok(v.bytes) ELSE Err("WrongType")

(* Text is bytes below 128; others are not UTF-8 here.                     *)
convert_str(v) ==
    IF "bytes" \in DOMAIN v /\ (\A k \in DOMAIN v.bytes : v.bytes[k] < 128) THEN Ok(v.bytes) ELSE Err("WrongType")

convert_list(v) == IF "list" \in DOMAIN v THEN Ok(v.list) ELSE Err("WrongType")
convert_dict(v) == IF "dict" \in DOMAIN v THEN Ok(v.dict) ELSE Err("WrongType")

lookup(dict, key) == IF key \in DOMAIN dict THEN Ok(dict[key]) ELSE Err("MissingKey")

lookup_and_convert_int(dict, key) == Then(lookup(dict, key), convert_int)
lookup_and_convert_bytes(dict, key) == Then(lookup(dict, key), convert_bytes)
lookup_and_convert_str(dict, key) == Then(lookup(dict, key), convert_str)
lookup_and_convert_list(dict, key) == Then(lookup(dict, key), convert_list)
lookup_and_convert_dict(dict, key) == Then(lookup(dict, key), convert_dict)

(* The first failure of a sequence of checks, otherwise the result: the ?  *)
(* of the source, check after check.                                       *)
Checked(checks, result) ==
    LET failed == {k \in DOMAIN checks : Failed(checks[k])}
    IN  IF failed = {} THEN result ELSE checks[Min(failed)]

(* A dictionary entry that is written only when there is a value.          *)
Entry(key, values, Wrap(_)) == [k \in (IF values = {} THEN {} ELSE {key}) |-> Wrap(CHOOSE v \in values : TRUE)]

ben_int(n) == [int |-> n]
ben_bytes(s) == [bytes |-> s]
ben_list(s) == [list |-> s]
ben_map(d) == [dict |-> d]
=============================================================================
