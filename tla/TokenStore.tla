----------------------------- MODULE TokenStore -----------------------------
(***************************************************************************)
(* The tokens a node hands out with its answers to get_peers and asks back *)
(* with announce_peer.  A store is [curr, last, age]: the two secrets and  *)
(* the time since the last refresh (all ages from 2 * RefreshInterval on   *)
(* are alike).  A random draw is taken to give a secret that is not in     *)
(* use, and SHA-1 to give different tokens for different arguments.        *)
(***************************************************************************)
EXTENDS Integers

CONSTANTS
    RefreshInterval,  \* REFRESH_INTERVAL_MINS in steps of the clock
    Secrets           \* more secrets than are ever in use at a time

ASSUME TokenAssumption ==
    /\ RefreshInterval \in Nat \ {0}
    /\ Secrets # {}
    /\ \A a, b, c, d \in Secrets : Secrets \ {a, b, c, d} # {}

Draw(used) == CHOOSE secret \in Secrets : secret \notin used

NewTokenStore == [curr |-> Draw({}), last |-> Draw({Draw({})}), age |-> 0]

intervals_passed(store) == store.age \div RefreshInterval

(* The current secret becomes the last one, or both are new.               *)
OneInterval(store, used) == [curr |-> Draw(used), last |-> store.curr, age |-> 0]
TwoIntervals(used) == [curr |-> Draw(used \cup {Draw(used)}), last |-> Draw(used), age |-> 0]

(* Mutant: the last secret survives however long nobody asked.             *)
refresh_check_keep(store, used) ==
    IF intervals_passed(store) = 0 THEN store ELSE OneInterval(store, used)

(* Secrets change lazily, when a token is asked for or shown.              *)
refresh_check(store, used) ==
    IF intervals_passed(store) = 0 THEN store
    ELSE IF intervals_passed(store) = 1 THEN OneInterval(store, used)
    ELSE TwoIntervals(used)

generate_token_from_addr(ip, secret) == [ip |-> ip, secret |-> secret]

validate_token_from_addr(ip, token, one, two) ==
    token \in {generate_token_from_addr(ip, one), generate_token_from_addr(ip, two)}

(* checkout and checkin, the store being s = refresh_check(store, used).   *)
checkout(s, ip) == generate_token_from_addr(ip, s.curr)

checkin(s, ip, token) == validate_token_from_addr(ip, token, s.curr, s.last)
=============================================================================
