--------------------------- MODULE TokenRequests ---------------------------
(***************************************************************************)
(* The token store as the requests of other nodes use it: get_peers checks *)
(* a token out, announce_peer checks one in, and the clock goes on.        *)
(***************************************************************************)
EXTENDS TokenStore

CONSTANT Askers   \* the IP addresses that ask us

VARIABLES
    tokens,       \* the token store
    issued,       \* history: the tokens handed out, of the two secrets
    watched       \* history: one hand-out of a token and its age, if any

tokenVars == <<tokens, issued, watched>>

TokensInit == tokens = NewTokenStore /\ issued = {} /\ watched = {}

Current(ts) == {t \in ts : t.secret \in {tokens'.curr, tokens'.last}}

InUse == {tokens.curr, tokens.last} \cup {t.secret : t \in issued} \cup {w.token.secret : w \in watched}

(* The store that a checkout or checkin leaves.                            *)
Refreshed == refresh_check(tokens, InUse)

CheckoutToken(ip) ==
    LET token == checkout(Refreshed, ip)
    IN  /\ tokens' = Refreshed
        /\ issued' = Current(issued \cup {token})
        /\ watched' \in {watched} \cup (IF watched = {} THEN {{[token |-> token, age |-> 0]}} ELSE {})

(* A token of the right length is looked at, valid or not.                 *)
CheckinToken ==
    /\ tokens' = Refreshed
    /\ issued' = Current(issued)
    /\ UNCHANGED watched

TokensTick ==
    /\ tokens' = [tokens EXCEPT !.age = IF @ < 2 * RefreshInterval THEN @ + 1 ELSE @]
    /\ watched' = {[w EXCEPT !.age = @ + 1] : w \in {w \in watched : w.age < 3 * RefreshInterval}}
    /\ UNCHANGED issued

TokensNext == (\E ip \in Askers : CheckoutToken(ip)) \/ CheckinToken \/ TokensTick

(* The store under any requests.                                           *)
TokensSpec == TokensInit /\ [][TokensNext]_tokenVars

-----------------------------------------------------------------------------
(* TokenStore, whatever was asked in between and however lazily secrets    *)
(* change: a token is accepted from its address for RefreshInterval at     *)
(* least, and never 3 * RefreshInterval after it was handed out.           *)
TokenLifetime ==
    \A w \in watched :
        LET accepted == checkin(Refreshed, w.token.ip, w.token)
        IN  /\ w.age <= RefreshInterval => accepted
            /\ w.age >= 3 * RefreshInterval - 1 => ~accepted
=============================================================================
