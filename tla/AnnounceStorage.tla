--------------------------- MODULE AnnounceStorage ---------------------------
(***************************************************************************)
(* The peers announced to this node.  A store is [storage, expires]: the   *)
(* addresses of every info hash, in the order they came (an info hash      *)
(* without entry is one with no addresses), and the list of expirations    *)
(* that says how old an item is and how many items there are.  All ages    *)
(* from ExpirationTime on are alike.                                       *)
(***************************************************************************)
EXTENDS Integers, Sequences, FiniteSets

CONSTANTS
    InfoHashes,
    PeerAddrs,        \* the addresses peers can announce
    MaxItemsStored,   \* MAX_ITEMS_STORED
    ExpirationTime    \* EXPIRATION_TIME_HOURS in steps of the clock

ASSUME StorageAssumption == MaxItemsStored \in Nat /\ ExpirationTime \in Nat \ {0}

VARIABLES
    stored,       \* the announced peers
    announced     \* history: the accepted announces that have not expired

storageVars == <<stored, announced>>

NewStorage == [storage |-> [h \in InfoHashes |-> <<>>], expires |-> <<>>]

ItemExpiration(hash, addr) == [hash |-> hash, addr |-> addr, age |-> 0]

SameItem(i, j) == i.hash = j.hash /\ i.addr = j.addr

is_expired(i) == i.age >= ExpirationTime

(* Length of the longest prefix of expired items (take_while).             *)
NumExpired(expires) ==
    Cardinality({k \in DOMAIN expires : \A j \in 1 .. k : is_expired(expires[j])})

(* What a list keeps when only the items in some places are retained.      *)
Retained(list, places) ==
    [n \in 1 .. Cardinality(places) |-> list[CHOOSE k \in places : Cardinality({l \in places : l <= k}) = n]]

(* The places of the addresses that none of the first n expirations names. *)
Unexpired(st, h, n) ==
    {k \in DOMAIN st.storage[h] : \A j \in 1 .. n : ~SameItem(st.expires[j], ItemExpiration(h, st.storage[h][k]))}

(* Prunes the expired items from the head of the list and from storage.    *)
remove_expired_items(st) ==
    LET n == NumExpired(st.expires)
    IN  [storage |-> [h \in InfoHashes |-> Retained(st.storage[h], Unexpired(st, h, n))],
         expires |-> SubSeq(st.expires, n + 1, Len(st.expires))]

(* "none": no room; "old": already stored; "new": there is room for it.    *)
insert_contact(st, hash, addr) ==
    IF \E k \in DOMAIN st.storage[hash] : st.storage[hash][k] = addr THEN "old"
    ELSE IF Len(st.expires) < MaxItemsStored THEN "new" ELSE "none"

(* Mutant: an item announced again keeps its place in the list.            *)
add_item_in_place(st, hash, addr) ==
    LET s == remove_expired_items(st)
        item == ItemExpiration(hash, addr)
    IN  CASE insert_contact(s, hash, addr) = "old" ->
                [s EXCEPT !.expires = [k \in DOMAIN s.expires |->
                    IF SameItem(s.expires[k], item) THEN item ELSE s.expires[k]]]
          [] insert_contact(s, hash, addr) = "new" ->
                [s EXCEPT !.storage[hash] = Append(@, addr), !.expires = Append(@, item)]
          [] OTHER -> s

(* The places of the other items in the list of expirations.               *)
Others(expires, item) == {k \in DOMAIN expires : ~SameItem(expires[k], item)}

(* The store after add_item; the item is refused if it is not "new" or     *)
(* "old" once the expired ones are gone.                                   *)
add_item(st, hash, addr) ==
    LET s == remove_expired_items(st)
        item == ItemExpiration(hash, addr)
    IN  CASE insert_contact(s, hash, addr) = "old" ->
                [s EXCEPT !.expires = Append(Retained(@, Others(@, item)), item)]
          [] insert_contact(s, hash, addr) = "new" ->
                [s EXCEPT !.storage[hash] = Append(@, addr), !.expires = Append(@, item)]
          [] OTHER -> s

Accepted(st, hash, addr) == insert_contact(remove_expired_items(st), hash, addr) # "none"

find_items(st, hash) == remove_expired_items(st).storage[hash]

(* The store when the clock has moved by a step.                           *)
OlderItem(item) == [item EXCEPT !.age = IF @ < ExpirationTime THEN @ + 1 ELSE @]

AgeStorage(st) == [st EXCEPT !.expires = [k \in DOMAIN @ |-> OlderItem(@[k])]]

-----------------------------------------------------------------------------
StorageInit == stored = NewStorage /\ announced = {}

Announced(hash, peer) ==
    {a \in announced : ~SameItem(a, ItemExpiration(hash, peer))} \cup {ItemExpiration(hash, peer)}

AddItem(hash, peer) ==
    /\ stored' = add_item(stored, hash, peer)
    /\ announced' = IF Accepted(stored, hash, peer) THEN Announced(hash, peer) ELSE announced

FindItems == stored' = remove_expired_items(stored) /\ UNCHANGED announced

StorageTick ==
    /\ stored' = AgeStorage(stored)
    /\ announced' = {[a EXCEPT !.age = @ + 1] : a \in {a \in announced : a.age < ExpirationTime - 1}}

StorageNext ==
    \/ \E hash \in InfoHashes, peer \in PeerAddrs : AddItem(hash, peer)
    \/ FindItems
    \/ StorageTick

(* The storage under any requests.                                         *)
StorageSpec == StorageInit /\ [][StorageNext]_storageVars

-----------------------------------------------------------------------------
(* Properties                                                              *)

(* The two lists of the storage together serve exactly the peers whose     *)
(* last accepted announce has not expired, each of them once.              *)
ServesLivePeers ==
    \A h \in InfoHashes :
        LET served == find_items(stored, h)
        IN  /\ {served[k] : k \in DOMAIN served} = {a.addr : a \in {a \in announced : a.hash = h}}
            /\ \A j, k \in DOMAIN served : served[j] = served[k] => j = k

(* Every stored address has one expiration, every expiration is that of a  *)
(* stored address, and there are at most MAX_ITEMS_STORED of them.         *)
StorageIsBounded ==
    /\ Len(stored.expires) <= MaxItemsStored
    /\ \A j, k \in DOMAIN stored.expires : SameItem(stored.expires[j], stored.expires[k]) => j = k
    /\ \A h \in InfoHashes, peer \in PeerAddrs :
        (\E k \in DOMAIN stored.storage[h] : stored.storage[h][k] = peer) <=>
        (\E k \in DOMAIN stored.expires : SameItem(stored.expires[k], ItemExpiration(h, peer)))

(* An announce with a good token is refused only when as many peers as     *)
(* there is room for are still live.                                       *)
RefusedOnlyWhenFull ==
    \A h \in InfoHashes, peer \in PeerAddrs :
        ~Accepted(stored, h, peer) => Cardinality(announced) = MaxItemsStored

(* AnnounceStorage, through expiry, renewal and a full storage: find_items *)
(* gives all live peers and no other, and add_item refuses none while      *)
(* there is room.                                                          *)
StorageIsRight == ServesLivePeers /\ StorageIsBounded /\ RefusedOnlyWhenFull
=============================================================================
