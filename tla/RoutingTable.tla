---------------------------- MODULE RoutingTable ----------------------------
(***************************************************************************)
(* The routing table of the DHT: nodes with their status, buckets, the     *)
(* splitting of the last bucket and the walk over the closest nodes, as    *)
(* operators on tables: a table is a sequence of buckets, a bucket is a    *)
(* sequence of nodes.                                                      *)
(*                                                                         *)
(* Times are kept as ages: 0 .. LastSeen, where LastSeen stands for every  *)
(* time at least MAX_LAST_SEEN_MINS ago, and Never.                        *)
(***************************************************************************)
EXTENDS NodeIds, Sequences, SequencesExt

CONSTANTS
    SelfId,           \* the node id of the table
    Contacts,         \* [id, addr] of the nodes of the network
    BucketSize,       \* MAX_BUCKET_SIZE
    LastSeen,         \* MAX_LAST_SEEN_MINS in steps of the clock
    RefreshRequests   \* MAX_REFRESH_REQUESTS

Never == -1
Bad == 0
Questionable == 1
Good == 2

as_good(c) == [id |-> c.id, addr |-> c.addr, response |-> 0, request |-> Never, refresh |-> 0]
as_questionable(c) == [as_good(c) EXCEPT !.response = LastSeen]
as_bad(c) == [as_good(c) EXCEPT !.response = Never]

SameNode(m, n) == m.id = n.id /\ m.addr = n.addr

(* First scenario: the node answered recently.                             *)
recently_responded(n) ==
    IF n.response = Never THEN Bad
    ELSE IF n.response < LastSeen THEN Good ELSE Questionable

(* Second scenario: it answered once, and asked us something recently.     *)
recently_requested(n) ==
    IF n.request \in 0 .. (LastSeen - 1) THEN Good
    ELSE IF n.refresh < RefreshRequests THEN Questionable ELSE Bad

Status(n) ==
    IF recently_responded(n) = Questionable THEN recently_requested(n)
    ELSE recently_responded(n)

Pingable(n) == Status(n) \in {Good, Questionable}

(* The counter is kept up to the largest value status() can tell apart.    *)
local_request(n) ==
    IF Status(n) # Good /\ n.refresh < RefreshRequests THEN [n EXCEPT !.refresh = @ + 1] ELSE n

remote_request(n) == [n EXCEPT !.request = 0]

-----------------------------------------------------------------------------
(* Buckets                                                                 *)

EmptySlot == as_bad([id |-> 0, addr |-> [ip |-> "localhost", port |-> 0]])

NewBucket == [i \in 1 .. BucketSize |-> EmptySlot]

(* Mutant: a newcomer also takes the place of a node of equal status.      *)
BucketAddEager(b, n) ==
    LET same == {i \in DOMAIN b : SameNode(b[i], n)}
        lower == {i \in DOMAIN b : Status(b[i]) <= Status(n)}
    IN  IF Status(n) = Bad THEN {b}
        ELSE IF same # {}
          THEN {IF Status(n) >= Status(b[Min(same)]) THEN [b EXCEPT ![Min(same)] = n] ELSE b}
        ELSE IF lower # {} THEN {[b EXCEPT ![Min(lower)] = n]}
        ELSE {}

(* Bucket::add_node: the bucket afterwards, or no bucket if it is full.    *)
BucketAdd(b, n) ==
    LET same == {i \in DOMAIN b : SameNode(b[i], n)}
        lower == {i \in DOMAIN b : Status(b[i]) < Status(n)}
    IN  IF Status(n) = Bad THEN {b}
        ELSE IF same # {}
          THEN {IF Status(n) >= Status(b[Min(same)]) THEN [b EXCEPT ![Min(same)] = n] ELSE b}
        ELSE IF lower # {} THEN {[b EXCEPT ![Min(lower)] = n]}
        ELSE {}

-----------------------------------------------------------------------------
(* Placing nodes                                                           *)

(* Mutant: off by one at the last bucket.                                  *)
bucket_placement_over(same_bits, buckets) ==
    IF same_bits > buckets THEN buckets - 1 ELSE IF same_bits = buckets THEN 0 ELSE same_bits

(* Index from 0 of the bucket for a node, given the buckets there are.     *)
bucket_placement(same_bits, buckets) ==
    IF same_bits >= buckets THEN buckets - 1 ELSE same_bits

can_split_bucket(buckets, index) == index = buckets - 1 /\ index # MAX_BUCKETS - 1

RECURSIVE AddNode(_, _), BucketNode(_, _), SplitBucket(_)

(* RoutingTable::add_node                                                  *)
AddNode(t, n) ==
    IF Status(n) = Bad \/ leading_bit_count[SelfId, n.id] = MAX_BUCKETS THEN t
    ELSE BucketNode(t, n)

BucketNode(t, n) ==
    LET index == bucket_placement(leading_bit_count[SelfId, n.id], Len(t))
        added == BucketAdd(t[index + 1], n)
    IN  IF added # {} THEN [t EXCEPT ![index + 1] = CHOOSE b \in added : TRUE]
        ELSE IF can_split_bucket(Len(t), index) THEN BucketNode(SplitBucket(t), n)
        ELSE t

SplitBucket(t) ==
    FoldLeft(LAMBDA new, n : AddNode(new, n), Front(t) \o <<NewBucket, NewBucket>>, Last(t))

AddNodes(t, nodes) == FoldLeft(LAMBDA new, n : AddNode(new, n), t, nodes)

-----------------------------------------------------------------------------
(* Reading the table                                                       *)

(* The item at index i of the iterator Buckets: kind, and position in t.   *)
BucketContents(t, i) ==
    IF i < MAX_BUCKETS /\ (i + 1 < Len(t) \/ Len(t) = MAX_BUCKETS)
      THEN [kind |-> "sorted", at |-> i + 1]
    ELSE IF i = MAX_BUCKETS /\ Len(t) # MAX_BUCKETS
      THEN [kind |-> "assorted", at |-> Len(t)]
    ELSE [kind |-> "empty", at |-> 0]

(* find_node: the places <<bucket, slot>> of the node.  An item "empty" is *)
(* an item, so the assorted bucket is not looked at for a missing one.     *)
FindNode(t, c) ==
    LET bucket == BucketContents(t, leading_bit_count[SelfId, c.id]).at
    IN  {<<b, i>> \in {bucket} \X (1 .. BucketSize) :
            b # 0 /\ Pingable(t[b][i]) /\ SameNode(t[b][i], c)}

Mark(t, places, Op(_)) ==
    [b \in DOMAIN t |-> [i \in 1 .. BucketSize |->
        IF <<b, i>> \in places THEN Op(t[b][i]) ELSE t[b][i]]]

Older(age) == IF age \in 0 .. (LastSeen - 1) THEN age + 1 ELSE age

(* The table when the clock has moved by a step.                           *)
AgeTable(t) == [b \in DOMAIN t |-> [i \in 1 .. BucketSize |->
    [t[b][i] EXCEPT !.response = Older(@), !.request = Older(@)]]]

InBounds(i) == i \in 0 .. (MAX_BUCKETS - 1)

(* Mutant: the walk stops at the left end.                                 *)
next_bucket_stop(start, curr) ==
    LET right == IF curr > start THEN curr + 1 ELSE start + (start - curr) + 1
        left == IF curr > start THEN start - (curr - start) ELSE curr - 1
    IN  SelectSeq(IF curr > start THEN <<left>> ELSE <<right, left>>, InBounds)

(* next_bucket_index: the candidates in order of preference; the walk goes *)
(* on with the first one, and ends when there is none.                     *)
next_bucket_index(start, curr) ==
    LET right == IF curr > start THEN curr + 1 ELSE start + (start - curr) + 1
        left == IF curr > start THEN start - (curr - start) ELSE curr - 1
    IN  SelectSeq(IF curr > start THEN <<left, right>> ELSE <<right, left>>, InBounds)

RECURSIVE Walk(_, _)
Walk(start, curr) ==
    LET next == next_bucket_index(start, curr)
    IN  <<curr>> \o (IF next = <<>> THEN <<>> ELSE Walk(start, Head(next)))

BucketWalk == [start \in 0 .. MAX_BUCKETS |-> Walk(start, start)]

(* The nodes the iterator hands out at bucket index i: those of the sorted *)
(* bucket, then those of the assorted bucket that belong to it.            *)
NodesAt(t, i) ==
    LET sorted == BucketContents(t, i)
    IN  (IF i < MAX_BUCKETS /\ sorted.kind = "sorted" THEN SelectSeq(t[sorted.at], Pingable) ELSE <<>>)
     \o (IF Len(t) = MAX_BUCKETS THEN <<>>
         ELSE SelectSeq(Last(t), LAMBDA n : Pingable(n) /\ leading_bit_count[SelfId, n.id] = i))

closest_nodes(t, target) ==
    FoldLeft(LAMBDA nodes, i : nodes \o NodesAt(t, i), <<>>, BucketWalk[leading_bit_count[SelfId, target]])

Slots(t) == {<<b, i>> : b \in DOMAIN t, i \in 1 .. BucketSize}
Entry(t, s) == t[s[1]][s[2]]
Entries(t) == {Entry(t, s) : s \in {s \in Slots(t) : Entry(t, s).response # Never}}
=============================================================================
