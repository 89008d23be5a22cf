----------------------------- MODULE TableSteps -----------------------------
(***************************************************************************)
(* One routing table under everything the handler does to it: nodes are    *)
(* added as good and as questionable, requests in both directions are      *)
(* marked, and time passes.                                                *)
(***************************************************************************)
EXTENDS RoutingTable

VARIABLE table

TableInit == table = <<NewBucket>>

(* A node answered: it is added as good.                                   *)
HearFrom(c) == table' = AddNode(table, as_good(c))

(* A node was named in an answer: it is added as questionable.             *)
HearOf(c) == table' = AddNode(table, as_questionable(c))

(* The node asked us something.                                            *)
Asked(c) ==
    /\ FindNode(table, c) # {}
    /\ table' = Mark(table, FindNode(table, c), remote_request)

(* We asked the node something: a search marks the node find_node returns, *)
(* a bootstrap or a refresh the node of the table it took from the walk.   *)
Ask(c) ==
    \E places \in {FindNode(table, c),
                   {<<b, i>> \in (DOMAIN table) \X (1 .. BucketSize) : SameNode(table[b][i], c)}} :
        places # {} /\ table' = Mark(table, places, local_request)

Tick == table' = AgeTable(table)

TableNext == Tick \/ \E c \in Contacts : HearFrom(c) \/ HearOf(c) \/ Asked(c) \/ Ask(c)

TableSpec == TableInit /\ [][TableNext]_table

-----------------------------------------------------------------------------
(* Properties                                                              *)

(* The comment on RoutingTable::buckets: however often the last bucket was *)
(* split, a node is in the bucket of the bits it shares with us or, if     *)
(* that was not made yet, in the last one; it is there once; and our own   *)
(* id is in no bucket.                                                     *)
WellPlaced ==
    /\ \A s \in Slots(table) : Entry(table, s).response # Never =>
        LET shared == CommonPrefix[SelfId, Entry(table, s).id]
        IN  /\ shared # MAX_BUCKETS
            /\ IF s[1] < Len(table) THEN shared = s[1] - 1 ELSE shared >= s[1] - 1
    /\ \A s, r \in Slots(table) :
        s # r /\ Entry(table, s).response # Never => ~SameNode(Entry(table, s), Entry(table, r))

(* Adding a node, with all the splits it causes, never drops a good node.  *)
(* A questionable node may go even when its bucket has an empty slot,      *)
(* since add_node takes the first slot of lower status; but only where a   *)
(* good node is in its bucket afterwards.                                  *)
GoodNodesStay ==
    [][\A n \in Entries(table) : Pingable(n) /\ ~(\E m \in Entries(table') : SameNode(m, n)) =>
        /\ Status(n) = Questionable
        /\ LET at == bucket_placement(leading_bit_count[SelfId, n.id], Len(table')) + 1
           IN  \E i \in 1 .. BucketSize : Status(table'[at][i]) = Good
      ]_table

(* closest_nodes, for any target and whatever buckets exist, hands out     *)
(* every good or questionable node of the table exactly once, and first of *)
(* all those that share the most bits with the target.                     *)
WalkIsRight ==
    LET pingable == {n \in Entries(table) : Pingable(n)}
    IN  \A target \in Id :
            LET walk == closest_nodes(table, target)
                closer == {k \in DOMAIN walk : CommonPrefix[walk[k].id, target] > CommonPrefix[SelfId, target]}
            IN  /\ Len(walk) = Cardinality(pingable) /\ ToSet(walk) = pingable
                /\ closer = 1 .. Cardinality(closer)
=============================================================================
