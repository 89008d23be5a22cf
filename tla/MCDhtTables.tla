---------------------------- MODULE MCDhtTables ----------------------------
(* What a node of the DHT keeps: its routing table, its tokens and the     *)
(* peers announced to it, and its transaction ids.  A behaviour is one of  *)
(* the table alone, of the requests of others, or of the ids.              *)
EXTENDS TableSteps, DhtRequests, TransactionIds

VARIABLE part

Node(i, ip, port) == [id |-> i, addr |-> [ip |-> ip, port |-> port]]

SomeContacts ==
    {Node(0, "a", 1), Node(12, "a", 1), Node(13, "a", 1), Node(10, "b", 2), Node(9, "a", 1), Node(8, "a", 1)}
SomeRequesters == {Node(12, "a", 1), Node(10, "b", 2)}
SomeKnown == <<Node(12, "a", 1)>>
SomePeers == {ConnectAddr(c, port) : c \in SomeRequesters, port \in {Implied, 2}}
SomeAskers == {c.addr.ip : c \in SomeRequesters}

TablesInit == part \in {"table", "requests", "ids"} /\ TableInit /\ RequestsInit /\ IdsInit

TablesNext ==
    /\ UNCHANGED part
    /\ \/ part = "table" /\ TableNext /\ UNCHANGED <<requestVars, idVars>>
       \/ part = "requests" /\ RequestsNext /\ UNCHANGED <<table, idVars>>
       \/ part = "ids" /\ IdsNext /\ UNCHANGED <<table, requestVars>>

TablesSpec == TablesInit /\ [][TablesNext]_<<part, table, requestVars, idVars>>
=============================================================================
