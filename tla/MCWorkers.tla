----------------------------- MODULE MCWorkers -----------------------------
(* Parts that have to come to an end: the threads that hash pieces, the    *)
(* download of metadata from peers, and the bootstrap and the searches of  *)
(* the DHT.  A behaviour is one of a part, while the others wait in an     *)
(* initial state, where nothing their fairness is about is enabled.        *)
EXTENDS HashWorkers, UberModule, DhtSearch

VARIABLE part

MCAccessors ==
    {<<[bytes |-> <<1, 2, 3>>], [bytes |-> <<>>], [bytes |-> <<4, 5>>]>>,
     <<[bytes |-> <<1, 2, 3, 4, 5, 6, 7, 8>>]>>, <<[bytes |-> <<>>]>>,
     <<[hash |-> <<1, 2>>], [hash |-> <<3>>]>>,
     <<[bytes |-> <<1, 2, 3>>], [fails |-> <<4, 5, 6>>], [bytes |-> <<7>>]>>}

MCHashOf == [peer \in UtPeers |-> "h1"]

Node(id, ip) == [id |-> id, addr |-> [ip |-> ip, port |-> 1]]
N7 == Node(7, "r")
N4 == Node(4, "a")
N6 == Node(6, "b")
N1 == Node(1, "c")
SomeContacts == {N7, N4, N6, N1}
SomeKnows == (N7 :> <<N4, N6>>) @@ (N4 :> <<N6, N1>>) @@ (N6 :> <<N1, N4>>) @@ (N1 :> <<N4>>)
SomeHashes == "x" :> 5
SomeCredits == {Unlimited, 2, 5}
SomeAddrs == <<N7.addr>>
SomeRouters == {N7.addr}

WorkersInit ==
    /\ part \in {"hash", "uber", "search"}
    /\ HashInit /\ UberInit /\ SearchInit
    /\ part = "hash" \/ accessor = <<[bytes |-> <<>>]>>
    /\ part = "uber" \/ with_extended
    /\ part = "search" \/ dht.out = Unlimited

WorkersNext ==
    /\ UNCHANGED part
    /\ \/ part = "hash" /\ HashNext /\ UNCHANGED <<uberVars, dht>>
       \/ part = "uber" /\ UberNext /\ UNCHANGED <<hashVars, dht>>
       \/ part = "search" /\ SearchNext /\ UNCHANGED <<hashVars, uberVars>>

(* Each thread of a build that is called runs until it blocks or ends; a   *)
(* thread that waits for a buffer or for work polls.                       *)
HashFairness ==
    /\ WF_hashVars(part = "hash" /\ MasterStep) /\ WF_hashVars(part = "hash" /\ ReportProgress)
    /\ \A w \in Workers : WF_hashVars(part = "hash" /\ WorkerStep(w))

WorkersSpec ==
    /\ WorkersInit /\ [][WorkersNext]_<<part, hashVars, uberVars, dht>>
    /\ HashFairness /\ SearchFairness
=============================================================================
