----------------------------- MODULE MCFormats -----------------------------
(* What the crates write and read: bencoded values, the messages of the    *)
(* DHT, torrent files, and the pieces told to peers.  A behaviour is one   *)
(* of a part, while the others wait in an initial state.                   *)
EXTENDS Bencode, DhtWire, MetainfoBuild, HonestReveal

VARIABLE part

\* d l e 0: 1:e +1:e 01:d 1: 2:de -1: i1e i12e i+1e i-0e i01e
MCLexemes == {<<100>>, <<108>>, <<101>>, <<48, 58>>, <<49, 58, 101>>, <<43, 49, 58, 101>>,
              <<48, 49, 58, 100>>, <<49, 58>>, <<50, 58, 100, 101>>, <<45, 49, 58>>, <<105, 49, 101>>, <<105, 49, 50, 101>>,
              <<105, 43, 49, 101>>, <<105, 45, 48, 101>>, <<105, 48, 49, 101>>}

MCIds == {[k \in 1 .. 20 |-> 1], [k \in 1 .. 20 |-> k]}
MCAddrs == {[ip |-> <<127, 0, 0, 1>>, port |-> 258], [ip |-> <<10, 0, 0, 255>>, port |-> 65535]}
MCGarbage ==
    {[int |-> 0], [int |-> -65537], [bytes |-> <<>>], [bytes |-> <<120>>], [bytes |-> <<114>>], [bytes |-> <<200>>],
     [bytes |-> [k \in 1 .. 20 |-> 9]], [bytes |-> [k \in 1 .. 27 |-> 9]], [bytes |-> [k \in 1 .. 26 |-> 9]],
     [list |-> <<[int |-> 457], [bytes |-> <<65>>]>>], [list |-> <<[bytes |-> [k \in 1 .. 6 |-> 9]], [bytes |-> <<1>>]>>],
     [dict |-> [id |-> [bytes |-> [k \in 1 .. 20 |-> 9]]]]}

Tree(is_dir, path, entries) == [is_dir |-> is_dir, path |-> path, entries |-> entries]
File(path, bytes) == [path |-> path, file |-> TRUE, bytes |-> bytes]
Dir(path) == [path |-> path, file |-> FALSE, bytes |-> <<>>]

MCTexts == {<<65>>, <<66, 66>>}
MCSources ==
    {Tree(FALSE, <<<<47>>, <<65>>>>, <<File(<<<<47>>, <<65>>>>, <<1, 2, 3>>)>>),
     Tree(TRUE, <<<<47>>, <<68>>>>,
        <<Dir(<<<<47>>, <<68>>>>), File(<<<<47>>, <<68>>, <<65>>>>, <<1>>), Dir(<<<<47>>, <<68>>, <<69>>>>),
          File(<<<<47>>, <<68>>, <<69>>, <<66>>>>, <<>>), File(<<<<47>>, <<68>>, <<70>>>>, <<2, 3, 4>>)>>),
     Tree(TRUE, <<<<47>>, <<68>>>>, <<Dir(<<<<47>>, <<68>>>>)>>),
     Tree(TRUE, <<<<47>>, <<68>>>>, <<Dir(<<<<47>>, <<68>>>>), File(<<<<47>>, <<68>>, <<65>>>>, <<1>>)>>),
     [name |-> <<65, 47, 66>>, contents |-> <<5, 6>>]}
MCValues ==
    {[int |-> -1], [int |-> 1], [bytes |-> <<>>], [bytes |-> <<65>>], [bytes |-> <<47, 65>>], [bytes |-> [k \in 1 .. 20 |-> 7]],
     [bytes |-> <<200>>], [list |-> <<>>], [list |-> <<[bytes |-> <<65, 47, 66>>], [bytes |-> <<47, 67>>]>>],
     [list |-> <<[int |-> 1]>>], [dict |-> [x \in {} |-> [int |-> 0]]]}
MCTotals == {0, 1024 * 3000 + 1499, 1024 * 3000 + 1500, 1024 * 3000 + 1501, 2048 * 3000, 1024 * 1000, 500 * 1000 * 1000, 1024 * 1024 * 1000}

MCRevealPeers == {[hash |-> "h1", addr |-> 1], [hash |-> "h1", addr |-> 2], [hash |-> "h2", addr |-> 1]}

FormatsInit ==
    /\ part \in {"bencode", "dht", "metainfo", "reveal"}
    /\ BencodeInit /\ WireInit /\ MetainfoInit /\ RevealInit
    /\ part # "dht" => sent = [type |-> "PingRequest", trans |-> Trans, node_id |-> [k \in 1 .. 20 |-> 1]]

FormatsNext ==
    /\ UNCHANGED part
    /\ \/ part = "bencode" /\ BencodeNext /\ UNCHANGED <<wireVars, metainfoVars, revealVars>>
       \/ part = "dht" /\ WireNext /\ UNCHANGED <<bencodeVars, metainfoVars, revealVars>>
       \/ part = "metainfo" /\ MetainfoNext /\ UNCHANGED <<bencodeVars, wireVars, revealVars>>
       \/ part = "reveal" /\ RevealNext /\ UNCHANGED <<bencodeVars, wireVars, metainfoVars>>

FormatsSpec == FormatsInit /\ [][FormatsNext]_<<part, bencodeVars, wireVars, metainfoVars, revealVars>>
=============================================================================
