------------------------- MODULE PeerManagerProofs -------------------------
(***************************************************************************)
(* The safety of PeerManager for any number of peers, sinks, added peers   *)
(* and any capacities.  What the map, the tasks and the consumer agree on  *)
(* is carried by the reports in flight: each is of the task its PeerInfo   *)
(* maps to, and the reports of a task are in the order of its life.        *)
(***************************************************************************)
EXTENDS PeerManager, FiniteSetTheorems, TLAPS

PeerStates == {"none", "adding", "poll", "idle", "write", "wrote", "forward",
               "removing", "failing", "ending", "gone"}
SinkStates == {"idle", "ready", "readying", "start", "flush", "flushing", "closing", "closed"}
Reports == [kind : {"added", "received", "sent", "removed", "error"}, task : PeerTasks]
Items == [kind : {"add", "remove", "send"}, peer : Peers, id : Nat]

(* The variables the safety of the manager is about have their types.       *)
PeerTypeOK ==
    /\ peers \in [Peers -> PeerTasks \cup {None}]
    /\ name \in [PeerTasks -> Peers \cup {None}]
    /\ peer_task \in [PeerTasks -> PeerStates]
    /\ peer_sink \in [Sinks -> SinkStates]
    /\ DOMAIN item = Sinks
    /\ adds \in 0 .. MaxAdds /\ ids \in Nat
    /\ peer_out \in Seq(Reports)
    /\ peer_hand \in Reports \cup {None}
    /\ view \in SUBSET Peers

(* The sink has a message that start_send has not taken yet.                *)
Sending(s) == peer_sink[s] \in {"ready", "readying", "start"}
Adding(s) == Sending(s) /\ item[s].kind = "add"

(* Each AddPeer has a task of its own, which does not run before start_send.*)
AddsAreFresh ==
    /\ \A s \in Sinks : Sending(s) => item[s] \in Items
    /\ \A t \in PeerTasks : t > adds => peer_task[t] = "none"
    /\ \A s \in Sinks : Adding(s) => item[s].id \in 1 .. adds /\ peer_task[item[s].id] = "none"
    /\ \A r, s \in Sinks : Adding(r) /\ Adding(s) /\ r # s => item[r].id # item[s].id

(* The map leads to this very task.                                         *)
Owner(t) == name[t] \in Peers /\ peers[name[t]] = t

(* The map and the names agree, on tasks that were spawned.                 *)
MapIsNamed ==
    /\ \A p \in Peers : peers[p] # None => name[peers[p]] = p /\ peer_task[peers[p]] # "none"
    /\ \A t \in PeerTasks : peer_task[t] \notin {"none", "ending", "gone"} => Owner(t)
    /\ Cardinality(Listed) <= MaxPeers

(* A report in flight is of a task the map leads to, and one that says the  *)
(* peer has ended is of a task that is about to.                            *)
Flies(m) ==
    /\ Owner(m.task)
    /\ peer_task[m.task] \notin {"none", "adding"}
    /\ Ends(m) => peer_task[m.task] \in {"ending", "gone"}

(* m may be followed by n: of one task, no report follows that of its end   *)
(* and none precedes that of its start.                                     *)
Precedes(m, n) == m.task = n.task => ~Ends(m) /\ n.kind # "added"

InFlight ==
    /\ \A i \in 1 .. Len(peer_out) : Flies(peer_out[i])
    /\ \A i, j \in 1 .. Len(peer_out) : i < j => Precedes(peer_out[i], peer_out[j])
    /\ peer_hand # None =>
          Flies(peer_hand) /\ \A i \in 1 .. Len(peer_out) : Precedes(peer_hand, peer_out[i])

(* The start of the task has not reached the consumer yet.                  *)
Unseen(t) ==
    \/ peer_task[t] = "adding"
    \/ \E i \in 1 .. Len(peer_out) : peer_out[i].task = t /\ peer_out[i].kind = "added"
    \/ peer_hand # None /\ peer_hand.task = t /\ peer_hand.kind = "added"

(* The consumer knows the peers of the map whose start was delivered.       *)
ViewIsMap ==
    /\ \A p \in view : peers[p] # None
    /\ \A t \in PeerTasks : Owner(t) => (name[t] \in view <=> ~Unseen(t))

PeerInv == PeerTypeOK /\ AddsAreFresh /\ MapIsNamed /\ InFlight /\ ViewIsMap

(* The variables PeerInv is about.                                          *)
mapView == <<peers, name, peer_task>>
sinkView == <<peer_sink, item, adds, ids>>
flowView == <<peer_out, peer_hand, view>>

-----------------------------------------------------------------------------
(* The bounds are numbers, a report is not None.                            *)
LEMMA PeerConstants ==
    /\ MaxPeers \in Nat /\ MaxAdds \in Nat
    /\ None \notin PeerTasks /\ None \notin Peers /\ None \notin Reports
  <1>1. Reports \subseteq [kind : {"added", "received", "sent", "removed", "error"}, task : Nat]
    BY DEF Reports, PeerTasks
  <1> QED
    BY <1>1, PeerAssumption DEF PeerTasks

(* The map lists finitely many tasks.                                       *)
LEMMA ListedIsFinite ==
    ASSUME PeerTypeOK
    PROVE  IsFiniteSet(Listed) /\ Cardinality(Listed) \in Nat
  <1>1. Listed \subseteq 1 .. MaxAdds
    BY DEF PeerTypeOK, Listed, PeerTasks
  <1>2. IsFiniteSet(1 .. MaxAdds)
    BY PeerConstants, FS_Interval
  <1> QED
    BY <1>1, <1>2, FS_Subset, FS_CardinalityType, Zenon

(* The task of an AddPeer that is being sent.                               *)
LEMMA AddedTask ==
    ASSUME PeerInv, NEW s \in Sinks, Adding(s)
    PROVE  item[s].id \in PeerTasks /\ peer_task[item[s].id] = "none"
  BY PeerConstants DEF PeerInv, PeerTypeOK, AddsAreFresh, PeerTasks

(* The stream leaves the sinks and the tasks alone.                         *)
LEMMA FreshStutter ==
    ASSUME AddsAreFresh, UNCHANGED <<peer_task, sinkView>>
    PROVE  AddsAreFresh'
  <1>1. \A s \in Sinks : (Sending(s)' <=> Sending(s)) /\ (Adding(s)' <=> Adding(s))
    BY DEF Sending, Adding, sinkView
  <1> QED
    BY <1>1 DEF AddsAreFresh, sinkView

(* What leaves the map and the tasks alone.                                 *)
LEMMA NamedStutter ==
    ASSUME MapIsNamed, UNCHANGED mapView
    PROVE  MapIsNamed'
  <1>1. Listed' = Listed /\ \A t \in PeerTasks : Owner(t)' <=> Owner(t)
    BY DEF Listed, Owner, mapView
  <1> QED
    BY <1>1 DEF MapIsNamed, mapView

(* What leaves the reports alone as well.                                   *)
LEMMA FlowStutter ==
    ASSUME InFlight, ViewIsMap, UNCHANGED <<mapView, flowView>>
    PROVE  InFlight' /\ ViewIsMap'
  <1>1. InFlight'
    BY DEF InFlight, Flies, Precedes, Owner, Ends, mapView, flowView
  <1>2. \A t \in PeerTasks : (Owner(t)' <=> Owner(t)) /\ (Unseen(t)' <=> Unseen(t))
    BY DEF Owner, Unseen, mapView, flowView
  <1>3. ViewIsMap'
    BY <1>2 DEF ViewIsMap, mapView, flowView
  <1> QED
    BY <1>1, <1>3

-----------------------------------------------------------------------------
(* A manager that was just built: nothing is listed and nothing in flight.  *)
LEMMA PeerInitialization == PeerInit => PeerInv
  <1> SUFFICES ASSUME PeerInit PROVE PeerInv
    OBVIOUS
  <1>1. PeerTypeOK
    BY PeerAssumption DEF PeerInit, PeerTypeOK, PeerStates, SinkStates
  <1>2. AddsAreFresh
    BY DEF PeerInit, AddsAreFresh, Sending, Adding
  <1>3. Listed = {}
    BY DEF PeerInit, Listed
  <1>4. MapIsNamed
    BY <1>3, FS_EmptySet, PeerAssumption DEF PeerInit, MapIsNamed
  <1>5. InFlight /\ ViewIsMap
    BY PeerAssumption DEF PeerInit, InFlight, ViewIsMap, Owner
  <1> QED
    BY <1>1, <1>2, <1>4, <1>5 DEF PeerInv

(* What leaves the variables of the invariant alone preserves it.           *)
LEMMA PeerStutter ==
    ASSUME PeerInv, UNCHANGED <<mapView, sinkView, flowView>>
    PROVE  PeerInv'
  <1>1. PeerTypeOK'
    BY DEF PeerInv, PeerTypeOK, mapView, sinkView, flowView
  <1>2. AddsAreFresh'
    BY FreshStutter DEF PeerInv, mapView
  <1> QED
    BY <1>1, <1>2, NamedStutter, FlowStutter DEF PeerInv

-----------------------------------------------------------------------------
(* The sinks *)

(* A sink that begins nothing, and takes no message to start_send, keeps    *)
(* the invariant.                                                           *)
LEMMA SinkMoves ==
    ASSUME PeerInv, NEW s \in Sinks, NEW l \in SinkStates,
           peer_sink' = [peer_sink EXCEPT ![s] = l],
           l \in {"ready", "readying", "start"} => Sending(s) /\ item'[s] = item[s],
           \A r \in Sinks \ {s} : item'[r] = item[r],
           DOMAIN item' = Sinks,
           UNCHANGED <<mapView, flowView, adds, ids>>
    PROVE  PeerInv'
  <1>1. PeerTypeOK'
    BY DEF PeerInv, PeerTypeOK, mapView, flowView
  <1>2. \A r \in Sinks : (Sending(r)' => Sending(r) /\ item'[r] = item[r]) /\ (Adding(r)' => Adding(r) /\ item'[r] = item[r])
    BY DEF PeerInv, PeerTypeOK, Sending, Adding
  <1>3. AddsAreFresh'
    BY <1>2 DEF PeerInv, AddsAreFresh, mapView
  <1>4. MapIsNamed' /\ InFlight' /\ ViewIsMap'
    BY NamedStutter, FlowStutter DEF PeerInv
  <1> QED
    BY <1>1, <1>3, <1>4 DEF PeerInv

(* A client begins a call.                                                  *)
LEMMA BeginStep ==
    ASSUME PeerInv, NEW s \in Sinks, Begin(s)
    PROVE  PeerInv'
  <1>1. PICK k \in Kinds \ {"close"}, p \in Peers :
          /\ k = "add" => adds < MaxAdds
          /\ adds' = IF k = "add" THEN adds + 1 ELSE adds
          /\ ids' = IF k = "send" THEN ids + 1 ELSE ids
          /\ item' = [item EXCEPT ![s] = 
                [kind |-> k, peer |-> p,
                 id |-> CASE k = "add" -> adds' [] k = "send" -> ids' [] OTHER -> Remove]]
    BY Zenon DEF Begin
  <1>2. /\ peer_sink' = [peer_sink EXCEPT ![s] = "ready"]
        /\ ~Sending(s)
        /\ UNCHANGED <<mapView, flowView>>
    BY DEF Begin, mapView, flowView, mapVars, peerTaskVars, outVars, peerStreamVars, Sending
  <1>3. k \in {"add", "remove", "send"}
    BY PeerAssumption
  <1>4. adds' \in 0 .. MaxAdds /\ ids' \in Nat /\ adds <= adds'
    BY <1>1, PeerAssumption DEF PeerInv, PeerTypeOK
  <1>5. PeerTypeOK'
    BY <1>1, <1>2, <1>4 DEF PeerInv, PeerTypeOK, SinkStates, mapView, flowView
  <1>6. item'[s] \in Items /\ (item'[s].kind = "add" <=> k = "add")
        /\ (k = "add" => item'[s].id = adds')
    BY <1>1, <1>3, <1>4 DEF PeerInv, PeerTypeOK, Items, Remove
  <1>7. \A r \in Sinks \ {s} : item'[r] = item[r] /\ Sending(r)' = Sending(r) /\ Adding(r)' = Adding(r)
    BY <1>1, <1>2 DEF PeerInv, PeerTypeOK, Sending, Adding
  <1>8. AddsAreFresh'
    <2>1. \A r \in Sinks : Sending(r)' => item'[r] \in Items
      BY <1>6, <1>7, Zenon DEF PeerInv, AddsAreFresh
    <2>2. \A t \in PeerTasks : t > adds' => peer_task'[t] = "none"
      BY <1>2, <1>4 DEF PeerInv, PeerTypeOK, AddsAreFresh, PeerTasks, mapView
    <2>3. Adding(s)' => item'[s].id = adds + 1 /\ adds + 1 = adds' /\ peer_task[adds + 1] = "none"
      BY <1>1, <1>4, <1>6 DEF PeerInv, PeerTypeOK, AddsAreFresh, PeerTasks, Adding
    <2>4. \A r \in Sinks \ {s} : Adding(r)' => item'[r].id \in 1 .. adds /\ peer_task[item'[r].id] = "none"
      BY <1>7 DEF PeerInv, AddsAreFresh
    <2>5. \A r \in Sinks : Adding(r)' => item'[r].id \in 1 .. adds' /\ peer_task'[item'[r].id] = "none"
      BY <1>2, <1>4, <2>3, <2>4 DEF PeerInv, PeerTypeOK, mapView
    <2>6. \A q, r \in Sinks : Adding(q)' /\ Adding(r)' /\ q # r => item'[q].id # item'[r].id
      BY <1>7, <2>3, <2>4 DEF PeerInv, PeerTypeOK, AddsAreFresh
    <2> QED
      BY <2>1, <2>2, <2>5, <2>6, Zenon DEF AddsAreFresh
  <1>9. MapIsNamed' /\ InFlight' /\ ViewIsMap'
    BY <1>2, NamedStutter, FlowStutter DEF PeerInv
  <1> QED
    BY <1>5, <1>8, <1>9 DEF PeerInv

(* add_peer with room in the map, for a PeerInfo that is not in it: the new *)
(* task is the one the map leads to.                                        *)
LEMMA SpawnStep ==
    ASSUME PeerInv, NEW s \in Sinks, NEW p \in Peers, NEW t \in PeerTasks,
           Adding(s), item[s].id = t,
           Cardinality(Listed) < MaxPeers, peers[p] = None,
           Spawn(s, p, t), item' = [item EXCEPT ![s] = None],
           UNCHANGED <<flowView, adds, ids>>
    PROVE  PeerInv'
  <1>1. peer_task[t] = "none" /\ t # None
    BY AddedTask, PeerConstants
  <1>2. PeerTypeOK'
    BY DEF PeerInv, PeerTypeOK, Spawn, Return, PeerStates, SinkStates, flowView
  <1>3. /\ peers' = [peers EXCEPT ![p] = t] /\ name' = [name EXCEPT ![t] = p]
        /\ peer_task' = [peer_task EXCEPT ![t] = "adding"]
        /\ peer_sink' = [peer_sink EXCEPT ![s] = "flush"]
    BY DEF Spawn, Return
  <1>4. ~Sending(s)' /\ \A r \in Sinks \ {s} :
           item'[r] = item[r] /\ Sending(r)' = Sending(r) /\ Adding(r)' = Adding(r)
    BY <1>3 DEF PeerInv, PeerTypeOK, Sending, Adding
  <1>5. AddsAreFresh'
    <2>1. \A r \in Sinks : Sending(r)' => item'[r] \in Items
      BY <1>4, Zenon DEF PeerInv, AddsAreFresh
    <2>2. \A u \in PeerTasks : u > adds' => peer_task'[u] = "none"
      BY <1>3 DEF PeerInv, PeerTypeOK, AddsAreFresh, PeerTasks
    <2>3. \A r \in Sinks : Adding(r)' => r # s /\ Adding(r) /\ item'[r] = item[r]
      BY <1>4 DEF Adding
    <2>4. \A r \in Sinks : Adding(r)' => item'[r].id \in 1 .. adds /\ peer_task'[item'[r].id] = "none"
      BY <1>3, <2>3, SMTT(40), Z3T(40) DEF PeerInv, PeerTypeOK, AddsAreFresh
    <2>5. \A q, r \in Sinks : Adding(q)' /\ Adding(r)' /\ q # r => item'[q].id # item'[r].id
      BY <2>3 DEF PeerInv, AddsAreFresh
    <2> QED
      BY <2>1, <2>2, <2>4, <2>5, Zenon DEF AddsAreFresh
  <1>6. Owner(t)' /\ \A u \in PeerTasks \ {t} : Owner(u)' = Owner(u) /\ peer_task'[u] = peer_task[u]
                                                /\ name'[u] = name[u]
    BY <1>1, <1>3, PeerAssumption DEF PeerInv, PeerTypeOK, Owner, PeerTasks
  <1>7. MapIsNamed'
    <2>1. \A q \in Peers : peers'[q] # None => name'[peers'[q]] = q /\ peer_task'[peers'[q]] # "none"
      BY <1>1, <1>3, ZenonT(30) DEF PeerInv, PeerTypeOK, MapIsNamed
    <2>2. \A u \in PeerTasks : peer_task'[u] \notin {"none", "ending", "gone"} => Owner(u)'
      BY <1>6 DEF PeerInv, MapIsNamed
    <2>3. Listed' = Listed \cup {t}
      BY <1>1, <1>3, Zenon DEF PeerInv, PeerTypeOK, Listed
    <2>4. IsFiniteSet(Listed) /\ Cardinality(Listed) \in Nat /\ t \notin Listed
      BY <1>1, ListedIsFinite DEF PeerInv, MapIsNamed, Listed
    <2>5. Cardinality(Listed \cup {t}) = Cardinality(Listed) + 1
      BY <2>4, FS_AddElement, Zenon
    <2>6. Cardinality(Listed') <= MaxPeers
      BY <2>3, <2>4, <2>5, PeerConstants, SMTT(40), Z3T(40)
    <2> QED
      BY <2>1, <2>2, <2>6 DEF MapIsNamed
  <1>8. \A m \in Reports : Flies(m) => m.task # t /\ Flies(m)'
    BY <1>1, <1>6, Zenon DEF Flies, Ends, Reports
  <1>9. InFlight'
    BY <1>8 DEF PeerInv, PeerTypeOK, InFlight, Precedes, Ends, flowView
  <1>10. ViewIsMap'
    <2>1. \A q \in view' : peers'[q] # None
      BY <1>1, <1>3 DEF PeerInv, PeerTypeOK, ViewIsMap, flowView
    <2>2. name'[t] = p /\ p \notin view' /\ Unseen(t)'
      BY <1>3, Zenon DEF PeerInv, PeerTypeOK, ViewIsMap, Unseen, flowView
    <2>3. \A u \in PeerTasks \ {t} : (Unseen(u)' <=> Unseen(u))
      BY <1>6 DEF Unseen, flowView
    <2> QED
      BY <1>6, <2>1, <2>2, <2>3, Zenon DEF PeerInv, ViewIsMap, flowView
  <1> QED
    BY <1>2, <1>5, <1>7, <1>9, <1>10, Zenon DEF PeerInv

(* start_send, in all its cases.                                            *)
LEMMA StartSendStep ==
    ASSUME PeerInv, NEW s \in Sinks, PeerStartSend(s)
    PROVE  PeerInv'
  <1>1. Sending(s) /\ item[s] \in Items /\ item' = [item EXCEPT ![s] = None]
        /\ UNCHANGED <<flowView, adds, ids>>
    BY DEF PeerStartSend, PeerInv, AddsAreFresh, Sending, flowView, outVars, peerStreamVars
  <1>2. ASSUME NEW ok \in BOOLEAN, Return(s, ok), UNCHANGED mapView
        PROVE  PeerInv'
    <2>1. PICK l \in {"flush", "idle"} : peer_sink' = [peer_sink EXCEPT ![s] = l]
      BY <1>2, Zenon DEF Return
    <2> QED
      BY <1>1, <1>2, <2>1, SinkMoves, Zenon DEF SinkStates, PeerInv, PeerTypeOK
  <1>3. CASE item[s].kind = "add" /\ AddPeer(s, item[s].peer, item[s].id)
    <2>1. item[s].id \in PeerTasks /\ item[s].peer \in Peers /\ Adding(s)
      BY <1>1, <1>3, AddedTask DEF Adding, Items
    <2>2. CASE Spawn(s, item[s].peer, item[s].id) /\ Cardinality(Listed) < MaxPeers /\ peers[item[s].peer] = None
      BY <1>1, <2>1, <2>2, SpawnStep, Zenon
    <2>3. CASE Return(s, FALSE) /\ UNCHANGED <<peers, name, peer_task>>
      BY <1>2, <2>3, Zenon DEF mapView
    <2> QED
      BY <1>3, <2>2, <2>3, Zenon DEF AddPeer
  <1>4. CASE Forward(s, item[s].peer, item[s].id) /\ UNCHANGED <<peers, name, peer_task>>
    <2>1. \E ok \in BOOLEAN : Return(s, ok)
      BY <1>4, Zenon DEF Forward
    <2> QED
      BY <1>2, <1>4, <2>1 DEF mapView
  <1>5. CASE Return(s, FALSE) /\ UNCHANGED <<peers, name, peer_task>>
    BY <1>2, <1>5, Zenon DEF mapView
  <1> QED
    BY <1>3, <1>4, <1>5, Zenon DEF PeerStartSend

(* poll_ready, poll_flush and poll_close change no peer.                    *)
LEMMA PollStep ==
    ASSUME PeerInv, NEW s \in Sinks, PollReady(s) \/ PeerPollFlush(s) \/ PollClose(s)
    PROVE  PeerInv'
  <1>1. UNCHANGED <<mapView, flowView, adds, ids>>
    BY Zenon DEF PollReady, PeerPollFlush, PollClose, mapView, flowView, peerTaskVars, outVars, peerStreamVars
  <1>2. CASE PollReady(s)
    <2>1. Sending(s)
      BY <1>2 DEF PollReady, Polled, Sending
    <2>2. \/ peer_sink' = [peer_sink EXCEPT ![s] = "idle"] /\ item' = [item EXCEPT ![s] = None]
          \/ \E l \in {"readying", "start"} : peer_sink' = [peer_sink EXCEPT ![s] = l] /\ item' = item
      BY <1>2, Zenon DEF PollReady, Park
    <2> QED
      BY <1>1, <2>1, <2>2, SinkMoves, Zenon DEF SinkStates, PeerInv, PeerTypeOK
  <1>3. CASE PeerPollFlush(s)
    <2>1. item' = item /\ \E l \in {"flushing", "idle"} : peer_sink' = [peer_sink EXCEPT ![s] = l]
      BY <1>3, Zenon DEF PeerPollFlush, Park
    <2> QED
      BY <1>1, <2>1, SinkMoves, Zenon DEF SinkStates, PeerInv, PeerTypeOK
  <1>4. CASE PollClose(s)
    <2>1. item' = item /\ \E l \in {"closed", "closing"} : peer_sink' = [peer_sink EXCEPT ![s] = l]
      BY <1>4, Zenon DEF PollClose
    <2> QED
      BY <1>1, <2>1, SinkMoves, Zenon DEF SinkStates, PeerInv, PeerTypeOK
  <1> QED
    BY <1>2, <1>3, <1>4

-----------------------------------------------------------------------------
(* The tasks *)

(* A task that has told of its start moves on without a report: to another  *)
(* place of its loop, or to its end.                                        *)
LEMMA TaskMoves ==
    ASSUME PeerInv, NEW t \in PeerTasks, NEW l \in PeerStates \ {"none", "adding"},
           peer_task[t] \notin {"none", "adding", "gone"},
           l \in {"ending", "gone"} \/ peer_task[t] # "ending",
           peer_task' = [peer_task EXCEPT ![t] = l],
           UNCHANGED <<peers, name, sinkView, flowView>>
    PROVE  PeerInv'
  <1>1. PeerTypeOK'
    BY DEF PeerInv, PeerTypeOK, sinkView, flowView
  <1>2. \A u \in PeerTasks : peer_task[u] = "none" <=> peer_task'[u] = "none"
    BY Zenon DEF PeerInv, PeerTypeOK
  <1>3. AddsAreFresh'
    <2>1. \A r \in Sinks : Sending(r)' = Sending(r) /\ Adding(r)' = Adding(r)
      BY DEF Sending, Adding, sinkView
    <2>2. \A r \in Sinks : Adding(r) => item[r].id \in PeerTasks
      BY AddedTask
    <2> QED
      BY <1>2, <2>1, <2>2 DEF PeerInv, AddsAreFresh, sinkView
  <1>4. \A u \in PeerTasks : Owner(u)' = Owner(u)
    BY DEF Owner
  <1>5. MapIsNamed'
    <2>1. \A p \in Peers : peers[p] # None => peers[p] \in PeerTasks
      BY DEF PeerInv, PeerTypeOK
    <2>2. \A u \in PeerTasks : peer_task'[u] \notin {"none", "ending", "gone"} =>
                                 peer_task[u] \notin {"none", "ending", "gone"}
      BY DEF PeerInv, PeerTypeOK
    <2>3. Listed' = Listed
      BY DEF Listed
    <2> QED
      BY <1>2, <1>4, <2>1, <2>2, <2>3 DEF PeerInv, MapIsNamed
  <1>6. \A m \in Reports : Flies(m) => Flies(m)'
    BY <1>4, Zenon DEF PeerInv, PeerTypeOK, Flies, Ends, Reports
  <1>7. InFlight'
    BY <1>6 DEF PeerInv, PeerTypeOK, InFlight, Precedes, Ends, flowView
  <1>8. \A u \in PeerTasks : (Unseen(u)' <=> Unseen(u))
    BY Zenon DEF PeerInv, PeerTypeOK, Unseen, flowView
  <1>9. ViewIsMap'
    BY <1>4, <1>8 DEF PeerInv, ViewIsMap, flowView
  <1> QED
    BY <1>1, <1>3, <1>5, <1>7, <1>9, Zenon DEF PeerInv

(* A task reports: first that it was added, last that it ends.              *)
LEMMA TaskTells ==
    ASSUME PeerInv, NEW t \in PeerTasks,
           NEW kind \in {"added", "received", "sent", "removed", "error"},
           NEW next \in PeerStates \ {"none", "adding"},
           Tell(t, kind, next),
           peer_task[t] \notin {"none", "ending", "gone"},
           kind = "added" <=> peer_task[t] = "adding",
           kind \in {"removed", "error"} <=> next \in {"ending", "gone"},
           UNCHANGED <<peers, name, sinkView, peer_hand, view>>
    PROVE  PeerInv'
  <1> DEFINE m == [kind |-> kind, task |-> t]
             n == Len(peer_out)
  <1>1. /\ peer_out' = Append(peer_out, m)
        /\ peer_task' = [peer_task EXCEPT ![t] = next]
    BY DEF Tell, Goto
  <1>2. m \in Reports /\ m.task = t /\ m.kind = kind /\ (Ends(m) <=> next \in {"ending", "gone"})
    BY DEF Reports, Ends
  <1>3. n \in Nat /\ peer_out \in Seq(Reports)
    BY DEF PeerInv, PeerTypeOK
  <1>4. /\ Len(peer_out') = n + 1 /\ peer_out'[n + 1] = m
        /\ \A i \in 1 .. n : peer_out'[i] = peer_out[i] /\ peer_out[i] \in Reports
    BY <1>1, <1>2, <1>3
  <1> HIDE DEF m, n
  <1>5. PeerTypeOK'
    BY <1>1, <1>2, <1>3 DEF PeerInv, PeerTypeOK, sinkView
  <1>6. \A u \in PeerTasks : peer_task[u] = "none" <=> peer_task'[u] = "none"
    BY <1>1, Zenon DEF PeerInv, PeerTypeOK
  <1>7. AddsAreFresh'
    <2>1. \A r \in Sinks : Sending(r)' = Sending(r) /\ Adding(r)' = Adding(r)
      BY DEF Sending, Adding, sinkView
    <2>2. \A r \in Sinks : Adding(r) => item[r].id \in PeerTasks
      BY AddedTask, Zenon
    <2> QED
      BY <1>6, <2>1, <2>2, Zenon DEF PeerInv, AddsAreFresh, sinkView
  <1>8. Owner(t) /\ \A u \in PeerTasks : Owner(u)' = Owner(u)
    BY Zenon DEF Owner, PeerInv, MapIsNamed
  <1>9. MapIsNamed'
    <2>1. \A p \in Peers : peers[p] # None => peers[p] \in PeerTasks
      BY DEF PeerInv, PeerTypeOK
    <2>2. \A u \in PeerTasks : peer_task'[u] \notin {"none", "ending", "gone"} =>
                                 peer_task[u] \notin {"none", "ending", "gone"}
      BY <1>1, Zenon DEF PeerInv, PeerTypeOK
    <2>3. Listed' = Listed
      BY ZenonT(60) DEF Listed
    <2> QED
      BY <1>6, <1>8, <2>1, <2>2, <2>3, Zenon DEF PeerInv, MapIsNamed
  <1>10. \A r \in Reports : Flies(r) => Flies(r)' /\ Precedes(r, m)
    BY <1>1, <1>2, <1>8 DEF PeerInv, PeerTypeOK, Flies, Precedes, Ends, Reports
  <1>11. Flies(m)'
    BY <1>1, <1>2, <1>8 DEF PeerInv, PeerTypeOK, Flies, Ends
  <1>12. InFlight'
    <2>1. \A i \in 1 .. n : Flies(peer_out[i])' /\ Precedes(peer_out[i], m)
      BY <1>4, <1>10, ZenonT(30) DEF PeerInv, InFlight, n
    <2>2. \A i \in 1 .. Len(peer_out') : Flies(peer_out[i])'
      BY <1>3, <1>4, <1>11, <2>1 DEF Flies, Ends
    <2>3. \A i, j \in 1 .. Len(peer_out') : i < j => Precedes(peer_out[i], peer_out[j])'
      <3> SUFFICES ASSUME NEW i \in 1 .. n + 1, NEW j \in 1 .. n + 1, i < j
                   PROVE  Precedes(peer_out'[i], peer_out'[j])
        BY <1>4 DEF Precedes, Ends
      <3>1. i \in 1 .. n /\ peer_out'[i] = peer_out[i]
        BY <1>3, <1>4
      <3>2. CASE j = n + 1
        BY <1>4, <2>1, <3>1, <3>2, Zenon
      <3>3. CASE j \in 1 .. n
        BY <1>4, <3>1, <3>3, ZenonT(30) DEF PeerInv, InFlight, n
      <3> QED
        BY <1>3, <3>2, <3>3, SMTT(40), Z3T(40)
    <2>4. ASSUME peer_hand # None
          PROVE  Flies(peer_hand)' /\ \A i \in 1 .. Len(peer_out') : Precedes(peer_hand, peer_out[i])'
      <3>1. PICK h \in Reports : h = peer_hand
        BY <2>4 DEF PeerInv, PeerTypeOK
      <3>2. Flies(h) /\ \A i \in 1 .. n : Precedes(h, peer_out[i])
        BY <2>4, <3>1 DEF PeerInv, InFlight, n
      <3>3. Flies(h)' /\ Precedes(h, m)
        BY <1>10, <3>2
      <3>4. \A i \in 1 .. n + 1 : Precedes(h, peer_out'[i])
        BY <1>3, <1>4, <3>2, <3>3
      <3> QED
        BY <1>4, <3>1, <3>3, <3>4, ZenonT(30) DEF Flies, Owner, Precedes, Ends
    <2> QED
      BY <2>2, <2>3, <2>4, ZenonT(30) DEF InFlight
  <1>13. \A u \in PeerTasks : (Unseen(u)' <=> Unseen(u))
    <2>1. \A u \in PeerTasks \ {t} : (Unseen(u)' <=> Unseen(u))
      BY <1>1, <1>2, <1>3, <1>4, SMTT(40), Z3T(40) DEF PeerInv, PeerTypeOK, Unseen, n
    <2>2. ASSUME kind = "added" PROVE Unseen(t) /\ Unseen(t)'
      <3>1. n + 1 \in 1 .. Len(peer_out') /\ peer_out'[n + 1].task = t /\ peer_out'[n + 1].kind = "added"
        BY <1>2, <1>3, <1>4, <2>2, SMTT(40), Z3T(40)
      <3> QED
        BY <2>2, <3>1, Zenon DEF Unseen
    <2>3. ASSUME kind # "added" PROVE (Unseen(t)' <=> Unseen(t))
      BY <1>1, <1>2, <1>3, <1>4, <2>3, SMTT(40), Z3T(40) DEF PeerInv, PeerTypeOK, Unseen, n
    <2> QED
      BY <2>1, <2>2, <2>3, ZenonT(30)
  <1>14. ViewIsMap'
    BY <1>8, <1>13 DEF PeerInv, ViewIsMap
  <1> QED
    BY <1>5, <1>7, <1>9, <1>12, <1>14, Zenon DEF PeerInv

(* Every step of the task of a peer, of its connection and of its clock.    *)
LEMMA TaskStep ==
    ASSUME PeerInv, NEW t \in PeerTasks,
           PeerTaskStep(t) \/ WriteFails(t) \/ Arrives(t) \/ DeadlinePasses(t)
    PROVE  PeerInv'
  <1> USE DEF mapVars, clientVars, peerTaskVars, outVars, peerStreamVars, sinkView, flowView
  <1>1. ASSUME NEW l \in PeerStates \ {"none", "adding"}, Goto(t, l),
               peer_task[t] \in {"poll", "idle", "write", "ending"}, l = "gone" \/ peer_task[t] # "ending",
               UNCHANGED <<peers, name, sinkView, flowView>>
        PROVE  PeerInv'
    BY <1>1, TaskMoves, Zenon DEF Goto
  <1>2. ASSUME End(t), peer_task[t] \in {"poll", "idle", "write", "ending"}
        PROVE  PeerInv'
    BY <1>1, <1>2, Zenon DEF End, PeerStates
  <1>3. ASSUME NEW kind \in {"added", "received", "sent", "removed", "error"},
               Tell(t, kind, IF kind \in {"removed", "error"} THEN "ending" ELSE "poll"),
               peer_task[t] \in {"adding", "forward", "removing", "failing", "wrote"},
               kind = "added" <=> peer_task[t] = "adding",
               UNCHANGED <<peers, name, sinkView, peer_hand, view>>
        PROVE  PeerInv'
    BY <1>3, TaskTells DEF PeerStates
  <1>4. Polling(t) => peer_task[t] \in {"poll", "idle"}
    BY DEF Polling, At
  <1>5. CASE TellAdded(t)
    BY <1>3, <1>5, ZenonT(30) DEF TellAdded, At
  <1>6. CASE TakeInput(t)
    BY <1>1, <1>4, <1>6, Zenon DEF TakeInput, PeerStates, Unpark
  <1>7. CASE TakePeer(t)
    BY <1>1, <1>4, <1>7 DEF TakePeer, PeerStates
  <1>8. CASE Disconnected(t)
    BY <1>2, <1>4, <1>8, Zenon DEF Disconnected
  <1>9. CASE Timeout(t)
    BY <1>1, <1>4, <1>9, Zenon DEF Timeout, PeerStates
  <1>10. CASE Pending(t)
    BY <1>1, <1>10, Zenon DEF Pending, At, PeerStates
  <1>11. CASE TellReceived(t)
    BY <1>3, <1>11, Zenon DEF TellReceived, At
  <1>12. CASE TellRemoved(t)
    BY <1>3, <1>12, Zenon DEF TellRemoved, At
  <1>13. CASE TellError(t)
    BY <1>3, <1>13 DEF TellError, At
  <1>14. CASE TaskEnds(t) \/ WriteFails(t)
    BY <1>2, <1>14 DEF TaskEnds, WriteFails, At
  <1>15. CASE Write(t)
    BY <1>1, <1>15, Zenon DEF Write, At, PeerStates
  <1>16. CASE TellSent(t)
    BY <1>3, <1>16, ZenonT(30) DEF TellSent, At
  <1>17. CASE Arrives(t) \/ DeadlinePasses(t)
    BY <1>17, PeerStutter DEF Arrives, DeadlinePasses, mapView
  <1> QED
    BY <1>5, <1>6, <1>7, <1>8, <1>9, <1>10, <1>11, <1>12, <1>13, <1>14, <1>15, <1>16, <1>17, ZenonT(60)
       DEF PeerTaskStep

-----------------------------------------------------------------------------
(* The stream *)

(* poll_next takes the oldest report.                                       *)
LEMMA RecvStep ==
    ASSUME PeerInv, PeerRecv
    PROVE  PeerInv'
  <1> DEFINE n == Len(peer_out)
  <1>1. peer_hand = None /\ peer_out # << >> /\ peer_hand' = Head(peer_out) /\ peer_out' = Tail(peer_out)
    BY DEF PeerRecv
  <1>2. UNCHANGED <<mapView, sinkView, view>>
    BY DEF PeerRecv, mapVars, clientVars, peerTaskVars, mapView, sinkView
  <1>3. /\ n \in Nat /\ n >= 1 /\ peer_out \in Seq(Reports)
        /\ peer_hand' = peer_out[1] /\ peer_hand' \in Reports
        /\ peer_out' \in Seq(Reports) /\ Len(peer_out') = n - 1
        /\ \A i \in 1 .. n - 1 : peer_out'[i] = peer_out[i + 1]
    BY <1>1, SMTT(40), Z3T(40) DEF PeerInv, PeerTypeOK
  <1> HIDE DEF n
  <1>4. PeerTypeOK'
    BY <1>2, <1>3 DEF PeerInv, PeerTypeOK, mapView, sinkView
  <1>5. AddsAreFresh' /\ MapIsNamed'
    BY <1>2, FreshStutter, NamedStutter, ZenonT(30) DEF PeerInv, mapView
  <1>6. InFlight'
    <2>1. \A i \in 1 .. n : Flies(peer_out[i])
      BY Zenon DEF PeerInv, InFlight, n
    <2>3. \A i \in 1 .. n - 1 : Flies(peer_out'[i]) /\ Precedes(peer_out[1], peer_out'[i])
      BY <1>3, <2>1 DEF PeerInv, InFlight, n
    <2>4. \A i, j \in 1 .. n - 1 : i < j => Precedes(peer_out'[i], peer_out'[j])
      BY <1>3, SMTT(40), Z3T(40) DEF PeerInv, InFlight, n
    <2>5. \A i \in 1 .. n - 1 : Flies(peer_out[i])' /\ Precedes(peer_hand, peer_out[i])'
      BY <1>2, <1>3, <2>3 DEF Flies, Precedes, Owner, Ends, mapView
    <2>6. \A i, j \in 1 .. n - 1 : i < j => Precedes(peer_out[i], peer_out[j])'
      BY <2>4, ZenonT(30) DEF Precedes, Ends
    <2>7. Flies(peer_hand)'
      <3>1. PICK h : h = peer_out[1] /\ Flies(h)
        BY <1>3, <2>1
      <3>2. peer_hand' = h /\ peers' = peers /\ name' = name /\ peer_task' = peer_task
        BY <1>2, <1>3, <3>1, ZenonT(30) DEF mapView
      <3> QED
        BY <3>1, <3>2, ZenonT(30) DEF Flies, Owner, Ends
    <2> QED
      BY <1>3, <2>5, <2>6, <2>7, ZenonT(30) DEF InFlight
  <1>7. \A t \in PeerTasks : (Unseen(t)' <=> Unseen(t))
    <2>1. peer_hand' # None
      BY <1>3, PeerConstants
    <2> SUFFICES ASSUME NEW t \in PeerTasks PROVE (Unseen(t)' <=> Unseen(t))
      OBVIOUS
    <2>2. (\E i \in 1 .. n : peer_out[i].task = t /\ peer_out[i].kind = "added") <=>
            \/ \E i \in 1 .. n - 1 : peer_out'[i].task = t /\ peer_out'[i].kind = "added"
            \/ peer_out[1].task = t /\ peer_out[1].kind = "added"
      <3>1. \A i \in 1 .. n : i = 1 \/ (i - 1 \in 1 .. n - 1 /\ peer_out'[i - 1] = peer_out[i])
        BY <1>3
      <3>2. \A i \in 1 .. n - 1 : i + 1 \in 1 .. n /\ peer_out'[i] = peer_out[i + 1]
        BY <1>3
      <3>3. 1 \in 1 .. n
        BY <1>3
      <3>4. ASSUME NEW i \in 1 .. n, peer_out[i].task = t, peer_out[i].kind = "added", i # 1
            PROVE  \E k \in 1 .. n - 1 : peer_out'[k].task = t /\ peer_out'[k].kind = "added"
        BY <3>1, <3>4
      <3>5. ASSUME NEW i \in 1 .. n - 1, peer_out'[i].task = t, peer_out'[i].kind = "added"
            PROVE  \E k \in 1 .. n : peer_out[k].task = t /\ peer_out[k].kind = "added"
        BY <3>2, <3>5, ZenonT(30)
      <3> QED
        BY <3>3, <3>4, <3>5
    <2> QED
      BY <1>1, <1>2, <1>3, <2>1, <2>2 DEF Unseen, mapView, n
  <1>8. ViewIsMap'
    BY <1>2, <1>7, ZenonT(30) DEF PeerInv, ViewIsMap, Owner, mapView
  <1> QED
    BY <1>4, <1>5, <1>6, <1>8 DEF PeerInv

(* The report is handed on, the peer that ended struck off the map.         *)
LEMMA DeliverStep ==
    ASSUME PeerInv, Deliver
    PROVE  PeerInv'
  <1>1. /\ peer_hand # None /\ peer_hand' = None
        /\ UNCHANGED <<name, peer_task, sinkView, peer_out>>
    BY ZenonT(30) DEF Deliver, clientVars, peerTaskVars, outVars, sinkView
  <1>2. PICK t \in PeerTasks, p \in Peers :
          peer_hand \in Reports /\ t = peer_hand.task /\ p = name[t] /\ peers[p] = t /\ Flies(peer_hand)
    BY <1>1 DEF PeerInv, PeerTypeOK, InFlight, Flies, Owner, Reports
  <1>3. \A i \in 1 .. Len(peer_out) :
           peer_out[i] \in Reports /\ Flies(peer_out[i]) /\ Precedes(peer_hand, peer_out[i])
    BY <1>1 DEF PeerInv, PeerTypeOK, InFlight
  <1>4. t # None /\ ~Unseen(t)'
    BY <1>1, <1>2, <1>3, PeerConstants, Zenon DEF Unseen, Precedes, Flies
  <1>5. \A u \in PeerTasks \ {t} : (Unseen(u)' <=> Unseen(u)) /\ (Owner(u) => name[u] # p)
    BY <1>1, <1>2, Zenon DEF Unseen, Owner
  <1>6. ASSUME UNCHANGED peers, view' \in SUBSET Peers
        PROVE  PeerTypeOK' /\ AddsAreFresh' /\ MapIsNamed' /\ InFlight'
    <2>1. PeerTypeOK'
      BY <1>1, <1>6 DEF PeerInv, PeerTypeOK, sinkView
    <2>2. AddsAreFresh' /\ MapIsNamed'
      BY <1>1, <1>6, FreshStutter, NamedStutter, Zenon DEF PeerInv, mapView
    <2>3. InFlight'
      BY <1>1, <1>6, Zenon DEF PeerInv, InFlight, Flies, Precedes, Owner, Ends
    <2> QED
      BY <2>1, <2>2, <2>3
  <1>7. CASE ~Ends(peer_hand) /\ view' = view \cup {p} /\ UNCHANGED peers
    <2>1. view' \in SUBSET Peers
      BY <1>7, Zenon DEF PeerInv, PeerTypeOK
    <2>2. \A q \in view' : peers'[q] # None
      BY <1>2, <1>4, <1>7, ZenonT(60) DEF PeerInv, ViewIsMap
    <2>3. \A u \in PeerTasks : Owner(u)' = Owner(u)
      BY <1>1, <1>7 DEF Owner
    <2>4. \A u \in PeerTasks \ {t} : Owner(u) => (name[u] \in view' <=> name[u] \in view)
      BY <1>5, <1>7, Zenon
    <2>5. ViewIsMap'
      BY <1>1, <1>2, <1>4, <1>5, <1>7, <2>2, <2>3, <2>4, ZenonT(60) DEF PeerInv, ViewIsMap
    <2> QED
      BY <1>6, <1>7, <2>1, <2>5 DEF PeerInv
  <1>8. CASE Ends(peer_hand) /\ UNCHANGED <<peers, view>>
    <2>1. ~Unseen(t)
      BY <1>2, <1>3, <1>8 DEF Unseen, Precedes, Flies, Ends
    <2>2. \A u \in PeerTasks : Owner(u)' = Owner(u)
      BY <1>1, <1>8, Zenon DEF Owner
    <2>3. ViewIsMap'
      BY <1>1, <1>4, <1>5, <1>8, <2>1, <2>2, Zenon DEF PeerInv, ViewIsMap
    <2> QED
      BY <1>6, <1>8, <2>3, ZenonT(30) DEF PeerInv, PeerTypeOK
  <1>9. CASE Ends(peer_hand) /\ peers' = [peers EXCEPT ![p] = None] /\ view' = view \ {p}
    <2>1. PeerTypeOK'
      BY <1>1, <1>9 DEF PeerInv, PeerTypeOK, sinkView
    <2>2. AddsAreFresh'
      BY <1>1, FreshStutter, Zenon DEF PeerInv
    <2>3. \A u \in PeerTasks \ {t} : Owner(u)' = Owner(u)
      BY <1>1, <1>2, <1>9, PeerConstants DEF PeerInv, PeerTypeOK, Owner
    <2>4. ~Owner(t)' /\ peer_task[t] \in {"ending", "gone"}
      BY <1>1, <1>2, <1>4, <1>9, ZenonT(30) DEF PeerInv, PeerTypeOK, Owner, Flies
    <2>5. MapIsNamed'
      <3>1. \A q \in Peers : peers'[q] # None => peers'[q] = peers[q]
        BY <1>2, <1>9 DEF PeerInv, PeerTypeOK
      <3>2. Listed' \subseteq Listed
        BY <3>1 DEF Listed
      <3>3. Cardinality(Listed') <= Cardinality(Listed) /\ Cardinality(Listed) \in Nat /\ Cardinality(Listed') \in Nat
        BY <3>2, ListedIsFinite, FS_Subset, FS_CardinalityType, Zenon DEF PeerInv
      <3>4. Cardinality(Listed') <= MaxPeers
        BY <3>3, PeerConstants, SMTT(40), Z3T(40) DEF PeerInv, MapIsNamed
      <3>5. \A q \in Peers : peers'[q] # None => name'[peers'[q]] = q /\ peer_task'[peers'[q]] # "none"
        BY <1>1, <3>1, Zenon DEF PeerInv, MapIsNamed
      <3>6. \A u \in PeerTasks : peer_task'[u] \notin {"none", "ending", "gone"} => Owner(u)'
        BY <1>1, <2>3, <2>4 DEF PeerInv, MapIsNamed
      <3> QED
        BY <3>4, <3>5, <3>6, Zenon DEF MapIsNamed
    <2>6. \A i \in 1 .. Len(peer_out) : peer_out[i].task \in PeerTasks \ {t}
      BY <1>2, <1>3, <1>9, ZenonT(30) DEF Precedes, Reports
    <2>7. \A i \in 1 .. Len(peer_out) : Flies(peer_out[i])'
      <3> SUFFICES ASSUME NEW i \in 1 .. Len(peer_out) PROVE Flies(peer_out[i])'
        OBVIOUS
      <3>1. PICK m \in Reports : m = peer_out[i]
        BY <1>3
      <3>2. Owner(m.task)'
        BY <1>3, <2>3, <2>6, <3>1, Zenon DEF Flies
      <3> QED
        BY <1>1, <1>3, <3>1, <3>2 DEF Flies, Owner, Ends
    <2>8. InFlight'
      BY <1>1, <2>7, Zenon DEF PeerInv, InFlight, Precedes, Ends
    <2>9. \A q \in view' : peers'[q] # None
      BY <1>2, <1>9 DEF PeerInv, PeerTypeOK, ViewIsMap
    <2>10. \A u \in PeerTasks \ {t} : Owner(u) => (name[u] \in view' <=> name[u] \in view)
      BY <1>5, <1>9, Zenon
    <2>11. ViewIsMap'
      BY <1>1, <1>5, <2>3, <2>4, <2>9, <2>10, Zenon DEF PeerInv, ViewIsMap
    <2> QED
      BY <2>1, <2>2, <2>5, <2>8, <2>11, Zenon DEF PeerInv
  <1> QED
    BY <1>2, <1>7, <1>8, <1>9, ZenonT(30) DEF Deliver

-----------------------------------------------------------------------------
(* Whatever the interleaving of the sinks, the tasks, the connections and   *)
(* the consumer, PeerInv is preserved.                                      *)
THEOREM PeerPreservation == PeerInv /\ [PeerNext]_peerVars => PeerInv'
  <1> SUFFICES ASSUME PeerInv, [PeerNext]_peerVars PROVE PeerInv'
    OBVIOUS
  <1>1. ASSUME NEW s \in Sinks,
               Begin(s) \/ PollReady(s) \/ PeerStartSend(s) \/ PeerPollFlush(s) \/ PollClose(s)
        PROVE  PeerInv'
    BY <1>1, BeginStep, PollStep, StartSendStep
  <1>2. ASSUME NEW t \in PeerTasks,
               PeerTaskStep(t) \/ WriteFails(t) \/ Arrives(t) \/ DeadlinePasses(t)
        PROVE  PeerInv'
    BY <1>2, TaskStep
  <1>3. CASE PeerStreamStep
    BY <1>3, RecvStep, DeliverStep, Zenon DEF PeerStreamStep
  <1>4. CASE UNCHANGED peerVars
    BY <1>4, PeerStutter DEF peerVars, mapVars, clientVars, peerTaskVars, outVars, peerStreamVars,
                             mapView, sinkView, flowView
  <1> QED
    BY <1>1, <1>2, <1>3, <1>4 DEF PeerNext

(* The inductive invariant holds in every state the manager reaches.        *)
THEOREM PeerInvariance == PeerSpec => []PeerInv
  BY PeerInitialization, PeerPreservation, PTL DEF PeerSpec

(* Every task that runs is the one its PeerInfo leads to, and there are at  *)
(* most peer_capacity of them, whatever start_send, run_peer and poll_next  *)
(* do in between.                                                           *)
THEOREM RunningTasksAreListed == PeerSpec => []RunningIsListed
  <1>1. PeerInv => RunningIsListed
    BY ZenonT(30) DEF PeerInv, MapIsNamed, RunningIsListed, PeerLive, Owner
  <1> QED
    BY <1>1, PeerInvariance, PTL

(* poll_next strikes the reporting task off the map and never one of the    *)
(* same name that was added later.                                          *)
THEOREM TheRightPeerIsStruck == PeerSpec => []StrikesTheRightPeer
  <1>1. PeerInv => StrikesTheRightPeer
    BY ZenonT(30) DEF PeerInv, InFlight, Flies, StrikesTheRightPeer, Owner
  <1> QED
    BY <1>1, PeerInvariance, PTL

(* For each peer the consumer sees the start, the traffic and the end of a  *)
(* task, in this order, before anything of the next task of that name.      *)
THEOREM LivesAreSeenInOrder == PeerSpec => []SeenInOrder
  <1>1. PeerInv => SeenInOrder
    <2> SUFFICES ASSUME PeerInv, peer_hand # None
                 PROVE  peer_hand.kind = "added" <=> name[peer_hand.task] \notin view
      BY DEF SeenInOrder
    <2>1. peer_hand \in Reports /\ Flies(peer_hand) /\ Owner(peer_hand.task) /\ peer_hand.task \in PeerTasks
      BY Zenon DEF PeerInv, PeerTypeOK, InFlight, Flies, Reports
    <2>2. peer_hand.kind = "added" <=> Unseen(peer_hand.task)
      BY <2>1 DEF PeerInv, InFlight, Unseen, Flies, Precedes
    <2> QED
      BY <2>1, <2>2, Zenon DEF PeerInv, ViewIsMap
  <1> QED
    BY <1>1, PeerInvariance, PTL
=============================================================================
