---------------------------- MODULE PeerManager ----------------------------
(***************************************************************************)
(* torrust-peer's PeerManager: clones of the sink that share the map of    *)
(* peers, one task per added peer (run_peer) between the map's channel and *)
(* the connection, and the stream that takes what the tasks report and     *)
(* strikes peers that ended off the map.  The map is behind a mutex that   *)
(* everyone only tries to lock.                                            *)
(*                                                                         *)
(* A poll is one step.  The consumer keeps the stream, so that a report    *)
(* never fails.                                                            *)
(***************************************************************************)
EXTENDS Integers, Sequences, FiniteSets

CONSTANTS
    Peers,           \* the PeerInfos
    Sinks,           \* owners of the clones of PeerManagerSink
    MaxPeers,        \* peer_capacity
    SinkCapacity,    \* sink_buffer_capacity
    PeerStreamCapacity, \* stream_buffer_capacity
    MaxAdds,         \* bound: AddPeer messages
    MaxSends,        \* bound: SendMessage messages
    Kinds,           \* what the clients do: of {"add", "remove", "send", "close"}
    Events,          \* what happens: of {"msg", "error", "end", "broken", "late"}
    None

ASSUME PeerAssumption ==
    /\ {MaxPeers, SinkCapacity, PeerStreamCapacity, MaxAdds, MaxSends} \subseteq Nat
    /\ Kinds \subseteq {"add", "remove", "send", "close"}
    /\ Events \subseteq {"msg", "error", "end", "broken", "late"}
    /\ None \notin Peers \cup Sinks \cup Nat
    /\ None \notin [kind : {"added", "received", "sent", "removed", "error"}, task : Nat]

VARIABLES
    peers,      \* the map: the task whose sender each PeerInfo has
    name,       \* the PeerInfo of each task
    in,         \* channel from the map to each task: message ids, or Remove
    full,       \* tasks whose sender in the map is parked
    waiter,     \* the one waker that such a sender keeps
    shut,       \* tasks whose sender was closed or dropped
    peer_sink, item, \* where each sink is, and the message it sends
    peer_awake, \* sinks that wait and were woken
    adds, ids,  \* AddPeers and SendMessages begun so far
    peer_task,  \* where each task is
    writing,    \* the message id the task has taken to write
    wire,       \* what the connection has for the task
    due,        \* tasks whose heartbeat deadline has passed
    peer_out,   \* channel from the tasks to the stream
    peer_parked, \* tasks waiting in a send on it
    peer_hand,  \* the report poll_next has taken
    accepted,   \* history: ids whose start_send returned Ok
    settled,    \* history: ids reported as sent, or lost with their task
    view        \* history: peers the consumer was told of

mapVars == <<peers, name, in, full, waiter, shut>>
clientVars == <<peer_sink, item, peer_awake, adds, ids, accepted>>
peerTaskVars == <<peer_task, writing, wire, due>>
outVars == <<peer_out, peer_parked>>
peerStreamVars == <<peer_hand, view>>
peerVars == <<mapVars, clientVars, peerTaskVars, outVars, peerStreamVars, settled>>

PeerTasks == 1 .. MaxAdds
Ids == 1 .. MaxSends
Remove == 0
KeepAlive == 0
PeerInit ==
    /\ peers = [p \in Peers |-> None]
    /\ name = [t \in PeerTasks |-> None]
    /\ in = [t \in PeerTasks |-> << >>]
    /\ full = {} /\ shut = {}
    /\ waiter = [t \in PeerTasks |-> None]
    /\ peer_sink = [s \in Sinks |-> "idle"]
    /\ item = [s \in Sinks |-> None]
    /\ peer_awake = {}
    /\ adds = 0 /\ ids = 0
    /\ peer_task = [t \in PeerTasks |-> "none"]
    /\ writing = [t \in PeerTasks |-> KeepAlive]
    /\ wire = [t \in PeerTasks |-> "quiet"]
    /\ due = {}
    /\ peer_out = << >> /\ peer_parked = << >>
    /\ peer_hand = None
    /\ accepted = {} /\ settled = {}
    /\ view = {}

Listed == {peers[p] : p \in Peers} \ {None}
PeerLive == {t \in PeerTasks : peer_task[t] \notin {"none", "gone"}}

(* The receiver is gone, or poll_close has disconnected the sender.         *)
Dead(t) == t \notin PeerLive \/ t \in shut

(* The report says that the peer has ended.                                 *)
Ends(m) == m.kind \in {"removed", "error"}

(* A sink between the begin and the end of a client's call.                 *)
Busy(s) == peer_sink[s] \notin {"idle", "closed"}

(* Someone else may hold the lock on the map at this moment.                *)
Contended(s) == (peer_hand # None /\ Ends(peer_hand)) \/ \E r \in Sinks \ {s} : Busy(r)

-----------------------------------------------------------------------------
(* The sink.  A client sends with SinkExt::send: poll_ready, start_send and *)
(* poll_flush, up to the first error.                                       *)

Begin(s) ==
    /\ peer_sink[s] = "idle"
    /\ \E k \in Kinds \ {"close"}, p \in Peers :
          /\ k = "add" => adds < MaxAdds
          /\ k = "send" => ids < MaxSends
          /\ adds' = IF k = "add" THEN adds + 1 ELSE adds
          /\ ids' = IF k = "send" THEN ids + 1 ELSE ids
          /\ item' = [item EXCEPT ![s] =
                [kind |-> k, peer |-> p, id |-> CASE k = "add" -> adds' [] k = "send" -> ids' [] OTHER -> Remove]]
    /\ peer_sink' = [peer_sink EXCEPT ![s] = "ready"]
    /\ UNCHANGED <<mapVars, peer_awake, accepted, peerTaskVars, outVars, peerStreamVars, settled>>

(* The sink is polled when its call begins and whenever it is woken.        *)
Polled(s, first, again) == peer_sink[s] = first \/ (peer_sink[s] = again /\ s \in peer_awake)

(* A poll stops at a sender that is parked and leaves its waker there.      *)
Park(s, where) ==
    \E t \in Listed \cap full :
        /\ ~Dead(t)
        /\ waiter' = [waiter EXCEPT ![t] = s]
        /\ peer_sink' = [peer_sink EXCEPT ![s] = where]

(* poll_ready goes through the senders of the map in any order.             *)
PollReady(s) ==
    /\ Polled(s, "ready", "readying")
    /\ \/ /\ \E t \in Listed : Dead(t)
          /\ peer_sink' = [peer_sink EXCEPT ![s] = "idle"]
          /\ item' = [item EXCEPT ![s] = None]
          /\ UNCHANGED waiter
       \/ Park(s, "readying") /\ UNCHANGED item
       \/ /\ \A t \in Listed : ~Dead(t) /\ t \notin full
          /\ peer_sink' = [peer_sink EXCEPT ![s] = "start"]
          /\ UNCHANGED <<item, waiter>>
    /\ peer_awake' = peer_awake \ {s}
    /\ UNCHANGED <<peers, name, in, full, shut, adds, ids, accepted,
                   peerTaskVars, outVars, peerStreamVars, settled>>

(* start_send returns: on success the call goes on to flush.                *)
Return(s, ok) == peer_sink' = [peer_sink EXCEPT ![s] = IF ok THEN "flush" ELSE "idle"]

Spawn(s, p, t) ==
    /\ peers' = [peers EXCEPT ![p] = t]
    /\ name' = [name EXCEPT ![t] = p]
    /\ peer_task' = [peer_task EXCEPT ![t] = "adding"]
    /\ Return(s, TRUE)

(* Mutant: one peer more than the capacity is taken.                        *)
AddPeerOverFull(s, p, t) ==
    \/ /\ Cardinality(Listed) <= MaxPeers /\ peers[p] = None
       /\ Spawn(s, p, t)
    \/ /\ Cardinality(Listed) > MaxPeers \/ peers[p] # None
       /\ Return(s, FALSE)
       /\ UNCHANGED <<peers, name, peer_task>>

(* PeerStoreFull and PeerAlreadyExists are errors, in this order.           *)
AddPeer(s, p, t) ==
    \/ /\ Cardinality(Listed) < MaxPeers /\ peers[p] = None
       /\ Spawn(s, p, t)
    \/ /\ Cardinality(Listed) >= MaxPeers \/ peers[p] # None
       /\ Return(s, FALSE)
       /\ UNCHANGED <<peers, name, peer_task>>

(* remove_peer and send_message: PeerNotFound, or start_send on the peer's  *)
(* sender, which fails if the receiver is gone or if another sink filled    *)
(* the channel since poll_ready.  Then it also forgets the waker.           *)
Forward(s, p, m) ==
    LET t == peers[p] IN
    \/ /\ t = None \/ Dead(t)
       /\ Return(s, FALSE)
       /\ UNCHANGED <<in, full, waiter, accepted>>
    \/ /\ t # None /\ ~Dead(t) /\ t \in full
       /\ waiter' = [waiter EXCEPT ![t] = None]
       /\ Return(s, FALSE)
       /\ UNCHANGED <<in, full, accepted>>
    \/ /\ t # None /\ ~Dead(t) /\ t \notin full
       /\ in' = [in EXCEPT ![t] = Append(@, m)]
       /\ full' = IF Len(in[t]) + 1 > SinkCapacity THEN full \cup {t} ELSE full
       /\ accepted' = accepted \cup ({m} \ {Remove})
       /\ Return(s, TRUE)
       /\ UNCHANGED waiter

(* handle_message; LockFailed when the lock is taken.                       *)
PeerStartSend(s) ==
    /\ peer_sink[s] = "start"
    /\ \/ /\ item[s].kind = "add"
          /\ AddPeer(s, item[s].peer, item[s].id)
          /\ UNCHANGED <<in, full, waiter, accepted>>
       \/ /\ item[s].kind \in {"remove", "send"}
          /\ Forward(s, item[s].peer, item[s].id)
          /\ UNCHANGED <<peers, name, peer_task>>
       \/ /\ Contended(s)
          /\ Return(s, FALSE)
          /\ UNCHANGED <<peers, name, peer_task, in, full, waiter, accepted>>
    /\ item' = [item EXCEPT ![s] = None]
    /\ UNCHANGED <<shut, peer_awake, adds, ids, writing, wire, due, outVars, peerStreamVars, settled>>

(* A sender whose receiver is gone counts as flushed.                       *)
PeerPollFlush(s) ==
    /\ Polled(s, "flush", "flushing")
    /\ \/ Park(s, "flushing")
       \/ /\ \A t \in Listed : Dead(t) \/ t \notin full
          /\ peer_sink' = [peer_sink EXCEPT ![s] = "idle"]
          /\ UNCHANGED waiter
    /\ peer_awake' = peer_awake \ {s}
    /\ UNCHANGED <<peers, name, in, full, shut, item, adds, ids, accepted,
                   peerTaskVars, outVars, peerStreamVars, settled>>

(* Mutant: poll_close waits for the tasks without closing their channels.   *)
PollCloseWaiting(s) ==
    /\ "close" \in Kinds
    /\ peer_sink[s] \in {"idle", "closing"}
    /\ peer_sink' = [peer_sink EXCEPT ![s] = IF PeerLive = {} THEN "closed" ELSE "closing"]
    /\ UNCHANGED <<mapVars, item, peer_awake, adds, ids, accepted, peerTaskVars, outVars, peerStreamVars, settled>>

(* poll_close disconnects every sender of the map, and wakes itself until   *)
(* all tasks have finished.                                                 *)
PollClose(s) ==
    /\ "close" \in Kinds
    /\ peer_sink[s] \in {"idle", "closing"}
    /\ shut' = shut \cup Listed
    /\ peer_sink' = [peer_sink EXCEPT ![s] = IF PeerLive = {} THEN "closed" ELSE "closing"]
    /\ UNCHANGED <<peers, name, in, full, waiter, item, peer_awake, adds, ids, accepted,
                   peerTaskVars, outVars, peerStreamVars, settled>>

-----------------------------------------------------------------------------
(* The task of a peer.  In "poll" it polls merged_stream; in "idle" all was *)
(* pending, and only the channel or the connection wakes it: no timer is    *)
(* set for the heartbeat.                                                   *)

At(t, l) == peer_task[t] = l /\ \A i \in DOMAIN peer_parked : peer_parked[i] # t
Goto(t, l) == peer_task' = [peer_task EXCEPT ![t] = l]

(* A report, which waits when the channel is over its capacity.             *)
Tell(t, kind, next) ==
    /\ peer_out' = Append(peer_out, [kind |-> kind, task |-> t])
    /\ peer_parked' = IF Len(peer_out) + 1 > PeerStreamCapacity THEN Append(peer_parked, t) ELSE peer_parked
    /\ Goto(t, next)

(* The receiver makes room: the parked sender is free, its waker called.    *)
Unpark(t) ==
    /\ full' = full \ {t}
    /\ peer_awake' = peer_awake \cup {s \in Sinks : t \in full /\ waiter[t] = s /\ peer_sink[s] \in {"readying", "flushing"}}
    /\ waiter' = IF t \in full THEN [waiter EXCEPT ![t] = None] ELSE waiter

(* The task ends: its receiver is dropped, and with it what was not read.   *)
End(t) ==
    /\ Goto(t, "gone")
    /\ Unpark(t)
    /\ in' = [in EXCEPT ![t] = << >>]
    /\ settled' = settled \cup (({in[t][i] : i \in DOMAIN in[t]} \cup {writing[t]}) \ {Remove, KeepAlive})
    /\ writing' = [writing EXCEPT ![t] = KeepAlive]
    /\ wire' = [wire EXCEPT ![t] = "quiet"]
    /\ due' = due \ {t}
    /\ UNCHANGED <<peers, name, shut, peer_sink, item, adds, ids, accepted, outVars, peerStreamVars>>

TellAdded(t) ==
    /\ At(t, "adding") /\ Tell(t, "added", "poll")
    /\ UNCHANGED <<mapVars, clientVars, writing, wire, due, peerStreamVars, settled>>

Hung(t) == t \in shut /\ in[t] = << >>

Polling(t) ==
    \/ At(t, "poll")
    \/ At(t, "idle") /\ (in[t] # << >> \/ Hung(t) \/ wire[t] # "quiet")

(* An item of the channel; it moves the deadline.                           *)
TakeInput(t) ==
    /\ Polling(t) /\ in[t] # << >>
    /\ in' = [in EXCEPT ![t] = Tail(@)]
    /\ Unpark(t)
    /\ Goto(t, IF Head(in[t]) = Remove THEN "removing" ELSE "write")
    /\ writing' = [writing EXCEPT ![t] = Head(in[t])]
    /\ due' = due \ {t}
    /\ UNCHANGED <<peers, name, shut, peer_sink, item, adds, ids, accepted, wire, outVars, peerStreamVars, settled>>

(* A message or an error of the connection.                                 *)
TakePeer(t) ==
    /\ Polling(t) /\ wire[t] \in {"msg", "error"}
    /\ Goto(t, IF wire[t] = "msg" THEN "forward" ELSE "failing")
    /\ wire' = [wire EXCEPT ![t] = "quiet"]
    /\ UNCHANGED <<mapVars, clientVars, writing, due, outVars, peerStreamVars, settled>>

(* The connection or the channel has ended: PeerError::Disconnected, and    *)
(* nothing is reported.                                                     *)
Disconnected(t) == Polling(t) /\ (wire[t] = "end" \/ Hung(t)) /\ End(t)

(* The channel was pending and the deadline has passed.                     *)
Timeout(t) ==
    /\ Polling(t) /\ in[t] = << >> /\ ~Hung(t) /\ t \in due
    /\ due' = due \ {t}
    /\ Goto(t, "write")
    /\ UNCHANGED <<mapVars, clientVars, writing, wire, outVars, peerStreamVars, settled>>

Pending(t) ==
    /\ At(t, "poll") /\ in[t] = << >> /\ ~Hung(t) /\ wire[t] = "quiet" /\ t \notin due
    /\ Goto(t, "idle")
    /\ UNCHANGED <<mapVars, clientVars, writing, wire, due, outVars, peerStreamVars, settled>>

(* handle_stream_result: what the peer sent, ...                            *)
TellReceived(t) ==
    /\ At(t, "forward") /\ Tell(t, "received", "poll")
    /\ UNCHANGED <<mapVars, clientVars, writing, wire, due, peerStreamVars, settled>>

(* Mutant: the task goes on after it reported the peer as removed.          *)
TellRemovedStaying(t) ==
    /\ At(t, "removing") /\ Tell(t, "removed", "poll")
    /\ UNCHANGED <<mapVars, clientVars, writing, wire, due, peerStreamVars, settled>>

(* ... that the client removed it, ...                                      *)
TellRemoved(t) ==
    /\ At(t, "removing") /\ Tell(t, "removed", "ending")
    /\ UNCHANGED <<mapVars, clientVars, writing, wire, due, peerStreamVars, settled>>

(* Mutant: an error of the connection is reported but does not end the task.*)
TellErrorStaying(t) ==
    /\ At(t, "failing") /\ Tell(t, "error", "poll")
    /\ UNCHANGED <<mapVars, clientVars, writing, wire, due, peerStreamVars, settled>>

(* ... that its connection failed.  Both end the loop of the task.          *)
TellError(t) ==
    /\ At(t, "failing") /\ Tell(t, "error", "ending")
    /\ UNCHANGED <<mapVars, clientVars, writing, wire, due, peerStreamVars, settled>>

TaskEnds(t) == At(t, "ending") /\ End(t)

(* Mutant: a message that was written is not reported.                      *)
WriteSilently(t) ==
    /\ At(t, "write")
    /\ Goto(t, "poll")
    /\ UNCHANGED <<mapVars, clientVars, writing, wire, due, outVars, peerStreamVars, settled>>

(* peer_send.send of a message, which is then reported, or of a keep-alive. *)
Write(t) ==
    /\ At(t, "write")
    /\ Goto(t, IF writing[t] = KeepAlive THEN "poll" ELSE "wrote")
    /\ UNCHANGED <<mapVars, clientVars, writing, wire, due, outVars, peerStreamVars, settled>>

(* PeerError::PeerDisconnect ends the task, and nothing is reported.        *)
WriteFails(t) == "broken" \in Events /\ At(t, "write") /\ End(t)

TellSent(t) ==
    /\ At(t, "wrote") /\ Tell(t, "sent", "poll")
    /\ settled' = settled \cup {writing[t]}
    /\ writing' = [writing EXCEPT ![t] = KeepAlive]
    /\ UNCHANGED <<mapVars, clientVars, wire, due, peerStreamVars>>

-----------------------------------------------------------------------------
(* The connections and the clock *)

Arrives(t) ==
    /\ t \in PeerLive /\ wire[t] = "quiet"
    /\ \E e \in Events \ {"broken", "late"} : wire' = [wire EXCEPT ![t] = e]
    /\ UNCHANGED <<mapVars, clientVars, peer_task, writing, due, outVars, peerStreamVars, settled>>

DeadlinePasses(t) ==
    /\ "late" \in Events
    /\ t \in PeerLive /\ t \notin due
    /\ due' = due \cup {t}
    /\ UNCHANGED <<mapVars, clientVars, peer_task, writing, wire, outVars, peerStreamVars, settled>>

-----------------------------------------------------------------------------
(* The stream *)

PeerRecv ==
    /\ peer_hand = None /\ peer_out # << >>
    /\ peer_hand' = Head(peer_out) /\ peer_out' = Tail(peer_out)
    /\ peer_parked' = IF peer_parked = << >> THEN peer_parked ELSE Tail(peer_parked)
    /\ UNCHANGED <<mapVars, clientVars, peerTaskVars, view, settled>>

(* The report is handed on.  One that says the peer has ended first strikes *)
(* its PeerInfo off the map and drops the sender; if the lock is taken such *)
(* a report is dropped, since opt_pending is never set.                     *)
Deliver ==
    /\ peer_hand # None
    /\ LET p == name[peer_hand.task] IN
       \/ /\ ~Ends(peer_hand)
          /\ view' = view \cup {p}
          /\ UNCHANGED <<peers, shut>>
       \/ /\ Ends(peer_hand)
          /\ peers' = [peers EXCEPT ![p] = None]
          /\ shut' = shut \cup ({peers[p]} \ {None})
          /\ view' = view \ {p}
       \/ /\ Ends(peer_hand) /\ \E s \in Sinks : Busy(s)
          /\ UNCHANGED <<peers, shut, view>>
    /\ peer_hand' = None
    /\ UNCHANGED <<name, in, full, waiter, clientVars, peerTaskVars, outVars, settled>>

-----------------------------------------------------------------------------
PeerSinkStep(s) ==
    \/ PollReady(s) \/ PeerStartSend(s) \/ PeerPollFlush(s)
    \/ peer_sink[s] = "closing" /\ PollClose(s)

PeerTaskStep(t) ==
    \/ TellAdded(t) \/ TakeInput(t) \/ TakePeer(t) \/ Disconnected(t) \/ Timeout(t)
    \/ Pending(t) \/ TellReceived(t) \/ TellRemoved(t) \/ TellError(t) \/ TaskEnds(t)
    \/ Write(t) \/ TellSent(t)

PeerStreamStep == PeerRecv \/ Deliver

PeerNext ==
    \/ \E s \in Sinks : Begin(s) \/ PollReady(s) \/ PeerStartSend(s) \/ PeerPollFlush(s) \/ PollClose(s)
    \/ \E t \in PeerTasks : PeerTaskStep(t) \/ WriteFails(t) \/ Arrives(t) \/ DeadlinePasses(t)
    \/ PeerStreamStep

PeerSpec == PeerInit /\ [][PeerNext]_peerVars

(* The executor runs sinks and tasks that were woken, the consumer polls,   *)
(* and connections take what is written to them.  select polls its streams  *)
(* in turn: an item of the channel, or its end, is not passed over for ever *)
(* by a connection that always has something.                               *)
PeerFairness ==
    /\ \A s \in Sinks : WF_peerVars(PeerSinkStep(s))
    /\ \A t \in PeerTasks : WF_peerVars(PeerTaskStep(t)) /\ SF_peerVars(TakeInput(t)) /\ SF_peerVars(Disconnected(t))
    /\ WF_peerVars(PeerStreamStep)

PeerFairSpec == PeerSpec /\ PeerFairness

-----------------------------------------------------------------------------
(* Every running task can be reached through the map under its own name,    *)
(* also after its PeerInfo was removed and added again, and there are never *)
(* more than peer_capacity of them.                                         *)
RunningIsListed ==
    /\ \A t \in PeerLive : peer_task[t] # "ending" => peers[name[t]] = t
    /\ Cardinality(Listed) <= MaxPeers

(* poll_next strikes off by PeerInfo, and it always finds the very task     *)
(* that reported its end: never none (the ...AndMissing errors), never the  *)
(* task of a peer of that name that was added later.                        *)
StrikesTheRightPeer ==
    peer_hand # None /\ Ends(peer_hand) => peers[name[peer_hand.task]] = peer_hand.task

(* The consumer sees PeerAdded first, then what was received and sent, then *)
(* PeerRemoved, and then nothing of that peer until it is added again.      *)
SeenInOrder == peer_hand # None => (peer_hand.kind = "added" <=> name[peer_hand.task] \notin view)

(* A message the sink accepted is written and reported, or its task ends.   *)
AcceptedIsSettled == \A i \in Ids : i \in accepted ~> i \in settled

(* A send of a client that owns the only sink returns, and so does close.   *)
CallsReturn == \A s \in Sinks : Busy(s) ~> ~Busy(s)

(* PeerDisconnect "Indicates a peer has disconnected.": a peer whose        *)
(* connection ended does not stay in the map of a manager that nobody       *)
(* closes.                                                                  *)
DisconnectIsSeen == \A t \in PeerTasks : peer_task[t] = "gone" ~> t \notin Listed
=============================================================================
