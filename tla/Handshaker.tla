----------------------------- MODULE Handshaker -----------------------------
(***************************************************************************)
(* The Handshaker: three tasks joined by bounded channels.  The initiator  *)
(* connects to the peers given to the sink, the listener accepts peers,    *)
(* and the handshaker task carries out one handshake at a time for both.   *)
(* The filters are shared with the user, who changes them at any time.     *)
(* An optional value is a set of at most one element.                      *)
(***************************************************************************)
EXTENDS Integers, Sequences

CONSTANTS InitiateMessages,  \* [addr, prot, hash] the user may start
          RemoteAddrs,       \* the addresses that connect to us
          RemoteHandshakes,  \* [prot, ext, hash, pid] a remote may send
          FilterChoices,     \* [field, wants, hit, miss] the user may add
          OurExtensions,     \* the extension bits we support
          sink_buffer_size, wait_buffer_size, done_buffer_size,
          MaxStarted, MaxAccepted, MaxFilterCalls \* bounds of the user and of the network

ASSUME BufferSizes == {sink_buffer_size, wait_buffer_size, done_buffer_size} \subseteq Nat

VARIABLES filters,    \* the Vec of Filters
          sink_open,  \* the user holds the sink
          addr_chan, hand_chan, done_chan,
          initiator, listener, handshaker, \* the tasks
          completed,  \* what the user took from the stream
          started, accepted, filter_calls  \* how often each was done

handVars == <<filters, sink_open, addr_chan, hand_chan, done_chan, initiator, listener, handshaker,
              completed, started, accepted, filter_calls>>
chanVars == <<addr_chan, hand_chan, done_chan>>
callVars == <<started, accepted, filter_calls>>

-----------------------------------------------------------------------------
(* FilterDecision and should_filter                                        *)

Pass == 0
Block == 1
NeedData == 2
Allow == 3

ASSUME FilterDecisions ==
    \A filter \in FilterChoices : {filter.hit, filter.miss} \subseteq {Pass, Block, NeedData, Allow}

(* Mutant: a block goes before the need for data.                          *)
choose_block(self, other) ==
    IF {self, other} = {Block, NeedData} THEN Block ELSE IF self > other THEN self ELSE other

choose(self, other) == IF self > other THEN self ELSE other

(* A filter of one field: it needs the data, and then decides by whether   *)
(* the field is the one it wants.                                          *)
OnField(filter, field, data) ==
    IF filter.field # field THEN Pass
    ELSE IF data = {} THEN NeedData
    ELSE IF filter.wants \in data THEN filter.hit ELSE filter.miss

(* Neither the order of the filters nor their number matters to choose:    *)
(* the loop over them ends with the decision that wins over all others.    *)
FieldDecision(field, data, list) ==
    LET decisions == {Pass} \cup {OnField(list[k], field, data) : k \in 1 .. Len(list)}
    IN  CHOOSE decision \in decisions : \A other \in decisions : choose(decision, other) = decision

should_filter(addr, prot, ext, hash, pid, list) ==
    LET addr_prot == choose(FieldDecision("addr", addr, list), FieldDecision("prot", prot, list))
        with_ext == choose(addr_prot, FieldDecision("ext", ext, list))
        with_hash == choose(with_ext, FieldDecision("hash", hash, list))
    IN  choose(with_hash, FieldDecision("pid", pid, list)) = Block

FilterRemote(addr, remote, list) ==
    should_filter({addr}, {remote.prot}, {remote.ext}, {remote.hash}, {remote.pid}, list)

(* initiator_handler, before it connects.                                  *)
FilterInitiate(msg, list) == should_filter({msg.addr}, {msg.prot}, {}, {msg.hash}, {}, list)

(* ListenerHandler::new                                                    *)
FilterAccept(addr, list) == should_filter({addr}, {}, {}, {}, {}, list)

-----------------------------------------------------------------------------
(* Filters                                                                 *)

Members(list) == {list[k] : k \in 1 .. Len(list)}

check_index(list, filter) == {k \in 1 .. Len(list) : list[k] = filter}

filters_add(list, filter) == IF check_index(list, filter) = {} THEN Append(list, filter) ELSE list

swap_remove(list, k) == SubSeq([list EXCEPT ![k] = list[Len(list)]], 1, Len(list) - 1)

filters_remove(list, filter) ==
    LET found == check_index(list, filter)
    IN  IF found = {} THEN list
        ELSE swap_remove(list, CHOOSE k \in found : \A other \in found : k <= other)

FilterCall(list) ==
    /\ filter_calls < MaxFilterCalls
    /\ filter_calls' = filter_calls + 1
    /\ filters' = list
    /\ UNCHANGED <<sink_open, chanVars, initiator, listener, handshaker, completed, started, accepted>>

AddFilter(filter) == FilterCall(filters_add(filters, filter))
RemoveFilter(filter) == FilterCall(filters_remove(filters, filter))
ClearFilters == FilterCall(<<>>)

-----------------------------------------------------------------------------
(* The tasks.  futures' mpsc holds its buffer and one message per sender.  *)

Idle == [at |-> "idle"]
Ended == [at |-> "ended"]
Sending(item) == [at |-> "sending", item |-> item]

HandshakerInit ==
    /\ filters = <<>> /\ sink_open = TRUE
    /\ addr_chan = <<>> /\ hand_chan = <<>> /\ done_chan = <<>>
    /\ initiator = Idle /\ listener = Idle /\ handshaker = Idle
    /\ completed = {} /\ started = 0 /\ accepted = 0 /\ filter_calls = 0

(* HandshakerSink: start_send of a sink that is ready.                     *)
StartInitiate(msg) ==
    /\ sink_open /\ initiator.at # "ended" /\ started < MaxStarted
    /\ Len(addr_chan) < sink_buffer_size + 1
    /\ addr_chan' = Append(addr_chan, msg)
    /\ started' = started + 1
    /\ UNCHANGED <<filters, sink_open, hand_chan, done_chan, initiator, listener, handshaker,
                   completed, accepted, filter_calls>>

DropSink ==
    /\ sink_open
    /\ sink_open' = FALSE
    /\ UNCHANGED <<filters, chanVars, initiator, listener, handshaker, completed, callVars>>

InitiatorNext ==
    /\ initiator = Idle
    /\ IF addr_chan # <<>>
       THEN /\ addr_chan' = Tail(addr_chan)
            /\ initiator' = IF FilterInitiate(Head(addr_chan), filters) THEN Idle
                            ELSE [at |-> "connecting", item |-> Head(addr_chan)]
       ELSE ~sink_open /\ initiator' = Ended /\ addr_chan' = addr_chan
    /\ UNCHANGED <<filters, sink_open, hand_chan, done_chan, listener, handshaker, completed, callVars>>

ConnectSucceeds ==
    /\ initiator.at = "connecting"
    /\ initiator' = Sending([type |-> "Initiate", msg |-> initiator.item])
    /\ UNCHANGED <<filters, sink_open, chanVars, listener, handshaker, completed, callVars>>

(* The connection is refused or times out: the loop ends, and its half of  *)
(* the channel is dropped.                                                 *)
ConnectFails ==
    /\ initiator.at = "connecting"
    /\ initiator' = Ended
    /\ addr_chan' = <<>>
    /\ UNCHANGED <<filters, sink_open, hand_chan, done_chan, listener, handshaker, completed, callVars>>

ListenerAccept(addr) ==
    /\ listener = Idle /\ accepted < MaxAccepted
    /\ accepted' = accepted + 1
    /\ listener' = IF FilterAccept(addr, filters) THEN Idle ELSE Sending([type |-> "Complete", addr |-> addr])
    /\ UNCHANGED <<filters, sink_open, chanVars, initiator, handshaker, completed, started, filter_calls>>

AcceptFails ==
    /\ listener = Idle
    /\ listener' = Ended
    /\ UNCHANGED <<filters, sink_open, chanVars, initiator, handshaker, completed, callVars>>

(* sink.send of loop_handler: it waits for room, and its error is dropped. *)
SendHand(task) ==
    /\ task.at = "sending"
    /\ IF handshaker.at = "ended" THEN hand_chan' = hand_chan
       ELSE Len(hand_chan) < wait_buffer_size + 2 /\ hand_chan' = Append(hand_chan, task.item)

InitiatorSend ==
    /\ SendHand(initiator)
    /\ initiator' = Idle
    /\ UNCHANGED <<filters, sink_open, addr_chan, done_chan, listener, handshaker, completed, callVars>>

ListenerSend ==
    /\ SendHand(listener)
    /\ listener' = Idle
    /\ UNCHANGED <<filters, sink_open, addr_chan, done_chan, initiator, handshaker, completed, callVars>>

(* execute_handshake: we send first where we connected.                    *)
HandshakerNext ==
    /\ handshaker = Idle
    /\ IF hand_chan # <<>>
       THEN LET item == Head(hand_chan)
            IN  /\ hand_chan' = Tail(hand_chan)
                /\ handshaker' = [at |-> IF item.type = "Initiate" THEN "greeting" ELSE "waiting", item |-> item]
       ELSE /\ initiator.at = "ended" /\ listener.at = "ended"
            /\ handshaker' = Ended /\ hand_chan' = hand_chan
    /\ UNCHANGED <<filters, sink_open, addr_chan, done_chan, initiator, listener, completed, callVars>>

(* framed.send is over, well or with an io error: only its time counts.    *)
Greeted ==
    /\ handshaker.at = "greeting"
    /\ handshaker' = [handshaker EXCEPT !.at = "waiting"]
    /\ UNCHANGED <<filters, sink_open, chanVars, initiator, listener, completed, callVars>>

HandshakerEnds == handshaker' = Ended /\ hand_chan' = <<>>

(* Extensions::union: the bits of both.                                    *)
union(ext, other) == ext \cap other

CompleteMessage(addr, prot, ext, hash, pid, item) ==
    [addr |-> addr, prot |-> prot, ext |-> union(OurExtensions, ext), hash |-> hash, pid |-> pid, item |-> item]

(* Mutant: the hash of the answer is not compared.                         *)
initiate_handshake_any(msg, remote) ==
    IF remote.prot # msg.prot \/ FilterRemote(msg.addr, remote, filters)
    THEN HandshakerEnds
    ELSE /\ handshaker' = Sending(CompleteMessage(msg.addr, msg.prot, remote.ext, remote.hash, remote.pid, handshaker.item))
         /\ UNCHANGED hand_chan

initiate_handshake(msg, remote) ==
    IF remote.hash # msg.hash \/ remote.prot # msg.prot \/ FilterRemote(msg.addr, remote, filters)
    THEN HandshakerEnds
    ELSE /\ handshaker' = Sending(CompleteMessage(msg.addr, msg.prot, remote.ext, msg.hash, remote.pid, handshaker.item))
         /\ UNCHANGED hand_chan

complete_handshake(addr, remote) ==
    IF FilterRemote(addr, remote, filters)
    THEN HandshakerEnds
    ELSE /\ handshaker' =
                [at |-> "replying",
                 item |-> CompleteMessage(addr, remote.prot, remote.ext, remote.hash, remote.pid, handshaker.item)]
         /\ UNCHANGED hand_chan

RemoteAnswers(remote) ==
    /\ handshaker.at = "waiting"
    /\ IF handshaker.item.type = "Initiate"
       THEN initiate_handshake(handshaker.item.msg, remote)
       ELSE complete_handshake(handshaker.item.addr, remote)
    /\ UNCHANGED <<filters, sink_open, addr_chan, done_chan, initiator, listener, completed, callVars>>

Replied ==
    /\ handshaker.at = "replying"
    /\ handshaker' = Sending(handshaker.item)
    /\ UNCHANGED <<filters, sink_open, chanVars, initiator, listener, completed, callVars>>

(* Mutant: waiting for the remote is not timed.                            *)
HandshakeTimeout_send ==
    /\ handshaker.at \in {"greeting", "replying"}
    /\ handshaker' = Idle
    /\ UNCHANGED <<filters, sink_open, chanVars, initiator, listener, completed, callVars>>

(* A send or a receive takes too long, or receiving fails.                 *)
HandshakeTimeout ==
    /\ handshaker.at \in {"greeting", "waiting", "replying"}
    /\ handshaker' = Idle
    /\ UNCHANGED <<filters, sink_open, chanVars, initiator, listener, completed, callVars>>

HandshakerSend ==
    /\ handshaker.at = "sending" /\ Len(done_chan) < done_buffer_size + 1
    /\ done_chan' = Append(done_chan, handshaker.item)
    /\ handshaker' = Idle
    /\ UNCHANGED <<filters, sink_open, addr_chan, hand_chan, initiator, listener, completed, callVars>>

(* HandshakerStream                                                        *)
StreamNext ==
    /\ done_chan # <<>>
    /\ completed' = completed \cup {Head(done_chan)}
    /\ done_chan' = Tail(done_chan)
    /\ UNCHANGED <<filters, sink_open, addr_chan, hand_chan, initiator, listener, handshaker, callVars>>

HandshakerNextState ==
    \/ \E filter \in FilterChoices : AddFilter(filter) \/ RemoveFilter(filter)
    \/ ClearFilters
    \/ \E msg \in InitiateMessages : StartInitiate(msg)
    \/ DropSink \/ InitiatorNext \/ ConnectSucceeds \/ ConnectFails \/ InitiatorSend
    \/ \E addr \in RemoteAddrs : ListenerAccept(addr)
    \/ AcceptFails \/ ListenerSend
    \/ HandshakerNext \/ Greeted \/ HandshakeTimeout \/ Replied \/ HandshakerSend
    \/ \E remote \in RemoteHandshakes : RemoteAnswers(remote)
    \/ StreamNext

(* The runtime runs the tasks, connecting and shaking hands are timed, and *)
(* the user polls the stream.                                              *)
HandshakerFairness ==
    /\ WF_handVars(InitiatorNext) /\ WF_handVars(InitiatorSend) /\ WF_handVars(ListenerSend)
    /\ WF_handVars(HandshakerNext) /\ WF_handVars(HandshakerSend) /\ WF_handVars(StreamNext)
    /\ WF_handVars(ConnectFails) /\ WF_handVars(HandshakeTimeout)

(* The whole pipeline.                                                     *)
HandshakerSpec == HandshakerInit /\ [][HandshakerNextState]_handVars /\ HandshakerFairness

-----------------------------------------------------------------------------
(* Properties                                                              *)

(* The tasks are in states of their own, and no channel holds more than    *)
(* its buffer and its senders: the pipeline pushes back on the user.       *)
HandshakerTypeOK ==
    /\ Len(addr_chan) <= sink_buffer_size + 1
    /\ Len(hand_chan) <= wait_buffer_size + 2
    /\ Len(done_chan) <= done_buffer_size + 1
    /\ initiator.at \in {"idle", "connecting", "sending", "ended"}
    /\ listener.at \in {"idle", "sending", "ended"}
    /\ handshaker.at \in {"idle", "greeting", "waiting", "replying", "sending", "ended"}

(* A completed handshake that we initiated is with a peer that answered    *)
(* with the hash and the protocol we asked for, and one that we accepted   *)
(* comes from the peer that connected.                                     *)
CompletedAsAsked ==
    \A done \in completed :
        IF done.item.type = "Initiate"
        THEN done.addr = done.item.msg.addr /\ done.hash = done.item.msg.hash /\ done.prot = done.item.msg.prot
        ELSE done.addr = done.item.addr

(* A peer we refuse to connect to is one that we would also refuse after   *)
(* its handshake, whatever that says: filters that ask for the data they   *)
(* need are not decided early (doc of HandshakeFilter).                    *)
EarlyBlockIsFinal ==
    \A msg \in InitiateMessages : FilterInitiate(msg, filters) =>
        \A remote \in RemoteHandshakes :
            (remote.hash = msg.hash /\ remote.prot = msg.prot) => FilterRemote(msg.addr, remote, filters)

(* A filter that is removed is gone, and every other filter stays.         *)
RemovedFilterIsGone ==
    [][\A filter \in FilterChoices :
        RemoveFilter(filter) => Members(filters') = Members(filters) \ {filter}]_handVars

(* What enters the pipeline leaves it: no silent remote, failed connection *)
(* or full channel keeps the work of the others waiting forever.           *)
PipelineDrains ==
    []<>(addr_chan = <<>> /\ hand_chan = <<>> /\ done_chan = <<>> /\ handshaker.at \in {"idle", "ended"})
=============================================================================
