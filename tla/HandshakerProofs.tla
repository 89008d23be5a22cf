-------------------------- MODULE HandshakerProofs --------------------------
(***************************************************************************)
(* Proofs about the Handshaker, for any messages, remotes, filters and     *)
(* sizes of the channels.  What travels through the pipeline carries the   *)
(* request it answers, so the invariant is a type of its channels and      *)
(* tasks in which a completion is one that agrees with its request.        *)
(***************************************************************************)
EXTENDS Handshaker, HandshakeFramed, TLAPS

Requests == [type : {"Initiate"}, msg : InitiateMessages] \cup [type : {"Complete"}, addr : RemoteAddrs]

(* What CompletedAsAsked asks of one completion.                           *)
AsAsked(done) ==
    IF done.item.type = "Initiate"
    THEN done.addr = done.item.msg.addr /\ done.hash = done.item.msg.hash /\ done.prot = done.item.msg.prot
    ELSE done.addr = done.item.addr

Remotes == InitiateMessages \cup RemoteHandshakes

Completions ==
    {done \in [addr : RemoteAddrs \cup {msg.addr : msg \in InitiateMessages},
               prot : {from.prot : from \in Remotes}, ext : SUBSET OurExtensions,
               hash : {from.hash : from \in Remotes}, pid : {remote.pid : remote \in RemoteHandshakes},
               item : Requests] : AsAsked(done)}

TasksOK ==
    /\ initiator \in {Idle, Ended} \cup [at : {"connecting"}, item : InitiateMessages]
                     \cup [at : {"sending"}, item : Requests]
    /\ listener \in {Idle, Ended} \cup [at : {"sending"}, item : Requests]
    /\ handshaker \in {Idle, Ended} \cup [at : {"greeting", "waiting"}, item : Requests]
                      \cup [at : {"replying", "sending"}, item : Completions]

ChannelsOK ==
    /\ addr_chan \in Seq(InitiateMessages) /\ hand_chan \in Seq(Requests)
    /\ done_chan \in Seq(Completions) /\ completed \in SUBSET Completions

BoundsOK ==
    /\ Len(addr_chan) <= sink_buffer_size + 1
    /\ Len(hand_chan) <= wait_buffer_size + 2
    /\ Len(done_chan) <= done_buffer_size + 1

(* The list of filters has every filter once.                              *)
FiltersOK ==
    /\ filters \in Seq(FilterChoices)
    /\ \A j, k \in 1 .. Len(filters) : filters[j] = filters[k] => j = k

HInv == TasksOK /\ ChannelsOK /\ BoundsOK

-----------------------------------------------------------------------------
(* add appends a filter that is not in the list.                           *)
LEMMA AddOnce ==
    ASSUME FiltersOK, NEW filter \in FilterChoices, filters' = filters_add(filters, filter)
    PROVE  FiltersOK'
  <1>1. CASE check_index(filters, filter) = {}
    <2>1. filters' = Append(filters, filter)
      BY <1>1 DEF filters_add
    <2>2. \A k \in 1 .. Len(filters) : filters[k] # filter
      BY <1>1 DEF check_index
    <2> QED
      BY <2>1, <2>2 DEF FiltersOK
  <1>2. CASE check_index(filters, filter) # {}
    BY <1>2 DEF filters_add, FiltersOK
  <1> QED
    BY <1>1, <1>2

(* remove leaves the list as it is, or moves its last filter to the place  *)
(* of the one removed.                                                     *)
LEMMA RemovedList ==
    ASSUME FiltersOK, NEW filter \in FilterChoices
    PROVE  \/ /\ \A k \in 1 .. Len(filters) : filters[k] # filter
              /\ filters_remove(filters, filter) = filters
           \/ \E k \in 1 .. Len(filters) :
                /\ filters[k] = filter
                /\ filters_remove(filters, filter) = swap_remove(filters, k)
  <1>1. CASE check_index(filters, filter) = {}
    BY <1>1 DEF check_index, filters_remove
  <1>2. CASE check_index(filters, filter) # {}
    <2>1. PICK k \in 1 .. Len(filters) : filters[k] = filter
      BY <1>2 DEF check_index
    <2>2. check_index(filters, filter) = {k}
      BY <2>1 DEF check_index, FiltersOK
    <2>3. (CHOOSE j \in {k} : \A other \in {k} : j <= other) = k
      BY <2>1
    <2>4. filters_remove(filters, filter) = swap_remove(filters, k)
      BY <2>2, <2>3 DEF filters_remove
    <2> QED
      BY <2>1, <2>4
  <1> QED
    BY <1>1, <1>2

(* swap_remove puts the last element in the place of the removed one.      *)
LEMMA SwapRemoved ==
    ASSUME NEW S, NEW list \in Seq(S), NEW k \in 1 .. Len(list)
    PROVE  /\ swap_remove(list, k) \in Seq(S)
           /\ Len(swap_remove(list, k)) = Len(list) - 1
           /\ \A j \in 1 .. (Len(list) - 1) :
                swap_remove(list, k)[j] = IF j = k THEN list[Len(list)] ELSE list[j]
  <1> DEFINE moved == [list EXCEPT ![k] = list[Len(list)]]
  <1>1. moved \in Seq(S) /\ Len(moved) = Len(list)
    OBVIOUS
  <1>2. \A j \in 1 .. Len(list) : moved[j] = IF j = k THEN list[Len(list)] ELSE list[j]
    OBVIOUS
  <1>3. swap_remove(list, k) = SubSeq(moved, 1, Len(list) - 1)
    BY DEF swap_remove
  <1> HIDE DEF moved
  <1> QED
    BY <1>1, <1>2, <1>3

(* The elements of a list by their places.                                 *)
LEMMA ListedElements ==
    ASSUME NEW S, NEW list \in Seq(S), NEW e
    PROVE  e \in Members(list) <=> \E j \in 1 .. Len(list) : list[j] = e
  BY DEF Members

(* A list without its filter k has every other filter once.                *)
LEMMA SwapKeepsOthers ==
    ASSUME NEW S, NEW list \in Seq(S), NEW k \in 1 .. Len(list), NEW other,
           \A i, j \in 1 .. Len(list) : list[i] = list[j] => i = j,
           other = swap_remove(list, k)
    PROVE  /\ other \in Seq(S)
           /\ \A i, j \in 1 .. Len(other) : other[i] = other[j] => i = j
           /\ Members(other) = Members(list) \ {list[k]}
  <1>1. /\ other \in Seq(S)
        /\ Len(other) = Len(list) - 1
        /\ \A j \in 1 .. (Len(list) - 1) : other[j] = IF j = k THEN list[Len(list)] ELSE list[j]
    BY SwapRemoved, Zenon
  <1>2. Len(list) \in Nat \ {0}
    OBVIOUS
  <1> DEFINE n == Len(list)
  <1>3. \A i, j \in 1 .. Len(other) : other[i] = other[j] => i = j
    BY <1>1, <1>2
  <1>4. ASSUME NEW j \in 1 .. Len(other)
        PROVE  \E i \in 1 .. Len(list) : list[i] = other[j] /\ list[i] # list[k]
    <2>1. CASE j = k
      <3>1. n \in 1 .. Len(list) /\ n # k /\ list[n] = other[j]
        BY <1>1, <1>2, <2>1
      <3> QED
        BY <3>1
    <2>2. CASE j # k
      <3>1. j \in 1 .. Len(list) /\ list[j] = other[j]
        BY <1>1, <1>2, <2>2, SMTT(40), Z3T(40)
      <3> QED
        BY <3>1, <2>2
    <2> QED
      BY <2>1, <2>2
  <1>5. ASSUME NEW j \in 1 .. Len(list), list[j] # list[k]
        PROVE  \E i \in 1 .. Len(other) : other[i] = list[j]
    <2>1. CASE j = n
      <3>1. k \in 1 .. Len(other) /\ other[k] = list[j]
        BY <1>1, <1>2, <1>5, <2>1
      <3> QED
        BY <3>1
    <2>2. CASE j # n
      <3>1. j \in 1 .. Len(other) /\ other[j] = list[j]
        BY <1>1, <1>2, <1>5, <2>2
      <3> QED
        BY <3>1
    <2> QED
      BY <2>1, <2>2
  <1>6. \A e : e \in Members(other) <=> e \in Members(list) \ {list[k]}
    <2>1. \A e : e \in Members(list) <=> \E j \in 1 .. Len(list) : list[j] = e
      BY ListedElements
    <2>2. \A e : e \in Members(other) <=> \E j \in 1 .. Len(other) : other[j] = e
      BY <1>1, ListedElements
    <2>3. ASSUME NEW e \in Members(other) PROVE e \in Members(list) \ {list[k]}
      <3>1. PICK j \in 1 .. Len(other) : other[j] = e
        BY <2>2, <2>3
      <3>2. PICK i \in 1 .. Len(list) : list[i] = other[j] /\ list[i] # list[k]
        BY <1>4
      <3> QED
        BY <2>1, <3>1, <3>2, Zenon
    <2>4. ASSUME NEW e \in Members(list), e # list[k] PROVE e \in Members(other)
      <3>1. PICK j \in 1 .. Len(list) : list[j] = e
        BY <2>1, <2>4
      <3>2. PICK i \in 1 .. Len(other) : other[i] = list[j]
        BY <1>5, <2>4, <3>1
      <3> QED
        BY <2>2, <3>1, <3>2, Zenon
    <2> QED
      BY <2>3, <2>4, Zenon
  <1> QED
    BY <1>1, <1>3, <1>6

(* Filters are changed by the user alone, and every change keeps them once. *)
LEMMA FiltersStep == FiltersOK /\ [HandshakerNextState]_handVars => FiltersOK'
  <1> SUFFICES ASSUME FiltersOK, [HandshakerNextState]_handVars PROVE FiltersOK'
    OBVIOUS
  <1>1. ASSUME NEW filter \in FilterChoices, AddFilter(filter) PROVE FiltersOK'
    BY <1>1, AddOnce DEF AddFilter, FilterCall
  <1>2. ASSUME NEW filter \in FilterChoices, RemoveFilter(filter) PROVE FiltersOK'
    <2>1. filters' = filters_remove(filters, filter)
      BY <1>2 DEF RemoveFilter, FilterCall
    <2>2. CASE filters' = filters
      BY <2>2 DEF FiltersOK
    <2>3. ASSUME NEW k \in 1 .. Len(filters), filters' = swap_remove(filters, k) PROVE FiltersOK'
      BY <2>3, SwapKeepsOthers DEF FiltersOK
    <2> QED
      BY <2>1, <2>2, <2>3, RemovedList
  <1>3. CASE ClearFilters
    BY <1>3 DEF ClearFilters, FilterCall, FiltersOK
  <1>4. CASE UNCHANGED filters
    BY <1>4 DEF FiltersOK
  <1> QED
    BY <1>1, <1>2, <1>3, <1>4, Zenon DEF HandshakerNextState, handVars, StartInitiate, DropSink, InitiatorNext,
       ConnectSucceeds, ConnectFails, InitiatorSend, ListenerAccept, AcceptFails, ListenerSend, HandshakerNext,
       Greeted, HandshakeTimeout, Replied, HandshakerSend, RemoteAnswers, StreamNext

(* The list of filters is in order in every state.                         *)
LEMMA FiltersInvariance == HandshakerSpec => []FiltersOK
  <1>1. HandshakerInit => FiltersOK
    BY DEF HandshakerInit, FiltersOK
  <1> QED
    BY <1>1, FiltersStep, PTL DEF HandshakerSpec

(* remove takes the filter out of the list and leaves every other filter,  *)
(* though swap_remove moves one of them (Filters::remove_filter).          *)
THEOREM FilterIsRemoved == HandshakerSpec => RemovedFilterIsGone
  <1>1. ASSUME FiltersOK, NEW filter \in FilterChoices, RemoveFilter(filter)
        PROVE  Members(filters') = Members(filters) \ {filter}
    <2>1. filters' = filters_remove(filters, filter)
      BY <1>1 DEF RemoveFilter, FilterCall
    <2>2. CASE filters' = filters /\ \A k \in 1 .. Len(filters) : filters[k] # filter
      BY <1>1, <2>2, ListedElements DEF FiltersOK
    <2>3. ASSUME NEW k \in 1 .. Len(filters), filters[k] = filter, filters' = swap_remove(filters, k)
          PROVE  Members(filters') = Members(filters) \ {filter}
      BY <1>1, <2>3, SwapKeepsOthers DEF FiltersOK
    <2> QED
      BY <1>1, <2>1, <2>2, <2>3, RemovedList
  <1>2. FiltersOK => [\A filter \in FilterChoices :
                        RemoveFilter(filter) => Members(filters') = Members(filters) \ {filter}]_handVars
    BY <1>1
  <1> QED
    BY FiltersInvariance, <1>2, PTL DEF RemovedFilterIsGone

-----------------------------------------------------------------------------
(* One completion that a step builds agrees with its request.              *)
LEMMA InitiateCompletes ==
    ASSUME NEW item \in Requests, item.type = "Initiate", NEW remote \in RemoteHandshakes
    PROVE  CompleteMessage(item.msg.addr, item.msg.prot, remote.ext, item.msg.hash, remote.pid, item) \in Completions
  <1>1. item.msg \in InitiateMessages
    BY DEF Requests
  <1>2. union(OurExtensions, remote.ext) \in SUBSET OurExtensions
    BY DEF union
  <1> QED
    BY <1>1, <1>2 DEF CompleteMessage, Completions, AsAsked, Remotes

(* The same where the peer connected to us.                                *)
LEMMA CompleteCompletes ==
    ASSUME NEW item \in Requests, item.type # "Initiate", NEW remote \in RemoteHandshakes
    PROVE  CompleteMessage(item.addr, remote.prot, remote.ext, remote.hash, remote.pid, item) \in Completions
  <1>1. item.addr \in RemoteAddrs
    BY DEF Requests
  <1>2. union(OurExtensions, remote.ext) \in SUBSET OurExtensions
    BY DEF union
  <1> QED
    BY <1>1, <1>2 DEF CompleteMessage, Completions, AsAsked, Remotes

(* The sends of initiator and listener to the handshaker task.             *)
LEMMA SendHandKeeps ==
    ASSUME HInv, NEW task, SendHand(task), task.item \in Requests
    PROVE  hand_chan' \in Seq(Requests) /\ Len(hand_chan') <= wait_buffer_size + 2
  <1>1. hand_chan \in Seq(Requests) /\ Len(hand_chan) <= wait_buffer_size + 2 /\ wait_buffer_size \in Nat
    BY BufferSizes DEF HInv, ChannelsOK, BoundsOK
  <1>2. CASE hand_chan' = hand_chan
    BY <1>1, <1>2
  <1>3. CASE Len(hand_chan) < wait_buffer_size + 2 /\ hand_chan' = Append(hand_chan, task.item)
    BY <1>1, <1>3
  <1> QED
    BY <1>2, <1>3 DEF SendHand

(* Taking the first message of a channel.                                  *)
LEMMA TailKeeps ==
    ASSUME NEW S, NEW chan \in Seq(S), NEW size, size \in Nat, Len(chan) <= size, chan # <<>>
    PROVE  Head(chan) \in S /\ Tail(chan) \in Seq(S) /\ Len(Tail(chan)) <= size
  OBVIOUS

(* Every step of the tasks and of the user keeps the invariant.            *)
LEMMA HandStep == HInv /\ [HandshakerNextState]_handVars => HInv'
  <1> SUFFICES ASSUME HInv, [HandshakerNextState]_handVars PROVE HInv'
    OBVIOUS
  <1> USE DEF chanVars, callVars
  <1>1. ASSUME NEW list, FilterCall(list) PROVE HInv'
    BY <1>1 DEF FilterCall, HInv, TasksOK, ChannelsOK, BoundsOK
  <1>2. ASSUME NEW msg \in InitiateMessages, StartInitiate(msg) PROVE HInv'
    BY <1>2, BufferSizes DEF StartInitiate, HInv, TasksOK, ChannelsOK, BoundsOK
  <1>3. CASE DropSink
    BY <1>3 DEF DropSink, HInv, TasksOK, ChannelsOK, BoundsOK
  <1>4. CASE InitiatorNext
    <2>1. addr_chan' \in Seq(InitiateMessages) /\ Len(addr_chan') <= sink_buffer_size + 1
      <3>1. /\ addr_chan \in Seq(InitiateMessages) /\ Len(addr_chan) <= sink_buffer_size + 1
            /\ sink_buffer_size + 1 \in Nat
        BY BufferSizes DEF HInv, ChannelsOK, BoundsOK
      <3> QED
        BY <1>4, <3>1, TailKeeps DEF InitiatorNext
    <2>2. initiator' \in {Idle, Ended} \cup [at : {"connecting"}, item : InitiateMessages]
      BY <1>4 DEF InitiatorNext, HInv, ChannelsOK
    <2> QED
      BY <1>4, <2>1, <2>2 DEF InitiatorNext, HInv, TasksOK, ChannelsOK, BoundsOK
  <1>5. CASE ConnectSucceeds
    <2>1. initiator.item \in InitiateMessages
      BY <1>5 DEF ConnectSucceeds, HInv, TasksOK, Idle, Ended
    <2>2. initiator' \in [at : {"sending"}, item : Requests]
      BY <1>5, <2>1 DEF ConnectSucceeds, Sending, Requests
    <2> QED
      BY <1>5, <2>2 DEF ConnectSucceeds, HInv, TasksOK, ChannelsOK, BoundsOK
  <1>6. CASE ConnectFails
    BY <1>6, BufferSizes DEF ConnectFails, HInv, TasksOK, ChannelsOK, BoundsOK
  <1>7. CASE InitiatorSend
    <2>1. initiator.item \in Requests
      BY <1>7 DEF InitiatorSend, SendHand, HInv, TasksOK, Idle, Ended
    <2>2. hand_chan' \in Seq(Requests) /\ Len(hand_chan') <= wait_buffer_size + 2
      BY <1>7, <2>1, SendHandKeeps DEF InitiatorSend
    <2> QED
      BY <1>7, <2>2 DEF InitiatorSend, HInv, TasksOK, ChannelsOK, BoundsOK
  <1>8. ASSUME NEW addr \in RemoteAddrs, ListenerAccept(addr) PROVE HInv'
    <2>1. listener' \in {Idle} \cup [at : {"sending"}, item : Requests]
      BY <1>8 DEF ListenerAccept, Sending, Requests
    <2> QED
      BY <1>8, <2>1 DEF ListenerAccept, HInv, TasksOK, ChannelsOK, BoundsOK
  <1>9. CASE AcceptFails
    BY <1>9 DEF AcceptFails, HInv, TasksOK, ChannelsOK, BoundsOK
  <1>10. CASE ListenerSend
    <2>1. listener.item \in Requests
      BY <1>10 DEF ListenerSend, SendHand, HInv, TasksOK, Idle, Ended
    <2>2. hand_chan' \in Seq(Requests) /\ Len(hand_chan') <= wait_buffer_size + 2
      BY <1>10, <2>1, SendHandKeeps DEF ListenerSend
    <2> QED
      BY <1>10, <2>2 DEF ListenerSend, HInv, TasksOK, ChannelsOK, BoundsOK
  <1>11. CASE HandshakerNext
    <2>1. hand_chan' \in Seq(Requests) /\ Len(hand_chan') <= wait_buffer_size + 2
      <3>1. /\ hand_chan \in Seq(Requests) /\ Len(hand_chan) <= wait_buffer_size + 2
            /\ wait_buffer_size + 2 \in Nat
        BY BufferSizes DEF HInv, ChannelsOK, BoundsOK
      <3> QED
        BY <1>11, <3>1, TailKeeps DEF HandshakerNext
    <2>2. handshaker' \in {Ended} \cup [at : {"greeting", "waiting"}, item : Requests]
      BY <1>11 DEF HandshakerNext, HInv, ChannelsOK
    <2> QED
      BY <1>11, <2>1, <2>2 DEF HandshakerNext, HInv, TasksOK, ChannelsOK, BoundsOK
  <1>12. CASE Greeted
    <2>1. handshaker \in [at : {"greeting", "waiting"}, item : Requests]
      BY <1>12 DEF Greeted, HInv, TasksOK, Idle, Ended
    <2>2. handshaker' \in [at : {"greeting", "waiting"}, item : Requests]
      BY <1>12, <2>1 DEF Greeted
    <2> QED
      BY <1>12, <2>2 DEF Greeted, HInv, TasksOK, ChannelsOK, BoundsOK
  <1>13. CASE HandshakeTimeout
    BY <1>13 DEF HandshakeTimeout, HInv, TasksOK, ChannelsOK, BoundsOK
  <1>14. CASE Replied
    <2>1. handshaker.item \in Completions
      BY <1>14 DEF Replied, HInv, TasksOK, Idle, Ended
    <2>2. handshaker' \in [at : {"replying", "sending"}, item : Completions]
      BY <1>14, <2>1 DEF Replied, Sending
    <2> QED
      BY <1>14, <2>2 DEF Replied, HInv, TasksOK, ChannelsOK, BoundsOK
  <1>15. CASE HandshakerSend
    <2>1. handshaker.item \in Completions
      BY <1>15 DEF HandshakerSend, HInv, TasksOK, Idle, Ended
    <2>2. done_chan' \in Seq(Completions) /\ Len(done_chan') <= done_buffer_size + 1
      BY <1>15, <2>1, BufferSizes DEF HandshakerSend, HInv, ChannelsOK
    <2> QED
      BY <1>15, <2>2 DEF HandshakerSend, HInv, TasksOK, ChannelsOK, BoundsOK
  <1>16. ASSUME NEW remote \in RemoteHandshakes, RemoteAnswers(remote) PROVE HInv'
    <2>1. handshaker.item \in Requests
      BY <1>16 DEF RemoteAnswers, HInv, TasksOK, Idle, Ended
    <2>2. CASE HandshakerEnds
      BY <1>16, <2>2, BufferSizes DEF RemoteAnswers, HandshakerEnds, HInv, TasksOK, ChannelsOK, BoundsOK
    <2>3. CASE /\ handshaker' \in [at : {"replying", "sending"}, item : Completions]
               /\ UNCHANGED hand_chan
      BY <1>16, <2>3 DEF RemoteAnswers, HInv, TasksOK, ChannelsOK, BoundsOK
    <2>4. CASE handshaker.item.type = "Initiate" /\ ~HandshakerEnds
      BY <1>16, <2>1, <2>3, <2>4, InitiateCompletes DEF RemoteAnswers, initiate_handshake, Sending
    <2>5. CASE handshaker.item.type # "Initiate" /\ ~HandshakerEnds
      BY <1>16, <2>1, <2>3, <2>5, CompleteCompletes DEF RemoteAnswers, complete_handshake
    <2> QED
      BY <2>2, <2>4, <2>5
  <1>17. CASE StreamNext
    <2>1. Head(done_chan) \in Completions /\ done_chan' \in Seq(Completions) /\ Len(done_chan') <= done_buffer_size + 1
      BY <1>17, BufferSizes DEF StreamNext, HInv, ChannelsOK, BoundsOK
    <2> QED
      BY <1>17, <2>1 DEF StreamNext, HInv, TasksOK, ChannelsOK, BoundsOK
  <1>18. CASE UNCHANGED handVars
    BY <1>18 DEF handVars, HInv, TasksOK, ChannelsOK, BoundsOK
  <1> QED
    BY <1>1, <1>2, <1>3, <1>4, <1>5, <1>6, <1>7, <1>8, <1>9, <1>10, <1>11, <1>12, <1>13, <1>14, <1>15, <1>16,
       <1>17, <1>18 DEF HandshakerNextState, AddFilter, RemoveFilter, ClearFilters

(* So the pipeline is well typed and bounded in every state.               *)
LEMMA HandInvariance == HandshakerSpec => []HInv
  <1>1. HandshakerInit => HInv
    BY BufferSizes DEF HandshakerInit, HInv, TasksOK, ChannelsOK, BoundsOK
  <1> QED
    BY <1>1, HandStep, PTL DEF HandshakerSpec

(* For every request, remote, filter and size of the channels: what the    *)
(* user takes from the stream answers the request it was started for       *)
(* (initiate_handshake and complete_handshake).                            *)
THEOREM CompletionsAsAsked == HandshakerSpec => []CompletedAsAsked
  <1>1. HInv => CompletedAsAsked
    BY DEF HInv, ChannelsOK, Completions, AsAsked, CompletedAsAsked
  <1> QED
    BY <1>1, HandInvariance, PTL

(* The channels of the pipeline never hold more than their buffer and one  *)
(* message per sender, whatever the sizes: the pipeline pushes back.       *)
THEOREM ChannelsBounded == HandshakerSpec => []HandshakerTypeOK
  <1>1. HInv => HandshakerTypeOK
    BY DEF HInv, TasksOK, BoundsOK, Idle, Ended, HandshakerTypeOK
  <1> QED
    BY <1>1, HandInvariance, PTL

-----------------------------------------------------------------------------
(* A field's decision is the greatest one of the filters, or Pass.         *)
LEMMA DecisionOfField ==
    ASSUME NEW list \in Seq(FilterChoices), NEW field, NEW data
    PROVE  LET decision == FieldDecision(field, data, list)
           IN  /\ decision \in 0 .. 3
               /\ \A k \in 1 .. Len(list) : OnField(list[k], field, data) <= decision
               /\ decision = Pass \/ \E k \in 1 .. Len(list) : OnField(list[k], field, data) = decision
  <1> DEFINE decisions == {Pass} \cup {OnField(list[k], field, data) : k \in 1 .. Len(list)}
             wins(d) == \A other \in decisions : choose(d, other) = d
  <1>1. ASSUME NEW k \in 1 .. Len(list) PROVE OnField(list[k], field, data) \in 0 .. 3
    <2>1. PICK filter \in FilterChoices : filter = list[k]
      OBVIOUS
    <2>2. filter.hit \in 0 .. 3 /\ filter.miss \in 0 .. 3
      BY FilterDecisions DEF Pass, Block, NeedData, Allow
    <2>3. OnField(filter, field, data) \in {Pass, NeedData, filter.hit, filter.miss}
      BY DEF OnField
    <2> QED
      BY <2>1, <2>2, <2>3 DEF Pass, NeedData
  <1>2. decisions \subseteq 0 .. 3 /\ 0 \in decisions
    BY <1>1 DEF Pass
  <1>3. \A k \in 1 .. Len(list) : OnField(list[k], field, data) \in decisions
    OBVIOUS
  <1>4. \A d \in decisions : d = Pass \/ \E k \in 1 .. Len(list) : OnField(list[k], field, data) = d
    OBVIOUS
  <1>5. FieldDecision(field, data, list) = CHOOSE d \in decisions : wins(d)
    BY DEF FieldDecision
  <1> HIDE DEF decisions
  <1>6. \E d \in decisions : \A other \in decisions : other <= d
    <2>1. \A other \in decisions : other \in {0, 1, 2, 3}
      BY <1>2
    <2>2. ASSUME NEW d \in decisions, d \in {0, 1, 2, 3}, \A other \in decisions : other \in 0 .. d
          PROVE  \E e \in decisions : \A other \in decisions : other <= e
      <3>1. \A other \in decisions : other <= d
        BY <2>2
      <3> QED
        BY <3>1
    <2>3. CASE 3 \in decisions
      BY <2>1, <2>2, <2>3
    <2>4. CASE 3 \notin decisions /\ 2 \in decisions
      BY <2>1, <2>2, <2>4
    <2>5. CASE 3 \notin decisions /\ 2 \notin decisions /\ 1 \in decisions
      BY <2>1, <2>2, <2>5
    <2>6. CASE 3 \notin decisions /\ 2 \notin decisions /\ 1 \notin decisions
      BY <1>2, <2>1, <2>2, <2>6
    <2> QED
      BY <2>3, <2>4, <2>5, <2>6
  <1>7. \A d \in decisions : wins(d) <=> \A other \in decisions : other <= d
    BY <1>2 DEF choose
  <1> HIDE DEF wins
  <1>8. \E d \in decisions : wins(d)
    BY <1>6, <1>7
  <1>9. FieldDecision(field, data, list) \in decisions /\ wins(FieldDecision(field, data, list))
    BY <1>5, <1>8
  <1>10. \A other \in decisions : other <= FieldDecision(field, data, list)
    BY <1>7, <1>9
  <1>11. FieldDecision(field, data, list) \in 0 .. 3
    BY <1>2, <1>9, Zenon
  <1>12. \A k \in 1 .. Len(list) : OnField(list[k], field, data) <= FieldDecision(field, data, list)
    BY <1>3, <1>10
  <1>13. \/ FieldDecision(field, data, list) = Pass
         \/ \E k \in 1 .. Len(list) : OnField(list[k], field, data) = FieldDecision(field, data, list)
    BY <1>4, <1>9
  <1> QED
    BY <1>11, <1>12, <1>13

(* A field that was not at hand and asked for no data is one that no       *)
(* filter looks at, so it never decides.                                   *)
LEMMA UndecidedField ==
    ASSUME NEW list \in Seq(FilterChoices), NEW field, NEW data, FieldDecision(field, {}, list) < NeedData
    PROVE  FieldDecision(field, {}, list) = Pass /\ FieldDecision(field, data, list) = Pass
  <1>1. ASSUME NEW k \in 1 .. Len(list) PROVE list[k].field # field
    <2>1. OnField(list[k], field, {}) <= FieldDecision(field, {}, list) /\ FieldDecision(field, {}, list) \in 0 .. 3
      BY DecisionOfField
    <2>2. OnField(list[k], field, {}) = IF list[k].field # field THEN Pass ELSE NeedData
      BY DEF OnField
    <2> QED
      BY <2>1, <2>2 DEF Pass, NeedData
  <1>2. \A k \in 1 .. Len(list) : OnField(list[k], field, {}) = Pass /\ OnField(list[k], field, data) = Pass
    BY <1>1 DEF OnField
  <1>3. ASSUME NEW known, \A k \in 1 .. Len(list) : OnField(list[k], field, known) = Pass
        PROVE  FieldDecision(field, known, list) = Pass
    BY <1>3, DecisionOfField
  <1> QED
    BY <1>2, <1>3

(* should_filter blocks when the greatest of the five decisions is Block.  *)
LEMMA BlockedByTheGreatest ==
    ASSUME NEW a \in 0 .. 3, NEW p \in 0 .. 3, NEW e \in 0 .. 3, NEW h \in 0 .. 3, NEW i \in 0 .. 3
    PROVE  choose(choose(choose(choose(a, p), e), h), i) = Block
           <=> a <= Block /\ p <= Block /\ e <= Block /\ h <= Block /\ i <= Block /\ Block \in {a, p, e, h, i}
  BY DEF choose, Block

(* Whatever filters the user has added by then: a peer that is refused     *)
(* before we connect would be refused by its whole handshake too           *)
(* (initiator_handler, should_filter).                                     *)
THEOREM EarlyBlocksAreFinal == HandshakerSpec => []EarlyBlockIsFinal
  <1>1. FiltersOK => EarlyBlockIsFinal
    <2> SUFFICES ASSUME FiltersOK, NEW msg \in InitiateMessages, FilterInitiate(msg, filters),
                        NEW remote \in RemoteHandshakes, remote.hash = msg.hash, remote.prot = msg.prot
                 PROVE  FilterRemote(msg.addr, remote, filters)
      BY DEF EarlyBlockIsFinal
    <2>1. filters \in Seq(FilterChoices)
      BY DEF FiltersOK
    <2>2. \A field, data : FieldDecision(field, data, filters) \in 0 .. 3
      BY <2>1, DecisionOfField
    <2>3. PICK a \in 0 .. 3 : a = FieldDecision("addr", {msg.addr}, filters)
      BY <2>2
    <2>4. PICK p \in 0 .. 3 : p = FieldDecision("prot", {msg.prot}, filters)
      BY <2>2
    <2>5. PICK h \in 0 .. 3 : h = FieldDecision("hash", {msg.hash}, filters)
      BY <2>2
    <2>6. PICK e \in 0 .. 3 : e = FieldDecision("ext", {}, filters)
      BY <2>2
    <2>7. PICK i \in 0 .. 3 : i = FieldDecision("pid", {}, filters)
      BY <2>2
    <2>8. choose(choose(choose(choose(a, p), e), h), i) = Block
      BY <2>3, <2>4, <2>5, <2>6, <2>7, Zenon DEF FilterInitiate, should_filter
    <2>9. a <= Block /\ p <= Block /\ e <= Block /\ h <= Block /\ i <= Block /\ Block \in {a, p, e, h, i}
      BY <2>8, BlockedByTheGreatest, Zenon
    <2>10. e < NeedData /\ i < NeedData
      BY <2>9 DEF Block, NeedData
    <2>11. e = Pass /\ FieldDecision("ext", {remote.ext}, filters) = Pass
      BY <2>1, <2>6, <2>10, UndecidedField
    <2>12. i = Pass /\ FieldDecision("pid", {remote.pid}, filters) = Pass
      BY <2>1, <2>7, <2>10, UndecidedField
    <2>13. FilterRemote(msg.addr, remote, filters) <=> choose(choose(choose(choose(a, p), e), h), i) = Block
      BY <2>3, <2>4, <2>5, <2>11, <2>12 DEF FilterRemote, should_filter
    <2> QED
      BY <2>8, <2>13
  <1> QED
    BY <1>1, FiltersInvariance, PTL

-----------------------------------------------------------------------------
(* The bytes of a handshake on their way.  A part of the stream lies along *)
(* it from some place on.                                                  *)
Along(stream, from, bytes) == \A k \in 1 .. Len(bytes) : bytes[k] = stream[from + k]

Stream(msg) == HandshakeWrite(msg) \o LaterBytes

(* What the reader has taken: it clears its buffer when it is done.        *)
Taken(msg) == IF fstate = "Finished" THEN Len(HandshakeWrite(msg)) ELSE Len(read_buffer)

Total(msg) == Len(HandshakeWrite(msg)) + (IF later THEN Len(LaterBytes) ELSE 0)

(* The reader's buffer, the socket and the writer's buffer are the stream, *)
(* cut in three.                                                           *)
Transfer(msg) ==
    /\ Taken(msg) + Len(sock) + Len(write_buffer) = Total(msg)
    /\ Along(Stream(msg), 0, read_buffer)
    /\ Along(Stream(msg), Taken(msg), sock)
    /\ Along(Stream(msg), Taken(msg) + Len(sock), write_buffer)
    /\ later => write_buffer = <<>>
    /\ fstate = "Waiting" => read_buffer = <<>>
    /\ fstate \in {"Reading", "Ready"} => read_len = Len(HandshakeWrite(msg)) /\ Len(read_buffer) \in 1 .. read_len
    /\ fstate = "Ready" => Len(read_buffer) = read_len
    /\ fstate = "Finished" => fgot = {msg} /\ read_buffer = <<>>

FramedTypeOK ==
    /\ read_buffer \in Seq(Octets) /\ sock \in Seq(Octets) /\ write_buffer \in Seq(Octets)
    /\ later \in BOOLEAN
    /\ fstate \in {"Waiting", "Reading", "Ready", "Finished", "Errored"}
    /\ fstate # "Finished" => fgot = {}

FramedInv ==
    /\ FramedTypeOK
    /\ \/ /\ fmsg = {} /\ write_buffer = <<>> /\ sock = <<>> /\ read_buffer = <<>> /\ later = FALSE
          /\ fstate \in {"Waiting", "Errored"}
       \/ \E msg \in HandshakeMessages : fmsg = {msg} /\ (fstate # "Errored" => Transfer(msg))

(* Two parts of the stream, one behind the other, are a part of it.        *)
LEMMA AlongJoin ==
    ASSUME NEW stream \in Seq(Octets), NEW a \in Seq(Octets), NEW b \in Seq(Octets), NEW from \in Nat,
           Along(stream, from, a), Along(stream, from + Len(a), b)
    PROVE  a \o b \in Seq(Octets) /\ Len(a \o b) = Len(a) + Len(b) /\ Along(stream, from, a \o b)
  <1>1. a \o b \in Seq(Octets) /\ Len(a \o b) = Len(a) + Len(b)
    OBVIOUS
  <1>2. ASSUME NEW k \in 1 .. Len(a \o b) PROVE (a \o b)[k] = stream[from + k]
    <2>1. k \in 1 .. (Len(a) + Len(b)) /\ Len(a) \in Nat /\ Len(b) \in Nat
      BY <1>1
    <2>2. CASE k <= Len(a)
      <3>1. k \in 1 .. Len(a) /\ (a \o b)[k] = a[k]
        BY <2>1, <2>2
      <3> QED
        BY <3>1, Zenon DEF Along
    <2>3. CASE k > Len(a)
      <3>0. k - Len(a) \in Nat
        BY <2>1, <2>3
      <3>1. PICK i \in Nat : i = k - Len(a)
        BY <3>0, Zenon
      <3>2. i \in 1 .. Len(b) /\ (a \o b)[k] = b[i] /\ from + Len(a) + i = from + k
        BY <2>1, <2>3, <3>1
      <3> QED
        BY <3>2 DEF Along
    <2> QED
      BY <2>1, <2>2, <2>3
  <1> QED
    BY <1>1, <1>2 DEF Along

(* A part of the stream is cut in two.                                     *)
LEMMA AlongCut ==
    ASSUME NEW stream \in Seq(Octets), NEW a \in Seq(Octets), NEW from \in Nat, NEW n \in 0 .. Len(a),
           Along(stream, from, a)
    PROVE  /\ SubSeq(a, 1, n) \in Seq(Octets) /\ Len(SubSeq(a, 1, n)) = n
           /\ SubSeq(a, n + 1, Len(a)) \in Seq(Octets) /\ Len(SubSeq(a, n + 1, Len(a))) = Len(a) - n
           /\ Along(stream, from, SubSeq(a, 1, n))
           /\ Along(stream, from + n, SubSeq(a, n + 1, Len(a)))
  <1>1. SubSeq(a, 1, n) \in Seq(Octets) /\ Len(SubSeq(a, 1, n)) = n /\ \A k \in 1 .. n : SubSeq(a, 1, n)[k] = a[k]
    OBVIOUS
  <1>2. /\ SubSeq(a, n + 1, Len(a)) \in Seq(Octets) /\ Len(SubSeq(a, n + 1, Len(a))) = Len(a) - n
        /\ \A k \in 1 .. (Len(a) - n) : SubSeq(a, n + 1, Len(a))[k] = a[n + k]
    OBVIOUS
  <1>3. Along(stream, from, SubSeq(a, 1, n))
    BY <1>1 DEF Along
  <1>4. ASSUME NEW k \in 1 .. (Len(a) - n) PROVE a[n + k] = stream[from + n + k]
    <2>1. n + k \in 1 .. Len(a) /\ from + (n + k) = from + n + k
      OBVIOUS
    <2> QED
      BY <2>1 DEF Along
  <1>5. Along(stream, from + n, SubSeq(a, n + 1, Len(a)))
    BY <1>2, <1>4, Zenon DEF Along
  <1> QED
    BY <1>1, <1>2, <1>3, <1>5

(* Two parts of the stream, one behind the other.                          *)
InARow(stream, from, a, b) ==
    /\ stream \in Seq(Octets) /\ a \in Seq(Octets) /\ b \in Seq(Octets) /\ from \in Nat
    /\ Along(stream, from, a) /\ Along(stream, from + Len(a), b)

(* n bytes may go from the second to the first, and have gone.             *)
Movable(stream, from, a, b, n) == InARow(stream, from, a, b) /\ n \in 0 .. Len(b)

Moved(stream, from, a, b, n, c, d) ==
    /\ InARow(stream, from, c, d)
    /\ Len(c) = Len(a) + n /\ Len(d) = Len(b) - n

(* Bytes go from the front of one part to the end of the part before it.   *)
LEMMA AlongMove ==
    ASSUME NEW stream, NEW from, NEW a, NEW b, NEW n, Movable(stream, from, a, b, n)
    PROVE  Moved(stream, from, a, b, n, a \o SubSeq(b, 1, n), SubSeq(b, n + 1, Len(b)))
  <1>0. /\ stream \in Seq(Octets) /\ a \in Seq(Octets) /\ b \in Seq(Octets) /\ from \in Nat
        /\ Along(stream, from, a) /\ Along(stream, from + Len(a), b) /\ n \in 0 .. Len(b)
    BY Zenon DEF Movable, InARow
  <1>1. PICK from2 \in Nat : from2 = from + Len(a)
    BY <1>0
  <1>2. PICK front : front = SubSeq(b, 1, n)
    BY Zenon
  <1>3. /\ front \in Seq(Octets) /\ Len(front) = n /\ Along(stream, from2, front)
        /\ SubSeq(b, n + 1, Len(b)) \in Seq(Octets) /\ Len(SubSeq(b, n + 1, Len(b))) = Len(b) - n
        /\ Along(stream, from2 + n, SubSeq(b, n + 1, Len(b)))
    BY <1>0, <1>1, <1>2, AlongCut
  <1>4. Along(stream, from + Len(a), front)
    BY <1>1, <1>3, Zenon
  <1>5. a \o front \in Seq(Octets) /\ Len(a \o front) = Len(a) + Len(front) /\ Along(stream, from, a \o front)
    BY <1>0, <1>3, <1>4, AlongJoin, Zenon
  <1>6. from2 + n = from + Len(a \o front)
    BY <1>0, <1>1, <1>3, <1>5
  <1> QED
    BY <1>0, <1>2, <1>3, <1>5, <1>6, Zenon DEF Moved, InARow

(* Parts of the same length along the same bytes are the same.             *)
LEMMA AlongSame ==
    ASSUME NEW stream, NEW from, NEW a \in Seq(Octets), NEW b \in Seq(Octets), Len(a) = Len(b),
           Along(stream, from, a), Along(stream, from, b)
    PROVE  a = b
  <1>1. \A k \in 1 .. Len(a) : a[k] = b[k]
    BY DEF Along
  <1> QED
    BY <1>1

(* A stream begins with its first part and goes on with the second.        *)
LEMMA AlongParts ==
    ASSUME NEW a \in Seq(Octets), NEW b \in Seq(Octets)
    PROVE  /\ a \o b \in Seq(Octets) /\ Len(a \o b) = Len(a) + Len(b)
           /\ Along(a \o b, 0, a) /\ Along(a \o b, Len(a), b)
  <1>1. a \o b \in Seq(Octets) /\ Len(a \o b) = Len(a) + Len(b)
    OBVIOUS
  <1>2. \A k \in 1 .. Len(a) : (a \o b)[k] = a[k] /\ 0 + k = k
    OBVIOUS
  <1>3. ASSUME NEW k \in 1 .. Len(b) PROVE (a \o b)[Len(a) + k] = b[k]
    <2>1. PICK i \in Nat : i = Len(a) + k
      OBVIOUS
    <2>2. (a \o b)[i] = b[i - Len(a)] /\ i - Len(a) = k
      BY <2>1
    <2> QED
      BY <2>1, <2>2
  <1> QED
    BY <1>1, <1>2, <1>3 DEF Along

(* A field of n bytes that lies in a stream behind its first bytes.        *)
FieldAt(stream, from, n, a) ==
    /\ stream \in Seq(Octets) /\ a \in Seq(Octets) /\ from \in Nat /\ n \in Nat
    /\ Len(a) = n /\ from + n <= Len(stream) /\ Along(stream, from, a)

(* A field is found by its place.                                          *)
LEMMA FieldTaken ==
    ASSUME NEW stream, NEW from, NEW n, NEW a, FieldAt(stream, from, n, a)
    PROVE  SubSeq(stream, from + 1, from + n) = a
  <1>0. /\ stream \in Seq(Octets) /\ a \in Seq(Octets) /\ from \in Nat /\ n \in Nat
        /\ Len(a) = n /\ from + n <= Len(stream)
    BY DEF FieldAt
  <1>1. PICK m \in Nat \ {0} : m = from + 1
    BY <1>0
  <1>2. PICK to \in Nat : to = from + n
    BY <1>0
  <1>3. to <= Len(stream) /\ to - m + 1 = n
    BY <1>0, <1>1, <1>2
  <1>4. /\ SubSeq(stream, m, to) \in Seq(Octets) /\ Len(SubSeq(stream, m, to)) = n
        /\ \A k \in 1 .. n : SubSeq(stream, m, to)[k] = stream[m + k - 1]
    BY <1>0, <1>3
  <1>5. ASSUME NEW k \in 1 .. n PROVE SubSeq(stream, m, to)[k] = a[k]
    <2>1. m + k - 1 = from + k
      BY <1>0, <1>1
    <2>2. a[k] = stream[from + k]
      BY Zenon DEF FieldAt, Along
    <2> QED
      BY <1>4, <2>1, <2>2, Zenon
  <1>6. \A s \in Seq(Octets) : Len(s) = n /\ (\A k \in 1 .. n : s[k] = a[k]) => s = a
    BY <1>0
  <1>7. SubSeq(stream, m, to) = a
    BY <1>4, <1>5, <1>6, Zenon
  <1> QED
    BY <1>1, <1>2, <1>7, Zenon

(* A part of the beginning of a stream is a part of the stream.            *)
LEMMA AlongLonger ==
    ASSUME NEW a \in Seq(Octets), NEW b \in Seq(Octets), NEW part \in Seq(Octets), NEW from \in Nat, NEW n \in Nat,
           NEW size \in Nat, Len(part) = n, Len(a) = size, from + n <= size, Along(a, from, part)
    PROVE  Along(a \o b, from, part)
  <1>1. ASSUME NEW k \in 1 .. Len(part) PROVE (a \o b)[from + k] = part[k]
    <2>1. PICK i \in 1 .. Len(a) : i = from + k
      OBVIOUS
    <2>2. (a \o b)[i] = a[i]
      OBVIOUS
    <2> QED
      BY <2>1, <2>2 DEF Along
  <1> QED
    BY <1>1 DEF Along

(* Five sequences in a row, all but the second of fixed lengths.           *)
Joined(stream, l, a, b, c, d, e) ==
    /\ {a, b, c, d, e} \subseteq Seq(Octets) /\ l \in Nat
    /\ Len(a) = 1 /\ Len(b) = l /\ Len(c) = 8 /\ Len(d) = 20 /\ Len(e) = 20
    /\ stream = a \o b \o c \o d \o e

Parted(stream, l, a, b, c, d, e) ==
    /\ stream \in Seq(Octets) /\ Len(stream) = l + 49
    /\ Along(stream, 0, a) /\ Along(stream, 1, b) /\ Along(stream, l + 1, c)
    /\ Along(stream, l + 1 + 8, d) /\ Along(stream, l + 1 + 8 + 20, e)

(* Where the five are.                                                     *)
LEMMA FiveParts ==
    ASSUME NEW stream, NEW l, NEW a, NEW b, NEW c, NEW d, NEW e, Joined(stream, l, a, b, c, d, e)
    PROVE  Parted(stream, l, a, b, c, d, e)
  <1>0. /\ a \in Seq(Octets) /\ b \in Seq(Octets) /\ c \in Seq(Octets) /\ d \in Seq(Octets) /\ e \in Seq(Octets)
        /\ l \in Nat /\ Len(a) = 1 /\ Len(b) = l /\ Len(c) = 8 /\ Len(d) = 20 /\ Len(e) = 20
        /\ stream = a \o b \o c \o d \o e
    BY Zenon DEF Joined
  <1> DEFINE two == a \o b
             three == two \o c
             four == three \o d
             five == four \o e
  <1>1. two \in Seq(Octets) /\ Len(two) = l + 1 /\ Along(two, 0, a) /\ Along(two, 1, b)
    <2>1. two \in Seq(Octets) /\ Len(two) = Len(a) + Len(b) /\ Along(two, 0, a) /\ Along(two, Len(a), b)
      BY <1>0, AlongParts, Zenon
    <2>2. 1 + l = l + 1
      BY <1>0
    <2> QED
      BY <1>0, <2>1, <2>2, Zenon
  <1> HIDE DEF two
  <1>2. three \in Seq(Octets) /\ Len(three) = l + 1 + 8 /\ Along(three, 0, two) /\ Along(three, l + 1, c)
    <2>1. three \in Seq(Octets) /\ Len(three) = Len(two) + Len(c) /\ Along(three, 0, two) /\ Along(three, Len(two), c)
      BY <1>0, <1>1, AlongParts, Zenon
    <2> QED
      BY <1>0, <1>1, <2>1, Zenon
  <1>3. Along(three, 0, a) /\ Along(three, 1, b)
    <2>1. l + 1 \in Nat /\ 0 \in Nat /\ 1 \in Nat /\ 0 + 1 <= l + 1 /\ 1 + l <= l + 1
      BY <1>0
    <2> QED
      BY <1>0, <1>1, <2>1, AlongLonger, Zenon
  <1> HIDE DEF three
  <1>4. four \in Seq(Octets) /\ Len(four) = l + 1 + 8 + 20 /\ Along(four, l + 1 + 8, d)
    <2>1. four \in Seq(Octets) /\ Len(four) = Len(three) + Len(d) /\ Along(four, Len(three), d)
      BY <1>0, <1>2, AlongParts, Zenon
    <2> QED
      BY <1>0, <1>2, <2>1, Zenon
  <1>5. Along(four, 0, a) /\ Along(four, 1, b) /\ Along(four, l + 1, c)
    <2>1. /\ l + 1 + 8 \in Nat /\ 0 \in Nat /\ 1 \in Nat /\ l + 1 \in Nat /\ 8 \in Nat
          /\ 0 + 1 <= l + 1 + 8 /\ 1 + l <= l + 1 + 8 /\ (l + 1) + 8 <= l + 1 + 8
      BY <1>0
    <2>2. Along(four, 0, a)
      BY <1>0, <1>2, <1>3, <2>1, AlongLonger, Zenon
    <2>3. Along(four, 1, b)
      BY <1>0, <1>2, <1>3, <2>1, AlongLonger, Zenon
    <2>4. Along(four, l + 1, c)
      BY <1>0, <1>2, <2>1, AlongLonger, Zenon
    <2> QED
      BY <1>0, <2>2, <2>3, <2>4
  <1> HIDE DEF four
  <1>6. five \in Seq(Octets) /\ Len(five) = l + 49 /\ Along(five, l + 1 + 8 + 20, e)
    <2>1. five \in Seq(Octets) /\ Len(five) = Len(four) + Len(e) /\ Along(five, Len(four), e)
      BY <1>0, <1>4, AlongParts, Zenon
    <2>2. l + 1 + 8 + 20 + 20 = l + 49
      BY <1>0
    <2> QED
      BY <1>0, <1>4, <2>1, <2>2, ZenonT(60)
  <1>7. Along(five, 0, a) /\ Along(five, 1, b) /\ Along(five, l + 1, c) /\ Along(five, l + 1 + 8, d)
    <2>1. /\ l + 1 + 8 + 20 \in Nat /\ 0 \in Nat /\ 1 \in Nat /\ l + 1 \in Nat /\ l + 1 + 8 \in Nat
          /\ 8 \in Nat /\ 20 \in Nat
          /\ 0 + 1 <= l + 1 + 8 + 20 /\ 1 + l <= l + 1 + 8 + 20 /\ (l + 1) + 8 <= l + 1 + 8 + 20
          /\ (l + 1 + 8) + 20 <= l + 1 + 8 + 20
      BY <1>0
    <2>2. Along(five, 0, a)
      BY <1>0, <1>4, <1>5, <2>1, AlongLonger, Zenon
    <2>3. Along(five, 1, b)
      BY <1>0, <1>4, <1>5, <2>1, AlongLonger, Zenon
    <2>4. Along(five, l + 1, c)
      BY <1>0, <1>4, <1>5, <2>1, AlongLonger, Zenon
    <2>5. Along(five, l + 1 + 8, d)
      BY <1>0, <1>4, <2>1, AlongLonger, Zenon
    <2> QED
      BY <1>0, <2>2, <2>3, <2>4, <2>5
  <1> HIDE DEF five
  <1>8. five = stream
    BY <1>0, Zenon DEF two, three, four, five
  <1> QED
    BY <1>6, <1>7, <1>8, Zenon DEF Parted

-----------------------------------------------------------------------------
(* The name of a protocol fits its length byte.                            *)
LEMMA NameFits ==
    ASSUME NEW msg \in HandshakeMessages
    PROVE  /\ ProtocolBytes(msg.prot) \in Seq(Octets) /\ Len(ProtocolBytes(msg.prot)) \in 0 .. 255
           /\ msg.prot = IF ProtocolBytes(msg.prot) = BT_PROTOCOL THEN BitTorrent
                         ELSE [custom |-> {ProtocolBytes(msg.prot)}]
  <1>1. msg.prot = [custom |-> msg.prot.custom]
    <2>1. msg = [prot |-> [custom |-> msg.prot.custom], ext |-> msg.ext, hash |-> msg.hash, pid |-> msg.pid]
      BY MessagesFit
    <2> QED
      BY <2>1
  <1>2. BT_PROTOCOL \in Seq(Octets) /\ Len(BT_PROTOCOL) = 19
    BY DEF BT_PROTOCOL, BT_PROTOCOL_LEN, Octets
  <1>3. CASE msg.prot.custom = {}
    <2>1. ProtocolBytes(msg.prot) = BT_PROTOCOL
      BY <1>3 DEF ProtocolBytes
    <2>2. 19 \in 0 .. 255
      OBVIOUS
    <2>3. msg.prot = BitTorrent
      BY <1>1, <1>3 DEF BitTorrent
    <2> QED
      BY <1>2, <2>1, <2>2, <2>3, Zenon
  <1>4. CASE msg.prot.custom # {}
    <2>1. PICK name : name \in msg.prot.custom
      BY <1>4, Zenon
    <2>2. msg.prot.custom = {name} /\ name \in Seq(Octets) /\ Len(name) <= 255 /\ name # BT_PROTOCOL
      BY <2>1, MessagesFit, Zenon
    <2>3. ProtocolBytes(msg.prot) = name
      BY <2>2 DEF ProtocolBytes
    <2>4. Len(name) \in 0 .. 255
      <3>1. \A s \in Seq(Octets) : Len(s) \in Nat
        OBVIOUS
      <3>2. \A n \in Nat : n <= 255 => n \in 0 .. 255
        OBVIOUS
      <3> QED
        BY <2>2, <3>1, <3>2, Zenon
    <2> QED
      BY <1>1, <2>2, <2>3, <2>4, Zenon
  <1> QED
    BY <1>3, <1>4, Zenon

(* The lengths of the other fields are fixed.                              *)
LEMMA FieldsFit ==
    ASSUME NEW msg \in HandshakeMessages
    PROVE  /\ msg.ext \in Seq(Octets) /\ Len(msg.ext) = 8
           /\ msg.hash \in Seq(Octets) /\ Len(msg.hash) = 20
           /\ msg.pid \in Seq(Octets) /\ Len(msg.pid) = 20
           /\ msg = [prot |-> msg.prot, ext |-> msg.ext, hash |-> msg.hash, pid |-> msg.pid]
  <1>1. msg = [prot |-> [custom |-> msg.prot.custom], ext |-> msg.ext, hash |-> msg.hash, pid |-> msg.pid]
    BY MessagesFit
  <1>2. msg = [prot |-> msg.prot, ext |-> msg.ext, hash |-> msg.hash, pid |-> msg.pid]
    BY <1>1
  <1> QED
    BY <1>2, MessagesFit, Zenon DEF NUM_EXTENSION_BYTES, INFO_HASH_LEN, PEER_ID_LEN

(* The bytes of a message, the length of whose protocol's name is l.       *)
Written(msg, l, bytes) ==
    /\ l \in 0 .. 255 /\ bytes \in Seq(Octets) /\ Len(bytes) = l + 49 /\ bytes[1] = l
    /\ FieldAt(bytes, 1, l, ProtocolBytes(msg.prot))
    /\ FieldAt(bytes, l + 1, 8, msg.ext)
    /\ FieldAt(bytes, l + 1 + 8, 20, msg.hash)
    /\ FieldAt(bytes, l + 1 + 8 + 20, 20, msg.pid)

(* Where the fields of a message are in its bytes.                         *)
LEMMA WrittenFields ==
    ASSUME NEW msg \in HandshakeMessages
    PROVE  Written(msg, Len(ProtocolBytes(msg.prot)), HandshakeWrite(msg))
  <1>1. PICK name : name = ProtocolBytes(msg.prot)
    BY Zenon
  <1>2. PICK l : l = Len(name)
    BY Zenon
  <1>3. PICK bytes : bytes = HandshakeWrite(msg)
    BY Zenon
  <1>4. name \in Seq(Octets) /\ l \in 0 .. 255
    BY <1>1, <1>2, NameFits, Zenon
  <1>5. /\ msg.ext \in Seq(Octets) /\ Len(msg.ext) = 8
        /\ msg.hash \in Seq(Octets) /\ Len(msg.hash) = 20
        /\ msg.pid \in Seq(Octets) /\ Len(msg.pid) = 20
    BY FieldsFit, Zenon
  <1>6. \A n \in 0 .. 255 : n \in Nat /\ n % 256 = n /\ n \in Octets
    BY DEF Octets
  <1>7. \A n \in Octets : <<n>> \in Seq(Octets) /\ Len(<<n>>) = 1 /\ <<n>>[1] = n
    OBVIOUS
  <1>8. PICK first : first = <<l>>
    BY Zenon
  <1>9. first \in Seq(Octets) /\ Len(first) = 1 /\ first[1] = l /\ l \in Nat
    BY <1>4, <1>6, <1>7, <1>8, Zenon
  <1>10. bytes = first \o name \o msg.ext \o msg.hash \o msg.pid
    <2>1. Len(ProtocolBytes(msg.prot)) % 256 = l
      BY <1>1, <1>2, <1>4, <1>6, Zenon
    <2> QED
      BY <1>1, <1>3, <1>8, <2>1, Zenon DEF HandshakeWrite, ProtocolWrite
  <1>11. Joined(bytes, l, first, name, msg.ext, msg.hash, msg.pid)
    BY <1>2, <1>4, <1>5, <1>9, <1>10, Zenon DEF Joined
  <1>12. Parted(bytes, l, first, name, msg.ext, msg.hash, msg.pid)
    BY <1>11, FiveParts, Zenon
  <1>13. bytes[1] = l
    <2>1. \A k \in 1 .. Len(first) : first[k] = bytes[0 + k]
      BY <1>12, Zenon DEF Parted, Along
    <2>2. first[1] = bytes[1]
      BY <1>9, <2>1
    <2> QED
      BY <1>9, <2>2, Zenon
  <1>14. /\ 1 \in Nat /\ l \in Nat /\ l + 1 \in Nat /\ l + 1 + 8 \in Nat /\ l + 1 + 8 + 20 \in Nat /\ 8 \in Nat /\ 20 \in Nat
         /\ 1 + l <= l + 49 /\ (l + 1) + 8 <= l + 49 /\ (l + 1 + 8) + 20 <= l + 49 /\ (l + 1 + 8 + 20) + 20 <= l + 49
    BY <1>9
  <1>15. FieldAt(bytes, 1, l, name)
    BY <1>2, <1>4, <1>12, <1>14, Zenon DEF Parted, FieldAt
  <1>16. FieldAt(bytes, l + 1, 8, msg.ext)
    BY <1>5, <1>12, <1>14, Zenon DEF Parted, FieldAt
  <1>17. FieldAt(bytes, l + 1 + 8, 20, msg.hash)
    BY <1>5, <1>12, <1>14, Zenon DEF Parted, FieldAt
  <1>18. FieldAt(bytes, l + 1 + 8 + 20, 20, msg.pid)
    BY <1>5, <1>12, <1>14, Zenon DEF Parted, FieldAt
  <1>19. bytes \in Seq(Octets) /\ Len(bytes) = l + 49
    BY <1>12, Zenon DEF Parted
  <1>20. Written(msg, l, bytes)
    BY <1>1, <1>4, <1>13, <1>15, <1>16, <1>17, <1>18, <1>19, Zenon DEF Written
  <1> QED
    BY <1>1, <1>2, <1>3, <1>20, Zenon

(* Parsing gives back the message that was written, and its first byte the *)
(* length of all of it.                                                    *)
LEMMA ParsedIsWritten ==
    ASSUME NEW msg \in HandshakeMessages, NEW bytes, bytes = HandshakeWrite(msg)
    PROVE  /\ Parses(bytes) /\ parse_remote_handshake(bytes) = msg
           /\ bytes \in Seq(Octets) /\ Len(bytes) = write_len_with_protocol_len(bytes[1]) /\ Len(bytes) > 0
  <1>1. PICK l : l = Len(ProtocolBytes(msg.prot))
    BY Zenon
  <1>2. Written(msg, l, bytes)
    BY <1>1, WrittenFields, Zenon
  <1>3. l \in 0 .. 255 /\ bytes \in Seq(Octets) /\ Len(bytes) = l + 49 /\ bytes[1] = l
    BY <1>2, Zenon DEF Written
  <1>4. l \in 0 .. 255
    BY <1>3, Zenon
  <1>5. l + 49 >= 1 + l + 8 + 20 + 20 /\ l + 49 = 1 + l + 8 + 20 + 20 /\ l + 49 > 0 /\ 1 + 1 = 2 /\ 1 + l = l + 1
    BY <1>4
  <1>6. SubSeq(bytes, 1 + 1, 1 + l) = ProtocolBytes(msg.prot)
    <2>1. FieldAt(bytes, 1, l, ProtocolBytes(msg.prot))
      BY <1>2, Zenon DEF Written
    <2> QED
      BY <2>1, FieldTaken, Zenon
  <1>7. SubSeq(bytes, l + 1 + 1, l + 1 + 8) = msg.ext
    <2>1. FieldAt(bytes, l + 1, 8, msg.ext)
      BY <1>2, Zenon DEF Written
    <2> QED
      BY <2>1, FieldTaken, Zenon
  <1>8. SubSeq(bytes, l + 1 + 8 + 1, l + 1 + 8 + 20) = msg.hash
    <2>1. FieldAt(bytes, l + 1 + 8, 20, msg.hash)
      BY <1>2, Zenon DEF Written
    <2> QED
      BY <2>1, FieldTaken, Zenon
  <1>9. SubSeq(bytes, l + 1 + 8 + 20 + 1, l + 1 + 8 + 20 + 20) = msg.pid
    <2>1. FieldAt(bytes, l + 1 + 8 + 20, 20, msg.pid)
      BY <1>2, Zenon DEF Written
    <2> QED
      BY <2>1, FieldTaken, Zenon
  <1>10. parse_real_protocol(bytes) = msg.prot
    <2>1. SubSeq(bytes, 2, bytes[1] + 1) = ProtocolBytes(msg.prot)
      BY <1>3, <1>5, <1>6, Zenon
    <2> QED
      BY <2>1, NameFits, Zenon DEF parse_real_protocol
  <1>11. parse_remote_handshake(bytes) = [prot |-> msg.prot, ext |-> msg.ext, hash |-> msg.hash, pid |-> msg.pid]
    BY <1>3, <1>7, <1>8, <1>9, <1>10, Zenon
       DEF parse_remote_handshake, NUM_EXTENSION_BYTES, INFO_HASH_LEN, PEER_ID_LEN
  <1>12. Parses(bytes) /\ Len(bytes) = write_len_with_protocol_len(bytes[1]) /\ Len(bytes) > 0
    BY <1>3, <1>5, Zenon DEF Parses, write_len_with_protocol_len, NUM_EXTENSION_BYTES, INFO_HASH_LEN, PEER_ID_LEN
  <1> QED
    BY <1>3, <1>11, <1>12, FieldsFit, Zenon

-----------------------------------------------------------------------------
(* The steps of the writer and of the reader.                              *)

(* The stream of a message is its bytes with the later ones behind them.   *)
LEMMA StreamFacts ==
    ASSUME NEW msg \in HandshakeMessages
    PROVE  /\ Stream(msg) \in Seq(Octets) /\ HandshakeWrite(msg) \in Seq(Octets) /\ LaterBytes \in Seq(Octets)
           /\ Along(Stream(msg), 0, HandshakeWrite(msg))
           /\ Along(Stream(msg), Len(HandshakeWrite(msg)), LaterBytes)
  <1>1. HandshakeWrite(msg) \in Seq(Octets)
    BY ParsedIsWritten, Zenon
  <1>2. LaterBytes \in Seq(Octets)
    BY MessagesFit, Zenon
  <1> QED
    BY <1>1, <1>2, AlongParts, Zenon DEF Stream

(* Nothing lies anywhere.                                                  *)
LEMMA AlongNothing ==
    ASSUME NEW stream, NEW from
    PROVE  Along(stream, from, <<>>)
  BY DEF Along

(* start_send: all of the message is in the writer's buffer.               *)
LEMMA SendSteps ==
    ASSUME FramedInv, FramedStartSend
    PROVE  FramedInv'
  <1>1. PICK msg \in HandshakeMessages : fmsg' = {msg} /\ write_buffer' = HandshakeWrite(msg)
    BY Zenon DEF FramedStartSend
  <1>2. /\ sock = <<>> /\ read_buffer = <<>> /\ later = FALSE /\ fstate \in {"Waiting", "Errored"}
        /\ UNCHANGED <<sock, later, read_buffer, read_len, fstate, fgot>>
    BY DEF FramedInv, FramedStartSend
  <1>3. FramedTypeOK'
    BY <1>1, <1>2, StreamFacts DEF FramedInv, FramedTypeOK
  <1>4. ASSUME fstate' # "Errored" PROVE Transfer(msg)'
    <2>1. sock' = <<>> /\ read_buffer' = <<>> /\ later' = FALSE /\ fstate' = "Waiting"
      BY <1>2, <1>4
    <2>2. PICK n \in Nat : n = Len(HandshakeWrite(msg))
      BY StreamFacts
    <2>3. Len(<<>>) = 0 /\ 0 + 0 + n = n + 0 /\ 0 + 0 = 0
      BY <2>2
    <2>4. Taken(msg)' = 0 /\ Total(msg)' = n + 0
      BY <2>1, <2>2, <2>3 DEF Taken, Total
    <2> QED
      BY <1>1, <2>1, <2>2, <2>3, <2>4, StreamFacts, AlongNothing DEF Transfer
  <1> QED
    BY <1>1, <1>3, <1>4 DEF FramedInv

(* poll_flush: bytes go from the writer's buffer to the socket.            *)
LEMMA FlushSteps ==
    ASSUME FramedInv, FramedFlush
    PROVE  FramedInv'
  <1>1. PICK n \in 1 .. Len(write_buffer) :
            /\ sock' = sock \o SubSeq(write_buffer, 1, n)
            /\ write_buffer' = SubSeq(write_buffer, n + 1, Len(write_buffer))
    BY Zenon DEF FramedFlush
  <1>2. /\ sock \in Seq(Octets) /\ write_buffer \in Seq(Octets) /\ write_buffer # <<>>
        /\ UNCHANGED <<fmsg, later, read_buffer, read_len, fstate, fgot>>
    BY <1>1 DEF FramedInv, FramedTypeOK, FramedFlush
  <1>3. PICK msg \in HandshakeMessages : fmsg = {msg} /\ (fstate # "Errored" => Transfer(msg))
    BY <1>2 DEF FramedInv
  <1>4. sock' \in Seq(Octets) /\ write_buffer' \in Seq(Octets)
    BY <1>1, <1>2, SMTT(40), Z3T(40)
  <1>5. FramedTypeOK'
    BY <1>2, <1>4 DEF FramedInv, FramedTypeOK
  <1>6. ASSUME fstate' # "Errored" PROVE Transfer(msg)'
    <2>1. Transfer(msg) /\ Taken(msg)' = Taken(msg) /\ Total(msg)' = Total(msg)
      BY <1>2, <1>3, <1>6 DEF Taken, Total
    <2>2. PICK taken \in Nat : taken = Taken(msg)
      BY StreamFacts DEF Taken, FramedInv, FramedTypeOK
    <2>3. n \in 0 .. Len(write_buffer)
      BY <1>1
    <2>4. InARow(Stream(msg), taken, sock, write_buffer)
      BY <1>2, <2>1, <2>2, StreamFacts, Zenon DEF Transfer, InARow
    <2>5. InARow(Stream(msg), taken, sock', write_buffer')
          /\ Len(sock') = Len(sock) + n /\ Len(write_buffer') = Len(write_buffer) - n
      <3>1. Movable(Stream(msg), taken, sock, write_buffer, n)
        BY <2>3, <2>4, Zenon DEF Movable
      <3>2. Moved(Stream(msg), taken, sock, write_buffer, n,
                  sock \o SubSeq(write_buffer, 1, n), SubSeq(write_buffer, n + 1, Len(write_buffer)))
        BY <3>1, AlongMove, Zenon
      <3> QED
        BY <1>1, <3>2, Zenon DEF Moved
    <2>6. taken + Len(sock') + Len(write_buffer') = taken + Len(sock) + Len(write_buffer)
      BY <1>2, <2>3, <2>5
    <2>7. later = FALSE
      BY <1>2, <2>1 DEF Transfer, FramedInv, FramedTypeOK
    <2> QED
      BY <1>2, <2>1, <2>2, <2>5, <2>6, <2>7 DEF Transfer, InARow
  <1> QED
    BY <1>2, <1>3, <1>5, <1>6 DEF FramedInv

(* The owner of the socket goes on: the later bytes are behind all that is *)
(* in the socket.                                                          *)
LEMMA LaterSteps ==
    ASSUME FramedInv, WriteLater
    PROVE  FramedInv'
  <1>1. /\ fmsg # {} /\ write_buffer = <<>> /\ later = FALSE
        /\ later' = TRUE /\ sock' = sock \o LaterBytes
        /\ UNCHANGED <<fmsg, write_buffer, read_buffer, read_len, fstate, fgot>>
    BY DEF WriteLater, FramedInv, FramedTypeOK
  <1>2. PICK msg \in HandshakeMessages : fmsg = {msg} /\ (fstate # "Errored" => Transfer(msg))
    BY <1>1 DEF FramedInv
  <1>3. sock \in Seq(Octets) /\ LaterBytes \in Seq(Octets)
    BY StreamFacts DEF FramedInv, FramedTypeOK
  <1>4. sock' \in Seq(Octets) /\ Len(sock') = Len(sock) + Len(LaterBytes)
    BY <1>1, <1>3
  <1>5. FramedTypeOK'
    BY <1>1, <1>4 DEF FramedInv, FramedTypeOK
  <1>6. ASSUME fstate' # "Errored" PROVE Transfer(msg)'
    <2>1. Transfer(msg) /\ Taken(msg)' = Taken(msg)
      BY <1>1, <1>2, <1>6 DEF Taken
    <2>2. PICK taken \in Nat : taken = Taken(msg)
      BY StreamFacts DEF Taken, FramedInv, FramedTypeOK
    <2>3. PICK size \in Nat : size = Len(HandshakeWrite(msg))
      BY StreamFacts
    <2>4. Total(msg) = size + 0 /\ Total(msg)' = size + Len(LaterBytes)
      BY <1>1, <2>3 DEF Total
    <2>5. taken + Len(sock) = size
      BY <1>1, <1>3, <2>1, <2>2, <2>4 DEF Transfer
    <2>6. Along(Stream(msg), taken, sock) /\ Along(Stream(msg), taken + Len(sock), LaterBytes)
      BY <2>1, <2>2, <2>3, <2>5, StreamFacts, Zenon DEF Transfer
    <2>7. Along(Stream(msg), taken, sock')
      BY <1>1, <1>3, <2>6, StreamFacts, AlongJoin
    <2>8. taken + Len(sock') + Len(<<>>) = size + Len(LaterBytes)
      <3>1. Len(sock) \in Nat /\ Len(LaterBytes) \in Nat /\ Len(<<>>) = 0
        BY <1>3
      <3> QED
        BY <1>4, <2>5, <3>1
    <2> QED
      BY <1>1, <2>1, <2>2, <2>4, <2>7, <2>8, AlongNothing DEF Transfer
  <1> QED
    BY <1>1, <1>2, <1>5, <1>6 DEF FramedInv

(* poll_next in Waiting: the first byte says how long the message is.      *)
LEMMA WaitingSteps ==
    ASSUME FramedInv, PollWaiting
    PROVE  FramedInv'
  <1>1. /\ fstate = "Waiting" /\ sock # <<>> /\ read_buffer' = <<Head(sock)>> /\ sock' = Tail(sock)
        /\ read_len' = write_len_with_protocol_len(Head(sock)) /\ fstate' = "Reading"
        /\ UNCHANGED <<fmsg, write_buffer, later, fgot>>
    BY Zenon DEF PollWaiting
  <1>2. PICK msg \in HandshakeMessages : fmsg = {msg} /\ Transfer(msg)
    BY <1>1 DEF FramedInv
  <1>3. sock \in Seq(Octets) /\ fgot = {}
    BY <1>1 DEF FramedInv, FramedTypeOK
  <1>4. /\ read_buffer' \in Seq(Octets) /\ sock' \in Seq(Octets) /\ Head(sock) = sock[1]
        /\ Len(read_buffer') = 1 /\ Len(sock) >= 1 /\ Len(sock') = Len(sock) - 1
        /\ read_buffer'[1] = sock[1] /\ \A k \in 1 .. Len(sock') : sock'[k] = sock[1 + k]
    BY <1>1, <1>3
  <1>5. FramedTypeOK'
    BY <1>1, <1>3, <1>4 DEF FramedInv, FramedTypeOK
  <1>6. PICK stream : stream = Stream(msg)
    BY Zenon
  <1>7. PICK bytes : bytes = HandshakeWrite(msg)
    BY Zenon
  <1>8. bytes \in Seq(Octets) /\ Len(bytes) = write_len_with_protocol_len(bytes[1]) /\ Len(bytes) > 0
    BY <1>7, ParsedIsWritten, Zenon
  <1>9. read_buffer = <<>> /\ Taken(msg) = 0 /\ Taken(msg)' = 1
    BY <1>1, <1>2, <1>4, ZenonT(30) DEF Transfer, Taken
  <1>10. Along(stream, 0, sock) /\ Along(stream, Len(sock), write_buffer) /\ Len(sock) + Len(write_buffer) = Total(msg)
    BY <1>2, <1>3, <1>6, <1>9, SMTT(40), Z3T(40) DEF Transfer, FramedInv, FramedTypeOK
  <1>11. stream[1] = sock[1]
    BY <1>4, <1>10, SMTT(40), Z3T(40) DEF Along
  <1>12. stream[1] = bytes[1]
    <2>1. Along(stream, 0, bytes)
      BY <1>6, <1>7, StreamFacts, Zenon
    <2> QED
      BY <1>8, <2>1 DEF Along
  <1>13. read_len' = Len(bytes)
    BY <1>1, <1>4, <1>8, <1>11, <1>12, ZenonT(60)
  <1>14. Along(stream, 0, read_buffer')
    BY <1>4, <1>11 DEF Along
  <1>15. Along(stream, 1, sock')
    <2>1. ASSUME NEW k \in 1 .. Len(sock') PROVE sock'[k] = stream[1 + k]
      <3>1. 1 + k \in 1 .. Len(sock) /\ 0 + (1 + k) = 1 + k
        BY <1>3, <1>4
      <3> QED
        BY <1>4, <1>10, <3>1, Zenon DEF Along
    <2> QED
      BY <2>1, Zenon DEF Along
  <1>16. Total(msg)' = Total(msg)
    BY <1>1 DEF Total
  <1>17. 1 + Len(sock') = Len(sock) /\ 1 \in 1 .. Len(bytes)
    BY <1>3, <1>4, <1>8
  <1>18. Transfer(msg)'
    BY <1>1, <1>2, <1>4, <1>6, <1>7, <1>9, <1>10, <1>13, <1>14, <1>15, <1>16, <1>17, Zenon DEF Transfer
  <1> QED
    BY <1>1, <1>2, <1>5, <1>18 DEF FramedInv

(* poll_next in Reading: bytes go from the socket to the reader's buffer,  *)
(* which holds no more than the message.                                   *)
LEMMA ReadingSteps ==
    ASSUME FramedInv, PollReading
    PROVE  FramedInv'
  <1>1. fstate = "Reading" /\ UNCHANGED <<fmsg, write_buffer, later, read_len, fgot>>
    BY Zenon DEF PollReading
  <1>2. PICK n \in 1 .. Len(sock) :
            /\ Len(read_buffer) + n <= read_len
            /\ read_buffer' = read_buffer \o SubSeq(sock, 1, n)
            /\ sock' = SubSeq(sock, n + 1, Len(sock))
            /\ fstate' = IF IsFull(Len(read_buffer) + n, read_len) THEN "Ready" ELSE "Reading"
    BY Zenon DEF PollReading
  <1>3. PICK msg \in HandshakeMessages : fmsg = {msg} /\ Transfer(msg)
    BY <1>1 DEF FramedInv
  <1>4. read_buffer \in Seq(Octets) /\ sock \in Seq(Octets) /\ write_buffer \in Seq(Octets) /\ fgot = {}
    BY <1>1 DEF FramedInv, FramedTypeOK
  <1>5. PICK stream : stream = Stream(msg)
    BY Zenon
  <1>6. PICK size : size = Len(HandshakeWrite(msg))
    BY Zenon
  <1>7. /\ read_len = size /\ Len(read_buffer) \in 1 .. size /\ Taken(msg) = Len(read_buffer)
        /\ Along(stream, 0, read_buffer) /\ Along(stream, Len(read_buffer), sock)
        /\ Along(stream, Len(read_buffer) + Len(sock), write_buffer)
        /\ Len(read_buffer) + Len(sock) + Len(write_buffer) = Total(msg)
        /\ later => write_buffer = <<>>
    BY <1>1, <1>3, <1>5, <1>6 DEF Transfer, Taken
  <1>8. InARow(stream, 0, read_buffer, sock)
    <2>1. 0 + Len(read_buffer) = Len(read_buffer) /\ 0 \in Nat
      BY <1>4
    <2>2. stream \in Seq(Octets)
      BY <1>5, StreamFacts, Zenon
    <2> QED
      BY <1>4, <1>7, <2>1, <2>2, Zenon DEF InARow
  <1>9. n \in 0 .. Len(sock)
    BY <1>2
  <1>10. Moved(stream, 0, read_buffer, sock, n, read_buffer \o SubSeq(sock, 1, n), SubSeq(sock, n + 1, Len(sock)))
    <2>1. Movable(stream, 0, read_buffer, sock, n)
      BY <1>8, <1>9, Zenon DEF Movable
    <2> QED
      BY <2>1, AlongMove, Zenon
  <1>11. /\ InARow(stream, 0, read_buffer', sock')
         /\ Len(read_buffer') = Len(read_buffer) + n /\ Len(sock') = Len(sock) - n
    BY <1>2, <1>10, Zenon DEF Moved
  <1>12. /\ read_buffer' \in Seq(Octets) /\ sock' \in Seq(Octets)
         /\ Along(stream, 0, read_buffer') /\ Along(stream, 0 + Len(read_buffer'), sock')
    BY <1>11, Zenon DEF InARow
  <1>13. /\ 0 + Len(read_buffer') = Len(read_buffer') /\ Len(read_buffer') \in 1 .. size
         /\ Len(read_buffer') + Len(sock') = Len(read_buffer) + Len(sock)
    <2>1. Len(read_buffer) \in 1 .. size /\ Len(sock) \in Nat /\ Len(read_buffer) + n <= size
      BY <1>2, <1>4, <1>7
    <2> QED
      BY <1>9, <1>11, <2>1
  <1>14. \/ fstate' = "Ready" /\ Len(read_buffer') = size
         \/ fstate' = "Reading"
    BY <1>2, <1>7, <1>11, Zenon DEF IsFull
  <1>15. FramedTypeOK'
    BY <1>1, <1>4, <1>12, <1>14 DEF FramedInv, FramedTypeOK
  <1>16. Taken(msg)' = Len(read_buffer') /\ Total(msg)' = Total(msg)
    BY <1>1, <1>14 DEF Taken, Total
  <1>17. Transfer(msg)'
    BY <1>1, <1>5, <1>6, <1>7, <1>12, <1>13, <1>14, <1>16, ZenonT(30) DEF Transfer
  <1> QED
    BY <1>1, <1>3, <1>15, <1>17 DEF FramedInv

(* poll_next in Ready: the buffer holds the bytes of the message.          *)
LEMMA ReadySteps ==
    ASSUME FramedInv, PollReady
    PROVE  FramedInv'
  <1>1. fstate = "Ready" /\ read_buffer' = <<>> /\ UNCHANGED <<fmsg, write_buffer, sock, later, read_len>>
    BY Zenon DEF PollReady
  <1>2. PICK msg \in HandshakeMessages : fmsg = {msg} /\ Transfer(msg)
    BY <1>1 DEF FramedInv
  <1>3. read_buffer \in Seq(Octets)
    BY Zenon DEF FramedInv, FramedTypeOK
  <1>4. PICK bytes : bytes = HandshakeWrite(msg)
    BY Zenon
  <1>5. /\ Along(Stream(msg), 0, read_buffer) /\ Len(read_buffer) = Len(bytes)
        /\ Along(Stream(msg), 0, bytes) /\ bytes \in Seq(Octets)
    BY <1>1, <1>2, <1>4, StreamFacts DEF Transfer
  <1>6. read_buffer = bytes
    BY <1>3, <1>5, AlongSame, Zenon
  <1>7. Parses(read_buffer) /\ parse_remote_handshake(read_buffer) = msg
    BY <1>4, <1>6, ParsedIsWritten, Zenon
  <1>8. fgot' = {msg} /\ fstate' = "Finished"
    BY <1>7, Zenon DEF PollReady
  <1>9. FramedTypeOK'
    BY <1>1, <1>8 DEF FramedInv, FramedTypeOK
  <1>10. Taken(msg)' = Taken(msg) /\ Total(msg)' = Total(msg)
    BY <1>1, <1>4, <1>6, <1>8, ZenonT(30) DEF Taken, Total
  <1>11. Transfer(msg)'
    BY <1>1, <1>2, <1>8, <1>10, AlongNothing DEF Transfer
  <1> QED
    BY <1>1, <1>2, <1>9, <1>11 DEF FramedInv

(* The reader's buffer, the socket and the writer's buffer stay a cut of   *)
(* the stream.                                                             *)
LEMMA FramedInvariance == FramedSpec => []FramedInv
  <1>1. FramedInit => FramedInv
    <2>1. <<>> \in Seq(Octets)
      OBVIOUS
    <2>2. FramedInit => FramedTypeOK
      BY <2>1, Zenon DEF FramedInit, FramedTypeOK
    <2> QED
      BY <2>2, Zenon DEF FramedInit, FramedInv
  <1>2. FramedInv /\ [FramedNext]_framedVars => FramedInv'
    <2> SUFFICES ASSUME FramedInv, [FramedNext]_framedVars PROVE FramedInv'
      OBVIOUS
    <2>1. CASE PollError
      <3>1. FramedTypeOK'
        BY <2>1 DEF PollError, FramedInv, FramedTypeOK
      <3> QED
        BY <2>1, <3>1 DEF PollError, FramedInv
    <2>2. CASE UNCHANGED framedVars
      <3>1. \A msg : Transfer(msg)' <=> Transfer(msg)
        BY <2>2, Zenon DEF framedVars, Transfer, Taken, Total
      <3> QED
        BY <2>2, <3>1, Zenon DEF framedVars, FramedInv, FramedTypeOK
    <2> QED
      BY <2>1, <2>2, SendSteps, FlushSteps, LaterSteps, WaitingSteps, ReadingSteps, ReadySteps DEF FramedNext
  <1> QED
    BY <1>1, <1>2, PTL DEF FramedSpec

(* HandshakeIsCut: however the bytes of a handshake are cut on their way,  *)
(* FramedHandshake parses the message that was written and leaves in the   *)
(* socket every byte behind it, for every message that from_parts makes.   *)
THEOREM HandshakesAreCut == FramedSpec => []HandshakeIsCut
  <1>1. FramedInv => HandshakeIsCut
    <2> SUFFICES ASSUME FramedInv PROVE HandshakeIsCut
      OBVIOUS
    <2>1. CASE fstate # "Finished"
      BY <2>1 DEF HandshakeIsCut, HandshakeIsRead, LaterBytesStay, FramedInv, FramedTypeOK
    <2>2. CASE fstate = "Finished"
      <3>1. PICK msg \in HandshakeMessages : fmsg = {msg} /\ Transfer(msg)
        BY <2>2 DEF FramedInv
      <3>2. HandshakeIsRead
        BY <2>2, <3>1 DEF Transfer, HandshakeIsRead
      <3>3. PICK size \in Nat : size = Len(HandshakeWrite(msg))
        BY StreamFacts
      <3>4. Taken(msg) = size
        BY <2>2, <3>3 DEF Taken
      <3>5. sock \in Seq(Octets) /\ write_buffer \in Seq(Octets) /\ later \in BOOLEAN /\ LaterBytes \in Seq(Octets)
        BY StreamFacts DEF FramedInv, FramedTypeOK
      <3>6. CASE later
        <4>1. size + Len(sock) + 0 = size + Len(LaterBytes)
          BY <3>1, <3>3, <3>4, <3>6 DEF Transfer, Total
        <4>2. Len(sock) = Len(LaterBytes)
          BY <3>3, <3>5, <4>1
        <4>3. Along(Stream(msg), size, sock) /\ Along(Stream(msg), size, LaterBytes)
          BY <3>1, <3>3, <3>4, StreamFacts, Zenon DEF Transfer
        <4>4. sock = LaterBytes
          BY <3>5, <4>2, <4>3, AlongSame, Zenon
        <4> QED
          BY <3>2, <3>6, <4>4 DEF HandshakeIsCut, LaterBytesStay
      <3>7. CASE ~later
        <4>1. size + Len(sock) + Len(write_buffer) = size + 0
          BY <3>1, <3>3, <3>4, <3>7 DEF Transfer, Total
        <4>2. Len(sock) = 0
          BY <3>3, <3>5, <4>1
        <4>3. sock = <<>>
          BY <3>5, <4>2
        <4> QED
          BY <3>2, <3>7, <4>3 DEF HandshakeIsCut, LaterBytesStay
      <3> QED
        BY <3>6, <3>7
    <2> QED
      BY <2>1, <2>2
  <1> QED
    BY <1>1, FramedInvariance, PTL
=============================================================================
