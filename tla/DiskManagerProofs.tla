------------------------- MODULE DiskManagerProofs -------------------------
(***************************************************************************)
(* Capacity accounting of DiskManager for any number of sinks, tasks and   *)
(* any buffer capacities.                                                  *)
(***************************************************************************)
EXTENDS DiskManager, FiniteSetTheorems, TLAPS

(* Only accepted work runs, and the stream holds a message only between     *)
(* its receipt and fetch_sub.                                               *)
RunningIsOwed ==
    /\ \A t \in Tasks : task[t] \in {"run", "parked"} => t \in owed
    /\ stream # "sub" => hand = NoTask

(* The inductive invariant: the four invariants and the link between the    *)
(* tasks that run and the work that is owed.                                *)
IInv ==
    /\ TypeOK
    /\ CapacityExact
    /\ AcceptedWithinCapacity
    /\ AnsweredOnce
    /\ RunningIsOwed

-----------------------------------------------------------------------------
(* Cardinalities of sets of senders and of tasks. *)

(* Any set of senders is finite.                                            *)
LEMMA SenderSets ==
    ASSUME NEW S \in SUBSET Senders
    PROVE  IsFiniteSet(S) /\ Cardinality(S) \in Nat
  BY DiskAssumption, FS_Subset, FS_CardinalityType

(* Any set of tasks is finite.                                              *)
LEMMA TaskSets ==
    ASSUME NEW S \in SUBSET Tasks
    PROVE  IsFiniteSet(S) /\ Cardinality(S) \in Nat
  BY DiskAssumption, FS_Subset, FS_CardinalityType

(* The counts in the invariant are counts of finite sets.                   *)
LEMMA CountTypes ==
    ASSUME TypeOK
    PROVE  /\ Cardinality(Holding) \in Nat
           /\ Cardinality(Reserved) \in Nat
           /\ Cardinality(owed) \in Nat
           /\ Cardinality(Reserved) <= Cardinality(Holding)
  <1>1. Holding \in SUBSET Senders /\ Reserved \in SUBSET Holding
    BY DEF Holding, Reserved
  <1>2. owed \in SUBSET Tasks
    BY DEF TypeOK
  <1>3. Cardinality(Reserved) <= Cardinality(Holding)
    BY <1>1, SenderSets, FS_Subset
  <1> QED
    BY <1>1, <1>2, <1>3, SenderSets, TaskSets

(* A sender that starts to hold a unit adds one.                            *)
LEMMA AddSender ==
    ASSUME NEW S \in SUBSET Senders, NEW s \in Senders, s \notin S
    PROVE  Cardinality(S \cup {s}) = Cardinality(S) + 1
  BY SenderSets, FS_AddElement

(* A sender that gives its unit back takes one off.                         *)
LEMMA RemoveSender ==
    ASSUME NEW S \in SUBSET Senders, NEW s \in S
    PROVE  Cardinality(S \ {s}) = Cardinality(S) - 1
  BY SenderSets, FS_RemoveElement

(* An accepted request adds one.                                            *)
LEMMA AddTask ==
    ASSUME NEW S \in SUBSET Tasks, NEW t \in Tasks, t \notin S
    PROVE  Cardinality(S \cup {t}) = Cardinality(S) + 1
  BY TaskSets, FS_AddElement

(* An answered request takes one off.                                       *)
LEMMA RemoveTask ==
    ASSUME NEW S \in SUBSET Tasks, NEW t \in S
    PROVE  Cardinality(S \ {t}) = Cardinality(S) - 1
  BY TaskSets, FS_RemoveElement

(* As long as a unit is held or owed the counter is not zero, so that the   *)
(* fetch_sub of its owner does not wrap.                                    *)
LEMMA TakenIsCounted ==
    ASSUME TypeOK, CapacityExact,
           (\E s \in Senders : s \in Holding) \/ (\E t \in Tasks : t \in owed)
    PROVE  cur_capacity >= 1
  <1>1. CASE \E s \in Senders : s \in Holding
    <2>1. PICK s \in Senders : s \in Holding
      BY <1>1
    <2>2. Cardinality(Holding \ {s}) = Cardinality(Holding) - 1
      BY <2>1, RemoveSender DEF Holding
    <2>3. Cardinality(Holding \ {s}) \in Nat
      BY SenderSets DEF Holding
    <2> QED
      BY <2>2, <2>3, CountTypes DEF CapacityExact, TypeOK
  <1>2. CASE \E t \in Tasks : t \in owed
    <2>1. PICK t \in Tasks : t \in owed
      BY <1>2
    <2>2. Cardinality(owed \ {t}) = Cardinality(owed) - 1
      BY <2>1, RemoveTask, Zenon DEF TypeOK
    <2>3. Cardinality(owed \ {t}) \in Nat
      BY TaskSets DEF TypeOK
    <2> QED
      BY <2>2, <2>3, CountTypes DEF CapacityExact, TypeOK
  <1> QED
    BY <1>1, <1>2

(* Steps that leave the counter, the positions that count and the accepted  *)
(* work alone.                                                              *)
LEMMA CountsStutter ==
    ASSUME CapacityExact, AcceptedWithinCapacity,
           Holding' = Holding, Reserved' = Reserved, owed' = owed,
           cur_capacity' = cur_capacity, leaked' = leaked
    PROVE  CapacityExact' /\ AcceptedWithinCapacity'
  BY DEF CapacityExact, AcceptedWithinCapacity

-----------------------------------------------------------------------------
(* The disk manager a builder returns (no work, an empty queue) satisfies   *)
(* the inductive invariant.                                                 *)
THEOREM Initialization == Init => IInv
  <1> SUFFICES ASSUME Init PROVE IInv
    OBVIOUS
  <1>1. TypeOK
    BY DiskAssumption DEF Init, TypeOK
  <1>2. Holding = {} /\ Reserved = {} /\ owed = {}
    BY DEF Init, Holding, Reserved
  <1>3. CapacityExact /\ AcceptedWithinCapacity
    BY <1>2, FS_EmptySet, DiskAssumption DEF Init, CapacityExact, AcceptedWithinCapacity
  <1>4. AnsweredOnce /\ RunningIsOwed
    BY DEF Init, AnsweredOnce, Answers, RunningIsOwed
  <1> QED
    BY <1>1, <1>3, <1>4 DEF IInv

-----------------------------------------------------------------------------
(* Type correctness *)

(* Every step of a sink (poll_ready, start_send, poll_flush, dropping a     *)
(* send) preserves the types.                                               *)
LEMMA TypeSink ==
    ASSUME TypeOK, CapacityExact, NEW s \in Senders, SinkStep(s) \/ CancelSend(s)
    PROVE  TypeOK'
  <1>1. CASE TrySubmitWork(s)
    BY <1>1 DEF TypeOK, TrySubmitWork, PollStarts, taskVars, joinVars, streamVars
  <1>2. CASE PushWaker(s)
    BY <1>2 DEF TypeOK, PushWaker, taskVars, joinVars, streamVars
  <1>3. CASE RetractWork(s)
    <2>1. cur_capacity >= 1
      BY <1>3, TakenIsCounted DEF RetractWork, Holding
    <2> QED
      BY <1>3, <2>1 DEF TypeOK, RetractWork, taskVars, joinVars, streamVars
  <1>4. CASE StartSend(s)
    BY <1>4 DEF TypeOK, StartSend, joinVars, streamVars
  <1>5. CASE PollFlush(s)
    BY <1>5, Zenon DEF TypeOK, PollFlush, streamVars
  <1>6. CASE CancelSend(s)
    BY <1>6 DEF TypeOK, CancelSend, taskVars, joinVars, streamVars
  <1> QED
    BY <1>1, <1>2, <1>3, <1>4, <1>5, <1>6 DEF SinkStep

TaskStates == {"free", "run", "parked", "parked_last", "sent", "panicked"}

(* Sending a message on the channel preserves the types of what it changes. *)
LEMMA TypeEnqueue ==
    ASSUME TypeOK, NEW t \in Tasks, NEW k \in {"piece", "done", "error"},
           NEW a \in TaskStates, NEW b \in TaskStates, Enqueue(t, k, a, b)
    PROVE  out' \in Seq(Message) /\ task' \in [Tasks -> TaskStates] /\ parked' \in Seq(Tasks)
  <1>1. [from |-> t, kind |-> k] \in Message
    BY DEF Message
  <1>2. out' \in Seq(Message)
    BY <1>1 DEF Enqueue, TypeOK
  <1>3. task' \in [Tasks -> TaskStates] /\ parked' \in Seq(Tasks)
    <2>1. CASE Len(out') > StreamCapacity
      <3>1. task' = [task EXCEPT ![t] = b] /\ parked' = Append(parked, t)
        BY <2>1 DEF Enqueue
      <3> QED
        BY <3>1 DEF TypeOK, TaskStates
    <2>2. CASE ~(Len(out') > StreamCapacity)
      <3>1. task' = [task EXCEPT ![t] = a] /\ parked' = parked
        BY <2>2 DEF Enqueue
      <3> QED
        BY <3>1 DEF TypeOK, TaskStates
    <2> QED
      BY <2>1, <2>2
  <1> QED
    BY <1>2, <1>3

(* Every step of a spawned task preserves the types.                        *)
LEMMA TypeTask ==
    ASSUME TypeOK, NEW t \in Tasks, TaskStep(t)
    PROVE  TypeOK'
  <1>1. CASE SendPiece(t)
    <2>1. out' \in Seq(Message) /\ task' \in [Tasks -> TaskStates] /\ parked' \in Seq(Tasks)
      BY <1>1, TypeEnqueue DEF SendPiece, TaskStates
    <2>2. left' \in [Tasks -> 0..MaxDiff]
      BY <1>1, DiskAssumption DEF SendPiece, TypeOK
    <2> QED
      BY <1>1, <2>1, <2>2 DEF TypeOK, SendPiece, TaskStates, sinkVars, joinVars, streamVars
  <1>2. CASE SendAnswer(t)
    <2>1. PICK k \in Outcomes \ {"panic"} : Enqueue(t, k, "sent", "parked_last")
      BY <1>2 DEF SendAnswer
    <2>2. out' \in Seq(Message) /\ task' \in [Tasks -> TaskStates] /\ parked' \in Seq(Tasks)
      BY <2>1, TypeEnqueue, DiskAssumption DEF TaskStates
    <2> QED
      BY <1>2, <2>2 DEF TypeOK, SendAnswer, TaskStates, sinkVars, joinVars, streamVars
  <1>3. CASE TaskFinished(t)
    BY <1>3 DEF TypeOK, TaskFinished, NotifyJoiner, sinkVars, streamVars
  <1>4. CASE TaskPanicked(t)
    BY <1>4 DEF TypeOK, TaskPanicked, NotifyJoiner, sinkVars, streamVars
  <1> QED
    BY <1>1, <1>2, <1>3, <1>4 DEF TaskStep

(* Every step of the stream preserves the types; cur_capacity stays natural *)
(* because the unit of the answer in hand is still counted.                 *)
LEMMA TypeStream ==
    ASSUME TypeOK, CapacityExact, AnsweredOnce, StreamStep \/ DropStream
    PROVE  TypeOK'
  <1>1. CASE Recv
    <2>1. Head(out) \in Message /\ Tail(out) \in Seq(Message)
      BY <1>1 DEF TypeOK, Recv
    <2>2. task' \in [Tasks -> TaskStates] /\ parked' \in Seq(Tasks)
      <3>1. CASE parked = << >>
        BY <1>1, <3>1 DEF TypeOK, Recv, TaskStates
      <3>2. CASE parked # << >>
        <4>1. Head(parked) \in Tasks /\ Tail(parked) \in Seq(Tasks)
          BY <3>2 DEF TypeOK
        <4> QED
          BY <1>1, <3>2, <4>1, Zenon DEF TypeOK, Recv, Resumed, TaskStates
      <3> QED
        BY <3>1, <3>2
    <2>3. owed' \subseteq Tasks /\ leaked' \in Nat /\ hand' \in Tasks \cup {NoTask}
      BY <1>1, <2>1, SMTT(40), Z3T(40) DEF TypeOK, Recv, Message
    <2> QED
      BY <1>1, <2>1, <2>2, <2>3 DEF TypeOK, Recv, TaskStates, sinkVars, joinVars
  <1>2. CASE WakeOne
    <2>1. CASE wake_queue = << >>
      BY <1>2, <2>1 DEF TypeOK, WakeOne, taskVars, joinVars
    <2>2. CASE wake_queue # << >>
      <3>1. Head(wake_queue) \in Senders /\ Tail(wake_queue) \in Seq(Senders)
        BY <2>2 DEF TypeOK
      <3> QED
        BY <1>2, <2>2, <3>1, Zenon DEF TypeOK, WakeOne, taskVars, joinVars
    <2> QED
      BY <2>1, <2>2
  <1>3. CASE DropStream
    BY <1>3 DEF TypeOK, DropStream, Resumed, sinkVars, joinVars
  <1>4. CASE CompleteWork
    <2>1. cur_capacity >= 1
      BY <1>4, TakenIsCounted DEF CompleteWork, AnsweredOnce, TypeOK
    <2> QED
      BY <1>4, <2>1 DEF TypeOK, CompleteWork, taskVars, joinVars
  <1> QED
    BY <1>1, <1>2, <1>3, <1>4 DEF StreamStep

-----------------------------------------------------------------------------
(* Capacity *)

(* The steps of try_submit_work and start_send keep the counter exact and   *)
(* what is admitted within the capacity.                                    *)
LEMMA CountsSink ==
    ASSUME IInv, NEW s \in Senders, SinkStep(s) \/ CancelSend(s), TypeOK'
    PROVE  CapacityExact' /\ AcceptedWithinCapacity'
  <1> USE DEF IInv
  <1>1. CASE TrySubmitWork(s)
    <2>1. s \notin Holding /\ Holding' = Holding \cup {s}
      BY <1>1, SMTT(40), Z3T(40) DEF TrySubmitWork, Holding, TypeOK
    <2>2. Cardinality(Holding') = Cardinality(Holding) + 1
      BY <2>1, AddSender DEF Holding
    <2>3. CapacityExact'
      <3>1. cur_capacity' = cur_capacity + 1 /\ owed' = owed /\ leaked' = leaked /\ leaked \in Nat
        BY <1>1 DEF TrySubmitWork, streamVars, TypeOK
      <3> QED
        BY <2>2, <3>1, CountTypes DEF CapacityExact
    <2>4. AcceptedWithinCapacity'
      <3>1. CASE cur_capacity' <= MaxCapacity
        <4>1. Reserved' \subseteq Holding' /\ Holding' \in SUBSET Senders
          BY DEF Reserved, Holding
        <4>2. Cardinality(Reserved') <= Cardinality(Holding') /\ Cardinality(Reserved') \in Nat
          BY <4>1, SenderSets, FS_Subset
        <4>3. Cardinality(owed') \in Nat /\ leaked' \in Nat /\ Cardinality(Holding') \in Nat
          BY <4>1, SenderSets, TaskSets DEF TypeOK
        <4> QED
          BY <2>3, <3>1, <4>2, <4>3, DiskAssumption DEF CapacityExact, AcceptedWithinCapacity
      <3>2. CASE ~(cur_capacity' <= MaxCapacity)
        <4>1. Reserved' = Reserved
          BY <1>1, <3>2 DEF TrySubmitWork, Reserved, TypeOK
        <4> QED
          BY <1>1, <4>1 DEF TrySubmitWork, AcceptedWithinCapacity, streamVars
      <3> QED
        BY <3>1, <3>2
    <2> QED
      BY <2>3, <2>4
  <1>2. CASE PushWaker(s)
    <2>1. Holding' = Holding /\ Reserved' = Reserved
      BY <1>2 DEF PushWaker, Holding, Reserved, TypeOK
    <2> QED
      BY <1>2, <2>1, CountsStutter DEF PushWaker, streamVars
  <1>3. CASE RetractWork(s)
    <2>1. s \in Holding /\ Holding' = Holding \ {s} /\ Reserved' = Reserved
      BY <1>3 DEF RetractWork, Holding, Reserved, TypeOK
    <2>2. Cardinality(Holding') = Cardinality(Holding) - 1
      BY <2>1, RemoveSender DEF Holding
    <2>3. cur_capacity' = cur_capacity - 1 /\ owed' = owed /\ leaked' = leaked /\ leaked \in Nat
      BY <1>3 DEF RetractWork, streamVars, TypeOK
    <2>4. CapacityExact'
      BY <2>2, <2>3, CountTypes DEF CapacityExact
    <2>5. AcceptedWithinCapacity'
      BY <2>1, <2>3 DEF AcceptedWithinCapacity
    <2> QED
      BY <2>4, <2>5
  <1>4. CASE StartSend(s)
    <2>1. PICK t \in Tasks : t \notin owed /\ owed' = owed \cup {t}
      BY <1>4 DEF StartSend
    <2>2. PICK next \in {"flush", "idle"} : sink' = [sink EXCEPT ![s] = next]
      BY <1>4, Zenon DEF StartSend
    <2>3. /\ s \in Holding /\ Holding' = Holding \ {s}
          /\ s \in Reserved /\ Reserved' = Reserved \ {s}
      BY <1>4, <2>2 DEF StartSend, Holding, Reserved, TypeOK
    <2>4. /\ Cardinality(Holding') = Cardinality(Holding) - 1
          /\ Cardinality(Reserved') = Cardinality(Reserved) - 1
      BY <2>3, RemoveSender DEF Holding, Reserved
    <2>5. Cardinality(owed') = Cardinality(owed) + 1
      BY <2>1, AddTask, Zenon DEF TypeOK
    <2>6. cur_capacity' = cur_capacity /\ leaked' = leaked /\ leaked \in Nat
      BY <1>4 DEF StartSend, streamVars, TypeOK
    <2> QED
      BY <2>4, <2>5, <2>6, CountTypes, DiskAssumption DEF CapacityExact, AcceptedWithinCapacity
  <1>5. CASE PollFlush(s)
    <2>1. Holding' = Holding /\ Reserved' = Reserved
      BY <1>5 DEF PollFlush, Holding, Reserved, TypeOK
    <2> QED
      BY <1>5, <2>1, CountsStutter DEF PollFlush, streamVars
  <1>6. CASE CancelSend(s)
    <2>1. Holding' = Holding /\ Reserved' = Reserved
      BY <1>6 DEF CancelSend, Holding, Reserved, TypeOK
    <2> QED
      BY <1>6, <2>1, CountsStutter DEF CancelSend, streamVars
  <1> QED
    BY <1>1, <1>2, <1>3, <1>4, <1>5, <1>6 DEF SinkStep

(* Spawned tasks do not touch the counter.                                  *)
LEMMA CountsTask ==
    ASSUME IInv, NEW t \in Tasks, TaskStep(t)
    PROVE  CapacityExact' /\ AcceptedWithinCapacity'
  <1>1. UNCHANGED <<cur_capacity, sink, owed, leaked>>
    BY DEF TaskStep, SendPiece, SendAnswer, TaskFinished, TaskPanicked, sinkVars, streamVars
  <1>2. Holding' = Holding /\ Reserved' = Reserved
    BY <1>1 DEF Holding, Reserved
  <1> QED
    BY <1>1, <1>2, CountsStutter DEF IInv

(* complete_work gives back exactly the unit of the request it answers.     *)
LEMMA CountsStream ==
    ASSUME IInv, StreamStep \/ DropStream, TypeOK'
    PROVE  CapacityExact' /\ AcceptedWithinCapacity'
  <1> USE DEF IInv
  <1>1. Holding' = Holding /\ Reserved' = Reserved
    BY DEF StreamStep, Recv, CompleteWork, WakeOne, DropStream, sinkVars, Holding, Reserved
  <1>2. CASE Recv
    <2>1. CASE Head(out).kind = "error"
      <3>1. Head(out).from \in owed
        <4>1. 1 \in DOMAIN out /\ Head(out) = out[1]
          BY <1>2 DEF Recv, TypeOK
        <4> QED
          BY <2>1, <4>1 DEF AnsweredOnce, Answers
      <3>2. owed' = owed \ {Head(out).from} /\ leaked' = leaked + 1 /\ cur_capacity' = cur_capacity
        BY <1>2, <2>1 DEF Recv, sinkVars
      <3>3. Cardinality(owed') = Cardinality(owed) - 1
        BY <3>1, <3>2, RemoveTask, Zenon DEF TypeOK
      <3>4. leaked \in Nat
        BY DEF TypeOK
      <3> QED
        BY <1>1, <3>2, <3>3, <3>4, CountTypes, DiskAssumption DEF CapacityExact, AcceptedWithinCapacity
    <2>2. CASE Head(out).kind # "error"
      BY <1>1, <1>2, <2>2, CountsStutter DEF Recv, sinkVars
    <2> QED
      BY <2>1, <2>2
  <1>3. CASE CompleteWork
    <2>1. hand \in owed /\ owed' = owed \ {hand}
      BY <1>3 DEF CompleteWork, AnsweredOnce
    <2>2. Cardinality(owed') = Cardinality(owed) - 1
      BY <2>1, RemoveTask, Zenon DEF TypeOK
    <2>3. cur_capacity' = cur_capacity - 1 /\ leaked' = leaked /\ leaked \in Nat
      BY <1>3 DEF CompleteWork, TypeOK
    <2> QED
      BY <1>1, <2>2, <2>3, CountTypes, DiskAssumption, SMTT(40), Z3T(40) DEF CapacityExact, AcceptedWithinCapacity
  <1>4. CASE WakeOne \/ DropStream
    BY <1>1, <1>4, CountsStutter DEF WakeOne, DropStream, sinkVars
  <1> QED
    BY <1>2, <1>3, <1>4 DEF StreamStep

-----------------------------------------------------------------------------
(* Answers *)

(* A request is accepted into a slot without an answer.                     *)
LEMMA AnswersSink ==
    ASSUME IInv, NEW s \in Senders, SinkStep(s) \/ CancelSend(s)
    PROVE  AnsweredOnce' /\ RunningIsOwed'
  <1> USE DEF IInv, TypeOK
  <1>1. UNCHANGED <<out, stream, hand>>
    BY DEF SinkStep, TrySubmitWork, PushWaker, RetractWork, StartSend, PollFlush, CancelSend,
           taskVars, streamVars
  <1>2. Answers' = Answers
    BY <1>1 DEF Answers
  <1>3. CASE UNCHANGED <<task, owed>>
    BY <1>1, <1>2, <1>3 DEF AnsweredOnce, RunningIsOwed
  <1>4. CASE StartSend(s)
    <2>1. PICK t \in Tasks : /\ t \notin owed /\ owed' = owed \cup {t}
                             /\ task' = [task EXCEPT ![t] = "run"]
      BY <1>4, Zenon DEF StartSend
    <2>2. \A i \in Answers : out[i].from # t
      BY <2>1 DEF AnsweredOnce
    <2>3. AnsweredOnce'
      BY <1>1, <1>2, <2>1, <2>2 DEF AnsweredOnce
    <2> QED
      BY <1>1, <2>1, <2>3 DEF RunningIsOwed
  <1>5. CASE PollFlush(s)
    <2>1. owed' = owed /\ \A t \in Tasks : task'[t] = task[t] \/ task'[t] = "free"
      BY <1>5, ZenonT(30) DEF PollFlush
    <2>2. AnsweredOnce'
      BY <1>1, <1>2, <2>1 DEF AnsweredOnce
    <2> QED
      BY <1>1, <2>1, <2>2 DEF RunningIsOwed
  <1> QED
    BY <1>3, <1>4, <1>5, ZenonT(30) DEF SinkStep, TrySubmitWork, PushWaker, RetractWork, CancelSend, taskVars

(* A task sends its answer once, as its last message.                       *)
LEMMA AnswersTask ==
    ASSUME IInv, NEW t \in Tasks, TaskStep(t)
    PROVE  AnsweredOnce' /\ RunningIsOwed'
  <1>0. AnsweredOnce /\ RunningIsOwed /\ owed \subseteq Tasks
    BY DEF IInv, TypeOK
  <1>1. UNCHANGED <<owed, stream, hand>>
    BY DEF TaskStep, SendPiece, SendAnswer, TaskFinished, TaskPanicked, streamVars
  <1>2. CASE SendPiece(t)
    <2>1. out' = Append(out, [from |-> t, kind |-> "piece"])
      BY <1>2 DEF SendPiece, Enqueue
    <2>2. Answers' = Answers /\ \A i \in Answers : out'[i] = out[i]
      BY <2>1 DEF Answers, IInv, TypeOK
    <2>3. task[t] = "run" /\ \A u \in Tasks : task'[u] = task[u] \/ (u = t /\ task'[u] \in {"run", "parked"})
      BY <1>2, ZenonT(30) DEF SendPiece, Enqueue, IInv, TypeOK
    <2>4. \A i \in Answers : out[i].from # t
      BY <1>0, <2>3 DEF AnsweredOnce
    <2>5. hand # t
      BY <1>0, <2>3, DiskAssumption DEF AnsweredOnce, RunningIsOwed
    <2>6. AnsweredOnce'
      BY <1>0, <1>1, <2>2, <2>3, <2>4, <2>5, SMTT(40), Z3T(40) DEF AnsweredOnce
    <2> QED
      BY <1>0, <1>1, <2>3, <2>6 DEF RunningIsOwed
  <1>3. CASE SendAnswer(t)
    <2>1. PICK k \in Outcomes \ {"panic"} : Enqueue(t, k, "sent", "parked_last")
      BY <1>3 DEF SendAnswer
    <2>2. out' = Append(out, [from |-> t, kind |-> k]) /\ k # "piece"
      BY <2>1, DiskAssumption DEF Enqueue
    <2>3. /\ Answers' = Answers \cup {Len(out) + 1}
          /\ \A i \in Answers : out'[i] = out[i]
          /\ out'[Len(out) + 1].from = t
          /\ Len(out) + 1 \notin Answers
      BY <2>2 DEF Answers, IInv, TypeOK
    <2>4. task[t] = "run" /\ \A u \in Tasks : \/ u # t /\ task'[u] = task[u]
                                              \/ u = t /\ task'[u] \in {"sent", "parked_last"}
      <3>1. task[t] = "run" /\ task \in [Tasks -> TaskStates]
        BY <1>3 DEF SendAnswer, IInv, TypeOK, TaskStates
      <3>2. \/ task' = [task EXCEPT ![t] = "sent"]
            \/ task' = [task EXCEPT ![t] = "parked_last"]
        BY <2>1 DEF Enqueue
      <3> QED
        BY <3>1, <3>2
    <2>5. t \in owed /\ \A i \in Answers : out[i].from # t
      BY <1>0, <2>4 DEF AnsweredOnce, RunningIsOwed
    <2>6. hand # t
      BY <1>0, <2>4, DiskAssumption DEF AnsweredOnce, RunningIsOwed
    <2>7. AnsweredOnce'
      BY <1>0, <1>1, <2>3, <2>4, <2>5, <2>6 DEF AnsweredOnce
    <2> QED
      BY <1>0, <1>1, <2>4, <2>5, <2>7 DEF RunningIsOwed
  <1>4. CASE TaskFinished(t) \/ TaskPanicked(t)
    <2>1. out' = out /\ \A u \in Tasks : task'[u] = task[u] \/ task'[u] \in {"free", "panicked"}
      BY <1>4 DEF TaskFinished, TaskPanicked, IInv, TypeOK
    <2>2. Answers' = Answers
      BY <2>1 DEF Answers
    <2>3. AnsweredOnce'
      BY <1>0, <1>1, <2>1, <2>2 DEF AnsweredOnce
    <2> QED
      BY <1>0, <1>1, <2>1, <2>3 DEF RunningIsOwed
  <1> QED
    BY <1>2, <1>3, <1>4 DEF TaskStep

(* Receiving a message, and resuming a parked task, leaves no answer behind *)
(* of the request in hand.                                                  *)
LEMMA AnswersRecv ==
    ASSUME IInv, Recv
    PROVE  AnsweredOnce' /\ RunningIsOwed'
  <1>0. AnsweredOnce /\ RunningIsOwed /\ owed \subseteq Tasks
    BY DEF IInv, TypeOK
  <1> DEFINE m == Head(out)
  <1>1. out # << >> /\ out' = Tail(out) /\ m = out[1] /\ 1 \in DOMAIN out
    BY DEF Recv, IInv, TypeOK
  <1>2. /\ \A i \in Answers' : i + 1 \in Answers /\ out'[i] = out[i + 1] /\ i + 1 # 1
        /\ \A i, j \in Answers' : i + 1 = j + 1 => i = j
    BY <1>1 DEF Answers, IInv, TypeOK
  <1>3. \A u \in Tasks : \/ task'[u] = task[u]
                         \/ task[u] = "parked" /\ task'[u] = "run"
                         \/ task'[u] = "sent"
    <2>1. CASE parked = << >>
      <3>1. task' = task
        BY <2>1 DEF Recv
      <3> QED
        BY <3>1
    <2>2. CASE parked # << >>
      <3>1. Head(parked) \in Tasks
        BY <2>2 DEF IInv, TypeOK
      <3>2. task' = [task EXCEPT ![Head(parked)] = Resumed(Head(parked))]
        BY <2>2 DEF Recv
      <3> QED
        <4>1. task \in [Tasks -> TaskStates]
          BY DEF IInv, TypeOK, TaskStates
        <4> QED
          BY <3>1, <3>2, <4>1 DEF Resumed
    <2> QED
      BY <2>1, <2>2
  <1>4. \A i \in Answers' : /\ out'[i].from \in owed
                            /\ task[out'[i].from] \notin {"run", "parked"}
                            /\ 1 \in Answers => out'[i].from # m.from
    <2> TAKE i \in Answers'
    <2>1. i + 1 \in Answers /\ out'[i] = out[i + 1] /\ i + 1 # 1
      BY <1>2
    <2> QED
      BY <1>0, <1>1, <2>1, Zenon DEF AnsweredOnce
  <1>5. \A i, j \in Answers' : out'[j].from = out'[i].from => i = j
    BY <1>0, <1>2 DEF AnsweredOnce
  <1>6. 1 \in Answers <=> m.kind # "piece"
    BY <1>1 DEF Answers
  <1>7. 1 \in Answers => m.from \in owed /\ task[m.from] \notin {"run", "parked"}
    BY <1>0, <1>1 DEF AnsweredOnce
  <1>8. CASE m.kind = "done"
    <2>1. stream' = "sub" /\ hand' = m.from /\ owed' = owed
      BY <1>8 DEF Recv
    <2>2. AnsweredOnce'
      BY <1>0, <1>3, <1>4, <1>5, <1>6, <1>7, <1>8, <2>1, ZenonT(30) DEF AnsweredOnce
    <2> QED
      BY <1>0, <1>3, <2>1, <2>2 DEF RunningIsOwed
  <1>9. CASE m.kind = "error"
    <2>1. stream' = "idle" /\ hand' = NoTask /\ owed' = owed \ {m.from}
      BY <1>9 DEF Recv
    <2>2. AnsweredOnce'
      BY <1>0, <1>3, <1>4, <1>5, <1>6, <1>9, <2>1, DiskAssumption DEF AnsweredOnce
    <2> QED
      BY <1>0, <1>3, <1>6, <1>7, <1>9, <2>1, <2>2 DEF RunningIsOwed
  <1>10. CASE m.kind \notin {"done", "error"}
    <2>1. stream' = "idle" /\ hand' = NoTask /\ owed' = owed
      BY <1>10 DEF Recv
    <2>2. AnsweredOnce'
      BY <1>0, <1>3, <1>4, <1>5, <2>1, DiskAssumption DEF AnsweredOnce
    <2> QED
      BY <1>0, <1>3, <2>1, <2>2 DEF RunningIsOwed
  <1> QED
    BY <1>8, <1>9, <1>10

(* complete_work and dropping the stream leave one answer per request.      *)
LEMMA AnswersStream ==
    ASSUME IInv, StreamStep \/ DropStream
    PROVE  AnsweredOnce' /\ RunningIsOwed'
  <1>0. AnsweredOnce /\ RunningIsOwed /\ owed \subseteq Tasks
    BY DEF IInv, TypeOK
  <1>1. CASE Recv
    BY <1>1, AnswersRecv
  <1>2. CASE CompleteWork
    <2>1. /\ out' = out /\ task' = task /\ stream' = "pop" /\ hand' = NoTask
          /\ owed' = owed \ {hand} /\ hand \in owed /\ task[hand] \notin {"run", "parked"}
      BY <1>0, <1>2 DEF CompleteWork, AnsweredOnce, taskVars
    <2>2. Answers' = Answers
      BY <2>1 DEF Answers
    <2>3. AnsweredOnce'
      BY <1>0, <2>1, <2>2, DiskAssumption DEF AnsweredOnce
    <2> QED
      BY <1>0, <2>1, <2>3 DEF RunningIsOwed
  <1>3. CASE WakeOne
    <2>1. /\ out' = out /\ task' = task /\ stream = "pop" /\ stream' = "idle"
          /\ hand' = hand /\ owed' = owed
      BY <1>3 DEF WakeOne, taskVars
    <2>2. Answers' = Answers
      BY <2>1 DEF Answers
    <2>3. AnsweredOnce'
      BY <1>0, <2>1, <2>2 DEF AnsweredOnce
    <2> QED
      BY <1>0, <2>1, <2>3 DEF RunningIsOwed
  <1>4. CASE DropStream
    <2>1. /\ out' = << >> /\ stream = "idle" /\ stream' = "dropped"
          /\ hand' = hand /\ owed' = owed
      BY <1>4 DEF DropStream
    <2>2. \A t \in Tasks : task'[t] \in {"run", "parked"} => task[t] \in {"run", "parked"}
      BY <1>4 DEF DropStream, Resumed, IInv, TypeOK
    <2>3. AnsweredOnce'
      BY <2>1 DEF AnsweredOnce, Answers
    <2> QED
      BY <1>0, <2>1, <2>2, <2>3 DEF RunningIsOwed
  <1> QED
    BY <1>1, <1>2, <1>3, <1>4 DEF StreamStep

-----------------------------------------------------------------------------
(* Every step of every sender, task and of the consumer preserves the       *)
(* inductive invariant.                                                     *)
THEOREM Preservation == IInv /\ [Next]_vars => IInv'
  <1> SUFFICES ASSUME IInv, [Next]_vars PROVE IInv'
    OBVIOUS
  <1>1. ASSUME NEW s \in Senders, SinkStep(s) \/ CancelSend(s) PROVE IInv'
    <2>1. TypeOK'
      BY <1>1, TypeSink DEF IInv
    <2> QED
      BY <1>1, <2>1, CountsSink, AnswersSink DEF IInv
  <1>2. ASSUME NEW t \in Tasks, TaskStep(t) PROVE IInv'
    <2>1. TypeOK'
      BY <1>2, TypeTask DEF IInv
    <2> QED
      BY <1>2, <2>1, CountsTask, AnswersTask DEF IInv
  <1>3. ASSUME StreamStep \/ DropStream PROVE IInv'
    <2>1. TypeOK'
      BY <1>3, TypeStream, ZenonT(30) DEF IInv
    <2> QED
      BY <1>3, <2>1, CountsStream, AnswersStream DEF IInv
  <1>4. CASE UNCHANGED vars
    BY <1>4 DEF vars, IInv, TypeOK, CapacityExact, AcceptedWithinCapacity, AnsweredOnce,
                RunningIsOwed, Holding, Reserved, Answers
  <1> QED
    BY <1>1, <1>2, <1>3, <1>4 DEF Next

(* The inductive invariant holds in every state the manager reaches.        *)
THEOREM Invariance == Spec => []IInv
  BY Initialization, Preservation, PTL DEF Spec

(* The variables keep their types; in particular cur_capacity stays a       *)
(* natural number, so no fetch_sub ever wraps around.                       *)
THEOREM TypeCorrect == Spec => []TypeOK
  <1>1. IInv => TypeOK
    BY DEF IInv
  <1> QED
    BY <1>1, Invariance, PTL

(* The counter shared by sinks and stream is exact whatever the             *)
(* interleaving of fetch_add, fetch_sub and the channel.                    *)
THEOREM CapacityIsExact == Spec => []CapacityExact
  <1>1. IInv => CapacityExact
    BY DEF IInv
  <1> QED
    BY <1>1, Invariance, PTL

(* poll_ready never admits more than sink_buffer_capacity requests that     *)
(* have no answer yet.                                                      *)
THEOREM NeverOverCapacity == Spec => []AcceptedWithinCapacity
  <1>1. IInv => AcceptedWithinCapacity
    BY DEF IInv
  <1> QED
    BY <1>1, Invariance, PTL

(* complete_work runs at most once for each accepted request.               *)
THEOREM OneAnswer == Spec => []AnsweredOnce
  <1>1. IInv => AnsweredOnce
    BY ZenonT(30) DEF IInv
  <1> QED
    BY <1>1, Invariance, PTL

-----------------------------------------------------------------------------
(* Refinement *)

(* Every step is a step of the abstract queue of work, or leaves it alone.  *)
LEMMA WorkStep ==
    ASSUME IInv, [Next]_vars
    PROVE  Work!Next \/ owed' = owed
  <1> USE DEF Work!Next, Work!Accept, Work!Answer
  <1>0. owed \subseteq Tasks /\ Cardinality(owed) \in Nat /\ MaxCapacity \in Nat
    BY CountTypes, DiskAssumption DEF IInv, TypeOK
  <1>a. ASSUME NEW t \in owed, owed' = owed \ {t} PROVE Work!Next
    <2>1. Cardinality(owed') = Cardinality(owed) - 1
      BY <1>0, <1>a, RemoveTask
    <2>2. MaxCapacity - Cardinality(owed') = (MaxCapacity - Cardinality(owed)) + 1
      BY <1>0, <2>1
    <2> QED
      BY <1>0, <1>a, <2>2
  <1>1. ASSUME NEW s \in Senders, SinkStep(s) \/ CancelSend(s) PROVE Work!Next \/ owed' = owed
    <2>1. CASE StartSend(s)
      <3>1. PICK t \in Tasks : t \notin owed /\ owed' = owed \cup {t}
        BY <2>1 DEF StartSend
      <3>2. s \in Reserved /\ Reserved \in SUBSET Senders
        BY <2>1 DEF StartSend, Reserved
      <3>3. Cardinality(Reserved \ {s}) = Cardinality(Reserved) - 1
        BY <3>2, RemoveSender
      <3>4. Cardinality(Reserved \ {s}) \in Nat /\ Cardinality(Reserved) \in Nat /\ leaked \in Nat
        BY <3>2, SenderSets DEF IInv, TypeOK
      <3>5. MaxCapacity - Cardinality(owed) > 0
        BY <1>0, <3>3, <3>4 DEF IInv, AcceptedWithinCapacity
      <3>6. Cardinality(owed') = Cardinality(owed) + 1
        BY <1>0, <3>1, AddTask
      <3>7. MaxCapacity - Cardinality(owed') = (MaxCapacity - Cardinality(owed)) - 1
        BY <1>0, <3>6, SMTT(40), Z3T(40)
      <3> QED
        BY <3>1, <3>5, <3>7
    <2>2. CASE ~StartSend(s)
      BY <1>1, <2>2 DEF SinkStep, TrySubmitWork, PushWaker, RetractWork, PollFlush, CancelSend
    <2> QED
      BY <2>1, <2>2
  <1>2. ASSUME NEW t \in Tasks, TaskStep(t) PROVE owed' = owed
    BY <1>2 DEF TaskStep, SendPiece, SendAnswer, TaskFinished, TaskPanicked
  <1>3. CASE Recv
    <2>1. owed' = owed \/ owed' = owed \ {Head(out).from}
      BY <1>3 DEF Recv
    <2> QED
      BY <1>a, <2>1, ZenonT(30)
  <1>4. CASE CompleteWork
    <2>1. hand \in owed /\ owed' = owed \ {hand}
      BY <1>4 DEF CompleteWork, IInv, AnsweredOnce
    <2> QED
      BY <1>a, <2>1, ZenonT(30)
  <1>5. CASE WakeOne \/ DropStream
    BY <1>5 DEF WakeOne, DropStream
  <1>6. CASE UNCHANGED vars
    BY <1>6 DEF vars
  <1> QED
    BY <1>1, <1>2, <1>3, <1>4, <1>5, <1>6, ZenonT(30) DEF Next, StreamStep

(* The disk manager implements the abstract bounded queue of work: a step   *)
(* accepts one request while there is room, answers one that is pending, or *)
(* leaves the pending work alone.                                           *)
THEOREM ImplementsBoundedWork == Spec => WorkSpec
  <1>1. Init => Work!Init
    <2> SUFFICES ASSUME Init PROVE Work!Init
      OBVIOUS
    <2>1. Cardinality(owed) = 0 /\ owed = {}
      BY FS_EmptySet DEF Init
    <2> QED
      BY <2>1, DiskAssumption DEF Work!Init
  <1>2. IInv /\ [Next]_vars => [Work!Next]_<<owed, MaxCapacity - Cardinality(owed)>>
    BY WorkStep
  <1> QED
    BY <1>1, <1>2, Invariance, PTL DEF Spec, WorkSpec, Work!Spec
=============================================================================
