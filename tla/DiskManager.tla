---------------------------- MODULE DiskManager ----------------------------
(***************************************************************************)
(* The sink and stream halves of torrust-disk's DiskManager and the tasks  *)
(* the sink spawns: capacity accounting (cur_capacity), the queue of       *)
(* wakers, the bounded channel towards the stream and the shared JoinSet.  *)
(*                                                                         *)
(* A sender is a task that owns a clone of DiskManagerSink and drives it   *)
(* with SinkExt::send (poll_ready, start_send, poll_flush) or feed (no     *)
(* flush).  Every access to a shared atomic, queue or lock is one step.    *)
(* What a spawned task does to the torrents is module DiskTasks; here it   *)
(* sends some piece messages and then its answer.                          *)
(***************************************************************************)
EXTENDS Integers, Sequences, FiniteSets

CONSTANTS
    Senders,         \* owners of the clones of the sink
    Tasks,           \* slots for spawned tasks that still matter
    MaxCapacity,     \* sink_buffer_capacity of the builder
    StreamCapacity,  \* stream_buffer_capacity of the builder
    MaxDiff,         \* bound: piece messages one task sends
    MaxWakers,       \* bound: a send starts only below this many wakers
    Outcomes,        \* how the environment lets a task end
    NoSender,        \* no waker is registered
    NoTask           \* no message in hand

ASSUME DiskAssumption ==
    /\ IsFiniteSet(Senders) /\ IsFiniteSet(Tasks)
    /\ MaxCapacity \in Nat /\ StreamCapacity \in Nat
    /\ MaxDiff \in Nat /\ MaxWakers \in Nat
    /\ Outcomes \subseteq {"done", "error", "panic"}
    /\ NoSender \notin Senders /\ NoTask \notin Tasks

VARIABLES
    cur_capacity,    \* the AtomicUsize shared by sink and stream
    wake_queue,      \* SegQueue<Waker>; a waker is named by its owner
    sink,            \* where each sender is in its send
    awake,           \* the senders the executor will poll (again)
    task,            \* state of each task slot
    left,            \* piece messages the task has yet to send
    owed,            \* accepted work whose unit of capacity is still counted
    out,             \* the mpsc channel: messages not yet received
    parked,          \* senders of the channel waiting for the receiver
    join_waker,      \* the one waker the JoinSet keeps
    unjoined,        \* whether the JoinSet holds finished tasks
    stream,          \* where the stream is in poll_next
    hand,            \* the task whose completing message poll_next holds
    leaked           \* history: answers received that returned no capacity

vars == <<cur_capacity, wake_queue, sink, awake, task, left, owed, out,
          parked, join_waker, unjoined, stream, hand, leaked>>

sinkVars == <<cur_capacity, wake_queue, sink>>
taskVars == <<task, left, out, parked>>
joinVars == <<join_waker, unjoined>>
streamVars == <<stream, hand, leaked>>

Message == [from : Tasks, kind : {"piece", "done", "error"}]

Live(t) == task[t] \in {"run", "parked", "parked_last", "sent"}

Init ==
    /\ cur_capacity = 0
    /\ wake_queue = << >>
    /\ sink = [s \in Senders |-> "idle"]
    /\ awake = {}
    /\ task = [t \in Tasks |-> "free"]
    /\ left = [t \in Tasks |-> 0]
    /\ owed = {}
    /\ out = << >>
    /\ parked = << >>
    /\ join_waker = NoSender
    /\ unjoined = "none"
    /\ stream = "idle"
    /\ hand = NoTask
    /\ leaked = 0

-----------------------------------------------------------------------------
(* The sink *)

(* A poll of the owner's task begins and uses up its notification; a new    *)
(* send may also begin in the middle of such a poll and keep it.            *)
PollStarts(s, fresh) ==
    \/ awake' = awake \ {s}
    \/ fresh /\ awake' = awake

(* try_submit_work, first step: fetch_add and the comparison with the      *)
(* maximum.                                                                *)
TrySubmitWork(s) ==
    /\ \/ sink[s] = "idle" /\ Len(wake_queue) < MaxWakers
       \/ sink[s] = "wait" /\ s \in awake
    /\ cur_capacity' = cur_capacity + 1
    /\ sink' = [sink EXCEPT ![s] = IF cur_capacity' <= MaxCapacity
                                     THEN "ready" ELSE "over"]
    /\ PollStarts(s, sink[s] = "idle")
    /\ UNCHANGED <<wake_queue, taskVars, owed, joinVars, streamVars>>

(* over capacity: the waker goes into the queue ...                        *)
PushWaker(s) ==
    /\ sink[s] = "over"
    /\ wake_queue' = Append(wake_queue, s)
    /\ sink' = [sink EXCEPT ![s] = "pushed"]
    /\ UNCHANGED <<cur_capacity, awake, taskVars, owed, joinVars, streamVars>>

(* Mutant: the unit is not given back.                                      *)
RetractWorkKept(s) ==
    /\ sink[s] = "pushed"
    /\ sink' = [sink EXCEPT ![s] = "wait"]
    /\ UNCHANGED <<cur_capacity, wake_queue, awake, taskVars, owed, joinVars, streamVars>>

(* ... and only then the unit is given back; poll_ready is Pending.        *)
RetractWork(s) ==
    /\ sink[s] = "pushed"
    /\ cur_capacity' = cur_capacity - 1
    /\ sink' = [sink EXCEPT ![s] = "wait"]
    /\ UNCHANGED <<wake_queue, awake, taskVars, owed, joinVars, streamVars>>

(* Mutant: start_send without a poll_ready that returned Ready.             *)
StartSendUnready(s) ==
    /\ sink[s] \in {"ready", "wait"}
    /\ \E t \in Tasks, n \in 0..MaxDiff, next \in {"flush", "idle"} :
          /\ task[t] = "free" /\ t \notin owed
          /\ task' = [task EXCEPT ![t] = "run"]
          /\ left' = [left EXCEPT ![t] = n]
          /\ owed' = owed \cup {t}
          /\ sink' = [sink EXCEPT ![s] = next]
    /\ UNCHANGED <<cur_capacity, wake_queue, awake, out, parked, joinVars, streamVars>>

(* start_send spawns tasks::execute; send goes on to flush, feed does not. *)
StartSend(s) ==
    /\ sink[s] = "ready"
    /\ \E t \in Tasks, n \in 0..MaxDiff, next \in {"flush", "idle"} :
          /\ task[t] = "free" /\ t \notin owed
          /\ task' = [task EXCEPT ![t] = "run"]
          /\ left' = [left EXCEPT ![t] = n]
          /\ owed' = owed \cup {t}
          /\ sink' = [sink EXCEPT ![s] = next]
    /\ UNCHANGED <<cur_capacity, wake_queue, awake, out, parked, joinVars, streamVars>>

(* poll_flush joins finished tasks under the lock of task_set.  A task that *)
(* panicked ends the poll with an error.  Whenever the JoinSet is not empty *)
(* it remembers this waker, in place of any other.                          *)
PollFlush(s) ==
    /\ sink[s] = "flush" \/ (sink[s] = "joining" /\ s \in awake)
    /\ \/ \E t \in Tasks :
             /\ task[t] = "panicked"
             /\ task' = [task EXCEPT ![t] = "free"]
             /\ sink' = [sink EXCEPT ![s] = "idle"]
             /\ join_waker' = s
             /\ unjoined' \in {unjoined, "none"}
       \/ /\ \A t \in Tasks : task[t] = "free"
          /\ sink' = [sink EXCEPT ![s] = "idle"]
          /\ join_waker' = IF unjoined = "some" THEN s ELSE join_waker
          /\ unjoined' = "none"
          /\ UNCHANGED task
       \/ /\ \E t \in Tasks : Live(t)
          /\ \A t \in Tasks : task[t] # "panicked"
          /\ sink' = [sink EXCEPT ![s] = "joining"]
          /\ join_waker' = s
          /\ unjoined' = "none"
          /\ UNCHANGED task
    /\ awake' = IF sink[s] = "flush" THEN awake ELSE awake \ {s}
    /\ UNCHANGED <<cur_capacity, wake_queue, left, owed, out, parked, streamVars>>

(* The owner drops a pending send (a timeout, now_or_never): its waker      *)
(* stays where it is.                                                       *)
CancelSend(s) ==
    /\ sink[s] \in {"wait", "joining"}
    /\ sink' = [sink EXCEPT ![s] = "idle"]
    /\ UNCHANGED <<cur_capacity, wake_queue, awake, taskVars, owed, joinVars, streamVars>>

-----------------------------------------------------------------------------
(* Spawned tasks and the channel (futures::channel::mpsc): a send always    *)
(* enqueues, and parks its sender when more than StreamCapacity messages    *)
(* are in the channel, until a receive unparks it.                          *)

Enqueue(t, k, running, parking) ==
    /\ stream # "dropped"
    /\ out' = Append(out, [from |-> t, kind |-> k])
    /\ IF Len(out') > StreamCapacity
         THEN /\ task' = [task EXCEPT ![t] = parking]
              /\ parked' = Append(parked, t)
         ELSE /\ task' = [task EXCEPT ![t] = running]
              /\ UNCHANGED parked

(* send_piece_diff: one FoundGoodPiece or FoundBadPiece.                    *)
SendPiece(t) ==
    /\ task[t] = "run" /\ left[t] > 0
    /\ Enqueue(t, "piece", "run", "parked")
    /\ left' = [left EXCEPT ![t] = @ - 1]
    /\ UNCHANGED <<sinkVars, awake, owed, joinVars, streamVars>>

(* Mutant: an error is logged and not sent.                                 *)
SendAnswerDoneOnly(t) ==
    /\ task[t] = "run" /\ left[t] = 0
    /\ \/ "done" \in Outcomes /\ Enqueue(t, "done", "sent", "parked_last")
       \/ /\ "error" \in Outcomes
          /\ task' = [task EXCEPT ![t] = "sent"]
          /\ UNCHANGED <<out, parked>>
    /\ UNCHANGED <<sinkVars, awake, left, owed, joinVars, streamVars>>

(* execute: the answer to the request.                                      *)
SendAnswer(t) ==
    /\ task[t] = "run" /\ left[t] = 0
    /\ \E k \in Outcomes \ {"panic"} : Enqueue(t, k, "sent", "parked_last")
    /\ UNCHANGED <<sinkVars, awake, left, owed, joinVars, streamVars>>

(* Mutant: the registered waker is dropped without a wake.                  *)
NotifyJoinerSilent ==
    /\ UNCHANGED awake
    /\ join_waker' = NoSender

(* A finished task notifies the waker the JoinSet holds, if any.            *)
NotifyJoiner ==
    /\ awake' = awake \cup ({join_waker} \ {NoSender})
    /\ join_waker' = NoSender

TaskFinished(t) ==
    /\ task[t] = "sent"
    /\ task' = [task EXCEPT ![t] = "free"]
    /\ NotifyJoiner
    /\ unjoined' = "some"
    /\ UNCHANGED <<sinkVars, left, owed, out, parked, streamVars>>

(* expect("Failed To Send ..."): the stream is gone; or an assertion on the *)
(* file system failed.                                                      *)
TaskPanicked(t) ==
    /\ task[t] = "run"
    /\ stream = "dropped" \/ "panic" \in Outcomes
    /\ task' = [task EXCEPT ![t] = "panicked"]
    /\ NotifyJoiner
    /\ UNCHANGED <<sinkVars, left, owed, out, parked, unjoined, streamVars>>

-----------------------------------------------------------------------------
(* The stream *)

(* Where a task goes on when the channel unparks it.                        *)
Resumed(t) == IF task[t] = "parked" THEN "run" ELSE "sent"

(* recv.poll_next takes a message and unparks one sender of the channel;    *)
(* only the five completing kinds go on to complete_work.                   *)
Recv ==
    /\ stream = "idle" /\ out # << >>
    /\ LET m == Head(out) IN
          /\ stream' = IF m.kind = "done" THEN "sub" ELSE "idle"
          /\ hand' = IF m.kind = "done" THEN m.from ELSE NoTask
          /\ leaked' = IF m.kind = "error" THEN leaked + 1 ELSE leaked
          /\ owed' = IF m.kind = "error" THEN owed \ {m.from} ELSE owed
    /\ out' = Tail(out)
    /\ IF parked = << >> THEN UNCHANGED <<task, parked>>
       ELSE /\ task' = [task EXCEPT ![Head(parked)] = Resumed(Head(parked))]
            /\ parked' = Tail(parked)
    /\ UNCHANGED <<sinkVars, awake, left, joinVars>>

(* complete_work: fetch_sub ...                                             *)
CompleteWork ==
    /\ stream = "sub"
    /\ cur_capacity' = cur_capacity - 1
    /\ owed' = owed \ {hand}
    /\ stream' = "pop"
    /\ hand' = NoTask
    /\ UNCHANGED <<wake_queue, sink, awake, taskVars, joinVars, leaked>>

(* ... then wake the owner of the oldest waker, if there is one.            *)
WakeOne ==
    /\ stream = "pop"
    /\ IF wake_queue = << >> THEN UNCHANGED <<wake_queue, awake>>
       ELSE /\ awake' = awake \cup {Head(wake_queue)}
            /\ wake_queue' = Tail(wake_queue)
    /\ stream' = "idle"
    /\ UNCHANGED <<cur_capacity, sink, taskVars, owed, joinVars, hand, leaked>>

(* The consumer drops the stream: the channel closes and unparks everyone.  *)
DropStream ==
    /\ stream = "idle"
    /\ stream' = "dropped"
    /\ out' = << >>
    /\ parked' = << >>
    /\ task' = [t \in Tasks |-> IF task[t] \in {"parked", "parked_last"}
                                  THEN Resumed(t) ELSE task[t]]
    /\ UNCHANGED <<sinkVars, awake, left, owed, joinVars, hand, leaked>>

-----------------------------------------------------------------------------
SinkStep(s) ==
    \/ TrySubmitWork(s) \/ PushWaker(s) \/ RetractWork(s)
    \/ StartSend(s) \/ PollFlush(s)

TaskStep(t) == SendPiece(t) \/ SendAnswer(t) \/ TaskFinished(t) \/ TaskPanicked(t)

StreamStep == Recv \/ CompleteWork \/ WakeOne

Next ==
    \/ \E s \in Senders : SinkStep(s) \/ CancelSend(s)
    \/ \E t \in Tasks : TaskStep(t)
    \/ StreamStep
    \/ DropStream

Spec == Init /\ [][Next]_vars

(* The executor runs every task that is not waiting, and the consumer keeps *)
(* polling the stream.  Nobody is obliged to start or to cancel a send.     *)
Fairness ==
    /\ \A s \in Senders : WF_vars(sink[s] # "idle" /\ SinkStep(s))
    /\ \A t \in Tasks : WF_vars(TaskStep(t))
    /\ WF_vars(StreamStep)

FairSpec == Spec /\ Fairness

-----------------------------------------------------------------------------
(* Properties *)

TypeOK ==
    /\ cur_capacity \in Nat
    /\ wake_queue \in Seq(Senders)
    /\ sink \in [Senders -> {"idle", "over", "pushed", "wait", "ready", "flush", "joining"}]
    /\ awake \subseteq Senders
    /\ task \in [Tasks -> {"free", "run", "parked", "parked_last", "sent", "panicked"}]
    /\ left \in [Tasks -> 0..MaxDiff]
    /\ owed \subseteq Tasks
    /\ out \in Seq(Message)
    /\ parked \in Seq(Tasks)
    /\ join_waker \in Senders \cup {NoSender}
    /\ unjoined \in {"none", "some"}
    /\ stream \in {"idle", "sub", "pop", "dropped"}
    /\ hand \in Tasks \cup {NoTask}
    /\ leaked \in Nat

Holding == {s \in Senders : sink[s] \in {"ready", "over", "pushed"}}
Reserved == {s \in Senders : sink[s] = "ready"}

(* The atomic counter is exactly the units taken by polls in progress, by   *)
(* accepted requests without an answer, and by the answers that returned    *)
(* none; fetch_sub in try_submit_work and in complete_work therefore never  *)
(* wraps below zero.                                                        *)
CapacityExact == cur_capacity = Cardinality(Holding) + Cardinality(owed) + leaked

(* However the increments and decrements of several sinks and the stream    *)
(* interleave, requests admitted and not answered stay within max_capacity. *)
AcceptedWithinCapacity == Cardinality(Reserved) + Cardinality(owed) + leaked <= MaxCapacity

Answers == {i \in DOMAIN out : out[i].kind # "piece"}

(* Each accepted request has at most one answer on its way to the consumer, *)
(* and a task that still runs has sent none: complete_work is called at     *)
(* most once per request.                                                   *)
AnsweredOnce ==
    /\ \A i \in Answers : /\ out[i].from \in owed
                          /\ task[out[i].from] \notin {"run", "parked"}
                          /\ out[i].from # hand
                          /\ \A j \in Answers : out[j].from = out[i].from => i = j
    /\ stream = "sub" => /\ hand \in owed
                         /\ task[hand] \notin {"run", "parked"}

(* The manager implements the abstract bounded queue of work.               *)
Work == INSTANCE BoundedWork
          WITH Works <- Tasks, Capacity <- MaxCapacity,
               pending <- owed, room <- MaxCapacity - Cardinality(owed)

WorkSpec == Work!Spec

(* Every request the sink accepted is answered, as long as the consumer     *)
(* polls the stream: no task stays parked on the channel for ever.          *)
AcceptedIsAnswered == \A t \in Tasks : t \in owed ~> (t \notin owed \/ stream = "dropped")

(* A send that reached poll_flush returns.                                  *)
FlushReturns ==
    \A s \in Senders : sink[s] = "joining" ~> (sink[s] # "joining" \/ stream = "dropped")

(* A sender that found the sink full goes on once the consumer receives:    *)
(* "Receive from our stream to unblock the backpressure".                   *)
BackpressureUnblocks ==
    \A s \in Senders : sink[s] = "wait" ~> (sink[s] # "wait" \/ stream = "dropped")
=============================================================================
