---------------------------- MODULE HashWorkers ----------------------------
(***************************************************************************)
(* The threads that hash the pieces of a metainfo file: a master that cuts *)
(* the files in pieces, workers that hash them, a pool of piece buffers,   *)
(* the work queue, the channel back to the master, and the thread that     *)
(* reports progress.  A buffer keeps its old bytes when it is used again.  *)
(* A read returns any number of bytes up to what is asked for.             *)
(***************************************************************************)
EXTENDS Integers, Sequences, SequencesExt, FiniteSets, FiniteSetsExt

CONSTANTS
    Workers,        \* the hasher threads
    PieceLength,    \* bytes in a piece
    Accessors       \* sequences of accesses: [bytes |-> file], [hash |-> piece] or [fails |-> bytes]

ASSUME HashAssumption == Workers # {} /\ IsFiniteSet(Workers) /\ PieceLength \in Nat \ {0}

VARIABLES
    accessor,       \* what the accessor passes to the callback
    master,         \* pc, access and position in it, buffer, piece_index, pieces, workers_finished
    work,           \* queue of pieces and Finish messages
    piece_queue,    \* free buffers
    worker,         \* state of each worker
    recv,           \* channel to the master
    progress        \* [sent, seen]: piece numbers to the progress thread

hashVars == <<accessor, master, work, piece_queue, worker, recv, progress>>

NewBuffer == [buffer |-> [k \in 1 .. PieceLength |-> 0], bytes_read |-> 0]
is_whole(b) == b.bytes_read = PieceLength
is_empty(b) == b.bytes_read = 0
as_slice(b) == SubSeq(b.buffer, 1, b.bytes_read)

(* Bytes bytes[from + 1 .. from + n] of a file are read into the buffer.   *)
write_bytes(b, bytes, from, n) ==
    [buffer |-> [k \in 1 .. PieceLength |->
        IF k > b.bytes_read /\ k <= b.bytes_read + n THEN bytes[from + k - b.bytes_read] ELSE b.buffer[k]],
     bytes_read |-> b.bytes_read + n]

calculate_total_buffers == 2 * Cardinality(Workers)

HashInit ==
    /\ accessor \in Accessors
    /\ master = [pc |-> "next", access |-> 0, pos |-> 0, buffer |-> {}, piece_index |-> 0, pieces |-> <<>>,
                 finish |-> 0, workers_finished |-> 0]
    /\ work = <<>>
    /\ piece_queue = [k \in 1 .. calculate_total_buffers |-> NewBuffer]
    /\ worker = [w \in Workers |-> [pc |-> "pop"]]
    /\ recv = <<>>
    /\ progress = [sent |-> <<>>, seen |-> 0]

-----------------------------------------------------------------------------
(* The master                                                              *)

Access == accessor[master.access]
Bytes == IF "bytes" \in DOMAIN Access THEN Access.bytes ELSE Access.fails

(* The accessor calls back with the next region or hash, or it is done.    *)
NextAccess ==
    /\ master.pc = "next"
    /\ master' = IF master.access = Len(accessor) THEN [master EXCEPT !.pc = "leftover"]
                 ELSE LET next == accessor[master.access + 1]
                      IN  IF "hash" \in DOMAIN next
                          THEN [master EXCEPT !.access = @ + 1, !.pieces = Append(@, <<master.piece_index, next.hash>>),
                                              !.piece_index = @ + 1]
                          ELSE [master EXCEPT !.access = @ + 1, !.pos = 0,
                                              !.pc = IF master.buffer = {} THEN "checkout" ELSE "read"]
    /\ UNCHANGED <<accessor, work, piece_queue, worker, recv, progress>>

(* Blocks, by sleeping and trying again, until there is a free buffer.     *)
checkout ==
    /\ master.pc = "checkout"
    /\ piece_queue # <<>>
    /\ master' = [master EXCEPT !.pc = "read", !.buffer = {Head(piece_queue)}]
    /\ piece_queue' = Tail(piece_queue)
    /\ UNCHANGED <<accessor, work, worker, recv, progress>>

(* A whole buffer is a piece; reading nothing is the end of the region.    *)
ReadRegion ==
    /\ master.pc = "read"
    /\ \E b \in master.buffer, n \in 0 .. PieceLength :
        LET left == Len(Bytes) - master.pos
            full == write_bytes(b, Bytes, master.pos, n)
        IN  /\ n <= left /\ n <= PieceLength - b.bytes_read
            /\ n = 0 => left = 0 /\ "bytes" \in DOMAIN Access
            /\ IF is_whole(full)
               THEN /\ work' = Append(work, [index |-> master.piece_index, buffer |-> full])
                    /\ progress' = [progress EXCEPT !.sent = Append(@, master.piece_index + 1)]
                    /\ master' = [master EXCEPT !.pos = @ + n, !.piece_index = @ + 1, !.buffer = {}, !.pc = "checkout"]
               ELSE /\ master' = [master EXCEPT !.pos = @ + n, !.buffer = {full}, !.pc = IF n = 0 THEN "next" ELSE "read"]
                    /\ UNCHANGED <<work, progress>>
    /\ UNCHANGED <<accessor, piece_queue, worker, recv>>

(* The file cannot be read to its end: the error is returned at once, and  *)
(* the receiver is dropped.                                                *)
ReadFails ==
    /\ master.pc = "read"
    /\ "fails" \in DOMAIN Access
    /\ master.pos = Len(Bytes)
    /\ master' = [master EXCEPT !.pc = "failed"]
    /\ UNCHANGED <<accessor, work, piece_queue, worker, recv, progress>>

(* Mutant: bytes left over at the end are no piece.                        *)
PushLeftOverNone ==
    /\ master.pc = "leftover"
    /\ master' = [master EXCEPT !.pc = "finish"]
    /\ UNCHANGED <<accessor, work, piece_queue, worker, recv, progress>>

PushLeftOver ==
    /\ master.pc = "leftover"
    /\ LET partial == {b \in master.buffer : ~is_empty(b)}
       IN  IF partial = {} THEN master' = [master EXCEPT !.pc = "finish"] /\ UNCHANGED <<work, progress>>
           ELSE \E b \in partial :
                /\ work' = Append(work, [index |-> master.piece_index, buffer |-> b])
                /\ progress' = [progress EXCEPT !.sent = Append(@, master.piece_index + 1)]
                /\ master' = [master EXCEPT !.pc = "finish", !.piece_index = @ + 1, !.buffer = {}]
    /\ UNCHANGED <<accessor, piece_queue, worker, recv>>

PushFinish ==
    /\ master.pc = "finish"
    /\ IF master.finish < Cardinality(Workers)
       THEN /\ work' = Append(work, [finish |-> TRUE])
            /\ master' = [master EXCEPT !.finish = @ + 1]
       ELSE /\ master' = [master EXCEPT !.pc = "recv"]
            /\ UNCHANGED work
    /\ UNCHANGED <<accessor, piece_queue, worker, recv, progress>>

ByIndex(a, b) == a[1] <= b[1]

(* The results are collected until all workers have finished, and sorted.  *)
MasterRecv ==
    /\ master.pc = "recv"
    /\ IF master.workers_finished = Cardinality(Workers)
       THEN /\ master' = [master EXCEPT !.pc = "done", !.pieces = SortSeq(@, ByIndex)]
            /\ UNCHANGED recv
       ELSE /\ recv # <<>>
            /\ recv' = Tail(recv)
            /\ master' = IF "finished" \in DOMAIN Head(recv) THEN [master EXCEPT !.workers_finished = @ + 1]
                         ELSE [master EXCEPT !.pieces = Append(@, Head(recv).piece)]
    /\ UNCHANGED <<accessor, work, piece_queue, worker, progress>>

MasterStep ==
    NextAccess \/ checkout \/ ReadRegion \/ ReadFails \/ PushLeftOver \/ PushFinish \/ MasterRecv

-----------------------------------------------------------------------------
(* The workers.  Sending to a master that has gone panics.                 *)

WorkerPop(w) ==
    /\ worker[w].pc = "pop"
    /\ work # <<>>
    /\ work' = Tail(work)
    /\ worker' = [worker EXCEPT ![w] = IF "finish" \in DOMAIN Head(work) THEN [pc |-> "finish"]
                                       ELSE [pc |-> "hash", item |-> Head(work)]]
    /\ UNCHANGED <<accessor, master, piece_queue, recv, progress>>

WorkerHash(w) ==
    /\ worker[w].pc = "hash"
    /\ IF master.pc \in {"failed", "done"}
       THEN worker' = [worker EXCEPT ![w] = [pc |-> "panicked"]] /\ UNCHANGED recv
       ELSE /\ recv' = Append(recv, [piece |-> <<worker[w].item.index, as_slice(worker[w].item.buffer)>>])
            /\ worker' = [worker EXCEPT ![w].pc = "checkin"]
    /\ UNCHANGED <<accessor, master, work, piece_queue, progress>>

(* Mutant: the buffer is dropped.                                          *)
checkin_dropped(w) ==
    /\ worker[w].pc = "checkin"
    /\ worker' = [worker EXCEPT ![w] = [pc |-> "pop"]]
    /\ UNCHANGED <<accessor, master, work, piece_queue, recv, progress>>

checkin(w) ==
    /\ worker[w].pc = "checkin"
    /\ piece_queue' = Append(piece_queue, [worker[w].item.buffer EXCEPT !.bytes_read = 0])
    /\ worker' = [worker EXCEPT ![w] = [pc |-> "pop"]]
    /\ UNCHANGED <<accessor, master, work, recv, progress>>

WorkerFinish(w) ==
    /\ worker[w].pc = "finish"
    /\ IF master.pc \in {"failed", "done"}
       THEN worker' = [worker EXCEPT ![w] = [pc |-> "panicked"]] /\ UNCHANGED recv
       ELSE /\ recv' = Append(recv, [finished |-> w])
            /\ worker' = [worker EXCEPT ![w] = [pc |-> "exited"]]
    /\ UNCHANGED <<accessor, master, work, piece_queue, progress>>

WorkerStep(w) == WorkerPop(w) \/ WorkerHash(w) \/ checkin(w) \/ WorkerFinish(w)

(* start_progress_updater calls back with each number that was sent.       *)
ReportProgress ==
    /\ progress.sent # <<>>
    /\ progress' = [sent |-> Tail(progress.sent), seen |-> Head(progress.sent)]
    /\ UNCHANGED <<accessor, master, work, piece_queue, worker, recv>>

HashNext == MasterStep \/ (\E w \in Workers : WorkerStep(w)) \/ ReportProgress

(* One build; MCWorkers adds the fairness of its threads.                  *)
HashSpec == HashInit /\ [][HashNext]_hashVars

-----------------------------------------------------------------------------
(* The pieces of the files one after the other; only a file with bytes     *)
(* after its last whole piece shares a piece with the next.                *)
AllBytes ==
    FlattenSeq([k \in DOMAIN accessor |-> IF "bytes" \in DOMAIN accessor[k] THEN accessor[k].bytes
                                          ELSE IF "fails" \in DOMAIN accessor[k] THEN accessor[k].fails ELSE <<>>])
Expected ==
    LET n == Len(AllBytes)
    IN  IF n = 0 THEN [k \in DOMAIN SelectSeq(accessor, LAMBDA a : "hash" \in DOMAIN a) |->
                        SelectSeq(accessor, LAMBDA a : "hash" \in DOMAIN a)[k].hash]
        ELSE [k \in 1 .. ((n + PieceLength - 1) \div PieceLength) |->
                SubSeq(AllBytes, (k - 1) * PieceLength + 1, IF k * PieceLength < n THEN k * PieceLength ELSE n)]

(* Whatever the order in which workers hash and the sizes of the reads,    *)
(* start_hasher_workers returns the pieces of the files in order, each     *)
(* once: no piece is hashed from a buffer that is being filled again.      *)
PiecesInOrder ==
    master.pc = "done" => master.pieces = [k \in DOMAIN Expected |-> <<k - 1, Expected[k]>>]

(* Every one of the buffers is free, being filled, queued or held by a     *)
(* worker, so checkout never waits for one that is lost; a free buffer is  *)
(* empty.  A worker that panics takes its buffer with it.                  *)
BuffersAreKept ==
    /\ Len(piece_queue) + Cardinality(master.buffer) + Len(SelectSeq(work, LAMBDA i : "buffer" \in DOMAIN i))
        + Cardinality({w \in Workers : worker[w].pc \in {"hash", "checkin"}})
        \in IF master.pc = "failed" THEN 0 .. calculate_total_buffers ELSE {calculate_total_buffers}
    /\ \A k \in DOMAIN piece_queue : is_empty(piece_queue[k])

(* When the pieces are returned no worker is left running, nothing is      *)
(* queued and no result is lost.                                           *)
WorkersHaveStopped ==
    master.pc = "done" => (work = <<>> /\ recv = <<>> /\ (\A w \in Workers : worker[w].pc = "exited"))

(* A build that has begun comes to an end: it returns the pieces or the    *)
(* error of the accessor.  The master never waits for a buffer or a worker *)
(* forever.                                                                *)
BuildEnds == (master.access > 0) ~> (master.pc \in {"done", "failed"})

(* A build returns all pieces in order with its workers stopped, and on    *)
(* the way loses no buffer.                                                *)
PiecesAreReturned == PiecesInOrder /\ WorkersHaveStopped /\ BuffersAreKept
=============================================================================
