----------------------------- MODULE DiskTasks -----------------------------
(***************************************************************************)
(* The tasks a DiskManager spawns, working on one torrent: execute and the *)
(* five execute_* functions, the map of torrents (DiskManagerContext), the *)
(* PieceChecker with its lock, and the files.  A step is one access to     *)
(* what tasks share: the map, the files, a checker under its lock, or the  *)
(* channel to the stream, where a sender may park while it holds the lock. *)
(*                                                                         *)
(* A block is a pair <<piece, part>>.  The merging of blocks of any size   *)
(* is module PieceMerge, their place in the files module PieceAccessor,    *)
(* the admission of requests module DiskManager.                           *)
(***************************************************************************)
EXTENDS Integers, Sequences, FiniteSets

CONSTANTS
    Requests,        \* requests; a checker is named by the Add that made it
    Blocks,          \* the blocks of the torrent
    LastBlock,       \* the block with the last byte of the file
    ReportCapacity,  \* stream_buffer_capacity
    Kinds,           \* kinds of request the clients make
    Faults,          \* whether the FileSystem may return errors
    None             \* no torrent, no request, no holder

Pieces == {b[1] : b \in Blocks}
BlocksOf(p) == {b \in Blocks : b[1] = p}

Request == [kind : Kinds \ {"load", "process"}]
             \cup [kind : Kinds \cap {"load"}, block : Blocks]
             \cup [kind : Kinds \cap {"process"}, block : Blocks, content : {"good", "bad"}]

ASSUME TasksAssumption ==
    /\ LastBlock \in Blocks /\ ReportCapacity \in Nat
    /\ Kinds \subseteq {"add", "remove", "sync", "load", "process"}
    /\ Faults \in BOOLEAN
    /\ None \notin Requests \cup Request

VARIABLES
    torrents,   \* the checker of the torrent in the map, or None
    file,       \* "absent" (or empty), "sized" or "other" (a different size)
    disk,       \* content of each block
    dirty,      \* blocks written since the files were last synced
    pc, req,    \* where each task is, and its request
    state,      \* the checker update_torrent cloned out of the map
    todo,       \* pieces run_with_whole_pieces has yet to check
    new, old, pend,   \* new_states, old_states, pending_blocks per checker
    lock,       \* holder of each checker's Mutex
    failed,     \* tasks whose result is an error
    task_out,   \* messages in the channel
    task_parked, \* tasks that wait in a send for the receiver
    verdict,    \* history: last report sent for each piece
    given,      \* history: blocks to process since then (good ones for ever)
    careful,    \* history: whether all requests so far were Permitted
    kept        \* history: pieces good on disk ever since a task began

tasksVars == <<torrents, file, disk, dirty, pc, req, state, todo, new, old, pend,
          lock, failed, task_out, task_parked, verdict, given, careful, kept>>

fileVars == <<file, disk, dirty, kept>>
checkers == <<new, old, pend, lock>>
reports == <<verdict, given, careful>>
channel == <<task_out, task_parked, reports>>

GoodPieces(d) == {p \in Pieces : \A b \in BlocksOf(p) : d[b] = "good"}

TasksInit ==
    /\ torrents = None
    /\ file \in {"absent", "sized", "other"}
    /\ disk \in [Blocks -> {"good", "bad"}]
    /\ file # "sized" => \A b \in Blocks : disk[b] = "bad"
    /\ dirty = {}
    /\ pc = [t \in Requests |-> "new"]
    /\ req = [t \in Requests |-> None]
    /\ state = [t \in Requests |-> None]
    /\ todo = [t \in Requests |-> {}]
    /\ new = [t \in Requests |-> << >>]
    /\ old = [t \in Requests |-> {}]
    /\ pend = [t \in Requests |-> {}]
    /\ lock = [t \in Requests |-> None]
    /\ failed = {}
    /\ task_out = 0
    /\ task_parked = << >>
    /\ verdict = [p \in Pieces |-> "none"]
    /\ given = {} /\ careful = TRUE
    /\ kept = [t \in Requests |-> {}]

At(t, l) == pc[t] = l /\ \A i \in DOMAIN task_parked : task_parked[i] # t
Goto(t, l) == pc' = [pc EXCEPT ![t] = l]
Fail(t) == failed' = failed \cup {t}
TasksLive(t) == pc[t] \notin {"new", "done"}
On(t, k) == req[t] # None /\ req[t].kind = k
PieceOf(t) == req[t].block[1]

(* A client that processes a block of a piece not reported good, again      *)
(* only after the piece was reported bad, and adds or removes the torrent   *)
(* only when nothing is under way.                                          *)
Permitted(r) ==
    LET others == {t \in Requests : TasksLive(t)} IN
    /\ r.kind = "process" =>
          /\ r.block \notin given /\ verdict[r.block[1]] # "good"
          /\ \A t \in others : ~On(t, "add")
    /\ r.kind \in {"add", "remove"} => others = {}

(* start_send spawns execute.                                               *)
Submit(t) ==
    /\ pc[t] = "new"
    /\ \E r \in Request :
          /\ careful' = (careful /\ Permitted(r))
          /\ given' = IF r.kind = "process" THEN given \cup {r.block} ELSE given
          /\ req' = [req EXCEPT ![t] = r]
          /\ Goto(t, IF r.kind = "add" THEN "size" ELSE IF r.kind = "remove" THEN "remove"
                     ELSE "lookup")
    /\ kept' = [kept EXCEPT ![t] = GoodPieces(disk)]
    /\ UNCHANGED <<torrents, file, disk, dirty, state, todo, checkers, failed, task_out, task_parked, verdict>>

(* update_torrent: the state is cloned and the map unlocked before it is    *)
(* used.                                                                    *)
Lookup(t) ==
    /\ At(t, "lookup")
    /\ state' = [state EXCEPT ![t] = torrents]
    /\ IF torrents = None THEN Fail(t) /\ Goto(t, "answer")
       ELSE /\ Goto(t, CASE On(t, "sync") -> "sync"
                         [] On(t, "load") -> "read"
                         [] OTHER -> "write")
            /\ UNCHANGED failed
    /\ UNCHANGED <<torrents, fileVars, req, todo, checkers, channel>>

-----------------------------------------------------------------------------
(* Sending *)

Emit(t) ==
    /\ task_out' = task_out + 1
    /\ task_parked' = IF task_out' > ReportCapacity THEN Append(task_parked, t) ELSE task_parked

Answer(t) ==
    /\ At(t, "answer")
    /\ Emit(t)
    /\ Goto(t, "done")
    /\ UNCHANGED <<torrents, fileVars, req, state, todo, checkers, failed, reports>>

(* The consumer takes a message, which resumes the sender parked longest.   *)
RecvReport ==
    /\ task_out > 0
    /\ task_out' = task_out - 1
    /\ task_parked' = IF task_parked = << >> THEN task_parked ELSE Tail(task_parked)
    /\ UNCHANGED <<torrents, fileVars, pc, req, state, todo, checkers, failed, reports>>

(* send_piece_diff, one turn of run_with_diff: a new state is taken, sent   *)
(* (bad ones only if they are not ignored) and remembered.                  *)
SendState(t, c, ignore_bad) ==
    LET s == Head(new[c]) IN
    /\ new[c] # << >>
    /\ new' = [new EXCEPT ![c] = Tail(@)]
    /\ old' = [old EXCEPT ![c] = @ \cup {s}]
    /\ IF s[1] = "bad" /\ ignore_bad THEN UNCHANGED channel
       ELSE /\ Emit(t)
            /\ verdict' = [verdict EXCEPT ![s[2]] = s[1]]
            /\ UNCHANGED careful
            /\ given' = IF s[1] = "bad" THEN given \ BlocksOf(s[2]) ELSE given

-----------------------------------------------------------------------------
(* execute_add_torrent; its checker is its own until it is inserted.        *)

(* validate_files_sizes: open_file creates the file if need be.             *)
FileSize(t) ==
    /\ At(t, "size")
    /\ \/ /\ file = "other" \/ Faults
          /\ Fail(t) /\ Goto(t, "answer") /\ UNCHANGED todo
       \/ /\ file = "absent"
          /\ Goto(t, "allocate") /\ UNCHANGED <<failed, todo>>
       \/ /\ file = "sized"
          /\ Goto(t, "hash") /\ todo' = [todo EXCEPT ![t] = Pieces] /\ UNCHANGED failed
    /\ UNCHANGED <<torrents, fileVars, req, state, checkers, channel>>

(* ... and a zero in the last byte gives it its size.                       *)
Allocate(t) ==
    /\ At(t, "allocate")
    /\ file' = "sized"
    /\ \E x \in {disk[LastBlock], "bad"} :
          disk' = [disk EXCEPT ![LastBlock] = x]
    /\ kept' = [u \in Requests |-> kept[u] \cap GoodPieces(disk')]
    /\ Goto(t, "hash")
    /\ todo' = [todo EXCEPT ![t] = Pieces]
    /\ UNCHANGED <<torrents, dirty, req, state, checkers, failed, channel>>

Verdict(p) == <<IF p \in GoodPieces(disk) THEN "good" ELSE "bad", p>>

(* Mutant: an unreadable piece is skipped, not an error.                    *)
HashPieceSkipping(t) ==
    /\ At(t, "hash")
    /\ \/ \E p \in todo[t], seen \in BOOLEAN :
             /\ new' = [new EXCEPT ![t] = IF seen THEN Append(@, Verdict(p)) ELSE @]
             /\ todo' = [todo EXCEPT ![t] = @ \ {p}]
             /\ Goto(t, IF todo'[t] = {} THEN "diff" ELSE "hash")
             /\ UNCHANGED failed
    /\ UNCHANGED <<torrents, fileVars, req, state, old, pend, lock, channel>>

(* fill_checker_state and calculate_diff: all pieces are pending and        *)
(* checked, in the order of a HashMap.  A read error ends the request.      *)
HashPiece(t) ==
    /\ At(t, "hash")
    /\ \/ \E p \in todo[t] :
             /\ new' = [new EXCEPT ![t] = Append(@, Verdict(p))]
             /\ todo' = [todo EXCEPT ![t] = @ \ {p}]
             /\ Goto(t, IF todo'[t] = {} THEN "diff" ELSE "hash")
             /\ UNCHANGED failed
       \/ Faults /\ Fail(t) /\ Goto(t, "answer") /\ UNCHANGED <<new, todo>>
    /\ UNCHANGED <<torrents, fileVars, req, state, old, pend, lock, channel>>

SendAddedDiff(t) ==
    /\ At(t, "diff") /\ On(t, "add")
    /\ \/ SendState(t, t, TRUE) /\ UNCHANGED pc
       \/ new[t] = << >> /\ Goto(t, "insert") /\ UNCHANGED <<new, old, channel>>
    /\ UNCHANGED <<torrents, fileVars, req, state, todo, pend, lock, failed>>

InsertTorrent(t) ==
    /\ At(t, "insert")
    /\ IF torrents = None THEN torrents' = t /\ UNCHANGED failed
       ELSE Fail(t) /\ UNCHANGED torrents
    /\ Goto(t, "answer")
    /\ UNCHANGED <<fileVars, req, state, todo, checkers, channel>>

-----------------------------------------------------------------------------
(* execute_remove_torrent, execute_sync_torrent, execute_load_block *)

RemoveTorrent(t) ==
    /\ At(t, "remove")
    /\ IF torrents = None THEN Fail(t) ELSE UNCHANGED failed
    /\ torrents' = None
    /\ Goto(t, "answer")
    /\ UNCHANGED <<fileVars, req, state, todo, checkers, channel>>

SyncFiles(t) ==
    /\ At(t, "sync")
    /\ \/ dirty' = {} /\ UNCHANGED failed
       \/ Faults /\ Fail(t) /\ UNCHANGED dirty
    /\ Goto(t, "answer")
    /\ UNCHANGED <<torrents, file, disk, kept, req, state, todo, checkers, channel>>

ReadBlock(t) ==
    /\ At(t, "read")
    /\ UNCHANGED failed \/ (Faults /\ Fail(t))
    /\ Goto(t, "answer")
    /\ UNCHANGED <<torrents, fileVars, req, state, todo, checkers, channel>>

-----------------------------------------------------------------------------
(* execute_process_block *)

(* write_piece, without the lock.  An error goes straight to the diff, and  *)
(* may come after part of the block was written.                            *)
WritePiece(t) ==
    LET b == req[t].block IN
    /\ At(t, "write")
    /\ \/ disk' = [disk EXCEPT ![b] = req[t].content] /\ Goto(t, "pend") /\ UNCHANGED failed
       \/ /\ Faults /\ Fail(t) /\ Goto(t, "diff")
          /\ \E x \in {disk[b], "bad"} : disk' = [disk EXCEPT ![b] = x]
    /\ dirty' = dirty \cup {b}
    /\ kept' = [u \in Requests |-> kept[u] \cap GoodPieces(disk')]
    /\ UNCHANGED <<torrents, file, req, state, todo, checkers, channel>>

AddPendingBlock(t) ==
    /\ At(t, "pend") /\ lock[state[t]] = None
    /\ pend' = [pend EXCEPT ![state[t]] = @ \cup {req[t].block}]
    /\ Goto(t, "check")
    /\ UNCHANGED <<torrents, fileVars, req, state, todo, new, old, lock, failed, channel>>

(* Mutant: a piece is complete with any of its blocks.                      *)
WholeByAny(c) == {p \in Pieces : BlocksOf(p) \cap pend[c] # {} /\ <<"good", p>> \notin old[c]}

(* piece_is_complete, and not in old_states as good.                        *)
Whole(c) == {p \in Pieces : BlocksOf(p) \subseteq pend[c] /\ <<"good", p>> \notin old[c]}

(* calculate_diff takes the lock ...                                        *)
CalculateDiff(t) ==
    /\ At(t, "check") /\ lock[state[t]] = None
    /\ IF Whole(state[t]) = {} THEN Goto(t, "diff") /\ UNCHANGED <<lock, todo>>
       ELSE /\ lock' = [lock EXCEPT ![state[t]] = t]
            /\ todo' = [todo EXCEPT ![t] = Whole(state[t])]
            /\ Goto(t, "checking")
    /\ UNCHANGED <<torrents, fileVars, req, state, new, old, pend, failed, channel>>

(* Mutant: a read error leaves calculate_diff as if the piece were checked. *)
CheckPieceForgetting(t) ==
    LET c == state[t] IN
    /\ At(t, "checking")
    /\ \E p \in todo[t], known \in BOOLEAN :
          /\ new' = [new EXCEPT ![c] = IF known THEN Append(@, Verdict(p)) ELSE @]
          /\ pend' = [pend EXCEPT ![c] = IF known THEN @ \ BlocksOf(p) ELSE @]
    /\ todo' = [todo EXCEPT ![t] = {}]
    /\ lock' = [lock EXCEPT ![c] = None]
    /\ Goto(t, "diff")
    /\ UNCHANGED <<torrents, fileVars, req, state, old, failed, channel>>

(* ... and reads the whole pieces one by one, in any order; an error        *)
(* returns and leaves the rest pending.                                     *)
CheckPiece(t) ==
    LET c == state[t] IN
    /\ At(t, "checking")
    /\ \/ \E p \in todo[t] :
             /\ new' = [new EXCEPT ![c] = Append(@, Verdict(p))]
             /\ pend' = [pend EXCEPT ![c] = @ \ BlocksOf(p)]
             /\ todo' = [todo EXCEPT ![t] = @ \ {p}]
             /\ IF todo'[t] = {} THEN Goto(t, "diff") /\ lock' = [lock EXCEPT ![c] = None]
                ELSE UNCHANGED <<pc, lock>>
             /\ UNCHANGED failed
       \/ /\ Faults /\ Fail(t) /\ Goto(t, "diff")
          /\ lock' = [lock EXCEPT ![c] = None]
          /\ todo' = [todo EXCEPT ![t] = {}]
          /\ UNCHANGED <<new, pend>>
    /\ UNCHANGED <<torrents, fileVars, req, state, old, channel>>

(* send_piece_diff keeps the lock while it sends.                           *)
StartDiff(t) ==
    LET c == state[t] IN
    /\ At(t, "diff") /\ On(t, "process") /\ lock[c] = None
    /\ IF new[c] = << >> THEN Goto(t, "answer") /\ UNCHANGED lock
       ELSE Goto(t, "sending") /\ lock' = [lock EXCEPT ![c] = t]
    /\ UNCHANGED <<torrents, fileVars, req, state, todo, new, old, pend, failed, channel>>

(* Mutant: the lock is kept.                                                *)
SendDiffKeeping(t) ==
    /\ At(t, "sending")
    /\ \/ SendState(t, state[t], FALSE) /\ UNCHANGED pc
       \/ new[state[t]] = << >> /\ Goto(t, "answer") /\ UNCHANGED <<new, old, channel>>
    /\ UNCHANGED <<torrents, fileVars, req, state, todo, pend, lock, failed>>

(* The lock is released when all new states are sent.                       *)
SendDiff(t) ==
    LET c == state[t] IN
    /\ At(t, "sending")
    /\ \/ SendState(t, c, FALSE) /\ UNCHANGED <<pc, lock>>
       \/ /\ new[c] = << >> /\ Goto(t, "answer") /\ lock' = [lock EXCEPT ![c] = None]
          /\ UNCHANGED <<new, old, channel>>
    /\ UNCHANGED <<torrents, fileVars, req, state, todo, pend, failed>>

-----------------------------------------------------------------------------
RequestStep(t) ==
    \/ Lookup(t) \/ Answer(t)
    \/ FileSize(t) \/ Allocate(t) \/ HashPiece(t) \/ SendAddedDiff(t) \/ InsertTorrent(t)
    \/ RemoveTorrent(t) \/ SyncFiles(t) \/ ReadBlock(t)
    \/ WritePiece(t) \/ AddPendingBlock(t) \/ CalculateDiff(t) \/ CheckPiece(t)
    \/ StartDiff(t) \/ SendDiff(t)

TasksNext == (\E t \in Requests : Submit(t) \/ RequestStep(t)) \/ RecvReport

TasksSpec == TasksInit /\ [][TasksNext]_tasksVars

-----------------------------------------------------------------------------
(* "Any good pieces already existing for the torrent will be sent as        *)
(* FoundGoodPiece messages BEFORE" TorrentAdded: when an Add is about to    *)
(* answer without an error, every piece that stayed good on disk since the  *)
(* request was reported good by it.                                         *)
AddedAfterGoodPieces ==
    \A t \in Requests : On(t, "add") /\ pc[t] = "answer" /\ t \notin failed =>
        \A p \in kept[t] : <<"good", p>> \in old[t]

(* However the tasks of a torrent share their checker, when the last        *)
(* request for a block of a piece has been processed the piece is not left  *)
(* whole and unchecked, or checked and unreported.                          *)
ProcessedIsReported ==
    \A c \in Requests, p \in Pieces :
        LET users == {t \in Requests : On(t, "process") /\ state[t] = c /\ PieceOf(t) = p} IN
        users # {} /\ (\A t \in users : pc[t] \in {"answer", "done"} /\ t \notin failed) =>
            p \notin Whole(c) /\ \A i \in DOMAIN new[c] : new[c][i][2] # p

(* As long as clients do not overwrite good pieces and do not add a torrent *)
(* while others use it, a piece whose last report is FoundGoodPiece is good *)
(* on disk.                                                                 *)
GoodIsGood ==
    careful => \A p \in Pieces : verdict[p] = "good" => p \in GoodPieces(disk)

(* Requests wait for the lock of a checker whose holder waits for the       *)
(* consumer, but never for one another: as long as a request is unanswered, *)
(* a task can go on or the consumer has a message to take.                  *)
NeverStuck == (\E t \in Requests : TasksLive(t)) => task_out > 0 \/ \E t \in Requests : ENABLED RequestStep(t)
=============================================================================
