-------------------------- MODULE DiskTasksProofs --------------------------
(***************************************************************************)
(* What the tasks of DiskTasks do and where they may be, for any number of *)
(* requests, any blocks and any capacity of the channel; who holds the     *)
(* lock of a checker, and what an Add finds.                               *)
(***************************************************************************)
EXTENDS DiskTasks, TLAPS

Places == {"new", "lookup", "sync", "read", "write", "pend", "check", "checking", "diff",
           "sending", "answer", "done", "size", "allocate", "hash", "insert", "remove"}
Found == {"good", "bad"} \X Pieces

TasksTypeOK ==
    /\ torrents \in Requests \cup {None}
    /\ file \in {"absent", "sized", "other"}
    /\ disk \in [Blocks -> {"good", "bad"}]
    /\ pc \in [Requests -> Places]
    /\ req \in [Requests -> Request \cup {None}]
    /\ state \in [Requests -> Requests \cup {None}]
    /\ todo \in [Requests -> SUBSET Pieces]
    /\ new \in [Requests -> Seq(Found)]
    /\ old \in [Requests -> SUBSET Found]
    /\ pend \in [Requests -> SUBSET Blocks]
    /\ lock \in [Requests -> Requests \cup {None}]
    /\ failed \in SUBSET Requests
    /\ verdict \in [Pieces -> {"none", "good", "bad"}]
    /\ given \in SUBSET Blocks
    /\ careful \in BOOLEAN
    /\ kept \in [Requests -> SUBSET Pieces]

(* The checker is no longer the Add's own.                                  *)
Handed(c) == On(c, "add") /\ pc[c] \in {"answer", "done"}

(* Where the requests of each kind are, which have a checker, and that the  *)
(* checkers they have are those of Adds that are over.                      *)
Placed(t) ==
    /\ pc[t] # "new" => req[t] # None
    /\ pc[t] \in {"lookup", "remove", "sync", "read"} => ~On(t, "add")
    /\ pc[t] = "lookup" => ~On(t, "remove")
    /\ pc[t] \in {"size", "allocate", "hash", "insert"} => On(t, "add")
    /\ pc[t] \in {"write", "pend", "check", "checking", "sending"} => On(t, "process") /\ state[t] # None
    /\ pc[t] = "diff" => On(t, "add") \/ (On(t, "process") /\ state[t] # None)
    /\ pc[t] \in {"new", "lookup"} => state[t] = None
    /\ state[t] # None => Handed(state[t])
    /\ pend[t] # {} => Handed(t)
    /\ pc[t] \in {"new", "size", "allocate", "insert"} => new[t] = << >>

InPlace ==
    /\ \A t \in Requests : Placed(t)
    /\ torrents # None => Handed(torrents)

(* A block that is not pending yet.                                         *)
Early(t) == On(t, "process") /\ pc[t] \in {"lookup", "write", "pend"}

TasksInv == TasksTypeOK /\ InPlace

-----------------------------------------------------------------------------
(* What a request carries.                                                  *)
LEMMA Fields ==
    ASSUME NEW r \in Request
    PROVE  /\ r # None /\ r.kind \in Kinds
           /\ r.kind = "process" => r.block \in Blocks /\ r.content \in {"good", "bad"}
  <1>1. r # None
    BY TasksAssumption
  <1> QED
    BY <1>1, TasksAssumption DEF Request

(* Every piece has a block, and every block a piece.                        *)
LEMMA PieceBlocks ==
    /\ \A p \in Pieces : BlocksOf(p) # {} /\ BlocksOf(p) \subseteq Blocks
    /\ \A b \in Blocks : b[1] \in Pieces /\ b \in BlocksOf(b[1])
    /\ \A p, q \in Pieces : p # q => BlocksOf(p) \cap BlocksOf(q) = {}
  BY DEF Pieces, BlocksOf

(* The block of a request to process.                                       *)
LEMMA Processed ==
    ASSUME TasksTypeOK, NEW t \in Requests, On(t, "process")
    PROVE  /\ req[t].block \in Blocks /\ req[t].content \in {"good", "bad"}
           /\ PieceOf(t) \in Pieces /\ req[t].block \in BlocksOf(PieceOf(t))
  <1>1. req[t] \in Request /\ req[t].kind = "process"
    BY DEF TasksTypeOK, On
  <1>2. req[t].block \in Blocks /\ req[t].content \in {"good", "bad"}
    BY <1>1, Fields
  <1> QED
    BY <1>2, PieceBlocks DEF PieceOf

(* The sets the checkers work with.                                         *)
LEMMA SetTypes ==
    /\ \A d : GoodPieces(d) \subseteq Pieces
    /\ \A c : Whole(c) \subseteq Pieces
    /\ \A p \in Pieces : Verdict(p) \in Found /\ Verdict(p)[2] = p
                         /\ (Verdict(p)[1] = "good" <=> p \in GoodPieces(disk))
                         /\ (p \in GoodPieces(disk) => Verdict(p) = <<"good", p>>)
  BY DEF GoodPieces, Whole, Verdict, Found

-----------------------------------------------------------------------------
(* What the steps do, with the checker named *)

Moves(t, l) == pc' = [pc EXCEPT ![t] = l]
filesView == <<file, disk, kept>>
checkersView == <<new, old, pend>>
reportsView == <<verdict, given, careful>>

(* update_torrent finds the checker or fails.                               *)
LookupFails(t) ==
    /\ torrents = None /\ failed' = failed \cup {t} /\ Moves(t, "answer")
    /\ state' = [state EXCEPT ![t] = None]
LookupFinds(t, c) ==
    /\ torrents = c /\ failed' = failed /\ state' = [state EXCEPT ![t] = c]
    /\ \/ On(t, "process") /\ Moves(t, "write")
       \/ ~On(t, "process") /\ Moves(t, "sync")
       \/ ~On(t, "process") /\ Moves(t, "read")

(* Lookup either fails or finds the checker in the map.                     *)
LEMMA LookupEffect ==
    ASSUME TasksTypeOK, InPlace, NEW t \in Requests, Lookup(t)
    PROVE  /\ pc[t] = "lookup" /\ UNCHANGED <<torrents, filesView, req, todo, checkersView, lock, reportsView>>
           /\ LookupFails(t) \/ \E c \in Requests : LookupFinds(t, c)
  <1>1. pc[t] = "lookup" /\ UNCHANGED <<torrents, filesView, req, todo, checkersView, lock, reportsView>>
    BY DEF Lookup, At, filesView, checkersView, reportsView, fileVars, checkers, channel, reports
  <1>2. req[t] \in Request /\ req[t].kind \in {"sync", "load", "process"}
    <2>1. req[t] \in Request
      BY <1>1 DEF TasksTypeOK, InPlace, Placed
    <2>2. req[t].kind \in Kinds
      BY <2>1, Fields
    <2> QED
      BY <1>1, <2>1, <2>2, TasksAssumption, Zenon DEF InPlace, Placed, On
  <1>3. CASE torrents = None
    BY <1>1, <1>3 DEF Lookup, LookupFails, Moves, Goto, Fail
  <1>4. CASE torrents # None
    <2>1. torrents \in Requests
      BY <1>4 DEF TasksTypeOK
    <2>2. req[t] # None
      BY <1>1 DEF InPlace, Placed
    <2>3. LookupFinds(t, torrents)
      BY <1>2, <1>4, <2>2 DEF Lookup, LookupFinds, Moves, Goto, On
    <2> QED
      BY <1>1, <2>1, <2>3
  <1> QED
    BY <1>3, <1>4

(* A piece is hashed, for an Add.                                           *)
Hashes(t, p) ==
    /\ new' = [new EXCEPT ![t] = Append(@, Verdict(p))]
    /\ todo' = [todo EXCEPT ![t] = @ \ {p}]
    /\ \/ todo'[t] = {} /\ Moves(t, "diff")
       \/ Moves(t, "hash")
    /\ failed' = failed
HashFails(t) == failed' = failed \cup {t} /\ Moves(t, "answer") /\ new' = new /\ todo' = todo

(* HashPiece hashes a piece or fails.                                       *)
LEMMA HashEffect ==
    ASSUME NEW t \in Requests, HashPiece(t)
    PROVE  /\ pc[t] = "hash"
           /\ UNCHANGED <<torrents, filesView, req, state, old, pend, lock, reportsView>>
           /\ HashFails(t) \/ \E p \in todo[t] : Hashes(t, p)
  BY DEF HashPiece, Hashes, HashFails, Moves, Goto, Fail, At, filesView, reportsView, fileVars, channel, reports

(* A process task, its checker and its place.                               *)
LEMMA ProcessAt ==
    ASSUME TasksTypeOK, InPlace, NEW t \in Requests,
           \/ pc[t] \in {"write", "pend", "check", "checking", "sending"}
           \/ pc[t] = "diff" /\ On(t, "process")
    PROVE  On(t, "process") /\ state[t] \in Requests /\ Handed(state[t])
  BY DEF TasksTypeOK, InPlace, Placed, On

(* A whole piece is checked, under the lock.                                *)
Checks(t, c, p) ==
    /\ new' = [new EXCEPT ![c] = Append(@, Verdict(p))]
    /\ pend' = [pend EXCEPT ![c] = @ \ BlocksOf(p)]
    /\ todo' = [todo EXCEPT ![t] = @ \ {p}]
    /\ failed' = failed
    /\ \/ todo'[t] = {} /\ Moves(t, "diff") /\ lock' = [lock EXCEPT ![c] = None]
       \/ todo'[t] # {} /\ pc' = pc /\ lock' = lock
CheckFails(t, c) ==
    /\ failed' = failed \cup {t} /\ Moves(t, "diff")
    /\ lock' = [lock EXCEPT ![c] = None]
    /\ todo' = [todo EXCEPT ![t] = {}]
    /\ new' = new /\ pend' = pend

(* CheckPiece checks a whole piece of the task's checker or fails.          *)
LEMMA CheckEffect ==
    ASSUME TasksTypeOK, InPlace, NEW t \in Requests, CheckPiece(t)
    PROVE  /\ pc[t] = "checking" /\ On(t, "process")
           /\ UNCHANGED <<torrents, filesView, req, state, old, reportsView>>
           /\ \E c \in Requests :
                 state[t] = c /\ Handed(c) /\ (CheckFails(t, c) \/ \E p \in todo[t] : Checks(t, c, p))
  <1>1. pc[t] = "checking" /\ UNCHANGED <<torrents, filesView, req, state, old, reportsView>>
    BY DEF CheckPiece, At, filesView, reportsView, fileVars, channel, reports
  <1>2. On(t, "process") /\ state[t] \in Requests /\ Handed(state[t])
    BY <1>1, ProcessAt
  <1>3. CheckFails(t, state[t]) \/ \E p \in todo[t] : Checks(t, state[t], p)
    BY DEF CheckPiece, Checks, CheckFails, Moves, Goto, Fail
  <1> QED
    BY <1>1, <1>2, <1>3

(* A new state is taken from the checker and reported.                      *)
Reports(c, s, ignored) ==
    /\ new[c] # << >> /\ s = Head(new[c])
    /\ new' = [new EXCEPT ![c] = Tail(@)]
    /\ old' = [old EXCEPT ![c] = @ \cup {s}]
    /\ \/ ignored /\ s[1] = "bad" /\ UNCHANGED reportsView
       \/ /\ verdict' = [verdict EXCEPT ![s[2]] = s[1]] /\ careful' = careful
          /\ \/ s[1] = "good" /\ given' = given
             \/ s[1] = "bad" /\ ~ignored /\ given' = given \ BlocksOf(s[2])

(* One turn of run_with_diff reports the first of the new states.           *)
LEMMA SendEffect ==
    ASSUME TasksTypeOK, NEW t \in Requests, NEW c \in Requests, NEW ignored \in BOOLEAN,
           SendState(t, c, ignored)
    PROVE  \E s \in Found : Reports(c, s, ignored)
  <1>1. new[c] \in Seq(Found) /\ new[c] # << >>
    BY DEF TasksTypeOK, SendState
  <1>2. PICK s \in Found : s = Head(new[c])
    BY <1>1
  <1>3. s[1] \in {"good", "bad"}
    BY <1>2 DEF Found
  <1> QED
    BY <1>1, <1>2, <1>3, Zenon DEF SendState, Reports, channel, reports, reportsView

(* What is left of the new states.                                          *)
LEMMA NewTail ==
    ASSUME TasksTypeOK, NEW c \in Requests, new[c] # << >>
    PROVE  /\ Len(new[c]) \in Nat /\ Len(new[c]) >= 1 /\ Head(new[c]) = new[c][1]
           /\ Len(Tail(new[c])) = Len(new[c]) - 1 /\ Tail(new[c]) \in Seq(Found)
           /\ \A i \in 1 .. Len(new[c]) - 1 : Tail(new[c])[i] = new[c][i + 1]
  BY DEF TasksTypeOK

(* What comes to the new states.                                            *)
LEMMA NewAppend ==
    ASSUME TasksTypeOK, NEW c \in Requests, NEW p \in Pieces
    PROVE  /\ Len(new[c]) \in Nat /\ Len(Append(new[c], Verdict(p))) = Len(new[c]) + 1
           /\ Append(new[c], Verdict(p)) \in Seq(Found)
           /\ \A i \in 1 .. Len(new[c]) : Append(new[c], Verdict(p))[i] = new[c][i]
           /\ Append(new[c], Verdict(p))[Len(new[c]) + 1] = Verdict(p)
  <1>1. Verdict(p) \in Found
    BY SetTypes
  <1> QED
    BY <1>1 DEF TasksTypeOK

(* What came to the new states.                                             *)
LEMMA NewAppended ==
    ASSUME TasksTypeOK, NEW c \in Requests, NEW p \in Pieces, new'[c] = Append(new[c], Verdict(p))
    PROVE  /\ Len(new[c]) \in Nat /\ Len(new'[c]) = Len(new[c]) + 1
           /\ \A i \in 1 .. Len(new[c]) : new'[c][i] = new[c][i]
           /\ new'[c][Len(new[c]) + 1] = Verdict(p)
           /\ Len(new[c]) + 1 \in 1 .. Len(new'[c])
           /\ \A i \in 1 .. Len(new'[c]) : i = Len(new[c]) + 1 \/ i \in 1 .. Len(new[c])
  <1>1. Len(new[c]) \in Nat /\ Len(new'[c]) = Len(new[c]) + 1
    BY NewAppend
  <1>2. /\ \A i \in 1 .. Len(new[c]) : new'[c][i] = new[c][i]
        /\ new'[c][Len(new[c]) + 1] = Verdict(p)
    BY NewAppend
  <1>3. /\ Len(new[c]) + 1 \in 1 .. Len(new'[c])
        /\ \A i \in 1 .. Len(new'[c]) : i = Len(new[c]) + 1 \/ i \in 1 .. Len(new[c])
    BY <1>1
  <1> QED
    BY <1>1, <1>2, <1>3

(* What a report changes.                                                   *)
LEMMA ReportEffect ==
    ASSUME TasksTypeOK, NEW c \in Requests, NEW s \in Found, NEW ignored \in BOOLEAN, Reports(c, s, ignored)
    PROVE  /\ Len(new[c]) \in Nat /\ 1 \in 1 .. Len(new[c]) /\ s = new[c][1]
           /\ s[1] \in {"good", "bad"} /\ s[2] \in Pieces
           /\ Len(new'[c]) = Len(new[c]) - 1 /\ \A i \in 1 .. Len(new[c]) : i = 1 \/ i - 1 \in 1 .. Len(new'[c])
           /\ old'[c] = old[c] \cup {s}
           /\ \A i \in 1 .. Len(new'[c]) : i + 1 \in 1 .. Len(new[c]) /\ new'[c][i] = new[c][i + 1]
           /\ \A d \in Requests \ {c} : new'[d] = new[d]
           /\ \A p \in Pieces : verdict'[p] = verdict[p] \/ (p = s[2] /\ verdict'[p] = s[1])
           /\ given' \subseteq given /\ given \subseteq given' \cup BlocksOf(s[2])
           /\ ignored => given' = given
  <1>1. s[1] \in {"good", "bad"} /\ s[2] \in Pieces
    BY DEF Found
  <1>2. new[c] # << >> /\ s = Head(new[c]) /\ new'[c] = Tail(new[c]) /\ \A d \in Requests \ {c} : new'[d] = new[d]
    BY DEF Reports, TasksTypeOK
  <1>3. /\ Len(new[c]) \in Nat /\ 1 \in 1 .. Len(new[c]) /\ s = new[c][1]
        /\ Len(new'[c]) = Len(new[c]) - 1
    <2>1. Len(new[c]) \in Nat /\ Len(new[c]) >= 1 /\ s = new[c][1] /\ Len(new'[c]) = Len(new[c]) - 1
      BY <1>2, NewTail
    <2> QED
      BY <2>1
  <1>4. \A i \in 1 .. Len(new'[c]) : i + 1 \in 1 .. Len(new[c]) /\ new'[c][i] = new[c][i + 1]
    <2>1. \A i \in 1 .. Len(new[c]) - 1 : new'[c][i] = new[c][i + 1]
      BY <1>2, NewTail
    <2>2. \A i \in 1 .. Len(new'[c]) : i \in 1 .. Len(new[c]) - 1 /\ i + 1 \in 1 .. Len(new[c])
      BY <1>3
    <2> QED
      BY <2>1, <2>2
  <1>5. \A p \in Pieces : verdict'[p] = verdict[p] \/ (p = s[2] /\ verdict'[p] = s[1])
    <2>1. CASE verdict' = verdict
      BY <2>1
    <2>2. CASE verdict' = [verdict EXCEPT ![s[2]] = s[1]]
      BY <1>1, <2>2 DEF TasksTypeOK
    <2> QED
      BY <2>1, <2>2 DEF Reports, reportsView
  <1>6. /\ given' \subseteq given /\ given \subseteq given' \cup BlocksOf(s[2])
        /\ ignored => given' = given
    BY DEF Reports, reportsView
  <1>7. \A i \in 1 .. Len(new[c]) : i = 1 \/ i - 1 \in 1 .. Len(new'[c])
    BY <1>3
  <1>8. old'[c] = old[c] \cup {s}
    BY DEF Reports, TasksTypeOK
  <1> QED
    BY <1>1, <1>2, <1>3, <1>4, <1>5, <1>6, <1>7, <1>8

(* The whole pieces of a checker whose lists are left alone.                *)
LEMMA WholeSame ==
    ASSUME UNCHANGED <<pend, old>>
    PROVE  \A c : Whole(c)' = Whole(c)
  BY DEF Whole

-----------------------------------------------------------------------------
(* Types of the steps *)

(* Every step of a task preserves the types.                                *)
LEMMA TypesStep ==
    ASSUME TasksTypeOK, InPlace, NEW t \in Requests, RequestStep(t)
    PROVE  TasksTypeOK'
  <1> USE DEF At, Goto, Fail, Moves, Places
  <1>1. CASE Lookup(t)
    <2>1. /\ UNCHANGED <<torrents, filesView, req, todo, checkersView, lock, reportsView>>
          /\ LookupFails(t) \/ \E c \in Requests : LookupFinds(t, c)
      BY <1>1, LookupEffect
    <2>2. CASE LookupFails(t)
      BY <2>1, <2>2 DEF LookupFails, TasksTypeOK, filesView, checkersView, reportsView
    <2>3. ASSUME NEW c \in Requests, LookupFinds(t, c) PROVE TasksTypeOK'
      BY <2>1, <2>3 DEF LookupFinds, TasksTypeOK, filesView, checkersView, reportsView
    <2> QED
      BY <2>1, <2>2, <2>3
  <1>2. CASE Answer(t)
    BY <1>2 DEF Answer, TasksTypeOK, fileVars, checkers, reports
  <1>3. CASE FileSize(t)
    <2>1. PICK l \in {"answer", "allocate", "hash"} : pc' = [pc EXCEPT ![t] = l]
      BY <1>3 DEF FileSize
    <2>2. todo' = todo \/ todo' = [todo EXCEPT ![t] = Pieces]
      BY <1>3 DEF FileSize
    <2>3. todo' \in [Requests -> SUBSET Pieces]
      BY <2>2, Zenon DEF TasksTypeOK
    <2> QED
      BY <1>3, <2>1, <2>3, Zenon DEF FileSize, TasksTypeOK, fileVars, checkers, channel, reports
  <1>4. CASE Allocate(t)
    <2>1. disk' \in [Blocks -> {"good", "bad"}]
      BY <1>4, TasksAssumption DEF Allocate, TasksTypeOK
    <2>2. kept' \in [Requests -> SUBSET Pieces]
      BY <1>4 DEF Allocate, TasksTypeOK
    <2> QED
      BY <1>4, <2>1, <2>2 DEF Allocate, TasksTypeOK, checkers, channel, reports
  <1>5. CASE HashPiece(t)
    <2>1. /\ UNCHANGED <<torrents, filesView, req, state, old, pend, lock, reportsView>>
          /\ HashFails(t) \/ \E p \in todo[t] : Hashes(t, p)
      BY <1>5, HashEffect
    <2>2. CASE HashFails(t)
      BY <2>1, <2>2 DEF HashFails, TasksTypeOK, filesView, reportsView
    <2>3. ASSUME NEW p \in todo[t], Hashes(t, p) PROVE TasksTypeOK'
      <3>1. p \in Pieces /\ todo[t] \ {p} \in SUBSET Pieces
        BY DEF TasksTypeOK
      <3>2. new' \in [Requests -> Seq(Found)]
        BY <2>3, <3>1, NewAppend DEF Hashes, TasksTypeOK
      <3>3. todo' \in [Requests -> SUBSET Pieces]
        BY <2>3, <3>1 DEF Hashes, TasksTypeOK
      <3>4. pc' \in [Requests -> Places]
        BY <2>3, Zenon DEF Hashes, TasksTypeOK
      <3> QED
        BY <2>1, <2>3, <3>2, <3>3, <3>4 DEF Hashes, TasksTypeOK, filesView, reportsView
    <2> QED
      BY <2>1, <2>2, <2>3
  <1>6. ASSUME NEW c \in Requests, NEW ignored \in BOOLEAN, NEW s \in Found, Reports(c, s, ignored),
               pc' \in [Requests -> Places], lock' \in [Requests -> Requests \cup {None}],
               UNCHANGED <<torrents, filesView, req, state, todo, pend, failed>>
        PROVE  TasksTypeOK'
    <2>1. s[1] \in {"good", "bad"} /\ s[2] \in Pieces
      BY DEF Found
    <2>2. new' \in [Requests -> Seq(Found)]
      BY <1>6, NewTail DEF Reports, TasksTypeOK
    <2>3. old' \in [Requests -> SUBSET Found]
      BY <1>6 DEF Reports, TasksTypeOK
    <2>4. verdict' \in [Pieces -> {"none", "good", "bad"}] /\ given' \in SUBSET Blocks
      <3>1. CASE UNCHANGED reportsView
        BY <3>1 DEF TasksTypeOK, reportsView
      <3>2. CASE verdict' = [verdict EXCEPT ![s[2]] = s[1]] /\ given' \in SUBSET given
        BY <2>1, <3>2 DEF TasksTypeOK
      <3> QED
        BY <1>6, <3>1, <3>2 DEF Reports
    <2>5. careful' \in BOOLEAN
      <3>1. careful' = careful
        BY <1>6, Zenon DEF Reports, reportsView
      <3> QED
        BY <3>1, Zenon DEF TasksTypeOK
    <2> QED
      BY <1>6, <2>2, <2>3, <2>4, <2>5 DEF TasksTypeOK, filesView
  <1>7. CASE SendAddedDiff(t)
    <2>1. CASE SendState(t, t, TRUE) /\ UNCHANGED pc
      <3>1. PICK s \in Found : Reports(t, s, TRUE)
        BY <2>1, SendEffect, Zenon
      <3>2. UNCHANGED <<torrents, filesView, req, state, todo, pend, failed, lock>>
        BY <1>7 DEF SendAddedDiff, filesView, fileVars
      <3> QED
        BY <1>6, <2>1, <3>1, <3>2, Zenon DEF TasksTypeOK
    <2>2. CASE new[t] = << >> /\ Goto(t, "insert") /\ UNCHANGED <<new, old, channel>>
      BY <1>7, <2>2 DEF SendAddedDiff, TasksTypeOK, fileVars, channel, reports
    <2> QED
      BY <1>7, <2>1, <2>2, Zenon DEF SendAddedDiff
  <1>8. CASE InsertTorrent(t)
    BY <1>8, ZenonT(30) DEF InsertTorrent, TasksTypeOK, fileVars, checkers, channel, reports
  <1>9. CASE RemoveTorrent(t)
    BY <1>9 DEF RemoveTorrent, TasksTypeOK, fileVars, checkers, channel, reports
  <1>10. CASE SyncFiles(t)
    BY <1>10 DEF SyncFiles, TasksTypeOK, checkers, channel, reports
  <1>11. CASE ReadBlock(t)
    BY <1>11 DEF ReadBlock, TasksTypeOK, fileVars, checkers, channel, reports
  <1>12. CASE WritePiece(t)
    <2>1. req[t].block \in Blocks /\ req[t].content \in {"good", "bad"}
      BY <1>12, ProcessAt, Processed DEF WritePiece
    <2>2. disk' \in [Blocks -> {"good", "bad"}]
      <3>1. disk[req[t].block] \in {"good", "bad"}
        BY <2>1 DEF TasksTypeOK
      <3>2. \E x \in {"good", "bad"} : disk' = [disk EXCEPT ![req[t].block] = x]
        BY <1>12, <2>1, <3>1, ZenonT(30) DEF WritePiece
      <3> QED
        BY <3>2, Zenon DEF TasksTypeOK
    <2>3. kept' \in [Requests -> SUBSET Pieces]
      BY <1>12, ZenonT(30) DEF WritePiece, TasksTypeOK
    <2> QED
      BY <1>12, <2>2, <2>3, Zenon DEF WritePiece, TasksTypeOK, checkers, channel, reports
  <1>13. CASE AddPendingBlock(t)
    <2>1. req[t].block \in Blocks /\ state[t] \in Requests
      BY <1>13, ProcessAt, Processed DEF AddPendingBlock
    <2>2. pend' \in [Requests -> SUBSET Blocks]
      BY <1>13, <2>1 DEF AddPendingBlock, TasksTypeOK
    <2> QED
      BY <1>13, <2>2, ZenonT(30) DEF AddPendingBlock, TasksTypeOK, fileVars, channel, reports
  <1>14. CASE CalculateDiff(t)
    <2>1. PICK c \in Requests : c = state[t]
      BY <1>14, ProcessAt, Zenon DEF CalculateDiff
    <2>2. \/ Moves(t, "diff") /\ lock' = lock /\ todo' = todo
          \/ Moves(t, "checking") /\ lock' = [lock EXCEPT ![c] = t] /\ todo' = [todo EXCEPT ![t] = Whole(c)]
      BY <1>14, <2>1 DEF CalculateDiff
    <2>3. Whole(c) \in SUBSET Pieces
      BY DEF Whole
    <2>4. UNCHANGED <<torrents, filesView, req, state, checkersView, failed, reportsView>>
      BY <1>14 DEF CalculateDiff, filesView, checkersView, reportsView, fileVars, channel, reports
    <2>5. pc' \in [Requests -> Places] /\ lock' \in [Requests -> Requests \cup {None}]
      <3>1. CASE Moves(t, "diff") /\ lock' = lock
        BY <3>1 DEF TasksTypeOK
      <3>2. CASE Moves(t, "checking") /\ lock' = [lock EXCEPT ![c] = t]
        BY <3>2 DEF TasksTypeOK
      <3> QED
        BY <2>2, <3>1, <3>2
    <2>6. todo' \in [Requests -> SUBSET Pieces]
      BY <2>2, <2>3, ZenonT(60) DEF TasksTypeOK
    <2> QED
      BY <2>4, <2>5, <2>6, Zenon DEF TasksTypeOK, filesView, checkersView, reportsView
  <1>15. CASE CheckPiece(t)
    <2>1. PICK c \in Requests : CheckFails(t, c) \/ \E p \in todo[t] : Checks(t, c, p)
      BY <1>15, CheckEffect
    <2>2. UNCHANGED <<torrents, filesView, req, state, old, reportsView>>
      BY <1>15, CheckEffect
    <2>3. CASE CheckFails(t, c)
      BY <2>2, <2>3 DEF CheckFails, TasksTypeOK, filesView, reportsView
    <2>4. ASSUME NEW p \in todo[t], Checks(t, c, p) PROVE TasksTypeOK'
      <3>1. p \in Pieces /\ todo[t] \ {p} \in SUBSET Pieces /\ pend[c] \ BlocksOf(p) \in SUBSET Blocks
        BY DEF TasksTypeOK
      <3>2. new' \in [Requests -> Seq(Found)]
        BY <2>4, <3>1, NewAppend DEF Checks, TasksTypeOK
      <3>3. todo' \in [Requests -> SUBSET Pieces] /\ pend' \in [Requests -> SUBSET Blocks]
        BY <2>4, <3>1 DEF Checks, TasksTypeOK
      <3>4. pc' \in [Requests -> Places] /\ lock' \in [Requests -> Requests \cup {None}]
        BY <2>4, Zenon DEF Checks, TasksTypeOK
      <3> QED
        BY <2>2, <2>4, <3>2, <3>3, <3>4 DEF Checks, TasksTypeOK, filesView, reportsView
    <2> QED
      BY <2>1, <2>3, <2>4
  <1>16. CASE StartDiff(t)
    <2>1. PICK c \in Requests : c = state[t]
      BY <1>16, ProcessAt DEF StartDiff
    <2>2. \/ Moves(t, "answer") /\ lock' = lock
          \/ Moves(t, "sending") /\ lock' = [lock EXCEPT ![c] = t]
      BY <1>16, <2>1 DEF StartDiff
    <2>3. UNCHANGED <<torrents, filesView, req, state, todo, checkersView, failed, reportsView>>
      BY <1>16 DEF StartDiff, filesView, checkersView, reportsView, fileVars, channel, reports
    <2>4. pc' \in [Requests -> Places] /\ lock' \in [Requests -> Requests \cup {None}]
      <3>1. CASE Moves(t, "answer") /\ lock' = lock
        BY <3>1 DEF TasksTypeOK
      <3>2. CASE Moves(t, "sending") /\ lock' = [lock EXCEPT ![c] = t]
        BY <3>2 DEF TasksTypeOK
      <3> QED
        BY <2>2, <3>1, <3>2
    <2> QED
      BY <2>3, <2>4, ZenonT(30) DEF TasksTypeOK, filesView, checkersView, reportsView
  <1>17. CASE SendDiff(t)
    <2>1. PICK c \in Requests : c = state[t]
      BY <1>17, ProcessAt, ZenonT(30) DEF SendDiff
    <2>2. UNCHANGED <<torrents, filesView, req, state, todo, pend, failed>>
      BY <1>17 DEF SendDiff, filesView, fileVars
    <2>3. CASE SendState(t, c, FALSE) /\ UNCHANGED <<pc, lock>>
      <3>1. PICK s \in Found : Reports(c, s, FALSE)
        BY <2>3, SendEffect, Zenon
      <3> QED
        BY <1>6, <2>2, <2>3, <3>1, Zenon DEF TasksTypeOK
    <2>4. CASE Goto(t, "answer") /\ lock' = [lock EXCEPT ![c] = None] /\ UNCHANGED <<new, old, channel>>
      BY <2>2, <2>4 DEF TasksTypeOK, filesView, channel, reports
    <2> QED
      BY <1>17, <2>1, <2>3, <2>4, Zenon DEF SendDiff
  <1> QED
    BY <1>1, <1>2, <1>3, <1>4, <1>5, <1>7, <1>8, <1>9, <1>10, <1>11, <1>12, <1>13, <1>14, <1>15,
       <1>16, <1>17 DEF RequestStep

-----------------------------------------------------------------------------
(* Places of the steps *)

(* A step of a task moves this task only, and only Submit gives requests.   *)
LEMMA StepFrame ==
    ASSUME TasksTypeOK, NEW t \in Requests, RequestStep(t)
    PROVE  /\ req' = req
           /\ pc[t] \notin {"new", "done"}
           /\ pc[t] = "answer" => pc'[t] = "done"
           /\ \A u \in Requests \ {t} : pc'[u] = pc[u] /\ state'[u] = state[u] /\ todo'[u] = todo[u]
           /\ failed' = failed \/ failed' = failed \cup {t}
  <1> USE DEF At, Goto, Fail, Moves, TasksTypeOK
  <1>1. CASE Lookup(t) \/ Answer(t)
    BY <1>1, ZenonT(30) DEF Lookup, Answer
  <1>2. CASE FileSize(t) \/ Allocate(t) \/ HashPiece(t)
    BY <1>2 DEF FileSize, Allocate, HashPiece
  <1>3. CASE SendAddedDiff(t) \/ InsertTorrent(t) \/ RemoveTorrent(t)
    BY <1>3, Zenon DEF SendAddedDiff, InsertTorrent, RemoveTorrent
  <1>4. CASE SyncFiles(t) \/ ReadBlock(t) \/ WritePiece(t)
    BY <1>4, Zenon DEF SyncFiles, ReadBlock, WritePiece
  <1>5. CASE AddPendingBlock(t) \/ CalculateDiff(t) \/ CheckPiece(t)
    BY <1>5, Zenon DEF AddPendingBlock, CalculateDiff, CheckPiece
  <1>6. CASE StartDiff(t) \/ SendDiff(t)
    BY <1>6, Zenon DEF StartDiff, SendDiff
  <1> QED
    BY <1>1, <1>2, <1>3, <1>4, <1>5, <1>6, Zenon DEF RequestStep

(* A checker that was handed over stays so.                                 *)
LEMMA HandedStays ==
    ASSUME TasksTypeOK, NEW t \in Requests, RequestStep(t), NEW c \in Requests, Handed(c)
    PROVE  Handed(c)'
  BY StepFrame, Zenon DEF Handed, On

(* The other tasks stay where they are; the list of a checker only changes  *)
(* in its Add, or once it was handed over.                                  *)
LEMMA PlacedOthers ==
    ASSUME TasksTypeOK, InPlace, NEW t \in Requests, RequestStep(t),
           NEW u \in Requests \ {t},
           pend'[u] = pend[u] \/ Handed(u), new'[u] = new[u] \/ Handed(u)
    PROVE  Placed(u)'
  <1>1. req' = req /\ pc'[u] = pc[u] /\ state'[u] = state[u]
    BY StepFrame, Zenon
  <1>2. ASSUME state[u] # None PROVE Handed(state[u])'
    <2>1. PICK c \in Requests : c = state[u] /\ Handed(c)
      <3>1. state[u] \in Requests \cup {None}
        BY Zenon DEF TasksTypeOK
      <3>2. Placed(u)
        BY Zenon DEF InPlace
      <3> QED
        BY <1>2, <3>1, <3>2, Zenon DEF Placed
    <2>2. Handed(c)'
      BY <2>1, HandedStays, Zenon
    <2> QED
      BY <1>1, <2>1, <2>2, Zenon DEF Handed, On
  <1>3. Handed(u) => Handed(u)'
    BY HandedStays
  <1>4. Placed(u)
    BY DEF InPlace
  <1>5. \A k \in {"add", "remove", "process"} : On(u, k)' <=> On(u, k)
    BY <1>1 DEF On
  <1>6. pc[u] \in {"new", "size", "allocate", "insert"} => new'[u] = << >>
    BY <1>4, Zenon DEF Placed, Handed
  <1>7. pend'[u] # {} => Handed(u)'
    BY <1>3, <1>4 DEF Placed
  <1>8. state'[u] # None => Handed(state[u])'
    BY <1>1, <1>2
  <1> QED
    BY <1>1, <1>4, <1>5, <1>6, <1>7, <1>8, ZenonT(60) DEF Placed

(* Every step leaves every task in place.                                   *)
LEMMA PlacesStep ==
    ASSUME TasksTypeOK, InPlace, NEW t \in Requests, RequestStep(t)
    PROVE  InPlace'
  <1> USE DEF At, Goto, Fail, Moves
  <1>1. TasksTypeOK'
    BY TypesStep
  <1>2. Placed(t) /\ req' = req /\ (Handed(t) => Handed(t)')
    BY StepFrame, HandedStays DEF InPlace
  <1>3. \A c \in Requests : Handed(c) => Handed(c)'
    BY HandedStays
  <1>4. ASSUME UNCHANGED <<new, pend>> PROVE \A u \in Requests \ {t} : Placed(u)'
    BY <1>4, PlacedOthers, ZenonT(60)
  <1>5. ASSUME UNCHANGED torrents PROVE torrents' # None => Handed(torrents)'
    BY <1>3, <1>5 DEF InPlace, TasksTypeOK, Handed, On
  <1>6. CASE Lookup(t)
    <2>1. /\ pc[t] = "lookup" /\ UNCHANGED <<torrents, new, pend>>
          /\ LookupFails(t) \/ \E c \in Requests : LookupFinds(t, c)
      BY <1>6, LookupEffect DEF checkersView
    <2>2. CASE LookupFails(t)
      <3>1. pc'[t] = "answer" /\ state'[t] = None
        BY <2>2, Zenon DEF LookupFails, TasksTypeOK
      <3>2. Placed(t)'
        BY <1>2, <2>1, <3>1, Zenon DEF Placed, On, Handed
      <3> QED
        BY <1>4, <1>5, <2>1, <3>2 DEF InPlace
    <2>3. ASSUME NEW c \in Requests, LookupFinds(t, c) PROVE InPlace'
      <3>1. Handed(c) /\ c # t
        BY <2>1, <2>3, TasksAssumption, ZenonT(60) DEF InPlace, LookupFinds, Handed
      <3>2. state'[t] = c /\ Handed(state[t])'
        BY <1>3, <2>3, <3>1 DEF LookupFinds, TasksTypeOK, Handed, On
      <3>3. c # None
        BY TasksAssumption, ZenonT(60)
      <3>4. Placed(t)'
        BY <1>2, <2>1, <2>3, <3>2, <3>3 DEF LookupFinds, Placed, TasksTypeOK, On
      <3> QED
        BY <1>4, <1>5, <2>1, <3>4 DEF InPlace
    <2> QED
      BY <2>1, <2>2, <2>3
  <1>7. CASE Answer(t) \/ FileSize(t) \/ Allocate(t) \/ SyncFiles(t) \/ ReadBlock(t) \/ WritePiece(t)
    <2>1. UNCHANGED <<torrents, state, new, pend>>
      BY <1>7 DEF Answer, FileSize, Allocate, SyncFiles, ReadBlock, WritePiece, checkers
    <2>2. \/ pc'[t] \in {"answer", "done"} /\ pc[t] # "done"
          \/ pc[t] = "size" /\ pc'[t] \in {"allocate", "hash"}
          \/ pc[t] = "allocate" /\ pc'[t] = "hash"
          \/ pc[t] = "write" /\ pc'[t] \in {"pend", "diff"}
      <3>1. CASE Answer(t) \/ SyncFiles(t) \/ ReadBlock(t)
        BY <3>1, Zenon DEF Answer, SyncFiles, ReadBlock, TasksTypeOK
      <3>2. CASE FileSize(t) \/ Allocate(t) \/ WritePiece(t)
        BY <3>2, Zenon DEF FileSize, Allocate, WritePiece, TasksTypeOK
      <3> QED
        BY <1>7, <3>1, <3>2, Zenon
    <2>3. pc[t] # "new"
      BY StepFrame, ZenonT(60)
    <2>4. state[t] # None => Handed(state[t])'
      BY <1>2, <1>3, <2>1, ZenonT(30) DEF Placed, TasksTypeOK, Handed, On
    <2>5. pend[t] # {} => Handed(t)'
      BY <1>2, <1>3, <2>1, Zenon DEF Placed
    <2>6. Placed(t)'
      BY <1>2, <2>1, <2>2, <2>3, <2>4, <2>5, Zenon DEF Placed, On, Handed
    <2> QED
      BY <1>4, <1>5, <2>1, <2>6, Zenon DEF InPlace
  <1>8. CASE HashPiece(t)
    <2>1. /\ pc[t] = "hash" /\ UNCHANGED <<torrents, state, pend>>
          /\ HashFails(t) \/ \E p \in todo[t] : Hashes(t, p)
      BY <1>8, HashEffect
    <2>2. \E l \in {"hash", "diff", "answer"} : Moves(t, l)
      BY <2>1 DEF HashFails, Hashes
    <2>3. \A u \in Requests \ {t} : new'[u] = new[u]
      BY <2>1, Zenon DEF HashFails, Hashes, TasksTypeOK
    <2>4. Placed(t)'
      BY <1>2, <2>1, <2>2, Zenon DEF Placed, TasksTypeOK, On, Handed
    <2>5. \A u \in Requests \ {t} : Placed(u)'
      BY <2>1, <2>3, PlacedOthers, Zenon
    <2> QED
      BY <1>5, <2>1, <2>4, <2>5, Zenon DEF InPlace
  <1>9. CASE SendAddedDiff(t)
    <2>1. /\ pc[t] = "diff" /\ On(t, "add") /\ UNCHANGED <<torrents, state, pend>>
          /\ (new'[t] = << >> /\ Moves(t, "insert")) \/ UNCHANGED pc
      BY <1>9, ZenonT(60) DEF SendAddedDiff
    <2>2. \A u \in Requests \ {t} : new'[u] = new[u]
      BY <1>9, ZenonT(30) DEF SendAddedDiff, SendState, TasksTypeOK
    <2>3. Placed(t)'
      BY <1>2, <2>1, ZenonT(60) DEF Placed, TasksTypeOK, On, Handed
    <2> QED
      BY <1>5, <2>1, <2>2, <2>3, PlacedOthers, Zenon DEF InPlace
  <1>10. CASE InsertTorrent(t)
    <2>1. pc[t] = "insert" /\ On(t, "add") /\ Moves(t, "answer") /\ UNCHANGED <<state, new, pend>>
      BY <1>2, <1>10 DEF InsertTorrent, Placed, checkers
    <2>2. Handed(t)'
      BY <1>2, <2>1, ZenonT(60) DEF Handed, On, TasksTypeOK
    <2>3. Placed(t)'
      BY <1>2, <2>1, <2>2 DEF Placed, TasksTypeOK, On, Handed
    <2>4. torrents' = torrents \/ torrents' = t
      BY <1>10 DEF InsertTorrent
    <2>5. torrents' # None => Handed(torrents)'
      <3>1. CASE torrents' = t
        BY <2>2, <3>1 DEF Handed, On
      <3> QED
        BY <1>5, <2>4, <3>1
    <2> QED
      BY <1>4, <2>1, <2>3, <2>5 DEF InPlace
  <1>11. CASE RemoveTorrent(t)
    <2>1. pc[t] = "remove" /\ Moves(t, "answer") /\ torrents' = None /\ UNCHANGED <<state, new, pend>>
      BY <1>11, Zenon DEF RemoveTorrent, checkers
    <2>2. Placed(t)'
      BY <1>2, <2>1, Zenon DEF Placed, TasksTypeOK, On, Handed
    <2> QED
      BY <1>4, <2>1, <2>2 DEF InPlace
  <1>12. CASE AddPendingBlock(t)
    <2>1. PICK c \in Requests : /\ c = state[t] /\ Handed(c) /\ c # t /\ On(t, "process")
                                /\ pend' = [pend EXCEPT ![c] = @ \cup {req[t].block}]
      BY <1>12, ProcessAt, Zenon DEF AddPendingBlock, Handed, On
    <2>2. pc[t] = "pend" /\ Moves(t, "check") /\ UNCHANGED <<torrents, state, new>>
      BY <1>12 DEF AddPendingBlock
    <2>3. \A u \in Requests \ {c} : pend'[u] = pend[u]
      BY <2>1, ZenonT(30) DEF TasksTypeOK
    <2>4. Placed(t)'
      BY <1>2, <2>1, <2>2, <2>3 DEF Placed, TasksTypeOK, On, Handed
    <2> QED
      BY <1>5, <2>1, <2>2, <2>3, <2>4, PlacedOthers, Zenon DEF InPlace
  <1>13. CASE CalculateDiff(t)
    <2>1. /\ pc[t] = "check" /\ UNCHANGED <<torrents, state, new, pend>>
          /\ \E l \in {"diff", "checking"} : Moves(t, l)
      BY <1>13, Zenon DEF CalculateDiff
    <2>2. Placed(t)'
      BY <1>2, <2>1, Zenon DEF Placed, TasksTypeOK, On, Handed
    <2> QED
      BY <1>4, <1>5, <2>1, <2>2 DEF InPlace
  <1>14. CASE CheckPiece(t)
    <2>1. /\ pc[t] = "checking" /\ On(t, "process") /\ UNCHANGED <<torrents, state>>
          /\ \E c \in Requests : state[t] = c /\ Handed(c)
                                 /\ (CheckFails(t, c) \/ \E p \in todo[t] : Checks(t, c, p))
      BY <1>14, CheckEffect, Zenon
    <2>2. PICK c \in Requests : state[t] = c /\ Handed(c)
                                /\ (CheckFails(t, c) \/ \E p \in todo[t] : Checks(t, c, p))
      BY <2>1, ZenonT(60)
    <2>3. Moves(t, "diff") \/ pc' = pc
      BY <2>2 DEF CheckFails, Checks
    <2>4. \A u \in Requests \ {c} : pend'[u] = pend[u] /\ new'[u] = new[u]
      BY <2>2, Zenon DEF CheckFails, Checks, TasksTypeOK
    <2>5. c # t
      BY <2>1, <2>2, Zenon DEF Handed, On
    <2>6. Placed(t)'
      <3>1. pc'[t] \in {"diff", "checking"} /\ pend'[t] = pend[t] /\ new'[t] = new[t]
        BY <2>1, <2>3, <2>4, <2>5, Zenon DEF TasksTypeOK
      <3>2. state[t] # None /\ ~On(t, "add")
        BY <1>2, <2>1, Zenon DEF Placed, On
      <3>3. pend[t] = {}
        BY <1>2, <3>2, ZenonT(30) DEF Placed, Handed
      <3>4. Handed(state[t])'
        BY <1>3, <2>1, <2>2 DEF Handed, On
      <3> QED
        BY <1>2, <2>1, <3>1, <3>2, <3>3, <3>4, Zenon DEF Placed, On
    <2> QED
      BY <1>5, <2>1, <2>2, <2>4, <2>6, PlacedOthers, Zenon DEF InPlace
  <1>15. CASE StartDiff(t)
    <2>1. /\ pc[t] = "diff" /\ On(t, "process") /\ UNCHANGED <<torrents, state, new, pend>>
          /\ \E l \in {"answer", "sending"} : Moves(t, l)
      BY <1>15 DEF StartDiff
    <2>2. state[t] # None
      BY <2>1, ProcessAt, TasksAssumption, Zenon
    <2>3. Placed(t)'
      BY <1>2, <2>1, <2>2, Zenon DEF Placed, TasksTypeOK, On, Handed
    <2> QED
      BY <1>4, <1>5, <2>1, <2>3, Zenon DEF InPlace
  <1>16. CASE SendDiff(t)
    <2>1. pc[t] = "sending" /\ UNCHANGED <<torrents, state, pend>> /\ (pc' = pc \/ Moves(t, "answer"))
      BY <1>16, Zenon DEF SendDiff
    <2>2. PICK c \in Requests : c = state[t] /\ Handed(c) /\ c # t /\ On(t, "process")
      BY <2>1, ProcessAt, ZenonT(30) DEF Handed, On
    <2>3. \A u \in Requests \ {c} : new'[u] = new[u]
      BY <1>16, <2>2, ZenonT(30) DEF SendDiff, SendState, TasksTypeOK
    <2>4. Placed(t)'
      BY <1>2, <2>1, <2>2, <2>3, ZenonT(30) DEF Placed, TasksTypeOK, On, Handed
    <2> QED
      BY <1>5, <2>1, <2>2, <2>3, <2>4, PlacedOthers, Zenon DEF InPlace
  <1> QED
    BY <1>6, <1>7, <1>8, <1>9, <1>10, <1>11, <1>12, <1>13, <1>14, <1>15, <1>16 DEF RequestStep

-----------------------------------------------------------------------------
(* New requests *)

(* What a request finds and changes.                                        *)
Submits(t, r) ==
    /\ pc[t] = "new" /\ pc' = [pc EXCEPT ![t] = pc'[t]] /\ req' = [req EXCEPT ![t] = r]
    /\ \/ r.kind = "add" /\ pc'[t] = "size"
       \/ r.kind = "remove" /\ pc'[t] = "remove"
       \/ r.kind \notin {"add", "remove"} /\ pc'[t] = "lookup"
    /\ kept' = [kept EXCEPT ![t] = GoodPieces(disk)]
    /\ given \subseteq given' /\ given' \subseteq given \cup {r.block}
    /\ r.kind = "process" => r.block \in given'
    /\ r.kind # "process" => given' = given
    /\ careful' => careful /\ Permitted(r)
    /\ UNCHANGED <<torrents, file, disk, state, todo, new, old, pend, lock, failed, verdict>>

(* Submit makes a request of a task that has none.                          *)
LEMMA SubmitEffect ==
    ASSUME TasksTypeOK, InPlace, NEW t \in Requests, Submit(t)
    PROVE  /\ careful' \in BOOLEAN
           /\ \E r \in Request : Submits(t, r)
           /\ state[t] = None /\ new[t] = << >> /\ pend[t] = {} /\ ~Handed(t)
  <1>1. PICK r \in Request :
            /\ careful' = (careful /\ Permitted(r))
            /\ given' = IF r.kind = "process" THEN given \cup {r.block} ELSE given
            /\ req' = [req EXCEPT ![t] = r]
            /\ Goto(t, IF r.kind = "add" THEN "size" ELSE IF r.kind = "remove" THEN "remove"
                       ELSE "lookup")
    BY Zenon DEF Submit
  <1>2. careful' \in BOOLEAN /\ (careful' => careful /\ Permitted(r))
    BY <1>1, Zenon
  <1>3. pc[t] = "new" /\ kept' = [kept EXCEPT ![t] = GoodPieces(disk)]
    BY DEF Submit
  <1>4. UNCHANGED <<torrents, file, disk, state, todo, new, old, pend, lock, failed, verdict>>
    BY DEF Submit, checkers
  <1>5. \/ r.kind = "add" /\ pc' = [pc EXCEPT ![t] = "size"]
        \/ r.kind = "remove" /\ pc' = [pc EXCEPT ![t] = "remove"]
        \/ r.kind \notin {"add", "remove"} /\ pc' = [pc EXCEPT ![t] = "lookup"]
    BY <1>1, Zenon DEF Goto
  <1>6. /\ pc' = [pc EXCEPT ![t] = pc'[t]]
        /\ \/ r.kind = "add" /\ pc'[t] = "size"
           \/ r.kind = "remove" /\ pc'[t] = "remove"
           \/ r.kind \notin {"add", "remove"} /\ pc'[t] = "lookup"
    <2>1. CASE r.kind = "add" /\ pc' = [pc EXCEPT ![t] = "size"]
      BY <2>1 DEF TasksTypeOK
    <2>2. CASE r.kind = "remove" /\ pc' = [pc EXCEPT ![t] = "remove"]
      BY <2>2 DEF TasksTypeOK
    <2>3. CASE r.kind \notin {"add", "remove"} /\ pc' = [pc EXCEPT ![t] = "lookup"]
      BY <2>3 DEF TasksTypeOK
    <2> QED
      BY <1>5, <2>1, <2>2, <2>3
  <1>7. /\ given \subseteq given' /\ given' \subseteq given \cup {r.block}
        /\ r.kind = "process" => r.block \in given'
        /\ r.kind # "process" => given' = given
    BY <1>1
  <1>8. Submits(t, r)
    BY <1>1, <1>2, <1>3, <1>4, <1>6, <1>7, Zenon DEF Submits
  <1>9. state[t] = None /\ new[t] = << >> /\ pend[t] = {} /\ ~Handed(t)
    BY <1>3, Zenon DEF InPlace, Placed, Handed
  <1> QED
    BY <1>2, <1>8, <1>9

(* Everything but the new task stays as it is.                              *)
LEMMA SubmitFrame ==
    ASSUME TasksTypeOK, NEW t \in Requests, NEW r \in Request, Submits(t, r)
    PROVE  /\ req'[t] = r /\ \A k : On(t, k)' <=> r.kind = k
           /\ \A u \in Requests \ {t} :
                 /\ pc'[u] = pc[u] /\ req'[u] = req[u] /\ kept'[u] = kept[u]
                 /\ \A k : On(u, k)' <=> On(u, k)
                 /\ PieceOf(u)' = PieceOf(u)
                 /\ Handed(u)' <=> Handed(u)
                 /\ TasksLive(u)' <=> TasksLive(u)
                 /\ Early(u)' <=> Early(u)
           /\ \A c \in Requests : Whole(c)' = Whole(c)
  <1>1. req'[t] = r /\ r # None
    BY Fields DEF Submits, TasksTypeOK
  <1>2. \A u \in Requests \ {t} : pc'[u] = pc[u] /\ req'[u] = req[u] /\ kept'[u] = kept[u]
    BY DEF Submits, TasksTypeOK
  <1>3. \A k : On(t, k)' <=> r.kind = k
    BY <1>1, ZenonT(30) DEF On
  <1>4. ASSUME NEW u \in Requests \ {t}
        PROVE  (\A k : On(u, k)' <=> On(u, k)) /\ PieceOf(u)' = PieceOf(u)
    BY <1>2, ZenonT(30) DEF On, PieceOf
  <1>5. ASSUME NEW u \in Requests \ {t}
        PROVE  /\ Handed(u)' <=> Handed(u)
               /\ TasksLive(u)' <=> TasksLive(u)
               /\ Early(u)' <=> Early(u)
    BY <1>2, <1>4, ZenonT(30) DEF Handed, TasksLive, Early
  <1>6. \A c \in Requests : Whole(c)' = Whole(c)
    BY DEF Submits, Whole
  <1> QED
    BY <1>1, <1>2, <1>3, <1>4, <1>5, <1>6, Zenon

(* A new request disturbs neither the types nor the places.                 *)
LEMMA SubmitPlaces ==
    ASSUME TasksTypeOK, InPlace, NEW t \in Requests, Submit(t)
    PROVE  TasksTypeOK' /\ InPlace'
  <1>1. PICK r \in Request : Submits(t, r)
    BY SubmitEffect
  <1>2. careful' \in BOOLEAN /\ state[t] = None /\ new[t] = << >> /\ pend[t] = {} /\ ~Handed(t)
    BY SubmitEffect
  <1>3. r # None /\ (r.kind = "process" => r.block \in Blocks)
    BY Fields, ZenonT(30)
  <1>4. TasksTypeOK'
    <2>1. pc' \in [Requests -> Places] /\ req' \in [Requests -> Request \cup {None}]
      BY <1>1, ZenonT(60) DEF Submits, TasksTypeOK, Places
    <2>2. kept' \in [Requests -> SUBSET Pieces]
      BY <1>1, SetTypes DEF Submits, TasksTypeOK
    <2>3. given' \in SUBSET Blocks
      BY <1>1, <1>3 DEF Submits, TasksTypeOK
    <2> QED
      BY <1>1, <1>2, <2>1, <2>2, <2>3, ZenonT(30) DEF Submits, TasksTypeOK
  <1>5. ASSUME NEW c \in Requests, Handed(c) PROVE Handed(c)'
    BY <1>1, <1>2, <1>5, SubmitFrame, Zenon
  <1>6. ASSUME NEW u \in Requests \ {t} PROVE Placed(u)'
    <2>1. Placed(u) /\ pc'[u] = pc[u] /\ req'[u] = req[u] /\ UNCHANGED <<state, pend, new>>
      BY <1>1, SubmitFrame, Zenon DEF InPlace, Submits
    <2>2. \A k : On(u, k)' <=> On(u, k)
      BY <1>1, SubmitFrame, Zenon
    <2>3. state[u] # None => Handed(state[u])'
      <3>1. ASSUME state[u] # None PROVE Handed(state[u])'
        <4>1. PICK c \in Requests : c = state[u] /\ Handed(c)
          BY <2>1, <3>1, Zenon DEF Placed, TasksTypeOK
        <4>2. Handed(c)'
          BY <1>5, <4>1, Zenon
        <4> QED
          BY <2>1, <4>1, <4>2, Zenon DEF Handed, On
      <3> QED
        BY <3>1, Zenon
    <2>4. Handed(u) => Handed(u)'
      BY <1>5, Zenon
    <2> QED
      BY <2>1, <2>2, <2>3, <2>4 DEF Placed
  <1>7. Placed(t)'
    <2>1. UNCHANGED <<state, pend, new>> /\ req'[t] = r
      BY <1>1, SubmitFrame, Zenon DEF Submits
    <2>2. /\ pc'[t] = "size" => On(t, "add")'
          /\ pc'[t] \in {"lookup", "remove"} => ~On(t, "add")'
          /\ pc'[t] = "lookup" => ~On(t, "remove")'
          /\ pc'[t] \in {"size", "lookup", "remove"}
      <3>1. (On(t, "add")' <=> r.kind = "add") /\ (On(t, "remove")' <=> r.kind = "remove")
        BY <1>1, SubmitFrame, Zenon
      <3> QED
        BY <1>1, <3>1 DEF Submits
    <2> QED
      BY <1>2, <1>3, <2>1, <2>2, Zenon DEF Placed
  <1>8. torrents' # None => Handed(torrents)'
    <2>1. torrents' = torrents /\ (torrents # None => torrents \in Requests /\ Handed(torrents))
      BY <1>1, ZenonT(60) DEF Submits, InPlace, TasksTypeOK
    <2>2. ASSUME torrents # None PROVE Handed(torrents)'
      <3>1. PICK c \in Requests : c = torrents /\ Handed(c)
        BY <2>1, <2>2
      <3>2. Handed(c)'
        BY <1>5, <3>1
      <3> QED
        BY <2>1, <3>1, <3>2 DEF Handed, On
    <2> QED
      BY <2>1, <2>2
  <1> QED
    BY <1>4, <1>6, <1>7, <1>8 DEF InPlace

-----------------------------------------------------------------------------
(* The theorem *)

(* Steps that leave the tasks alone: stuttering, and the consumer's.        *)
TasksRest ==
    UNCHANGED <<torrents, file, disk, pc, req, state, todo, new, old, pend, lock, failed,
                verdict, given, careful, kept>>

(* The steps of TasksNext.                                                  *)
LEMMA TasksSteps ==
    ASSUME [TasksNext]_tasksVars
    PROVE  (\E t \in Requests : Submit(t) \/ RequestStep(t)) \/ TasksRest
  BY DEF TasksNext, RecvReport, fileVars, checkers, reports, tasksVars, TasksRest

(* Every step of the tasks, of the clients and of the consumer leaves the   *)
(* tasks in place.                                                          *)
THEOREM TasksPreservation == TasksInv /\ [TasksNext]_tasksVars => TasksInv'
  <1> SUFFICES ASSUME TasksInv, [TasksNext]_tasksVars PROVE TasksInv'
    OBVIOUS
  <1>1. ASSUME NEW t \in Requests, Submit(t) PROVE TasksInv'
    BY <1>1, SubmitPlaces DEF TasksInv
  <1>2. ASSUME NEW t \in Requests, RequestStep(t) PROVE TasksInv'
    BY <1>2, TypesStep, PlacesStep, ZenonT(30) DEF TasksInv
  <1>3. CASE TasksRest
    <2>1. TasksTypeOK'
      BY <1>3, Zenon DEF TasksRest, TasksInv, TasksTypeOK
    <2>2. \A t \in Requests : Handed(t)' <=> Handed(t)
      BY <1>3, ZenonT(30) DEF TasksRest, Handed, On
    <2>3. ASSUME NEW t \in Requests, Placed(t) PROVE Placed(t)'
      BY <1>3, <2>3 DEF TasksRest, Placed, On, Handed
    <2> QED
      BY <1>3, <2>1, <2>2, <2>3 DEF TasksRest, TasksInv, InPlace, Handed, On
  <1> QED
    BY <1>1, <1>2, <1>3, TasksSteps

(* The tasks are in place when the DiskManager is created.                  *)
LEMMA TasksInitially == TasksInit => TasksInv
  <1> SUFFICES ASSUME TasksInit PROVE TasksInv
    OBVIOUS
  <1>1. TasksTypeOK
    BY SMTT(40), Z3T(40) DEF TasksInit, TasksTypeOK, Places
  <1>2. InPlace
    BY DEF TasksInit, InPlace, Placed, On, Handed
  <1> QED
    BY <1>1, <1>2 DEF TasksInv

(* The tasks are in place in every reachable state, whatever the requests:  *)
(* in particular a task only ever works with the checker of an Add that is  *)
(* over.                                                                    *)
THEOREM TasksInvariance == TasksSpec => []TasksInv
  BY TasksInitially, TasksPreservation, PTL DEF TasksSpec

-----------------------------------------------------------------------------
(* The checker's Mutex, and what its holder works through.                  *)
Locked ==
    \A t \in Requests :
        /\ pc[t] \in {"checking", "sending"} => lock[state[t]] = t
        /\ pc[t] = "checking" => todo[t] = Whole(state[t])

-----------------------------------------------------------------------------
(* The Add found the piece good.                                            *)
FoundGood(t, p) ==
    \/ <<"good", p>> \in old[t]
    \/ \E i \in 1 .. Len(new[t]) : new[t][i] = <<"good", p>>

(* An Add has found the pieces that stayed good and are no longer to be     *)
(* hashed, and has reported them before it inserts its torrent.             *)
AddFinds ==
    \A t \in Requests :
        /\ kept[t] \subseteq GoodPieces(disk)
        /\ pc[t] = "hash" => \A p \in kept[t] \ todo[t] : FoundGood(t, p)
        /\ pc[t] = "diff" /\ On(t, "add") => \A p \in kept[t] : FoundGood(t, p)
        /\ pc[t] = "insert" \/ (pc[t] \in {"answer", "done"} /\ On(t, "add") /\ t \notin failed) =>
              \A p \in kept[t] : <<"good", p>> \in old[t]

-----------------------------------------------------------------------------
(* The lock of the checkers *)

(* The whole pieces of one checker whose lists are left alone.              *)
LEMMA WholeLocal ==
    ASSUME NEW c, pend'[c] = pend[c], old'[c] = old[c]
    PROVE  Whole(c)' = Whole(c)
  BY DEF Whole

(* Checking a whole piece takes it, and only it, from the whole pieces.     *)
LEMMA WholeChecked ==
    ASSUME TasksTypeOK, NEW t \in Requests, NEW c \in Requests, NEW p \in Pieces,
           Checks(t, c, p), old' = old
    PROVE  Whole(c)' = Whole(c) \ {p} /\ \A d \in Requests \ {c} : Whole(d)' = Whole(d)
  <1>1. pend'[c] = pend[c] \ BlocksOf(p) /\ \A d \in Requests \ {c} : pend'[d] = pend[d]
    BY DEF Checks, TasksTypeOK
  <1>2. \A q \in Pieces : BlocksOf(q) \subseteq pend'[c] <=> BlocksOf(q) \subseteq pend[c] /\ q # p
    <2> SUFFICES ASSUME NEW q \in Pieces
                 PROVE  BlocksOf(q) \subseteq pend'[c] <=> BlocksOf(q) \subseteq pend[c] /\ q # p
      OBVIOUS
    <2>1. CASE q = p
      BY <1>1, <2>1, PieceBlocks
    <2>2. CASE q # p
      <3>1. BlocksOf(q) \cap BlocksOf(p) = {}
        BY <2>2, PieceBlocks
      <3> QED
        BY <1>1, <2>2, <3>1
    <2> QED
      BY <2>1, <2>2
  <1>3. Whole(c)' = Whole(c) \ {p}
    BY <1>2 DEF Whole
  <1>4. \A d \in Requests \ {c} : Whole(d)' = Whole(d)
    BY <1>1 DEF Whole
  <1> QED
    BY <1>3, <1>4

LockedAt(u) ==
    /\ pc[u] \in {"checking", "sending"} => lock[state[u]] = u
    /\ pc[u] = "checking" => todo[u] = Whole(state[u])

(* Another task keeps what it has locked when its checker is left alone.    *)
LEMMA LockedOthers ==
    ASSUME TasksTypeOK, InPlace, Locked, NEW t \in Requests, RequestStep(t), NEW u \in Requests \ {t},
           \A c \in Requests : state[u] = c /\ pc[u] \in {"checking", "sending"} =>
               lock'[c] = lock[c] /\ (pc[u] = "checking" => pend'[c] = pend[c] /\ old'[c] = old[c])
    PROVE  LockedAt(u)'
  <1>1. pc'[u] = pc[u] /\ state'[u] = state[u] /\ todo'[u] = todo[u]
    BY StepFrame
  <1>2. ASSUME pc[u] \in {"checking", "sending"} PROVE LockedAt(u)'
    <2>1. PICK c \in Requests : c = state[u]
      BY <1>2, ProcessAt
    <2>2. lock[c] = u /\ (pc[u] = "checking" => todo[u] = Whole(c))
      BY <1>2, <2>1 DEF Locked
    <2>3. pc[u] = "checking" => Whole(c)' = Whole(c)
      BY <1>2, <2>1, WholeLocal
    <2>4. lock'[state'[u]] = u
      BY <1>1, <1>2, <2>1, <2>2
    <2>5. ASSUME pc[u] = "checking" PROVE todo'[u] = Whole(state[u])'
      BY <1>1, <2>1, <2>2, <2>3, <2>5 DEF Whole
    <2> QED
      BY <1>1, <2>4, <2>5 DEF LockedAt
  <1> QED
    BY <1>1, <1>2 DEF LockedAt

(* The Mutex of a checker works: under it nobody else touches its lists.    *)
LEMMA LockedStep ==
    ASSUME TasksTypeOK, InPlace, Locked, NEW t \in Requests, RequestStep(t)
    PROVE  Locked'
  <1> USE DEF At, Goto, Fail, Moves
  <1> SUFFICES \A u \in Requests : LockedAt(u)'
    BY DEF Locked, LockedAt
  <1>1. TasksTypeOK' /\ LockedAt(t)
    BY TypesStep DEF Locked, LockedAt
  <1>2. ASSUME pc'[t] \notin {"checking", "sending"} PROVE LockedAt(t)'
    BY <1>2 DEF LockedAt
  <1>3. ASSUME UNCHANGED <<lock, pend, old>> PROVE \A u \in Requests \ {t} : LockedAt(u)'
    BY <1>3, LockedOthers
  <1>4. CASE Lookup(t)
    <2>1. UNCHANGED <<lock, pend, old>> /\ (LookupFails(t) \/ \E c \in Requests : LookupFinds(t, c))
      BY <1>4, LookupEffect DEF checkersView
    <2>2. \E l \in {"answer", "write", "sync", "read"} : Moves(t, l)
      BY <2>1 DEF LookupFails, LookupFinds
    <2>3. pc'[t] \notin {"checking", "sending"}
      BY <2>2 DEF TasksTypeOK
    <2> QED
      BY <1>2, <1>3, <2>1, <2>3
  <1>5. CASE Answer(t) \/ FileSize(t) \/ Allocate(t) \/ InsertTorrent(t) \/ RemoveTorrent(t)
    <2>1. UNCHANGED <<lock, pend, old>>
      BY <1>5 DEF Answer, FileSize, Allocate, InsertTorrent, RemoveTorrent, checkers
    <2>2. pc'[t] \notin {"checking", "sending"}
      BY <1>5 DEF Answer, FileSize, Allocate, InsertTorrent, RemoveTorrent, TasksTypeOK
    <2> QED
      BY <1>2, <1>3, <2>1, <2>2
  <1>6. CASE SyncFiles(t) \/ ReadBlock(t) \/ WritePiece(t)
    <2>1. UNCHANGED <<lock, pend, old>>
      BY <1>6 DEF SyncFiles, ReadBlock, WritePiece, checkers
    <2>2. pc'[t] \notin {"checking", "sending"}
      BY <1>6 DEF SyncFiles, ReadBlock, WritePiece, TasksTypeOK
    <2> QED
      BY <1>2, <1>3, <2>1, <2>2
  <1>7. CASE HashPiece(t)
    <2>1. UNCHANGED <<lock, pend, old>> /\ pc'[t] \notin {"checking", "sending"}
      BY <1>7, HashEffect, Zenon DEF Hashes, HashFails, TasksTypeOK
    <2> QED
      BY <1>2, <1>3, <2>1
  <1>8. CASE SendAddedDiff(t)
    <2>1. pc[t] = "diff" /\ UNCHANGED <<lock, pend>> /\ pc'[t] \notin {"checking", "sending"}
      BY <1>8, Zenon DEF SendAddedDiff, TasksTypeOK
    <2>2. \A c \in Requests \ {t} : old'[c] = old[c]
      BY <1>8 DEF SendAddedDiff, SendState, TasksTypeOK
    <2>3. \A u \in Requests : state[u] # t
      BY <2>1, TasksAssumption DEF InPlace, Placed, Handed
    <2> QED
      BY <1>2, <2>1, <2>2, <2>3, LockedOthers
  <1>9. CASE AddPendingBlock(t)
    <2>1. PICK c \in Requests : c = state[t] /\ lock[c] = None
                                /\ pend' = [pend EXCEPT ![c] = @ \cup {req[t].block}]
      BY <1>9, ProcessAt, Zenon DEF AddPendingBlock
    <2>2. UNCHANGED <<lock, old>> /\ pc'[t] \notin {"checking", "sending"}
      BY <1>9 DEF AddPendingBlock, TasksTypeOK
    <2>3. \A u \in Requests : pc[u] \in {"checking", "sending"} => state[u] # c
      BY <2>1, TasksAssumption DEF Locked
    <2>4. \A d \in Requests \ {c} : pend'[d] = pend[d]
      BY <2>1 DEF TasksTypeOK
    <2> QED
      BY <1>2, <2>2, <2>3, <2>4, LockedOthers
  <1>10. CASE CalculateDiff(t)
    <2>1. PICK c \in Requests : c = state[t] /\ lock[c] = None
      BY <1>10, ProcessAt DEF CalculateDiff
    <2>2. \/ pc'[t] = "diff" /\ lock' = lock
          \/ pc'[t] = "checking" /\ lock' = [lock EXCEPT ![c] = t] /\ todo'[t] = Whole(c)
      BY <1>10, <2>1 DEF CalculateDiff, TasksTypeOK
    <2>3. UNCHANGED <<pend, old, state>>
      BY <1>10 DEF CalculateDiff
    <2>4. \A u \in Requests : pc[u] \in {"checking", "sending"} => state[u] # c
      BY <2>1, TasksAssumption DEF Locked
    <2>5. \A d \in Requests \ {c} : lock'[d] = lock[d]
      BY <2>2 DEF TasksTypeOK
    <2>6. \A u \in Requests \ {t} : LockedAt(u)'
      BY <2>3, <2>4, <2>5, LockedOthers
    <2>7. LockedAt(t)'
      BY <2>1, <2>2, <2>3 DEF LockedAt, Whole, TasksTypeOK
    <2> QED
      BY <2>6, <2>7
  <1>11. CASE CheckPiece(t)
    <2>1. pc[t] = "checking" /\ UNCHANGED <<state, old>>
      BY <1>11, CheckEffect
    <2>2. PICK c \in Requests : state[t] = c /\ (CheckFails(t, c) \/ \E p \in todo[t] : Checks(t, c, p))
      BY <1>11, CheckEffect
    <2>3. lock[c] = t /\ todo[t] = Whole(c)
      BY <2>1, <2>2 DEF Locked
    <2>4. \A u \in Requests \ {t} : pc[u] \in {"checking", "sending"} => state[u] # c
      BY <2>3 DEF Locked
    <2>5. \A d \in Requests \ {c} : lock'[d] = lock[d] /\ pend'[d] = pend[d]
      BY <2>2 DEF CheckFails, Checks, TasksTypeOK
    <2>6. \A u \in Requests \ {t} : LockedAt(u)'
      BY <2>1, <2>4, <2>5, LockedOthers
    <2>7. CASE CheckFails(t, c)
      BY <1>2, <2>6, <2>7 DEF CheckFails, TasksTypeOK
    <2>8. ASSUME NEW p \in todo[t], Checks(t, c, p) PROVE \A u \in Requests : LockedAt(u)'
      <3>1. CASE Moves(t, "diff")
        BY <1>2, <2>6, <3>1 DEF TasksTypeOK
      <3>2. CASE UNCHANGED <<pc, lock>>
        <4>1. p \in Pieces
          BY DEF TasksTypeOK
        <4>2. Whole(c)' = Whole(c) \ {p} /\ todo'[t] = todo[t] \ {p}
          BY <2>1, <2>8, <4>1, WholeChecked, Zenon DEF Checks, TasksTypeOK
        <4>3. lock'[state'[t]] = t
          BY <2>1, <2>2, <2>3, <3>2
        <4>4. todo'[t] = Whole(state[t])'
          BY <2>1, <2>2, <2>3, <4>2 DEF Whole
        <4> QED
          BY <2>6, <4>3, <4>4 DEF LockedAt
      <3> QED
        BY <2>8, <3>1, <3>2 DEF Checks
    <2> QED
      BY <2>2, <2>7, <2>8
  <1>12. CASE StartDiff(t)
    <2>1. PICK c \in Requests : c = state[t] /\ lock[c] = None
      BY <1>12, ProcessAt DEF StartDiff
    <2>2. \/ pc'[t] = "answer" /\ lock' = lock
          \/ pc'[t] = "sending" /\ lock' = [lock EXCEPT ![c] = t]
      BY <1>12, <2>1, ZenonT(30) DEF StartDiff, TasksTypeOK
    <2>3. UNCHANGED <<pend, old, state>>
      BY <1>12 DEF StartDiff
    <2>4. \A u \in Requests : pc[u] \in {"checking", "sending"} => state[u] # c
      BY <2>1, TasksAssumption DEF Locked
    <2>5. \A d \in Requests \ {c} : lock'[d] = lock[d]
      BY <2>2 DEF TasksTypeOK
    <2>6. \A u \in Requests \ {t} : LockedAt(u)'
      BY <2>3, <2>4, <2>5, LockedOthers
    <2>7. LockedAt(t)'
      BY <2>1, <2>2, <2>3 DEF LockedAt, TasksTypeOK
    <2> QED
      BY <2>6, <2>7
  <1>13. CASE SendDiff(t)
    <2>1. PICK c \in Requests : c = state[t] /\ lock[c] = t
      BY <1>13, ProcessAt DEF SendDiff, Locked
    <2>2. \/ pc' = pc /\ lock' = lock
          \/ pc'[t] = "answer" /\ lock' = [lock EXCEPT ![c] = None]
      BY <1>13, <2>1, Zenon DEF SendDiff, TasksTypeOK
    <2>3. pc[t] = "sending" /\ UNCHANGED <<pend, state>>
      BY <1>13 DEF SendDiff
    <2>4. \A d \in Requests \ {c} : lock'[d] = lock[d] /\ old'[d] = old[d]
      BY <1>13, <2>1, <2>2 DEF SendDiff, SendState, TasksTypeOK
    <2>5. \A u \in Requests \ {t} : pc[u] \in {"checking", "sending"} => state[u] # c
      BY <2>1 DEF Locked
    <2>6. \A u \in Requests \ {t} : LockedAt(u)'
      BY <2>3, <2>4, <2>5, LockedOthers
    <2>7. LockedAt(t)'
      BY <2>1, <2>2, <2>3 DEF LockedAt
    <2> QED
      BY <2>6, <2>7
  <1> QED
    BY <1>4, <1>5, <1>6, <1>7, <1>8, <1>9, <1>10, <1>11, <1>12, <1>13 DEF RequestStep

-----------------------------------------------------------------------------
(* What an Add finds *)

FindsAt(u) ==
    /\ pc[u] = "hash" => \A p \in kept[u] \ todo[u] : FoundGood(u, p)
    /\ pc[u] = "diff" /\ On(u, "add") => \A p \in kept[u] : FoundGood(u, p)
    /\ pc[u] = "insert" \/ (pc[u] \in {"answer", "done"} /\ On(u, "add") /\ u \notin failed) =>
          \A p \in kept[u] : <<"good", p>> \in old[u]

(* The pieces kept good are good, and their sets only shrink.               *)
LEMMA KeptStep ==
    ASSUME TasksTypeOK, AddFinds, NEW t \in Requests, RequestStep(t)
    PROVE  \A u \in Requests : kept'[u] \subseteq kept[u] /\ kept'[u] \subseteq GoodPieces(disk')
  <1>1. CASE UNCHANGED <<disk, kept>>
    BY <1>1 DEF AddFinds
  <1>2. CASE kept' = [u \in Requests |-> kept[u] \cap GoodPieces(disk')]
    BY <1>2
  <1>3. CASE Lookup(t) \/ Answer(t) \/ FileSize(t) \/ HashPiece(t) \/ SendAddedDiff(t) \/ InsertTorrent(t)
    BY <1>1, <1>3, Zenon DEF Lookup, Answer, FileSize, HashPiece, SendAddedDiff, InsertTorrent, fileVars
  <1>4. CASE RemoveTorrent(t) \/ SyncFiles(t) \/ ReadBlock(t) \/ AddPendingBlock(t) \/ CalculateDiff(t)
    BY <1>1, <1>4 DEF RemoveTorrent, SyncFiles, ReadBlock, AddPendingBlock, CalculateDiff, fileVars
  <1>5. CASE CheckPiece(t) \/ StartDiff(t) \/ SendDiff(t)
    BY <1>1, <1>5, Zenon DEF CheckPiece, StartDiff, SendDiff, fileVars
  <1>6. CASE Allocate(t) \/ WritePiece(t)
    BY <1>2, <1>6 DEF Allocate, WritePiece
  <1> QED
    BY <1>3, <1>4, <1>5, <1>6 DEF RequestStep

(* The other tasks keep what they found: the lists of a checker change only *)
(* in its Add or, once it was handed over, grow.                            *)
LEMMA FindsOthers ==
    ASSUME TasksTypeOK, AddFinds, NEW t \in Requests, RequestStep(t), NEW u \in Requests \ {t},
           new'[u] = new[u] \/ Handed(u), old[u] \subseteq old'[u], old'[u] = old[u] \/ Handed(u)
    PROVE  FindsAt(u)'
  <1>1. /\ pc'[u] = pc[u] /\ todo'[u] = todo[u] /\ (u \in failed => u \in failed')
        /\ kept'[u] \subseteq kept[u] /\ (On(u, "add")' <=> On(u, "add"))
    BY StepFrame, KeptStep DEF On
  <1>2. FindsAt(u)
    BY DEF AddFinds, FindsAt
  <1>3. ASSUME pc[u] \in {"hash", "diff"}, NEW p, FoundGood(u, p) PROVE FoundGood(u, p)'
    BY <1>3 DEF FoundGood, Handed
  <1>4. pc[u] = "hash" => \A p \in kept'[u] \ todo'[u] : FoundGood(u, p)'
    BY <1>1, <1>2, <1>3 DEF FindsAt
  <1>5. pc[u] = "diff" /\ On(u, "add") => \A p \in kept'[u] : FoundGood(u, p)'
    BY <1>1, <1>2, <1>3 DEF FindsAt
  <1>6. pc[u] = "insert" \/ (pc[u] \in {"answer", "done"} /\ On(u, "add") /\ u \notin failed') =>
          \A p \in kept'[u] : <<"good", p>> \in old'[u]
    BY <1>1, <1>2, Zenon DEF FindsAt
  <1> QED
    BY <1>1, <1>4, <1>5, <1>6 DEF FindsAt

(* The steps of an Add find every piece that stays good.                    *)
LEMMA FindsStep ==
    ASSUME TasksTypeOK, InPlace, AddFinds, NEW t \in Requests, RequestStep(t)
    PROVE  AddFinds'
  <1> USE DEF At, Goto, Fail, Moves
  <1>1. TasksTypeOK' /\ InPlace'
    BY TypesStep, PlacesStep, ZenonT(30)
  <1> SUFFICES \A u \in Requests : FindsAt(u)'
    BY KeptStep, ZenonT(30) DEF AddFinds, FindsAt
  <1>2. FindsAt(t) /\ kept'[t] \subseteq kept[t] /\ kept[t] \subseteq GoodPieces(disk) /\ req' = req
    BY KeptStep, StepFrame DEF AddFinds, FindsAt
  <1>3. ASSUME UNCHANGED <<new, old>> PROVE \A u \in Requests \ {t} : FindsAt(u)'
    BY <1>3, FindsOthers
  <1>4. ASSUME ~On(t, "add") PROVE FindsAt(t)'
    <2>1. ~On(t, "add")' /\ pc'[t] \notin {"hash", "insert"}
      BY <1>1, <1>2, <1>4 DEF InPlace, Placed, On
    <2> QED
      BY <2>1 DEF FindsAt
  <1>5. CASE Lookup(t)
    <2>1. UNCHANGED <<new, old>> /\ ~On(t, "add")
      BY <1>5, LookupEffect DEF checkersView, InPlace, Placed
    <2> QED
      BY <1>3, <1>4, <2>1, ZenonT(30)
  <1>6. CASE Answer(t)
    <2>1. UNCHANGED <<new, old, failed>> /\ pc[t] = "answer" /\ pc'[t] = "done"
      BY <1>6, ZenonT(30) DEF Answer, checkers, TasksTypeOK
    <2>2. FindsAt(t)'
      BY <1>2, <2>1 DEF FindsAt, On
    <2> QED
      BY <1>3, <2>1, <2>2
  <1>7. CASE FileSize(t) \/ Allocate(t)
    <2>1. UNCHANGED <<new, old>>
      BY <1>7 DEF FileSize, Allocate, checkers
    <2>2. \/ pc'[t] = "answer" /\ t \in failed'
          \/ pc'[t] = "allocate"
          \/ pc'[t] = "hash" /\ todo'[t] = Pieces
      BY <1>7 DEF FileSize, Allocate, TasksTypeOK
    <2>3. kept'[t] \subseteq Pieces
      BY <1>1, ZenonT(30) DEF TasksTypeOK
    <2>4. FindsAt(t)'
      BY <2>2, <2>3 DEF FindsAt
    <2> QED
      BY <1>3, <2>1, <2>4
  <1>8. CASE HashPiece(t)
    <2>1. /\ pc[t] = "hash" /\ UNCHANGED <<disk, kept, old>>
          /\ HashFails(t) \/ \E p \in todo[t] : Hashes(t, p)
      BY <1>8, HashEffect DEF filesView
    <2>2. CASE HashFails(t)
      <3>1. FindsAt(t)'
        BY <2>2 DEF HashFails, FindsAt, TasksTypeOK
      <3> QED
        BY <1>3, <2>1, <2>2, <3>1, ZenonT(30) DEF HashFails
    <2>3. ASSUME NEW p \in todo[t], Hashes(t, p) PROVE \A u \in Requests : FindsAt(u)'
      <3>1. \A u \in Requests \ {t} : new'[u] = new[u]
        BY <2>3, ZenonT(30) DEF Hashes, TasksTypeOK
      <3>2. \A u \in Requests \ {t} : FindsAt(u)'
        BY <2>1, <3>1, FindsOthers
      <3>3. p \in Pieces /\ new'[t] = Append(new[t], Verdict(p)) /\ todo'[t] = todo[t] \ {p}
        BY <2>3, ZenonT(30) DEF Hashes, TasksTypeOK
      <3>4. /\ Len(new[t]) \in Nat /\ Len(new'[t]) = Len(new[t]) + 1
            /\ \A i \in 1 .. Len(new[t]) : new'[t][i] = new[t][i]
            /\ new'[t][Len(new[t]) + 1] = Verdict(p)
        BY <3>3, NewAppended
      <3>5. \A q : FoundGood(t, q) => FoundGood(t, q)'
        <4>1. \A i \in 1 .. Len(new[t]) : i \in 1 .. Len(new'[t])
          BY <3>4
        <4> QED
          BY <2>1, <3>4, <4>1, ZenonT(30) DEF FoundGood
      <3>6. p \in GoodPieces(disk) => FoundGood(t, p)'
        <4>1. Len(new[t]) + 1 \in 1 .. Len(new'[t])
          BY <3>3, NewAppended
        <4>2. p \in GoodPieces(disk) => Verdict(p) = <<"good", p>>
          BY <3>3, SetTypes, ZenonT(30)
        <4> QED
          BY <3>4, <4>1, <4>2 DEF FoundGood
      <3>7. \A q \in kept'[t] \ todo'[t] : FoundGood(t, q)'
        BY <1>2, <2>1, <3>3, <3>5, <3>6 DEF FindsAt
      <3>8. pc'[t] = "hash" \/ (pc'[t] = "diff" /\ todo'[t] = {})
        BY <2>3, ZenonT(30) DEF Hashes, TasksTypeOK
      <3>9. FindsAt(t)'
        BY <3>7, <3>8 DEF FindsAt
      <3> QED
        BY <3>2, <3>9
    <2> QED
      BY <2>1, <2>2, <2>3
  <1>9. CASE SendAddedDiff(t)
    <2>1. pc[t] = "diff" /\ On(t, "add") /\ UNCHANGED failed
      BY <1>9 DEF SendAddedDiff
    <2>2. CASE SendState(t, t, TRUE) /\ UNCHANGED pc
      <3>1. PICK s \in Found : Reports(t, s, TRUE)
        BY <2>2, SendEffect, Zenon
      <3>2. \A u \in Requests \ {t} : new'[u] = new[u] /\ old'[u] = old[u]
        BY <3>1 DEF Reports, TasksTypeOK
      <3>3. \A u \in Requests \ {t} : FindsAt(u)'
        BY <3>2, FindsOthers
      <3>4. /\ old'[t] = old[t] \cup {s} /\ s = new[t][1]
            /\ \A i \in 1 .. Len(new[t]) : i = 1 \/ i - 1 \in 1 .. Len(new'[t])
            /\ \A i \in 1 .. Len(new'[t]) : new'[t][i] = new[t][i + 1]
        BY <3>1, ReportEffect, Zenon
      <3>5. ASSUME NEW q, FoundGood(t, q) PROVE FoundGood(t, q)'
        <4>1. CASE <<"good", q>> \in old[t]
          BY <3>4, <4>1 DEF FoundGood
        <4>2. ASSUME NEW i \in 1 .. Len(new[t]), new[t][i] = <<"good", q>> PROVE FoundGood(t, q)'
          <5>1. CASE i = 1
            BY <3>4, <4>2, <5>1 DEF FoundGood
          <5>2. CASE i # 1
            <6>1. i - 1 \in 1 .. Len(new'[t]) /\ new'[t][i - 1] = <<"good", q>>
              <7>1. i - 1 \in 1 .. Len(new'[t]) /\ new'[t][i - 1] = new[t][(i - 1) + 1]
                BY <3>4, <5>2, ZenonT(30)
              <7> QED
                BY <4>2, <7>1
            <6> QED
              BY <6>1 DEF FoundGood
          <5> QED
            BY <5>1, <5>2
        <4> QED
          BY <3>5, <4>1, <4>2 DEF FoundGood
      <3>6. FindsAt(t)'
        BY <1>2, <2>1, <2>2, <3>5 DEF FindsAt, On
      <3> QED
        BY <3>3, <3>6
    <2>3. CASE new[t] = << >> /\ Goto(t, "insert") /\ UNCHANGED <<new, old, channel>>
      <3>1. pc'[t] = "insert"
        BY <2>3, ZenonT(30) DEF TasksTypeOK
      <3>2. \A p \in kept[t] : FoundGood(t, p)
        BY <1>2, <2>1 DEF FindsAt
      <3>3. \A p \in kept[t] : <<"good", p>> \in old[t]
        <4>1. 1 .. Len(new[t]) = {}
          BY <2>3, SMTT(40), Z3T(40)
        <4> QED
          BY <3>2, <4>1, Zenon DEF FoundGood
      <3>4. FindsAt(t)'
        BY <1>2, <2>3, <3>1, <3>3 DEF FindsAt
      <3> QED
        BY <1>3, <2>3, <3>4
    <2> QED
      BY <1>9, <2>2, <2>3, Zenon DEF SendAddedDiff
  <1>10. CASE InsertTorrent(t)
    <2>1. UNCHANGED <<new, old>> /\ pc[t] = "insert" /\ pc'[t] = "answer"
      BY <1>10, ZenonT(60) DEF InsertTorrent, checkers, TasksTypeOK
    <2>2. FindsAt(t)'
      BY <1>2, <2>1 DEF FindsAt
    <2> QED
      BY <1>3, <2>1, <2>2
  <1>11. CASE RemoveTorrent(t) \/ SyncFiles(t) \/ ReadBlock(t)
    <2>1. UNCHANGED <<new, old>>
      BY <1>11, ZenonT(30) DEF RemoveTorrent, SyncFiles, ReadBlock, checkers
    <2>2. ~On(t, "add")
      BY <1>11 DEF RemoveTorrent, SyncFiles, ReadBlock, InPlace, Placed
    <2> QED
      BY <1>3, <1>4, <2>1, <2>2
  <1>12. ASSUME On(t, "process") PROVE FindsAt(t)'
    BY <1>4, <1>12 DEF On
  <1>13. CASE WritePiece(t) \/ AddPendingBlock(t) \/ CalculateDiff(t) \/ StartDiff(t)
    <2>1. UNCHANGED <<new, old>>
      BY <1>13, ZenonT(30) DEF WritePiece, AddPendingBlock, CalculateDiff, StartDiff, checkers
    <2>2. On(t, "process")
      BY <1>13, ProcessAt DEF WritePiece, AddPendingBlock, CalculateDiff, StartDiff
    <2> QED
      BY <1>3, <1>12, <2>1, <2>2, ZenonT(30)
  <1>14. CASE CheckPiece(t)
    <2>1. On(t, "process") /\ old' = old
      BY <1>14, CheckEffect
    <2>2. PICK c \in Requests : Handed(c) /\ (CheckFails(t, c) \/ \E p \in todo[t] : Checks(t, c, p))
      BY <1>14, CheckEffect
    <2>3. \A u \in Requests \ {c} : new'[u] = new[u]
      BY <2>2, ZenonT(30) DEF CheckFails, Checks, TasksTypeOK
    <2>4. ASSUME NEW u \in Requests \ {t} PROVE FindsAt(u)'
      <3>1. new'[u] = new[u] \/ Handed(u)
        BY <2>2, <2>3
      <3> QED
        BY <2>1, <3>1, FindsOthers
    <2> QED
      BY <1>12, <2>1, <2>4
  <1>15. CASE SendDiff(t)
    <2>1. PICK c \in Requests : c = state[t] /\ Handed(c) /\ On(t, "process")
      BY <1>15, ProcessAt, ZenonT(30) DEF SendDiff
    <2>2. CASE SendState(t, c, FALSE)
      <3>1. PICK s \in Found : Reports(c, s, FALSE)
        BY <2>2, SendEffect, Zenon
      <3>2. \A u \in Requests \ {c} : new'[u] = new[u] /\ old'[u] = old[u]
        BY <3>1 DEF Reports, TasksTypeOK
      <3>3. old[c] \subseteq old'[c]
        BY <3>1 DEF Reports, TasksTypeOK
      <3> QED
        BY <1>12, <2>1, <3>2, <3>3, FindsOthers
    <2>3. CASE UNCHANGED <<new, old>>
      BY <1>3, <1>12, <2>1, <2>3
    <2> QED
      BY <1>15, <2>1, <2>2, <2>3, Zenon DEF SendDiff
  <1> QED
    BY <1>5, <1>6, <1>7, <1>8, <1>9, <1>10, <1>11, <1>13, <1>14, <1>15 DEF RequestStep
=============================================================================
