------------------------- MODULE DiskTasksReports --------------------------
(***************************************************************************)
(* What the tasks of DiskTasks report: all that an Add found, and every    *)
(* piece whose blocks were processed; and that a piece reported good is    *)
(* good, as long as clients are careful.                                   *)
(***************************************************************************)
EXTENDS DiskTasksProofs

(* The task processes a block of p with the checker c, and is at one of the *)
(* places or has failed.                                                    *)
Minds(t, c, p, places) ==
    /\ On(t, "process") /\ state[t] = c /\ PieceOf(t) = p
    /\ pc[t] \in places \/ t \in failed

Shared(c) == torrents = c \/ \E u \in Requests : state[u] = c

(* Someone will check a whole piece and report a checked one, or failed.    *)
Minded ==
    \A c \in Requests :
        /\ \A p \in Whole(c) : \E t \in Requests : Minds(t, c, p, {"check", "checking"})
        /\ Shared(c) => \A i \in 1 .. Len(new[c]) :
              \E t \in Requests : Minds(t, c, new[c][i][2], {"check", "checking", "diff", "sending"})

ReportsInv == Locked /\ AddFinds /\ Minded

-----------------------------------------------------------------------------
(* Who minds the pieces *)

Checking == {"check", "checking"}
Reporting == {"check", "checking", "diff", "sending"}
WholeMinded(c) == \A p \in Whole(c) : \E u \in Requests : Minds(u, c, p, Checking)
NewMinded(c) ==
    Shared(c) => \A i \in 1 .. Len(new[c]) : \E u \in Requests : Minds(u, c, new[c][i][2], Reporting)

(* A checker becomes shared when its Add inserts it; a task keeps the one   *)
(* it has.                                                                  *)
LEMMA SharedStep ==
    ASSUME TasksTypeOK, InPlace, NEW t \in Requests, RequestStep(t)
    PROVE  /\ \A u \in Requests : state[u] # None => state'[u] = state[u]
           /\ \A c \in Requests : Shared(c)' => Shared(c) \/ (c = t /\ InsertTorrent(t))
  <1> USE DEF At, Goto, Fail, Moves
  <1>1. CASE Lookup(t)
    <2>1. pc[t] = "lookup" /\ state[t] = None /\ torrents' = torrents
      BY <1>1 DEF Lookup, InPlace, Placed
    <2>2. state' = [state EXCEPT ![t] = torrents]
      BY <1>1 DEF Lookup
    <2> QED
      BY <2>1, <2>2 DEF Shared, TasksTypeOK
  <1>2. CASE InsertTorrent(t)
    BY <1>2 DEF InsertTorrent, Shared
  <1>3. CASE RemoveTorrent(t)
    BY <1>3, TasksAssumption DEF RemoveTorrent, Shared
  <1>4. CASE UNCHANGED <<torrents, state>>
    BY <1>4 DEF Shared
  <1>5. CASE Answer(t) \/ FileSize(t) \/ Allocate(t) \/ HashPiece(t) \/ SendAddedDiff(t)
    BY <1>4, <1>5, ZenonT(60) DEF Answer, FileSize, Allocate, HashPiece, SendAddedDiff
  <1>6. CASE SyncFiles(t) \/ ReadBlock(t) \/ WritePiece(t) \/ AddPendingBlock(t) \/ CalculateDiff(t)
    BY <1>4, <1>6, ZenonT(30) DEF SyncFiles, ReadBlock, WritePiece, AddPendingBlock, CalculateDiff
  <1>7. CASE CheckPiece(t) \/ StartDiff(t) \/ SendDiff(t)
    BY <1>4, <1>7, ZenonT(60) DEF CheckPiece, StartDiff, SendDiff
  <1> QED
    BY <1>1, <1>2, <1>3, <1>5, <1>6, <1>7, Zenon DEF RequestStep

(* A task minds its piece until it moves on without having failed.          *)
LEMMA MindsStays ==
    ASSUME TasksTypeOK, InPlace, NEW t \in Requests, RequestStep(t),
           NEW u \in Requests, NEW c \in Requests, NEW p, NEW places, Minds(u, c, p, places),
           u = t => pc'[t] \in places \/ t \in failed'
    PROVE  Minds(u, c, p, places)'
  <1>1. req' = req /\ (u # t => pc'[u] = pc[u]) /\ (u \in failed => u \in failed')
    BY StepFrame
  <1>2. state'[u] = c
    BY SharedStep, TasksAssumption DEF Minds
  <1> QED
    BY <1>1, <1>2 DEF Minds, On, PieceOf

(* No step leaves a piece that nobody minds.                                *)
LEMMA MindedStep ==
    ASSUME TasksTypeOK, InPlace, Locked, Minded, NEW t \in Requests, RequestStep(t)
    PROVE  Minded'
  <1> USE DEF At, Goto, Fail, Moves
  <1> SUFFICES ASSUME NEW c \in Requests PROVE WholeMinded(c)' /\ NewMinded(c)'
    BY ZenonT(30) DEF Minded, WholeMinded, NewMinded, Checking, Reporting
  <1>1. WholeMinded(c) /\ NewMinded(c) /\ c # None
    BY TasksAssumption DEF Minded, WholeMinded, NewMinded, Checking, Reporting
  <1>2. ASSUME Whole(c)' \subseteq Whole(c),
               pc[t] \in Checking /\ state[t] = c =>
                   pc'[t] \in Checking \/ t \in failed' \/ Whole(c)' = {}
        PROVE  WholeMinded(c)'
    <2> SUFFICES ASSUME NEW p \in Whole(c)' PROVE \E u \in Requests : Minds(u, c, p, Checking)'
      BY DEF WholeMinded
    <2>1. PICK u \in Requests : Minds(u, c, p, Checking)
      BY <1>1, <1>2 DEF WholeMinded
    <2>2. u = t => pc'[t] \in Checking \/ t \in failed'
      BY <1>2, <2>1, StepFrame, SMTT(40), Z3T(40) DEF Minds
    <2> QED
      BY <2>1, <2>2, MindsStays
  <1>3. ASSUME new'[c] = new[c] \/ ~Shared(c), Shared(c)' => Shared(c),
               pc[t] \in Reporting /\ state[t] = c /\ On(t, "process") =>
                   pc'[t] \in Reporting \/ t \in failed' \/ new[c] = << >>
        PROVE  NewMinded(c)'
    <2> SUFFICES ASSUME Shared(c)', NEW i \in 1 .. Len(new'[c])
                 PROVE  \E u \in Requests : Minds(u, c, new[c][i][2], Reporting)'
      BY ZenonT(30) DEF NewMinded
    <2>1. new'[c] = new[c] /\ Shared(c) /\ i \in 1 .. Len(new[c])
      BY <1>3
    <2>2. PICK u \in Requests : Minds(u, c, new[c][i][2], Reporting)
      BY <1>1, <2>1 DEF NewMinded
    <2>3. PICK p : p = new[c][i][2]
      OBVIOUS
    <2>4. new[c] # << >>
      BY <2>1, SMTT(40), Z3T(40)
    <2>5. u = t => pc'[t] \in Reporting \/ t \in failed'
      <3>1. t \in failed => t \in failed'
        BY StepFrame
      <3>2. On(u, "process") /\ state[u] = c /\ (pc[u] \in Reporting \/ u \in failed)
        BY <2>2 DEF Minds
      <3> QED
        BY <1>3, <2>4, <3>1, <3>2
    <2>6. Minds(u, c, p, Reporting)'
      BY <2>2, <2>3, <2>5, MindsStays, Zenon
    <2> QED
      BY <2>1, <2>3, <2>6 DEF Minds, On, PieceOf
  <1>4. ASSUME ~InsertTorrent(t) PROVE Shared(c)' => Shared(c)
    BY <1>4, SharedStep
  <1>5. ASSUME UNCHANGED <<pend, old>> PROVE Whole(c)' = Whole(c)
    BY <1>5, WholeLocal, ZenonT(30)
  <1>6. CASE Lookup(t)
    <2>1. UNCHANGED <<new, old, pend, torrents>> /\ pc[t] = "lookup"
      BY <1>6, LookupEffect DEF checkersView
    <2>2. ~InsertTorrent(t)
      BY <2>1 DEF InsertTorrent
    <2> QED
      BY <1>2, <1>3, <1>4, <1>5, <2>1, <2>2 DEF Checking, Reporting
  <1>7. CASE Answer(t) \/ FileSize(t) \/ Allocate(t) \/ RemoveTorrent(t) \/ SyncFiles(t) \/ ReadBlock(t)
    <2>1. UNCHANGED <<new, old, pend>>
      BY <1>7 DEF Answer, FileSize, Allocate, RemoveTorrent, SyncFiles, ReadBlock, checkers
    <2>2. pc[t] \in {"answer", "size", "allocate", "remove", "sync", "read"}
      BY <1>7 DEF Answer, FileSize, Allocate, RemoveTorrent, SyncFiles, ReadBlock
    <2>3. ~InsertTorrent(t)
      BY <2>2 DEF InsertTorrent
    <2> QED
      BY <1>2, <1>3, <1>4, <1>5, <2>1, <2>2, <2>3, ZenonT(60) DEF Checking, Reporting
  <1>8. CASE InsertTorrent(t)
    <2>1. UNCHANGED <<new, old, pend>> /\ pc[t] = "insert" /\ new[t] = << >>
      BY <1>8, Zenon DEF InsertTorrent, checkers, InPlace, Placed
    <2>2. WholeMinded(c)'
      BY <1>2, <1>5, <2>1, ZenonT(30) DEF Checking
    <2>3. CASE Shared(c)' => Shared(c)
      BY <1>3, <2>1, <2>2, <2>3 DEF Reporting
    <2>4. CASE c = t
      <3>1. 1 .. Len(new'[c]) = {}
        BY <2>1, <2>4
      <3> QED
        BY <2>2, <3>1 DEF NewMinded
    <2> QED
      BY <2>3, <2>4, SharedStep, Zenon
  <1>9. ASSUME pc[t] \in {"hash", "diff"}, On(t, "add") PROVE ~Shared(t) /\ ~On(t, "process") /\ ~InsertTorrent(t)
    <2>1. ~Handed(t) /\ t # None
      BY <1>9, TasksAssumption DEF Handed
    <2>2. torrents # t /\ \A u \in Requests : state[u] # t
      BY <2>1, ZenonT(60) DEF InPlace, Placed
    <2> QED
      BY <1>9, <2>2 DEF Shared, InsertTorrent, On
  <1>10. CASE HashPiece(t)
    <2>1. /\ pc[t] = "hash" /\ On(t, "add") /\ UNCHANGED <<old, pend>>
          /\ HashFails(t) \/ \E p \in todo[t] : Hashes(t, p)
      BY <1>10, HashEffect DEF InPlace, Placed
    <2>2. c # t => new'[c] = new[c]
      BY <2>1, ZenonT(30) DEF HashFails, Hashes, TasksTypeOK
    <2> QED
      BY <1>2, <1>3, <1>4, <1>5, <1>9, <2>1, <2>2, ZenonT(60) DEF Checking, Reporting
  <1>11. CASE SendAddedDiff(t)
    <2>1. pc[t] = "diff" /\ On(t, "add") /\ pend' = pend
      BY <1>11 DEF SendAddedDiff
    <2>2. c # t => new'[c] = new[c]
      BY <1>11, Zenon DEF SendAddedDiff, SendState, TasksTypeOK
    <2>3. old[c] \subseteq old'[c]
      <3>1. CASE SendState(t, t, TRUE)
        <4>1. PICK s \in Found : Reports(t, s, TRUE)
          BY <3>1, SendEffect, Zenon
        <4> QED
          BY <4>1 DEF Reports, TasksTypeOK
      <3> QED
        BY <1>11, <3>1, Zenon DEF SendAddedDiff
    <2>4. Whole(c)' \subseteq Whole(c)
      BY <2>1, <2>3, ZenonT(30) DEF Whole
    <2> QED
      BY <1>2, <1>3, <1>4, <1>9, <2>1, <2>2, <2>4, ZenonT(30) DEF Checking
  <1>12. CASE WritePiece(t)
    <2>1. UNCHANGED <<new, old, pend>> /\ pc[t] = "write" /\ ~InsertTorrent(t)
      BY <1>12 DEF WritePiece, checkers, InsertTorrent
    <2> QED
      BY <1>2, <1>3, <1>4, <1>5, <2>1, ZenonT(30) DEF Checking, Reporting
  <1>13. CASE AddPendingBlock(t)
    <2>1. PICK d \in Requests : /\ d = state[t] /\ On(t, "process")
                                /\ pend' = [pend EXCEPT ![d] = @ \cup {req[t].block}]
      BY <1>13, ProcessAt, Zenon DEF AddPendingBlock
    <2>2. /\ UNCHANGED <<new, old, state>> /\ pc[t] = "pend" /\ ~InsertTorrent(t) /\ req' = req
          /\ pc'[t] = "check"
      BY <1>13, ZenonT(30) DEF AddPendingBlock, InsertTorrent, TasksTypeOK
    <2>3. NewMinded(c)'
      BY <1>3, <1>4, <2>2, ZenonT(60) DEF Reporting
    <2>4. CASE c # d
      <3>1. Whole(c)' = Whole(c)
        BY <2>1, <2>2, <2>4, WholeLocal DEF TasksTypeOK
      <3> QED
        BY <1>2, <2>2, <2>3, <3>1 DEF Checking
    <2>5. CASE c = d
      <3>1. pend'[c] = pend[c] \cup {req[t].block}
        BY <2>1, <2>5 DEF TasksTypeOK
      <3>2. PICK q \in Pieces : q = PieceOf(t)
        BY <2>1, Processed
      <3>3. req[t].block \in BlocksOf(q)
        BY <2>1, <3>2, Processed, ZenonT(30)
      <3>4. Whole(c)' \subseteq Whole(c) \cup {q}
        <4> SUFFICES ASSUME NEW r \in Pieces, r # q, BlocksOf(r) \subseteq pend'[c]
                     PROVE  BlocksOf(r) \subseteq pend[c]
          BY <2>2, ZenonT(30) DEF Whole
        <4> QED
          BY <3>1, <3>3, PieceBlocks
      <3>5. Minds(t, c, q, Checking)'
        BY <2>1, <2>2, <2>5, <3>2 DEF Minds, On, PieceOf, Checking
      <3>6. ASSUME NEW p \in Whole(c)' PROVE \E u \in Requests : Minds(u, c, p, Checking)'
        <4>1. CASE p = q
          BY <3>5, <4>1
        <4>2. CASE p \in Whole(c)
          <5>1. PICK u \in Requests : Minds(u, c, p, Checking)
            BY <1>1, <4>2, ZenonT(60) DEF WholeMinded
          <5>2. Minds(u, c, p, Checking)'
            BY <2>2, <5>1, MindsStays, ZenonT(30) DEF Checking
          <5> QED
            BY <5>2
        <4> QED
          BY <3>4, <3>6, <4>1, <4>2
      <3> QED
        BY <2>3, <3>6 DEF WholeMinded
    <2> QED
      BY <2>4, <2>5, Zenon
  <1>14. CASE CalculateDiff(t)
    <2>1. UNCHANGED <<new, old, pend>> /\ pc[t] = "check" /\ ~InsertTorrent(t)
      BY <1>14, ZenonT(30) DEF CalculateDiff, InsertTorrent
    <2>2. pc'[t] = "checking" \/ (pc'[t] = "diff" /\ Whole(state[t]) = {})
      BY <1>14 DEF CalculateDiff, TasksTypeOK
    <2>3. Whole(c)' = Whole(c)
      BY <1>5, <2>1, ZenonT(30)
    <2>4. WholeMinded(c)'
      BY <1>2, <2>2, <2>3 DEF Checking
    <2> QED
      BY <1>3, <1>4, <2>1, <2>2, <2>4, ZenonT(30) DEF Reporting
  <1>15. CASE CheckPiece(t)
    <2>1. pc[t] = "checking" /\ On(t, "process") /\ UNCHANGED <<state, old>> /\ ~InsertTorrent(t)
      BY <1>15, CheckEffect, Zenon DEF InsertTorrent
    <2>2. PICK d \in Requests : state[t] = d /\ (CheckFails(t, d) \/ \E p \in todo[t] : Checks(t, d, p))
      BY <1>15, CheckEffect, ZenonT(60)
    <2>3. CASE CheckFails(t, d)
      BY <1>2, <1>3, <1>4, <1>5, <2>1, <2>3 DEF CheckFails
    <2>4. ASSUME NEW p \in todo[t], Checks(t, d, p) PROVE WholeMinded(c)' /\ NewMinded(c)'
      <3>1. p \in Pieces /\ todo[t] = Whole(d)
        BY <2>1, <2>2, Zenon DEF TasksTypeOK, Locked
      <3>2. Whole(d)' = Whole(d) \ {p} /\ (c # d => Whole(c)' = Whole(c))
        BY <2>1, <2>4, <3>1, WholeChecked, Zenon
      <3>3. pc'[t] = "checking" \/ (pc'[t] = "diff" /\ Whole(d)' = {})
        BY <2>1, <2>4, <3>1, <3>2, Zenon DEF Checks, TasksTypeOK
      <3>4. WholeMinded(c)'
        <4>1. CASE c = d
          BY <1>2, <3>2, <3>3, <4>1, ZenonT(30) DEF Checking
        <4>2. CASE c # d
          BY <1>2, <2>2, <3>2, <4>2
        <4> QED
          BY <4>1, <4>2, ZenonT(30)
      <3>5. NewMinded(c)'
        <4>1. CASE c # d
          <5>1. new'[c] = new[c]
            BY <2>4, <4>1, Zenon DEF Checks, TasksTypeOK
          <5> QED
            BY <1>3, <1>4, <2>1, <2>2, <4>1, <5>1, Zenon
        <4>2. CASE c = d
          <5>1. /\ \A i \in 1 .. Len(new[c]) : new'[c][i] = new[c][i]
                /\ new'[c][Len(new[c]) + 1] = Verdict(p)
                /\ \A i \in 1 .. Len(new'[c]) : i = Len(new[c]) + 1 \/ i \in 1 .. Len(new[c])
            <6>1. new'[c] = Append(new[c], Verdict(p))
              BY <2>4, <4>2, ZenonT(30) DEF Checks, TasksTypeOK
            <6> QED
              BY <3>1, <6>1, NewAppended, Zenon
          <5>2. Verdict(p)[2] = p
            BY <3>1, SetTypes
          <5>3. Shared(c)
            BY <2>2, <4>2, Zenon DEF Shared
          <5>4. ASSUME NEW q, NEW u \in Requests, Minds(u, c, q, Reporting)
                PROVE  Minds(u, c, q, Reporting)'
            BY <3>3, <5>4, MindsStays, Zenon DEF Reporting
          <5>5. ASSUME NEW i \in 1 .. Len(new'[c])
                PROVE  \E u \in Requests : Minds(u, c, new[c][i][2], Reporting)'
            <6>1. CASE i = Len(new[c]) + 1
              <7>1. PICK u \in Requests : Minds(u, c, p, Checking)
                BY <1>1, <3>1, <4>2, ZenonT(30) DEF WholeMinded
              <7>2. Minds(u, c, p, Reporting)
                BY <7>1 DEF Minds, Checking, Reporting
              <7>3. Minds(u, c, p, Reporting)'
                BY <5>4, <7>2, ZenonT(60)
              <7> QED
                BY <5>1, <5>2, <6>1, <7>3, ZenonT(30) DEF Minds, On, PieceOf
            <6>2. CASE i # Len(new[c]) + 1
              <7>1. i \in 1 .. Len(new[c])
                BY <5>1, <6>2
              <7>2. PICK q : q = new[c][i][2]
                BY Zenon
              <7>3. PICK u \in Requests : Minds(u, c, q, Reporting)
                BY <1>1, <5>3, <7>1, <7>2, Zenon DEF NewMinded
              <7>4. Minds(u, c, q, Reporting)'
                BY <5>4, <7>3, ZenonT(60)
              <7> QED
                BY <5>1, <7>1, <7>2, <7>4, ZenonT(30) DEF Minds, On, PieceOf
            <6> QED
              BY <6>1, <6>2, ZenonT(30)
          <5> QED
            BY <5>5, Zenon DEF NewMinded, Minds, On, PieceOf
        <4> QED
          BY <4>1, <4>2, Zenon
      <3> QED
        BY <3>4, <3>5
    <2> QED
      BY <2>2, <2>3, <2>4, Zenon
  <1>16. CASE StartDiff(t)
    <2>1. UNCHANGED <<new, old, pend>> /\ pc[t] = "diff" /\ ~InsertTorrent(t)
      BY <1>16 DEF StartDiff, InsertTorrent
    <2>2. pc'[t] = "sending" \/ new[state[t]] = << >>
      BY <1>16, Zenon DEF StartDiff, TasksTypeOK
    <2> QED
      BY <1>2, <1>3, <1>4, <1>5, <2>1, <2>2, ZenonT(30) DEF Checking, Reporting
  <1>17. CASE SendDiff(t)
    <2>1. PICK d \in Requests : d = state[t] /\ On(t, "process")
      BY <1>17, ProcessAt, Zenon DEF SendDiff
    <2>2. pc[t] = "sending" /\ ~InsertTorrent(t) /\ pend' = pend /\ state' = state
      BY <1>17, Zenon DEF SendDiff, InsertTorrent
    <2>3. CASE SendState(t, d, FALSE) /\ UNCHANGED pc
      <3>1. PICK s \in Found : Reports(d, s, FALSE)
        BY <2>3, SendEffect, Zenon
      <3>2. c # d => new'[c] = new[c] /\ old'[c] = old[c]
        BY <3>1, ZenonT(30) DEF Reports, TasksTypeOK
      <3>3. old[c] \subseteq old'[c]
        BY <3>1 DEF Reports, TasksTypeOK
      <3>4. Whole(c)' \subseteq Whole(c)
        BY <2>2, <3>3, Zenon DEF Whole
      <3>5. WholeMinded(c)'
        BY <1>2, <2>2, <3>4, Zenon DEF Checking
      <3>6. CASE c # d
        BY <1>3, <1>4, <2>1, <2>2, <3>2, <3>5, <3>6, Zenon
      <3>7. CASE c = d
        <4>1. \A i \in 1 .. Len(new'[c]) : i + 1 \in 1 .. Len(new[c]) /\ new'[c][i] = new[c][i + 1]
          BY <3>1, <3>7, ReportEffect, Zenon
        <4>2. Shared(c)
          BY <2>1, <3>7, ZenonT(30) DEF Shared
        <4>3. ASSUME NEW i \in 1 .. Len(new'[c])
              PROVE  \E u \in Requests : Minds(u, c, new[c][i][2], Reporting)'
          <5>1. i + 1 \in 1 .. Len(new[c]) /\ new'[c][i] = new[c][i + 1]
            BY <4>1
          <5>2. PICK q : q = new[c][i + 1][2]
            BY ZenonT(30)
          <5>3. PICK u \in Requests : Minds(u, c, q, Reporting)
            BY <1>1, <4>2, <5>1, <5>2 DEF NewMinded
          <5>4. Minds(u, c, q, Reporting)'
            BY <2>2, <2>3, <5>3, MindsStays, Zenon DEF Reporting
          <5> QED
            BY <5>1, <5>2, <5>4 DEF Minds, On, PieceOf
        <4> QED
          BY <3>5, <4>3, Zenon DEF NewMinded
      <3> QED
        BY <3>6, <3>7
    <2>4. CASE new[d] = << >> /\ UNCHANGED <<new, old>>
      BY <1>2, <1>3, <1>4, <1>5, <2>1, <2>2, <2>4, Zenon DEF Checking
    <2> QED
      BY <1>17, <2>1, <2>3, <2>4, Zenon DEF SendDiff
  <1> QED
    BY <1>6, <1>7, <1>8, <1>10, <1>11, <1>12, <1>13, <1>14, <1>15, <1>16, <1>17, ZenonT(30) DEF RequestStep

-----------------------------------------------------------------------------
(* New requests *)

(* A new request disturbs neither the locks nor what is found or minded.    *)
LEMMA SubmitReports ==
    ASSUME TasksTypeOK, InPlace, ReportsInv, NEW t \in Requests, Submit(t)
    PROVE  ReportsInv'
  <1>1. PICK r \in Request : Submits(t, r)
    BY SubmitEffect
  <1>2. state[t] = None /\ new[t] = << >> /\ ~Handed(t)
    BY SubmitEffect
  <1>3. /\ pc'[t] \in {"size", "lookup", "remove"}
        /\ UNCHANGED <<torrents, file, disk, state, new, old, pend, failed>>
    BY <1>1, ZenonT(60) DEF Submits
  <1>4. AddFinds'
    <2>1. kept'[t] = GoodPieces(disk)
      BY <1>1 DEF Submits, TasksTypeOK
    <2>2. ASSUME NEW u \in Requests PROVE FindsAt(u)' /\ kept'[u] \subseteq GoodPieces(disk)
      <3>1. CASE u = t
        BY <1>3, <2>1, <3>1, Zenon DEF FindsAt
      <3>2. CASE u # t
        <4>1. pc'[u] = pc[u] /\ kept'[u] = kept[u] /\ (On(u, "add")' <=> On(u, "add"))
          BY <1>1, <3>2, SubmitFrame, ZenonT(60)
        <4>2. FindsAt(u) /\ kept[u] \subseteq GoodPieces(disk)
          BY DEF ReportsInv, AddFinds, FindsAt
        <4>3. UNCHANGED <<todo, new, old, failed>>
          BY <1>1 DEF Submits
        <4>4. \A p : FoundGood(u, p)' <=> FoundGood(u, p)
          BY <4>3, ZenonT(60) DEF FoundGood
        <4> QED
          BY <4>1, <4>2, <4>3, <4>4, ZenonT(60) DEF FindsAt
      <3> QED
        BY <3>1, <3>2, Zenon
    <2> QED
      BY <1>3, <2>2, ZenonT(30) DEF AddFinds, FindsAt
  <1>5. Minded'
    <2> SUFFICES ASSUME NEW c \in Requests PROVE WholeMinded(c)' /\ NewMinded(c)'
      BY Zenon DEF Minded, WholeMinded, NewMinded, Checking, Reporting
    <2>1. WholeMinded(c) /\ NewMinded(c) /\ c # None
      BY TasksAssumption, ZenonT(60) DEF ReportsInv, Minded, WholeMinded, NewMinded, Checking, Reporting
    <2>2. ASSUME NEW u \in Requests, NEW p, NEW places, Minds(u, c, p, places) PROVE Minds(u, c, p, places)'
      <3>1. u # t
        BY <1>2, <2>1, <2>2 DEF Minds
      <3> QED
        BY <1>1, <1>3, <2>2, <3>1, SubmitFrame, ZenonT(60) DEF Minds
    <2>3. Whole(c)' = Whole(c) /\ (Shared(c)' <=> Shared(c))
      BY <1>1, <1>3, SubmitFrame, Zenon DEF Shared
    <2>4. WholeMinded(c)'
      BY <2>1, <2>2, <2>3, ZenonT(30) DEF WholeMinded
    <2>5. ASSUME Shared(c), NEW i \in 1 .. Len(new[c])
          PROVE  \E u \in Requests : Minds(u, c, new[c][i][2], Reporting)'
      <3>1. PICK p : p = new[c][i][2]
        BY ZenonT(30)
      <3>2. PICK u \in Requests : Minds(u, c, p, Reporting)
        BY <2>1, <2>5, <3>1 DEF NewMinded
      <3>3. Minds(u, c, p, Reporting)'
        BY <2>2, <3>2, ZenonT(30)
      <3> QED
        BY <1>3, <3>1, <3>3 DEF Minds, On, PieceOf
    <2> QED
      BY <1>3, <2>3, <2>4, <2>5 DEF NewMinded
  <1>6. Locked'
    <2>1. pc'[t] \notin {"checking", "sending"} /\ UNCHANGED <<state, lock, todo, pend, old>>
      BY <1>1, Zenon DEF Submits
    <2>2. \A u \in Requests \ {t} : pc'[u] = pc[u]
      BY <1>1, SubmitFrame, Zenon
    <2> QED
      BY <2>1, <2>2 DEF ReportsInv, Locked, Whole
  <1> QED
    BY <1>4, <1>5, <1>6 DEF ReportsInv

-----------------------------------------------------------------------------
(* The theorems *)

(* The state in which the DiskManager is created satisfies the invariant.   *)
LEMMA ReportsInitially == TasksInit => ReportsInv
  <1> SUFFICES ASSUME TasksInit PROVE ReportsInv
    OBVIOUS
  <1>1. Locked
    BY ZenonT(30) DEF TasksInit, Locked
  <1>2. AddFinds
    BY DEF TasksInit, AddFinds
  <1>3. Minded
    <2>1. \A c \in Requests : Whole(c) = {}
      <3>1. \A c \in Requests : pend[c] = {}
        BY DEF TasksInit
      <3>2. \A p \in Pieces : ~(BlocksOf(p) \subseteq {})
        BY PieceBlocks
      <3> QED
        BY <3>1, <3>2 DEF Whole
    <2>2. \A c \in Requests : 1 .. Len(new[c]) = {}
      BY DEF TasksInit
    <2> QED
      BY <2>1, <2>2 DEF Minded
  <1> QED
    BY <1>1, <1>2, <1>3 DEF ReportsInv

(* Steps that leave the tasks alone preserve it.                            *)
LEMMA ReportsResting ==
    ASSUME ReportsInv, TasksRest
    PROVE  ReportsInv'
  <1> USE DEF TasksRest
  <1>1. Locked'
    BY Zenon DEF ReportsInv, Locked, Whole
  <1>2. AddFinds'
    BY ZenonT(60) DEF ReportsInv, AddFinds, FoundGood, On
  <1>3. Minded'
    <2>1. \A t, c, p, places : Minds(t, c, p, places)' <=> Minds(t, c, p, places)
      BY DEF Minds, On, PieceOf
    <2>2. \A c : Whole(c)' = Whole(c) /\ (Shared(c)' <=> Shared(c))
      BY ZenonT(60) DEF Whole, Shared
    <2> SUFFICES ASSUME NEW c \in Requests PROVE WholeMinded(c)' /\ NewMinded(c)'
      BY ZenonT(30) DEF Minded, WholeMinded, NewMinded, Checking, Reporting
    <2>3. WholeMinded(c) /\ NewMinded(c)
      BY DEF ReportsInv, Minded, WholeMinded, NewMinded, Checking, Reporting
    <2>4. WholeMinded(c)'
      BY <2>1, <2>2, <2>3, ZenonT(30) DEF WholeMinded
    <2>5. NewMinded(c)'
      BY <2>1, <2>2, <2>3 DEF NewMinded
    <2> QED
      BY <2>4, <2>5
  <1> QED
    BY <1>1, <1>2, <1>3 DEF ReportsInv

(* Every step preserves it.                                                 *)
THEOREM ReportsPreservation == TasksInv /\ ReportsInv /\ [TasksNext]_tasksVars => ReportsInv'
  <1> SUFFICES ASSUME TasksInv, ReportsInv, [TasksNext]_tasksVars PROVE ReportsInv'
    OBVIOUS
  <1>1. ASSUME NEW t \in Requests, Submit(t) PROVE ReportsInv'
    BY <1>1, SubmitReports DEF TasksInv
  <1>2. ASSUME NEW t \in Requests, RequestStep(t) PROVE ReportsInv'
    BY <1>2, LockedStep, FindsStep, MindedStep DEF TasksInv, ReportsInv
  <1> QED
    BY <1>1, <1>2, TasksSteps, ReportsResting

(* The invariant holds in every reachable state, whatever the requests.     *)
THEOREM ReportsInvariance == TasksSpec => [](TasksInv /\ ReportsInv)
  BY TasksInitially, ReportsInitially, TasksPreservation, ReportsPreservation, PTL DEF TasksSpec

(* An Add that is about to answer TorrentAdded has reported every piece     *)
(* that stayed good on disk since it was requested.                         *)
THEOREM GoodPiecesBeforeAdded == TasksSpec => []AddedAfterGoodPieces
  <1>1. ReportsInv => AddedAfterGoodPieces
    BY Zenon DEF ReportsInv, AddFinds, AddedAfterGoodPieces
  <1> QED
    BY <1>1, ReportsInvariance, PTL

(* When all requests for blocks of a piece have been processed without an   *)
(* error, the piece is neither whole and unchecked nor checked and          *)
(* unreported, however their tasks shared the checker.                      *)
THEOREM NoPieceIsForgotten == TasksSpec => []ProcessedIsReported
  <1>1. TasksInv /\ ReportsInv => ProcessedIsReported
    <2> SUFFICES ASSUME TasksInv, ReportsInv, NEW c \in Requests, NEW p \in Pieces,
                        NEW v \in Requests, On(v, "process"), state[v] = c, PieceOf(v) = p,
                        \A t \in Requests : On(t, "process") /\ state[t] = c /\ PieceOf(t) = p =>
                            pc[t] \in {"answer", "done"} /\ t \notin failed
                 PROVE  p \notin Whole(c) /\ \A i \in DOMAIN new[c] : new[c][i][2] # p
      BY DEF ProcessedIsReported
    <2>1. \A t \in Requests : ~Minds(t, c, p, {"check", "checking"})
                              /\ ~Minds(t, c, p, {"check", "checking", "diff", "sending"})
      BY DEF Minds
    <2>2. Shared(c)
      BY DEF Shared
    <2>3. DOMAIN new[c] = 1 .. Len(new[c])
      BY SMTT(40), Z3T(40) DEF TasksInv, TasksTypeOK
    <2>4. p \notin Whole(c)
      BY <2>1, ZenonT(30) DEF ReportsInv, Minded
    <2>5. \A i \in 1 .. Len(new[c]) : new[c][i][2] # p
      BY <2>1, <2>2 DEF ReportsInv, Minded
    <2> QED
      BY <2>3, <2>4, <2>5, ZenonT(30)
  <1> QED
    BY <1>1, ReportsInvariance, PTL

-----------------------------------------------------------------------------
(* Careful clients: what is reported good.                                  *)

(* The files have their size before anything is hashed or written.          *)
Sized ==
    /\ file # "sized" =>
          /\ \A b \in Blocks : disk[b] = "bad"
          /\ torrents = None
          /\ \A t \in Requests : state[t] = None /\ pc[t] \notin {"hash", "insert"}
                                 /\ ~(pc[t] = "diff" /\ On(t, "add"))

(* A checker that requests use.                                             *)
Current(c) == torrents = c \/ \E u \in Requests : On(u, "process") /\ TasksLive(u) /\ state[u] = c

(* An Add works alone.                                                      *)
AddsAlone ==
    \A t \in Requests : On(t, "add") /\ TasksLive(t) =>
        /\ \A u \in Requests \ {t} : TasksLive(u) => ~On(u, "add") /\ ~On(u, "process")
        /\ pc[t] = "allocate" => file = "absent"
        /\ pc[t] \in {"hash", "diff"} =>
              \A i \in 1 .. Len(new[t]) : new[t][i][1] = "good" => new[t][i][2] \in GoodPieces(disk)

(* Every block on its way was given once, and its piece is not reported     *)
(* good.                                                                    *)
GivenOnce ==
    /\ \A t \in Requests : Early(t) => req[t].block \in given /\ verdict[PieceOf(t)] # "good"
    /\ \A t, u \in Requests : Early(t) /\ Early(u) /\ t # u => req[t].block # req[u].block

(* The blocks of a piece are on their way, pending or checked, and while a  *)
(* piece is checked and not reported none of them is.                       *)
OneAtATime ==
    /\ \A c, d \in Requests : Current(c) /\ Current(d) => c = d
    /\ \A c \in Requests : Current(c) =>
          /\ pend[c] \subseteq given
          /\ \A t \in Requests : Early(t) => req[t].block \notin pend[c]
          /\ \A i \in 1 .. Len(new[c]) :
                /\ BlocksOf(new[c][i][2]) \subseteq given \ pend[c]
                /\ \A t \in Requests : Early(t) => PieceOf(t) # new[c][i][2]
                /\ \A j \in 1 .. Len(new[c]) : j # i => new[c][j][2] # new[c][i][2]
                /\ new[c][i][1] = "good" => new[c][i][2] \in GoodPieces(disk)

Careful == careful => AddsAlone /\ GivenOnce /\ OneAtATime /\ GoodIsGood

GoodInv == Sized /\ Careful

-----------------------------------------------------------------------------
(* The size of the files *)

(* Nothing is hashed or written before the files have their size.           *)
LEMMA SizedStep ==
    ASSUME TasksTypeOK, InPlace, Sized, NEW t \in Requests, RequestStep(t)
    PROVE  Sized'
  <1> USE DEF At, Goto, Fail, Moves
  <1>1. CASE Allocate(t)
    BY <1>1 DEF Allocate, Sized
  <1>2. ASSUME ~Allocate(t) PROVE file' = file
    <2>1. CASE Lookup(t) \/ Answer(t) \/ FileSize(t) \/ HashPiece(t) \/ SendAddedDiff(t) \/ InsertTorrent(t)
      BY <2>1, Zenon DEF Lookup, Answer, FileSize, HashPiece, SendAddedDiff, InsertTorrent, fileVars
    <2>2. CASE RemoveTorrent(t) \/ SyncFiles(t) \/ ReadBlock(t) \/ WritePiece(t) \/ AddPendingBlock(t)
      BY <2>2 DEF RemoveTorrent, SyncFiles, ReadBlock, WritePiece, AddPendingBlock, fileVars
    <2>3. CASE CalculateDiff(t) \/ CheckPiece(t) \/ StartDiff(t) \/ SendDiff(t)
      BY <2>3, Zenon DEF CalculateDiff, CheckPiece, StartDiff, SendDiff, fileVars
    <2> QED
      BY <1>2, <2>1, <2>2, <2>3 DEF RequestStep
  <1> SUFFICES ASSUME ~Allocate(t), file # "sized" PROVE Sized'
    BY <1>1, <1>2 DEF Sized
  <1>3. /\ \A b \in Blocks : disk[b] = "bad"
        /\ torrents = None
        /\ \A u \in Requests : state[u] = None /\ pc[u] \notin {"hash", "insert"}
                               /\ ~(pc[u] = "diff" /\ On(u, "add"))
    BY DEF Sized
  <1>4. \A u \in Requests \ {t} : pc'[u] = pc[u] /\ state'[u] = state[u] /\ (On(u, "add")' <=> On(u, "add"))
    BY StepFrame DEF On
  <1>5. ASSUME UNCHANGED <<disk>>, torrents' = None, state'[t] = None, pc'[t] \notin {"hash", "insert", "diff"}
        PROVE  Sized'
    BY <1>3, <1>4, <1>5 DEF Sized
  <1>6. CASE Lookup(t)
    <2>1. UNCHANGED <<disk, torrents>> /\ LookupFails(t)
      BY <1>3, <1>6, LookupEffect, TasksAssumption DEF filesView, LookupFinds
    <2> QED
      BY <1>3, <1>5, <2>1 DEF LookupFails, TasksTypeOK
  <1>7. CASE Answer(t) \/ FileSize(t) \/ RemoveTorrent(t) \/ SyncFiles(t) \/ ReadBlock(t)
    <2>1. UNCHANGED <<disk, state>> /\ torrents' = None
      BY <1>3, <1>7 DEF Answer, FileSize, RemoveTorrent, SyncFiles, ReadBlock, fileVars
    <2>2. pc'[t] \notin {"hash", "insert", "diff"}
      BY <1>7 DEF Answer, FileSize, RemoveTorrent, SyncFiles, ReadBlock, TasksTypeOK
    <2> QED
      BY <1>3, <1>5, <2>1, <2>2
  <1>8. CASE HashPiece(t) \/ SendAddedDiff(t) \/ InsertTorrent(t)
    BY <1>3, <1>8, Zenon DEF HashPiece, SendAddedDiff, InsertTorrent
  <1>9. CASE WritePiece(t) \/ AddPendingBlock(t) \/ CalculateDiff(t) \/ CheckPiece(t) \/ StartDiff(t) \/ SendDiff(t)
    <2>1. \/ pc[t] \in {"write", "pend", "check", "checking", "sending"}
          \/ pc[t] = "diff" /\ On(t, "process")
      BY <1>9, Zenon DEF WritePiece, AddPendingBlock, CalculateDiff, CheckPiece, StartDiff, SendDiff
    <2> QED
      BY <1>3, <2>1, ProcessAt, TasksAssumption
  <1> QED
    BY <1>6, <1>7, <1>8, <1>9 DEF RequestStep

-----------------------------------------------------------------------------
(* What a step does to the contents *)

Rests == UNCHANGED <<disk, new, pend, verdict, given>>
HashesOne(t, p) ==
    /\ On(t, "add") /\ pc[t] = "hash"
    /\ new' = [new EXCEPT ![t] = Append(@, Verdict(p))] /\ UNCHANGED <<disk, pend, verdict, given>>
SendsAdded(t, s) ==
    On(t, "add") /\ pc[t] = "diff" /\ Reports(t, s, TRUE) /\ UNCHANGED <<disk, pend>>
SendsProcessed(t, c, s) ==
    On(t, "process") /\ pc[t] = "sending" /\ state[t] = c /\ Reports(c, s, FALSE) /\ UNCHANGED <<disk, pend>>
Writes(t, x) ==
    /\ On(t, "process") /\ pc[t] = "write"
    /\ disk' = [disk EXCEPT ![req[t].block] = x] /\ UNCHANGED <<new, pend, verdict, given>>
Pends(t, c) ==
    /\ On(t, "process") /\ pc[t] = "pend" /\ state[t] = c /\ pc'[t] = "check"
    /\ pend' = [pend EXCEPT ![c] = @ \cup {req[t].block}] /\ UNCHANGED <<disk, new, verdict, given>>
ChecksOne(t, c, p) ==
    /\ On(t, "process") /\ pc[t] = "checking" /\ state[t] = c /\ p \in Whole(c)
    /\ new' = [new EXCEPT ![c] = Append(@, Verdict(p))]
    /\ pend' = [pend EXCEPT ![c] = @ \ BlocksOf(p)] /\ UNCHANGED <<disk, verdict, given>>

(* A step hashes, checks or reports a piece, writes a block or makes it     *)
(* pending, or changes none of the contents.                                *)
LEMMA ContentEffect ==
    ASSUME TasksTypeOK, InPlace, Locked, Sized, AddsAlone, NEW t \in Requests, RequestStep(t)
    PROVE  \/ Rests
           \/ \E p \in Pieces : HashesOne(t, p)
           \/ \E s \in Found : SendsAdded(t, s)
           \/ \E c \in Requests, s \in Found : SendsProcessed(t, c, s)
           \/ \E x \in {"good", "bad"} : Writes(t, x)
           \/ \E c \in Requests : Pends(t, c)
           \/ \E c \in Requests, p \in Pieces : ChecksOne(t, c, p)
  <1> USE DEF At, Goto, Fail, Moves
  <1>1. CASE Lookup(t) \/ Answer(t) \/ FileSize(t) \/ InsertTorrent(t) \/ RemoveTorrent(t)
    BY <1>1 DEF Lookup, Answer, FileSize, InsertTorrent, RemoveTorrent, Rests, fileVars, checkers, channel, reports
  <1>2. CASE SyncFiles(t) \/ ReadBlock(t) \/ CalculateDiff(t) \/ StartDiff(t)
    BY <1>2 DEF SyncFiles, ReadBlock, CalculateDiff, StartDiff, Rests, fileVars, checkers, channel, reports
  <1>3. CASE Allocate(t)
    <2>1. pc[t] = "allocate" /\ On(t, "add") /\ TasksLive(t)
      BY <1>3 DEF Allocate, InPlace, Placed, TasksLive
    <2>2. file = "absent"
      BY <2>1 DEF AddsAlone
    <2>3. disk[LastBlock] = "bad"
      BY <2>2, TasksAssumption DEF Sized
    <2>4. disk' = [disk EXCEPT ![LastBlock] = disk[LastBlock]]
      BY <1>3, <2>3, Zenon DEF Allocate
    <2>5. disk' = disk
      BY <2>4 DEF TasksTypeOK
    <2> QED
      BY <1>3, <2>5 DEF Allocate, Rests, checkers, channel, reports
  <1>4. CASE HashPiece(t)
    <2>1. /\ pc[t] = "hash" /\ On(t, "add") /\ UNCHANGED <<disk, pend, verdict, given>>
          /\ HashFails(t) \/ \E p \in todo[t] : Hashes(t, p)
      BY <1>4, HashEffect DEF InPlace, Placed, filesView, reportsView
    <2>2. CASE HashFails(t)
      BY <2>1, <2>2 DEF HashFails, Rests
    <2>3. ASSUME NEW p \in todo[t], Hashes(t, p) PROVE p \in Pieces /\ HashesOne(t, p)
      BY <2>1, <2>3 DEF Hashes, HashesOne, TasksTypeOK
    <2> QED
      BY <2>1, <2>2, <2>3
  <1>5. CASE SendAddedDiff(t)
    <2>1. pc[t] = "diff" /\ On(t, "add") /\ UNCHANGED <<disk, pend>>
      BY <1>5 DEF SendAddedDiff, fileVars
    <2>2. CASE SendState(t, t, TRUE)
      <3>1. PICK s \in Found : Reports(t, s, TRUE)
        BY <2>2, SendEffect, Zenon
      <3> QED
        BY <2>1, <3>1, Zenon DEF SendsAdded
    <2>3. CASE UNCHANGED <<new, old, channel>>
      BY <2>1, <2>3 DEF Rests, channel, reports
    <2> QED
      BY <1>5, <2>2, <2>3, Zenon DEF SendAddedDiff
  <1>6. CASE WritePiece(t)
    <2>1. pc[t] = "write" /\ UNCHANGED <<new, pend, verdict, given>>
      BY <1>6 DEF WritePiece, checkers, channel, reports
    <2>2. On(t, "process") /\ req[t].block \in Blocks /\ req[t].content \in {"good", "bad"}
      BY <2>1, ProcessAt, Processed
    <2>3. disk[req[t].block] \in {"good", "bad"}
      BY <2>2 DEF TasksTypeOK
    <2>4. \E x \in {"good", "bad"} : disk' = [disk EXCEPT ![req[t].block] = x]
      BY <1>6, <2>2, <2>3, ZenonT(30) DEF WritePiece
    <2> QED
      BY <2>1, <2>2, <2>4, Zenon DEF Writes
  <1>7. CASE AddPendingBlock(t)
    <2>1. pc[t] = "pend" /\ pc'[t] = "check" /\ UNCHANGED <<disk, new, verdict, given>>
      BY <1>7 DEF AddPendingBlock, fileVars, channel, reports, TasksTypeOK
    <2>2. PICK c \in Requests : On(t, "process") /\ state[t] = c
      BY <2>1, ProcessAt
    <2>3. pend' = [pend EXCEPT ![c] = @ \cup {req[t].block}]
      BY <1>7, <2>2 DEF AddPendingBlock
    <2>4. Pends(t, c)
      BY <2>1, <2>2, <2>3, ZenonT(30) DEF Pends
    <2> QED
      BY <2>1, <2>4
  <1>8. CASE CheckPiece(t)
    <2>1. pc[t] = "checking" /\ On(t, "process") /\ UNCHANGED <<disk, verdict, given>>
      BY <1>8, CheckEffect DEF filesView, reportsView
    <2>2. PICK c \in Requests : state[t] = c /\ (CheckFails(t, c) \/ \E p \in todo[t] : Checks(t, c, p))
      BY <1>8, CheckEffect
    <2>3. CASE CheckFails(t, c)
      BY <2>1, <2>3, Zenon DEF CheckFails, Rests
    <2>4. ASSUME NEW p \in todo[t], Checks(t, c, p) PROVE p \in Pieces /\ ChecksOne(t, c, p)
      <3>1. todo[t] = Whole(c) /\ p \in Pieces
        BY <2>1, <2>2, ZenonT(60) DEF Locked, TasksTypeOK
      <3> QED
        BY <2>1, <2>2, <2>4, <3>1 DEF Checks, ChecksOne
    <2> QED
      BY <2>1, <2>2, <2>3, <2>4
  <1>9. CASE SendDiff(t)
    <2>1. pc[t] = "sending" /\ UNCHANGED <<disk, pend>>
      BY <1>9 DEF SendDiff, fileVars
    <2>2. PICK c \in Requests : state[t] = c /\ On(t, "process")
      BY <2>1, ProcessAt
    <2>3. CASE SendState(t, c, FALSE)
      <3>1. PICK s \in Found : Reports(c, s, FALSE)
        BY <2>3, SendEffect, Zenon
      <3>2. SendsProcessed(t, c, s)
        BY <2>1, <2>2, <3>1, Zenon DEF SendsProcessed
      <3> QED
        BY <3>2
    <2>4. CASE UNCHANGED <<new, old, channel>>
      BY <2>1, <2>4 DEF Rests, channel, reports
    <2> QED
      BY <1>9, <2>2, <2>3, <2>4, Zenon DEF SendDiff
  <1> QED
    BY <1>1, <1>2, <1>3, <1>4, <1>5, <1>6, <1>7, <1>8, <1>9, ZenonT(30) DEF RequestStep

-----------------------------------------------------------------------------
(* Careful clients *)

(* Tasks end and blocks become pending, never the other way round, and a    *)
(* checker comes into use by its insertion only.                            *)
LEMMA FlowFrame ==
    ASSUME TasksTypeOK, InPlace, NEW t \in Requests, RequestStep(t)
    PROVE  /\ \A u \in Requests, k \in {"add", "process"} : On(u, k)' <=> On(u, k)
           /\ \A u \in Requests : TasksLive(u)' => TasksLive(u)
           /\ TasksLive(t)
           /\ \A u \in Requests : Early(u)' => Early(u)
           /\ \A c \in Requests : Current(c)' => Current(c) \/ (c = t /\ InsertTorrent(t))
  <1> USE DEF At, Goto, Fail, Moves
  <1>1. /\ req' = req /\ pc[t] \notin {"new", "done"}
        /\ \A u \in Requests \ {t} : pc'[u] = pc[u] /\ state'[u] = state[u]
    BY StepFrame
  <1>2. \A u \in Requests, k \in {"add", "process"} : On(u, k)' <=> On(u, k)
    BY <1>1 DEF On
  <1>3. TasksLive(t) /\ \A u \in Requests : TasksLive(u)' => TasksLive(u)
    BY <1>1 DEF TasksLive
  <1>4. Early(t)' => Early(t)
    <2>1. CASE Lookup(t) \/ Answer(t) \/ FileSize(t) \/ Allocate(t) \/ WritePiece(t) \/ AddPendingBlock(t)
      BY <1>2, <2>1 DEF Lookup, Answer, FileSize, Allocate, WritePiece, AddPendingBlock, Early, TasksTypeOK
    <2>2. CASE HashPiece(t) \/ SendAddedDiff(t) \/ InsertTorrent(t) \/ RemoveTorrent(t) \/ SyncFiles(t) \/ ReadBlock(t)
      BY <2>2, Zenon DEF HashPiece, SendAddedDiff, InsertTorrent, RemoveTorrent, SyncFiles, ReadBlock, Early, TasksTypeOK
    <2>3. CASE CalculateDiff(t) \/ CheckPiece(t) \/ StartDiff(t) \/ SendDiff(t)
      BY <2>3, Zenon DEF CalculateDiff, CheckPiece, StartDiff, SendDiff, Early, TasksTypeOK
    <2> QED
      BY <2>1, <2>2, <2>3 DEF RequestStep
  <1>5. \A u \in Requests : Early(u)' => Early(u)
    BY <1>1, <1>2, <1>4 DEF Early
  <1>6. ASSUME NEW c \in Requests, Current(c)' PROVE Current(c) \/ (c = t /\ InsertTorrent(t))
    <2>1. torrents' = torrents \/ torrents' = None \/ (torrents' = t /\ InsertTorrent(t))
      <3>1. CASE Lookup(t) \/ Answer(t) \/ FileSize(t) \/ Allocate(t) \/ WritePiece(t) \/ AddPendingBlock(t)
        BY <3>1, Zenon DEF Lookup, Answer, FileSize, Allocate, WritePiece, AddPendingBlock
      <3>2. CASE HashPiece(t) \/ SendAddedDiff(t) \/ InsertTorrent(t) \/ RemoveTorrent(t) \/ SyncFiles(t) \/ ReadBlock(t)
        BY <3>2, Zenon DEF HashPiece, SendAddedDiff, InsertTorrent, RemoveTorrent, SyncFiles, ReadBlock
      <3>3. CASE CalculateDiff(t) \/ CheckPiece(t) \/ StartDiff(t) \/ SendDiff(t)
        BY <3>3, Zenon DEF CalculateDiff, CheckPiece, StartDiff, SendDiff
      <3> QED
        BY <3>1, <3>2, <3>3 DEF RequestStep
    <2>2. state'[t] = state[t] \/ state'[t] = torrents
      <3>1. CASE Lookup(t)
        BY <3>1, Zenon DEF Lookup, TasksTypeOK
      <3>2. CASE ~Lookup(t)
        <4>1. CASE Answer(t) \/ FileSize(t) \/ Allocate(t) \/ WritePiece(t) \/ AddPendingBlock(t)
          BY <4>1, Zenon DEF Answer, FileSize, Allocate, WritePiece, AddPendingBlock
        <4>2. CASE HashPiece(t) \/ SendAddedDiff(t) \/ InsertTorrent(t) \/ RemoveTorrent(t) \/ SyncFiles(t) \/ ReadBlock(t)
          BY <4>2, Zenon DEF HashPiece, SendAddedDiff, InsertTorrent, RemoveTorrent, SyncFiles, ReadBlock
        <4>3. CASE CalculateDiff(t) \/ CheckPiece(t) \/ StartDiff(t) \/ SendDiff(t)
          BY <4>3, Zenon DEF CalculateDiff, CheckPiece, StartDiff, SendDiff
        <4> QED
          BY <3>2, <4>1, <4>2, <4>3, Zenon DEF RequestStep
      <3> QED
        BY <3>1, <3>2
    <2>3. CASE torrents' = c
      BY <2>1, <2>3, TasksAssumption DEF Current
    <2>4. ASSUME NEW u \in Requests, On(u, "process")', TasksLive(u)', state'[u] = c PROVE Current(c)
      BY <1>1, <1>2, <1>3, <2>2, <2>4 DEF Current
    <2> QED
      BY <1>6, <2>3, <2>4 DEF Current
  <1> QED
    BY <1>2, <1>3, <1>5, <1>6

(* A checker in use was handed over.                                        *)
LEMMA CurrentHanded ==
    ASSUME TasksTypeOK, InPlace, NEW c \in Requests, Current(c)
    PROVE  Handed(c)
  BY TasksAssumption DEF Current, InPlace, Placed

(* A live task that processes uses its checker.                             *)
LEMMA CurrentUse ==
    ASSUME NEW t \in Requests, NEW c \in Requests, On(t, "process"), TasksLive(t), state[t] = c
    PROVE  Current(c)
  BY DEF Current

(* Writing a block leaves the other pieces as good as they were.            *)
LEMMA WriteElsewhere ==
    ASSUME TasksTypeOK, NEW t \in Requests, NEW x, Writes(t, x),
           NEW p \in Pieces, p # PieceOf(t)
    PROVE  p \in GoodPieces(disk') <=> p \in GoodPieces(disk)
  <1>1. req[t].block \in BlocksOf(PieceOf(t)) /\ PieceOf(t) \in Pieces
    BY Processed DEF Writes
  <1>2. \A b \in BlocksOf(p) : b \in Blocks /\ b # req[t].block
    BY <1>1, PieceBlocks
  <1>3. \A b \in BlocksOf(p) : disk'[b] = disk[b]
    BY <1>2 DEF Writes, TasksTypeOK
  <1> QED
    BY <1>3 DEF GoodPieces

(* An Add keeps working alone, on files that change for nobody.             *)
LEMMA AloneStep ==
    ASSUME TasksTypeOK, InPlace, Locked, Sized, AddsAlone, NEW t \in Requests, RequestStep(t)
    PROVE  AddsAlone'
  <1> USE DEF At, Goto, Fail, Moves
  <1> DEFINE Sound(a) == \A i \in 1 .. Len(new[a]) : new[a][i][1] = "good" => new[a][i][2] \in GoodPieces(disk)
  <1> SUFFICES ASSUME NEW a \in Requests, On(a, "add")', TasksLive(a)'
               PROVE  /\ \A u \in Requests \ {a} : TasksLive(u)' => ~On(u, "add")' /\ ~On(u, "process")'
                      /\ pc'[a] = "allocate" => file' = "absent"
                      /\ pc'[a] \in {"hash", "diff"} => Sound(a)'
    BY DEF AddsAlone
  <1>1. On(a, "add") /\ TasksLive(a) /\ TasksLive(t) /\ (t = a => ~On(t, "process"))
    BY FlowFrame, ZenonT(30) DEF On
  <1>2. /\ \A u \in Requests \ {a} : TasksLive(u) => ~On(u, "add") /\ ~On(u, "process")
        /\ pc[a] = "allocate" => file = "absent"
        /\ pc[a] \in {"hash", "diff"} => Sound(a)
    BY <1>1, ZenonT(30) DEF AddsAlone
  <1>3. \A u \in Requests \ {a} : TasksLive(u)' => ~On(u, "add")' /\ ~On(u, "process")'
    BY <1>2, FlowFrame
  <1>4. t # a => ~On(t, "add") /\ ~On(t, "process") /\ pc'[a] = pc[a]
    BY <1>1, <1>2, StepFrame
  <1>5. pc'[a] = "allocate" => file' = "absent"
    <2>1. CASE t # a
      <3>1. pc[t] \notin {"size", "allocate", "hash", "insert", "write", "pend", "check", "checking", "diff", "sending"}
        BY <1>4, <2>1, Zenon DEF InPlace, Placed
      <3>2. Lookup(t) \/ Answer(t) \/ RemoveTorrent(t) \/ SyncFiles(t) \/ ReadBlock(t)
        BY <3>1, ZenonT(60) DEF RequestStep, FileSize, Allocate, HashPiece, SendAddedDiff, InsertTorrent, WritePiece,
                    AddPendingBlock, CalculateDiff, CheckPiece, StartDiff, SendDiff
      <3>3. file' = file
        BY <3>2, Zenon DEF Lookup, Answer, RemoveTorrent, SyncFiles, ReadBlock, fileVars
      <3> QED
        BY <1>2, <1>4, <2>1, <3>3, Zenon
    <2>2. CASE t = a
      <3>1. pc[t] \notin {"lookup", "remove", "sync", "read", "write", "pend", "check", "checking", "sending"}
        BY <1>1, <2>2, ZenonT(60) DEF InPlace, Placed, On
      <3>2. Answer(t) \/ FileSize(t) \/ Allocate(t) \/ HashPiece(t) \/ SendAddedDiff(t) \/ InsertTorrent(t)
        BY <1>1, <2>2, <3>1, ZenonT(60) DEF RequestStep, Lookup, RemoveTorrent, SyncFiles, ReadBlock, WritePiece,
                    AddPendingBlock, CalculateDiff, CheckPiece, StartDiff, SendDiff
      <3> QED
        BY <2>2, <3>2, Zenon DEF Answer, FileSize, Allocate, HashPiece, SendAddedDiff, InsertTorrent, fileVars, TasksTypeOK
    <2> QED
      BY <2>1, <2>2
  <1>6. ASSUME pc'[a] \in {"hash", "diff"} PROVE Sound(a)'
    <2>1. CASE Rests
      <3>1. CASE pc[a] \in {"hash", "diff"}
        BY <1>2, <2>1, <3>1 DEF Rests
      <3>2. CASE pc[a] \notin {"hash", "diff"}
        <4>1. t = a
          BY <1>4, <1>6, <3>2, Zenon
        <4>2. pc[t] \notin {"lookup", "remove", "sync", "read", "write", "pend", "check", "checking", "sending"}
          BY <1>1, <4>1, ZenonT(60) DEF InPlace, Placed, On
        <4>3. Answer(t) \/ FileSize(t) \/ Allocate(t) \/ InsertTorrent(t)
          BY <1>1, <3>2, <4>1, <4>2, Zenon DEF RequestStep, Lookup, RemoveTorrent, SyncFiles, ReadBlock, WritePiece,
                    AddPendingBlock, CalculateDiff, CheckPiece, StartDiff, SendDiff, HashPiece, SendAddedDiff
        <4>4. pc[t] \in {"size", "allocate"}
          BY <1>6, <4>1, <4>3, Zenon DEF Answer, FileSize, Allocate, InsertTorrent, TasksTypeOK
        <4>5. new[a] = << >>
          BY <4>1, <4>4, Zenon DEF InPlace, Placed
        <4>6. 1 .. Len(new'[a]) = {}
          <5>1. new'[a] = << >>
            BY <2>1, <4>5, Zenon DEF Rests
          <5> QED
            BY <5>1
        <4> QED
          BY <4>6
      <3> QED
        BY <3>1, <3>2
    <2>2. ASSUME NEW p \in Pieces, HashesOne(t, p) PROVE Sound(a)'
      <3>1. t = a /\ pc[a] = "hash" /\ disk' = disk
        BY <1>4, <2>2 DEF HashesOne
      <3>2. new'[a] = Append(new[a], Verdict(p))
        BY <2>2, <3>1, Zenon DEF HashesOne, TasksTypeOK
      <3>3. /\ \A i \in 1 .. Len(new[a]) : new'[a][i] = new[a][i]
            /\ new'[a][Len(new[a]) + 1] = Verdict(p)
            /\ \A i \in 1 .. Len(new'[a]) : i = Len(new[a]) + 1 \/ i \in 1 .. Len(new[a])
        BY <3>2, NewAppended
      <3>4. ASSUME NEW i \in 1 .. Len(new'[a]), new'[a][i][1] = "good" PROVE new'[a][i][2] \in GoodPieces(disk)
        <4>1. CASE i = Len(new[a]) + 1
          BY <3>3, <3>4, <4>1, SetTypes
        <4>2. CASE i \in 1 .. Len(new[a])
          BY <1>2, <3>1, <3>3, <3>4, <4>2, Zenon
        <4> QED
          BY <3>3, <4>1, <4>2, Zenon
      <3> QED
        BY <3>1, <3>4, ZenonT(30)
    <2>3. ASSUME NEW s \in Found, SendsAdded(t, s) PROVE Sound(a)'
      <3>1. t = a /\ pc[a] = "diff" /\ disk' = disk
        BY <1>4, <2>3, Zenon DEF SendsAdded
      <3>2. \A i \in 1 .. Len(new'[a]) : i + 1 \in 1 .. Len(new[a]) /\ new'[a][i] = new[a][i + 1]
        BY <2>3, <3>1, ReportEffect, Zenon DEF SendsAdded
      <3> QED
        BY <1>2, <3>1, <3>2, Zenon
    <2>4. ~On(t, "process")
      BY <1>1, <1>4
    <2> QED
      BY <2>1, <2>2, <2>3, <2>4, ContentEffect, Zenon DEF SendsProcessed, Writes, Pends, ChecksOne
  <1> QED
    BY <1>3, <1>5, <1>6, ZenonT(30)

(* While an Add is live nothing is processed.                               *)
LEMMA AddedAlone ==
    ASSUME AddsAlone, NEW t \in Requests, On(t, "add"), TasksLive(t)
    PROVE  \A u \in Requests : TasksLive(u) => ~On(u, "process")
  BY DEF AddsAlone, On

(* A task that has not reached the checker is live.                         *)
LEMMA EarlyLive ==
    ASSUME NEW u \in Requests, Early(u)
    PROVE  TasksLive(u) /\ On(u, "process")
  BY ZenonT(60) DEF Early, TasksLive

(* The blocks on their way stay given, and their pieces not reported good.  *)
LEMMA GivenStep ==
    ASSUME TasksTypeOK, InPlace, Locked, Sized, AddsAlone, GivenOnce, OneAtATime,
           NEW t \in Requests, RequestStep(t)
    PROVE  GivenOnce'
  <1>1. req' = req /\ \A u \in Requests : Early(u)' => Early(u)
    BY StepFrame, FlowFrame
  <1>2. \A t1, t2 \in Requests : Early(t1)' /\ Early(t2)' /\ t1 # t2 => req'[t1].block # req'[t2].block
    BY <1>1 DEF GivenOnce
  <1> SUFFICES ASSUME NEW u \in Requests, Early(u)
               PROVE  req[u].block \in given' /\ verdict'[PieceOf(u)] # "good"
    BY <1>1, <1>2, Zenon DEF GivenOnce, PieceOf
  <1>3. /\ req[u].block \in given /\ verdict[PieceOf(u)] # "good"
        /\ PieceOf(u) \in Pieces /\ req[u].block \in BlocksOf(PieceOf(u))
    BY EarlyLive, Processed DEF GivenOnce
  <1>4. CASE UNCHANGED <<verdict, given>>
    BY <1>3, <1>4
  <1>5. ASSUME NEW s \in Found, SendsAdded(t, s) PROVE FALSE
    <2>1. On(t, "add") /\ TasksLive(t)
      BY <1>5, FlowFrame DEF SendsAdded
    <2> QED
      BY <2>1, EarlyLive, AddedAlone
  <1>6. ASSUME NEW c \in Requests, NEW s \in Found, SendsProcessed(t, c, s)
        PROVE  req[u].block \in given' /\ verdict'[PieceOf(u)] # "good"
    <2>1. Current(c) /\ Reports(c, s, FALSE)
      BY <1>6, CurrentUse, FlowFrame, Zenon DEF SendsProcessed
    <2>2. 1 \in 1 .. Len(new[c]) /\ s = new[c][1] /\ s[2] \in Pieces
      BY <2>1, ReportEffect, Zenon
    <2>3. PieceOf(u) # s[2]
      BY <2>1, <2>2, ZenonT(60) DEF OneAtATime
    <2>4. verdict'[PieceOf(u)] = verdict[PieceOf(u)] /\ given \subseteq given' \cup BlocksOf(s[2])
      BY <1>3, <2>1, <2>3, ReportEffect, ZenonT(60)
    <2>5. req[u].block \notin BlocksOf(s[2])
      BY <1>3, <2>2, <2>3, PieceBlocks
    <2> QED
      BY <1>3, <2>4, <2>5, Zenon
  <1> QED
    BY <1>4, <1>5, <1>6, ContentEffect, ZenonT(30) DEF Rests, HashesOne, Writes, Pends, ChecksOne

(* What OneAtATime says of one checker in use.                              *)
Kept(c) == pend[c] \subseteq given /\ \A u \in Requests : Early(u) => req[u].block \notin pend[c]
Alone(c, i) ==
    /\ BlocksOf(new[c][i][2]) \subseteq given \ pend[c]
    /\ \A u \in Requests : Early(u) => PieceOf(u) # new[c][i][2]
    /\ \A j \in 1 .. Len(new[c]) : j # i => new[c][j][2] # new[c][i][2]
    /\ new[c][i][1] = "good" => new[c][i][2] \in GoodPieces(disk)

(* The blocks of a piece stay on their way, pending or checked.             *)
LEMMA OneStep ==
    ASSUME TasksTypeOK, InPlace, Locked, Sized, AddsAlone, GivenOnce, OneAtATime,
           NEW t \in Requests, RequestStep(t)
    PROVE  OneAtATime'
  <1> USE DEF At, Goto, Fail, Moves
  <1>1. /\ req' = req /\ \A u \in Requests : Early(u)' => Early(u)
        /\ \A u \in Requests : PieceOf(u)' = PieceOf(u)
        /\ TasksLive(t) /\ \A c \in Requests : Current(c)' => Current(c) \/ (c = t /\ InsertTorrent(t))
    BY StepFrame, FlowFrame DEF PieceOf
  <1>2. /\ \A c, d \in Requests : Current(c) /\ Current(d) => c = d
        /\ \A c \in Requests : Current(c) => Kept(c) /\ \A i \in 1 .. Len(new[c]) : Alone(c, i)
    BY DEF OneAtATime, Kept, Alone
  <1>3. CASE InsertTorrent(t)
    <2>1. pc[t] = "insert" /\ On(t, "add") /\ UNCHANGED <<disk, new, pend, verdict, given, state>>
      BY <1>3, Zenon DEF InsertTorrent, InPlace, Placed, fileVars, checkers, channel, reports
    <2>2. new[t] = << >> /\ pend[t] = {}
      BY <2>1 DEF InPlace, Placed, Handed
    <2>3. \A u \in Requests : TasksLive(u) => ~On(u, "process")
      BY <1>1, <2>1, AddedAlone
    <2>4. \A u \in Requests : ~Early(u)'
      BY <1>1, <2>3, EarlyLive, Zenon
    <2>5. \A c \in Requests : Current(c)' => torrents' = c
      BY <2>3, FlowFrame, Zenon DEF Current
    <2>6. torrents' = t \/ torrents' = torrents
      BY <1>3, ZenonT(60) DEF InsertTorrent
    <2>7. CASE torrents' = torrents
      <3>1. \A c \in Requests : Current(c)' => Current(c)
        BY <2>5, <2>7 DEF Current
      <3>2. \A c, d \in Requests : Current(c)' /\ Current(d)' => c = d
        BY <1>2, <3>1
      <3>3. ASSUME NEW c \in Requests, Current(c)'
            PROVE  Kept(c)' /\ \A i \in 1 .. Len(new'[c]) : Alone(c, i)'
        <4>1. Kept(c) /\ \A i \in 1 .. Len(new[c]) : Alone(c, i)
          BY <1>2, <3>1, <3>3, Zenon
        <4>2. Kept(c)'
          BY <2>1, <2>4, <4>1, Zenon DEF Kept
        <4>3. ASSUME NEW i \in 1 .. Len(new'[c]) PROVE Alone(c, i)'
          <5>1. Alone(c, i)
            BY <2>1, <4>1, Zenon
          <5> QED
            BY <2>1, <2>4, <5>1, Zenon DEF Alone
        <4> QED
          BY <4>2, <4>3, Zenon
      <3> QED
        BY <3>2, <3>3, Zenon DEF OneAtATime, Kept, Alone
    <2>8. CASE torrents' = t
      <3>1. \A c \in Requests : Current(c)' => c = t
        BY <2>5, <2>8
      <3>2. 1 .. Len(new'[t]) = {} /\ pend'[t] = {}
        BY <2>1, <2>2
      <3> QED
        BY <3>1, <3>2 DEF OneAtATime
    <2> QED
      BY <2>6, <2>7, <2>8, Zenon
  <1>4. CASE ~InsertTorrent(t)
    <2>1. \A c \in Requests : Current(c)' => Current(c)
      BY <1>1, <1>4, Zenon
    <2> SUFFICES ASSUME NEW c \in Requests, Current(c)
                 PROVE  Kept(c)' /\ \A i \in 1 .. Len(new'[c]) : Alone(c, i)'
      BY <1>2, <2>1, Zenon DEF OneAtATime, Kept, Alone
    <2>2. Kept(c) /\ (\A i \in 1 .. Len(new[c]) : Alone(c, i)) /\ Handed(c)
      BY <1>2, CurrentHanded
    <2>3. c = t => pc[t] \notin {"hash", "diff"}
      BY <2>2, ZenonT(30) DEF Handed
    <2>4. ASSUME NEW d \in Requests, On(t, "process"), state[t] = d PROVE d = c
      BY <1>1, <1>2, <2>4, CurrentUse
    <2>5. ASSUME given' = given, pend'[c] = pend[c], new'[c] = new[c], disk' = disk
          PROVE  Kept(c)' /\ \A i \in 1 .. Len(new'[c]) : Alone(c, i)'
      <3>1. Kept(c)'
        BY <1>1, <2>2, <2>5, Zenon DEF Kept
      <3>2. ASSUME NEW i \in 1 .. Len(new'[c]) PROVE Alone(c, i)'
        <4>1. Alone(c, i)
          BY <2>2, <2>5, Zenon
        <4> QED
          BY <1>1, <2>5, <4>1, Zenon DEF Alone
      <3> QED
        BY <3>1, <3>2, Zenon
    <2>6. CASE Rests
      BY <2>5, <2>6 DEF Rests
    <2>7. ASSUME NEW p \in Pieces, HashesOne(t, p)
          PROVE  Kept(c)' /\ \A i \in 1 .. Len(new'[c]) : Alone(c, i)'
      <3>1. c # t
        BY <2>3, <2>7 DEF HashesOne
      <3>2. new'[c] = new[c]
        BY <2>7, <3>1, Zenon DEF HashesOne, TasksTypeOK
      <3> QED
        BY <2>5, <2>7, <3>2 DEF HashesOne
    <2>8. ASSUME NEW s \in Found, SendsAdded(t, s)
          PROVE  Kept(c)' /\ \A i \in 1 .. Len(new'[c]) : Alone(c, i)'
      <3>1. c # t
        BY <2>3, <2>8 DEF SendsAdded
      <3>2. new'[c] = new[c] /\ given' = given
        BY <2>8, <3>1, ReportEffect, Zenon DEF SendsAdded
      <3> QED
        BY <2>5, <2>8, <3>2 DEF SendsAdded
    <2>9. ASSUME NEW d \in Requests, NEW s \in Found, SendsProcessed(t, d, s)
          PROVE  Kept(c)' /\ \A i \in 1 .. Len(new'[c]) : Alone(c, i)'
      <3>1. Reports(c, s, FALSE) /\ UNCHANGED <<disk, pend>>
        BY <2>4, <2>9, Zenon DEF SendsProcessed
      <3>2. /\ 1 \in 1 .. Len(new[c]) /\ s = new[c][1] /\ s[2] \in Pieces /\ Len(new[c]) \in Nat
            /\ \A i \in 1 .. Len(new'[c]) : i + 1 \in 1 .. Len(new[c]) /\ new'[c][i] = new[c][i + 1]
            /\ given' \subseteq given /\ given \subseteq given' \cup BlocksOf(s[2])
        BY <3>1, ReportEffect, Zenon
      <3>3. BlocksOf(s[2]) \cap pend[c] = {}
        BY <2>2, <3>2, Zenon DEF Alone
      <3>4. Kept(c)'
        BY <1>1, <2>2, <3>1, <3>2, <3>3, Zenon DEF Kept
      <3>5. ASSUME NEW i \in 1 .. Len(new'[c]) PROVE Alone(c, i)'
        <4>1. Alone(c, i + 1) /\ new'[c][i] = new[c][i + 1] /\ i + 1 \in 1 .. Len(new[c]) /\ i + 1 # 1
          <5>1. i \in 1 .. Len(new'[c]) /\ i + 1 # 1
            OBVIOUS
          <5> QED
            BY <2>2, <3>2, <5>1, Zenon
        <4>2. PICK q : q = new[c][i + 1][2]
          BY ZenonT(30)
        <4>3. q \in Pieces /\ q # s[2]
          <5>1. new[c][i + 1] \in Found
            <6>1. new[c] \in Seq(Found)
              BY ZenonT(60) DEF TasksTypeOK
            <6> QED
              BY <4>1, <6>1
          <5> QED
            BY <3>2, <4>1, <4>2, <5>1 DEF Alone, Found
        <4>4. BlocksOf(q) \subseteq given' \ pend'[c]
          BY <3>1, <3>2, <4>1, <4>2, <4>3, PieceBlocks DEF Alone
        <4>5. \A j \in 1 .. Len(new'[c]) : j # i => new'[c][j][2] # q
          <5> SUFFICES ASSUME NEW j \in 1 .. Len(new'[c]), j # i PROVE new'[c][j][2] # q
            BY ZenonT(60)
          <5>1. j + 1 \in 1 .. Len(new[c]) /\ new'[c][j] = new[c][j + 1] /\ j + 1 # i + 1
            <6>1. j + 1 # i + 1
              OBVIOUS
            <6> QED
              BY <3>2, <6>1
          <5> QED
            BY <4>1, <4>2, <5>1, Zenon DEF Alone
        <4> QED
          BY <1>1, <3>1, <4>1, <4>2, <4>4, <4>5, Zenon DEF Alone
      <3> QED
        BY <3>4, <3>5
    <2>10. ASSUME NEW x \in {"good", "bad"}, Writes(t, x)
           PROVE  Kept(c)' /\ \A i \in 1 .. Len(new'[c]) : Alone(c, i)'
      <3>1. Early(t) /\ UNCHANGED <<new, pend, given>>
        BY <2>10, Zenon DEF Writes, Early
      <3>2. Kept(c)'
        BY <1>1, <2>2, <3>1, Zenon DEF Kept
      <3>3. ASSUME NEW i \in 1 .. Len(new'[c]) PROVE Alone(c, i)'
        <4>1. Alone(c, i)
          BY <2>2, <3>1, ZenonT(30)
        <4>2. PICK q \in Pieces : q = new[c][i][2]
          <5>1. new[c][i] \in Found
            BY <3>1 DEF TasksTypeOK
          <5> QED
            BY <5>1 DEF Found
        <4>3. q # PieceOf(t)
          BY <3>1, <4>1, <4>2, Zenon DEF Alone
        <4>4. q \in GoodPieces(disk') <=> q \in GoodPieces(disk)
          BY <2>10, <4>3, WriteElsewhere
        <4> QED
          BY <1>1, <3>1, <4>1, <4>2, <4>4, Zenon DEF Alone
      <3> QED
        BY <3>2, <3>3, Zenon
    <2>11. ASSUME NEW d \in Requests, Pends(t, d)
           PROVE  Kept(c)' /\ \A i \in 1 .. Len(new'[c]) : Alone(c, i)'
      <3>1. Early(t) /\ ~Early(t)' /\ UNCHANGED <<new, disk, given>>
        BY <2>11, Zenon DEF Pends, Early
      <3>2. pend'[c] = pend[c] \cup {req[t].block}
        BY <2>4, <2>11, Zenon DEF Pends, TasksTypeOK
      <3>3. /\ req[t].block \in given /\ PieceOf(t) \in Pieces /\ req[t].block \in BlocksOf(PieceOf(t))
            /\ \A u \in Requests \ {t} : Early(u) => req[u].block # req[t].block
        BY <3>1, EarlyLive, Processed, Zenon DEF GivenOnce
      <3>4. Kept(c)'
        BY <1>1, <2>2, <3>1, <3>2, <3>3, Zenon DEF Kept
      <3>5. ASSUME NEW i \in 1 .. Len(new'[c]) PROVE Alone(c, i)'
        <4>1. Alone(c, i)
          BY <2>2, <3>1, ZenonT(30)
        <4>2. PICK q \in Pieces : q = new[c][i][2]
          <5>1. new[c][i] \in Found
            BY <3>1, SMTT(40), Z3T(40) DEF TasksTypeOK
          <5> QED
            BY <5>1 DEF Found
        <4>3. req[t].block \notin BlocksOf(q)
          BY <3>1, <3>3, <4>1, <4>2, PieceBlocks, ZenonT(30) DEF Alone
        <4> QED
          BY <1>1, <3>1, <3>2, <4>1, <4>2, <4>3, ZenonT(60) DEF Alone
      <3> QED
        BY <3>4, <3>5, ZenonT(30)
    <2>12. ASSUME NEW d \in Requests, NEW p \in Pieces, ChecksOne(t, d, p)
           PROVE  Kept(c)' /\ \A i \in 1 .. Len(new'[c]) : Alone(c, i)'
      <3>1. /\ p \in Whole(c) /\ new'[c] = Append(new[c], Verdict(p)) /\ pend'[c] = pend[c] \ BlocksOf(p)
            /\ UNCHANGED <<disk, given>>
        BY <2>4, <2>12, Zenon DEF ChecksOne, TasksTypeOK
      <3>2. BlocksOf(p) \subseteq pend[c] /\ BlocksOf(p) # {}
        BY <3>1, PieceBlocks, Zenon DEF Whole
      <3>3. /\ \A i \in 1 .. Len(new[c]) : new'[c][i] = new[c][i]
            /\ new'[c][Len(new[c]) + 1] = Verdict(p)
            /\ \A i \in 1 .. Len(new'[c]) : i = Len(new[c]) + 1 \/ i \in 1 .. Len(new[c])
        BY <3>1, NewAppended, Zenon
      <3>4. Kept(c)'
        BY <1>1, <2>2, <3>1, Zenon DEF Kept
      <3>5. \A i \in 1 .. Len(new[c]) : new[c][i][2] # p
        BY <2>2, <3>2, Zenon DEF Alone
      <3>6. \A u \in Requests : Early(u) => PieceOf(u) # p
        BY <2>2, <3>2, EarlyLive, Processed, Zenon DEF Kept
      <3>7. /\ Verdict(p)[2] = p /\ (Verdict(p)[1] = "good" <=> p \in GoodPieces(disk))
        BY SetTypes
      <3>8. ASSUME NEW i \in 1 .. Len(new'[c]) PROVE Alone(c, i)'
        <4>1. CASE i = Len(new[c]) + 1
          <5>1. new'[c][i] = Verdict(p) /\ new'[c][i][2] = p
            BY <3>3, <3>7, <4>1, ZenonT(30)
          <5>2. BlocksOf(p) \subseteq given' \ pend'[c]
            BY <2>2, <3>1, <3>2 DEF Kept
          <5>3. \A j \in 1 .. Len(new'[c]) : j # i => new'[c][j][2] # p
            BY <3>3, <3>5, <4>1, Zenon
          <5> QED
            BY <1>1, <3>1, <3>6, <3>7, <5>1, <5>2, <5>3, ZenonT(60) DEF Alone
        <4>2. CASE i \in 1 .. Len(new[c])
          <5>1. Alone(c, i) /\ new'[c][i] = new[c][i]
            BY <2>2, <3>3, <4>2, Zenon
          <5>2. \A j \in 1 .. Len(new'[c]) : j # i => new'[c][j][2] # new[c][i][2]
            <6> SUFFICES ASSUME NEW j \in 1 .. Len(new'[c]), j # i PROVE new'[c][j][2] # new[c][i][2]
              BY Zenon
            <6>1. CASE j \in 1 .. Len(new[c])
              BY <3>3, <5>1, <6>1, Zenon DEF Alone
            <6>2. CASE j = Len(new[c]) + 1
              BY <3>3, <3>5, <3>7, <4>2, <6>2, ZenonT(60)
            <6> QED
              BY <3>3, <6>1, <6>2, Zenon
          <5>3. BlocksOf(new[c][i][2]) \subseteq given' \ pend'[c]
            BY <3>1, <5>1, ZenonT(30) DEF Alone
          <5> QED
            BY <1>1, <3>1, <5>1, <5>2, <5>3, Zenon DEF Alone
        <4> QED
          BY <3>3, <4>1, <4>2, Zenon
      <3> QED
        BY <3>4, <3>8
    <2> QED
      BY <2>6, <2>7, <2>8, <2>9, <2>10, <2>11, <2>12, ContentEffect, ZenonT(30)
  <1> QED
    BY <1>3, <1>4

ReportedIsGood == \A p \in Pieces : verdict[p] = "good" => p \in GoodPieces(disk)

(* A piece that is reported good is good and stays so.                      *)
LEMMA GoodStep ==
    ASSUME TasksTypeOK, InPlace, Locked, Sized, AddsAlone, GivenOnce, OneAtATime, ReportedIsGood,
           NEW t \in Requests, RequestStep(t)
    PROVE  ReportedIsGood'
  <1>1. CASE UNCHANGED <<verdict, disk>>
    BY <1>1, ZenonT(30) DEF ReportedIsGood
  <1>2. ASSUME NEW s \in Found, SendsAdded(t, s) PROVE ReportedIsGood'
    <2>1. On(t, "add") /\ TasksLive(t) /\ pc[t] = "diff" /\ disk' = disk
      BY <1>2, FlowFrame, Zenon DEF SendsAdded
    <2>2. /\ 1 \in 1 .. Len(new[t]) /\ s = new[t][1]
          /\ \A p \in Pieces : verdict'[p] = verdict[p] \/ (p = s[2] /\ verdict'[p] = s[1])
      BY <1>2, ReportEffect, Zenon DEF SendsAdded
    <2>3. s[1] = "good" => s[2] \in GoodPieces(disk)
      BY <2>1, <2>2, Zenon DEF AddsAlone
    <2> QED
      BY <2>1, <2>2, <2>3 DEF ReportedIsGood
  <1>3. ASSUME NEW c \in Requests, NEW s \in Found, SendsProcessed(t, c, s) PROVE ReportedIsGood'
    <2>1. Current(c) /\ Reports(c, s, FALSE) /\ disk' = disk
      BY <1>3, CurrentUse, FlowFrame, ZenonT(60) DEF SendsProcessed
    <2>2. /\ 1 \in 1 .. Len(new[c]) /\ s = new[c][1]
          /\ \A p \in Pieces : verdict'[p] = verdict[p] \/ (p = s[2] /\ verdict'[p] = s[1])
      BY <2>1, ReportEffect, ZenonT(60)
    <2>3. s[1] = "good" => s[2] \in GoodPieces(disk)
      BY <2>1, <2>2, Zenon DEF OneAtATime
    <2> QED
      BY <2>1, <2>2, <2>3, Zenon DEF ReportedIsGood
  <1>4. ASSUME NEW x \in {"good", "bad"}, Writes(t, x) PROVE ReportedIsGood'
    <2>1. Early(t) /\ verdict' = verdict
      BY <1>4 DEF Writes, Early
    <2>2. verdict[PieceOf(t)] # "good"
      BY <2>1 DEF GivenOnce
    <2>3. \A p \in Pieces : p # PieceOf(t) => (p \in GoodPieces(disk') <=> p \in GoodPieces(disk))
      BY <1>4, WriteElsewhere
    <2>4. \A p \in Pieces : verdict'[p] = "good" => p \in GoodPieces(disk')
      BY <2>1, <2>2, <2>3 DEF ReportedIsGood
    <2> QED
      BY <2>4 DEF ReportedIsGood
  <1> QED
    BY <1>1, <1>2, <1>3, <1>4, ContentEffect, ZenonT(30) DEF Rests, HashesOne, Pends, ChecksOne

-----------------------------------------------------------------------------
(* New requests *)

(* A new request hashes and writes nothing.                                 *)
LEMMA SubmitSized ==
    ASSUME TasksTypeOK, InPlace, Sized, NEW t \in Requests, Submit(t)
    PROVE  Sized'
  <1>1. PICK r \in Request : Submits(t, r)
    BY SubmitEffect
  <1>2. state[t] = None /\ new[t] = << >> /\ ~Handed(t)
    BY SubmitEffect
  <1>3. /\ pc'[t] \in {"size", "lookup", "remove"}
        /\ UNCHANGED <<torrents, file, disk, state, new, old, pend, failed>>
    BY <1>1, Zenon DEF Submits
  <1>4. Sized'
    <2>1. \A u \in Requests \ {t} : pc'[u] = pc[u] /\ (On(u, "add")' <=> On(u, "add"))
      BY <1>1, SubmitFrame, Zenon
    <2> QED
      BY <1>3, <2>1, Zenon DEF Sized
  <1> QED
    BY <1>4

(* A permitted request finds the torrent as a careful client left it.       *)
LEMMA SubmitCareful ==
    ASSUME TasksTypeOK, InPlace, Careful, NEW t \in Requests, Submit(t)
    PROVE  Careful'
  <1>1. PICK r \in Request : Submits(t, r)
    BY SubmitEffect
  <1> SUFFICES ASSUME careful' PROVE AddsAlone' /\ GivenOnce' /\ OneAtATime' /\ ReportedIsGood'
    BY DEF Careful, GoodIsGood, ReportedIsGood
  <1>2. AddsAlone /\ GivenOnce /\ OneAtATime /\ ReportedIsGood /\ Permitted(r)
    BY <1>1, Zenon DEF Submits, Careful, GoodIsGood, ReportedIsGood
  <1>3. state[t] = None /\ new[t] = << >> /\ pend[t] = {} /\ pc[t] = "new"
    BY <1>1, SubmitEffect, Zenon DEF Submits
  <1>4. UNCHANGED <<torrents, file, disk, state, new, pend, verdict>> /\ given \subseteq given'
    BY <1>1, Zenon DEF Submits
  <1>5. /\ req'[t] = r /\ \A k : On(t, k)' <=> r.kind = k
        /\ \A u \in Requests \ {t} :
              /\ pc'[u] = pc[u] /\ req'[u] = req[u]
              /\ \A k : On(u, k)' <=> On(u, k)
              /\ PieceOf(u)' = PieceOf(u)
              /\ TasksLive(u)' <=> TasksLive(u)
              /\ Early(u)' <=> Early(u)
    BY <1>1, SubmitFrame, Zenon
  <1>6. /\ r.kind = "process" => r.block \notin given /\ verdict[r.block[1]] # "good"
                                 /\ \A u \in Requests : TasksLive(u) => ~On(u, "add")
        /\ r.kind \in {"add", "remove"} => \A u \in Requests : ~TasksLive(u)
    BY <1>2, Zenon DEF Permitted
  <1>7. r.kind = "process" => r.block \in Blocks /\ r.block \in given' /\ r.block \in BlocksOf(r.block[1])
    BY <1>1, Fields, PieceBlocks, Zenon DEF Submits
  <1>8. AddsAlone'
    <2> SUFFICES ASSUME NEW a \in Requests, On(a, "add")', TasksLive(a)'
                 PROVE  /\ \A u \in Requests \ {a} : TasksLive(u)' => ~On(u, "add")' /\ ~On(u, "process")'
                        /\ pc'[a] = "allocate" => file' = "absent"
                        /\ pc'[a] \in {"hash", "diff"} =>
                              \A i \in 1 .. Len(new'[a]) : new'[a][i][1] = "good" => new'[a][i][2] \in GoodPieces(disk')
      BY Zenon DEF AddsAlone
    <2>1. CASE a = t
      <3>1. \A u \in Requests \ {a} : ~TasksLive(u)'
        BY <1>5, <1>6, <2>1, Zenon
      <3>2. pc'[a] \notin {"allocate", "hash", "diff"}
        BY <1>1, <2>1, Zenon DEF Submits
      <3> QED
        BY <3>1, <3>2, Zenon
    <2>2. CASE a # t
      <3>1. On(a, "add") /\ TasksLive(a) /\ pc'[a] = pc[a]
        BY <1>5, <2>2, Zenon
      <3>2. ~On(t, "add")' /\ ~On(t, "process")'
        BY <1>5, <1>6, <3>1, Zenon
      <3>3. \A u \in Requests \ {a} : TasksLive(u)' => ~On(u, "add")' /\ ~On(u, "process")'
        BY <1>2, <1>5, <3>1, <3>2, Zenon DEF AddsAlone
      <3> QED
        BY <1>2, <1>4, <3>1, <3>3, Zenon DEF AddsAlone
    <2> QED
      BY <2>1, <2>2, Zenon
  <1>9. Early(t)' => r.kind = "process"
    BY <1>5, Zenon DEF Early
  <1>10. GivenOnce'
    <2>1. ASSUME NEW u \in Requests, Early(u)' PROVE req'[u].block \in given' /\ verdict'[req'[u].block[1]] # "good"
      <3>1. CASE u = t
        BY <1>4, <1>5, <1>6, <1>7, <1>9, <2>1, <3>1, Zenon
      <3>2. CASE u # t
        BY <1>2, <1>4, <1>5, <2>1, <3>2, Zenon DEF GivenOnce, PieceOf
      <3> QED
        BY <3>1, <3>2, Zenon
    <2>2. ASSUME NEW u \in Requests \ {t}, Early(t)', Early(u)' PROVE req'[u].block # req'[t].block
      <3>1. req'[u] = req[u] /\ req'[t] = r /\ Early(u)
        BY <1>5, <2>2, Zenon
      <3>2. req[u].block \in given /\ r.block \notin given
        BY <1>2, <1>6, <1>9, <2>2, <3>1, Zenon DEF GivenOnce
      <3> QED
        BY <3>1, <3>2, Zenon
    <2>3. ASSUME NEW u \in Requests, NEW v \in Requests, Early(u)', Early(v)', u # v
          PROVE  req'[u].block # req'[v].block
      <3>1. CASE u = t \/ v = t
        BY <2>2, <2>3, <3>1, Zenon
      <3>2. CASE u # t /\ v # t
        <4>1. req'[u] = req[u] /\ req'[v] = req[v] /\ Early(u) /\ Early(v)
          BY <1>5, <2>3, <3>2, Zenon
        <4> QED
          BY <1>2, <2>3, <4>1, Zenon DEF GivenOnce
      <3> QED
        BY <3>1, <3>2
    <2> QED
      BY <2>1, <2>3, Zenon DEF GivenOnce, PieceOf
  <1>11. OneAtATime'
    <2>1. ASSUME NEW c \in Requests, Current(c)' PROVE Current(c)
      <3>1. c # None
        BY TasksAssumption
      <3> QED
        BY <1>3, <1>4, <1>5, <2>1, <3>1, Zenon DEF Current
    <2>2. ASSUME NEW c \in Requests, Current(c)
          PROVE  Kept(c)' /\ \A i \in 1 .. Len(new'[c]) : Alone(c, i)'
      <3>1. Kept(c) /\ \A i \in 1 .. Len(new[c]) : Alone(c, i)
        BY <1>2, <2>2, Zenon DEF OneAtATime, Kept, Alone
      <3>2. Early(t)' => r.block \notin pend[c]
        BY <1>6, <1>9, <3>1, Zenon DEF Kept
      <3>3. Kept(c)'
        BY <1>4, <1>5, <3>1, <3>2, Zenon DEF Kept
      <3>4. ASSUME NEW i \in 1 .. Len(new'[c]) PROVE Alone(c, i)'
        <4>1. Alone(c, i)
          BY <1>4, <3>1, Zenon
        <4>2. Early(t)' => r.block[1] # new[c][i][2]
          BY <1>6, <1>7, <1>9, <4>1, Zenon DEF Alone
        <4>3. \A u \in Requests : Early(u)' => PieceOf(u)' # new[c][i][2]
          BY <1>5, <4>1, <4>2, Zenon DEF Alone, PieceOf
        <4> QED
          BY <1>4, <4>1, <4>3, Zenon DEF Alone
      <3> QED
        BY <3>3, <3>4, Zenon
    <2>3. \A c, d \in Requests : Current(c)' /\ Current(d)' => c = d
      BY <1>2, <2>1, Zenon DEF OneAtATime
    <2> QED
      BY <2>1, <2>2, <2>3, Zenon DEF OneAtATime, Kept, Alone
  <1>12. ReportedIsGood'
    BY <1>2, <1>4 DEF ReportedIsGood
  <1> QED
    BY <1>8, <1>10, <1>11, <1>12, ZenonT(30)

-----------------------------------------------------------------------------
(* The theorems *)

(* The state in which the DiskManager is created satisfies the invariant.   *)
LEMMA GoodInitially == TasksInit => GoodInv
  <1> SUFFICES ASSUME TasksInit PROVE GoodInv
    OBVIOUS
  <1>1. Sized
    BY Zenon DEF TasksInit, Sized
  <1>2. Careful
    <2>1. \A t \in Requests : ~TasksLive(t) /\ ~Early(t)
      BY DEF TasksInit, TasksLive, Early
    <2>2. \A c \in Requests : ~Current(c)
      BY <2>1, TasksAssumption DEF TasksInit, Current
    <2>3. ReportedIsGood
      BY DEF TasksInit, ReportedIsGood
    <2> QED
      BY <2>1, <2>2, <2>3, Zenon DEF Careful, AddsAlone, GivenOnce, OneAtATime, GoodIsGood, ReportedIsGood
  <1> QED
    BY <1>1, <1>2 DEF GoodInv

(* Steps that leave the tasks alone preserve it.                            *)
LEMMA GoodResting ==
    ASSUME GoodInv, TasksRest
    PROVE  GoodInv'
  <1> USE DEF TasksRest
  <1>1. Sized'
    BY DEF GoodInv, Sized, On
  <1>2. Careful'
    <2>1. AddsAlone => AddsAlone'
      BY Zenon DEF AddsAlone, TasksLive, On
    <2>2. GivenOnce => GivenOnce'
      BY ZenonT(60) DEF GivenOnce, Early, On, PieceOf
    <2>3. OneAtATime => OneAtATime'
      <3>1. \A c : Current(c)' <=> Current(c)
        BY DEF Current, TasksLive, On
      <3>2. \A t : (Early(t)' <=> Early(t)) /\ PieceOf(t)' = PieceOf(t)
        BY DEF Early, On, PieceOf
      <3> QED
        BY <3>1, <3>2, ZenonT(60) DEF OneAtATime
    <2>4. GoodIsGood => GoodIsGood'
      BY DEF GoodIsGood
    <2> QED
      BY <2>1, <2>2, <2>3, <2>4, Zenon DEF GoodInv, Careful
  <1> QED
    BY <1>1, <1>2 DEF GoodInv

(* Only a client can cease to be careful.                                   *)
LEMMA CarefulStays ==
    ASSUME NEW t \in Requests, RequestStep(t)
    PROVE  careful' = careful
  <1>1. CASE Lookup(t) \/ Answer(t) \/ FileSize(t) \/ Allocate(t) \/ HashPiece(t) \/ InsertTorrent(t)
    BY <1>1, Zenon DEF Lookup, Answer, FileSize, Allocate, HashPiece, InsertTorrent, channel, reports
  <1>2. CASE RemoveTorrent(t) \/ SyncFiles(t) \/ ReadBlock(t) \/ WritePiece(t) \/ AddPendingBlock(t)
    BY <1>2, Zenon DEF RemoveTorrent, SyncFiles, ReadBlock, WritePiece, AddPendingBlock, channel, reports
  <1>3. CASE CalculateDiff(t) \/ CheckPiece(t) \/ StartDiff(t)
    BY <1>3, Zenon DEF CalculateDiff, CheckPiece, StartDiff, channel, reports
  <1>4. CASE SendAddedDiff(t) \/ SendDiff(t)
    BY <1>4, Zenon DEF SendAddedDiff, SendDiff, SendState, channel, reports
  <1> QED
    BY <1>1, <1>2, <1>3, <1>4 DEF RequestStep

(* Every step preserves the invariant.                                      *)
THEOREM GoodPreservation ==
    TasksInv /\ ReportsInv /\ GoodInv /\ [TasksNext]_tasksVars => GoodInv'
  <1> SUFFICES ASSUME TasksInv, ReportsInv, GoodInv, [TasksNext]_tasksVars PROVE GoodInv'
    OBVIOUS
  <1>1. ASSUME NEW t \in Requests, Submit(t) PROVE GoodInv'
    BY <1>1, SubmitSized, SubmitCareful DEF TasksInv, GoodInv
  <1>2. ASSUME NEW t \in Requests, RequestStep(t) PROVE GoodInv'
    <2>1. Sized'
      BY <1>2, SizedStep DEF TasksInv, GoodInv
    <2>2. Careful'
      <3>1. CASE careful
        <4>1. AddsAlone /\ GivenOnce /\ OneAtATime /\ ReportedIsGood
          BY <3>1 DEF GoodInv, Careful, GoodIsGood, ReportedIsGood
        <4>2. AddsAlone' /\ GivenOnce' /\ OneAtATime' /\ ReportedIsGood'
          BY <1>2, <4>1, AloneStep, GivenStep, OneStep, GoodStep DEF TasksInv, ReportsInv, GoodInv
        <4> QED
          BY <4>2 DEF Careful, GoodIsGood, ReportedIsGood
      <3>2. CASE ~careful
        <4>1. ~careful'
          BY <1>2, <3>2, CarefulStays
        <4> QED
          BY <4>1 DEF Careful
      <3> QED
        BY <3>1, <3>2
    <2> QED
      BY <2>1, <2>2 DEF GoodInv
  <1> QED
    BY <1>1, <1>2, TasksSteps, GoodResting, ZenonT(30)

(* The invariant holds in every reachable state.                            *)
THEOREM GoodInvariance == TasksSpec => [](TasksInv /\ ReportsInv /\ GoodInv)
  BY TasksInitially, ReportsInitially, GoodInitially, TasksPreservation, ReportsPreservation,
     GoodPreservation, PTL DEF TasksSpec

(* As long as clients are careful, a piece whose last report is             *)
(* FoundGoodPiece is good on disk.                                          *)
THEOREM ReportedPiecesAreGood == TasksSpec => []GoodIsGood
  <1>1. GoodInv => GoodIsGood
    BY DEF GoodInv, Careful, GoodIsGood
  <1> QED
    BY <1>1, GoodInvariance, PTL
=============================================================================
