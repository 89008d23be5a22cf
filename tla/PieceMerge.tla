---------------------------- MODULE PieceMerge ----------------------------
(***************************************************************************)
(* The pending blocks of one piece in PieceCheckerState: processed blocks  *)
(* are pushed; run_with_whole_pieces sorts the list and merges it from its *)
(* tail, one turn of the loop per step, and when a single block of the     *)
(* length of the piece is left the piece is hashed and its list cleared.   *)
(* A block is an offset and a length in units of the smallest block.       *)
(***************************************************************************)
EXTENDS Integers, Sequences

CONSTANTS
    PieceLength,   \* length of this piece (last_block_size for the last one)
    MergeBlocks,   \* the blocks a client may process
    MaxPending     \* bound: blocks in the list at once

Block == [offset : Nat, length : Nat \ {0}]

ASSUME MergeAssumption ==
    /\ PieceLength \in Nat \ {0} /\ MaxPending \in Nat
    /\ \A b \in MergeBlocks : b \in Block /\ b.offset + b.length <= PieceLength

VARIABLES
    pending,   \* pending_blocks of the piece
    phase,     \* of run_with_whole_pieces, which holds the lock: "idle", "merge" or "check"
    received,  \* history: units processed since the piece was last checked
    again,     \* history: units processed more than once since then
    checked    \* history: units covered by the block this run hashed, if it did

mergeVars == <<pending, phase, received, again, checked>>

Units(b) == b.offset .. (b.offset + b.length - 1)

PieceUnits == 0 .. (PieceLength - 1)

NoBlock == [offset |-> 0, length |-> 0]

(* Mutant: neighbours need not touch.                                       *)
MergeOverGap(a, b) ==
    LET end_a == a.offset + a.length
        end_b == b.offset + b.length
        end == IF end_a > end_b THEN end_a ELSE end_b
    IN  IF b.offset >= a.offset /\ b.offset <= end_a + 1
          THEN [offset |-> a.offset, length |-> end - a.offset]
        ELSE NoBlock

(* merge_piece_messages, for two blocks of the same piece; NoBlock stands   *)
(* for None.                                                                *)
MergePieceMessages(a, b) ==
    LET end_a == a.offset + a.length
        end_b == b.offset + b.length
        end == IF end_a > end_b THEN end_a ELSE end_b
    IN  IF b.offset >= a.offset /\ b.offset <= end_a
          THEN [offset |-> a.offset, length |-> end - a.offset]
        ELSE IF a.offset >= b.offset /\ a.offset <= end_b
          THEN [offset |-> b.offset, length |-> end - b.offset]
        ELSE NoBlock

PieceIsComplete(s) == Len(s) = 1 /\ s[1].length = PieceLength

MergeInit ==
    /\ pending = << >> /\ phase = "idle"
    /\ received = {} /\ again = {} /\ checked = {}

PushPendingBlock(b) ==
    /\ phase = "idle" /\ Len(pending) < MaxPending
    /\ pending' = Append(pending, b)
    /\ received' = received \cup Units(b)
    /\ again' = again \cup (received \cap Units(b))
    /\ UNCHANGED <<phase, checked>>

(* The orders a list of n blocks can be put in.                             *)
Orders ==
    [n \in 0 .. MaxPending |->
        {p \in [1 .. n -> 1 .. n] : \A k \in 1 .. n : \E j \in 1 .. n : p[j] = k}]

(* Mutant: the list is merged in the order of arrival.                      *)
AsPushed(p) == \A k \in DOMAIN p : p[k] = k

(* The order of sort_by_key(block_offset), which is stable.                 *)
ByOffset(p) ==
    \A j, k \in DOMAIN p : j < k =>
        LET a == pending[p[j]]
            b == pending[p[k]]
        IN  a.offset < b.offset \/ (a.offset = b.offset /\ p[j] < p[k])

(* run_with_whole_pieces begins, and merge_pieces sorts the list; other     *)
(* tasks may have added blocks since the last run.                          *)
SortPending ==
    /\ phase = "idle" /\ pending # << >>
    /\ \E p \in Orders[Len(pending)] :
          /\ ByOffset(p)
          /\ pending' = [k \in 1 .. Len(pending) |-> pending[p[k]]]
    /\ phase' = "merge" /\ checked' = {}
    /\ UNCHANGED <<received, again>>

LastTwoMerged == MergePieceMessages(pending[Len(pending) - 1], pending[Len(pending)])

(* A turn of the loop: the last two blocks merge, or the loop is over.      *)
MergeLastTwo ==
    /\ phase = "merge"
    /\ IF Len(pending) > 1 /\ LastTwoMerged # NoBlock
         THEN /\ pending' = Append(SubSeq(pending, 1, Len(pending) - 2), LastTwoMerged)
              /\ UNCHANGED phase
         ELSE phase' = "check" /\ UNCHANGED pending
    /\ UNCHANGED <<received, again, checked>>

(* The rest of run_with_whole_pieces: a complete piece is hashed and its    *)
(* list cleared, unless the callback fails.                                 *)
CheckWhole ==
    /\ phase = "check" /\ phase' = "idle"
    /\ IF PieceIsComplete(pending)
         THEN /\ checked' = received
              /\ \/ pending' = << >> /\ received' = {} /\ again' = {}
                 \/ UNCHANGED <<pending, received, again>>
         ELSE UNCHANGED <<pending, received, again, checked>>

MergeNext ==
    (\E b \in MergeBlocks : PushPendingBlock(b)) \/ SortPending \/ MergeLastTwo \/ CheckWhole

MergeSpec == MergeInit /\ [][MergeNext]_mergeVars

-----------------------------------------------------------------------------
(* Merging neither loses nor invents data: the pending blocks cover exactly *)
(* what was processed since the last check, and a piece is hashed only once *)
(* every unit of it was processed.                                          *)
MergeExact ==
    /\ UNION {Units(pending[k]) : k \in DOMAIN pending} = received
    /\ checked \in {{}, PieceUnits}

(* Once all the units of a piece were processed, none of them twice, its    *)
(* blocks merge into one and the run of run_with_whole_pieces hashes it.    *)
WholeIsChecked ==
    [][CheckWhole /\ received = PieceUnits /\ again = {} => checked' = PieceUnits]_mergeVars
=============================================================================
