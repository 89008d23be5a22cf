---------------------------- MODULE PieceProofs ----------------------------
(***************************************************************************)
(* What is done with the pieces of a torrent, of any number and length:    *)
(* PieceMerge and PieceAccessor, the helpers the tasks of the disk manager *)
(* are built on, and HonestReveal, which tells the peers of them.          *)
(***************************************************************************)
EXTENDS PieceMerge, PieceAccessor, HonestReveal, WellFoundedInduction, TLAPS

MergeTypeOK ==
    /\ pending \in Seq(Block) /\ Len(pending) <= MaxPending
    /\ phase \in {"idle", "merge", "check"}
    /\ received \subseteq Int /\ again \subseteq Int

(* The pending blocks lie in the piece and cover what was processed.        *)
Covered ==
    /\ \A k \in 1 .. Len(pending) : pending[k].offset + pending[k].length <= PieceLength
    /\ \A u : u \in received <=> \E k \in 1 .. Len(pending) : u \in Units(pending[k])

(* As long as nothing was processed twice no two of them overlap.           *)
Apart ==
    again = {} =>
        \A j, k \in 1 .. Len(pending) : j # k => Units(pending[j]) \cap Units(pending[k]) = {}

(* While it is merged the list is sorted.                                   *)
Ordered ==
    phase # "idle" =>
        \A j, k \in 1 .. Len(pending) : j < k => pending[j].offset <= pending[k].offset

(* The loop ends at a gap, if there is more than one block left.            *)
Stopped ==
    phase = "check" /\ Len(pending) > 1 => LastTwoMerged = NoBlock

MergeInv == MergeTypeOK /\ Covered /\ Apart /\ Ordered /\ Stopped /\ checked \in {{}, PieceUnits}

-----------------------------------------------------------------------------
(* Two blocks merge into one that holds exactly the data of both, whatever  *)
(* their offsets and lengths, and are left alone only if there is a gap     *)
(* between them.                                                            *)
THEOREM MergeCoversBoth ==
    ASSUME NEW a \in Block, NEW b \in Block
    PROVE  LET m == MergePieceMessages(a, b) IN
              IF m = NoBlock
                THEN a.offset + a.length < b.offset \/ b.offset + b.length < a.offset
                ELSE m \in Block /\ \A u \in Int : u \in Units(m) <=> u \in Units(a) \/ u \in Units(b)
  BY DEF MergePieceMessages, NoBlock, Block, Units

(* Merging keeps to the piece and, in a sorted list, to the offset of the   *)
(* first of the two blocks.                                                 *)
LEMMA MergeStays ==
    ASSUME NEW a \in Block, NEW b \in Block, MergePieceMessages(a, b) # NoBlock,
           a.offset + a.length <= PieceLength, b.offset + b.length <= PieceLength
    PROVE  LET m == MergePieceMessages(a, b) IN
              /\ m.offset + m.length <= PieceLength
              /\ a.offset <= b.offset => m.offset = a.offset
  BY MergeAssumption DEF MergePieceMessages, NoBlock, Block

(* The units of a block are integers, its offset among them.                *)
LEMMA BlockUnits ==
    ASSUME NEW b \in Block
    PROVE  /\ b.offset \in Nat /\ b.length \in Nat \ {0}
           /\ Units(b) \subseteq Int
           /\ \A u : u \in Units(b) <=> u \in Int /\ b.offset <= u /\ u < b.offset + b.length
  BY DEF Block, Units

(* Nothing is pending at first.                                             *)
LEMMA MergeInitially == MergeInit => MergeInv
  <1> SUFFICES ASSUME MergeInit PROVE MergeInv
    OBVIOUS
  <1>1. pending = << >> /\ 1 .. Len(pending) = {} /\ Len(pending) = 0
    BY DEF MergeInit
  <1>2. MergeTypeOK
    BY <1>1, MergeAssumption DEF MergeInit, MergeTypeOK
  <1> QED
    BY <1>1, <1>2 DEF MergeInit, MergeInv, Covered, Apart, Ordered, Stopped

(* A block that is pushed adds its units, and overlaps no other unless some *)
(* of them were processed already.                                          *)
LEMMA PushPreserves ==
    ASSUME MergeInv, NEW b \in MergeBlocks, PushPendingBlock(b)
    PROVE  MergeInv'
  <1>1. /\ b \in Block /\ b.offset + b.length <= PieceLength
        /\ pending \in Seq(Block) /\ phase = "idle" /\ phase' = "idle"
        /\ pending' = Append(pending, b) /\ Len(pending) < MaxPending /\ MaxPending \in Nat
    BY MergeAssumption DEF MergeInv, MergeTypeOK, PushPendingBlock
  <1>2. /\ Len(pending) \in Nat /\ Len(pending') = Len(pending) + 1
        /\ \A k \in 1 .. Len(pending) : pending'[k] = pending[k] /\ pending[k] \in Block
        /\ pending'[Len(pending')] = b
    BY <1>1
  <1>3. /\ \A k \in 1 .. Len(pending) : k \in 1 .. Len(pending')
        /\ \A k \in 1 .. Len(pending') : k = Len(pending') \/ k \in 1 .. Len(pending)
        /\ Len(pending') \in 1 .. Len(pending') /\ Len(pending') \notin 1 .. Len(pending)
    BY <1>2
  <1>4. /\ received' = received \cup Units(b) /\ checked' = checked
        /\ again' = again \cup (received \cap Units(b))
    BY DEF PushPendingBlock
  <1>5. MergeTypeOK'
    <2>1. pending' \in Seq(Block) /\ Len(pending') <= MaxPending
      BY <1>1, <1>2
    <2> QED
      BY <1>1, <1>4, <2>1, BlockUnits, Zenon DEF MergeInv, MergeTypeOK
  <1>6. Covered'
    <2>1. \A k \in 1 .. Len(pending') : pending'[k].offset + pending'[k].length <= PieceLength
      BY <1>1, <1>2, <1>3 DEF MergeInv, Covered
    <2>2. \A u : u \in received' <=> \E k \in 1 .. Len(pending') : u \in Units(pending'[k])
      BY <1>2, <1>3, <1>4 DEF MergeInv, Covered
    <2> QED
      BY <2>1, <2>2 DEF Covered, Units
  <1>7. Apart'
    <2> SUFFICES ASSUME again' = {}, NEW j \in 1 .. Len(pending'), NEW k \in 1 .. Len(pending'), j # k
                 PROVE  Units(pending'[j]) \cap Units(pending'[k]) = {}
      BY DEF Apart, Units
    <2>1. again = {} /\ received \cap Units(b) = {}
      BY <1>4
    <2>2. \A l \in 1 .. Len(pending) : Units(pending[l]) \cap Units(b) = {}
      BY <2>1 DEF MergeInv, Covered
    <2> QED
      BY <1>2, <1>3, <2>1, <2>2, Zenon DEF MergeInv, Apart
  <1> QED
    BY <1>1, <1>4, <1>5, <1>6, <1>7 DEF MergeInv, Ordered, Stopped, PieceUnits

(* Sorting moves the blocks and nothing else.                               *)
LEMMA SortPreserves ==
    ASSUME MergeInv, SortPending
    PROVE  MergeInv'
  <1> DEFINE n == Len(pending)
  <1>1. pending \in Seq(Block) /\ n \in Nat /\ n \in 0 .. MaxPending /\ \A k \in 1 .. n : pending[k] \in Block
    BY MergeAssumption DEF MergeInv, MergeTypeOK
  <1>2. PICK p \in [1 .. n -> 1 .. n] :
          /\ \A k \in 1 .. n : \E j \in 1 .. n : p[j] = k
          /\ ByOffset(p)
          /\ pending' = [k \in 1 .. n |-> pending[p[k]]]
    BY <1>1, Zenon DEF SortPending, Orders
  <1>3. phase' = "merge" /\ checked' = {} /\ UNCHANGED <<received, again>>
    BY DEF SortPending
  <1> HIDE DEF n
  <1>4. /\ pending' \in Seq(Block) /\ Len(pending') = n
        /\ \A k \in 1 .. n : pending'[k] = pending[p[k]] /\ p[k] \in 1 .. n
    <2>1. \A k \in 1 .. n : p[k] \in 1 .. n /\ pending[p[k]] \in Block
      BY <1>1, <1>2, Zenon
    <2>2. pending' \in [1 .. n -> Block]
      BY <1>2, <2>1, Zenon
    <2>3. pending' \in Seq(Block)
      BY <1>1, <2>2
    <2>4. Len(pending') = n
      BY <1>1, <2>2, <2>3
    <2>5. \A k \in 1 .. n : pending'[k] = pending[p[k]]
      BY <1>2
    <2> QED
      BY <2>1, <2>3, <2>4, <2>5
  <1>5. \A j, k \in 1 .. n : j < k => /\ pending'[j].offset <= pending'[k].offset
                                      /\ p[j] # p[k]
    <2> SUFFICES ASSUME NEW j \in 1 .. n, NEW k \in 1 .. n, j < k
                 PROVE  pending'[j].offset <= pending'[k].offset /\ p[j] # p[k]
      OBVIOUS
    <2>1. \/ pending[p[j]].offset < pending[p[k]].offset
          \/ pending[p[j]].offset = pending[p[k]].offset /\ p[j] < p[k]
      BY <1>2 DEF ByOffset
    <2>2. p[j] \in 1 .. n /\ p[k] \in 1 .. n /\ pending[p[j]] \in Block /\ pending[p[k]] \in Block
      BY <1>1, <1>4, Zenon
    <2>3. pending[p[j]].offset \in Nat /\ pending[p[k]].offset \in Nat
      BY <2>2, BlockUnits
    <2>4. pending'[j] = pending[p[j]] /\ pending'[k] = pending[p[k]]
      BY <1>4
    <2>5. p[j] # p[k]
      BY <2>1, <2>2, <2>3
    <2>6. pending[p[j]].offset <= pending[p[k]].offset
      BY <2>1, <2>3
    <2> QED
      BY <2>4, <2>5, <2>6
  <1>6. MergeTypeOK'
    BY <1>1, <1>3, <1>4 DEF MergeInv, MergeTypeOK, n
  <1>7. Covered'
    <2>1. \A k \in 1 .. n : pending[k].offset + pending[k].length <= PieceLength
      BY DEF MergeInv, Covered, n
    <2>2. \A u : u \in received <=> \E k \in 1 .. n : u \in Units(pending[k])
      BY DEF MergeInv, Covered, n
    <2>3. \A k \in 1 .. n : pending'[k].offset + pending'[k].length <= PieceLength
      BY <1>4, <2>1
    <2>4. ASSUME NEW u PROVE u \in received' <=> \E k \in 1 .. n : u \in Units(pending'[k])
      <3>1. ASSUME NEW k \in 1 .. n, u \in Units(pending[k]) PROVE \E j \in 1 .. n : u \in Units(pending'[j])
        BY <1>2, <1>4, <3>1, Zenon
      <3>2. ASSUME NEW k \in 1 .. n, u \in Units(pending'[k]) PROVE u \in received
        BY <1>4, <2>2, <3>2
      <3> QED
        BY <1>3, <2>2, <3>1, <3>2
    <2> QED
      BY <1>4, <2>3, <2>4, Zenon DEF Covered, Units
  <1>8. Apart'
    <2> SUFFICES ASSUME again' = {}, NEW j \in 1 .. n, NEW k \in 1 .. n, j # k
                 PROVE  Units(pending'[j]) \cap Units(pending'[k]) = {}
      BY <1>4 DEF Apart, Units
    <2>1. p[j] # p[k]
      BY <1>1, <1>5
    <2> QED
      BY <1>3, <1>4, <2>1, ZenonT(60) DEF MergeInv, Apart, n
  <1>9. Ordered'
    BY <1>4, <1>5 DEF Ordered
  <1> QED
    BY <1>3, <1>6, <1>7, <1>8, <1>9 DEF MergeInv, Stopped

(* Merging the last two blocks puts one with their data in their place.     *)
LEMMA MergeTurnPreserves ==
    ASSUME MergeInv, MergeLastTwo
    PROVE  MergeInv'
  <1> DEFINE n == Len(pending)
             m == LastTwoMerged
  <1>1. pending \in Seq(Block) /\ n \in Nat /\ \A k \in 1 .. n : pending[k] \in Block
    BY DEF MergeInv, MergeTypeOK
  <1>2. phase = "merge" /\ UNCHANGED <<received, again, checked>>
    BY DEF MergeLastTwo
  <1>3. CASE ~(n > 1 /\ m # NoBlock)
    <2>1. phase' = "check" /\ pending' = pending
      BY <1>3 DEF MergeLastTwo
    <2>2. MergeTypeOK' /\ Covered' /\ Apart' /\ Ordered'
      BY <1>2, <2>1, Zenon DEF MergeInv, MergeTypeOK, Covered, Apart, Ordered
    <2>3. Stopped'
      BY <1>3, <2>1 DEF Stopped, LastTwoMerged
    <2> QED
      BY <1>2, <2>2, <2>3 DEF MergeInv
  <1>4. CASE n > 1 /\ m # NoBlock
    <2> DEFINE a == pending[n - 1]
               b == pending[n]
    <2>1. n - 1 \in 1 .. n /\ n \in 1 .. n /\ n - 1 # n /\ a \in Block /\ b \in Block
      BY <1>1, <1>4
    <2>2. /\ a.offset + a.length <= PieceLength /\ b.offset + b.length <= PieceLength
          /\ a.offset <= b.offset
      BY <1>2, <2>1 DEF MergeInv, Covered, Ordered
    <2>3. m = MergePieceMessages(a, b)
      BY DEF LastTwoMerged
    <2>4. /\ m \in Block /\ m.offset + m.length <= PieceLength /\ m.offset = a.offset
          /\ \A u \in Int : u \in Units(m) <=> u \in Units(a) \/ u \in Units(b)
      BY <1>4, <2>1, <2>2, <2>3, MergeCoversBoth, MergeStays
    <2>5. \A u : u \in Units(m) <=> u \in Units(a) \/ u \in Units(b)
      BY <2>1, <2>4, BlockUnits
    <2>6. pending' = Append(SubSeq(pending, 1, n - 2), m) /\ phase' = "merge"
      BY <1>2, <1>4 DEF MergeLastTwo
    <2> HIDE DEF m
    <2>7. /\ pending' \in Seq(Block) /\ Len(pending') = n - 1 /\ pending'[n - 1] = m
          /\ \A k \in 1 .. n - 2 : pending'[k] = pending[k]
      <3>1. PICK s : s = SubSeq(pending, 1, n - 2)
        BY Zenon
      <3>2. s \in Seq(Block) /\ Len(s) = n - 2 /\ \A k \in 1 .. n - 2 : s[k] = pending[k]
        <4>1. n - 2 \in Nat /\ n - 2 <= n
          BY <1>1, <1>4
        <4>2. \A k \in 1 .. n - 2 : k \in 1 .. n
          BY <1>1, <4>1
        <4>3. s \in Seq(Block)
          BY <1>1, <3>1, <4>1
        <4>4. Len(s) = n - 2
          <5>1. PICK l \in Nat : l = n - 2
            BY <4>1
          <5>2. s = SubSeq(pending, 1, l)
            BY <3>1, <5>1
          <5>3. Len(s) = l
            BY <1>1, <5>2
          <5> QED
            BY <5>1, <5>3
        <4>5. \A k \in 1 .. n - 2 : s[k] = pending[k]
          BY <1>1, <3>1, <4>1, <4>2
        <4> QED
          BY <4>3, <4>4, <4>5
      <3>3. pending' = Append(s, m) /\ n - 2 \in Nat /\ (n - 2) + 1 = n - 1
        BY <1>1, <1>4, <2>6, <3>1
      <3> HIDE DEF n
      <3> QED
        BY <2>4, <3>2, <3>3
    <2> HIDE DEF n, a, b
    <2>8. /\ \A k \in 1 .. n - 1 : k = n - 1 \/ k \in 1 .. n - 2
          /\ \A k \in 1 .. n : k = n - 1 \/ k = n \/ k \in 1 .. n - 2
          /\ \A k \in 1 .. n - 2 : k \in 1 .. n /\ k # n /\ k # n - 1 /\ k \in 1 .. n - 1 /\ k < n - 1
          /\ n - 1 \in 1 .. n - 1
      BY <1>1, <1>4
    <2>9. MergeTypeOK'
      <3>1. Len(pending') <= MaxPending
        BY <1>1, <1>4, <2>7, MergeAssumption DEF MergeInv, MergeTypeOK, n
      <3> QED
        BY <1>2, <2>6, <2>7, <3>1 DEF MergeInv, MergeTypeOK
    <2>10. Covered'
      <3>1. \A k \in 1 .. n - 1 : pending'[k].offset + pending'[k].length <= PieceLength
        BY <2>4, <2>7, <2>8, Zenon DEF MergeInv, Covered, n
      <3>2. \A u : u \in received <=> \E k \in 1 .. n : u \in Units(pending[k])
        BY DEF MergeInv, Covered, n
      <3>3. ASSUME NEW u PROVE u \in received' <=> \E k \in 1 .. n - 1 : u \in Units(pending'[k])
        <4>1. ASSUME NEW k \in 1 .. n, u \in Units(pending[k]) PROVE \E j \in 1 .. n - 1 : u \in Units(pending'[j])
          <5>1. CASE k \in 1 .. n - 2
            BY <2>7, <2>8, <4>1, <5>1
          <5>2. CASE k = n \/ k = n - 1
            BY <2>5, <2>7, <2>8, <4>1, <5>2 DEF a, b
          <5> QED
            BY <2>8, <5>1, <5>2
        <4>2. ASSUME NEW k \in 1 .. n - 1, u \in Units(pending'[k]) PROVE u \in received
          <5>1. CASE k \in 1 .. n - 2
            BY <2>7, <2>8, <3>2, <4>2, <5>1
          <5>2. CASE k = n - 1
            BY <2>1, <2>5, <2>7, <3>2, <4>2, <5>2 DEF a, b
          <5> QED
            BY <2>8, <5>1, <5>2
        <4> QED
          BY <1>2, <3>2, <4>1, <4>2
      <3> QED
        BY <2>7, <3>1, <3>3 DEF Covered, Units
    <2>11. Apart'
      <3> SUFFICES ASSUME again' = {}, NEW j \in 1 .. n - 1, NEW k \in 1 .. n - 1, j # k
                   PROVE  Units(pending'[j]) \cap Units(pending'[k]) = {}
        BY <2>7 DEF Apart, Units
      <3>1. \A f, g \in 1 .. n : f # g => Units(pending[f]) \cap Units(pending[g]) = {}
        BY <1>2 DEF MergeInv, Apart, n
      <3>2. \A f \in 1 .. n - 2 : Units(pending[f]) \cap Units(m) = {}
        <4>1. \A f \in 1 .. n - 2 : Units(pending[f]) \cap Units(a) = {} /\ Units(pending[f]) \cap Units(b) = {}
          BY <2>1, <2>8, <3>1 DEF a, b
        <4> QED
          BY <2>5, <4>1
      <3>3. CASE j \in 1 .. n - 2 /\ k \in 1 .. n - 2
        BY <2>7, <2>8, <3>1, <3>3, Zenon
      <3>4. CASE j = n - 1 \/ k = n - 1
        BY <2>7, <2>8, <3>2, <3>4
      <3> QED
        BY <2>8, <3>3, <3>4
    <2>12. Ordered'
      <3> SUFFICES ASSUME NEW j \in 1 .. n - 1, NEW k \in 1 .. n - 1, j < k
                   PROVE  pending'[j].offset <= pending'[k].offset
        BY <2>7 DEF Ordered
      <3>1. \A f, g \in 1 .. n : f < g => pending[f].offset <= pending[g].offset
        BY <1>2 DEF MergeInv, Ordered, n
      <3>2. j \in 1 .. n - 2 /\ pending'[j] = pending[j]
        BY <1>1, <2>7, <2>8
      <3>3. CASE k = n - 1
        BY <2>1, <2>4, <2>7, <2>8, <3>1, <3>2, <3>3 DEF a
      <3>4. CASE k \in 1 .. n - 2
        BY <2>7, <2>8, <3>1, <3>2, <3>4
      <3> QED
        BY <2>8, <3>3, <3>4
    <2> QED
      BY <1>2, <2>6, <2>9, <2>10, <2>11, <2>12 DEF MergeInv, Stopped
  <1> QED
    BY <1>3, <1>4

(* A list that is complete is one block that covers the piece.              *)
LEMMA CompleteCovers ==
    ASSUME MergeInv, PieceIsComplete(pending)
    PROVE  received = PieceUnits
  <1>1. Len(pending) = 1 /\ 1 \in 1 .. Len(pending) /\ pending[1] \in Block /\ pending[1].length = PieceLength
    BY DEF MergeInv, MergeTypeOK, PieceIsComplete
  <1>2. pending[1].offset = 0
    BY <1>1, BlockUnits, MergeAssumption DEF MergeInv, Covered
  <1>3. \A u : u \in received <=> u \in Units(pending[1])
    BY <1>1 DEF MergeInv, Covered
  <1>4. Units(pending[1]) = PieceUnits
    BY <1>1, <1>2, MergeAssumption DEF Units, PieceUnits
  <1> QED
    BY <1>3, <1>4

(* A list that covers the piece without overlaps, and on which the loop has *)
(* ended, is complete: a gap between the last two blocks would hold a unit  *)
(* that no block covers.                                                    *)
LEMMA CoverIsComplete ==
    ASSUME MergeInv, phase = "check", again = {}, received = PieceUnits
    PROVE  PieceIsComplete(pending)
  <1> DEFINE n == Len(pending)
  <1>1. pending \in Seq(Block) /\ n \in Nat /\ \A k \in 1 .. n : pending[k] \in Block
    BY DEF MergeInv, MergeTypeOK
  <1>2. /\ \A u \in PieceUnits : \E k \in 1 .. n : u \in Units(pending[k])
        /\ \A k \in 1 .. n : pending[k].offset + pending[k].length <= PieceLength
    BY DEF MergeInv, Covered
  <1>3. PieceLength \in Nat \ {0} /\ 0 \in PieceUnits /\ PieceLength - 1 \in PieceUnits
    BY MergeAssumption DEF PieceUnits
  <1> HIDE DEF n
  <1>4. CASE n = 0
    <2>1. 1 .. n = {}
      BY <1>4
    <2> QED
      BY <1>2, <1>3, <2>1
  <1>5. CASE n = 1
    <2>1. 1 .. n = {1}
      BY <1>5
    <2>2. 0 \in Units(pending[1]) /\ PieceLength - 1 \in Units(pending[1]) /\ pending[1] \in Block
      BY <1>1, <1>2, <1>3, <2>1, Zenon
    <2>3. pending[1].length = PieceLength
      BY <1>2, <1>3, <2>1, <2>2, BlockUnits
    <2> QED
      BY <1>5, <2>3 DEF PieceIsComplete, n
  <1>6. CASE n > 1
    <2> DEFINE a == pending[n - 1]
               b == pending[n]
               u == a.offset + a.length
    <2>1. n - 1 \in 1 .. n /\ n \in 1 .. n /\ a \in Block /\ b \in Block /\ n - 1 < n
      BY <1>1, <1>6
    <2>2. \A j, k \in 1 .. n : j < k => pending[j].offset <= pending[k].offset
      BY DEF MergeInv, Ordered, n
    <2>3. \A j, k \in 1 .. n : j # k => Units(pending[j]) \cap Units(pending[k]) = {}
      BY DEF MergeInv, Apart, n
    <2>4. MergePieceMessages(a, b) = NoBlock
      BY <1>6 DEF MergeInv, Stopped, LastTwoMerged, n
    <2>5. /\ a.offset \in Nat /\ a.length \in Nat \ {0} /\ b.offset \in Nat /\ b.length \in Nat \ {0}
          /\ a.offset <= b.offset /\ b.offset + b.length <= PieceLength
      BY <1>2, <2>1, <2>2, BlockUnits
    <2>6. u < b.offset
      BY <2>1, <2>4, <2>5, MergeCoversBoth
    <2>7. u \in PieceUnits /\ u \in Nat
      BY <1>3, <2>5, <2>6, SMTT(40), Z3T(40) DEF PieceUnits
    <2>8. PICK k \in 1 .. n : u \in Units(pending[k])
      BY <1>2, <2>7
    <2> HIDE DEF u
    <2>9. k # n
      BY <2>1, <2>6, <2>7, <2>8, <2>5, BlockUnits
    <2>10. k # n - 1
      BY <2>1, <2>5, <2>8, BlockUnits DEF u
    <2>11. k \in 1 .. n /\ k < n - 1 /\ pending[k] \in Block /\ pending[k].offset <= a.offset
      BY <1>1, <2>1, <2>2, <2>9, <2>10
    <2>12. a.offset \in Units(pending[k]) /\ a.offset \in Units(a)
      BY <2>1, <2>5, <2>8, <2>11, BlockUnits DEF u
    <2> QED
      BY <2>1, <2>3, <2>10, <2>12
  <1> QED
    BY <1>1, <1>4, <1>5, <1>6

(* A piece that is hashed was covered, and its list is cleared or kept.     *)
LEMMA CheckPreserves ==
    ASSUME MergeInv, CheckWhole
    PROVE  MergeInv'
  <1>1. phase' = "idle"
    BY DEF CheckWhole
  <1>2. checked' \in {{}, PieceUnits}
    <2>1. checked' = checked \/ (PieceIsComplete(pending) /\ checked' = received)
      BY DEF CheckWhole
    <2> QED
      BY <2>1, CompleteCovers DEF MergeInv, PieceUnits
  <1>3. CASE UNCHANGED <<pending, received, again>>
    BY <1>1, <1>2, <1>3, Zenon DEF MergeInv, MergeTypeOK, Covered, Apart, Ordered, Stopped, PieceUnits
  <1>4. CASE pending' = << >> /\ received' = {} /\ again' = {}
    <2>1. Len(pending') = 0 /\ 1 .. Len(pending') = {} /\ pending' \in Seq(Block)
      BY <1>4
    <2>2. MergeTypeOK'
      BY <1>1, <1>4, <2>1, MergeAssumption DEF MergeTypeOK
    <2> QED
      BY <1>1, <1>2, <1>4, <2>1, <2>2 DEF MergeInv, Covered, Apart, Ordered, Stopped, PieceUnits
  <1> QED
    BY <1>3, <1>4 DEF CheckWhole

(* The invariant of the pending blocks, for any blocks of any piece.        *)
THEOREM MergeInvariance == MergeSpec => []MergeInv
  <1>1. MergeInv /\ [MergeNext]_mergeVars => MergeInv'
    <2> SUFFICES ASSUME MergeInv, [MergeNext]_mergeVars PROVE MergeInv'
      OBVIOUS
    <2>1. CASE UNCHANGED mergeVars
      BY <2>1, Zenon DEF mergeVars, MergeInv, MergeTypeOK, Covered, Apart, Ordered, Stopped, LastTwoMerged
    <2> QED
      BY <2>1, PushPreserves, SortPreserves, MergeTurnPreserves, CheckPreserves DEF MergeNext
  <1> QED
    BY <1>1, MergeInitially, PTL DEF MergeSpec

(* For any blocks of any piece: merging neither loses nor invents data, and *)
(* a piece is hashed only once every unit of it was processed.              *)
THEOREM MergingIsExact == MergeSpec => []MergeExact
  <1>1. MergeInv => MergeExact
    <2> SUFFICES ASSUME MergeInv PROVE MergeExact
      OBVIOUS
    <2>1. DOMAIN pending = 1 .. Len(pending)
      BY DEF MergeInv, MergeTypeOK
    <2>2. \A u : u \in UNION {Units(pending[k]) : k \in 1 .. Len(pending)} <=> u \in received
      BY DEF MergeInv, Covered
    <2> QED
      BY <2>1, <2>2 DEF MergeInv, MergeExact
  <1> QED
    BY <1>1, MergeInvariance, PTL

(* For any blocks of any piece: when all its units were processed, none of  *)
(* them twice, run_with_whole_pieces hashes it, in whatever order they came *)
(* and whatever was merged before.                                          *)
THEOREM WholePiecesAreChecked == MergeSpec => WholeIsChecked
  <1>1. MergeInv => [CheckWhole /\ received = PieceUnits /\ again = {} => checked' = PieceUnits]_mergeVars
    <2> SUFFICES ASSUME MergeInv, CheckWhole, received = PieceUnits, again = {} PROVE checked' = PieceUnits
      OBVIOUS
    <2>1. PieceIsComplete(pending)
      BY CoverIsComplete DEF CheckWhole
    <2> QED
      BY <2>1 DEF CheckWhole
  <1> QED
    BY <1>1, MergeInvariance, PTL DEF WholeIsChecked

-----------------------------------------------------------------------------
(* The counters of the loop in closed form: what is left to skip, and what  *)
(* of the block lies in the files passed.                                   *)
LoopCounters ==
    result # "err" =>
        /\ total_bytes_to_skip = IF position > start THEN position - start ELSE 0
        /\ total_bytes_accessed = Smaller(block_length,
                                          IF start > position THEN start - position ELSE 0)

AccessorInv == AccessorTypeOK /\ RegionsAddressBlock /\ RegionsTileBuffer /\ LoopCounters

(* The loop starts with nothing skipped and nothing accessed.               *)
LEMMA AccessorInitially == AccessorInit => AccessorInv
  BY AccessorAssumption DEF AccessorInit, AccessorInv, AccessorTypeOK, RegionsAddressBlock, RegionsTileBuffer,
     LoopCounters, Smaller

(* The part of the first extent beyond the second.                          *)
Beyond(a, b) == IF a > b THEN a - b ELSE 0

(* One turn of the loop of run_with_file_regions preserves the invariant,   *)
(* whether the callback is called, fails or is not called.                  *)
LEMMA NextFilePreserves ==
    ASSUME AccessorInv, NextFile
    PROVE  AccessorInv'
  <1> DEFINE size == files[i + 1]
             offset == size - BytesToAccess
             r == [file |-> i + 1, offset |-> offset,
                   begin |-> total_bytes_accessed,
                   end |-> total_bytes_accessed + ActualBytesToAccess,
                   address |-> start + offset]
  <1>1. /\ files \in Seq(Nat) /\ position \in Nat /\ block_length \in Nat
        /\ i \in Nat /\ i < Len(files) /\ i + 1 \in DOMAIN files /\ size \in Nat
        /\ total_bytes_to_skip \in Nat /\ start \in Nat
        /\ total_bytes_accessed \in Nat
        /\ result = "running" /\ regions \in Seq(Region)
    BY SMTT(40), Z3T(40) DEF AccessorInv, AccessorTypeOK, NextFile
  <1>2. /\ total_bytes_to_skip = Beyond(position, start)
        /\ total_bytes_accessed = Smaller(block_length, Beyond(start, position))
    BY <1>1 DEF AccessorInv, LoopCounters, Beyond
  <1>3. /\ UNCHANGED args /\ i' = i + 1 /\ start' = start + size
        /\ total_bytes_to_skip' = total_bytes_to_skip - Skipped
    BY DEF NextFile
  <1>4. /\ BytesToAccess = size - Smaller(total_bytes_to_skip, size)
        /\ ActualBytesToAccess = Smaller(block_length - total_bytes_accessed, BytesToAccess)
        /\ Skipped = Smaller(total_bytes_to_skip, size)
    BY DEF BytesToAccess, ActualBytesToAccess, Skipped
  <1> HIDE DEF size
  <1>5. /\ BytesToAccess \in Nat /\ ActualBytesToAccess \in Nat
        /\ total_bytes_accessed <= block_length
        /\ total_bytes_to_skip' = Beyond(position, start') /\ total_bytes_to_skip' \in Nat
    BY <1>1, <1>2, <1>3, <1>4 DEF Smaller, Beyond
  <1>6. CASE BytesToAccess > 0 /\ total_bytes_accessed < block_length
    <2>1. regions' = Append(regions, r) /\ Callback(ActualBytesToAccess)
      BY <1>6 DEF NextFile, size
    <2>2. /\ ActualBytesToAccess > 0
          /\ total_bytes_accessed + ActualBytesToAccess <= block_length
          /\ offset \in Nat /\ offset + ActualBytesToAccess <= size
          /\ start + offset = position + total_bytes_accessed
          /\ total_bytes_accessed + ActualBytesToAccess = Smaller(block_length, Beyond(start', position))
      BY <1>1, <1>2, <1>3, <1>4, <1>6 DEF Smaller, Beyond
    <2>3. r \in Region /\ size = files[r.file]
      <3>1. /\ i + 1 \in Nat /\ start + offset \in Nat
            /\ total_bytes_accessed + ActualBytesToAccess \in Nat
        BY <1>1, <1>5, <2>2
      <3>2. size = files[r.file]
        BY DEF size
      <3> HIDE DEF offset
      <3> QED
        BY <1>1, <2>2, <3>1, <3>2 DEF Region
    <2> HIDE DEF offset
    <2>4. AccessorTypeOK'
      <3>1. regions' \in Seq(Region)
        BY <1>1, <2>1, <2>3
      <3>2. total_bytes_accessed' \in 0 .. block_length' /\ result' \in {"running", "ok", "err"}
        <4>1. block_length' = block_length
          BY <1>3 DEF args
        <4>2. CASE result' = "running" /\ total_bytes_accessed' = total_bytes_accessed + ActualBytesToAccess
          BY <1>1, <1>5, <2>2, <4>1, <4>2
        <4>3. CASE result' = "err" /\ total_bytes_accessed' = total_bytes_accessed
          BY <1>1, <1>5, <4>1, <4>3
        <4> QED
          BY <2>1, <4>2, <4>3 DEF Callback
      <3>3. i' \in 0 .. Len(files') /\ start' \in Nat
        BY <1>1, <1>3 DEF args
      <3> QED
        BY <1>1, <1>3, <1>5, <3>1, <3>2, <3>3 DEF AccessorTypeOK, args
    <2>5. RegionsAddressBlock'
      <3>1. ASSUME NEW k \in DOMAIN regions' PROVE regions'[k] = r \/ (k \in DOMAIN regions /\ regions'[k] = regions[k])
        BY <1>1, <2>1, <3>1, <2>3
      <3>2. /\ r.address = position + r.begin
            /\ r.begin < r.end /\ r.end <= block_length
            /\ r.file \in DOMAIN files
            /\ r.offset + (r.end - r.begin) <= files[r.file]
        BY <1>1, <1>5, <2>2, <2>3
      <3> HIDE DEF r
      <3> QED
        BY <1>3, <3>1, <3>2 DEF RegionsAddressBlock, AccessorInv, args
    <2>6. RegionsTileBuffer'
      <3>1. /\ r.begin = total_bytes_accessed
            /\ r.end = total_bytes_accessed + ActualBytesToAccess
        OBVIOUS
      <3> HIDE DEF r
      <3>2. /\ Len(regions') = Len(regions) + 1 /\ Len(regions) \in Nat
            /\ DOMAIN regions' = 1 .. (Len(regions) + 1)
            /\ regions'[Len(regions) + 1] = r
            /\ \A k \in 1 .. Len(regions) : regions'[k] = regions[k]
            /\ regions' # << >>
        BY <1>1, <2>1, <2>3, SMTT(40), Z3T(40)
      <3>3. ASSUME NEW k \in DOMAIN regions'
            PROVE  regions'[k].begin = IF k = 1 THEN 0 ELSE regions'[k - 1].end
        <4>1. CASE k = Len(regions) + 1
          <5>1. CASE Len(regions) = 0
            <6>1. regions = << >>
              BY <1>1, <5>1
            <6> QED
              BY <1>1, <3>1, <3>2, <4>1, <5>1, <6>1 DEF RegionsTileBuffer, AccessorInv
          <5>2. CASE Len(regions) > 0
            <6>1. regions # << >>
              BY <5>2
            <6>2. total_bytes_accessed = regions[Len(regions)].end
              BY <1>1, <6>1 DEF RegionsTileBuffer, AccessorInv
            <6>3. k - 1 = Len(regions) /\ k # 1 /\ regions'[k - 1] = regions[Len(regions)]
              BY <3>2, <4>1, <5>2
            <6> QED
              BY <3>1, <3>2, <4>1, <6>2, <6>3
          <5> QED
            BY <3>2, <5>1, <5>2
        <4>2. CASE k \in 1 .. Len(regions)
          <5>1. k \in DOMAIN regions /\ regions'[k] = regions[k]
            BY <1>1, <3>2, <4>2
          <5>2. regions[k].begin = IF k = 1 THEN 0 ELSE regions[k - 1].end
            BY <5>1 DEF RegionsTileBuffer, AccessorInv
          <5>3. k # 1 => regions'[k - 1] = regions[k - 1]
            BY <3>2, <4>2
          <5> QED
            BY <5>1, <5>2, <5>3
        <4> QED
          BY <3>2, <4>1, <4>2
      <3>4. result' # "err" => total_bytes_accessed' = regions'[Len(regions')].end
        BY <2>1, <3>1, <3>2 DEF Callback
      <3> QED
        BY <3>2, <3>3, <3>4 DEF RegionsTileBuffer
    <2>7. LoopCounters'
      BY <1>3, <1>5, <2>1, <2>2 DEF LoopCounters, Callback, Beyond, args
    <2> QED
      BY <2>4, <2>5, <2>6, <2>7 DEF AccessorInv
  <1>7. CASE ~(BytesToAccess > 0 /\ total_bytes_accessed < block_length)
    <2>1. UNCHANGED <<regions, result, total_bytes_accessed>>
      BY <1>7 DEF NextFile
    <2>2. total_bytes_accessed = Smaller(block_length, Beyond(start', position))
      BY <1>1, <1>2, <1>3, <1>4, <1>7 DEF Smaller, Beyond
    <2>3. AccessorTypeOK'
      BY <1>1, <1>3, <1>5, <2>1 DEF AccessorTypeOK, args
    <2>4. RegionsAddressBlock' /\ RegionsTileBuffer'
      BY <1>3, <2>1 DEF RegionsAddressBlock, RegionsTileBuffer, AccessorInv, args
    <2>5. LoopCounters'
      BY <1>3, <1>5, <2>1, <2>2 DEF LoopCounters, Beyond, args
    <2> QED
      BY <2>3, <2>4, <2>5 DEF AccessorInv
  <1> QED
    BY <1>6, <1>7

(* The counters of run_with_file_regions keep their closed form throughout  *)
(* the loop, for every torrent and block.                                   *)
THEOREM AccessorInvariance == AccessorSpec => []AccessorInv
  <1>1. AccessorInv /\ [AccessorNext]_accessorVars => AccessorInv'
    <2> SUFFICES ASSUME AccessorInv, [AccessorNext]_accessorVars PROVE AccessorInv'
      OBVIOUS
    <2>1. CASE NextFile
      BY <2>1, NextFilePreserves
    <2>2. CASE Return
      BY <2>2 DEF Return, AccessorInv, AccessorTypeOK, RegionsAddressBlock, RegionsTileBuffer, LoopCounters, args
    <2>3. CASE UNCHANGED accessorVars
      BY <2>3 DEF accessorVars, AccessorInv, AccessorTypeOK, RegionsAddressBlock, RegionsTileBuffer, LoopCounters, args
    <2> QED
      BY <2>1, <2>2, <2>3 DEF AccessorNext
  <1> QED
    BY <1>1, AccessorInitially, PTL DEF AccessorSpec

(* For every list of files, every position and every length: the regions    *)
(* run_with_file_regions hands out hold the right bytes of the torrent,     *)
(* follow one another in the buffer and, when it returns Ok, make up the    *)
(* whole block.                                                             *)
THEOREM BlockAccessed == AccessorSpec => []BlockIsAccessed
  <1>1. AccessorInv => BlockIsAccessed
    BY DEF AccessorInv, LoopCounters, BlockIsAccessed, WholeBlockAccessed
  <1> QED
    BY <1>1, AccessorInvariance, PTL

-----------------------------------------------------------------------------
(* HonestReveal *)

RevealPieces == 0 .. PieceCount - 1

(* The torrents, the peers of each, and what these were told.               *)
RevealInv ==
    /\ told \in [RevealPeers -> SUBSET RevealPieces]
    /\ \A hash \in DOMAIN torrents :
        /\ torrents[hash] \in [status : SUBSET RevealPieces, peers : SUBSET RevealPeers]
        /\ \A peer \in torrents[hash].peers : peer.hash = hash /\ told[peer] = torrents[hash].status

(* Pieces that are bounded have a last one.                                 *)
LEMMA LastIsLast ==
    ASSUME NEW n \in Nat, NEW status \in SUBSET (0 .. n - 1), status # {}
    PROVE  LastBit(status) \in status /\ \A bit \in status : bit <= LastBit(status)
<1>1. PICK above : above = {m \in Nat : \A bit \in status : bit <= m} BY Zenon
<1>2. \A bit \in status : bit \in Nat /\ bit <= n OBVIOUS
<1>3. above \in SUBSET Nat /\ n \in above BY <1>1, <1>2
<1>4. PICK m \in above : \A y \in above : <<y, m>> \notin OpToRel(<, Nat)
  BY <1>3, NatLessThanWellFounded, WFMin, Zenon
<1>5. \A y \in above : ~(y < m) BY <1>3, <1>4, Zenon DEF OpToRel
<1>6. m \in status
  <2> SUFFICES ASSUME m \notin status PROVE FALSE OBVIOUS
  <2>1. PICK bit \in status : TRUE BY Zenon
  <2>2. m \in Nat /\ bit <= m /\ bit # m BY <1>1, <2>1
  <2>3. m - 1 \in Nat /\ m - 1 < m BY <1>2, <2>2
  <2>4. \A other \in status : other <= m - 1 BY <1>1, <1>2, <2>2
  <2>5. m - 1 \in above BY <1>1, <2>3, <2>4
  <2> QED BY <1>5, <2>3, <2>5
<1>7. \A bit \in status : bit <= m BY <1>1
<1>8. \E bit \in status : \A other \in status : other <= bit BY <1>6, <1>7, Zenon
<1> QED BY <1>8, Zenon DEF LastBit

(* The bitfield insert_reversed_bits makes of the pieces we have tells the  *)
(* peer of exactly these, however many there are.                           *)
THEOREM BitFieldTells ==
    ASSUME NEW n \in Nat, NEW status \in SUBSET (0 .. n - 1), status # {}
    PROVE  BitFieldPieces(insert_reversed_bits(storage(status))) = status
<1>1. PICK last \in Nat : last = LastBit(status) /\ \A bit \in status : bit <= last
  <2>1. PICK last : last = LastBit(status) BY Zenon
  <2>2. last \in status /\ \A bit \in status : bit <= last BY <2>1, LastIsLast, Zenon
  <2>3. last \in Nat BY <2>2
  <2> QED BY <2>1, <2>2, <2>3, Zenon
<1>2. PICK len \in Nat : len = (last \div 8) + 1 BY <1>1
<1>3. PICK slice : slice = storage(status) BY Zenon
<1>4. slice = [b \in 1 .. len |-> {k \in 0 .. 7 : 8 * (b - 1) + k \in status}] BY <1>1, <1>2, <1>3, Zenon DEF storage
<1>5. PICK bytes : bytes = insert_reversed_bits(slice) BY Zenon
<1>6. bytes = [b \in 1 .. len |-> {7 - k : k \in slice[b]}] BY <1>4, <1>5, Zenon DEF insert_reversed_bits
<1>7. Len(bytes) = len BY <1>2, <1>6
<1>8. ASSUME NEW piece \in 0 .. len * 8 - 1 PROVE 7 - (piece % 8) \in bytes[(piece \div 8) + 1] <=> piece \in status
  <2>1. PICK b \in Int : b = (piece \div 8) + 1 BY <1>2
  <2>2. PICK k \in 0 .. 7 : k = piece % 8 BY <1>2
  <2>3. piece = 8 * (b - 1) + k BY <1>2, <2>1, <2>2
  <2>4. b \in 1 .. len BY <1>2, <2>1, <2>2, <2>3
  <2>5. 7 - k \in bytes[b] <=> k \in slice[b]
    <3>1. bytes[b] = {7 - j : j \in slice[b]} BY <1>6, <2>4, Zenon
    <3>2. slice[b] \subseteq 0 .. 7 BY <1>4, <2>4, Zenon
    <3>3. ASSUME NEW j \in slice[b], 7 - j = 7 - k PROVE j = k BY <3>2, <3>3
    <3> QED BY <3>1, <3>3, Zenon
  <2>6. k \in slice[b] <=> 8 * (b - 1) + k \in status BY <1>4, <2>4, Zenon
  <2> QED BY <2>1, <2>2, <2>3, <2>5, <2>6, Zenon
<1>9. ASSUME NEW piece \in status PROVE piece \in 0 .. len * 8 - 1 BY <1>1, <1>2
<1>10. BitFieldPieces(bytes) = {piece \in 0 .. len * 8 - 1 : 7 - (piece % 8) \in bytes[(piece \div 8) + 1]}
  BY <1>7, Zenon DEF BitFieldPieces
<1>11. PICK range : range = 0 .. len * 8 - 1 BY Zenon
<1>12. BitFieldPieces(bytes) = status BY <1>8, <1>9, <1>10, <1>11, Zenon
<1> QED BY <1>3, <1>5, <1>12, Zenon

(* No torrent is there at first.                                           *)
LEMMA RevealInitially == RevealInit => RevealInv
<1> SUFFICES ASSUME RevealInit PROVE RevealInv OBVIOUS
<1>1. DOMAIN torrents = {} BY DEF RevealInit
<1>2. told \in [RevealPeers -> SUBSET RevealPieces] BY DEF RevealInit
<1> QED BY <1>1, <1>2, Zenon DEF RevealInv

(* A torrent's entry that a step makes or replaces.                         *)
EntryOK(hash, entry, known) ==
    /\ entry \in [status : SUBSET RevealPieces, peers : SUBSET RevealPeers]
    /\ \A peer \in entry.peers : peer.hash = hash /\ known[peer] = entry.status

(* Each message to the module keeps RevealInv.                              *)
LEMMA RevealStep == RevealInv /\ [RevealNext]_revealVars => RevealInv'
<1> SUFFICES ASSUME RevealInv, [RevealNext]_revealVars PROVE RevealInv' OBVIOUS
<1>1. told \in [RevealPeers -> SUBSET RevealPieces] /\ \A hash \in DOMAIN torrents : EntryOK(hash, torrents[hash], told)
  BY Zenon DEF RevealInv, EntryOK
<1>2. ASSUME told' \in [RevealPeers -> SUBSET RevealPieces],
             \A hash \in DOMAIN torrents' : EntryOK(hash, torrents'[hash], told')
      PROVE  RevealInv'
  BY <1>2, Zenon DEF RevealInv, EntryOK
<1>3. ASSUME NEW hash, RevealAddTorrent(hash) PROVE RevealInv'
  <2>1. PICK fresh : fresh = [status |-> {}, peers |-> {}] BY Zenon
  <2>2. EntryOK(hash, fresh, told) BY <2>1, Zenon DEF EntryOK
  <2>3. told' = told /\ torrents' = [h \in DOMAIN torrents \cup {hash} |-> IF h = hash THEN fresh ELSE torrents[h]]
    BY <1>3, <2>1, Zenon DEF RevealAddTorrent
  <2>4. \A h \in DOMAIN torrents' : EntryOK(h, torrents'[h], told') BY <1>1, <2>2, <2>3, Zenon
  <2> QED BY <1>1, <1>2, <2>3, <2>4, Zenon
<1>4. ASSUME NEW hash, RevealRemoveTorrent(hash) PROVE RevealInv'
  <2>1. told' = told /\ torrents' = [h \in DOMAIN torrents \ {hash} |-> torrents[h]]
    BY <1>4, Zenon DEF RevealRemoveTorrent
  <2>2. \A h \in DOMAIN torrents' : EntryOK(h, torrents'[h], told') BY <1>1, <2>1, Zenon
  <2> QED BY <1>1, <1>2, <2>1, <2>2, Zenon
<1>5. ASSUME NEW peer \in RevealPeers, RevealAddPeer(peer) PROVE RevealInv'
  <2>1. PICK hash \in DOMAIN torrents : hash = peer.hash BY <1>5, Zenon DEF RevealAddPeer
  <2>2. PICK status \in SUBSET RevealPieces : status = torrents[hash].status BY <1>1, <2>1, Zenon DEF EntryOK
  <2>3. PICK peers \in SUBSET RevealPeers : peers = torrents[hash].peers BY <1>1, <2>1, Zenon DEF EntryOK
  <2>4. told' = [told EXCEPT ![peer] = status]
    <3>1. CASE status = {}
      <4>1. told' = [told EXCEPT ![peer] = {}] BY <1>5, <2>1, <2>2, <3>1, Zenon DEF RevealAddPeer
      <4> QED BY <3>1, <4>1, Zenon
    <3>2. CASE status # {}
      <4>1. told' = [told EXCEPT ![peer] = BitFieldPieces(insert_reversed_bits(storage(status)))]
        BY <1>5, <2>1, <2>2, <3>2, Zenon DEF RevealAddPeer
      <4>2. BitFieldPieces(insert_reversed_bits(storage(status))) = status
        BY <3>2, RevealAssumption, BitFieldTells, Zenon DEF RevealPieces
      <4> QED BY <4>1, <4>2, Zenon
    <3> QED BY <3>1, <3>2, Zenon
  <2>5. /\ told' \in [RevealPeers -> SUBSET RevealPieces]
        /\ \A q \in RevealPeers : told'[q] = IF q = peer THEN status ELSE told[q]
    BY <1>1, <2>4, Zenon
  <2>6. PICK entry : entry = [torrents[hash] EXCEPT !.peers = peers \cup {peer}] BY Zenon
  <2>7. entry \in [status : SUBSET RevealPieces, peers : SUBSET RevealPeers] /\ entry.status = status /\ entry.peers = peers \cup {peer}
    <3>1. torrents[hash] \in [status : SUBSET RevealPieces, peers : SUBSET RevealPeers] BY <1>1, Zenon DEF EntryOK
    <3>2. peers \cup {peer} \in SUBSET RevealPeers BY Zenon
    <3> QED BY <2>2, <2>6, <3>1, <3>2, Zenon
  <2>8. torrents' = [torrents EXCEPT ![hash] = entry] BY <1>5, <2>1, <2>3, <2>6, Zenon DEF RevealAddPeer
  <2>9. ASSUME NEW h \in DOMAIN torrents' PROVE EntryOK(h, torrents'[h], told')
    <3>1. h \in DOMAIN torrents BY <2>8
    <3>2. CASE h = hash
      <4>1. torrents'[h] = entry BY <2>8, <3>1, <3>2
      <4>2. \A q \in peers : q.hash = hash /\ told[q] = status BY <1>1, <2>2, <2>3, Zenon DEF EntryOK
      <4>3. ASSUME NEW q \in entry.peers PROVE q.hash = h /\ told'[q] = entry.status
        <5>1. q \in RevealPeers /\ (q = peer \/ q \in peers) BY <2>3, <2>7, <4>3, Zenon
        <5>2. CASE q = peer BY <2>1, <2>5, <2>7, <3>2, <5>1, <5>2, Zenon
        <5>3. CASE q # peer BY <2>5, <2>7, <3>2, <4>2, <5>1, <5>3, Zenon
        <5> QED BY <5>2, <5>3, Zenon
      <4> QED BY <2>7, <4>1, <4>3, Zenon DEF EntryOK
    <3>3. CASE h # hash
      <4>1. torrents'[h] = torrents[h] BY <2>8, <3>1, <3>3
      <4>2. EntryOK(h, torrents[h], told) BY <1>1, <3>1, Zenon
      <4>3. \A q \in torrents[h].peers : q \in RevealPeers /\ q # peer BY <2>1, <3>3, <4>2, Zenon DEF EntryOK
      <4> QED BY <2>5, <4>1, <4>2, <4>3, Zenon DEF EntryOK
    <3> QED BY <3>2, <3>3, Zenon
  <2> QED BY <1>2, <2>5, <2>9, Zenon
<1>6. ASSUME NEW peer \in RevealPeers, RevealRemovePeer(peer) PROVE RevealInv'
  <2>1. PICK hash \in DOMAIN torrents : hash = peer.hash BY <1>6, Zenon DEF RevealRemovePeer
  <2>2. PICK peers \in SUBSET RevealPeers : peers = torrents[hash].peers BY <1>1, <2>1, Zenon DEF EntryOK
  <2>3. PICK entry : entry = [torrents[hash] EXCEPT !.peers = peers \ {peer}] BY Zenon
  <2>4. /\ entry \in [status : SUBSET RevealPieces, peers : SUBSET RevealPeers]
        /\ entry.status = torrents[hash].status /\ entry.peers = peers \ {peer}
    <3>1. torrents[hash] \in [status : SUBSET RevealPieces, peers : SUBSET RevealPeers] BY <1>1, Zenon DEF EntryOK
    <3>2. peers \ {peer} \in SUBSET RevealPeers BY Zenon
    <3> QED BY <2>3, <3>1, <3>2, Zenon
  <2>5. torrents' = [torrents EXCEPT ![hash] = entry] /\ told' = told BY <1>6, <2>1, <2>2, <2>3, Zenon DEF RevealRemovePeer
  <2>6. ASSUME NEW h \in DOMAIN torrents' PROVE EntryOK(h, torrents'[h], told')
    <3>1. h \in DOMAIN torrents BY <2>5
    <3>2. EntryOK(h, torrents[h], told) BY <1>1, <3>1, Zenon
    <3>3. CASE h = hash
      <4>1. torrents'[h] = entry BY <2>5, <3>1, <3>3
      <4> QED BY <2>2, <2>4, <2>5, <3>2, <3>3, <4>1, Zenon DEF EntryOK
    <3>4. CASE h # hash
      <4>1. torrents'[h] = torrents[h] BY <2>5, <3>1, <3>4
      <4> QED BY <2>5, <3>2, <4>1, Zenon
    <3> QED BY <3>3, <3>4, Zenon
  <2> QED BY <1>1, <1>2, <2>5, <2>6, Zenon
<1>7. ASSUME NEW hash, NEW index \in FoundPieces, insert_piece(hash, index) PROVE RevealInv'
  <2>1. hash \in DOMAIN torrents /\ index \in RevealPieces
    <3>1. index \in Nat /\ PieceCount \in Nat BY RevealAssumption, Zenon
    <3>2. hash \in DOMAIN torrents /\ index < PieceCount BY <1>7, Zenon DEF insert_piece, InRange
    <3> QED BY <3>1, <3>2 DEF RevealPieces
  <2>2. PICK status \in SUBSET RevealPieces : status = torrents[hash].status BY <1>1, <2>1, Zenon DEF EntryOK
  <2>3. PICK peers \in SUBSET RevealPeers : peers = torrents[hash].peers BY <1>1, <2>1, Zenon DEF EntryOK
  <2>4. PICK more : more = status \cup {index} BY Zenon
  <2>5. told' = [q \in RevealPeers |-> IF q \in peers THEN told[q] \cup {index} ELSE told[q]]
    BY <1>7, <2>3, Zenon DEF insert_piece
  <2>6. \A q \in peers : q.hash = hash /\ told[q] = status BY <1>1, <2>1, <2>2, <2>3, Zenon DEF EntryOK
  <2>7. \A q \in RevealPeers : told'[q] = IF q \in peers THEN more ELSE told[q] BY <2>4, <2>5, <2>6, Zenon
  <2>8. more \in SUBSET RevealPieces BY <2>1, <2>4, Zenon
  <2>9. told' \in [RevealPeers -> SUBSET RevealPieces]
    <3>1. \A q \in RevealPeers : told'[q] \in SUBSET RevealPieces BY <1>1, <2>7, <2>8, Zenon
    <3>2. told' = [q \in RevealPeers |-> told'[q]] BY <2>5, Zenon
    <3> QED BY <3>1, <3>2, Zenon
  <2>10. PICK entry : entry = [torrents[hash] EXCEPT !.status = more] BY Zenon
  <2>11. entry \in [status : SUBSET RevealPieces, peers : SUBSET RevealPeers] /\ entry.status = more /\ entry.peers = peers
    <3>1. torrents[hash] \in [status : SUBSET RevealPieces, peers : SUBSET RevealPeers] BY <1>1, <2>1, Zenon DEF EntryOK
    <3> QED BY <2>3, <2>8, <2>10, <3>1, Zenon
  <2>12. torrents' = [torrents EXCEPT ![hash] = entry]
    <3>1. torrents' = [torrents EXCEPT ![hash].status = torrents[hash].status \cup {index}] BY <1>7, Zenon DEF insert_piece
    <3> QED BY <2>2, <2>4, <2>10, <3>1, Zenon
  <2>13. ASSUME NEW h \in DOMAIN torrents' PROVE EntryOK(h, torrents'[h], told')
    <3>1. h \in DOMAIN torrents BY <2>12
    <3>2. CASE h = hash
      <4>1. torrents'[h] = entry BY <2>12, <3>1, <3>2
      <4> QED BY <2>6, <2>7, <2>11, <3>2, <4>1, Zenon DEF EntryOK
    <3>3. CASE h # hash
      <4>1. torrents'[h] = torrents[h] BY <2>12, <3>1, <3>3
      <4>2. EntryOK(h, torrents[h], told) BY <1>1, <3>1, Zenon
      <4>3. ASSUME NEW q \in torrents[h].peers PROVE q \in RevealPeers /\ q \notin peers
        <5>1. q \in RevealPeers /\ q.hash = h BY <4>2, <4>3, Zenon DEF EntryOK
        <5> QED BY <2>6, <3>3, <5>1, Zenon
      <4> QED BY <2>7, <4>1, <4>2, <4>3, Zenon DEF EntryOK
    <3> QED BY <3>2, <3>3, Zenon
  <2> QED BY <1>2, <2>9, <2>13, Zenon
<1>8. CASE UNCHANGED <<torrents, told>> BY <1>1, <1>2, <1>8, Zenon
<1>9. CASE poll_next_message BY <1>8, <1>9, Zenon DEF poll_next_message
<1>10. CASE UNCHANGED revealVars BY <1>8, <1>10, Zenon DEF revealVars
<1> QED BY <1>3, <1>4, <1>5, <1>6, <1>7, <1>9, <1>10, Zenon DEF RevealNext

(* For torrents of any number of pieces: whatever the order in which        *)
(* torrents and peers come and go and pieces are found, bitfields and haves *)
(* together tell each peer exactly the pieces HonestRevealModule has.       *)
THEOREM PeersAreTold == RevealSpec => []PeersKnowOurPieces
<1>1. RevealInv => PeersKnowOurPieces BY Zenon DEF RevealInv, PeersKnowOurPieces, RevealPieces
<1>2. RevealSpec => []RevealInv BY RevealInitially, RevealStep, PTL DEF RevealSpec
<1> QED BY <1>1, <1>2, PTL
=============================================================================
