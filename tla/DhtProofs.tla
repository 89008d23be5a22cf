----------------------------- MODULE DhtProofs -----------------------------
(***************************************************************************)
(* Three parts of the DHT, for every size.  Transaction ids identify       *)
(* requests: the blocks are given out in order and cyclically, so an id of *)
(* a block that lies f ids ahead of the current one was given at least     *)
(* max - prealloc - f ids before the current block was begun.  Tokens live *)
(* as long as they should: the age of a hand-out is bounded by the age of  *)
(* the store, differently for the current and for the last secret.  The    *)
(* storage serves the live peers: its list of expirations has the oldest   *)
(* first and each item once, and the other lists hold the same items.      *)
(***************************************************************************)
EXTENDS TransactionIds, TokenRequests, AnnounceStorage, FiniteSetTheorems, TLAPS

(* The first ids of the blocks.                                            *)
Starts(max, prealloc) == {b \in 0 .. (max - prealloc) : \E k \in 0 .. max : b = k * prealloc}

Block(start, prealloc) == start .. (start + prealloc - 1)

(* How many ids lie between the beginning of the current block and the one *)
(* of another, counted forward.                                            *)
Ahead(b, start, max) == IF b >= start THEN b - start ELSE b - start + max

(* The list of ids, newest last, is one of a generator in the block from   *)
(* start on, which has given out a number of its ids.  Only the ids that   *)
(* are still in the list after the next one are looked at.                 *)
Given(start, given, left, list, max, prealloc) ==
    \A k \in 1 .. Len(list) : Len(list) - k < max - prealloc => \E b \in Starts(max, prealloc) :
        /\ list[k] \in Block(b, prealloc)
        /\ IF b = start THEN list[k] \notin left
           ELSE Len(list) - k >= given + max - prealloc - Ahead(b, start, max)

InBlock(gen, list, max, prealloc) ==
    \E start \in Starts(max, prealloc) : \E given \in 0 .. prealloc :
        /\ gen.next = start + prealloc
        /\ gen.left \in SUBSET Block(start, prealloc)
        /\ Cardinality(gen.left) = prealloc - given
        /\ Given(start, given, gen.left, list, max, prealloc)

Once(list) == \A j, k \in 1 .. Len(list) : list[j] = list[k] => j = k

Right(gen, list, max, prealloc) ==
    /\ list \in Seq(0 .. (max - 1))
    /\ Once(list)
    /\ \/ gen.next = 0 /\ gen.left = {} /\ list = <<>>
       \/ InBlock(gen, list, max, prealloc)

(* A list with one more id, and without the oldest that are too many.      *)
Grown(longer, list, id, most) ==
    /\ Len(longer) \in 1 .. most /\ Len(longer) <= Len(list) + 1
    /\ longer[Len(longer)] = id
    /\ \A j \in 1 .. (Len(longer) - 1) : longer[j] = list[j + Len(list) + 1 - Len(longer)]

Fits(max, prealloc) ==
    /\ max \in Nat \ {0} /\ prealloc \in Nat \ {0}
    /\ \E blocks \in 1 .. max : max = blocks * prealloc

-----------------------------------------------------------------------------
(* Blocks do not overlap, and behind one comes the next or the end.        *)
LEMMA StartsApart ==
    ASSUME NEW max, NEW prealloc, Fits(max, prealloc),
           NEW a \in Starts(max, prealloc), NEW b \in Starts(max, prealloc)
    PROVE  /\ a \in 0 .. (max - prealloc)
           /\ a < b => a + prealloc <= b
           /\ a + prealloc # max => a + prealloc \in Starts(max, prealloc)
  <1> USE DEF Fits
  <1>1. PICK blocks \in 1 .. max : max = blocks * prealloc
    OBVIOUS
  <1>2. PICK i \in 0 .. max : a = i * prealloc
    BY DEF Starts
  <1>3. PICK j \in 0 .. max : b = j * prealloc
    BY DEF Starts
  <1>4. a \in 0 .. (max - prealloc) /\ b \in 0 .. (max - prealloc)
    BY DEF Starts
  <1>5. ASSUME a < b PROVE a + prealloc <= b
    <2>1. i < j
      BY <1>2, <1>3, <1>5
    <2>2. (i + 1) * prealloc <= j * prealloc
      BY <2>1
    <2> QED
      BY <1>2, <1>3, <2>2
  <1>6. ASSUME a + prealloc # max PROVE a + prealloc \in Starts(max, prealloc)
    <2>1. i < blocks
      BY <1>1, <1>2, <1>4
    <2>2. i + 1 # blocks
      BY <1>1, <1>2, <1>6
    <2>3. i + 2 <= blocks
      BY <2>1, <2>2
    <2>4. (i + 2) * prealloc <= blocks * prealloc
      BY <2>3
    <2>5. a + prealloc = (i + 1) * prealloc
      BY <1>2
    <2>6. a + prealloc <= max - prealloc
      BY <1>1, <2>4, <2>5
    <2>7. i + 1 \in 0 .. max
      BY <2>1, <1>1
    <2>8. a + prealloc \in 0 .. (max - prealloc)
      BY <1>4, <2>6
    <2>9. \E k \in 0 .. max : a + prealloc = k * prealloc
      BY <2>5, <2>7, Zenon
    <2> QED
      BY <2>8, <2>9, Zenon DEF Starts
  <1> QED
    BY <1>4, <1>5, <1>6

(* There is a block from 0 on.                                             *)
LEMMA FirstStart ==
    ASSUME NEW max, NEW prealloc, Fits(max, prealloc)
    PROVE  0 \in Starts(max, prealloc)
  <1>1. PICK blocks \in 1 .. max : max = blocks * prealloc
    BY DEF Fits
  <1>2. prealloc <= max
    BY <1>1 DEF Fits
  <1> QED
    BY <1>2 DEF Fits, Starts

(* A block holds as many ids as its length says.                           *)
LEMMA BlockSize ==
    ASSUME NEW start \in Nat, NEW prealloc \in Nat \ {0}
    PROVE  /\ IsFiniteSet(Block(start, prealloc))
           /\ Cardinality(Block(start, prealloc)) = prealloc
           /\ Block(start, prealloc) # {}
  <1>1. start \in Int /\ start + prealloc - 1 \in Int /\ start <= start + prealloc - 1
    OBVIOUS
  <1>2. /\ IsFiniteSet(start .. (start + prealloc - 1))
        /\ Cardinality(start .. (start + prealloc - 1)) = (start + prealloc - 1) - start + 1
    BY <1>1, FS_Interval
  <1>3. start \in Block(start, prealloc)
    BY <1>1 DEF Block
  <1>4. (start + prealloc - 1) - start + 1 = prealloc
    OBVIOUS
  <1>5. IsFiniteSet(Block(start, prealloc)) /\ Cardinality(Block(start, prealloc)) = prealloc
    BY <1>2, <1>4, Zenon DEF Block
  <1> QED
    BY <1>3, <1>5, Zenon

(* The generator that goes on to the next block is in that block, and no   *)
(* id of the block is among the recent ones.                               *)
LEMMA NextBlock ==
    ASSUME NEW max, NEW prealloc, Fits(max, prealloc), NEW list, list \in Seq(0 .. (max - 1)),
           NEW start \in Starts(max, prealloc), NEW next \in Starts(max, prealloc),
           next = IF start + prealloc = max THEN 0 ELSE start + prealloc,
           Given(start, prealloc, {}, list, max, prealloc)
    PROVE  Given(next, 0, Block(next, prealloc), list, max, prealloc)
  <1> SUFFICES ASSUME NEW k \in 1 .. Len(list), Len(list) - k < max - prealloc
               PROVE  \E b \in Starts(max, prealloc) :
                        /\ list[k] \in Block(b, prealloc)
                        /\ IF b = next THEN list[k] \notin Block(next, prealloc)
                           ELSE Len(list) - k >= 0 + max - prealloc - Ahead(b, next, max)
    BY DEF Given
  <1>1. PICK b \in Starts(max, prealloc) :
          /\ list[k] \in Block(b, prealloc)
          /\ b # start => Len(list) - k >= prealloc + max - prealloc - Ahead(b, start, max)
    BY DEF Given
  <1>2. max \in Nat \ {0} /\ prealloc \in Nat \ {0} /\ Len(list) \in Nat
    BY DEF Fits
  <1>3. /\ b \in 0 .. (max - prealloc) /\ start \in 0 .. (max - prealloc) /\ next \in 0 .. (max - prealloc)
        /\ b < start => b + prealloc <= start
        /\ start < b => start + prealloc <= b
    BY StartsApart
  <1> DEFINE back == Len(list) - k
  <1>4. back \in Nat /\ back < max - prealloc
    BY <1>2
  <1> HIDE DEF back
  <1>5. CASE b = start
    <2>1. b # next /\ Ahead(b, next, max) = max - prealloc
      BY <1>2, <1>3, <1>4, <1>5 DEF Ahead
    <2>2. back >= 0 + max - prealloc - Ahead(b, next, max)
      BY <1>2, <1>4, <2>1
    <2> QED
      BY <1>1, <2>1, <2>2 DEF back
  <1>6. CASE b # start
    <2>1. back >= prealloc + max - prealloc - Ahead(b, start, max)
      BY <1>1, <1>6 DEF back
    <2>2. b # next
      BY <1>2, <1>3, <1>4, <1>6, <2>1 DEF Ahead
    <2>3. Ahead(b, next, max) = Ahead(b, start, max) - prealloc
      BY <1>2, <1>3, <1>6, <2>2 DEF Ahead
    <2>4. Ahead(b, start, max) \in Int
      BY <1>2, <1>3 DEF Ahead
    <2>5. back >= 0 + max - prealloc - Ahead(b, next, max)
      BY <1>2, <1>4, <2>1, <2>3, <2>4
    <2> QED
      BY <1>1, <2>2, <2>5 DEF back
  <1> QED
    BY <1>5, <1>6

(* A generator that has a block loaded.                                    *)
LEMMA LoadedInBlock ==
    ASSUME NEW max, NEW prealloc, Fits(max, prealloc), NEW gen, NEW list, Right(gen, list, max, prealloc)
    PROVE  InBlock(Loaded(gen, max, prealloc), list, max, prealloc)
  <1> DEFINE fresh == generate_ids(gen.next, max, prealloc)
             begin == IF gen.next = max THEN 0 ELSE gen.next
  <1>1. max \in Nat \ {0} /\ prealloc \in Nat \ {0} /\ list \in Seq(0 .. (max - 1))
    BY DEF Fits, Right
  <1>2. fresh = [next |-> begin + prealloc, left |-> Block(begin, prealloc)]
    BY DEF generate_ids, Block
  <1>3. ASSUME begin \in Starts(max, prealloc), Given(begin, 0, Block(begin, prealloc), list, max, prealloc)
        PROVE  InBlock(fresh, list, max, prealloc)
    <2>1. begin \in Nat
      BY <1>1, <1>3 DEF Starts
    <2> HIDE DEF begin
    <2>2. Cardinality(Block(begin, prealloc)) = prealloc - 0
      BY <1>1, <2>1, BlockSize
    <2>3. 0 \in 0 .. prealloc
      BY <1>1
    <2> HIDE DEF fresh
    <2>4. fresh.next = begin + prealloc /\ fresh.left = Block(begin, prealloc)
      BY <1>2
    <2> QED
      BY <1>3, <2>2, <2>3, <2>4 DEF InBlock
  <1>4. CASE gen.left # {}
    BY <1>4 DEF Loaded, Right
  <1>5. CASE gen.left = {} /\ gen.next = 0 /\ list = <<>>
    <2>1. begin = 0
      BY <1>1, <1>5
    <2>2. Given(0, 0, Block(0, prealloc), list, max, prealloc)
      BY <1>5 DEF Given
    <2> QED
      BY <1>3, <1>5, <2>1, <2>2, FirstStart DEF Loaded
  <1>6. CASE gen.left = {} /\ InBlock(gen, list, max, prealloc)
    <2>1. PICK start \in Starts(max, prealloc), given \in 0 .. prealloc :
            /\ gen.next = start + prealloc /\ Cardinality(gen.left) = prealloc - given
            /\ Given(start, given, gen.left, list, max, prealloc)
      BY <1>6 DEF InBlock
    <2>2. given = prealloc
      BY <1>1, <1>6, <2>1, FS_EmptySet
    <2>3. begin = IF start + prealloc = max THEN 0 ELSE start + prealloc
      BY <2>1
    <2> HIDE DEF begin
    <2>4. begin \in Starts(max, prealloc)
      BY <2>3, StartsApart, FirstStart
    <2>5. Given(begin, 0, Block(begin, prealloc), list, max, prealloc)
      BY <1>1, <1>6, <2>1, <2>2, <2>3, <2>4, NextBlock, Zenon
    <2> QED
      BY <1>3, <1>6, <2>4, <2>5 DEF Loaded
  <1> QED
    BY <1>4, <1>5, <1>6 DEF Right

(* Giving out an id that is left keeps the list right: no recent id is     *)
(* that one, and all of them are one id older.                             *)
LEMMA GivenKeeps ==
    ASSUME NEW max, NEW prealloc, Fits(max, prealloc), NEW list, list \in Seq(0 .. (max - 1)), Once(list),
           NEW gen, InBlock(gen, list, max, prealloc), NEW id \in gen.left,
           NEW longer, longer \in Seq(0 .. (max - 1)), Grown(longer, list, id, max - prealloc + 1),
           NEW then, then.next = gen.next, then.left = gen.left \ {id}
    PROVE  Right(then, longer, max, prealloc)
  <1> DEFINE m == Len(list)
             n == Len(longer)
  <1>1. max \in Nat \ {0} /\ prealloc \in Nat \ {0} /\ m \in Nat
    BY DEF Fits
  <1>2. n \in 1 .. (max - prealloc + 1) /\ n <= m + 1 /\ longer[n] = id
    BY DEF Grown
  <1>3. \A j \in 1 .. (n - 1) : longer[j] = list[j + m + 1 - n]
    BY DEF Grown
  <1>4. \A j, k \in 1 .. m : list[j] = list[k] => j = k
    BY DEF Once
  <1>5. PICK start \in Starts(max, prealloc), given \in 0 .. prealloc :
          /\ gen.next = start + prealloc
          /\ gen.left \in SUBSET Block(start, prealloc)
          /\ Cardinality(gen.left) = prealloc - given
          /\ Given(start, given, gen.left, list, max, prealloc)
    BY DEF InBlock
  <1>6. \A k \in 1 .. m : m - k < max - prealloc => \E b \in Starts(max, prealloc) :
          /\ list[k] \in Block(b, prealloc)
          /\ IF b = start THEN list[k] \notin gen.left
             ELSE m - k >= given + max - prealloc - Ahead(b, start, max)
    BY <1>5 DEF Given
  <1>7. \A b \in Starts(max, prealloc) : b \in Nat
    BY <1>1 DEF Starts
  <1> HIDE DEF m, n
  <1>8. Cardinality(then.left) = prealloc - (given + 1) /\ given + 1 \in 0 .. prealloc
    <2>1. start \in Nat
      BY <1>7
    <2>2. IsFiniteSet(gen.left)
      BY <1>1, <1>5, <2>1, BlockSize, FS_Subset
    <2>3. Cardinality(gen.left \ {id}) = Cardinality(gen.left) - 1
      BY <2>2, FS_RemoveElement, Zenon
    <2>4. Cardinality(gen.left) \in Nat /\ Cardinality(gen.left) # 0
      BY <2>2, FS_CardinalityType, FS_EmptySet
    <2> QED
      BY <1>1, <1>5, <2>3, <2>4
  <1>9. ASSUME NEW j \in 1 .. (n - 1)
        PROVE  \E b \in Starts(max, prealloc) :
                 /\ longer[j] \in Block(b, prealloc)
                 /\ IF b = start THEN longer[j] \notin gen.left
                    ELSE n - j >= given + 1 + max - prealloc - Ahead(b, start, max)
    <2> DEFINE k == j + m + 1 - n
    <2>1. k \in 1 .. m /\ m - k < max - prealloc /\ n - j = m - k + 1 /\ m - k \in Int
      <3>0. n \in Nat /\ n <= max - prealloc + 1 /\ n <= m + 1
        BY <1>1, <1>2
      <3>1. n \in Nat /\ n <= max - prealloc + 1 /\ n <= m + 1 /\ j \in Nat /\ 1 <= j /\ j <= n - 1
        BY <3>0
      <3>2. k \in Int /\ 1 <= k /\ k <= m
        BY <1>1, <3>1
      <3>3. m - k = n - j - 1 /\ n - j - 1 < max - prealloc
        BY <1>1, <3>1
      <3> HIDE DEF k
      <3>4. m \in Nat /\ m - k \in Int
        BY <1>1, <3>2
      <3>5. k \in 1 .. m
        BY <3>2, <3>4
      <3>6. n - j = m - k + 1
        BY <3>1, <3>3, <3>4
      <3>7. m - k < max - prealloc
        BY <3>3, Zenon
      <3> QED
        BY <3>4, <3>5, <3>6, <3>7, Zenon
    <2>2. longer[j] = list[k]
      BY <1>3
    <2> HIDE DEF k
    <2>3. PICK b \in Starts(max, prealloc) :
            /\ list[k] \in Block(b, prealloc)
            /\ IF b = start THEN list[k] \notin gen.left
               ELSE m - k >= given + max - prealloc - Ahead(b, start, max)
      BY <1>6, <2>1
    <2>4. b \in Nat /\ start \in Nat
      BY <1>7
    <2>5. Ahead(b, start, max) \in Int
      BY <1>1, <2>4 DEF Ahead
    <2>6. CASE b = start
      BY <2>2, <2>3, <2>6
    <2>7. CASE b # start
      <3>1. m - k >= given + max - prealloc - Ahead(b, start, max)
        BY <2>3, <2>7
      <3>2. n - j >= given + 1 + max - prealloc - Ahead(b, start, max)
        BY <1>1, <2>1, <2>5, <3>1, SMTT(40), Z3T(40)
      <3> QED
        BY <2>2, <2>3, <2>7, <3>2
    <2> QED
      BY <2>6, <2>7
  <1>10. ASSUME NEW j \in 1 .. (n - 1) PROVE longer[j] # id
    <2>1. PICK b \in Starts(max, prealloc) :
            longer[j] \in Block(b, prealloc) /\ (b = start => longer[j] \notin gen.left)
      BY <1>9
    <2>2. /\ b < start => b + prealloc <= start
          /\ start < b => start + prealloc <= b
      BY StartsApart
    <2>3. id \in Block(start, prealloc)
      BY <1>5
    <2>4. b \in Nat /\ start \in Nat
      BY <1>7
    <2>5. CASE b = start
      BY <2>1, <2>5
    <2>6. CASE b # start
      <3>1. \A e : e \in Block(b, prealloc) => e \in Int /\ b <= e /\ e < b + prealloc
        BY <1>1, <2>4 DEF Block
      <3>2. id \in Int /\ start <= id /\ id < start + prealloc
        BY <1>1, <2>3, <2>4 DEF Block
      <3>3. id \notin Block(b, prealloc)
        BY <1>1, <2>2, <2>4, <2>6, <3>1, <3>2
      <3> QED
        BY <2>1, <3>3
    <2> QED
      BY <2>5, <2>6
  <1>11. ASSUME NEW i \in 1 .. n, NEW j \in 1 .. n, longer[i] = longer[j] PROVE i = j
    <2>0. n \in Nat
      BY <1>1, <1>2
    <2>1. n \in Nat /\ (\A l \in 1 .. n : l # n => l \in 1 .. (n - 1))
      BY <2>0
    <2>2. CASE i = n \/ j = n
      BY <1>2, <1>10, <1>11, <2>1, <2>2
    <2>3. CASE i # n /\ j # n
      <3>1. i \in 1 .. (n - 1) /\ j \in 1 .. (n - 1)
        BY <2>1, <2>3
      <3>2. i + m + 1 - n \in 1 .. m /\ j + m + 1 - n \in 1 .. m
        BY <1>1, <1>2, <2>1, <3>1
      <3>3. i + m + 1 - n = j + m + 1 - n
        BY <1>3, <1>4, <1>11, <3>1, <3>2
      <3> QED
        BY <1>1, <2>1, <3>3
    <2> QED
      BY <2>2, <2>3
  <1>12. ASSUME NEW k \in 1 .. n
         PROVE  \E b \in Starts(max, prealloc) :
                  /\ longer[k] \in Block(b, prealloc)
                  /\ IF b = start THEN longer[k] \notin then.left
                     ELSE n - k >= given + 1 + max - prealloc - Ahead(b, start, max)
    <2>1. CASE k = n
      <3>1. id \in Block(start, prealloc) /\ id \notin then.left
        BY <1>5
      <3> QED
        BY <1>2, <2>1, <3>1
    <2>2. CASE k # n
      <3>1. k \in 1 .. (n - 1)
        BY <1>1, <1>2, <2>2
      <3> QED
        BY <1>9, <3>1
    <2> QED
      BY <2>1, <2>2
  <1>13. Once(longer) /\ Given(start, given + 1, then.left, longer, max, prealloc)
    BY <1>11, <1>12 DEF Once, Given, n
  <1>14. then.left \in SUBSET Block(start, prealloc) /\ then.next = start + prealloc
    BY <1>5
  <1>15. InBlock(then, longer, max, prealloc)
    BY <1>8, <1>13, <1>14 DEF InBlock
  <1> QED
    BY <1>13, <1>15 DEF Right

(* An id has its action in front.                                          *)
LEMMA ActionInFront ==
    ASSUME NEW max \in Nat \ {0}, NEW a \in Nat, NEW m \in 0 .. (max - 1)
    PROVE  (a * max + m) \div max = a
  OBVIOUS

(* Latest keeps the newest of a list.                                      *)
LEMMA LatestGrown ==
    ASSUME NEW S, NEW list \in Seq(S), NEW e \in S, NEW most \in Nat \ {0}
    PROVE  LET longer == Latest(Append(list, e), most)
           IN  longer \in Seq(S) /\ Grown(longer, list, e, most)
  <1> DEFINE all == Append(list, e)
             n == Len(list)
  <1>1. n \in Nat /\ all \in Seq(S) /\ Len(all) = n + 1
    OBVIOUS
  <1>2. all[n + 1] = e /\ \A j \in 1 .. n : all[j] = list[j]
    OBVIOUS
  <1> HIDE DEF all, n
  <1>3. CASE n + 1 <= most
    <2>1. Latest(all, most) = all
      BY <1>1, <1>3 DEF Latest
    <2>2. Grown(all, list, e, most)
      BY <1>1, <1>2, <1>3 DEF Grown, n
    <2> QED
      BY <1>1, <2>1, <2>2 DEF all
  <1>4. CASE ~(n + 1 <= most)
    <2> DEFINE cut == SubSeq(all, n + 1 - most + 1, n + 1)
    <2>1. Latest(all, most) = cut
      BY <1>1, <1>4 DEF Latest
    <2>2. cut \in Seq(S) /\ Len(cut) = most
      BY <1>1, <1>4
    <2>3. \A j \in 1 .. most : cut[j] = all[j + n + 1 - most]
      BY <1>1, <1>4
    <2> HIDE DEF cut
    <2>4. cut[most] = e
      BY <1>1, <1>2, <2>3
    <2>5. \A j \in 1 .. (most - 1) : cut[j] = list[j + n + 1 - most]
      BY <1>1, <1>2, <1>4, <2>3
    <2>6. Grown(cut, list, e, most)
      BY <1>1, <1>4, <2>2, <2>4, <2>5 DEF Grown, n
    <2> QED
      BY <2>1, <2>2, <2>6 DEF all
  <1> QED
    BY <1>3, <1>4

-----------------------------------------------------------------------------
Generators == [next : Nat, left : SUBSET Nat]

Mids == [action : 0 .. (MaxActionId - 1), next : Nat, left : SUBSET Nat]

(* The message ids of the newest action that are remembered.               *)
SentIds == [k \in 1 .. Len(sent) |-> sent[k] - mids[Len(mids)].action * MaxMessageId]

IdInv ==
    /\ aids \in Generators
    /\ Right(aids, actions, MaxActionId, ActionPrealloc)
    /\ mids \in Seq(Mids)
    /\ sent \in Seq(Nat)
    /\ mids = <<>> => sent = <<>>
    /\ mids # <<>> => Right(mids[Len(mids)], SentIds, MaxMessageId, MessagePrealloc)

(* The sizes of the generators are ones that Fits allows.                  *)
LEMMA Sizes ==
    /\ Fits(MaxActionId, ActionPrealloc) /\ Fits(MaxMessageId, MessagePrealloc)
    /\ MaxActionId - ActionPrealloc + 1 \in Nat \ {0}
    /\ MaxMessageId - MessagePrealloc + 1 \in Nat \ {0}
    /\ Actions \in Nat \ {0}
  <1>1. Fits(MaxActionId, ActionPrealloc) /\ Fits(MaxMessageId, MessagePrealloc) /\ Actions \in Nat \ {0}
    BY BlocksFit DEF Fits
  <1>2. \A max, prealloc : Fits(max, prealloc) => max - prealloc + 1 \in Nat \ {0}
    <2> SUFFICES ASSUME NEW max, NEW prealloc, Fits(max, prealloc) PROVE max - prealloc + 1 \in Nat \ {0}
      OBVIOUS
    <2>1. 0 \in 0 .. (max - prealloc)
      BY FirstStart DEF Starts
    <2> QED
      BY <2>1 DEF Fits
  <1> QED
    BY <1>1, <1>2

(* The ids of a block are ids.                                             *)
LEMMA BlockIds ==
    ASSUME NEW max, NEW prealloc, Fits(max, prealloc), NEW start \in Starts(max, prealloc)
    PROVE  Block(start, prealloc) \subseteq 0 .. (max - 1)
  BY DEF Fits, Starts, Block

(* The places of a list and what is in them.                               *)
LEMMA Elements ==
    ASSUME NEW S, NEW s \in Seq(S)
    PROVE  /\ DOMAIN s = 1 .. Len(s)
           /\ \A k \in 1 .. Len(s) : s[k] \in S
           /\ s # <<>> => Len(s) \in 1 .. Len(s)
  OBVIOUS

(* A generator that has gone on to its next block is a generator.          *)
LEMMA LoadedGenerator ==
    ASSUME NEW gen \in Generators, NEW max \in Nat, NEW prealloc \in Nat
    PROVE  Loaded(gen, max, prealloc) \in Generators
  BY DEF Loaded, generate_ids, Generators

(* An id of an action taken from the generator of actions.                 *)
LEMMA ActionStep == IdInv /\ GenerateAction => IdInv'
  <1> SUFFICES ASSUME IdInv, GenerateAction PROVE IdInv'
    OBVIOUS
  <1> DEFINE gen == Loaded(aids, MaxActionId, ActionPrealloc)
             most == MaxActionId - ActionPrealloc + 1
  <1>1. PICK id \in gen.left :
          /\ aids' = [gen EXCEPT !.left = @ \ {id}]
          /\ mids' = Latest(Append(mids, NewMids(id)), Actions)
          /\ actions' = Latest(Append(actions, id), most)
          /\ sent' = <<>>
    BY Zenon DEF GenerateAction
  <1>2. Fits(MaxActionId, ActionPrealloc) /\ most \in Nat \ {0} /\ Actions \in Nat \ {0} /\ MaxActionId \in Nat
    BY Sizes, Zenon DEF Fits
  <1>3. gen \in Generators
    BY LoadedGenerator, BlocksFit DEF IdInv
  <1>4. InBlock(gen, actions, MaxActionId, ActionPrealloc)
    BY <1>2, LoadedInBlock DEF IdInv
  <1> HIDE DEF gen
  <1>5. id \in 0 .. (MaxActionId - 1)
    <2>1. PICK start \in Starts(MaxActionId, ActionPrealloc) : gen.left \in SUBSET Block(start, ActionPrealloc)
      BY <1>4 DEF InBlock
    <2> QED
      BY <1>1, <1>2, <2>1, BlockIds
  <1>6. actions \in Seq(0 .. (MaxActionId - 1)) /\ Once(actions)
    BY DEF IdInv, Right
  <1> HIDE DEF most
  <1>7. actions' \in Seq(0 .. (MaxActionId - 1)) /\ Grown(actions', actions, id, most)
    BY <1>1, <1>2, <1>5, <1>6, LatestGrown, Zenon
  <1>8. aids' \in Generators /\ aids'.next = gen.next /\ aids'.left = gen.left \ {id}
    BY <1>1, <1>3 DEF Generators
  <1>9. Right(aids', actions', MaxActionId, ActionPrealloc)
    BY <1>1, <1>2, <1>4, <1>6, <1>7, <1>8, GivenKeeps, Zenon DEF most
  <1>10. NewMids(id) \in Mids /\ mids \in Seq(Mids)
    BY <1>5 DEF NewMids, IdInv, Mids
  <1>11. mids' \in Seq(Mids) /\ Grown(mids', mids, NewMids(id), Actions)
    BY <1>1, <1>2, <1>10, LatestGrown
  <1>12. mids'[Len(mids')] = NewMids(id)
    BY <1>11 DEF Grown
  <1>13. SentIds' = <<>>
    BY <1>1 DEF SentIds
  <1>14. Right(NewMids(id), SentIds', MaxMessageId, MessagePrealloc)
    BY <1>13 DEF Right, Once, NewMids
  <1> QED
    BY <1>1, <1>8, <1>9, <1>11, <1>12, <1>14 DEF IdInv

(* What Right says of a generator depends on its next and left.            *)
LEMMA SameGenerator ==
    ASSUME NEW gen, NEW other, other.next = gen.next, other.left = gen.left, NEW list, NEW max, NEW prealloc,
           Right(gen, list, max, prealloc)
    PROVE  Right(other, list, max, prealloc)
  BY DEF Right, InBlock

(* A message of the newest action.                                         *)
LEMMA NewestStep ==
    ASSUME IdInv, mids # <<>>, GenerateMessage(Len(mids))
    PROVE  Right(mids'[Len(mids')], SentIds', MaxMessageId, MessagePrealloc) /\ sent' \in Seq(Nat)
  <1> DEFINE last == mids[Len(mids)]
             held == [next |-> last.next, left |-> last.left]
             gen == Loaded(held, MaxMessageId, MessagePrealloc)
             most == MaxMessageId - MessagePrealloc + 1
  <1>1. PICK id \in gen.left :
          /\ mids' = [mids EXCEPT ![Len(mids)] = [action |-> last.action, next |-> gen.next, left |-> gen.left \ {id}]]
          /\ sent' = Latest(Append(sent, TransactionID(last.action, id)), most)
    BY Zenon DEF GenerateMessage
  <1>2. Len(mids) \in 1 .. Len(mids) /\ last \in Mids /\ mids \in Seq(Mids)
    BY Elements DEF IdInv
  <1>3. Fits(MaxMessageId, MessagePrealloc) /\ most \in Nat \ {0} /\ MaxMessageId \in Nat \ {0} /\ MaxActionId \in Nat
    BY Sizes, BlocksFit DEF Fits
  <1>4. Right(held, SentIds, MaxMessageId, MessagePrealloc)
    BY SameGenerator DEF IdInv
  <1>5. InBlock(gen, SentIds, MaxMessageId, MessagePrealloc)
    BY <1>3, <1>4, LoadedInBlock
  <1>6. /\ Len(mids') = Len(mids) /\ mids'[Len(mids)].action = last.action
        /\ mids'[Len(mids)].next = gen.next /\ mids'[Len(mids)].left = gen.left \ {id}
    <2> HIDE DEF gen, last
    <2> QED
      BY <1>1, <1>2
  <1> DEFINE a == last.action
  <1>7. a \in Nat
    BY <1>2, <1>3 DEF Mids
  <1>8. SentIds = [k \in 1 .. Len(sent) |-> sent[k] - a * MaxMessageId]
        /\ SentIds' = [k \in 1 .. Len(sent') |-> sent'[k] - a * MaxMessageId]
    BY <1>6 DEF SentIds
  <1> HIDE DEF a, gen, held, last
  <1>9. id \in 0 .. (MaxMessageId - 1)
    <2>1. PICK start \in Starts(MaxMessageId, MessagePrealloc) : gen.left \in SUBSET Block(start, MessagePrealloc)
      BY <1>5 DEF InBlock
    <2> QED
      BY <1>1, <1>3, <2>1, BlockIds
  <1>10. a * MaxMessageId \in Nat /\ a * MaxMessageId + id \in Nat
    BY <1>3, <1>7, <1>9
  <1> DEFINE base == a * MaxMessageId
  <1>11. sent \in Seq(Nat) /\ SentIds \in Seq(0 .. (MaxMessageId - 1)) /\ Once(SentIds)
    BY <1>4 DEF IdInv, Right
  <1> HIDE DEF most
  <1>12. sent' \in Seq(Nat) /\ Grown(sent', sent, base + id, most)
    BY <1>1, <1>3, <1>10, <1>11, LatestGrown, Zenon DEF TransactionID, a
  <1> HIDE DEF base
  <1>13. /\ Len(sent) \in Nat /\ Len(sent') \in Nat /\ base \in Nat
         /\ SentIds = [k \in 1 .. Len(sent) |-> sent[k] - base]
         /\ SentIds' = [k \in 1 .. Len(sent') |-> sent'[k] - base]
    BY <1>8, <1>10, <1>11, <1>12 DEF base
  <1>14. Len(SentIds) = Len(sent) /\ Len(SentIds') = Len(sent')
    BY <1>13
  <1> DEFINE n == Len(sent')
             m == Len(sent)
  <1>15. n \in 1 .. most /\ n <= m + 1 /\ sent'[n] = base + id
         /\ \A j \in 1 .. (n - 1) : sent'[j] = sent[j + m + 1 - n]
    BY <1>12 DEF Grown
  <1>16. n \in Nat /\ m \in Nat /\ most \in Nat
    BY <1>3, <1>13
  <1> HIDE DEF n, m
  <1>17. SentIds'[n] = id
    <2>1. n \in 1 .. n
      BY <1>15, <1>16
    <2>2. SentIds'[n] = sent'[n] - base
      BY <1>13, <2>1 DEF n
    <2> QED
      BY <1>9, <1>13, <1>15, <2>2
  <1>18. \A j \in 1 .. (n - 1) : SentIds'[j] = SentIds[j + m + 1 - n]
    <2> SUFFICES ASSUME NEW j \in 1 .. (n - 1) PROVE SentIds'[j] = SentIds[j + m + 1 - n]
      OBVIOUS
    <2>1. j \in 1 .. n /\ j + m + 1 - n \in 1 .. m
      BY <1>15, <1>16
    <2>2. SentIds'[j] = sent'[j] - base
      BY <1>13, <2>1 DEF n
    <2>3. SentIds[j + m + 1 - n] = sent[j + m + 1 - n] - base
      BY <1>13, <2>1 DEF m
    <2> QED
      BY <1>15, <2>2, <2>3
  <1>19. Grown(SentIds', SentIds, id, most)
    BY <1>14, <1>15, <1>17, <1>18 DEF Grown, n, m
  <1>20. SentIds' \in Seq(0 .. (MaxMessageId - 1))
    <2>1. \A j \in 1 .. n : SentIds'[j] \in 0 .. (MaxMessageId - 1)
      <3> SUFFICES ASSUME NEW j \in 1 .. n PROVE SentIds'[j] \in 0 .. (MaxMessageId - 1)
        OBVIOUS
      <3>1. CASE j = n
        BY <1>9, <1>17, <3>1
      <3>2. CASE j # n
        <4>1. j \in 1 .. (n - 1) /\ j + m + 1 - n \in 1 .. m
          BY <1>15, <1>16, <3>2
        <4>2. SentIds[j + m + 1 - n] \in 0 .. (MaxMessageId - 1)
          BY <1>11, <1>14, <4>1, Elements, Zenon DEF m
        <4> QED
          BY <1>18, <4>1, <4>2
      <3> QED
        BY <3>1, <3>2
    <2> QED
      BY <1>13, <2>1 DEF n
  <1>21. Right(mids'[Len(mids)], SentIds', MaxMessageId, MessagePrealloc)
    BY <1>1, <1>3, <1>5, <1>6, <1>11, <1>19, <1>20, GivenKeeps, Zenon DEF most
  <1> QED
    BY <1>6, <1>12, <1>21

(* A message of any action that is remembered.                             *)
LEMMA MessageStep == ASSUME IdInv, NEW k \in DOMAIN mids, GenerateMessage(k) PROVE IdInv'
  <1> DEFINE held == [next |-> mids[k].next, left |-> mids[k].left]
             gen == Loaded(held, MaxMessageId, MessagePrealloc)
             new(id) == [action |-> mids[k].action, next |-> gen.next, left |-> gen.left \ {id}]
  <1>1. PICK id \in gen.left : mids' = [mids EXCEPT ![k] = new(id)]
    BY Zenon DEF GenerateMessage
  <1>2. mids \in Seq(Mids) /\ k \in 1 .. Len(mids) /\ mids[k] \in Mids /\ mids # <<>>
    BY Elements DEF IdInv
  <1>3. held \in Generators
    BY <1>2 DEF Generators, Mids
  <1>4. gen \in Generators
    BY <1>3, LoadedGenerator, BlocksFit
  <1>5. new(id) \in Mids
    BY <1>2, <1>4 DEF Generators, Mids
  <1> HIDE DEF new
  <1>6. mids' \in Seq(Mids) /\ Len(mids') = Len(mids) /\ mids' # <<>>
        /\ (k # Len(mids) => mids'[Len(mids)] = mids[Len(mids)])
    BY <1>1, <1>2, <1>5
  <1>7. UNCHANGED <<aids, actions>> /\ (k # Len(mids) => sent' = sent)
    BY DEF GenerateMessage
  <1>8. sent' \in Seq(Nat) /\ Right(mids'[Len(mids')], SentIds', MaxMessageId, MessagePrealloc)
    <2>1. CASE k = Len(mids)
      BY <1>2, <2>1, NewestStep
    <2>2. CASE k # Len(mids)
      <3>1. SentIds' = SentIds
        BY <1>6, <1>7, <2>2 DEF SentIds
      <3> QED
        BY <1>2, <1>6, <1>7, <2>2, <3>1 DEF IdInv
    <2> QED
      BY <2>1, <2>2
  <1> QED
    BY <1>6, <1>7, <1>8 DEF IdInv

(* Every reachable state satisfies IdInv.                                  *)
LEMMA IdInvariance == IdsSpec => []IdInv
  <1>1. IdsInit => IdInv
    <2> SUFFICES ASSUME IdsInit PROVE IdInv
      OBVIOUS
    <2> DEFINE none == [next |-> 0, left |-> {}]
    <2>1. Right(none, <<>>, MaxActionId, ActionPrealloc)
      BY DEF Right, Once
    <2>2. Loaded(none, MaxActionId, ActionPrealloc) = generate_ids(0, MaxActionId, ActionPrealloc)
      BY DEF Loaded
    <2>3. none \in Generators
      BY DEF Generators
    <2>4. aids \in Generators
      BY <2>2, <2>3, LoadedGenerator, BlocksFit DEF IdsInit
    <2>5. InBlock(aids, <<>>, MaxActionId, ActionPrealloc)
      BY <2>1, <2>2, Sizes, LoadedInBlock DEF IdsInit
    <2> QED
      BY <2>4, <2>5 DEF IdsInit, IdInv, Right, Once
  <1>2. IdInv /\ [IdsNext]_idVars => IdInv'
    <2> SUFFICES ASSUME IdInv, [IdsNext]_idVars PROVE IdInv'
      OBVIOUS
    <2>1. CASE UNCHANGED idVars
      BY <2>1 DEF idVars, IdInv, SentIds
    <2> QED
      BY <2>1, ActionStep, MessageStep DEF IdsNext
  <1> QED
    BY <1>1, <1>2, PTL DEF IdsSpec

(* For all sizes of the id spaces and of their blocks: no id is given      *)
(* again before all but a block of them were, and a transaction id gives   *)
(* back the action it was made for (AIDGenerator, MIDGenerator).           *)
THEOREM IdsIdentify == IdsSpec => []IdsIdentifyRequests
  <1>1. IdInv => IdsIdentifyRequests
    <2> SUFFICES ASSUME IdInv PROVE IdsIdentifyRequests
      OBVIOUS
    <2>1. \A j, k \in DOMAIN actions : actions[j] = actions[k] => j = k
      BY DEF IdInv, Right, Once
    <2>2. CASE mids = <<>>
      <3>1. sent = <<>>
        BY <2>2 DEF IdInv
      <3>2. DOMAIN sent = {}
        BY <3>1
      <3> QED
        BY <2>1, <3>2 DEF IdsIdentifyRequests, NoEarlyReuse, RoutedToItsAction
    <2>3. CASE mids # <<>>
      <3> DEFINE a == mids[Len(mids)].action
      <3>1. a \in Nat /\ MaxMessageId \in Nat \ {0} /\ sent \in Seq(Nat) /\ DOMAIN sent = 1 .. Len(sent)
        <4>1. mids[Len(mids)] \in Mids
          BY <2>3, Elements DEF IdInv
        <4>2. a \in Nat
          BY <4>1, BlocksFit DEF Mids
        <4> QED
          BY <4>2, BlocksFit, Elements DEF IdInv
      <3>2. SentIds \in Seq(0 .. (MaxMessageId - 1)) /\ Once(SentIds)
        BY <2>3 DEF IdInv, Right
      <3>3. SentIds = [k \in 1 .. Len(sent) |-> sent[k] - a * MaxMessageId]
        BY DEF SentIds
      <3>4. Len(SentIds) = Len(sent)
        BY <3>1, <3>3
      <3> HIDE DEF a
      <3>5. ASSUME NEW j \in DOMAIN sent, NEW k \in DOMAIN sent, sent[j] = sent[k] PROVE j = k
        BY <3>1, <3>2, <3>3, <3>4, <3>5, Zenon DEF Once
      <3>6. ASSUME NEW k \in DOMAIN sent PROVE action_id(sent[k]) = a
        <4>1. sent[k] \in Nat /\ SentIds[k] = sent[k] - a * MaxMessageId /\ SentIds[k] \in 0 .. (MaxMessageId - 1)
          BY <3>1, <3>2, <3>3, <3>4
        <4>2. a * MaxMessageId \in Nat
          BY <3>1
        <4>3. sent[k] = a * MaxMessageId + SentIds[k]
          BY <4>1, <4>2
        <4> QED
          BY <3>1, <4>1, <4>3, ActionInFront, Zenon DEF action_id
      <3> QED
        BY <2>1, <3>5, <3>6 DEF IdsIdentifyRequests, NoEarlyReuse, RoutedToItsAction, a
    <2> QED
      BY <2>2, <2>3
  <1> QED
    BY <1>1, IdInvariance, PTL

-----------------------------------------------------------------------------
(* Tokens.  How the age of a hand-out and that of the store are related    *)
(* while its secret is the current one, then the last one, then neither.   *)
Stores == [curr : Secrets, last : Secrets, age : 0 .. (2 * RefreshInterval)]

Handouts == [token : [ip : Askers, secret : Secrets], age : 0 .. (3 * RefreshInterval)]

Dated(w, store) ==
    /\ w.token.secret = store.curr =>
        IF store.age < 2 * RefreshInterval
        THEN w.age <= store.age /\ store.age < w.age + RefreshInterval
        ELSE w.age > RefreshInterval
    /\ w.token.secret = store.last =>
        IF store.age < 2 * RefreshInterval
        THEN w.age > store.age /\ w.age < store.age + 2 * RefreshInterval
        ELSE w.age > 2 * RefreshInterval
    /\ w.token.secret \notin {store.curr, store.last} => w.age > RefreshInterval

TokenInv ==
    /\ tokens \in Stores
    /\ tokens.curr # tokens.last
    /\ \A t \in issued : t.secret \in {tokens.curr, tokens.last}
    /\ watched \subseteq Handouts
    /\ \A v, w \in watched : v = w
    /\ \A w \in watched : Dated(w, tokens)

(* What a refresh makes of the store: nothing before the first interval    *)
(* has passed, a new current secret after one, two new ones after two.     *)
Rotated(store, next, used) ==
    \/ store.age < RefreshInterval /\ next = store
    \/ /\ store.age >= RefreshInterval
       /\ store.age < 2 * RefreshInterval
       /\ next.age = 0
       /\ next.last = store.curr
       /\ next.curr \notin used
    \/ /\ store.age = 2 * RefreshInterval
       /\ next.age = 0
       /\ next.last \notin used
       /\ next.curr \notin used

(* The length of an interval is positive.                                  *)
LEMMA IntervalPositive == RefreshInterval \in Nat /\ RefreshInterval > 0
  BY TokenAssumption

(* A draw gives a secret that is not in use, if there is one.              *)
LEMMA DrawIsNew ==
    ASSUME NEW used, Secrets \ used # {}
    PROVE  Draw(used) \in Secrets /\ Draw(used) \notin used
  <1>1. PICK s \in Secrets : s \notin used
    OBVIOUS
  <1> QED
    BY <1>1 DEF Draw

(* The secrets in use are at most three.                                   *)
LEMMA FewInUse ==
    ASSUME TokenInv
    PROVE  \E a, b, c \in Secrets : InUse \subseteq {a, b, c} /\ {tokens.curr, tokens.last} \subseteq InUse
  <1>1. tokens.curr \in Secrets /\ tokens.last \in Secrets
    BY DEF TokenInv, Stores
  <1>2. {tokens.curr, tokens.last} \subseteq InUse
    BY DEF InUse
  <1>3. {t.secret : t \in issued} \subseteq {tokens.curr, tokens.last}
    BY DEF TokenInv
  <1>4. CASE watched = {}
    <2>1. InUse \subseteq {tokens.curr, tokens.last, tokens.last}
      BY <1>3, <1>4 DEF InUse
    <2> QED
      BY <1>1, <1>2, <2>1
  <1>5. CASE watched # {}
    <2>1. PICK v \in watched : \A w \in watched : w = v
      BY <1>5 DEF TokenInv
    <2>2. v.token.secret \in Secrets
      BY <2>1 DEF TokenInv, Handouts
    <2>3. {w.token.secret : w \in watched} \subseteq {v.token.secret}
      BY <2>1
    <2>4. InUse \subseteq {tokens.curr, tokens.last, v.token.secret}
      BY <1>3, <2>3 DEF InUse
    <2> QED
      BY <1>1, <1>2, <2>2, <2>4
  <1> QED
    BY <1>4, <1>5

(* How many whole intervals an age is.                                     *)
LEMMA IntervalsPassed ==
    ASSUME NEW n \in Nat, NEW age \in 0 .. (2 * n), n > 0
    PROVE  /\ age < n => age \div n = 0
           /\ age >= n /\ age < 2 * n => age \div n = 1
           /\ age = 2 * n => age \div n = 2
  <1>1. ASSUME NEW q \in Nat, NEW r \in 0 .. (n - 1), age = q * n + r
        PROVE  age \div n = q
    BY <1>1, SMT
  <1>2. CASE age < n
    <2>1. age = 0 * n + age /\ age \in 0 .. (n - 1)
      BY <1>2
    <2> QED
      BY <1>1, <1>2, <2>1
  <1>3. CASE age >= n /\ age < 2 * n
    <2>1. age = 1 * n + (age - n) /\ age - n \in 0 .. (n - 1)
      BY <1>3
    <2> QED
      BY <1>1, <1>3, <2>1
  <1>4. CASE age = 2 * n
    <2>1. age = 2 * n + 0 /\ 0 \in 0 .. (n - 1)
      BY <1>4
    <2> QED
      BY <1>1, <1>4, <2>1
  <1> QED
    BY <1>2, <1>3, <1>4

(* refresh_check leaves a proper store, rotated as its age asks for.       *)
LEMMA RefreshRotates ==
    ASSUME TokenInv
    PROVE  /\ Refreshed \in Stores
           /\ Refreshed.curr # Refreshed.last
           /\ Refreshed.age < RefreshInterval
           /\ Rotated(tokens, Refreshed, InUse)
  <1>1. PICK a, b, c \in Secrets : InUse \subseteq {a, b, c} /\ {tokens.curr, tokens.last} \subseteq InUse
    BY FewInUse
  <1>2. Secrets \ InUse # {}
    <2>1. Secrets \ {a, b, c, c} # {}
      BY TokenAssumption
    <2> QED
      BY <1>1, <2>1
  <1> DEFINE d == Draw(InUse)
             e == Draw(InUse \cup {d})
  <1>3. d \in Secrets /\ d \notin InUse
    BY <1>2, DrawIsNew
  <1>4. e \in Secrets /\ e \notin InUse /\ e # d
    <2>1. Secrets \ {a, b, c, d} # {}
      BY <1>3, TokenAssumption, ZenonT(30)
    <2>2. Secrets \ (InUse \cup {d}) # {}
      BY <1>1, <2>1
    <2> HIDE DEF d
    <2> QED
      BY <2>2, DrawIsNew
  <1>5. tokens \in Stores /\ tokens.curr # tokens.last
    BY DEF TokenInv
  <1>6. tokens.age \in 0 .. (2 * RefreshInterval)
    BY <1>5 DEF Stores
  <1>7. CASE tokens.age < RefreshInterval
    <2>1. Refreshed = tokens
      BY <1>6, <1>7, IntervalsPassed, IntervalPositive DEF Refreshed, refresh_check, intervals_passed
    <2> QED
      BY <1>5, <1>7, <2>1 DEF Rotated
  <1>8. CASE tokens.age >= RefreshInterval /\ tokens.age < 2 * RefreshInterval
    <2>1. tokens.age \div RefreshInterval = 1
      BY <1>6, <1>8, IntervalsPassed, IntervalPositive
    <2>2. Refreshed = [curr |-> d, last |-> tokens.curr, age |-> 0]
      BY <2>1 DEF Refreshed, refresh_check, intervals_passed, OneInterval
    <2> HIDE DEF d
    <2>3. tokens.curr \in Secrets /\ tokens.curr \in InUse
      BY <1>1, <1>5 DEF Stores
    <2> QED
      BY <1>3, <1>8, <2>2, <2>3, IntervalPositive DEF Rotated, Stores
  <1>9. CASE tokens.age = 2 * RefreshInterval
    <2>1. tokens.age \div RefreshInterval = 2
      BY <1>6, <1>9, IntervalsPassed, IntervalPositive
    <2>2. Refreshed = [curr |-> e, last |-> d, age |-> 0]
      BY <2>1 DEF Refreshed, refresh_check, intervals_passed, TwoIntervals
    <2> HIDE DEF d, e
    <2> QED
      BY <1>3, <1>4, <1>9, <2>2, IntervalPositive DEF Rotated, Stores
  <1> QED
    BY <1>6, <1>7, <1>8, <1>9, IntervalPositive

(* A refresh keeps the ages of hand-outs in step with the store.           *)
LEMMA RefreshKeepsDates ==
    ASSUME TokenInv, NEW w \in watched
    PROVE  Dated(w, Refreshed)
  <1>1. PICK s : s = Refreshed
    OBVIOUS
  <1>2. s \in Stores /\ Rotated(tokens, s, InUse) /\ s.curr # s.last
    BY <1>1, RefreshRotates
  <1>3. w.token.secret \in InUse
    BY DEF InUse
  <1>4. w.age \in Nat /\ tokens.age \in 0 .. (2 * RefreshInterval) /\ tokens.curr # tokens.last
    BY IntervalPositive DEF TokenInv, Handouts, Stores
  <1>5. Dated(w, tokens)
    BY DEF TokenInv
  <1>6. CASE s = tokens
    BY <1>1, <1>5, <1>6
  <1>7. CASE /\ tokens.age >= RefreshInterval
             /\ tokens.age < 2 * RefreshInterval
             /\ s.age = 0
             /\ s.last = tokens.curr
             /\ s.curr \notin InUse
    <2>1. w.token.secret # s.curr
      BY <1>3, <1>7
    <2>2. CASE w.token.secret = tokens.curr
      <3>1. w.age > 0 /\ w.age < 2 * RefreshInterval
        BY <1>4, <1>5, <1>7, <2>2, IntervalPositive DEF Dated
      <3> QED
        BY <1>1, <1>4, <1>7, <2>1, <2>2, <3>1, IntervalPositive, SMTT(40), Z3T(40) DEF Dated
    <2>3. CASE w.token.secret # tokens.curr
      <3>1. w.age > RefreshInterval
        BY <1>4, <1>5, <1>7, <2>3, IntervalPositive DEF Dated
      <3> QED
        BY <1>1, <1>7, <2>1, <2>3, <3>1 DEF Dated
    <2> QED
      BY <2>2, <2>3
  <1>8. CASE /\ tokens.age = 2 * RefreshInterval
             /\ s.last \notin InUse
             /\ s.curr \notin InUse
    <2>1. w.token.secret # s.curr /\ w.token.secret # s.last
      BY <1>3, <1>8
    <2>2. w.age > RefreshInterval
      BY <1>4, <1>5, <1>8, IntervalPositive DEF Dated
    <2> QED
      BY <1>1, <2>1, <2>2 DEF Dated
  <1> QED
    BY <1>2, <1>6, <1>7, <1>8 DEF Rotated

(* A request, whether it checks a token out or in.                         *)
LEMMA RequestKeepsTokens ==
    ASSUME TokenInv, tokens' = Refreshed,
           \A t \in issued' : t.secret \in {tokens'.curr, tokens'.last},
           watched' \subseteq Handouts,
           \A v, w \in watched' : v = w,
           \A w \in watched' : w \in watched \/ (w.age = 0 /\ w.token.secret = Refreshed.curr)
    PROVE  TokenInv'
  <1>1. Refreshed \in Stores /\ Refreshed.curr # Refreshed.last /\ Refreshed.age < RefreshInterval
    BY RefreshRotates
  <1>2. ASSUME NEW w \in watched' PROVE Dated(w, tokens')
    <2>1. CASE w \in watched
      BY <2>1, RefreshKeepsDates
    <2>2. CASE w.age = 0 /\ w.token.secret = Refreshed.curr
      <3>1. PICK s \in Stores : s = Refreshed
        BY <1>1
      <3>2. s.curr # s.last /\ s.age < RefreshInterval /\ s.age \in Nat /\ w.age = 0 /\ w.token.secret = s.curr
        BY <1>1, <2>2, <3>1, IntervalPositive DEF Stores
      <3>3. Dated(w, s)
        BY <3>2, IntervalPositive DEF Dated
      <3> QED
        BY <3>1, <3>3
    <2> QED
      BY <2>1, <2>2
  <1> QED
    BY <1>1, <1>2 DEF TokenInv

(* get_peers.                                                              *)
LEMMA CheckoutStep == ASSUME TokenInv, NEW ip \in Askers, CheckoutToken(ip) PROVE TokenInv'
  <1> DEFINE token == [ip |-> ip, secret |-> Refreshed.curr]
             new == [token |-> token, age |-> 0]
  <1>1. tokens' = Refreshed /\ Refreshed \in Stores
    BY RefreshRotates, ZenonT(30) DEF CheckoutToken
  <1>2. \A t \in issued' : t.secret \in {tokens'.curr, tokens'.last}
    BY DEF CheckoutToken, Current
  <1>3. watched' = watched \/ (watched = {} /\ watched' = {new})
    BY DEF CheckoutToken, checkout, generate_token_from_addr
  <1>4. new \in Handouts /\ new.age = 0 /\ new.token.secret = Refreshed.curr
    <2>1. Refreshed.curr \in Secrets
      BY <1>1 DEF Stores
    <2> QED
      BY <2>1, IntervalPositive DEF Handouts
  <1> HIDE DEF new
  <1>5. watched \subseteq Handouts /\ \A v, w \in watched : v = w
    BY DEF TokenInv
  <1>6. CASE watched' = watched
    BY <1>1, <1>2, <1>5, <1>6, RequestKeepsTokens
  <1>7. CASE watched' = {new}
    BY <1>1, <1>2, <1>4, <1>7, RequestKeepsTokens
  <1> QED
    BY <1>3, <1>6, <1>7, ZenonT(30)

(* announce_peer.                                                          *)
LEMMA CheckinStep == ASSUME TokenInv, CheckinToken PROVE TokenInv'
  <1>1. tokens' = Refreshed /\ watched' = watched
    BY DEF CheckinToken
  <1>2. \A t \in issued' : t.secret \in {tokens'.curr, tokens'.last}
    BY DEF CheckinToken, Current
  <1>3. watched \subseteq Handouts /\ \A v, w \in watched : v = w
    BY DEF TokenInv
  <1> QED
    BY <1>1, <1>2, <1>3, RequestKeepsTokens

(* The clock: the store and the hand-out grow older together.              *)
LEMMA TickStep == ASSUME TokenInv, TokensTick PROVE TokenInv'
  <1> DEFINE older(w) == [w EXCEPT !.age = @ + 1]
  <1>1. PICK s \in Stores : s = tokens'
    <2>1. tokens \in Stores /\ tokens' = [tokens EXCEPT !.age = IF @ < 2 * RefreshInterval THEN @ + 1 ELSE @]
      BY DEF TokenInv, TokensTick
    <2> QED
      BY <2>1, IntervalPositive DEF Stores
  <1>2. /\ s.curr = tokens.curr /\ s.last = tokens.last
        /\ s.age = IF tokens.age < 2 * RefreshInterval THEN tokens.age + 1 ELSE tokens.age
    <2>1. tokens \in Stores /\ tokens' = [tokens EXCEPT !.age = IF @ < 2 * RefreshInterval THEN @ + 1 ELSE @]
      BY DEF TokenInv, TokensTick
    <2> QED
      BY <1>1, <2>1 DEF Stores
  <1>3. ASSUME NEW v \in watched'
        PROVE  \E w \in watched : w.age < 3 * RefreshInterval /\ v = older(w)
    BY <1>3 DEF TokensTick
  <1>4. ASSUME NEW w \in watched, w.age < 3 * RefreshInterval
        PROVE  older(w) \in Handouts /\ older(w).age = w.age + 1 /\ older(w).token = w.token
    <2>1. w \in Handouts
      BY DEF TokenInv
    <2> QED
      BY <1>4, <2>1, IntervalPositive DEF Handouts
  <1>5. ASSUME NEW w \in watched, w.age < 3 * RefreshInterval
        PROVE  Dated(older(w), s)
    <2>1. PICK v : v = older(w)
      BY ZenonT(60)
    <2>2. v.age = w.age + 1 /\ v.token.secret = w.token.secret
      BY <1>4, <1>5, <2>1
    <2>3. w.age \in Nat /\ tokens.age \in 0 .. (2 * RefreshInterval)
      BY IntervalPositive DEF TokenInv, Handouts, Stores
    <2>4. Dated(w, tokens) /\ tokens.curr # tokens.last
      BY DEF TokenInv
    <2>5. Dated(v, s)
      BY <1>2, <2>2, <2>3, <2>4, IntervalPositive DEF Dated
    <2> QED
      BY <2>1, <2>5
  <1> HIDE DEF older
  <1>6. watched' \subseteq Handouts /\ (\A w \in watched' : Dated(w, s))
    BY <1>3, <1>4, <1>5
  <1>7. \A v, w \in watched' : v = w
    BY <1>3 DEF TokenInv
  <1>8. s.curr # s.last /\ \A t \in issued' : t.secret \in {s.curr, s.last}
    BY <1>2 DEF TokenInv, TokensTick
  <1> QED
    BY <1>1, <1>6, <1>7, <1>8 DEF TokenInv

(* The invariant holds from the start and whatever is asked.               *)
LEMMA TokenInvariance == TokensSpec => []TokenInv
  <1>1. TokensInit => TokenInv
    <2> SUFFICES ASSUME TokensInit PROVE TokenInv
      OBVIOUS
    <2>1. Secrets \ {} # {}
      BY TokenAssumption
    <2>2. Draw({}) \in Secrets
      BY <2>1, DrawIsNew
    <2>3. PICK d \in Secrets : d = Draw({})
      BY <2>2
    <2>4. Secrets \ {d} # {}
      BY TokenAssumption
    <2>5. Draw({d}) \in Secrets /\ Draw({d}) # d
      BY <2>4, DrawIsNew
    <2>6. tokens = [curr |-> d, last |-> Draw({d}), age |-> 0] /\ issued = {} /\ watched = {}
      BY <2>3 DEF TokensInit, NewTokenStore
    <2> QED
      BY <2>5, <2>6, IntervalPositive DEF TokenInv, Stores
  <1>2. TokenInv /\ [TokensNext]_tokenVars => TokenInv'
    <2> SUFFICES ASSUME TokenInv, [TokensNext]_tokenVars PROVE TokenInv'
      OBVIOUS
    <2>1. CASE TokensNext
      BY <2>1, CheckoutStep, CheckinStep, TickStep DEF TokensNext
    <2>2. CASE UNCHANGED tokenVars
      BY <2>2 DEF tokenVars, TokenInv
    <2> QED
      BY <2>1, <2>2
  <1> QED
    BY <1>1, <1>2, PTL DEF TokensSpec

(* For every refresh interval and whoever asks whatever whenever: a token  *)
(* that a node was given is good for the interval at least, although       *)
(* secrets change only when the store is used, and is refused when three   *)
(* intervals are all but over.                                             *)
THEOREM TokensLiveLongEnough == TokensSpec => []TokenLifetime
  <1>1. TokenInv => TokenLifetime
    <2> SUFFICES ASSUME TokenInv, NEW w \in watched
                 PROVE  /\ w.age <= RefreshInterval => checkin(Refreshed, w.token.ip, w.token)
                        /\ w.age >= 3 * RefreshInterval - 1 => ~checkin(Refreshed, w.token.ip, w.token)
      BY DEF TokenLifetime
    <2>1. PICK s \in Stores : s = Refreshed
      BY RefreshRotates
    <2>2. Dated(w, s) /\ s.curr # s.last /\ s.age < RefreshInterval /\ s.age \in Nat
      BY <2>1, RefreshRotates, RefreshKeepsDates, IntervalPositive DEF Stores
    <2>3. w.age \in Nat /\ w.token \in [ip : Askers, secret : Secrets]
      BY IntervalPositive DEF TokenInv, Handouts
    <2>4. checkin(s, w.token.ip, w.token) <=> w.token.secret \in {s.curr, s.last}
      BY <2>3 DEF checkin, validate_token_from_addr, generate_token_from_addr
    <2>5. w.age <= RefreshInterval => w.token.secret \in {s.curr, s.last}
      BY <2>2, <2>3, IntervalPositive DEF Dated
    <2>6. w.age >= 3 * RefreshInterval - 1 => w.token.secret \notin {s.curr, s.last}
      BY <2>2, <2>3, IntervalPositive DEF Dated
    <2> QED
      BY <2>1, <2>4, <2>5, <2>6
  <1> QED
    BY <1>1, TokenInvariance, PTL

-----------------------------------------------------------------------------
(* The announced peers                                                     *)

Items == [hash : InfoHashes, addr : PeerAddrs, age : 0 .. ExpirationTime]

Has(list, peer) == \E k \in 1 .. Len(list) : list[k] = peer
Is(item, h, peer) == item.hash = h /\ item.addr = peer
HasItem(expires, h, peer) == \E k \in 1 .. Len(expires) : Is(expires[k], h, peer)

(* The oldest expirations come first, and an item has only one.            *)
ByAge(expires) ==
    /\ \A j, k \in 1 .. Len(expires) : SameItem(expires[j], expires[k]) => j = k
    /\ \A j, k \in 1 .. Len(expires) : j < k => expires[j].age >= expires[k].age

(* The two lists hold the same items.                                      *)
Filed(storage, expires) ==
    \A h \in InfoHashes : Once(storage[h]) /\ \A peer \in PeerAddrs : Has(storage[h], peer) <=> HasItem(expires, h, peer)

StoreOK(st) ==
    /\ st \in [storage : [InfoHashes -> Seq(PeerAddrs)], expires : Seq(Items)]
    /\ ByAge(st.expires)
    /\ Filed(st.storage, st.expires)
    /\ Len(st.expires) <= MaxItemsStored

Fresh(item) == item.age < ExpirationTime
Live(expires) == {item \in Items : Fresh(item) /\ \E k \in 1 .. Len(expires) : expires[k] = item}

StorageInv == StoreOK(stored) /\ announced = Live(stored.expires)

(* A list has what another has in some places, in the same order.          *)
Picks(list, places, kept) ==
    \E place \in [1 .. Len(kept) -> places] :
        /\ \A m \in 1 .. Len(kept) : kept[m] = list[place[m]]
        /\ \A j, k \in 1 .. Len(kept) : j < k => place[j] < place[k]
        /\ \A k \in places : \E m \in 1 .. Len(kept) : place[m] = k

(* Retained is the list of what is in the places, in order.                *)
LEMMA RetainedPicks ==
    ASSUME NEW n \in Nat, NEW ks \in SUBSET (1 .. n), NEW S, NEW list \in [1 .. n -> S]
    PROVE  /\ Retained(list, ks) \in Seq(S) /\ Len(Retained(list, ks)) \in 0 .. n
           /\ ks # 1 .. n => Len(Retained(list, ks)) < n
           /\ Picks(list, ks, Retained(list, ks))
<1> DEFINE UpTo(k) == {l \in ks : l <= k}
           c == Cardinality(ks)
           rank == [k \in ks |-> Cardinality(UpTo(k))]
           place == [m \in 1 .. c |-> CHOOSE k \in ks : Cardinality(UpTo(k)) = m]
           kept == Retained(list, ks)
<1>1. IsFiniteSet(ks) /\ c \in 0 .. n /\ (ks # 1 .. n => c < n)
  <2>1. IsFiniteSet(1 .. n) /\ Cardinality(1 .. n) = n BY FS_Interval
  <2>2. IsFiniteSet(ks) /\ c <= n /\ (n = c => ks = 1 .. n)
    <3>1. IsFiniteSet(ks) /\ Cardinality(ks) <= Cardinality(1 .. n) /\ (Cardinality(1 .. n) = Cardinality(ks) => 1 .. n = ks)
      BY <2>1, FS_Subset, Zenon
    <3> QED BY <2>1, <3>1, Zenon
  <2>3. c \in Nat BY <2>2, FS_CardinalityType
  <2> HIDE DEF c
  <2> QED BY <2>2, <2>3
<1>2. ASSUME NEW k \in ks PROVE IsFiniteSet(UpTo(k)) /\ Cardinality(UpTo(k)) \in 1 .. c
  <2>1. UpTo(k) \in SUBSET ks /\ k \in UpTo(k) OBVIOUS
  <2>2. IsFiniteSet(UpTo(k)) /\ Cardinality(UpTo(k)) <= c /\ Cardinality(UpTo(k)) \in Nat
    BY <1>1, <2>1, FS_Subset, FS_CardinalityType
  <2>3. Cardinality(UpTo(k)) # 0 BY <2>1, <2>2, FS_EmptySet, Zenon
  <2> HIDE DEF UpTo, c
  <2> QED BY <1>1, <2>2, <2>3
<1>3. ASSUME NEW j \in ks, NEW k \in ks, j < k PROVE Cardinality(UpTo(j)) < Cardinality(UpTo(k))
  <2>1. \A l \in ks : l \in Int OBVIOUS
  <2>2. /\ \A l \in ks : l <= j => l <= k
        /\ k <= k /\ ~(k <= j)
    BY <1>3, <2>1
  <2>3. UpTo(j) \in SUBSET UpTo(k) /\ k \in UpTo(k) /\ k \notin UpTo(j) BY <2>2, Zenon
  <2>4. UpTo(j) # UpTo(k) BY <2>3, Zenon
  <2>8. Cardinality(UpTo(j)) \in 1 .. c /\ Cardinality(UpTo(k)) \in 1 .. c BY <1>2, Zenon
  <2>5. Cardinality(UpTo(j)) \in Int /\ Cardinality(UpTo(k)) \in Int
    <3> HIDE DEF UpTo, c
    <3> QED BY <2>8
  <2>6. IsFiniteSet(UpTo(k)) BY <1>2, Zenon
  <2> HIDE DEF UpTo
  <2>7. Cardinality(UpTo(j)) <= Cardinality(UpTo(k)) /\ Cardinality(UpTo(k)) # Cardinality(UpTo(j))
    BY <2>3, <2>4, <2>6, FS_Subset, Zenon
  <2> QED BY <2>5, <2>7
<1>4. \A j, k \in ks : rank[j] = rank[k] => j = k
  <2> SUFFICES ASSUME NEW j \in ks, NEW k \in ks, rank[j] = rank[k], j # k PROVE FALSE OBVIOUS
  <2>1. Cardinality(UpTo(j)) = Cardinality(UpTo(k)) OBVIOUS
  <2>2. j < k \/ k < j OBVIOUS
  <2>4. Cardinality(UpTo(j)) \in 1 .. c BY <1>2, Zenon
  <2>3. Cardinality(UpTo(j)) \in Int
    <3> HIDE DEF UpTo, c, rank
    <3> QED BY <2>4
  <2> HIDE DEF UpTo, rank
  <2> QED BY <1>3, <2>1, <2>2, <2>3
<1>5. rank \in Injection(ks, 1 .. c)
  <2> HIDE DEF UpTo, c
  <2> QED BY <1>2, <1>4 DEF Injection, IsInjective
<1>6. Cardinality(1 .. c) = c /\ IsFiniteSet(1 .. c)
  <2> HIDE DEF c
  <2> QED BY <1>1, FS_Interval
<1>7. rank \in Surjection(ks, 1 .. c) BY <1>1, <1>5, <1>6, FS_Injection
<1>8. \A m \in 1 .. c : \E k \in ks : Cardinality(UpTo(k)) = m
  <2> HIDE DEF UpTo, c
  <2> QED BY <1>7, Zenon DEF Surjection
<1>9. \A m \in 1 .. c : place[m] \in ks /\ Cardinality(UpTo(place[m])) = m
  <2> SUFFICES ASSUME NEW m \in 1 .. c PROVE place[m] \in ks /\ Cardinality(UpTo(place[m])) = m BY Zenon
  <2>1. PICK k \in ks : Cardinality(UpTo(k)) = m BY <1>8, Zenon
  <2>2. place[m] = CHOOSE l \in ks : Cardinality(UpTo(l)) = m BY Zenon
  <2> HIDE DEF UpTo, c, place
  <2> QED BY <2>1, <2>2, Zenon
<1>10. place \in [1 .. c -> ks] BY <1>9, Zenon
<1>11. kept = [m \in 1 .. c |-> list[place[m]]]
  <2>1. kept = [m \in 1 .. c |-> list[CHOOSE k \in ks : Cardinality(UpTo(k)) = m]] BY Zenon DEF Retained
  <2>2. \A m \in 1 .. c : place[m] = CHOOSE k \in ks : Cardinality(UpTo(k)) = m BY Zenon
  <2> HIDE DEF place, UpTo, c, kept
  <2> QED BY <2>1, <2>2
<1> HIDE DEF kept, place, c, rank, UpTo
<1>12. kept \in Seq(S) /\ Len(kept) = c
  <2>1. \A m \in 1 .. c : list[place[m]] \in S BY <1>10, Zenon
  <2> QED BY <1>1, <1>11, <2>1
<1>13. ASSUME NEW j \in 1 .. c, NEW k \in 1 .. c, j < k PROVE place[j] < place[k]
  <2>1. place[j] \in ks /\ place[k] \in ks /\ Cardinality(UpTo(place[j])) = j /\ Cardinality(UpTo(place[k])) = k BY <1>9, Zenon
  <2>6. place[j] \in 1 .. n /\ place[k] \in 1 .. n BY <2>1, Zenon
  <2>2. place[j] \in Int /\ place[k] \in Int BY <2>6
  <2>3. ~(k < j) /\ j # k BY <1>1, <1>13
  <2>4. ~(place[k] < place[j]) BY <1>3, <2>1, <2>3, Zenon
  <2>5. place[k] # place[j] BY <2>1, <2>3, Zenon
  <2> QED BY <2>2, <2>4, <2>5
<1>14. ASSUME NEW k \in ks PROVE \E m \in 1 .. c : place[m] = k
  <2>1. PICK m \in 1 .. c : m = Cardinality(UpTo(k)) BY <1>2, Zenon
  <2>2. place[m] \in ks /\ Cardinality(UpTo(place[m])) = m BY <1>9, <2>1, Zenon
  <2>3. rank[place[m]] = rank[k] BY <2>1, <2>2, Zenon DEF rank
  <2> QED BY <1>4, <2>1, <2>2, <2>3, Zenon
<1>15. Picks(list, ks, kept)
  <2>1. \A m \in 1 .. c : kept[m] = list[place[m]] BY <1>11, Zenon
  <2> QED BY <1>10, <1>12, <1>13, <1>14, <2>1, Zenon DEF Picks
<1> QED BY <1>1, <1>12, <1>15, Zenon DEF kept

(* The expired items are a head of the list, which take_while finds.       *)
LEMMA ExpiredAreFirst ==
    ASSUME NEW e \in Seq(Items), ByAge(e)
    PROVE  /\ NumExpired(e) \in 0 .. Len(e)
           /\ \A k \in 1 .. Len(e) : Fresh(e[k]) <=> NumExpired(e) < k
<1> DEFINE ks == {k \in 1 .. Len(e) : \A j \in 1 .. k : is_expired(e[j])}
<1>1. Len(e) \in Nat /\ DOMAIN e = 1 .. Len(e) OBVIOUS
<1>2. NumExpired(e) = Cardinality(ks) BY <1>1, Zenon DEF NumExpired
<1>3. \A k \in 1 .. Len(e) : e[k].age \in Int /\ (Fresh(e[k]) <=> ~is_expired(e[k]))
  <2> SUFFICES ASSUME NEW k \in 1 .. Len(e) PROVE e[k].age \in Int /\ (Fresh(e[k]) <=> ~is_expired(e[k])) OBVIOUS
  <2>1. e[k] \in Items OBVIOUS
  <2>2. e[k].age \in 0 .. ExpirationTime BY <2>1, Zenon DEF Items
  <2> QED BY <2>2, StorageAssumption DEF Fresh, is_expired
<1>4. \A m \in Nat : m \in 0 .. Len(e) /\ (\A k \in 1 .. Len(e) : Fresh(e[k]) <=> m < k) => NumExpired(e) = m
  <2> TAKE m \in Nat
  <2> HAVE m \in 0 .. Len(e) /\ (\A k \in 1 .. Len(e) : Fresh(e[k]) <=> m < k)
  <2>1. ASSUME NEW k \in 1 .. Len(e) PROVE k \in ks <=> k \in 1 .. m
    <3>1. ASSUME k \in ks PROVE k \in 1 .. m
      <4>1. k \in 1 .. k BY <1>1
      <4>2. is_expired(e[k]) BY <3>1, <4>1, Zenon
      <4>3. ~(m < k) BY <1>3, <4>2, Zenon
      <4> QED BY <1>1, <4>3
    <3>2. ASSUME k \in 1 .. m PROVE k \in ks
      <4>1. ASSUME NEW j \in 1 .. k PROVE is_expired(e[j])
        <5>1. j \in 1 .. Len(e) /\ ~(m < j) BY <1>1, <3>2
        <5> QED BY <1>3, <5>1, Zenon
      <4> QED BY <4>1, Zenon
    <3> QED BY <3>1, <3>2, Zenon
  <2>2. 1 .. m \in SUBSET (1 .. Len(e)) BY <1>1
  <2>3. ks = 1 .. m BY <2>1, <2>2, Zenon
  <2> HIDE DEF ks
  <2> QED BY <1>2, <2>3, FS_Interval
<1>5. \E m \in Nat : m \in 0 .. Len(e) /\ (\A k \in 1 .. Len(e) : Fresh(e[k]) <=> m < k)
  <2>1. PICK young : young = {k \in 1 .. Len(e) : Fresh(e[k])} BY Zenon
  <2>2. CASE young = {}
    <3>1. \A k \in 1 .. Len(e) : ~Fresh(e[k]) /\ ~(Len(e) < k) BY <1>1, <2>1, <2>2
    <3> QED BY <1>1, <3>1
  <2>3. CASE young # {}
    <3>1. young \in SUBSET Nat BY <1>1, <2>1
    <3>2. PICK k \in young : \A y \in young : <<y, k>> \notin OpToRel(<, Nat)
      BY <2>3, <3>1, NatLessThanWellFounded, WFMin, Zenon
    <3>3. \A y \in young : ~(y < k) BY <3>1, <3>2, Zenon DEF OpToRel
    <3>4. k \in 1 .. Len(e) /\ Fresh(e[k]) BY <2>1, Zenon
    <3>5. k - 1 \in Nat /\ k - 1 \in 0 .. Len(e) BY <1>1, <3>4
    <3>6. ASSUME NEW l \in 1 .. Len(e) PROVE Fresh(e[l]) <=> k - 1 < l
      <4>1. ASSUME Fresh(e[l]) PROVE k - 1 < l
        <5>1. ~(l < k) BY <2>1, <3>3, <4>1, Zenon
        <5> QED BY <3>4, <5>1
      <4>2. ASSUME k - 1 < l PROVE Fresh(e[l])
        <5>1. l = k \/ k < l BY <3>4, <4>2
        <5>2. l = k \/ e[k].age >= e[l].age BY <3>4, <5>1, Zenon DEF ByAge
        <5> QED BY <1>3, <3>4, <5>2, StorageAssumption DEF Fresh
      <4> QED BY <4>1, <4>2, Zenon
    <3> QED BY <3>5, <3>6, Zenon
  <2> QED BY <2>2, <2>3, Zenon
<1> QED BY <1>4, <1>5, Zenon

(* A list of expirations without some of its first.                        *)
Behind(x, e, n) == Len(x) = Len(e) - n /\ \A k \in 1 .. Len(x) : x[k] = e[k + n]

(* What comes behind is still sorted, and has the fresh items.             *)
LEMMA BehindIsByAge ==
    ASSUME NEW e \in Seq(Items), ByAge(e), NEW n \in 0 .. Len(e), NEW x \in Seq(Items), Behind(x, e, n)
    PROVE  ByAge(x)
<1>1. Len(x) \in Nat /\ Len(e) \in Nat /\ Len(x) = Len(e) - n BY DEF Behind
<1>2. \A k \in 1 .. Len(x) : k + n \in 1 .. Len(e) /\ k \in Int /\ n \in Int BY <1>1
<1>3. \A k \in 1 .. Len(x) : x[k] = e[k + n] BY Zenon DEF Behind
<1>4. ASSUME NEW j \in 1 .. Len(x), NEW k \in 1 .. Len(x), SameItem(x[j], x[k]) PROVE j = k
  <2>1. j + n = k + n BY <1>2, <1>3, <1>4, Zenon DEF ByAge
  <2> QED BY <1>2, <2>1
<1>5. ASSUME NEW j \in 1 .. Len(x), NEW k \in 1 .. Len(x), j < k PROVE x[j].age >= x[k].age
  <2>1. j + n < k + n BY <1>2, <1>5
  <2> QED BY <1>2, <1>3, <2>1, Zenon DEF ByAge
<1> QED BY <1>4, <1>5, Zenon DEF ByAge

(* remove_expired_items leaves a right store, with the fresh items only.   *)
Pruned(s, st) ==
    /\ StoreOK(s)
    /\ Live(s.expires) = Live(st.expires)
    /\ \A k \in 1 .. Len(s.expires) : Fresh(s.expires[k])

(* remove_expired_items drops what is no longer live and nothing else.     *)
LEMMA ExpiredAreRemoved ==
    ASSUME NEW st, StoreOK(st)
    PROVE  Pruned(remove_expired_items(st), st)
<1>1. PICK e \in Seq(Items) : e = st.expires BY Zenon DEF StoreOK
<1>2. PICK f \in [InfoHashes -> Seq(PeerAddrs)] : f = st.storage BY Zenon DEF StoreOK
<1>3. ByAge(e) /\ Filed(f, e) /\ Len(e) <= MaxItemsStored BY <1>1, <1>2, Zenon DEF StoreOK
<1>4. PICK n : n = NumExpired(e) BY Zenon
<1>5. n \in 0 .. Len(e) /\ \A k \in 1 .. Len(e) : Fresh(e[k]) <=> n < k BY <1>3, <1>4, ExpiredAreFirst, Zenon
<1>6. Len(e) \in Nat /\ n \in Nat BY <1>5
<1>7. PICK x : x = SubSeq(e, n + 1, Len(e)) BY Zenon
<1>8. x \in Seq(Items) /\ Len(x) = Len(e) - n /\ \A k \in 1 .. Len(x) : x[k] = e[k + n]
  BY <1>5, <1>6, <1>7
<1>9. Behind(x, e, n) BY <1>8, Zenon DEF Behind
<1>10. ByAge(x) BY <1>3, <1>5, <1>8, <1>9, BehindIsByAge, Zenon
<1>11. PICK g : g = [h \in InfoHashes |-> Retained(f[h], Unexpired(st, h, n))] BY Zenon
<1>12. PICK s : s = remove_expired_items(st) BY Zenon
<1>13. s = [storage |-> g, expires |-> x] BY <1>1, <1>2, <1>4, <1>7, <1>11, <1>12, Zenon DEF remove_expired_items
<1>14. \A k \in 1 .. Len(x) : k + n \in 1 .. Len(e) /\ n < k + n BY <1>6, <1>8
<1>15. \A k \in 1 .. Len(e) : n < k => k - n \in 1 .. Len(x) /\ x[k - n] = e[k]
  <2> SUFFICES ASSUME NEW k \in 1 .. Len(e), n < k PROVE k - n \in 1 .. Len(x) /\ x[k - n] = e[k] OBVIOUS
  <2>1. k - n \in 1 .. Len(x) /\ (k - n) + n = k BY <1>6, <1>8
  <2> QED BY <1>8, <2>1, Zenon
<1>16. \A k \in 1 .. Len(x) : Fresh(x[k]) BY <1>5, <1>8, <1>14, Zenon
<1>17. Live(x) = Live(e)
  <2>1. ASSUME NEW item \in Items, Fresh(item)
        PROVE  (\E k \in 1 .. Len(x) : x[k] = item) <=> (\E k \in 1 .. Len(e) : e[k] = item)
    <3>1. ASSUME NEW k \in 1 .. Len(x), x[k] = item PROVE \E l \in 1 .. Len(e) : e[l] = item BY <1>8, <1>14, <3>1, Zenon
    <3>2. ASSUME NEW k \in 1 .. Len(e), e[k] = item PROVE \E l \in 1 .. Len(x) : x[l] = item
      <4>1. n < k BY <1>5, <2>1, <3>2, Zenon
      <4> QED BY <1>15, <3>2, <4>1, Zenon
    <3> QED BY <3>1, <3>2, Zenon
  <2> QED BY <2>1, Zenon DEF Live
<1>18. ASSUME NEW h \in InfoHashes
       PROVE  /\ g[h] \in Seq(PeerAddrs) /\ Once(g[h])
              /\ \A peer \in PeerAddrs : Has(g[h], peer) <=> HasItem(x, h, peer)
  <2>1. PICK list \in Seq(PeerAddrs) : list = f[h] BY Zenon
  <2>2. PICK ks : ks = {k \in 1 .. Len(list) : \A j \in 1 .. n : ~Is(e[j], h, list[k])} BY Zenon
  <2>3. Unexpired(st, h, n) = ks
    <3>1. DOMAIN list = 1 .. Len(list) OBVIOUS
    <3>2. \A item, peer : SameItem(item, ItemExpiration(h, peer)) <=> Is(item, h, peer) BY DEF SameItem, ItemExpiration, Is
    <3> QED BY <1>1, <1>2, <2>1, <2>2, <3>1, <3>2, Zenon DEF Unexpired
  <2>4. PICK kept : kept = Retained(list, ks) BY Zenon
  <2>5. g[h] = kept BY <1>11, <2>1, <2>3, <2>4, Zenon
  <2>6. Len(list) \in Nat /\ list \in [1 .. Len(list) -> PeerAddrs] /\ ks \in SUBSET (1 .. Len(list)) BY <2>2
  <2>7. kept \in Seq(PeerAddrs) /\ Len(kept) \in 0 .. Len(list) /\ Picks(list, ks, kept) BY <2>4, <2>6, RetainedPicks, Zenon
  <2>8. PICK place \in [1 .. Len(kept) -> ks] :
          /\ \A m \in 1 .. Len(kept) : kept[m] = list[place[m]]
          /\ \A j, k \in 1 .. Len(kept) : j < k => place[j] < place[k]
          /\ \A k \in ks : \E m \in 1 .. Len(kept) : place[m] = k
    BY <2>7, Zenon DEF Picks
  <2>9. Once(list) /\ \A peer \in PeerAddrs : Has(list, peer) <=> HasItem(e, h, peer) BY <1>3, <2>1, Zenon DEF Filed
  <2>10. Once(kept)
    <3> SUFFICES ASSUME NEW j \in 1 .. Len(kept), NEW k \in 1 .. Len(kept), kept[j] = kept[k], j # k PROVE FALSE
      BY Zenon DEF Once
    <3>1. place[j] \in 1 .. Len(list) /\ place[k] \in 1 .. Len(list) BY <2>6, <2>8, Zenon
    <3>2. place[j] = place[k] BY <2>8, <2>9, <3>1, Zenon DEF Once
    <3>3. j < k \/ k < j BY <2>7
    <3>4. place[j] < place[k] \/ place[k] < place[j] BY <2>8, <3>3, Zenon
    <3>5. place[j] \in Int BY <2>6, <3>1
    <3> QED BY <3>2, <3>4, <3>5
  <2>11. ASSUME NEW peer \in PeerAddrs, Has(kept, peer) PROVE HasItem(x, h, peer)
    <3>1. PICK m \in 1 .. Len(kept) : kept[m] = peer BY <2>11, Zenon DEF Has
    <3>2. place[m] \in ks /\ list[place[m]] = peer BY <2>8, <3>1, Zenon
    <3>3. Has(list, peer) /\ \A j \in 1 .. n : ~Is(e[j], h, peer) BY <2>2, <3>2, Zenon DEF Has
    <3>4. PICK k \in 1 .. Len(e) : Is(e[k], h, peer) BY <2>9, <3>3, Zenon DEF HasItem
    <3>5. k \notin 1 .. n BY <3>3, <3>4, Zenon
    <3>6. n < k BY <1>6, <3>5
    <3> QED BY <1>15, <3>4, <3>6, Zenon DEF HasItem
  <2>12. ASSUME NEW peer \in PeerAddrs, HasItem(x, h, peer) PROVE Has(kept, peer)
    <3>1. PICK k \in 1 .. Len(x) : Is(x[k], h, peer) BY <2>12, Zenon DEF HasItem
    <3>2. PICK l \in 1 .. Len(e) : n < l /\ Is(e[l], h, peer) BY <1>8, <1>14, <3>1, Zenon
    <3>3. ASSUME NEW j \in 1 .. n, Is(e[j], h, peer) PROVE FALSE
      <4>1. j \in 1 .. Len(e) /\ j # l BY <1>5, <1>6, <3>2
      <4>2. SameItem(e[j], e[l]) BY <3>2, <3>3, Zenon DEF SameItem, Is
      <4> QED BY <1>3, <3>2, <4>1, <4>2, Zenon DEF ByAge
    <3>4. HasItem(e, h, peer) BY <3>2, Zenon DEF HasItem
    <3>5. PICK i \in 1 .. Len(list) : list[i] = peer BY <2>9, <3>4, Zenon DEF Has
    <3>6. i \in ks BY <2>2, <3>3, <3>5, Zenon
    <3>7. PICK m \in 1 .. Len(kept) : place[m] = i BY <2>8, <3>6, Zenon
    <3> QED BY <2>8, <3>5, <3>7, Zenon DEF Has
  <2> QED BY <2>5, <2>7, <2>10, <2>11, <2>12, Zenon
<1>19. g \in [InfoHashes -> Seq(PeerAddrs)] BY <1>11, <1>18, Zenon
<1>20. Filed(g, x) BY <1>18, Zenon DEF Filed
<1>21. Len(x) <= MaxItemsStored BY <1>3, <1>6, <1>8, StorageAssumption
<1>22. s.storage = g /\ s.expires = x /\ s \in [storage : [InfoHashes -> Seq(PeerAddrs)], expires : Seq(Items)]
  BY <1>8, <1>13, <1>19, Zenon
<1>23. Pruned(s, st) BY <1>1, <1>10, <1>16, <1>17, <1>20, <1>21, <1>22, Zenon DEF Pruned, StoreOK
<1> QED BY <1>12, <1>23, Zenon

(* A sorted list of expirations without those of one item.                 *)
Dropped(kept, e, h, peer) ==
    /\ kept \in Seq(Items) /\ ByAge(kept)
    /\ \A item \in Items : Has(kept, item) <=> Has(e, item) /\ ~Is(item, h, peer)

(* Retaining the others drops the expiration of an item that is there.     *)
LEMMA OthersAreRetained ==
    ASSUME NEW e \in Seq(Items), ByAge(e), NEW h, NEW peer, HasItem(e, h, peer)
    PROVE  LET kept == Retained(e, Others(e, ItemExpiration(h, peer)))
           IN  Dropped(kept, e, h, peer) /\ Len(kept) < Len(e)
<1>1. PICK ks : ks = {k \in 1 .. Len(e) : ~Is(e[k], h, peer)} BY Zenon
<1>2. Others(e, ItemExpiration(h, peer)) = ks
  <2>1. DOMAIN e = 1 .. Len(e) OBVIOUS
  <2>2. \A item : SameItem(item, ItemExpiration(h, peer)) <=> Is(item, h, peer) BY DEF SameItem, ItemExpiration, Is
  <2> QED BY <1>1, <2>1, <2>2, Zenon DEF Others
<1>3. PICK kept : kept = Retained(e, ks) BY Zenon
<1>4. Len(e) \in Nat /\ e \in [1 .. Len(e) -> Items] /\ ks \in SUBSET (1 .. Len(e)) BY <1>1
<1>5. ks # 1 .. Len(e) BY <1>1, Zenon DEF HasItem
<1>6. kept \in Seq(Items) /\ Len(kept) \in 0 .. Len(e) /\ Len(kept) < Len(e) /\ Picks(e, ks, kept)
  BY <1>3, <1>4, <1>5, RetainedPicks, Zenon
<1>7. PICK place \in [1 .. Len(kept) -> ks] :
        /\ \A m \in 1 .. Len(kept) : kept[m] = e[place[m]]
        /\ \A j, k \in 1 .. Len(kept) : j < k => place[j] < place[k]
        /\ \A k \in ks : \E m \in 1 .. Len(kept) : place[m] = k
  BY <1>6, Zenon DEF Picks
<1>8. \A m \in 1 .. Len(kept) : place[m] \in 1 .. Len(e) BY <1>4, <1>7, Zenon
<1>9. ASSUME NEW j \in 1 .. Len(kept), NEW k \in 1 .. Len(kept), SameItem(kept[j], kept[k]) PROVE j = k
  <2> SUFFICES ASSUME j # k PROVE FALSE OBVIOUS
  <2>1. place[j] = place[k] BY <1>7, <1>8, <1>9, Zenon DEF ByAge
  <2>2. j < k \/ k < j BY <1>6
  <2>3. place[j] < place[k] \/ place[k] < place[j] BY <1>7, <2>2, Zenon
  <2>4. place[j] \in Int BY <1>4, <1>8
  <2> QED BY <2>1, <2>3, <2>4
<1>10. ASSUME NEW j \in 1 .. Len(kept), NEW k \in 1 .. Len(kept), j < k PROVE kept[j].age >= kept[k].age
  BY <1>7, <1>8, <1>10, Zenon DEF ByAge
<1>11. ASSUME NEW item \in Items PROVE Has(kept, item) <=> Has(e, item) /\ ~Is(item, h, peer)
  <2>1. ASSUME Has(kept, item) PROVE Has(e, item) /\ ~Is(item, h, peer)
    <3>1. PICK m \in 1 .. Len(kept) : kept[m] = item BY <2>1, Zenon DEF Has
    <3>2. place[m] \in ks /\ e[place[m]] = item BY <1>7, <3>1, Zenon
    <3> QED BY <1>1, <3>2, Zenon DEF Has
  <2>2. ASSUME Has(e, item), ~Is(item, h, peer) PROVE Has(kept, item)
    <3>1. PICK k \in 1 .. Len(e) : e[k] = item BY <2>2, Zenon DEF Has
    <3>2. k \in ks BY <1>1, <2>2, <3>1, Zenon
    <3>3. PICK m \in 1 .. Len(kept) : place[m] = k BY <1>7, <3>2, Zenon
    <3>4. kept[m] = item BY <1>7, <3>1, <3>3, Zenon
    <3> QED BY <3>4, Zenon DEF Has
  <2> QED BY <2>1, <2>2, Zenon
<1>12. ByAge(kept) BY <1>9, <1>10, Zenon DEF ByAge
<1>13. Dropped(kept, e, h, peer) BY <1>6, <1>11, <1>12, Zenon DEF Dropped
<1> QED BY <1>2, <1>3, <1>6, <1>13, Zenon

(* There is one more place in a list that is longer by one.                *)
LEMMA NextPlace ==
    ASSUME NEW n \in Nat
    PROVE  (\A k \in 1 .. n + 1 : k \in 1 .. n \/ k = n + 1) /\ n + 1 \in 1 .. n + 1 /\ \A k \in 1 .. n : k \in 1 .. n + 1
OBVIOUS

(* A new expiration behind the others, and what is live with it.           *)
Renewed(x, e, h, peer) ==
    /\ ByAge(x)
    /\ \A g \in InfoHashes, p \in PeerAddrs : HasItem(x, g, p) <=> HasItem(e, g, p) \/ (g = h /\ p = peer)
    /\ Live(x) = {a \in Live(e) : ~SameItem(a, ItemExpiration(h, peer))} \cup {ItemExpiration(h, peer)}

(* The item announced last is pushed behind the others.                    *)
LEMMA NewestIsLast ==
    ASSUME NEW e \in Seq(Items), NEW h \in InfoHashes, NEW peer \in PeerAddrs, NEW kept, Dropped(kept, e, h, peer)
    PROVE  LET x == Append(kept, ItemExpiration(h, peer))
           IN  x \in Seq(Items) /\ Len(x) = Len(kept) + 1 /\ Renewed(x, e, h, peer)
<1>1. PICK item \in Items : item = ItemExpiration(h, peer) /\ item.age = 0 /\ Is(item, h, peer)
  <2>1. 0 \in 0 .. ExpirationTime BY StorageAssumption
  <2>2. ItemExpiration(h, peer) \in Items BY <2>1, Zenon DEF ItemExpiration, Items
  <2> QED BY <2>2, Zenon DEF ItemExpiration, Is
<1>2. Fresh(item) BY <1>1, StorageAssumption DEF Fresh
<1>3. kept \in Seq(Items) /\ ByAge(kept) BY Zenon DEF Dropped
<1>4. PICK n \in Nat : n = Len(kept) BY <1>3
<1>5. PICK x : x = Append(kept, item) BY Zenon
<1>6. x \in Seq(Items) /\ Len(x) = n + 1 /\ x[n + 1] = item /\ \A k \in 1 .. n : x[k] = kept[k]
  BY <1>3, <1>4, <1>5
<1>7. \A k \in 1 .. n + 1 : k \in 1 .. n \/ k = n + 1 BY <1>4, NextPlace, Zenon
<1>8. n + 1 \in 1 .. n + 1 /\ \A k \in 1 .. n : k \in 1 .. n + 1 BY <1>4, NextPlace, Zenon
<1>9. \A k \in 1 .. n : kept[k] \in Items /\ ~Is(kept[k], h, peer)
  <2> TAKE k \in 1 .. n
  <2>1. kept[k] \in Items BY <1>3, <1>4
  <2>2. Has(kept, kept[k]) BY <1>4, Zenon DEF Has
  <2> QED BY <2>1, <2>2, Zenon DEF Dropped
<1>10. \A i : SameItem(i, item) <=> Is(i, h, peer) BY <1>1, Zenon DEF SameItem, Is
<1>11. \A i : SameItem(item, i) <=> Is(i, h, peer) BY <1>1, Zenon DEF SameItem, Is
<1>12. ASSUME NEW j \in 1 .. n + 1, NEW k \in 1 .. n + 1, SameItem(x[j], x[k]) PROVE j = k
  <2>1. CASE j \in 1 .. n /\ k \in 1 .. n BY <1>3, <1>4, <1>6, <1>12, <2>1, Zenon DEF ByAge
  <2>2. CASE j = n + 1 /\ k \in 1 .. n BY <1>6, <1>9, <1>11, <1>12, <2>2, Zenon
  <2>3. CASE k = n + 1 /\ j \in 1 .. n BY <1>6, <1>9, <1>10, <1>12, <2>3, Zenon
  <2> QED BY <1>7, <2>1, <2>2, <2>3, Zenon
<1>13. ASSUME NEW j \in 1 .. n + 1, NEW k \in 1 .. n + 1, j < k PROVE x[j].age >= x[k].age
  <2>1. j \in 1 .. n BY <1>4, <1>13
  <2>2. CASE k \in 1 .. n BY <1>3, <1>4, <1>6, <1>13, <2>1, <2>2, Zenon DEF ByAge
  <2>3. CASE k = n + 1
    <3>1. x[j] \in Items /\ x[k].age = 0 BY <1>1, <1>6, <1>9, <2>1, <2>3, Zenon
    <3> QED BY <3>1, StorageAssumption DEF Items
  <2> QED BY <1>7, <2>2, <2>3, Zenon
<1>14. \A i \in Items : Has(x, i) <=> Has(kept, i) \/ i = item BY <1>4, <1>6, <1>7, <1>8, Zenon DEF Has
<1>15. \A i \in Items : Has(x, i) <=> (Has(e, i) /\ ~Is(i, h, peer)) \/ i = item BY <1>14, Zenon DEF Dropped
<1>16. \A list \in Seq(Items) : \A g, p : HasItem(list, g, p) <=> \E i \in Items : Has(list, i) /\ Is(i, g, p)
  <2> TAKE list \in Seq(Items)
  <2>1. \A k \in 1 .. Len(list) : list[k] \in Items OBVIOUS
  <2> QED BY <2>1, Zenon DEF HasItem, Has
<1>17. ASSUME NEW g \in InfoHashes, NEW p \in PeerAddrs
       PROVE  HasItem(x, g, p) <=> HasItem(e, g, p) \/ (g = h /\ p = peer)
  <2>1. ASSUME HasItem(x, g, p) PROVE HasItem(e, g, p) \/ (g = h /\ p = peer)
    <3>1. PICK i \in Items : Has(x, i) /\ Is(i, g, p) BY <1>6, <1>16, <2>1, Zenon
    <3>2. CASE i = item BY <1>1, <3>1, <3>2, Zenon DEF Is
    <3>3. CASE Has(e, i) BY <1>16, <3>1, <3>3, Zenon
    <3> QED BY <1>15, <3>1, <3>2, <3>3, Zenon
  <2>2. ASSUME HasItem(e, g, p) PROVE HasItem(x, g, p)
    <3>1. PICK i \in Items : Has(e, i) /\ Is(i, g, p) BY <1>16, <2>2, Zenon
    <3>2. CASE Is(i, h, peer)
      <4>1. Is(item, g, p) BY <1>1, <3>1, <3>2, Zenon DEF Is
      <4>2. Has(x, item) BY <1>15, Zenon
      <4> QED BY <1>6, <1>16, <4>1, <4>2, Zenon
    <3>3. CASE ~Is(i, h, peer) BY <1>6, <1>15, <1>16, <3>1, <3>3, Zenon
    <3> QED BY <3>2, <3>3, Zenon
  <2>3. ASSUME g = h, p = peer PROVE HasItem(x, g, p) BY <1>1, <1>6, <1>15, <1>16, <2>3, Zenon
  <2> QED BY <2>1, <2>2, <2>3, Zenon
<1>18. \A list : Live(list) = {i \in Items : Fresh(i) /\ Has(list, i)} BY Zenon DEF Live, Has
<1>19. Live(x) = {a \in Live(e) : ~SameItem(a, item)} \cup {item} BY <1>2, <1>10, <1>15, <1>18, Zenon
<1>20. ByAge(x) BY <1>6, <1>12, <1>13, Zenon DEF ByAge
<1>21. Renewed(x, e, h, peer) BY <1>1, <1>17, <1>19, <1>20, Zenon DEF Renewed
<1> QED BY <1>1, <1>4, <1>5, <1>6, <1>21, Zenon

(* add_item stores the item as new, or refuses it when the store is full.  *)
Added(t, st, h, peer) ==
    /\ StoreOK(t)
    /\ Live(t.expires) =
        IF Accepted(st, h, peer)
        THEN {a \in Live(st.expires) : ~SameItem(a, ItemExpiration(h, peer))} \cup {ItemExpiration(h, peer)}
        ELSE Live(st.expires)

(* add_item on a store that is right leaves one that is right.             *)
LEMMA ItemIsAdded ==
    ASSUME NEW st, StoreOK(st), NEW h \in InfoHashes, NEW peer \in PeerAddrs
    PROVE  Added(add_item(st, h, peer), st, h, peer)
<1>1. PICK s : s = remove_expired_items(st) BY Zenon
<1>2. StoreOK(s) /\ Live(s.expires) = Live(st.expires) BY <1>1, ExpiredAreRemoved, Zenon DEF Pruned
<1>3. PICK e \in Seq(Items) : e = s.expires BY <1>2, Zenon DEF StoreOK
<1>4. PICK f \in [InfoHashes -> Seq(PeerAddrs)] : f = s.storage BY <1>2, Zenon DEF StoreOK
<1>5. ByAge(e) /\ Filed(f, e) /\ Len(e) <= MaxItemsStored BY <1>2, <1>3, <1>4, Zenon DEF StoreOK
<1>6. PICK item : item = ItemExpiration(h, peer) BY Zenon
<1>7. PICK how : how = insert_contact(s, h, peer) BY Zenon
<1>8. PICK t : t = add_item(st, h, peer) BY Zenon
<1>9. Accepted(st, h, peer) <=> how # "none" BY <1>1, <1>7, Zenon DEF Accepted
<1>10. s = [storage |-> f, expires |-> e] BY <1>2, <1>3, <1>4, Zenon DEF StoreOK
<1>11. how = IF Has(f[h], peer) THEN "old" ELSE IF Len(e) < MaxItemsStored THEN "new" ELSE "none"
  <2>1. DOMAIN f[h] = 1 .. Len(f[h]) OBVIOUS
  <2> QED BY <1>3, <1>4, <1>7, <2>1, Zenon DEF insert_contact, Has
<1>12. Has(f[h], peer) <=> HasItem(e, h, peer) BY <1>5, Zenon DEF Filed
<1>13. Len(e) \in Nat /\ MaxItemsStored \in Nat BY StorageAssumption
<1>14. ASSUME NEW x, NEW g, t = [storage |-> g, expires |-> x], x \in Seq(Items), Renewed(x, e, h, peer),
              g \in [InfoHashes -> Seq(PeerAddrs)], Filed(g, x), Len(x) <= MaxItemsStored, how # "none"
       PROVE  Added(t, st, h, peer)
  <2>1. t.storage = g /\ t.expires = x /\ t \in [storage : [InfoHashes -> Seq(PeerAddrs)], expires : Seq(Items)] BY <1>14, Zenon
  <2>2. StoreOK(t) BY <1>14, <2>1, Zenon DEF StoreOK, Renewed
  <2> QED BY <1>2, <1>3, <1>9, <1>14, <2>1, <2>2, Zenon DEF Added, Renewed
<1>15. CASE how = "old"
  <2>1. PICK kept : kept = Retained(e, Others(e, item)) BY Zenon
  <2>2. HasItem(e, h, peer) BY <1>11, <1>12, <1>15
  <2>3. Dropped(kept, e, h, peer) /\ Len(kept) < Len(e) BY <1>5, <1>6, <2>1, <2>2, OthersAreRetained, Zenon
  <2>4. PICK x : x = Append(kept, item) BY Zenon
  <2>5. x \in Seq(Items) /\ Len(x) = Len(kept) + 1 /\ Renewed(x, e, h, peer) BY <1>6, <2>3, <2>4, NewestIsLast, Zenon
  <2>6. t = [s EXCEPT !.expires = x] BY <1>1, <1>3, <1>6, <1>7, <1>8, <1>15, <2>1, <2>4, Zenon DEF add_item
  <2>7. t = [storage |-> f, expires |-> x] BY <1>10, <2>6, Zenon
  <2>8. kept \in Seq(Items) BY <2>3, Zenon DEF Dropped
  <2>9. Len(x) <= MaxItemsStored
    <3>1. Len(kept) \in Nat BY <2>8
    <3> QED BY <1>5, <1>13, <2>3, <2>5, <3>1
  <2>10. \A g \in InfoHashes, p \in PeerAddrs : HasItem(x, g, p) <=> HasItem(e, g, p) BY <2>2, <2>5, Zenon DEF Renewed
  <2>11. Filed(f, x) BY <1>5, <2>10, Zenon DEF Filed
  <2>12. how # "none" BY <1>15
  <2> QED BY <1>4, <1>8, <1>14, <2>5, <2>7, <2>9, <2>11, <2>12, Zenon
<1>16. CASE how = "new"
  <2>1. ~Has(f[h], peer) /\ Len(e) < MaxItemsStored
    <3>1. "new" # "old" /\ "new" # "none" OBVIOUS
    <3> QED BY <1>11, <1>16, <3>1, Zenon
  <2>2. ~HasItem(e, h, peer) BY <1>12, <2>1, Zenon
  <2>3. Dropped(e, e, h, peer)
    <3>1. \A i \in Items : Has(e, i) => ~Is(i, h, peer) BY <2>2, Zenon DEF Has, HasItem
    <3> QED BY <1>5, <3>1, Zenon DEF Dropped
  <2>4. PICK x : x = Append(e, item) BY Zenon
  <2>5. x \in Seq(Items) /\ Len(x) = Len(e) + 1 /\ Renewed(x, e, h, peer) BY <1>6, <2>3, <2>4, NewestIsLast, Zenon
  <2>20. f[h] \in Seq(PeerAddrs) BY <1>4, Zenon
  <2>22. PICK old \in Seq(PeerAddrs) : old = f[h] BY <2>20, Zenon
  <2>23. Append(old, peer) \in Seq(PeerAddrs) OBVIOUS
  <2>6. PICK list \in Seq(PeerAddrs) : list = Append(f[h], peer) BY <2>22, <2>23, Zenon
  <2>7. PICK g : g = [f EXCEPT ![h] = list] BY Zenon
  <2>8. "new" # "old" OBVIOUS
  <2>9. t = [s EXCEPT !.storage[h] = list, !.expires = x]
    BY <1>1, <1>3, <1>4, <1>6, <1>7, <1>8, <1>16, <2>4, <2>6, <2>8, Zenon DEF add_item
  <2>10. t = [storage |-> g, expires |-> x] BY <1>10, <2>7, <2>9, Zenon
  <2>11. g \in [InfoHashes -> Seq(PeerAddrs)] /\ \A k \in InfoHashes : g[k] = IF k = h THEN list ELSE f[k] BY <2>7, Zenon
  <2>12. Len(x) <= MaxItemsStored BY <1>13, <2>1, <2>5
  <2>13. PICK n \in Nat : n = Len(f[h]) BY <2>20
  <2>14. Len(list) = n + 1 /\ list[n + 1] = peer /\ \A k \in 1 .. n : list[k] = f[h][k] BY <2>6, <2>13, <2>20
  <2>15. (\A k \in 1 .. n + 1 : k \in 1 .. n \/ k = n + 1) /\ n + 1 \in 1 .. n + 1 /\ \A k \in 1 .. n : k \in 1 .. n + 1 BY <2>13, NextPlace, Zenon
  <2>16. Once(list)
    <3>1. Once(f[h]) BY <1>5, Zenon DEF Filed
    <3>2. \A k \in 1 .. n : f[h][k] # peer BY <2>1, <2>13, Zenon DEF Has
    <3> SUFFICES ASSUME NEW j \in 1 .. n + 1, NEW k \in 1 .. n + 1, list[j] = list[k] PROVE j = k
      BY <2>14, Zenon DEF Once
    <3>3. CASE j \in 1 .. n /\ k \in 1 .. n BY <2>13, <2>14, <3>1, <3>3, Zenon DEF Once
    <3>4. CASE j = n + 1 /\ k \in 1 .. n BY <2>14, <3>2, <3>4, Zenon
    <3>5. CASE k = n + 1 /\ j \in 1 .. n BY <2>14, <3>2, <3>5, Zenon
    <3> QED BY <2>15, <3>3, <3>4, <3>5, Zenon
  <2>17. \A p : Has(list, p) <=> Has(f[h], p) \/ p = peer BY <2>13, <2>14, <2>15, Zenon DEF Has
  <2>18. Filed(g, x)
    <3> SUFFICES ASSUME NEW k \in InfoHashes PROVE Once(g[k]) /\ \A p \in PeerAddrs : Has(g[k], p) <=> HasItem(x, k, p)
      BY Zenon DEF Filed
    <3>1. Once(f[k]) /\ \A p \in PeerAddrs : Has(f[k], p) <=> HasItem(e, k, p) BY <1>5, Zenon DEF Filed
    <3>2. \A p \in PeerAddrs : HasItem(x, k, p) <=> HasItem(e, k, p) \/ (k = h /\ p = peer) BY <2>5, Zenon DEF Renewed
    <3>3. CASE k = h BY <2>11, <2>16, <2>17, <3>1, <3>2, <3>3, Zenon
    <3>4. CASE k # h BY <2>11, <3>1, <3>2, <3>4, Zenon
    <3> QED BY <3>3, <3>4, Zenon
  <2>19. how # "none" BY <1>16
  <2>21. x \in Seq(Items) /\ Renewed(x, e, h, peer) /\ g \in [InfoHashes -> Seq(PeerAddrs)] BY <2>5, <2>11, Zenon
  <2> QED BY <1>8, <1>14, <2>10, <2>12, <2>18, <2>19, <2>21, Zenon
<1>17. CASE how = "none"
  <2>1. "none" # "old" /\ "none" # "new" OBVIOUS
  <2>2. t = s BY <1>1, <1>7, <1>8, <1>17, <2>1, Zenon DEF add_item
  <2>3. ~Accepted(st, h, peer) BY <1>9, <1>17, Zenon
  <2> QED BY <1>2, <1>8, <2>2, <2>3, Zenon DEF Added
<1>18. how \in {"old", "new", "none"} BY <1>11, Zenon
<1> QED BY <1>8, <1>15, <1>16, <1>17, <1>18, Zenon

Aged(item) == [item EXCEPT !.age = @ + 1]

(* When the clock goes on the items stay, and those live grow older.       *)
LEMMA StoreAges ==
    ASSUME NEW st, StoreOK(st)
    PROVE  /\ StoreOK(AgeStorage(st))
           /\ Live(AgeStorage(st).expires) = {Aged(a) : a \in {a \in Live(st.expires) : a.age < ExpirationTime - 1}}
<1>1. PICK e \in Seq(Items) : e = st.expires BY Zenon DEF StoreOK
<1>2. PICK f \in [InfoHashes -> Seq(PeerAddrs)] : f = st.storage BY Zenon DEF StoreOK
<1>3. ByAge(e) /\ Filed(f, e) /\ Len(e) <= MaxItemsStored BY <1>1, <1>2, Zenon DEF StoreOK
<1>4. st = [storage |-> f, expires |-> e] BY <1>1, <1>2, Zenon DEF StoreOK
<1>5. PICK n \in Nat : n = Len(e) OBVIOUS
<1>6. PICK x : x = [k \in 1 .. n |-> OlderItem(e[k])] BY Zenon
<1>7. PICK t : t = AgeStorage(st) BY Zenon
<1>8. t = [storage |-> f, expires |-> x]
  <2>1. DOMAIN e = 1 .. n BY <1>5
  <2>3. t = [st EXCEPT !.expires = [k \in DOMAIN st.expires |-> OlderItem(st.expires[k])]] BY <1>7, Zenon DEF AgeStorage
  <2>2. t = [st EXCEPT !.expires = x] BY <1>1, <1>6, <2>1, <2>3, Zenon
  <2> QED BY <1>4, <2>2, Zenon
<1>9. \A i \in Items : i.age \in 0 .. ExpirationTime /\ ExpirationTime \in Nat \ {0} BY StorageAssumption DEF Items
<1>10. \A i \in Items : OlderItem(i).age = IF i.age < ExpirationTime THEN i.age + 1 ELSE i.age BY DEF Items, OlderItem
<1>11. ASSUME NEW i \in Items PROVE OlderItem(i) \in Items /\ OlderItem(i).hash = i.hash /\ OlderItem(i).addr = i.addr
  <2>1. (IF i.age < ExpirationTime THEN i.age + 1 ELSE i.age) \in 0 .. ExpirationTime BY <1>9
  <2> QED BY <2>1, Zenon DEF Items, OlderItem
<1>12. \A k \in 1 .. n : e[k] \in Items BY <1>5
<1>13. x \in Seq(Items) /\ Len(x) = n
  <2>1. \A k \in 1 .. n : OlderItem(e[k]) \in Items BY <1>11, <1>12, Zenon
  <2> HIDE DEF Items
  <2> QED BY <1>5, <1>6, <2>1
<1>14. \A k \in 1 .. n : x[k] = OlderItem(e[k]) BY <1>6, Zenon
<1>15. \A k \in 1 .. n : x[k].hash = e[k].hash /\ x[k].addr = e[k].addr BY <1>11, <1>12, <1>14, Zenon
<1>16. ASSUME NEW j \in 1 .. n, NEW k \in 1 .. n, SameItem(x[j], x[k]) PROVE j = k
  <2>1. SameItem(e[j], e[k]) BY <1>15, <1>16, Zenon DEF SameItem
  <2> QED BY <1>3, <1>5, <2>1, Zenon DEF ByAge
<1>17. ASSUME NEW j \in 1 .. n, NEW k \in 1 .. n, j < k PROVE x[j].age >= x[k].age
  <2>1. e[j].age >= e[k].age BY <1>3, <1>5, <1>17, Zenon DEF ByAge
  <2>2. PICK a \in 0 .. ExpirationTime : a = e[j].age BY <1>9, <1>12, Zenon
  <2>3. PICK b \in 0 .. ExpirationTime : b = e[k].age BY <1>9, <1>12, Zenon
  <2>4. x[j].age = (IF a < ExpirationTime THEN a + 1 ELSE a) /\ x[k].age = (IF b < ExpirationTime THEN b + 1 ELSE b)
    BY <1>10, <1>12, <1>14, <2>2, <2>3, Zenon
  <2>5. \A c, d \in 0 .. ExpirationTime :
          c >= d => (IF c < ExpirationTime THEN c + 1 ELSE c) >= (IF d < ExpirationTime THEN d + 1 ELSE d)
    BY StorageAssumption
  <2> QED BY <2>1, <2>2, <2>3, <2>4, <2>5, Zenon
<1>18. ByAge(x) BY <1>13, <1>16, <1>17, Zenon DEF ByAge
<1>19. \A h, p : HasItem(x, h, p) <=> HasItem(e, h, p) BY <1>5, <1>13, <1>15, Zenon DEF HasItem, Is
<1>20. Filed(f, x) BY <1>3, <1>19, Zenon DEF Filed
<1>21. t.storage = f /\ t.expires = x /\ t \in [storage : [InfoHashes -> Seq(PeerAddrs)], expires : Seq(Items)] BY <1>8, <1>13, Zenon
<1>22. StoreOK(t) BY <1>3, <1>5, <1>13, <1>18, <1>20, <1>21, Zenon DEF StoreOK
<1>23. ASSUME NEW i \in Items
       PROVE  /\ Fresh(OlderItem(i)) <=> i.age < ExpirationTime - 1
              /\ i.age < ExpirationTime - 1 => Fresh(i) /\ OlderItem(i) = Aged(i)
  <2>1. PICK a \in 0 .. ExpirationTime : a = i.age BY <1>9, Zenon
  <2>2. OlderItem(i).age = (IF a < ExpirationTime THEN a + 1 ELSE a) BY <1>10, <2>1, Zenon
  <2>3. Fresh(OlderItem(i)) <=> i.age < ExpirationTime - 1 BY <2>1, <2>2, StorageAssumption DEF Fresh
  <2>4. ASSUME i.age < ExpirationTime - 1 PROVE i.age < ExpirationTime BY <2>1, <2>4, StorageAssumption
  <2> QED BY <2>3, <2>4, Zenon DEF Fresh, OlderItem, Aged
<1>24. ASSUME NEW a \in Live(x) PROVE a \in {Aged(i) : i \in {i \in Live(e) : i.age < ExpirationTime - 1}}
  <2>1. PICK k \in 1 .. n : x[k] = a /\ Fresh(a) BY <1>13, <1>24, Zenon DEF Live
  <2>2. e[k] \in Items /\ a = OlderItem(e[k]) BY <1>12, <1>14, <2>1, Zenon
  <2>3. e[k].age < ExpirationTime - 1 /\ Fresh(e[k]) /\ a = Aged(e[k]) BY <1>23, <2>1, <2>2, Zenon
  <2>4. e[k] \in Live(e) BY <1>5, <2>2, <2>3, Zenon DEF Live
  <2> QED BY <2>3, <2>4, Zenon
<1>25. ASSUME NEW i \in Live(e), i.age < ExpirationTime - 1 PROVE Aged(i) \in Live(x)
  <2>1. PICK k \in 1 .. n : e[k] = i /\ i \in Items BY <1>5, <1>25, Zenon DEF Live
  <2>2. x[k] = Aged(i) /\ Fresh(OlderItem(i)) /\ OlderItem(i) = Aged(i) BY <1>14, <1>23, <1>25, <2>1, Zenon
  <2>3. Aged(i) \in Items BY <1>11, <2>1, <2>2, Zenon
  <2> QED BY <1>13, <2>1, <2>2, <2>3, Zenon DEF Live
<1>26. Live(x) = {Aged(i) : i \in {i \in Live(e) : i.age < ExpirationTime - 1}} BY <1>24, <1>25, Zenon
<1> QED BY <1>1, <1>7, <1>21, <1>22, <1>26, Zenon

(* The storage is empty at first.                                          *)
LEMMA StorageInitially == StorageInit => StorageInv
<1> SUFFICES ASSUME StorageInit PROVE StorageInv OBVIOUS
<1>1. stored.storage = [h \in InfoHashes |-> <<>>] /\ stored.expires = <<>> /\ announced = {}
  BY Zenon DEF StorageInit, NewStorage
<1>2. stored \in [storage : [InfoHashes -> Seq(PeerAddrs)], expires : Seq(Items)] BY DEF StorageInit, NewStorage
<1>3. Len(<<>>) = 0 /\ \A k \in 1 .. Len(<<>>) : FALSE OBVIOUS
<1>4. Len(stored.expires) <= MaxItemsStored BY <1>1, <1>3, StorageAssumption
<1>5. ByAge(<<>>) /\ Live(<<>>) = {} BY <1>3, Zenon DEF ByAge, Live
<1>6. \A h \in InfoHashes : stored.storage[h] = <<>> BY <1>1, Zenon
<1>7. Filed(stored.storage, <<>>) BY <1>3, <1>6, Zenon DEF Filed, Once, Has, HasItem
<1> QED BY <1>1, <1>2, <1>4, <1>5, <1>7, Zenon DEF StorageInv, StoreOK

(* Each use of the storage keeps StorageInv.                               *)
LEMMA StorageStep == StorageInv /\ [StorageNext]_storageVars => StorageInv'
<1> SUFFICES ASSUME StorageInv, [StorageNext]_storageVars PROVE StorageInv' OBVIOUS
<1>1. StoreOK(stored) /\ announced = Live(stored.expires) BY Zenon DEF StorageInv
<1>2. ASSUME StoreOK(stored'), announced' = Live(stored'.expires) PROVE StorageInv'
  BY <1>2, Zenon DEF StorageInv, StoreOK, ByAge, Filed, Live, Once, Has, HasItem
<1>3. ASSUME NEW hash \in InfoHashes, NEW peer \in PeerAddrs, AddItem(hash, peer) PROVE StorageInv'
  <2>1. Added(stored', stored, hash, peer) BY <1>1, <1>3, ItemIsAdded, Zenon DEF AddItem
  <2>2. announced' = IF Accepted(stored, hash, peer) THEN Announced(hash, peer) ELSE announced BY <1>3, Zenon DEF AddItem
  <2> QED BY <1>1, <1>2, <2>1, <2>2, Zenon DEF Added, Announced
<1>4. ASSUME FindItems PROVE StorageInv'
  <2>1. Pruned(stored', stored) BY <1>1, <1>4, ExpiredAreRemoved, Zenon DEF FindItems
  <2>2. announced' = announced BY <1>4, Zenon DEF FindItems
  <2> QED BY <1>1, <1>2, <2>1, <2>2, Zenon DEF Pruned
<1>5. ASSUME StorageTick PROVE StorageInv'
  <2>1. stored' = AgeStorage(stored) BY <1>5, Zenon DEF StorageTick
  <2>2. announced' = {Aged(a) : a \in {a \in announced : a.age < ExpirationTime - 1}}
    BY <1>5, Zenon DEF StorageTick, Aged
  <2> QED BY <1>1, <1>2, <2>1, <2>2, StoreAges, Zenon
<1>6. CASE UNCHANGED storageVars
  <2>1. stored' = stored /\ announced' = announced BY <1>6, Zenon DEF storageVars
  <2> QED BY <1>1, <1>2, <2>1, Zenon
<1> QED BY <1>3, <1>4, <1>5, <1>6, Zenon DEF StorageNext

(* The invariant says what is served, and when an item is refused.         *)
LEMMA StorageServes == StorageInv => StorageIsRight
<1> SUFFICES ASSUME StorageInv PROVE StorageIsRight OBVIOUS
<1>1. PICK s : s = remove_expired_items(stored) BY Zenon
<1>2. Pruned(s, stored) BY <1>1, ExpiredAreRemoved, Zenon DEF StorageInv
<1>3. PICK e \in Seq(Items) : e = s.expires BY <1>2, Zenon DEF Pruned, StoreOK
<1>4. PICK f \in [InfoHashes -> Seq(PeerAddrs)] : f = s.storage BY <1>2, Zenon DEF Pruned, StoreOK
<1>5. ByAge(e) /\ Filed(f, e) /\ Len(e) <= MaxItemsStored /\ \A k \in 1 .. Len(e) : Fresh(e[k])
  BY <1>2, <1>3, <1>4, Zenon DEF Pruned, StoreOK
<1>6. announced = Live(e) BY <1>2, <1>3, Zenon DEF Pruned, StorageInv
<1>7. PICK n \in Nat : n = Len(e) OBVIOUS
<1>8. ASSUME NEW k \in 1 .. n PROVE e[k] \in Items /\ e[k] \in announced
  <2>1. e[k] \in Items BY <1>3, <1>7
  <2>2. Fresh(e[k]) BY <1>5, <1>7, Zenon
  <2> QED BY <1>6, <1>7, <2>1, <2>2, Zenon DEF Live
<1>9. \A a \in announced : a \in Items /\ \E k \in 1 .. n : e[k] = a BY <1>6, <1>7, Zenon DEF Live
<1>10. ServesLivePeers
  <2> SUFFICES ASSUME NEW h \in InfoHashes
               PROVE  LET served == find_items(stored, h)
                      IN  /\ {served[k] : k \in DOMAIN served} = {a.addr : a \in {a \in announced : a.hash = h}}
                          /\ \A j, k \in DOMAIN served : served[j] = served[k] => j = k
    BY Zenon DEF ServesLivePeers
  <2>1. PICK list \in Seq(PeerAddrs) : list = f[h] BY Zenon
  <2>2. find_items(stored, h) = list BY <1>1, <1>4, <2>1, Zenon DEF find_items
  <2>3. DOMAIN list = 1 .. Len(list) /\ \A k \in 1 .. Len(list) : list[k] \in PeerAddrs OBVIOUS
  <2>4. Once(list) /\ \A peer \in PeerAddrs : Has(list, peer) <=> HasItem(e, h, peer) BY <1>5, <2>1, Zenon DEF Filed
  <2>5. ASSUME NEW k \in 1 .. Len(list) PROVE list[k] \in {a.addr : a \in {a \in announced : a.hash = h}}
    <3>1. HasItem(e, h, list[k]) BY <2>3, <2>4, Zenon DEF Has
    <3>2. PICK j \in 1 .. n : Is(e[j], h, list[k]) BY <1>7, <3>1, Zenon DEF HasItem
    <3> QED BY <1>8, <3>2, Zenon DEF Is
  <2>6. ASSUME NEW a \in announced, a.hash = h PROVE \E k \in 1 .. Len(list) : list[k] = a.addr
    <3>1. a.addr \in PeerAddrs BY <1>9, Zenon DEF Items
    <3>2. HasItem(e, h, a.addr) BY <1>7, <1>9, <2>6, Zenon DEF HasItem, Is
    <3> QED BY <2>4, <3>1, <3>2, Zenon DEF Has
  <2>7. {list[k] : k \in DOMAIN list} = {a.addr : a \in {a \in announced : a.hash = h}} BY <2>3, <2>5, <2>6, Zenon
  <2>8. \A j, k \in DOMAIN list : list[j] = list[k] => j = k BY <2>3, <2>4, Zenon DEF Once
  <2> QED BY <2>2, <2>7, <2>8, Zenon
<1>11. StorageIsBounded
  <2>1. PICK x \in Seq(Items) : x = stored.expires BY Zenon DEF StorageInv, StoreOK
  <2>2. PICK g \in [InfoHashes -> Seq(PeerAddrs)] : g = stored.storage BY Zenon DEF StorageInv, StoreOK
  <2>3. ByAge(x) /\ Filed(g, x) /\ Len(x) <= MaxItemsStored BY <2>1, <2>2, Zenon DEF StorageInv, StoreOK
  <2>4. DOMAIN x = 1 .. Len(x) /\ \A h \in InfoHashes : DOMAIN g[h] = 1 .. Len(g[h]) OBVIOUS
  <2>5. \A item, h, peer : SameItem(item, ItemExpiration(h, peer)) <=> Is(item, h, peer) BY DEF SameItem, ItemExpiration, Is
  <2>6. \A h \in InfoHashes, peer \in PeerAddrs :
          (\E k \in DOMAIN g[h] : g[h][k] = peer) <=> (\E k \in DOMAIN x : SameItem(x[k], ItemExpiration(h, peer)))
    <3> SUFFICES ASSUME NEW h \in InfoHashes, NEW peer \in PeerAddrs
                 PROVE  (\E k \in DOMAIN g[h] : g[h][k] = peer) <=> (\E k \in DOMAIN x : SameItem(x[k], ItemExpiration(h, peer)))
      BY Zenon
    <3>1. Has(g[h], peer) <=> HasItem(x, h, peer) BY <2>3, Zenon DEF Filed
    <3>2. Has(g[h], peer) <=> \E k \in DOMAIN g[h] : g[h][k] = peer BY <2>4, Zenon DEF Has
    <3>3. HasItem(x, h, peer) <=> \E k \in DOMAIN x : SameItem(x[k], ItemExpiration(h, peer)) BY <2>4, <2>5, Zenon DEF HasItem
    <3> QED BY <3>1, <3>2, <3>3, Zenon
  <2>7. \A j, k \in DOMAIN x : SameItem(x[j], x[k]) => j = k BY <2>3, <2>4, Zenon DEF ByAge
  <2>8. Len(stored.expires) <= MaxItemsStored BY <2>1, <2>3, Zenon
  <2>9. \A j, k \in DOMAIN stored.expires : SameItem(stored.expires[j], stored.expires[k]) => j = k BY <2>1, <2>7, Zenon
  <2>10. \A h \in InfoHashes, peer \in PeerAddrs :
          (\E k \in DOMAIN stored.storage[h] : stored.storage[h][k] = peer) <=>
          (\E k \in DOMAIN stored.expires : SameItem(stored.expires[k], ItemExpiration(h, peer)))
    BY <2>1, <2>2, <2>6, Zenon
  <2> QED BY <2>8, <2>9, <2>10, Zenon DEF StorageIsBounded
<1>12. RefusedOnlyWhenFull
  <2> SUFFICES ASSUME NEW h \in InfoHashes, NEW peer \in PeerAddrs, ~Accepted(stored, h, peer)
               PROVE  Cardinality(announced) = MaxItemsStored
    BY Zenon DEF RefusedOnlyWhenFull
  <2>1. insert_contact(s, h, peer) = "none" BY <1>1, Zenon DEF Accepted
  <2>2. "none" # "old" /\ "none" # "new" OBVIOUS
  <2>3. ~(n < MaxItemsStored) BY <1>3, <1>7, <2>1, <2>2, Zenon DEF insert_contact
  <2>4. n = MaxItemsStored BY <1>5, <1>7, <2>3, StorageAssumption
  <2>5. \A j, k \in 1 .. n : e[j] = e[k] => j = k BY <1>5, <1>7, Zenon DEF ByAge, SameItem
  <2>6. e \in [1 .. n -> announced]
    <3>1. e = [k \in 1 .. n |-> e[k]] BY <1>7
    <3> QED BY <1>8, <3>1, Zenon
  <2>7. e \in Bijection(1 .. n, announced)
    <3>1. e \in Injection(1 .. n, announced) BY <2>5, <2>6, Zenon DEF Injection, IsInjective
    <3>2. e \in Surjection(1 .. n, announced) BY <1>9, <2>6, Zenon DEF Surjection
    <3> QED BY <3>1, <3>2, Zenon DEF Bijection
  <2>8. ExistsBijection(1 .. n, announced) BY <2>7, Zenon DEF ExistsBijection
  <2> QED BY <2>4, <2>8, FS_CountingElements, Zenon
<1> QED BY <1>10, <1>11, <1>12, Zenon DEF StorageIsRight

(* For any info hashes, addresses, capacity and expiration time: the two   *)
(* lists of AnnounceStorage serve exactly the peers whose last accepted    *)
(* announce has not expired, hold the same items, never more than there is *)
(* room for, and add_item refuses a peer only when they are all live.      *)
THEOREM PeersAreServed == StorageSpec => []StorageIsRight
<1>1. StorageSpec => []StorageInv BY StorageInitially, StorageStep, PTL DEF StorageSpec
<1> QED BY <1>1, StorageServes, PTL
=============================================================================
