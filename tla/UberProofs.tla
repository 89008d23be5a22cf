----------------------------- MODULE UberProofs -----------------------------
(***************************************************************************)
(* The metadata downloads of UberModule, for any torrents and peers, any   *)
(* claimed sizes and any timeout.                                          *)
(***************************************************************************)
EXTENDS UberModule, FiniteSetTheorems, TLAPS

UtData == {"zero", "good", "bad"}
UtRequests == [left : Int, piece : Int, sent_to : UtPeers]
UtDownloads(n) == [messages : Seq(Int), left : Int, size : Nat, bytes : [0 .. n - 1 -> UtData]]

Waiting(list) == {list[k] : k \in 1 .. Len(list)}
Asked(reqs, hash) == {reqs[k].piece : k \in {l \in 1 .. Len(reqs) : HashOf[reqs[l].sent_to] = hash}}
Zero(bytes) == {piece \in DOMAIN bytes : bytes[piece] = "zero"}
NoTwice(list) == \A j, k \in 1 .. Len(list) : list[j] = list[k] => j = k

(* The pieces that have not come are exactly those to be asked for and      *)
(* those asked for.                                                         *)
Accounted(reqs, hash, p) ==
    /\ p \in UtDownloads(num_pieces(p.size))
    /\ NoTwice(p.messages)
    /\ Waiting(p.messages) \cap Asked(reqs, hash) = {}
    /\ Waiting(p.messages) \cup Asked(reqs, hash) = Zero(p.bytes)
    /\ p.left = Cardinality(Zero(p.bytes))

(* No piece of a torrent is asked for twice.                                *)
AskedOnce(reqs) ==
    \A j, k \in 1 .. Len(reqs) :
        reqs[j].piece = reqs[k].piece /\ HashOf[reqs[j].sent_to] = HashOf[reqs[k].sent_to] => j = k

(* What is asked for belongs to a download.                                 *)
AskedForDownload(map, reqs) ==
    \A k \in 1 .. Len(reqs) : HashOf[reqs[k].sent_to] \in DOMAIN map /\ map[HashOf[reqs[k].sent_to]] # {}

Downloads(map, reqs) ==
    /\ reqs \in Seq(UtRequests)
    /\ AskedOnce(reqs)
    /\ AskedForDownload(map, reqs)
    /\ DOMAIN map \subseteq UtHashes
    /\ \A hash \in DOMAIN map : \A p \in map[hash] : Accounted(reqs, hash, p) /\ map[hash] = {p}

(* The peers a torrent is downloaded from are connected and have it.        *)
Entries == [peers : SUBSET UtPeers, metadata_size : Nat]
PeersOf(hash, connected) == {peer \in connected : HashOf[peer] = hash}

Sources(active, connected) ==
    \A hash \in DOMAIN active : active[hash] \in Entries /\ active[hash].peers \subseteq PeersOf(hash, connected)

UberInv ==
    /\ Downloads(pending_map, active_requests)
    /\ Sources(active_peers, ext_peers)
    /\ DownloadedIsWhole

-----------------------------------------------------------------------------
(* The positions of a set are listed each once.                             *)
LEMMA InOrderLists ==
    ASSUME NEW n \in Nat, NEW ks \in SUBSET (1 .. n)
    PROVE  /\ Cardinality(ks) \in Nat
           /\ InOrder(ks) \in [1 .. Cardinality(ks) -> ks]
           /\ \A j, k \in 1 .. Cardinality(ks) : InOrder(ks)[j] = InOrder(ks)[k] => j = k
           /\ \A k \in ks : \E j \in 1 .. Cardinality(ks) : InOrder(ks)[j] = k
<1> DEFINE UpTo(k) == {l \in ks : l <= k}
           c == Cardinality(ks)
           rank == [k \in ks |-> Cardinality(UpTo(k))]
<1>1. IsFiniteSet(ks) /\ c \in Nat
  <2>1. IsFiniteSet(1 .. n) BY FS_Interval
  <2>2. IsFiniteSet(ks) BY <2>1, FS_Subset, Zenon
  <2> QED BY <2>2, FS_CardinalityType
<1>2. ASSUME NEW k \in ks PROVE IsFiniteSet(UpTo(k)) /\ Cardinality(UpTo(k)) \in 1 .. c
  <2>1. UpTo(k) \in SUBSET ks /\ k \in UpTo(k) OBVIOUS
  <2>2. IsFiniteSet(UpTo(k)) /\ Cardinality(UpTo(k)) <= c /\ Cardinality(UpTo(k)) \in Nat
    BY <1>1, <2>1, FS_Subset, FS_CardinalityType
  <2>3. Cardinality(UpTo(k)) # 0 BY <2>1, <2>2, FS_EmptySet
  <2> HIDE DEF UpTo, c
  <2> QED BY <1>1, <2>2, <2>3
<1>3. ASSUME NEW j \in ks, NEW k \in ks, j < k PROVE Cardinality(UpTo(j)) # Cardinality(UpTo(k))
  <2>4. \A l \in ks : l \in Int OBVIOUS
  <2>1. /\ \A l \in ks : l <= j => l <= k
        /\ k <= k /\ ~(k <= j)
    BY <1>3, <2>4
  <2>3. UpTo(j) \in SUBSET UpTo(k) /\ k \in UpTo(k) /\ k \notin UpTo(j) BY <2>1, Zenon
  <2>2. UpTo(j) # UpTo(k) BY <2>3
  <2> HIDE DEF UpTo
  <2> QED BY <1>2, <2>3, <2>2, FS_Subset
<1>4. \A j, k \in ks : rank[j] = rank[k] => j = k
  <2> SUFFICES ASSUME NEW j \in ks, NEW k \in ks, rank[j] = rank[k], j # k PROVE FALSE OBVIOUS
  <2>1. Cardinality(UpTo(j)) = Cardinality(UpTo(k)) OBVIOUS
  <2>2. j < k \/ k < j OBVIOUS
  <2> QED BY <1>3, <2>1, <2>2
<1>5. rank \in Injection(ks, 1 .. c)
  <2> HIDE DEF UpTo, c
  <2> QED BY <1>2, <1>4 DEF Injection, IsInjective
<1>6. Cardinality(1 .. c) = c /\ IsFiniteSet(1 .. c)
  <2> HIDE DEF c
  <2> QED BY <1>1, FS_Interval
<1>7. rank \in Surjection(ks, 1 .. c) BY <1>5, <1>6, FS_Injection
<1>8. \A m \in 1 .. c : \E k \in ks : Cardinality(UpTo(k)) = m
  <2> HIDE DEF UpTo, c
  <2> QED BY <1>7, Zenon DEF Surjection
<1>9. \A m \in 1 .. c : InOrder(ks)[m] \in ks /\ Cardinality(UpTo(InOrder(ks)[m])) = m
  <2> TAKE m \in 1 .. c
  <2>1. InOrder(ks)[m] = CHOOSE k \in ks : Cardinality(UpTo(k)) = m BY DEF InOrder
  <2>2. PICK k \in ks : Cardinality(UpTo(k)) = m BY <1>8
  <2> HIDE DEF UpTo, c
  <2> QED BY <2>1, <2>2
<1>10. InOrder(ks) \in [1 .. c -> ks] BY <1>9, Zenon DEF InOrder
<1>11. ASSUME NEW j \in 1 .. c, NEW k \in 1 .. c, InOrder(ks)[j] = InOrder(ks)[k] PROVE j = k
  <2> HIDE DEF UpTo, c
  <2> QED BY <1>9, <1>11
<1>12. ASSUME NEW k \in ks PROVE \E j \in 1 .. c : InOrder(ks)[j] = k
  <2> DEFINE m == rank[k]
  <2>1. m \in 1 .. c /\ m = Cardinality(UpTo(k)) BY <1>2
  <2>2. InOrder(ks)[m] \in ks /\ Cardinality(UpTo(InOrder(ks)[m])) = m BY <1>9, <2>1
  <2>3. rank[InOrder(ks)[m]] = rank[k]
    <3> HIDE DEF UpTo
    <3> QED BY <2>1, <2>2
  <2> HIDE DEF rank, UpTo, c, m
  <2> QED BY <1>4, <2>1, <2>2, <2>3, Zenon
<1> QED BY <1>1, <1>10, <1>11, <1>12

(* The first of some positions is one of them.                              *)
LEMMA FirstIsOne ==
    ASSUME NEW n \in Nat, NEW ks \in SUBSET (1 .. n), ks # {}
    PROVE  FirstIndex(ks) \in ks
<1>1. PICK x \in ks : TRUE BY Zenon
<1>2. \A k \in ks : k \in Nat OBVIOUS
<1>3. ks \in SUBSET Nat BY <1>2
<1>4. \E k \in ks : \A other \in ks : k <= other
  <2>1. PICK k \in ks : \A y \in ks : <<y, k>> \notin OpToRel(<, Nat)
    BY <1>3, NatLessThanWellFounded, WFMin, Zenon
  <2>2. \A y \in ks : ~(y < k)
    <3> TAKE y \in ks
    <3>1. y \in Nat /\ k \in Nat BY <1>2
    <3>2. <<y, k>> \in Nat \X Nat BY <3>1
    <3>3. y < k => <<y, k>> \in OpToRel(<, Nat) BY <3>2, Zenon DEF OpToRel
    <3> QED BY <2>1, <3>3, Zenon
  <2> QED BY <1>2, <2>2
<1> QED BY <1>4, Zenon DEF FirstIndex

(* A torrent has a number of pieces.                                        *)
LEMMA PieceCount == ASSUME NEW size \in Nat PROVE num_pieces(size) \in Nat
<1>1. MAX_REQUEST_SIZE \in Nat /\ MAX_REQUEST_SIZE > 0 BY UberAssumption
<1>2. size \div MAX_REQUEST_SIZE \in Nat BY <1>1
<1> QED BY <1>2 DEF num_pieces

(* A download that lacks no piece has asked for none.                       *)
LEMMA NoneLeft ==
    ASSUME NEW reqs, NEW hash, NEW p, Accounted(reqs, hash, p), p.left = 0
    PROVE  Zero(p.bytes) = {} /\ Asked(reqs, hash) = {}
<1> DEFINE n == num_pieces(p.size)
<1>1. p.size \in Nat /\ p.bytes \in [0 .. n - 1 -> UtData] BY DEF Accounted, UtDownloads
<1>2. n \in Nat BY <1>1, PieceCount
<1>3. Zero(p.bytes) \in SUBSET (0 .. n - 1) BY <1>1, Zenon DEF Zero
<1>4. IsFiniteSet(0 .. n - 1) BY <1>2, FS_Interval
<1>5. IsFiniteSet(Zero(p.bytes)) BY <1>3, <1>4, FS_Subset, Zenon
<1>6. Cardinality(Zero(p.bytes)) = 0 BY DEF Accounted
<1>7. Zero(p.bytes) = {} BY <1>5, <1>6, FS_EmptySet
<1> QED BY <1>7 DEF Accounted

(* A download starts with all of its pieces to be asked for.                *)
LEMMA FreshIsAccounted ==
    ASSUME NEW reqs, NEW hash, NEW size \in Nat, Asked(reqs, hash) = {}
    PROVE  Accounted(reqs, hash, pending_info_from_metadata_size(size))
<1> DEFINE n == num_pieces(size)
           p == pending_info_from_metadata_size(size)
<1>1. n \in Nat BY PieceCount
<1>2. /\ p.messages = [k \in 1 .. n |-> k - 1] /\ p.left = n /\ p.size = size
      /\ p.bytes = [piece \in 0 .. n - 1 |-> "zero"]
  BY DEF pending_info_from_metadata_size
<1>3. p.messages \in Seq(Int) /\ Len(p.messages) = n /\ \A k \in 1 .. n : p.messages[k] = k - 1
  <2> HIDE DEF n, p
  <2> QED BY <1>1, <1>2
<1>4. p \in UtDownloads(n)
  <2>1. p = [messages |-> p.messages, left |-> n, size |-> size, bytes |-> p.bytes]
    BY <1>2 DEF pending_info_from_metadata_size
  <2>2. p.bytes \in [0 .. n - 1 -> UtData] BY <1>2 DEF UtData
  <2> HIDE DEF n, p
  <2> QED BY <1>1, <1>3, <2>1, <2>2 DEF UtDownloads
<1>5. NoTwice(p.messages)
  <2> HIDE DEF n, p
  <2> QED BY <1>1, <1>3 DEF NoTwice
<1>6. Zero(p.bytes) = 0 .. n - 1
  <2> HIDE DEF n, p
  <2> QED BY <1>2 DEF Zero
<1>7. Waiting(p.messages) = 0 .. n - 1
  <2> HIDE DEF n, p
  <2>1. ASSUME NEW x \in 0 .. n - 1 PROVE x \in Waiting(p.messages)
    <3>1. x + 1 \in 1 .. n /\ p.messages[x + 1] = x BY <1>1, <1>3
    <3> QED BY <1>3, <3>1, Zenon DEF Waiting
  <2>2. ASSUME NEW x \in Waiting(p.messages) PROVE x \in 0 .. n - 1
    <3>1. PICK k \in 1 .. n : x = p.messages[k] BY <1>3, Zenon DEF Waiting
    <3> QED BY <1>1, <1>3, <3>1
  <2> QED BY <2>1, <2>2, Zenon
<1>8. Cardinality(0 .. n - 1) = n
  <2> HIDE DEF n
  <2> QED BY <1>1, FS_Interval
<1> HIDE DEF n, p
<1>9. Accounted(reqs, hash, p)
  BY <1>2, <1>4, <1>5, <1>6, <1>7, <1>8 DEF Accounted, n
<1> QED BY <1>9 DEF p

(* What is asked for belongs to a download that lacks it.                   *)
LEMMA AskedIsLacking ==
    ASSUME NEW map, NEW reqs, Downloads(map, reqs), NEW hash, NEW x \in Asked(reqs, hash)
    PROVE  /\ hash \in DOMAIN map
           /\ \E p \in map[hash] : p.left # 0 /\ Accounted(reqs, hash, p) /\ map[hash] = {p}
<1>1. PICK k \in 1 .. Len(reqs) : HashOf[reqs[k].sent_to] = hash BY Zenon DEF Asked
<1>2. hash \in DOMAIN map /\ map[hash] # {} BY <1>1, Zenon DEF Downloads, AskedForDownload
<1>3. PICK p \in map[hash] : TRUE BY <1>2, Zenon
<1>4. Accounted(reqs, hash, p) /\ map[hash] = {p} BY <1>2, Zenon DEF Downloads
<1>5. p.left # 0 BY <1>4, NoneLeft, Zenon
<1> QED BY <1>2, <1>4, <1>5, Zenon

(* Downloads that lack nothing may be dropped or started again, and others  *)
(* started, while nothing is asked or answered.                             *)
MayReplace(map, new) ==
    /\ DOMAIN new \subseteq UtHashes
    /\ \A hash \in DOMAIN map : \A p \in map[hash] : p.left # 0 => hash \in DOMAIN new /\ new[hash] = map[hash]
    /\ \A hash \in DOMAIN new : \A p \in new[hash] :
        \/ hash \in DOMAIN map /\ new[hash] = map[hash]
        \/ \E size \in Nat : p = pending_info_from_metadata_size(size) /\ new[hash] = {p}

(* So UberInv holds of the new map and the same requests: what is asked for *)
(* belongs to a download that lacks it, and that one is kept.               *)
LEMMA DownloadsReplaced ==
    ASSUME NEW map, NEW reqs, Downloads(map, reqs), NEW new, MayReplace(map, new)
    PROVE  Downloads(new, reqs)
<1>1. reqs \in Seq(UtRequests) /\ AskedOnce(reqs) /\ DOMAIN new \subseteq UtHashes BY Zenon DEF Downloads, MayReplace
<1>2. ASSUME NEW hash, NEW x \in Asked(reqs, hash) PROVE hash \in DOMAIN map /\ hash \in DOMAIN new /\ new[hash] = map[hash] /\ map[hash] # {}
  <2>1. PICK p \in map[hash] : hash \in DOMAIN map /\ p.left # 0 BY AskedIsLacking, Zenon
  <2> QED BY <2>1, Zenon DEF MayReplace
<1>3. AskedForDownload(new, reqs)
  <2> SUFFICES ASSUME NEW k \in 1 .. Len(reqs)
               PROVE  HashOf[reqs[k].sent_to] \in DOMAIN new /\ new[HashOf[reqs[k].sent_to]] # {}
    BY Zenon DEF AskedForDownload
  <2>1. reqs[k].piece \in Asked(reqs, HashOf[reqs[k].sent_to]) BY Zenon DEF Asked
  <2> QED BY <1>2, <2>1, Zenon
<1>4. ASSUME NEW hash \in DOMAIN new, NEW p \in new[hash] PROVE Accounted(reqs, hash, p) /\ new[hash] = {p}
  <2>1. CASE hash \in DOMAIN map /\ new[hash] = map[hash] BY <2>1, Zenon DEF Downloads
  <2>2. CASE ~(hash \in DOMAIN map /\ new[hash] = map[hash])
    <3>1. PICK size \in Nat : p = pending_info_from_metadata_size(size) /\ new[hash] = {p} BY <2>2, Zenon DEF MayReplace
    <3>2. Asked(reqs, hash) = {} BY <1>2, <2>2, Zenon
    <3> QED BY <3>1, <3>2, FreshIsAccounted, Zenon
  <2> QED BY <2>1, <2>2, Zenon
<1> QED BY <1>1, <1>3, <1>4, Zenon DEF Downloads

-----------------------------------------------------------------------------
(* The first elements of a sequence.                                        *)
LEMMA Prefix ==
    ASSUME NEW S, NEW a \in Seq(S), NEW n \in 0 .. Len(a)
    PROVE  SubSeq(a, 1, n) \in Seq(S) /\ Len(SubSeq(a, 1, n)) = n /\ \A k \in 1 .. n : SubSeq(a, 1, n)[k] = a[k]
OBVIOUS

(* retrieve_piece_request pops the last piece to be asked for.              *)
LEMMA LastIsTaken ==
    ASSUME NEW list \in Seq(Int), Len(list) > 0, NoTwice(list)
    PROVE  LET rest == SubSeq(list, 1, Len(list) - 1)
           IN  /\ rest \in Seq(Int) /\ NoTwice(rest)
               /\ list[Len(list)] \in Int /\ list[Len(list)] \in Waiting(list)
               /\ Waiting(rest) = Waiting(list) \ {list[Len(list)]}
<1> DEFINE m == Len(list)
           rest == SubSeq(list, 1, m - 1)
<1>1. m \in Nat \ {0} OBVIOUS
<1>2. rest \in Seq(Int) /\ Len(rest) = m - 1 /\ \A k \in 1 .. m - 1 : rest[k] = list[k]
  <2>1. m - 1 \in 0 .. Len(list) BY <1>1
  <2> QED BY <2>1, Prefix, Zenon
<1>3. NoTwice(rest)
  <2> HIDE DEF m, rest
  <2>1. \A k \in 1 .. m - 1 : k \in 1 .. m BY <1>1
  <2> QED BY <1>2, <2>1, Zenon DEF NoTwice, m
<1>4. m \in 1 .. m /\ list[m] \in Int BY <1>1
<1>5. list[m] \in Waiting(list) BY <1>4, Zenon DEF Waiting
<1> HIDE DEF rest
<1>6. ASSUME NEW x \in Waiting(rest) PROVE x \in Waiting(list) /\ x # list[m]
  <2>1. PICK k \in 1 .. m - 1 : x = list[k] BY <1>2, Zenon DEF Waiting
  <2>2. k \in 1 .. m /\ k # m BY <1>1, <2>1
  <2>3. x \in Waiting(list) BY <2>1, <2>2, Zenon DEF Waiting
  <2>4. list[k] # list[m] BY <1>4, <2>2, Zenon DEF NoTwice
  <2> QED BY <2>1, <2>3, <2>4, Zenon
<1>7. ASSUME NEW x \in Waiting(list), x # list[m] PROVE x \in Waiting(rest)
  <2>1. PICK k \in 1 .. m : x = list[k] BY Zenon DEF Waiting
  <2>2. k \in 1 .. m - 1 BY <1>1, <1>7, <2>1
  <2>3. rest[k] = x BY <1>2, <2>1, <2>2, Zenon
  <2> QED BY <1>2, <2>2, <2>3, Zenon DEF Waiting
<1>8. Waiting(rest) = Waiting(list) \ {list[m]} BY <1>6, <1>7, Zenon
<1> QED BY <1>2, <1>3, <1>4, <1>5, <1>8 DEF rest

AskedToo(reqs, r, more) ==
    \A hash : Asked(more, hash) = Asked(reqs, hash) \cup {x \in {r.piece} : HashOf[r.sent_to] = hash}

(* A request more: its piece is asked for too.                              *)
LEMMA OneMoreAsked ==
    ASSUME NEW reqs \in Seq(UtRequests), NEW r \in UtRequests
    PROVE  AskedToo(reqs, r, Append(reqs, r))
<1> SUFFICES ASSUME NEW hash
             PROVE  Asked(Append(reqs, r), hash) = Asked(reqs, hash) \cup {x \in {r.piece} : HashOf[r.sent_to] = hash}
  BY Zenon DEF AskedToo
<1> DEFINE n == Len(reqs)
           more == Append(reqs, r)
<1>1. n \in Nat /\ Len(more) = n + 1 /\ more[n + 1] = r /\ n + 1 \in 1 .. n + 1 OBVIOUS
<1>2. \A k \in 1 .. n : k \in 1 .. n + 1 /\ more[k] = reqs[k] BY <1>1
<1>3. \A k \in 1 .. n + 1 : k \in 1 .. n \/ k = n + 1 BY <1>1
<1> HIDE DEF n, more
<1>4. ASSUME NEW x \in Asked(more, hash) PROVE x \in Asked(reqs, hash) \/ (x = r.piece /\ HashOf[r.sent_to] = hash)
  <2>1. PICK k \in 1 .. n + 1 : x = more[k].piece /\ HashOf[more[k].sent_to] = hash BY <1>1, Zenon DEF Asked
  <2>2. CASE k \in 1 .. n
    <3>1. more[k] = reqs[k] BY <1>2, <2>2, Zenon
    <3>2. x = reqs[k].piece /\ HashOf[reqs[k].sent_to] = hash BY <2>1, <3>1, Zenon
    <3> QED BY <2>2, <3>2, Zenon DEF Asked, n
  <2>3. CASE k = n + 1 BY <1>1, <2>1, <2>3, Zenon
  <2> QED BY <1>3, <2>2, <2>3, Zenon
<1>5. ASSUME NEW x \in Asked(reqs, hash) PROVE x \in Asked(more, hash)
  <2>1. PICK k \in 1 .. n : x = reqs[k].piece /\ HashOf[reqs[k].sent_to] = hash BY Zenon DEF Asked, n
  <2>2. k \in 1 .. n + 1 /\ more[k] = reqs[k] BY <1>2, Zenon
  <2>3. x = more[k].piece /\ HashOf[more[k].sent_to] = hash BY <2>1, <2>2, Zenon
  <2> QED BY <1>1, <2>2, <2>3, Zenon DEF Asked
<1>6. HashOf[r.sent_to] = hash => r.piece \in Asked(more, hash) BY <1>1, Zenon DEF Asked
<1>7. Asked(more, hash) = Asked(reqs, hash) \cup {x \in {r.piece} : HashOf[r.sent_to] = hash}
  BY <1>4, <1>5, <1>6, Zenon
<1> QED BY <1>7, Zenon DEF more

(* A piece not asked for before may be asked for.                           *)
LEMMA AskedOnceMore ==
    ASSUME NEW reqs \in Seq(UtRequests), AskedOnce(reqs), NEW r \in UtRequests, r.piece \notin Asked(reqs, HashOf[r.sent_to])
    PROVE  AskedOnce(Append(reqs, r))
<1> DEFINE n == Len(reqs)
           more == Append(reqs, r)
<1>1. n \in Nat /\ Len(more) = n + 1 /\ more[n + 1] = r OBVIOUS
<1>2. \A k \in 1 .. n : more[k] = reqs[k] BY <1>1
<1>3. \A k \in 1 .. n + 1 : k \in 1 .. n \/ k = n + 1 BY <1>1
<1> HIDE DEF more
<1>4. ASSUME NEW k \in 1 .. n, reqs[k].piece = r.piece, HashOf[reqs[k].sent_to] = HashOf[r.sent_to] PROVE FALSE
  BY <1>4, Zenon DEF Asked
<1> HIDE DEF n
<1>5. ASSUME NEW j \in 1 .. n + 1, NEW k \in 1 .. n + 1, more[j].piece = more[k].piece, HashOf[more[j].sent_to] = HashOf[more[k].sent_to]
      PROVE  j = k
  <2>1. CASE j \in 1 .. n /\ k \in 1 .. n
    <3>1. more[j] = reqs[j] /\ more[k] = reqs[k] BY <1>2, <2>1, Zenon
    <3> QED BY <1>5, <2>1, <3>1, Zenon DEF AskedOnce, n
  <2>2. CASE j \in 1 .. n /\ k = n + 1
    <3>1. more[j] = reqs[j] /\ more[k] = r BY <1>1, <1>2, <2>2, Zenon
    <3> QED BY <1>4, <1>5, <2>2, <3>1, Zenon
  <2>3. CASE k \in 1 .. n /\ j = n + 1
    <3>1. more[k] = reqs[k] /\ more[j] = r BY <1>1, <1>2, <2>3, Zenon
    <3>2. reqs[k].piece = r.piece /\ HashOf[reqs[k].sent_to] = HashOf[r.sent_to] BY <1>5, <3>1, Zenon
    <3> QED BY <1>4, <2>3, <3>2, Zenon
  <2>4. CASE j = n + 1 /\ k = n + 1 BY <2>4, Zenon
  <2> QED BY <1>3, <2>1, <2>2, <2>3, <2>4, Zenon
<1>6. AskedOnce(more) BY <1>1, <1>5, Zenon DEF AskedOnce
<1> QED BY <1>6 DEF more

LastTaken(map, hash, old, new) ==
    /\ hash \in DOMAIN map /\ old \in map[hash] /\ Len(old.messages) > 0
    /\ DOMAIN new = DOMAIN map /\ \A h \in DOMAIN map : h # hash => new[h] = map[h]
    /\ new[hash] = {[old EXCEPT !.messages = SubSeq(@, 1, Len(@) - 1)]}

(* A piece popped from a download and asked of a peer of its torrent is as  *)
(* well accounted for as before.                                            *)
LEMMA PieceRequested ==
    ASSUME NEW map, NEW reqs, Downloads(map, reqs), NEW hash, NEW old, NEW new, LastTaken(map, hash, old, new),
           NEW peer \in UtPeers, HashOf[peer] = hash
    PROVE  Downloads(new, Append(reqs, generate_active_request(old.messages[Len(old.messages)], peer)))
<1> DEFINE piece == old.messages[Len(old.messages)]
           rest == SubSeq(old.messages, 1, Len(old.messages) - 1)
           r == generate_active_request(piece, peer)
           more == Append(reqs, r)
           q == [old EXCEPT !.messages = SubSeq(@, 1, Len(@) - 1)]
<1>1. Accounted(reqs, hash, old) /\ map[hash] = {old} /\ Len(old.messages) > 0 BY Zenon DEF Downloads, LastTaken
<1>2. old \in UtDownloads(num_pieces(old.size)) BY <1>1, Zenon DEF Accounted
<1>3. old.messages \in Seq(Int) /\ NoTwice(old.messages) BY <1>1, <1>2 DEF Accounted, UtDownloads
<1>4. /\ rest \in Seq(Int) /\ NoTwice(rest) /\ piece \in Int /\ piece \in Waiting(old.messages)
      /\ Waiting(rest) = Waiting(old.messages) \ {piece}
  BY <1>1, <1>3, LastIsTaken
<1>5. q.messages = rest /\ q.left = old.left /\ q.size = old.size /\ q.bytes = old.bytes /\ q \in UtDownloads(num_pieces(old.size))
  <2> HIDE DEF rest, piece, r, more
  <2>1. q = [old EXCEPT !.messages = rest] BY DEF rest
  <2> QED BY <1>2, <1>4, <2>1, Zenon DEF UtDownloads
<1> HIDE DEF q, rest, piece
<1>6. r \in UtRequests /\ r.piece = piece /\ r.sent_to = peer /\ HashOf[r.sent_to] = hash
  BY <1>4, UberAssumption DEF generate_active_request, UtRequests
<1> HIDE DEF r
<1>7. piece \notin Asked(reqs, hash) BY <1>1, <1>4, Zenon DEF Accounted
<1>8. reqs \in Seq(UtRequests) /\ AskedOnce(reqs) BY Zenon DEF Downloads
<1>9. more \in Seq(UtRequests) BY <1>6, <1>8
<1>10. AskedOnce(more) BY <1>6, <1>7, <1>8, AskedOnceMore, Zenon
<1>11. AskedToo(reqs, r, more) BY <1>6, <1>8, OneMoreAsked, Zenon
<1> HIDE DEF more
<1>12. /\ Asked(more, hash) = Asked(reqs, hash) \cup {piece}
       /\ \A h : h # hash => Asked(more, h) = Asked(reqs, h)
  <2>1. ASSUME NEW h PROVE Asked(more, h) = Asked(reqs, h) \cup {x \in {r.piece} : HashOf[r.sent_to] = h}
    BY <1>11, Zenon DEF AskedToo
  <2>2. {x \in {r.piece} : HashOf[r.sent_to] = hash} = {piece} BY <1>6, Zenon
  <2>3. ASSUME NEW h, h # hash PROVE {x \in {r.piece} : HashOf[r.sent_to] = h} = {} BY <1>6, <2>3, Zenon
  <2>4. Asked(more, hash) = Asked(reqs, hash) \cup {piece} BY <2>1, <2>2
  <2>5. ASSUME NEW h, h # hash PROVE Asked(more, h) = Asked(reqs, h)
    <3>1. PICK none : none = {x \in {r.piece} : HashOf[r.sent_to] = h} BY Zenon
    <3>2. Asked(more, h) = Asked(reqs, h) \cup none /\ none = {} BY <2>1, <2>3, <2>5, <3>1, Zenon
    <3> QED BY <3>2
  <2> QED BY <2>4, <2>5, Zenon
<1>13. Accounted(more, hash, q)
  <2>1. Waiting(q.messages) = Waiting(old.messages) \ {piece} BY <1>4, <1>5, Zenon
  <2>2. Waiting(old.messages) \cap Asked(reqs, hash) = {} /\ Waiting(old.messages) \cup Asked(reqs, hash) = Zero(old.bytes)
    BY <1>1, Zenon DEF Accounted
  <2>3. Waiting(q.messages) \cap Asked(more, hash) = {} BY <1>12, <2>1, <2>2, Zenon
  <2>4. Waiting(q.messages) \cup Asked(more, hash) = Zero(old.bytes) BY <1>4, <1>12, <2>1, <2>2, ZenonT(40)
  <2>5. old.left = Cardinality(Zero(old.bytes)) BY <1>1, Zenon DEF Accounted
  <2> QED BY <1>4, <1>5, <2>3, <2>4, <2>5, Zenon DEF Accounted
<1>14. ASSUME NEW h \in DOMAIN new, NEW p \in new[h] PROVE Accounted(more, h, p) /\ new[h] = {p}
  <2>1. CASE h = hash
    <3>1. new[h] = {q} BY <2>1, Zenon DEF q, LastTaken
    <3> QED BY <1>13, <2>1, <3>1, Zenon
  <2>2. CASE h # hash
    <3>1. h \in DOMAIN map /\ p \in map[h] /\ new[h] = map[h] BY <2>2, Zenon DEF LastTaken
    <3>2. Accounted(reqs, h, p) /\ map[h] = {p} BY <3>1, Zenon DEF Downloads
    <3>3. Asked(more, h) = Asked(reqs, h) BY <1>12, <2>2, Zenon
    <3> QED BY <3>1, <3>2, <3>3, Zenon DEF Accounted
  <2> QED BY <2>1, <2>2, Zenon
<1>15. AskedForDownload(new, more)
  <2> SUFFICES ASSUME NEW k \in 1 .. Len(more)
               PROVE  HashOf[more[k].sent_to] \in DOMAIN new /\ new[HashOf[more[k].sent_to]] # {}
    BY Zenon DEF AskedForDownload
  <2>1. PICK h : h = HashOf[more[k].sent_to] BY Zenon
  <2>2. CASE h = hash BY <2>1, <2>2, Zenon DEF LastTaken
  <2>3. CASE h # hash
    <3>1. more[k].piece \in Asked(more, h) BY <2>1, Zenon DEF Asked
    <3>2. more[k].piece \in Asked(reqs, h) BY <1>12, <2>3, <3>1, Zenon
    <3>3. h \in DOMAIN map /\ map[h] # {} BY <3>2, AskedIsLacking, Zenon
    <3> QED BY <2>1, <2>3, <3>3, Zenon DEF LastTaken
  <2> QED BY <2>2, <2>3, Zenon
<1>16. DOMAIN new \subseteq UtHashes BY Zenon DEF Downloads, LastTaken
<1>17. Downloads(new, more) BY <1>9, <1>10, <1>14, <1>15, <1>16, Zenon DEF Downloads
<1> QED BY <1>17 DEF more, r, piece

-----------------------------------------------------------------------------
(* Requests are taken out of the list; `place` tells where each of those    *)
(* that stay was.                                                           *)
AskedAt(reqs, ks, hash) == {reqs[k].piece : k \in {l \in ks : HashOf[reqs[l].sent_to] = hash}}

TakenOut(reqs, out, left, place) ==
    /\ reqs \in Seq(UtRequests) /\ left \in Seq(UtRequests)
    /\ out \in SUBSET (1 .. Len(reqs))
    /\ place \in [1 .. Len(left) -> (1 .. Len(reqs)) \ out]
    /\ \A j, k \in 1 .. Len(left) : place[j] = place[k] => j = k
    /\ \A k \in (1 .. Len(reqs)) \ out : \E j \in 1 .. Len(left) : place[j] = k
    /\ \A k \in 1 .. Len(left) : left[k].piece = reqs[place[k]].piece /\ left[k].sent_to = reqs[place[k]].sent_to

(* With some requests gone, exactly their pieces are no longer asked for.   *)
LEMMA OthersAreAsked ==
    ASSUME NEW reqs, NEW out, NEW left, NEW place, TakenOut(reqs, out, left, place), AskedOnce(reqs)
    PROVE  /\ AskedOnce(left)
           /\ \A hash : AskedAt(reqs, out, hash) \subseteq Asked(reqs, hash)
           /\ \A hash : Asked(left, hash) = Asked(reqs, hash) \ AskedAt(reqs, out, hash)
<1>1. AskedOnce(left)
  <2> SUFFICES ASSUME NEW j \in 1 .. Len(left), NEW k \in 1 .. Len(left),
                      left[j].piece = left[k].piece, HashOf[left[j].sent_to] = HashOf[left[k].sent_to]
               PROVE  j = k
    BY Zenon DEF AskedOnce
  <2>1. place[j] \in 1 .. Len(reqs) /\ place[k] \in 1 .. Len(reqs) BY Zenon DEF TakenOut
  <2>2. /\ left[j].piece = reqs[place[j]].piece /\ left[j].sent_to = reqs[place[j]].sent_to
        /\ left[k].piece = reqs[place[k]].piece /\ left[k].sent_to = reqs[place[k]].sent_to
    BY Zenon DEF TakenOut
  <2>3. place[j] = place[k] BY <2>1, <2>2, Zenon DEF AskedOnce
  <2> QED BY <2>3, Zenon DEF TakenOut
<1>2. ASSUME NEW hash PROVE AskedAt(reqs, out, hash) \subseteq Asked(reqs, hash)
  BY Zenon DEF AskedAt, Asked, TakenOut
<1>3. ASSUME NEW hash, NEW x \in Asked(left, hash) PROVE x \in Asked(reqs, hash) /\ x \notin AskedAt(reqs, out, hash)
  <2>1. PICK j \in 1 .. Len(left) : x = left[j].piece /\ HashOf[left[j].sent_to] = hash BY Zenon DEF Asked
  <2>2. PICK k : k = place[j] BY Zenon
  <2>3. k \in 1 .. Len(reqs) /\ k \notin out BY <2>2, Zenon DEF TakenOut
  <2>4. left[j].piece = reqs[k].piece /\ left[j].sent_to = reqs[k].sent_to BY <2>2, Zenon DEF TakenOut
  <2>5. x = reqs[k].piece /\ HashOf[reqs[k].sent_to] = hash BY <2>1, <2>4, Zenon
  <2>6. x \in Asked(reqs, hash) BY <2>3, <2>5, Zenon DEF Asked
  <2>7. ASSUME x \in AskedAt(reqs, out, hash) PROVE FALSE
    <3>1. PICK l \in out : x = reqs[l].piece /\ HashOf[reqs[l].sent_to] = hash BY <2>7, Zenon DEF AskedAt
    <3>2. l \in 1 .. Len(reqs) BY <3>1, Zenon DEF TakenOut
    <3>3. l = k BY <2>3, <2>5, <3>1, <3>2, Zenon DEF AskedOnce
    <3> QED BY <2>3, <3>1, <3>3, Zenon
  <2> QED BY <2>6, <2>7, Zenon
<1>4. ASSUME NEW hash, NEW x \in Asked(reqs, hash), x \notin AskedAt(reqs, out, hash) PROVE x \in Asked(left, hash)
  <2>1. PICK k \in 1 .. Len(reqs) : x = reqs[k].piece /\ HashOf[reqs[k].sent_to] = hash BY Zenon DEF Asked
  <2>2. k \notin out BY <1>4, <2>1, Zenon DEF AskedAt
  <2>3. PICK j \in 1 .. Len(left) : place[j] = k BY <2>1, <2>2, Zenon DEF TakenOut
  <2>4. left[j].piece = reqs[k].piece /\ left[j].sent_to = reqs[k].sent_to BY <2>3, Zenon DEF TakenOut
  <2>5. x = left[j].piece /\ HashOf[left[j].sent_to] = hash BY <2>1, <2>4, Zenon
  <2> QED BY <2>3, <2>5, Zenon DEF Asked
<1>5. ASSUME NEW hash PROVE Asked(left, hash) = Asked(reqs, hash) \ AskedAt(reqs, out, hash)
  BY <1>3, <1>4, Zenon
<1> QED BY <1>1, <1>2, <1>5, Zenon

(* swap_remove takes out the request at k and no other.                     *)
LEMMA SwapRemoveTakesOut ==
    ASSUME NEW reqs \in Seq(UtRequests), NEW k \in 1 .. Len(reqs)
    PROVE  \E place : TakenOut(reqs, {k}, UtSwapRemove(reqs, k), place)
<1> DEFINE n == Len(reqs)
           swapped == [reqs EXCEPT ![k] = reqs[n]]
           left == UtSwapRemove(reqs, k)
           place == [j \in 1 .. n - 1 |-> IF j = k THEN n ELSE j]
<1>1. n \in Nat \ {0} OBVIOUS
<1>2. swapped \in Seq(UtRequests) /\ Len(swapped) = n /\ \A j \in 1 .. n : swapped[j] = IF j = k THEN reqs[n] ELSE reqs[j] OBVIOUS
<1>3. left \in Seq(UtRequests) /\ Len(left) = n - 1 /\ \A j \in 1 .. n - 1 : left[j] = swapped[j]
  <2>1. n - 1 \in 0 .. Len(swapped) BY <1>1, <1>2
  <2>2. left = SubSeq(swapped, 1, n - 1) BY DEF UtSwapRemove
  <2> HIDE DEF n, left, swapped
  <2> QED BY <1>2, <2>1, <2>2, Prefix, Zenon
<1>4. \A j \in 1 .. n - 1 : left[j] = reqs[place[j]]
  <2> HIDE DEF left, swapped
  <2> QED BY <1>1, <1>2, <1>3
<1> HIDE DEF left
<1>5. place \in [1 .. n - 1 -> (1 .. n) \ {k}] BY <1>1
<1>6. \A j, l \in 1 .. n - 1 : place[j] = place[l] => j = l BY <1>1
<1>7. ASSUME NEW l \in (1 .. n) \ {k} PROVE \E j \in 1 .. n - 1 : place[j] = l
  <2>1. CASE l = n
    <3>1. k \in 1 .. n - 1 /\ place[k] = l BY <1>1, <1>7, <2>1
    <3> QED BY <3>1, Zenon
  <2>2. CASE l # n
    <3>1. l \in 1 .. n - 1 /\ place[l] = l BY <1>1, <1>7, <2>2
    <3> QED BY <3>1, Zenon
  <2> QED BY <2>1, <2>2
<1>8. {k} \in SUBSET (1 .. n) OBVIOUS
<1> HIDE DEF place
<1>9. TakenOut(reqs, {k}, left, place) BY <1>3, <1>4, <1>5, <1>6, <1>7, <1>8, Zenon DEF TakenOut, n
<1> QED BY <1>9, Zenon DEF left

(* A piece that comes is no longer lacking.                                 *)
PieceCame(p, piece, data) == [p EXCEPT !.left = @ - 1, !.bytes[piece] = data]

OneLess(m, p, piece, q) ==
    /\ q \in UtDownloads(m) /\ q.messages = p.messages /\ q.size = p.size /\ q.left = p.left - 1
    /\ Zero(q.bytes) = Zero(p.bytes) \ {piece}
    /\ Cardinality(Zero(q.bytes)) = Cardinality(Zero(p.bytes)) - 1

(* A piece that lacked and came lacks no more, and no other changes.        *)
LEMMA OneLessLacking ==
    ASSUME NEW m \in Nat, NEW p \in UtDownloads(m), NEW piece \in Zero(p.bytes), NEW data \in {"good", "bad"}
    PROVE  OneLess(m, p, piece, PieceCame(p, piece, data))
<1> DEFINE q == PieceCame(p, piece, data)
<1>1. p.bytes \in [0 .. m - 1 -> UtData] BY DEF UtDownloads
<1>2. piece \in 0 .. m - 1 BY <1>1, Zenon DEF Zero
<1>3. data \in UtData /\ data # "zero" BY DEF UtData
<1>4. q.bytes = [p.bytes EXCEPT ![piece] = data] /\ q.messages = p.messages /\ q.size = p.size /\ q.left = p.left - 1
  BY DEF PieceCame, UtDownloads
<1>5. q \in UtDownloads(m)
  <2>1. PICK bytes : bytes = [p.bytes EXCEPT ![piece] = data] BY Zenon
  <2>2. bytes \in [0 .. m - 1 -> UtData] BY <1>1, <1>2, <1>3, <2>1, Zenon
  <2>3. PICK less : less = [p EXCEPT !.left = p.left - 1] BY Zenon
  <2>4. p.left - 1 \in Int BY DEF UtDownloads
  <2>5. less \in UtDownloads(m) /\ less.bytes = p.bytes BY <2>3, <2>4, Zenon DEF UtDownloads
  <2>6. q = [less EXCEPT !.bytes = bytes] BY <2>1, <2>3, <2>5 DEF PieceCame
  <2> HIDE DEF q
  <2> QED BY <2>2, <2>5, <2>6, Zenon DEF UtDownloads
<1> HIDE DEF q
<1>6. Zero(q.bytes) = Zero(p.bytes) \ {piece}
  <2>1. DOMAIN q.bytes = 0 .. m - 1 /\ DOMAIN p.bytes = 0 .. m - 1 BY <1>1, <1>4, Zenon
  <2>2. \A x \in 0 .. m - 1 : q.bytes[x] = IF x = piece THEN data ELSE p.bytes[x] BY <1>1, <1>2, <1>4, Zenon
  <2>3. \A x \in 0 .. m - 1 : q.bytes[x] = "zero" <=> p.bytes[x] = "zero" /\ x # piece BY <1>3, <2>2, Zenon
  <2> QED BY <2>1, <2>3, Zenon DEF Zero
<1>7. IsFiniteSet(Zero(p.bytes))
  <2>1. IsFiniteSet(0 .. m - 1) BY FS_Interval
  <2>2. Zero(p.bytes) \in SUBSET (0 .. m - 1) BY <1>1, Zenon DEF Zero
  <2> QED BY <2>1, <2>2, FS_Subset, Zenon
<1>8. Cardinality(Zero(q.bytes)) = Cardinality(Zero(p.bytes)) - 1
  BY <1>6, <1>7, FS_RemoveElement, ZenonT(30)
<1> QED BY <1>4, <1>5, <1>6, <1>8, Zenon DEF q, OneLess

(* The download that the piece came for is accounted for.                   *)
LEMMA CameIsAccounted ==
    ASSUME NEW reqs, NEW left, NEW hash, NEW p, Accounted(reqs, hash, p), NEW piece \in Asked(reqs, hash),
           Asked(left, hash) = Asked(reqs, hash) \ {piece}, NEW data \in {"good", "bad"}
    PROVE  Accounted(left, hash, PieceCame(p, piece, data))
<1> DEFINE m == num_pieces(p.size)
<1>1. p \in UtDownloads(m) /\ piece \in Zero(p.bytes) BY Zenon DEF Accounted
<1>2. p.size \in Nat BY <1>1, Zenon DEF UtDownloads
<1>3. m \in Nat BY <1>2, PieceCount, Zenon
<1> HIDE DEF m
<1>4. PICK q : q = PieceCame(p, piece, data) BY Zenon
<1>5. /\ q \in UtDownloads(m) /\ q.messages = p.messages /\ q.size = p.size /\ q.left = p.left - 1
      /\ Zero(q.bytes) = Zero(p.bytes) \ {piece}
      /\ Cardinality(Zero(q.bytes)) = Cardinality(Zero(p.bytes)) - 1
  <2>1. OneLess(m, p, piece, q) BY <1>1, <1>3, <1>4, OneLessLacking, Zenon
  <2> QED BY <2>1, Zenon DEF OneLess
<1>6. /\ Waiting(p.messages) \cap Asked(reqs, hash) = {} /\ Waiting(p.messages) \cup Asked(reqs, hash) = Zero(p.bytes)
      /\ NoTwice(p.messages) /\ p.left = Cardinality(Zero(p.bytes))
  BY Zenon DEF Accounted
<1>7. Waiting(p.messages) \cap Asked(left, hash) = {} BY <1>6, Zenon
<1>8. Waiting(p.messages) \cup Asked(left, hash) = Zero(p.bytes) \ {piece} BY <1>6, ZenonT(40)
<1>9. q.left = Cardinality(Zero(q.bytes)) BY <1>5, <1>6, Zenon
<1>10. Accounted(left, hash, q) BY <1>5, <1>6, <1>7, <1>8, <1>9, Zenon DEF Accounted, m
<1> QED BY <1>4, <1>10, Zenon

(* A piece that comes is no longer asked for.                               *)
Received(map, hash, piece, data, new) ==
    /\ DOMAIN new = DOMAIN map
    /\ \A h \in DOMAIN map : h # hash => new[h] = map[h]
    /\ \A p : map[hash] = {p} => new[hash] = {PieceCame(p, piece, data)}

(* recv_data keeps the downloads accounted for when a peer answers what it  *)
(* was asked.                                                               *)
LEMMA PieceReceived ==
    ASSUME NEW map, NEW reqs, Downloads(map, reqs), NEW k \in 1 .. Len(reqs), NEW data \in {"good", "bad"},
           NEW hash, HashOf[reqs[k].sent_to] = hash, NEW piece, reqs[k].piece = piece,
           NEW new, Received(map, hash, piece, data, new)
    PROVE  Downloads(new, UtSwapRemove(reqs, k))
<1>1. reqs \in Seq(UtRequests) /\ AskedOnce(reqs) BY Zenon DEF Downloads
<1>2. PICK left : left = UtSwapRemove(reqs, k) BY Zenon
<1>3. PICK place : TakenOut(reqs, {k}, left, place) BY <1>1, <1>2, SwapRemoveTakesOut, Zenon
<1>4. AskedOnce(left) /\ \A h : Asked(left, h) = Asked(reqs, h) \ AskedAt(reqs, {k}, h)
  BY <1>1, <1>3, OthersAreAsked, Zenon
<1>5. left \in Seq(UtRequests) BY <1>3, Zenon DEF TakenOut
<1>6. \A x : x \in AskedAt(reqs, {k}, hash) <=> x = piece BY Zenon DEF AskedAt
<1>7. AskedAt(reqs, {k}, hash) = {piece} BY <1>6, Zenon
<1>8. Asked(left, hash) = Asked(reqs, hash) \ {piece} BY <1>4, <1>7, Zenon
<1>9. ASSUME NEW h, h # hash PROVE Asked(left, h) = Asked(reqs, h)
  <2>1. \A x : x \notin AskedAt(reqs, {k}, h) BY <1>9, Zenon DEF AskedAt
  <2> QED BY <1>4, <2>1, Zenon
<1>10. piece \in Asked(reqs, hash) BY Zenon DEF Asked
<1>11. PICK p \in map[hash] : Accounted(reqs, hash, p) /\ map[hash] = {p} /\ hash \in DOMAIN map BY <1>10, AskedIsLacking, Zenon
<1>12. PICK q : q = PieceCame(p, piece, data) BY Zenon
<1>13. Accounted(left, hash, q) BY <1>8, <1>10, <1>11, <1>12, CameIsAccounted, Zenon
<1>14. new[hash] = {q} BY <1>11, <1>12, Zenon DEF Received
<1>15. ASSUME NEW h \in DOMAIN new, NEW o \in new[h] PROVE Accounted(left, h, o) /\ new[h] = {o}
  <2>1. CASE h = hash BY <1>13, <1>14, <2>1, Zenon
  <2>2. CASE h # hash
    <3>1. h \in DOMAIN map /\ o \in map[h] /\ new[h] = map[h] BY <2>2, Zenon DEF Received
    <3>2. Accounted(reqs, h, o) /\ map[h] = {o} BY <3>1, Zenon DEF Downloads
    <3>3. Asked(left, h) = Asked(reqs, h) BY <1>9, <2>2, Zenon
    <3> QED BY <3>1, <3>2, <3>3, Zenon DEF Accounted
  <2> QED BY <2>1, <2>2, Zenon
<1>16. AskedForDownload(new, left)
  <2> SUFFICES ASSUME NEW j \in 1 .. Len(left)
               PROVE  HashOf[left[j].sent_to] \in DOMAIN new /\ new[HashOf[left[j].sent_to]] # {}
    BY Zenon DEF AskedForDownload
  <2>1. PICK h : h = HashOf[left[j].sent_to] BY Zenon
  <2>2. CASE h = hash
    <3>1. hash \in DOMAIN new BY <1>11, Zenon DEF Received
    <3> QED BY <1>14, <2>1, <2>2, <3>1, Zenon
  <2>3. CASE h # hash
    <3>1. left[j].piece \in Asked(left, h) BY <2>1, Zenon DEF Asked
    <3>2. left[j].piece \in Asked(reqs, h) BY <1>9, <2>3, <3>1, Zenon
    <3>3. h \in DOMAIN map /\ map[h] # {} BY <3>2, AskedIsLacking, Zenon
    <3> QED BY <2>1, <2>3, <3>3, Zenon DEF Received
  <2> QED BY <2>2, <2>3, Zenon
<1>17. DOMAIN new \subseteq UtHashes BY Zenon DEF Downloads, Received
<1>18. Downloads(new, left) BY <1>4, <1>5, <1>15, <1>16, <1>17, Zenon DEF Downloads
<1> QED BY <1>2, <1>18, Zenon

-----------------------------------------------------------------------------
(* Requests that expire leave the list.                                     *)
StillLeft(reqs, ks, duration) == [n \in DOMAIN InOrder(ks) |-> LeftAfter(reqs[InOrder(ks)[n]], duration)]

(* apply_tick takes out what expired, and only shortens the others.         *)
LEMMA TickTakesOut ==
    ASSUME NEW reqs \in Seq(UtRequests), NEW out \in SUBSET (1 .. Len(reqs)), NEW d \in Nat
    PROVE  TakenOut(reqs, out, StillLeft(reqs, (1 .. Len(reqs)) \ out, d), InOrder((1 .. Len(reqs)) \ out))
<1>1. PICK ks : ks = (1 .. Len(reqs)) \ out BY Zenon
<1>2. PICK place : place = InOrder(ks) BY Zenon
<1>3. PICK c : c = Cardinality(ks) BY Zenon
<1>4. Len(reqs) \in Nat /\ ks \in SUBSET (1 .. Len(reqs)) BY <1>1
<1>5. /\ c \in Nat /\ place \in [1 .. c -> ks]
      /\ \A j, k \in 1 .. c : place[j] = place[k] => j = k
      /\ \A k \in ks : \E j \in 1 .. c : place[j] = k
  BY <1>2, <1>3, <1>4, InOrderLists, Zenon
<1>6. PICK left : left = [n \in 1 .. c |-> LeftAfter(reqs[place[n]], d)] BY Zenon
<1>7. left = StillLeft(reqs, ks, d) BY <1>2, <1>5, <1>6, Zenon DEF StillLeft
<1>8. ASSUME NEW n \in 1 .. c
      PROVE  LeftAfter(reqs[place[n]], d) \in UtRequests /\ left[n].piece = reqs[place[n]].piece /\ left[n].sent_to = reqs[place[n]].sent_to
  <2>1. place[n] \in 1 .. Len(reqs) BY <1>4, <1>5, Zenon
  <2>2. PICK r : r = reqs[place[n]] BY Zenon
  <2>3. r \in UtRequests BY <2>1, <2>2
  <2>4. left[n] = LeftAfter(r, d) BY <1>6, <2>2, Zenon
  <2>5. LeftAfter(r, d) \in UtRequests /\ LeftAfter(r, d).piece = r.piece /\ LeftAfter(r, d).sent_to = r.sent_to
    <3>1. r.left - d \in Int BY <2>3 DEF UtRequests
    <3>2. LeftAfter(r, d) = [r EXCEPT !.left = r.left - d] BY DEF LeftAfter
    <3> QED BY <2>3, <3>1, <3>2, Zenon DEF UtRequests
  <2> QED BY <2>2, <2>4, <2>5, Zenon
<1>9. left \in Seq(UtRequests) /\ Len(left) = c
  <2>1. left \in [1 .. c -> UtRequests] BY <1>6, <1>8, Zenon
  <2> QED BY <1>5, <2>1
<1>10. TakenOut(reqs, out, left, place) BY <1>1, <1>5, <1>8, <1>9, Zenon DEF TakenOut
<1> QED BY <1>1, <1>2, <1>7, <1>10, Zenon

(* What they asked for is listed to be asked for again.                     *)
Again(reqs, ks) == [n \in DOMAIN InOrder(ks) |-> reqs[InOrder(ks)[n]].piece]
OutOf(reqs, out, hash) == {k \in out : HashOf[reqs[k].sent_to] = hash}

(* The pieces to be asked for again: those of the torrent that expired, each *)
(* once.                                                                    *)
LEMMA ExpiredAreListed ==
    ASSUME NEW reqs \in Seq(UtRequests), AskedOnce(reqs), NEW out \in SUBSET (1 .. Len(reqs)), NEW hash
    PROVE  LET list == Again(reqs, OutOf(reqs, out, hash))
           IN  list \in Seq(Int) /\ NoTwice(list) /\ Waiting(list) = AskedAt(reqs, out, hash)
<1>1. PICK ks : ks = OutOf(reqs, out, hash) BY Zenon
<1>2. PICK place : place = InOrder(ks) BY Zenon
<1>3. PICK c : c = Cardinality(ks) BY Zenon
<1>4. ks \in SUBSET (1 .. Len(reqs)) BY <1>1, Zenon DEF OutOf
<1>5. Len(reqs) \in Nat OBVIOUS
<1>6. /\ c \in Nat /\ place \in [1 .. c -> ks]
      /\ \A j, k \in 1 .. c : place[j] = place[k] => j = k
      /\ \A k \in ks : \E j \in 1 .. c : place[j] = k
  BY <1>2, <1>3, <1>4, <1>5, InOrderLists, Zenon
<1>7. PICK list : list = [n \in 1 .. c |-> reqs[place[n]].piece] BY Zenon
<1>8. list = Again(reqs, ks) BY <1>2, <1>6, <1>7, Zenon DEF Again
<1>9. ASSUME NEW n \in 1 .. c
      PROVE  /\ place[n] \in out /\ place[n] \in 1 .. Len(reqs) /\ HashOf[reqs[place[n]].sent_to] = hash
             /\ reqs[place[n]].piece \in Int
  <2>1. place[n] \in ks BY <1>6, Zenon
  <2>2. place[n] \in out /\ place[n] \in 1 .. Len(reqs) /\ HashOf[reqs[place[n]].sent_to] = hash BY <1>1, <2>1, Zenon DEF OutOf
  <2>3. reqs[place[n]] \in UtRequests BY <2>2
  <2> QED BY <2>2, <2>3 DEF UtRequests
<1>10. list \in Seq(Int) /\ Len(list) = c
  <2>1. list \in [1 .. c -> Int] BY <1>7, <1>9, Zenon
  <2> QED BY <1>6, <2>1
<1>11. \A n \in 1 .. c : list[n] = reqs[place[n]].piece BY <1>7, Zenon
<1>12. NoTwice(list)
  <2> SUFFICES ASSUME NEW j \in 1 .. c, NEW k \in 1 .. c, list[j] = list[k] PROVE j = k BY <1>10, Zenon DEF NoTwice
  <2>1. reqs[place[j]].piece = reqs[place[k]].piece BY <1>11, Zenon
  <2>2. place[j] = place[k] BY <1>9, <2>1, Zenon DEF AskedOnce
  <2> QED BY <1>6, <2>2, Zenon
<1>13. ASSUME NEW x \in Waiting(list) PROVE x \in AskedAt(reqs, out, hash)
  <2>1. PICK n \in 1 .. c : x = reqs[place[n]].piece BY <1>10, <1>11, Zenon DEF Waiting
  <2> QED BY <1>9, <2>1, Zenon DEF AskedAt
<1>14. ASSUME NEW x \in AskedAt(reqs, out, hash) PROVE x \in Waiting(list)
  <2>1. PICK k \in out : x = reqs[k].piece /\ HashOf[reqs[k].sent_to] = hash BY Zenon DEF AskedAt
  <2>2. k \in ks BY <1>1, <2>1, Zenon DEF OutOf
  <2>3. PICK n \in 1 .. c : place[n] = k BY <1>6, <2>2, Zenon
  <2>4. list[n] = x BY <1>11, <2>1, <2>3, Zenon
  <2> QED BY <1>10, <2>3, <2>4, Zenon DEF Waiting
<1>15. Waiting(list) = AskedAt(reqs, out, hash) BY <1>13, <1>14, Zenon
<1> QED BY <1>1, <1>8, <1>10, <1>12, <1>15, Zenon

Together(a, b, ab) == ab \in Seq(Int) /\ NoTwice(ab) /\ Waiting(ab) = Waiting(a) \cup Waiting(b)

(* Two lists that share nothing are joined.                                 *)
LEMMA PushedTogether ==
    ASSUME NEW a \in Seq(Int), NEW b \in Seq(Int), NoTwice(a), NoTwice(b), Waiting(a) \cap Waiting(b) = {}
    PROVE  Together(a, b, a \o b)
<1> DEFINE m == Len(a)
           n == Len(b)
           ab == a \o b
<1>1. m \in Nat /\ n \in Nat /\ ab \in Seq(Int) /\ Len(ab) = m + n OBVIOUS
<1>2. \A k \in 1 .. m : k \in 1 .. m + n /\ ab[k] = a[k] OBVIOUS
<1>3. \A k \in 1 .. n : m + k \in 1 .. m + n /\ ab[m + k] = b[k] OBVIOUS
<1> HIDE DEF ab
<1>4. \A k \in 1 .. m : a[k] \in Waiting(a) BY Zenon DEF Waiting
<1>5. \A k \in 1 .. n : b[k] \in Waiting(b) BY Zenon DEF Waiting
<1>6. /\ \A j, k \in 1 .. m : a[j] = a[k] => j = k
      /\ \A j, k \in 1 .. n : b[j] = b[k] => j = k
  BY Zenon DEF NoTwice
<1>7. ASSUME NEW x PROVE x \in Waiting(ab) <=> x \in Waiting(a) \/ x \in Waiting(b)
  <2> HIDE DEF m, n
  <2>1. ASSUME x \in Waiting(ab) PROVE x \in Waiting(a) \/ x \in Waiting(b)
    <3>1. PICK k \in 1 .. m + n : x = ab[k] BY <1>1, <2>1, Zenon DEF Waiting
    <3>2. CASE k \in 1 .. m BY <1>2, <1>4, <3>1, <3>2, Zenon
    <3>3. CASE k \notin 1 .. m
      <4>1. k - m \in 1 .. n /\ k = m + (k - m) BY <1>1, <3>1, <3>3
      <4>2. ab[k] = b[k - m] BY <1>3, <4>1, Zenon
      <4> QED BY <1>5, <3>1, <4>1, <4>2, Zenon
    <3> QED BY <3>2, <3>3
  <2>2. ASSUME x \in Waiting(a) PROVE x \in Waiting(ab)
    <3>1. PICK k \in 1 .. m : x = a[k] BY <2>2, Zenon DEF Waiting, m
    <3> QED BY <1>1, <1>2, <3>1, Zenon DEF Waiting
  <2>3. ASSUME x \in Waiting(b) PROVE x \in Waiting(ab)
    <3>1. PICK k \in 1 .. n : x = b[k] BY <2>3, Zenon DEF Waiting, n
    <3>2. m + k \in 1 .. m + n /\ ab[m + k] = x BY <1>3, <3>1, Zenon
    <3> QED BY <1>1, <3>2, Zenon DEF Waiting
  <2> QED BY <2>1, <2>2, <2>3, Zenon
<1>8. ASSUME NEW j \in 1 .. m + n, NEW k \in 1 .. m + n, j < k, ab[j] = ab[k] PROVE FALSE
  <2> HIDE DEF m, n
  <2>1. CASE k \in 1 .. m
    <3>1. j \in 1 .. m BY <1>1, <1>8, <2>1
    <3>2. a[j] = a[k] BY <1>2, <1>8, <2>1, <3>1, Zenon
    <3>3. j = k BY <1>6, <2>1, <3>1, <3>2, Zenon
    <3> QED BY <1>1, <1>8, <3>3
  <2>2. CASE k \notin 1 .. m
    <3>1. k - m \in 1 .. n /\ k = m + (k - m) BY <1>1, <2>2
    <3>2. ab[k] = b[k - m] BY <1>3, <3>1, Zenon
    <3>3. CASE j \in 1 .. m
      <4>1. a[j] = b[k - m] BY <1>2, <1>8, <3>2, <3>3, Zenon
      <4>2. a[j] \in Waiting(a) /\ a[j] \in Waiting(b) BY <1>4, <1>5, <3>1, <3>3, <4>1, Zenon
      <4> QED BY <4>2, Zenon
    <3>4. CASE j \notin 1 .. m
      <4>1. j - m \in 1 .. n /\ j = m + (j - m) BY <1>1, <3>4
      <4>2. ab[j] = b[j - m] BY <1>3, <4>1, Zenon
      <4>3. j - m = k - m BY <1>6, <1>8, <3>1, <3>2, <4>1, <4>2, Zenon
      <4> QED BY <1>1, <1>8, <4>3
    <3> QED BY <3>3, <3>4
  <2> QED BY <2>1, <2>2
<1>9. NoTwice(ab)
  <2> HIDE DEF m, n
  <2> SUFFICES ASSUME NEW j \in 1 .. m + n, NEW k \in 1 .. m + n, ab[j] = ab[k] PROVE j = k BY <1>1, Zenon DEF NoTwice
  <2>1. j < k \/ k < j \/ j = k BY <1>1
  <2>2. ~(j < k) BY <1>8, Zenon
  <2>3. ~(k < j) BY <1>8, Zenon
  <2> QED BY <2>1, <2>2, <2>3, Zenon
<1>10. Waiting(ab) = Waiting(a) \cup Waiting(b) BY <1>7, Zenon
<1>11. Together(a, b, ab) BY <1>1, <1>9, <1>10, Zenon DEF Together
<1> QED BY <1>11 DEF ab

PutBack(p, list) == [p EXCEPT !.messages = p.messages \o list]

(* What expires is to be asked for again, and nothing else is lost.         *)
AskedAgain(map, reqs, out, new) ==
    /\ DOMAIN new = DOMAIN map
    /\ \A h \in DOMAIN map : map[h] = {} => new[h] = {}
    /\ \A h \in DOMAIN map : \A p : map[h] = {p} =>
            new[h] = {PutBack(p, Again(reqs, OutOf(reqs, out, h)))}

(* A download whose requests expired has their pieces to be asked for.      *)
LEMMA AgainIsAccounted ==
    ASSUME NEW reqs \in Seq(UtRequests), AskedOnce(reqs), NEW out \in SUBSET (1 .. Len(reqs)), NEW hash,
           NEW left, Asked(left, hash) = Asked(reqs, hash) \ AskedAt(reqs, out, hash),
           AskedAt(reqs, out, hash) \subseteq Asked(reqs, hash),
           NEW p, Accounted(reqs, hash, p)
    PROVE  Accounted(left, hash, PutBack(p, Again(reqs, OutOf(reqs, out, hash))))
<1>1. PICK list : list = Again(reqs, OutOf(reqs, out, hash)) BY Zenon
<1>2. list \in Seq(Int) /\ NoTwice(list) /\ Waiting(list) = AskedAt(reqs, out, hash) BY <1>1, ExpiredAreListed, Zenon
<1>3. /\ NoTwice(p.messages) /\ Waiting(p.messages) \cap Asked(reqs, hash) = {}
      /\ Waiting(p.messages) \cup Asked(reqs, hash) = Zero(p.bytes) /\ p.left = Cardinality(Zero(p.bytes))
      /\ p \in UtDownloads(num_pieces(p.size))
  BY Zenon DEF Accounted
<1>4. p.messages \in Seq(Int) BY <1>3, Zenon DEF UtDownloads
<1>5. PICK all : all = p.messages \o list BY Zenon
<1>6. Waiting(p.messages) \cap Waiting(list) = {} BY <1>2, <1>3, Zenon
<1>7. Together(p.messages, list, all) BY <1>2, <1>3, <1>4, <1>5, <1>6, PushedTogether, Zenon
<1>8. all \in Seq(Int) /\ NoTwice(all) /\ Waiting(all) = Waiting(p.messages) \cup AskedAt(reqs, out, hash)
  BY <1>2, <1>7, Zenon DEF Together
<1>9. PICK q : q = [p EXCEPT !.messages = all] BY Zenon
<1>10. q.messages = all /\ q.left = p.left /\ q.size = p.size /\ q.bytes = p.bytes /\ q \in UtDownloads(num_pieces(p.size))
  BY <1>3, <1>8, <1>9, Zenon DEF UtDownloads
<1>11. Waiting(all) \cap Asked(left, hash) = {} BY <1>3, <1>8, Zenon
<1>12. Waiting(all) \cup Asked(left, hash) = Zero(p.bytes) BY <1>3, <1>8, ZenonT(40)
<1>13. Accounted(left, hash, q) BY <1>3, <1>8, <1>10, <1>11, <1>12, Zenon DEF Accounted
<1> QED BY <1>1, <1>5, <1>9, <1>13, Zenon DEF PutBack

(* apply_tick keeps the downloads accounted for, however many requests of   *)
(* however many torrents expire at once.                                    *)
LEMMA RequestsExpire ==
    ASSUME NEW map, NEW reqs, Downloads(map, reqs), NEW out \in SUBSET (1 .. Len(reqs)), NEW d \in Nat,
           NEW new, AskedAgain(map, reqs, out, new)
    PROVE  Downloads(new, StillLeft(reqs, (1 .. Len(reqs)) \ out, d))
<1>1. reqs \in Seq(UtRequests) /\ AskedOnce(reqs) BY Zenon DEF Downloads
<1>2. PICK left : left = StillLeft(reqs, (1 .. Len(reqs)) \ out, d) BY Zenon
<1>3. PICK place : TakenOut(reqs, out, left, place) BY <1>1, <1>2, TickTakesOut, Zenon
<1>4. /\ AskedOnce(left) /\ \A h : AskedAt(reqs, out, h) \subseteq Asked(reqs, h)
      /\ \A h : Asked(left, h) = Asked(reqs, h) \ AskedAt(reqs, out, h)
  BY <1>1, <1>3, OthersAreAsked, Zenon
<1>5. left \in Seq(UtRequests) BY <1>3, Zenon DEF TakenOut
<1>6. ASSUME NEW h \in DOMAIN new, NEW o \in new[h] PROVE Accounted(left, h, o) /\ new[h] = {o}
  <2>1. h \in DOMAIN map /\ map[h] # {} BY Zenon DEF AskedAgain
  <2>2. PICK p \in map[h] : Accounted(reqs, h, p) /\ map[h] = {p} BY <2>1, Zenon DEF Downloads
  <2>3. PICK q : q = PutBack(p, Again(reqs, OutOf(reqs, out, h))) BY Zenon
  <2>4. new[h] = {q} BY <2>1, <2>2, <2>3, Zenon DEF AskedAgain
  <2>5. Accounted(left, h, q) BY <1>1, <1>4, <2>2, <2>3, AgainIsAccounted, Zenon
  <2> QED BY <2>4, <2>5, Zenon
<1>7. AskedForDownload(new, left)
  <2> SUFFICES ASSUME NEW j \in 1 .. Len(left)
               PROVE  HashOf[left[j].sent_to] \in DOMAIN new /\ new[HashOf[left[j].sent_to]] # {}
    BY Zenon DEF AskedForDownload
  <2>1. PICK h : h = HashOf[left[j].sent_to] BY Zenon
  <2>2. left[j].piece \in Asked(left, h) BY <2>1, Zenon DEF Asked
  <2>3. left[j].piece \in Asked(reqs, h) BY <1>4, <2>2, Zenon
  <2>4. PICK p \in map[h] : h \in DOMAIN map /\ map[h] = {p} BY <2>3, AskedIsLacking, Zenon
  <2>5. PICK q : q = PutBack(p, Again(reqs, OutOf(reqs, out, h))) BY Zenon
  <2>6. h \in DOMAIN new /\ new[h] = {q} BY <2>4, <2>5, Zenon DEF AskedAgain
  <2> QED BY <2>1, <2>6, Zenon
<1>8. DOMAIN new \subseteq UtHashes BY Zenon DEF Downloads, AskedAgain
<1>9. Downloads(new, left) BY <1>4, <1>5, <1>6, <1>7, <1>8, Zenon DEF Downloads
<1> QED BY <1>2, <1>9, Zenon

-----------------------------------------------------------------------------
(* A peer that tells of its support is connected.                           *)
LEMMA SourceAdded ==
    ASSUME NEW active, NEW connected, Sources(active, connected), NEW info \in UtPeers,
           NEW theirs, theirs = {} \/ \E msg \in ExtendedMessages : theirs = {msg}
    PROVE  Sources(ut_add_peer(info, theirs, active), connected \cup {info})
<1>1. CASE \A msg \in theirs : ~msg.supports \/ msg.metadata_size = {}
  BY <1>1, Zenon DEF ut_add_peer, Sources, PeersOf
<1>2. CASE ~\A msg \in theirs : ~msg.supports \/ msg.metadata_size = {}
  <2>1. PICK hash : hash = HashOf[info] BY Zenon
  <2>2. PICK msg \in ExtendedMessages : theirs = {msg} BY <1>2, Zenon
  <2>3. (CHOOSE m \in theirs : TRUE) = msg BY <2>2
  <2>4. msg.metadata_size # {} BY <1>2, <2>2, Zenon
  <2>5. PICK claimed : claimed = CHOOSE size \in msg.metadata_size : TRUE BY Zenon
  <2>6. claimed \in Nat
    <3>1. claimed \in msg.metadata_size BY <2>4, <2>5, Zenon
    <3>2. PICK sizes : sizes = {{}} \cup {{size} : size \in ClaimedSizes} BY Zenon
    <3>3. msg = [supports |-> FALSE, metadata_size |-> {}] \/ msg \in [supports : {TRUE}, metadata_size : sizes]
      BY <3>2, Zenon DEF ExtendedMessages
    <3>4. msg.metadata_size = {} \/ msg.metadata_size \in sizes
      <4>1. CASE msg = [supports |-> FALSE, metadata_size |-> {}] BY <4>1, Zenon
      <4>2. CASE msg \in [supports : {TRUE}, metadata_size : sizes] BY <4>2, Zenon
      <4> QED BY <3>3, <4>1, <4>2, Zenon
    <3>5. PICK size \in ClaimedSizes : msg.metadata_size = {size} BY <2>4, <3>2, <3>4, Zenon
    <3> QED BY <3>1, <3>5, UberAssumption, Zenon
  <2>7. PICK entry : entry = IF hash \in DOMAIN active THEN active[hash] ELSE [peers |-> {}, metadata_size |-> claimed]
    BY Zenon
  <2>8. PICK more : more = [entry EXCEPT !.peers = @ \cup {info}] BY Zenon
  <2>9. ut_add_peer(info, theirs, active) = MapSet(active, hash, more)
    BY <1>2, <2>1, <2>3, <2>5, <2>7, <2>8, Zenon DEF ut_add_peer
  <2>10. entry \in Entries /\ entry.peers \subseteq PeersOf(hash, connected)
    <3>1. CASE hash \in DOMAIN active BY <2>7, <3>1, Zenon DEF Sources
    <3>2. CASE hash \notin DOMAIN active
      <4>1. entry = [peers |-> {}, metadata_size |-> claimed] BY <2>7, <3>2, Zenon
      <4> QED BY <2>6, <4>1 DEF Entries
    <3> QED BY <3>1, <3>2, Zenon
  <2>11. more \in Entries /\ more.peers = entry.peers \cup {info}
    <3>1. entry.peers \cup {info} \in SUBSET UtPeers BY <2>10, Zenon DEF Entries
    <3> QED BY <2>8, <2>10, <3>1, Zenon DEF Entries
  <2>12. more.peers \subseteq PeersOf(hash, connected \cup {info}) BY <2>1, <2>10, <2>11, Zenon DEF PeersOf
  <2>13. ASSUME NEW h \in DOMAIN active PROVE active[h].peers \subseteq PeersOf(h, connected \cup {info})
    BY Zenon DEF Sources, PeersOf
  <2> QED BY <2>9, <2>11, <2>12, <2>13, Zenon DEF MapSet, Sources
<1> QED BY <1>1, <1>2, Zenon

(* A peer that leaves is no source any more.                                *)
LEMMA SourceRemoved ==
    ASSUME NEW active, NEW connected, Sources(active, connected), NEW info
    PROVE  Sources(ut_remove_peer(info, active), connected \ {info})
<1>1. PICK hash : hash = HashOf[info] BY Zenon
<1>2. ASSUME NEW h \in DOMAIN active, h # hash PROVE active[h].peers \subseteq PeersOf(h, connected \ {info})
  BY <1>1, <1>2, Zenon DEF Sources, PeersOf
<1>3. CASE hash \notin DOMAIN active
  <2>1. ut_remove_peer(info, active) = active BY <1>1, <1>3, Zenon DEF ut_remove_peer
  <2> QED BY <1>2, <1>3, <2>1, Zenon DEF Sources
<1>4. CASE hash \in DOMAIN active /\ active[hash].peers \ {info} = {}
  <2>1. ut_remove_peer(info, active) = Without(active, {hash}) BY <1>1, <1>4, Zenon DEF ut_remove_peer
  <2> QED BY <1>2, <2>1, Zenon DEF Sources, Without
<1>5. CASE hash \in DOMAIN active /\ active[hash].peers \ {info} # {}
  <2>1. PICK new : new = ut_remove_peer(info, active) BY Zenon
  <2>2. new = [active EXCEPT ![hash].peers = @ \ {info}] BY <1>1, <1>5, <2>1, Zenon DEF ut_remove_peer
  <2>3. PICK less : less = [active[hash] EXCEPT !.peers = active[hash].peers \ {info}] BY Zenon
  <2>4. active[hash] \in Entries /\ active[hash].peers \subseteq PeersOf(hash, connected) BY <1>5, Zenon DEF Sources
  <2>5. less \in Entries /\ less.peers = active[hash].peers \ {info}
    <3>1. active[hash].peers \ {info} \in SUBSET UtPeers BY <2>4, Zenon DEF Entries
    <3> QED BY <2>3, <2>4, <3>1, Zenon DEF Entries
  <2>6. less.peers \subseteq PeersOf(hash, connected \ {info}) BY <2>4, <2>5, Zenon DEF PeersOf
  <2>7. DOMAIN new = DOMAIN active /\ new[hash] = less /\ \A h \in DOMAIN active : h # hash => new[h] = active[h]
    BY <1>5, <2>2, <2>3
  <2> QED BY <1>2, <2>1, <2>5, <2>6, <2>7, Zenon DEF Sources
<1> QED BY <1>3, <1>4, <1>5, Zenon

(* The sources of some torrents are left out, or some of them.              *)
LEMMA SourcesLeftOut ==
    ASSUME NEW active, NEW connected, Sources(active, connected), NEW new,
           \A hash \in DOMAIN new : hash \in DOMAIN active /\ new[hash] \in Entries /\ new[hash].peers \subseteq active[hash].peers
    PROVE  Sources(new, connected)
BY Zenon DEF Sources

(* on_update drops downloads that are done but wrong, and starts others.    *)
LEMMA UpdateMayReplace ==
    ASSUME NEW map, NEW reqs, Downloads(map, reqs), NEW active, NEW connected, Sources(active, connected)
    PROVE  MayReplace(map, initialize_pending(validate_downloaded(map), active))
<1>1. PICK kept : kept = validate_downloaded(map) BY Zenon
<1>2. PICK new : new = initialize_pending(kept, active) BY Zenon
<1>3. DOMAIN kept = DOMAIN map /\ \A hash \in DOMAIN map : kept[hash] = {p \in map[hash] : p.left # 0 \/ IsInfo(p)}
  BY <1>1, Zenon DEF validate_downloaded
<1>4. DOMAIN new = DOMAIN map
  BY <1>2, <1>3, Zenon DEF initialize_pending
<1>5. ASSUME NEW hash \in DOMAIN map, ~(kept[hash] = {} /\ hash \in DOMAIN active) PROVE new[hash] = kept[hash]
  BY <1>2, <1>3, <1>5, Zenon DEF initialize_pending
<1>6. ASSUME NEW hash \in DOMAIN map, kept[hash] = {}, hash \in DOMAIN active
      PROVE  new[hash] = {pending_info_from_metadata_size(active[hash].metadata_size)}
  BY <1>2, <1>3, <1>6, Zenon DEF initialize_pending
<1>7. ASSUME NEW hash \in DOMAIN map, NEW p \in kept[hash] PROVE kept[hash] = map[hash]
  <2>1. p \in map[hash] BY <1>3, Zenon
  <2>2. map[hash] = {p} BY <2>1, Zenon DEF Downloads
  <2>3. kept[hash] \subseteq map[hash] BY <1>3, Zenon
  <2> QED BY <2>2, <2>3, Zenon
<1>8. ASSUME NEW hash \in DOMAIN map, NEW p \in map[hash], p.left # 0 PROVE new[hash] = map[hash]
  <2>1. p \in kept[hash] BY <1>3, <1>8, Zenon
  <2>2. new[hash] = kept[hash] BY <1>5, <2>1, Zenon
  <2> QED BY <1>7, <2>1, <2>2, Zenon
<1>9. ASSUME NEW hash \in DOMAIN map, NEW p \in new[hash], new[hash] # map[hash]
      PROVE  \E size \in Nat : p = pending_info_from_metadata_size(size) /\ new[hash] = {p}
  <2>1. CASE kept[hash] = {} /\ hash \in DOMAIN active
    <3>1. PICK size : size = active[hash].metadata_size BY Zenon
    <3>2. size \in Nat BY <2>1, <3>1, Zenon DEF Sources, Entries
    <3>3. new[hash] = {pending_info_from_metadata_size(size)} BY <1>6, <2>1, <3>1, Zenon
    <3> QED BY <3>2, <3>3, Zenon
  <2>2. CASE ~(kept[hash] = {} /\ hash \in DOMAIN active)
    <3>1. new[hash] = kept[hash] BY <1>5, <2>2, Zenon
    <3> QED BY <1>7, <1>9, <3>1, Zenon
  <2> QED BY <2>1, <2>2, Zenon
<1>10. DOMAIN new \subseteq UtHashes BY <1>4, Zenon DEF Downloads
<1>11. MayReplace(map, new) BY <1>4, <1>8, <1>9, <1>10, Zenon DEF MayReplace
<1> QED BY <1>1, <1>2, <1>11, Zenon

(* Downloads that have all of their pieces are dropped.                     *)
LEMMA DoneMayBeDropped ==
    ASSUME NEW map, NEW reqs, Downloads(map, reqs), NEW dropped \in SUBSET Downloaded(map)
    PROVE  MayReplace(map, Without(map, dropped))
<1>1. ASSUME NEW hash \in DOMAIN map, NEW p \in map[hash], p.left # 0 PROVE hash \notin dropped
  <2> SUFFICES ASSUME hash \in dropped PROVE FALSE OBVIOUS
  <2>1. PICK q \in map[hash] : q.left = 0 BY Zenon DEF Downloaded
  <2>2. map[hash] = {p} BY Zenon DEF Downloads
  <2> QED BY <1>1, <2>1, <2>2, Zenon
<1>2. DOMAIN map \subseteq UtHashes BY Zenon DEF Downloads
<1> QED BY <1>1, <1>2, Zenon DEF MayReplace, Without

-----------------------------------------------------------------------------
UberParts == Downloads(pending_map, active_requests) /\ Sources(active_peers, ext_peers)

(* on_update, for a peer that connects or tells what it supports.           *)
LEMMA UpdateKeeps ==
    ASSUME UberParts, NEW info \in UtPeers, NEW theirs, theirs = {} \/ \E msg \in ExtendedMessages : theirs = {msg},
           on_update(info, theirs), active_requests' = active_requests, ext_peers' = ext_peers \cup {info}
    PROVE  UberParts'
<1>1. PICK active : active = ut_add_peer(info, theirs, active_peers) BY Zenon
<1>2. active_peers' = active /\ pending_map' = initialize_pending(validate_downloaded(pending_map), active)
  BY <1>1, Zenon DEF on_update
<1>3. Sources(active, ext_peers \cup {info}) BY <1>1, SourceAdded, Zenon DEF UberParts
<1>4. Sources(active_peers', ext_peers') BY <1>2, <1>3, Zenon
<1>5. PICK map : map = pending_map /\ Downloads(map, active_requests) BY Zenon DEF UberParts
<1>6. PICK new : new = initialize_pending(validate_downloaded(map), active) BY Zenon
<1>7. Downloads(new, active_requests) BY <1>3, <1>5, <1>6, UpdateMayReplace, DownloadsReplaced, Zenon
<1>8. Downloads(pending_map', active_requests') BY <1>2, <1>5, <1>6, <1>7, Zenon
<1> QED BY <1>4, <1>8, Zenon DEF UberParts

(* apply_tick, which also leaves out the peers that were too slow.          *)
LEMMA TickKeeps ==
    ASSUME UberParts, NEW duration \in Nat, apply_tick(duration), ext_peers' = ext_peers
    PROVE  UberParts'
<1>1. PICK reqs : reqs = active_requests /\ Downloads(pending_map, reqs) BY Zenon DEF UberParts
<1>2. PICK map : map = pending_map /\ Downloads(map, reqs) BY <1>1, Zenon
<1>3. PICK out : out = Expired(duration) BY Zenon
<1>4. reqs \in Seq(UtRequests) BY <1>2, Zenon DEF Downloads
<1>5. DOMAIN reqs = 1 .. Len(reqs) BY <1>4
<1>6. out \in SUBSET (1 .. Len(reqs)) BY <1>1, <1>3, <1>5, Zenon DEF Expired
<1>7. \A hash : ExpiredOf(hash, duration) = OutOf(reqs, out, hash) BY <1>1, <1>3, Zenon DEF ExpiredOf, OutOf
<1>8. active_requests' = StillLeft(reqs, (1 .. Len(reqs)) \ out, duration)
  BY <1>1, <1>3, <1>5, Zenon DEF apply_tick, StillLeft
<1>9. PICK new : new = [hash \in DOMAIN map |->
                {[p EXCEPT !.messages = PushExpired(@, [n \in DOMAIN InOrder(ExpiredOf(hash, duration)) |->
                    active_requests[InOrder(ExpiredOf(hash, duration))[n]].piece])] : p \in map[hash]}]
  BY Zenon
<1>10. pending_map' = new BY <1>2, <1>9, Zenon DEF apply_tick
<1>11. DOMAIN new = DOMAIN map BY <1>9, Zenon
<1>12. ASSUME NEW h \in DOMAIN map
       PROVE  new[h] = {PutBack(p, Again(reqs, OutOf(reqs, out, h))) : p \in map[h]}
  <2>1. ExpiredOf(h, duration) = OutOf(reqs, out, h) BY <1>7, Zenon
  <2> QED BY <1>1, <1>9, <2>1 DEF PushExpired, Again, PutBack
<1>13. AskedAgain(map, reqs, out, new)
  <2>1. ASSUME NEW h \in DOMAIN map, map[h] = {} PROVE new[h] = {} BY <1>12, <2>1, Zenon
  <2>2. ASSUME NEW h \in DOMAIN map, NEW p, map[h] = {p}
        PROVE  new[h] = {PutBack(p, Again(reqs, OutOf(reqs, out, h)))}
    BY <1>12, <2>2, Zenon
  <2> QED BY <1>11, <2>1, <2>2, Zenon DEF AskedAgain
<1>14. Downloads(new, StillLeft(reqs, (1 .. Len(reqs)) \ out, duration)) BY <1>2, <1>6, <1>13, RequestsExpire, Zenon
<1>15. Downloads(pending_map', active_requests') BY <1>8, <1>10, <1>14, Zenon
<1>16. Sources(active_peers', ext_peers')
  <2>1. PICK active : active = active_peers /\ Sources(active, ext_peers) BY Zenon DEF UberParts
  <2>2. PICK fewer : fewer = [hash \in DOMAIN active |->
                [active[hash] EXCEPT !.peers = @ \ {active_requests[k].sent_to : k \in ExpiredOf(hash, duration)}]]
    BY Zenon
  <2>3. active_peers' = fewer BY <2>1, <2>2, Zenon DEF apply_tick
  <2>4. ASSUME NEW h \in DOMAIN fewer
        PROVE  h \in DOMAIN active /\ fewer[h] \in Entries /\ fewer[h].peers \subseteq active[h].peers
    <3>1. h \in DOMAIN active BY <2>2, Zenon
    <3>2. active[h] \in Entries BY <2>1, <3>1, Zenon DEF Sources
    <3>3. PICK gone : gone = {active_requests[k].sent_to : k \in ExpiredOf(h, duration)} BY Zenon
    <3>4. fewer[h] = [active[h] EXCEPT !.peers = active[h].peers \ gone] BY <2>2, <3>1, <3>3
    <3>5. active[h].peers \ gone \in SUBSET UtPeers BY <3>2, Zenon DEF Entries
    <3>6. fewer[h] \in Entries /\ fewer[h].peers = active[h].peers \ gone BY <3>2, <3>4, <3>5, Zenon DEF Entries
    <3> QED BY <3>1, <3>6, Zenon
  <2>5. Sources(fewer, ext_peers) BY <2>1, <2>4, SourcesLeftOut, Zenon
  <2> QED BY <2>3, <2>5, Zenon
<1> QED BY <1>15, <1>16, Zenon DEF UberParts

(* recv_data, for data that was asked for and for data that was not.        *)
LEMMA DataKeeps ==
    ASSUME UberParts, NEW info \in UtPeers, NEW piece, NEW data \in {"good", "bad"}, recv_data(info, piece, data),
           active_peers' = active_peers, ext_peers' = ext_peers
    PROVE  UberParts'
<1>1. Sources(active_peers', ext_peers') BY Zenon DEF UberParts
<1>2. PICK reqs : reqs = active_requests /\ Downloads(pending_map, reqs) BY Zenon DEF UberParts
<1>3. PICK map : map = pending_map /\ Downloads(map, reqs) BY <1>2, Zenon
<1>4. PICK asked : asked = {k \in DOMAIN reqs : reqs[k].sent_to = info /\ reqs[k].piece = piece} BY Zenon
<1>5. CASE asked = {}
  <2>1. active_requests' = active_requests /\ pending_map' = pending_map BY <1>2, <1>4, <1>5, Zenon DEF recv_data
  <2> QED BY <1>1, <1>2, <2>1, Zenon DEF UberParts
<1>6. CASE asked # {}
  <2>1. reqs \in Seq(UtRequests) BY <1>3, Zenon DEF Downloads
  <2>2. Len(reqs) \in Nat /\ asked \in SUBSET (1 .. Len(reqs)) BY <1>4, <2>1
  <2>3. PICK k \in asked : k = FirstIndex(asked) BY <1>6, <2>2, FirstIsOne, Zenon
  <2>4. k \in 1 .. Len(reqs) /\ reqs[k].sent_to = info /\ reqs[k].piece = piece BY <1>4, <2>2, <2>3, Zenon
  <2>5. PICK hash : hash = HashOf[info] BY Zenon
  <2>6. PICK new : new = [h \in DOMAIN map |->
                    {IF h = hash THEN [p EXCEPT !.left = @ - 1, !.bytes[piece] = data] ELSE p : p \in map[h]}]
    BY Zenon
  <2>7. active_requests' = UtSwapRemove(reqs, k) /\ pending_map' = new
    <3>1. asked = {j \in DOMAIN active_requests : active_requests[j].sent_to = info /\ active_requests[j].piece = piece}
      BY <1>2, <1>4, Zenon
    <3>2. active_requests' = UtSwapRemove(active_requests, FirstIndex(asked))
      BY <1>6, <3>1, Zenon DEF recv_data
    <3>3. pending_map' = [h \in DOMAIN pending_map |->
                    {IF h = HashOf[info] THEN [p EXCEPT !.left = @ - 1, !.bytes[piece] = data] ELSE p : p \in pending_map[h]}]
      BY <1>6, <3>1, Zenon DEF recv_data
    <3> QED BY <1>2, <1>3, <2>3, <2>5, <2>6, <3>2, <3>3, Zenon
  <2>8. Received(map, hash, piece, data, new)
    <3>1. DOMAIN new = DOMAIN map BY <2>6, Zenon
    <3>2. ASSUME NEW h \in DOMAIN map, h # hash PROVE new[h] = map[h] BY <2>6, <3>2, Zenon
    <3>3. hash \in DOMAIN map
      <4>1. HashOf[reqs[k].sent_to] \in DOMAIN map BY <1>3, <2>4, Zenon DEF Downloads, AskedForDownload
      <4> QED BY <2>4, <2>5, <4>1, Zenon
    <3>4. ASSUME NEW p, map[hash] = {p} PROVE new[hash] = {PieceCame(p, piece, data)}
      <4>1. new[hash] = {PieceCame(q, piece, data) : q \in map[hash]} BY <2>6, <3>3, Zenon DEF PieceCame
      <4> QED BY <3>4, <4>1, Zenon
    <3> QED BY <3>1, <3>2, <3>4, Zenon DEF Received
  <2>9. HashOf[reqs[k].sent_to] = hash BY <2>4, <2>5, Zenon
  <2>10. Downloads(new, UtSwapRemove(reqs, k)) BY <1>3, <2>4, <2>8, <2>9, PieceReceived, Zenon
  <2> QED BY <1>1, <2>7, <2>10, Zenon DEF UberParts
<1> QED BY <1>5, <1>6, Zenon

(* A download that is yielded has all of its pieces.                        *)
LEMMA YieldedIsWhole ==
    ASSUME NEW map, NEW reqs, Downloads(map, reqs), NEW hash \in Downloaded(map), NEW p \in map[hash]
    PROVE  \A piece \in DOMAIN p.bytes : p.bytes[piece] # "zero"
<1>1. PICK q \in map[hash] : q.left = 0 /\ hash \in DOMAIN map BY Zenon DEF Downloaded
<1>2. map[hash] = {q} /\ Accounted(reqs, hash, q) BY <1>1, Zenon DEF Downloads
<1>3. Zero(p.bytes) = {} BY <1>1, <1>2, NoneLeft, Zenon
<1> QED BY <1>3, Zenon DEF Zero

(* poll_next of the discovery module yields what is whole and asks for what *)
(* lacks.                                                                   *)
LEMMA PollKeeps ==
    ASSUME UberParts, PollDiscovery
    PROVE  UberParts' /\ DownloadedIsWhole'
<1>1. PICK reqs : reqs = active_requests /\ Downloads(pending_map, reqs) BY Zenon DEF UberParts
<1>2. PICK map : map = pending_map /\ Downloads(map, reqs) BY <1>1, Zenon
<1>3. PICK peers : peers = active_peers /\ Sources(peers, ext_peers) BY Zenon DEF UberParts
<1>4. ext_peers' = ext_peers BY Zenon DEF PollDiscovery, extVars
<1>5. PICK dropped \in SUBSET {h \in Downloaded(map) : MayNotParse(h)} :
        \/ \E hash \in Downloaded(map) \ dropped : retrieve_completed_download(dropped, hash)
        \/ dropped = Downloaded(map) /\ RequestOrResponse(Without(map, dropped), Without(peers, dropped))
  BY <1>2, <1>3, Zenon DEF PollDiscovery
<1>6. ASSUME NEW gone PROVE Sources(Without(peers, gone), ext_peers) BY <1>3, Zenon DEF Sources, Without
<1>7. ASSUME NEW gone \in SUBSET Downloaded(map) PROVE Downloads(Without(map, gone), reqs)
  <2>1. MayReplace(map, Without(map, gone)) BY <1>2, DoneMayBeDropped, Zenon
  <2> QED BY <1>2, <2>1, DownloadsReplaced, Zenon
<1>8. CASE \E hash \in Downloaded(map) \ dropped : retrieve_completed_download(dropped, hash)
  <2>1. PICK hash \in Downloaded(map) : retrieve_completed_download(dropped, hash) BY <1>8, Zenon
  <2>2. PICK gone \in SUBSET Downloaded(map) : gone = dropped \cup {hash} BY Zenon
  <2>3. /\ pending_map' = Without(map, gone) /\ active_peers' = Without(peers, gone)
        /\ active_requests' = reqs /\ yielded'.info = map[hash]
    BY <1>1, <1>2, <1>3, <2>1, <2>2, Zenon DEF retrieve_completed_download
  <2>4. DownloadedIsWhole' BY <1>2, <2>3, YieldedIsWhole, Zenon DEF DownloadedIsWhole
  <2> QED BY <1>4, <1>6, <1>7, <2>3, <2>4, Zenon DEF UberParts
<1>9. CASE RequestOrResponse(Without(map, dropped), Without(peers, dropped))
  <2>1. PICK pend : pend = Without(map, dropped) BY Zenon
  <2>2. PICK active : active = Without(peers, dropped) BY Zenon
  <2>3. Downloads(pend, reqs) /\ Sources(active, ext_peers) BY <1>6, <1>7, <2>1, <2>2, Zenon
  <2>4. CASE \E choice \in MayRequest(pend, active) : retrieve_piece_request(pend, active, choice[1], choice[2])
    <3>1. PICK choice \in MayRequest(pend, active) : retrieve_piece_request(pend, active, choice[1], choice[2]) BY <2>4, Zenon
    <3>2. PICK hash : hash = choice[1] BY Zenon
    <3>3. PICK peer : peer = choice[2] BY Zenon
    <3>4. /\ hash \in DOMAIN pend /\ peer \in UtPeers /\ \E p \in pend[hash] : p.messages # <<>>
          /\ hash \in DOMAIN active /\ peer \in active[hash].peers
      BY <3>1, <3>2, <3>3 DEF MayRequest
    <3>5. HashOf[peer] = hash BY <2>3, <3>4, Zenon DEF Sources, PeersOf
    <3>6. PICK old \in pend[hash] : old.messages # <<>> BY <3>4, Zenon
    <3>7. pend[hash] = {old} /\ Accounted(reqs, hash, old) BY <2>3, <3>4, <3>6, Zenon DEF Downloads
    <3>8. (CHOOSE p \in pend[hash] : TRUE) = old BY <3>7
    <3>9. old.messages \in Seq(Int) BY <3>7, Zenon DEF Accounted, UtDownloads
    <3>10. Len(old.messages) > 0 BY <3>6, <3>9
    <3>11. PICK new : new = [pend EXCEPT ![hash] = {[old EXCEPT !.messages = SubSeq(@, 1, Len(@) - 1)]}] BY Zenon
    <3>12. /\ pending_map' = new /\ active_peers' = active
           /\ active_requests' = Append(reqs, generate_active_request(old.messages[Len(old.messages)], peer))
           /\ yielded'.type = "SendRequest"
      BY <1>1, <3>1, <3>2, <3>3, <3>8, <3>11, ZenonT(30) DEF retrieve_piece_request
    <3>13. LastTaken(pend, hash, old, new)
      <4>1. pend = [h \in DOMAIN pend |-> pend[h]] BY <2>1, Zenon DEF Without
      <4>2. PICK taken : taken = {[old EXCEPT !.messages = SubSeq(@, 1, Len(@) - 1)]} BY Zenon
      <4>3. new = [pend EXCEPT ![hash] = taken] BY <3>11, <4>2, Zenon
      <4>4. DOMAIN new = DOMAIN pend /\ \A h \in DOMAIN pend : new[h] = IF h = hash THEN taken ELSE pend[h]
        BY <3>4, <4>1, <4>3, Zenon
      <4> QED BY <3>4, <3>6, <3>10, <4>2, <4>4, Zenon DEF LastTaken
    <3>14. Downloads(new, Append(reqs, generate_active_request(old.messages[Len(old.messages)], peer)))
      BY <2>3, <3>4, <3>5, <3>13, PieceRequested, Zenon
    <3>15. DownloadedIsWhole' BY <3>12 DEF DownloadedIsWhole
    <3> QED BY <1>4, <2>3, <3>12, <3>14, <3>15, Zenon DEF UberParts
  <2>5. CASE /\ pending_map' = pend /\ active_peers' = active
             /\ retrieve_piece_response
             /\ active_requests' = active_requests
    <3>1. yielded'.type # "DownloadedMetainfo" BY <2>5 DEF retrieve_piece_response, Quiet
    <3> QED BY <1>1, <1>4, <2>3, <2>5, <3>1, Zenon DEF UberParts, DownloadedIsWhole
  <2> QED BY <1>9, <2>1, <2>2, <2>4, <2>5, Zenon DEF RequestOrResponse
<1> QED BY <1>5, <1>8, <1>9, Zenon

(* A download is asked for: it starts when a peer has told its size.        *)
LEMMA AskingKeeps ==
    ASSUME UberParts, NEW hash \in UtHashes, DownloadMetainfo(hash)
    PROVE  UberParts'
<1>1. PICK map : map = pending_map /\ Downloads(map, active_requests) BY Zenon DEF UberParts
<1>2. PICK new : new = IF hash \in DOMAIN map THEN map ELSE MapSet(map, hash, {}) BY Zenon
<1>3. /\ pending_map' = new /\ active_requests' = active_requests
      /\ active_peers' = active_peers /\ ext_peers' = ext_peers
  BY <1>1, <1>2, Zenon DEF DownloadMetainfo, extVars
<1>4. Downloads(new, active_requests)
  <2>1. CASE hash \in DOMAIN map BY <1>1, <1>2, <2>1, Zenon
  <2>2. CASE hash \notin DOMAIN map
    <3>1. /\ DOMAIN new = DOMAIN map \cup {hash} /\ new[hash] = {}
          /\ \A h \in DOMAIN map : new[h] = map[h]
      BY <1>2, <2>2, Zenon DEF MapSet
    <3>2. DOMAIN map \subseteq UtHashes BY <1>1, Zenon DEF Downloads
    <3>3. MayReplace(map, new) BY <3>1, <3>2, Zenon DEF MayReplace
    <3> QED BY <1>1, <3>3, DownloadsReplaced, Zenon
  <2> QED BY <2>1, <2>2, Zenon
<1>5. Downloads(pending_map', active_requests') BY <1>3, <1>4, Zenon
<1>6. Sources(active_peers', ext_peers') BY <1>3, Zenon DEF UberParts
<1> QED BY <1>5, <1>6, Zenon DEF UberParts

(* UberInit has no download, no request and no peer.                        *)
LEMMA UberInvInit == UberInit => UberInv
<1> SUFFICES ASSUME UberInit PROVE UberInv OBVIOUS
<1>1. pending_map = <<>> /\ active_requests = <<>> /\ active_peers = <<>> /\ yielded.type = "Pending" BY DEF UberInit, Quiet
<1>2. DOMAIN <<>> = {} /\ Len(<<>>) = 0 /\ <<>> \in Seq(UtRequests) OBVIOUS
<1>3. 1 .. 0 = {} OBVIOUS
<1>4. Downloads(<<>>, <<>>) BY <1>2, <1>3, Zenon DEF Downloads, AskedOnce, AskedForDownload
<1>5. Sources(<<>>, ext_peers) BY <1>2, Zenon DEF Sources
<1>6. DownloadedIsWhole BY <1>1 DEF DownloadedIsWhole
<1> QED BY <1>1, <1>4, <1>5, <1>6, Zenon DEF UberInv

(* Every message to the sink and every poll of the stream keeps UberInv.    *)
LEMMA UberInvStep == UberInv /\ [UberNext]_uberVars => UberInv'
<1> SUFFICES ASSUME UberInv, [UberNext]_uberVars PROVE UberInv' OBVIOUS
<1>1. UberParts /\ DownloadedIsWhole BY Zenon DEF UberInv, UberParts
<1>2. ASSUME UberParts', DownloadedIsWhole' PROVE UberInv' BY <1>2, Zenon DEF UberInv, UberParts
<1>3. ASSUME yielded' = Quiet PROVE DownloadedIsWhole' BY <1>3 DEF DownloadedIsWhole, Quiet
<1>4. ASSUME pending_map' = pending_map, active_requests' = active_requests, active_peers' = active_peers, ext_peers' = ext_peers
      PROVE  UberParts'
  BY <1>1, <1>4, Zenon DEF UberParts
<1>5. ASSUME NEW hash \in UtHashes, AddTorrent(hash) PROVE UberInv'
  BY <1>2, <1>3, <1>4, <1>5, Zenon DEF AddTorrent, extVars
<1>6. ASSUME NEW hash \in UtHashes, RemoveTorrent(hash) PROVE UberInv'
  BY <1>2, <1>3, <1>4, <1>6, Zenon DEF RemoveTorrent, extVars
<1>7. ASSUME NEW hash \in UtHashes, DownloadMetainfo(hash) PROVE UberInv'
  <2>1. yielded' = Quiet BY <1>7, Zenon DEF DownloadMetainfo
  <2> QED BY <1>1, <1>2, <1>3, <1>7, <2>1, AskingKeeps, Zenon
<1>8. ASSUME NEW info \in UtPeers, PeerConnected(info) PROVE UberInv'
  <2>1. on_update(info, {}) /\ active_requests' = active_requests /\ ext_peers' = ext_peers \cup {info} /\ yielded' = Quiet
    BY <1>8, Zenon DEF PeerConnected
  <2>2. UberParts' BY <1>1, <2>1, UpdateKeeps, Zenon
  <2> QED BY <1>2, <1>3, <2>1, <2>2, Zenon
<1>9. ASSUME NEW info \in UtPeers, PeerDisconnected(info) PROVE UberInv'
  <2>1. /\ active_peers' = ut_remove_peer(info, active_peers) /\ ext_peers' = ext_peers \ {info}
        /\ pending_map' = pending_map /\ active_requests' = active_requests /\ yielded' = Quiet
    BY <1>9, Zenon DEF PeerDisconnected
  <2>2. Sources(active_peers', ext_peers') BY <1>1, <2>1, SourceRemoved, Zenon DEF UberParts
  <2>3. Downloads(pending_map', active_requests') BY <1>1, <2>1, Zenon DEF UberParts
  <2>4. UberParts' BY <2>2, <2>3, Zenon DEF UberParts
  <2> QED BY <1>2, <1>3, <2>1, <2>4, Zenon
<1>10. ASSUME NEW info \in UtPeers, NEW msg \in ExtendedMessages, ReceivedExtendedMessage(info, msg) PROVE UberInv'
  <2>1. /\ info \in ext_peers /\ on_update(info, {msg}) /\ active_requests' = active_requests
        /\ ext_peers' = ext_peers /\ yielded' = Quiet
    BY <1>10, Zenon DEF ReceivedExtendedMessage, extVars
  <2>2. ext_peers' = ext_peers \cup {info} BY <2>1
  <2>3. PICK theirs : theirs = {msg} BY Zenon
  <2>4. on_update(info, theirs) BY <2>1, <2>3, Zenon
  <2>5. UberParts' BY <1>1, <2>1, <2>2, <2>3, <2>4, UpdateKeeps, Zenon
  <2> QED BY <1>2, <1>3, <2>1, <2>5, Zenon
<1>11. ASSUME NEW info \in UtPeers, NEW piece \in UtPieces, ReceivedRequest(info, piece) PROVE UberInv'
  BY <1>2, <1>3, <1>4, <1>11, Zenon DEF ReceivedRequest, extVars
<1>12. ASSUME NEW info \in UtPeers, NEW piece \in UtPieces, NEW data \in {"good", "bad"}, ReceivedData(info, piece, data) PROVE UberInv'
  <2>1. recv_data(info, piece, data) /\ active_peers' = active_peers /\ ext_peers' = ext_peers /\ yielded' = Quiet
    BY <1>12, Zenon DEF ReceivedData, extVars
  <2>2. UberParts' BY <1>1, <2>1, DataKeeps, Zenon
  <2> QED BY <1>2, <1>3, <2>1, <2>2, Zenon
<1>13. ASSUME NEW duration \in Durations, Tick(duration) PROVE UberInv'
  <2>1. apply_tick(duration) /\ ext_peers' = ext_peers /\ yielded' = Quiet BY <1>13, Zenon DEF Tick, extVars
  <2>2. duration \in Nat BY UberAssumption, Zenon
  <2>3. UberParts' BY <1>1, <2>1, <2>2, TickKeeps, Zenon
  <2> QED BY <1>2, <1>3, <2>1, <2>3, Zenon
<1>14. CASE PollExtended
  <2>1. DownloadedIsWhole' BY <1>14 DEF PollExtended, DownloadedIsWhole
  <2> QED BY <1>2, <1>4, <1>14, <2>1, Zenon DEF PollExtended
<1>15. CASE PollDiscovery BY <1>1, <1>2, <1>15, PollKeeps, Zenon
<1>16. CASE UNCHANGED uberVars
  <2>1. DownloadedIsWhole' BY <1>1, <1>16, Zenon DEF DownloadedIsWhole, uberVars
  <2> QED BY <1>2, <1>4, <1>16, <2>1, Zenon DEF uberVars
<1> QED BY <1>5, <1>6, <1>7, <1>8, <1>9, <1>10, <1>11, <1>12, <1>13, <1>14, <1>15, <1>16, Zenon DEF UberNext

-----------------------------------------------------------------------------
EachOnce(f, ks, values) ==
    f \in [ks -> values] /\ (\A j, k \in ks : f[j] = f[k] => j = k) /\ \A v \in values : \E k \in ks : f[k] = v

(* A function that repeats no value has as many as arguments.               *)
LEMMA AsManyValues ==
    ASSUME NEW ks, IsFiniteSet(ks), NEW f, NEW values, EachOnce(f, ks, values)
    PROVE  IsFiniteSet(values) /\ Cardinality(values) = Cardinality(ks)
<1>3. f \in Injection(ks, values) /\ f \in Surjection(ks, values)
  BY Zenon DEF EachOnce, Injection, Surjection, IsInjective
<1>4. ExistsBijection(ks, values) BY <1>3, Zenon DEF ExistsBijection, Bijection
<1> QED BY <1>4, FS_Bijection, Zenon

Counted(reqs, hash, p, active) ==
    /\ Cardinality(Waiting(p.messages)) = Len(p.messages)
    /\ Cardinality(Asked(reqs, hash)) = Cardinality(active)
    /\ p.left = Len(p.messages) + Cardinality(active)
    /\ Waiting(p.messages) \cup Asked(reqs, hash) \subseteq DOMAIN p.bytes

(* UberInv counts pieces as sets; the fields count messages and requests.   *)
LEMMA CountsAgree ==
    ASSUME NEW reqs \in Seq(UtRequests), AskedOnce(reqs), NEW hash, NEW p, Accounted(reqs, hash, p),
           NEW active, active = {k \in 1 .. Len(reqs) : HashOf[reqs[k].sent_to] = hash}
    PROVE  Counted(reqs, hash, p, active)
<1>1. PICK list \in Seq(Int) : list = p.messages /\ NoTwice(list) BY Zenon DEF Accounted, UtDownloads
<1>2. PICK m \in Nat : m = Len(list) BY <1>1
<1>3. IsFiniteSet(1 .. m) /\ Cardinality(1 .. m) = m BY FS_Interval
<1>4. IsFiniteSet(Waiting(list)) /\ Cardinality(Waiting(list)) = m
  <2>1. list \in [1 .. m -> Waiting(list)]
    <3>1. DOMAIN list = 1 .. m /\ list = [k \in 1 .. m |-> list[k]] BY <1>2
    <3>2. \A k \in 1 .. m : list[k] \in Waiting(list) BY <1>2, Zenon DEF Waiting
    <3> QED BY <3>1, <3>2, Zenon
  <2>2. \A j, k \in 1 .. m : list[j] = list[k] => j = k BY <1>1, <1>2, Zenon DEF NoTwice
  <2>3. \A v \in Waiting(list) : \E k \in 1 .. m : list[k] = v BY <1>2, Zenon DEF Waiting
  <2>4. EachOnce(list, 1 .. m, Waiting(list)) BY <2>1, <2>2, <2>3, Zenon DEF EachOnce
  <2> QED BY <1>3, <2>4, AsManyValues, Zenon
<1>5. Len(reqs) \in Nat OBVIOUS
<1>6. IsFiniteSet(active)
  <2>1. active \in SUBSET (1 .. Len(reqs)) BY Zenon
  <2>2. IsFiniteSet(1 .. Len(reqs)) BY <1>5, FS_Interval
  <2> QED BY <2>1, <2>2, FS_Subset, Zenon
<1>7. IsFiniteSet(Asked(reqs, hash)) /\ Cardinality(Asked(reqs, hash)) = Cardinality(active)
  <2>1. PICK f : f = [k \in active |-> reqs[k].piece] BY Zenon
  <2>2. DOMAIN f = active /\ (\A k \in active : f[k] = reqs[k].piece) BY <2>1, Zenon
  <2>3. f \in [active -> Asked(reqs, hash)]
    <3>1. \A k \in active : reqs[k].piece \in Asked(reqs, hash) BY Zenon DEF Asked
    <3> QED BY <2>1, <3>1, Zenon
  <2>4. \A j, k \in active : f[j] = f[k] => j = k BY <2>2, Zenon DEF AskedOnce
  <2>5. \A v \in Asked(reqs, hash) : \E k \in active : f[k] = v BY <2>2, Zenon DEF Asked
  <2>6. EachOnce(f, active, Asked(reqs, hash)) BY <2>3, <2>4, <2>5, Zenon DEF EachOnce
  <2> QED BY <1>6, <2>6, AsManyValues, Zenon
<1>8. PICK a : a = Waiting(list) BY Zenon
<1>9. PICK b : b = Asked(reqs, hash) BY Zenon
<1>10. a \cap b = {} /\ p.left = Cardinality(a \cup b) /\ a \cup b = Zero(p.bytes) BY <1>1, <1>8, <1>9, Zenon DEF Accounted
<1>11. Cardinality(a \cup b) = Cardinality(a) + Cardinality(b) - Cardinality(a \cap b)
  BY <1>4, <1>7, <1>8, <1>9, FS_Union, Zenon
<1>12. Cardinality(a \cap b) = 0 BY <1>10, FS_EmptySet, Zenon
<1>13. Cardinality(a) = m /\ Cardinality(b) = Cardinality(active) /\ Cardinality(active) \in Nat
  BY <1>4, <1>6, <1>7, <1>8, <1>9, FS_CardinalityType, Zenon
<1>14. p.left = m + Cardinality(active) BY <1>10, <1>11, <1>12, <1>13
<1>15. Zero(p.bytes) \subseteq DOMAIN p.bytes BY Zenon DEF Zero
<1> QED BY <1>1, <1>2, <1>8, <1>9, <1>10, <1>13, <1>14, <1>15, Zenon DEF Counted

(* UberInv is what PiecesAccounted needs.                                   *)
LEMMA InvAccounts == UberInv => DownloadIsSound
<1> SUFFICES ASSUME UberInv PROVE DownloadIsSound OBVIOUS
<1>1. PICK reqs \in Seq(UtRequests) : reqs = active_requests /\ AskedOnce(reqs) /\ Downloads(pending_map, reqs)
  BY Zenon DEF UberInv, Downloads
<1>2. DOMAIN reqs = 1 .. Len(reqs) OBVIOUS
<1>3. PiecesAccounted
  <2> SUFFICES ASSUME NEW hash \in DOMAIN pending_map, NEW p \in pending_map[hash]
               PROVE  LET waiting == {p.messages[k] : k \in DOMAIN p.messages}
                          asked == {active_requests[k].piece : k \in ActiveOf(hash)}
                      IN  /\ waiting \cap asked = {}
                          /\ Cardinality(waiting) = Len(p.messages) /\ Cardinality(asked) = Cardinality(ActiveOf(hash))
                          /\ p.left = Len(p.messages) + Cardinality(ActiveOf(hash))
                          /\ waiting \cup asked \subseteq DOMAIN p.bytes
    BY Zenon DEF PiecesAccounted
  <2>1. Accounted(reqs, hash, p) BY <1>1, Zenon DEF Downloads
  <2>2. PICK active : active = ActiveOf(hash) BY Zenon
  <2>3. active = {k \in 1 .. Len(reqs) : HashOf[reqs[k].sent_to] = hash} BY <1>1, <1>2, <2>2, Zenon DEF ActiveOf
  <2>4. p.messages \in Seq(Int) BY <2>1, Zenon DEF Accounted, UtDownloads
  <2>5. DOMAIN p.messages = 1 .. Len(p.messages) BY <2>4
  <2>6. {p.messages[k] : k \in DOMAIN p.messages} = Waiting(p.messages) BY <2>5, Zenon DEF Waiting
  <2>7. {active_requests[k].piece : k \in ActiveOf(hash)} = Asked(reqs, hash) BY <1>1, <2>2, <2>3, Zenon DEF Asked
  <2>8. Waiting(p.messages) \cap Asked(reqs, hash) = {} BY <2>1, Zenon DEF Accounted
  <2>9. Counted(reqs, hash, p, active) BY <1>1, <2>1, <2>3, CountsAgree, Zenon
  <2> QED BY <2>2, <2>6, <2>7, <2>8, <2>9, Zenon DEF Counted
<1>4. ActivePeersAreConnected BY Zenon DEF UberInv, Sources, PeersOf, ActivePeersAreConnected
<1> QED BY <1>3, <1>4, Zenon DEF UberInv, DownloadIsSound

(* However messages, ticks, polls and peers that come and go interleave, a  *)
(* metadata download of UtMetadataModule has each of its pieces to ask for, *)
(* asked for of one peer or received, and in exactly one of the three; so   *)
(* `left` counts what is missing and never wraps, and a download is yielded *)
(* only when all has come.  The peers it asks are connected.                *)
THEOREM DownloadsAreSound == UberSpec => []DownloadIsSound
<1>1. UberSpec => []UberInv BY UberInvInit, UberInvStep, PTL DEF UberSpec
<1> QED BY <1>1, InvAccounts, PTL
=============================================================================
