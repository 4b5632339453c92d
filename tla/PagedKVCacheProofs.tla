-------------------------- MODULE PagedKVCacheProofs --------------------------
(***************************************************************************)
(* Theorems about PagedKVCache and their proofs.                           *)
(***************************************************************************)
EXTENDS PagedKVCache, BlockPoolProofs

-----------------------------------------------------------------------------
(* The arithmetic of blocks.                                               *)

\* BlocksNeeded rounds up.
LEMMA Ceil ==
  ASSUME NEW n \in Nat
  PROVE  /\ BlocksNeeded(n) \in Nat
         /\ n <= BlocksNeeded(n) * BlockSize
         /\ BlocksNeeded(n) * BlockSize < n + BlockSize
         /\ \A q \in Int : n <= q * BlockSize /\ q * BlockSize < n + BlockSize
                           => q = BlocksNeeded(n)
<1>1. BlockSize \in Nat /\ BlockSize >= 1
  BY BlockSizeAssumption
<1> DEFINE m == n + BlockSize - 1
<1>2. m \in Nat
  BY <1>1
<1>3. /\ m \div BlockSize \in Nat
      /\ (m \div BlockSize) * BlockSize <= m
      /\ m < (m \div BlockSize) * BlockSize + BlockSize
  <2> HIDE DEF m
  <2> QED BY <1>1, <1>2
<1>4. ASSUME NEW q \in Int, q * BlockSize <= m, m < q * BlockSize + BlockSize
      PROVE  q = m \div BlockSize
  <2> HIDE DEF m
  <2> QED BY <1>1, <1>2, <1>4
<1>5. \A q \in Int : q * BlockSize \in Int
  BY <1>1
<1>6. BlocksNeeded(n) = m \div BlockSize
  BY DEF BlocksNeeded
<1>7. /\ n <= BlocksNeeded(n) * BlockSize
      /\ BlocksNeeded(n) * BlockSize < n + BlockSize
  <2> DEFINE d == BlocksNeeded(n) * BlockSize
  <2>1. d \in Int /\ d <= m /\ m < d + BlockSize
    BY <1>1, <1>3, <1>6
  <2> HIDE DEF d
  <2> QED BY <1>1, <2>1 DEF d
<1>8. ASSUME NEW q \in Int, n <= q * BlockSize, q * BlockSize < n + BlockSize
      PROVE  q = BlocksNeeded(n)
  <2> DEFINE d == q * BlockSize
  <2>1. d \in Int /\ n <= d /\ d < n + BlockSize
    BY <1>5, <1>8
  <2> HIDE DEF d
  <2>2. d <= m /\ m < d + BlockSize
    BY <1>1, <2>1
  <2> QED BY <1>4, <1>6, <2>2 DEF d
<1> QED BY <1>3, <1>6, <1>7, <1>8

\* Multiples of BlockSize are apart by at least that much.
LEMMA Apart ==
  ASSUME NEW a \in Int, NEW b \in Int
  PROVE  /\ a * BlockSize \in Int
         /\ (a + b) * BlockSize = a * BlockSize + b * BlockSize
         /\ a < b => a * BlockSize + BlockSize <= b * BlockSize
BY BlockSizeAssumption

\* No tokens, no blocks; more tokens, no fewer blocks.
LEMMA CeilMonotone ==
  /\ BlocksNeeded(0) = 0
  /\ \A m, n \in Nat : m <= n => BlocksNeeded(m) <= BlocksNeeded(n)
  /\ \A n \in Nat \ {0} : BlocksNeeded(n) >= 1
<1>0. BlockSize \in Nat /\ BlockSize >= 1
  BY BlockSizeAssumption
<1>1. BlocksNeeded(0) = 0
  <2>1. 0 * BlockSize = 0
    BY <1>0
  <2> QED BY <1>0, <2>1, Ceil
<1>2. ASSUME NEW m \in Nat, NEW n \in Nat, m <= n PROVE BlocksNeeded(m) <= BlocksNeeded(n)
  <2> DEFINE a == BlocksNeeded(m)
             b == BlocksNeeded(n)
  <2>1. a \in Nat /\ b \in Nat /\ a * BlockSize < m + BlockSize /\ n <= b * BlockSize
    BY Ceil
  <2> HIDE DEF a, b
  <2>2. a * BlockSize \in Int /\ b * BlockSize \in Int
        /\ (b < a => b * BlockSize + BlockSize <= a * BlockSize)
    BY <2>1, Apart
  <2> QED BY <1>0, <1>2, <2>1, <2>2 DEF a, b
<1>3. ASSUME NEW n \in Nat \ {0} PROVE BlocksNeeded(n) >= 1
  <2>1. BlocksNeeded(n) \in Nat /\ n <= BlocksNeeded(n) * BlockSize
    BY Ceil
  <2>2. 0 * BlockSize = 0
    BY <1>0
  <2> QED BY <2>1, <2>2
<1> QED BY <1>1, <1>2, <1>3

\* The blocks of whole blocks and some more tokens.
LEMMA CeilSum ==
  ASSUME NEW k \in Nat, NEW n \in Nat
  PROVE  BlocksNeeded(k * BlockSize + n) = k + BlocksNeeded(n)
<1> DEFINE b == BlocksNeeded(n)
<1>0. BlockSize \in Nat /\ BlockSize >= 1
  BY BlockSizeAssumption
<1>1. b \in Nat /\ n <= b * BlockSize /\ b * BlockSize < n + BlockSize
  BY Ceil
<1> HIDE DEF b
<1>2. k * BlockSize \in Nat /\ (k + b) * BlockSize = k * BlockSize + b * BlockSize
      /\ b * BlockSize \in Int
  BY <1>0, <1>1
<1> DEFINE d == k * BlockSize
<1>3. d + n \in Nat /\ d + n <= (k + b) * BlockSize /\ (k + b) * BlockSize < (d + n) + BlockSize
  <2> HIDE DEF d
  <2>1. (k + b) * BlockSize = d + b * BlockSize /\ d \in Nat
    BY <1>2 DEF d
  <2> QED BY <1>0, <1>1, <1>2, <2>1
<1> HIDE DEF d
<1> QED BY <1>1, <1>3, Ceil DEF b, d

\* One token more needs a block more when it is the first of a block, for which
\* the code tests that the cursor is one past a multiple of the block size.
LEMMA CeilNext ==
  ASSUME NEW n \in Nat, BlockSize > 1
  PROVE  BlocksNeeded(n + 1) = IF (n + 1) % BlockSize = 1 THEN BlocksNeeded(n) + 1 ELSE BlocksNeeded(n)
<1> DEFINE b == BlocksNeeded(n)
           d == b * BlockSize
           q == (n + 1) \div BlockSize
           e == q * BlockSize
<1>0. BlockSize \in Nat /\ BlockSize >= 1 /\ n + 1 \in Nat
  BY BlockSizeAssumption
<1>1. b \in Nat /\ d \in Int /\ n <= d /\ d < n + BlockSize
  <2>1. b \in Nat /\ n <= d /\ d < n + BlockSize
    BY Ceil
  <2> HIDE DEF b
  <2> QED BY <1>0, <2>1
<1>2. q \in Nat /\ e \in Int /\ e <= n + 1 /\ n + 1 < e + BlockSize
  <2>1. \A m \in Nat : m \div BlockSize \in Nat /\ (m \div BlockSize) * BlockSize <= m
                       /\ m < (m \div BlockSize) * BlockSize + BlockSize
                       /\ (m \div BlockSize) * BlockSize \in Int
    BY <1>0
  <2> QED BY <1>0, <2>1
<1>3. (n + 1) % BlockSize = (n + 1) - e
  <2>1. \A m \in Nat : (m % BlockSize) = m - ((m \div BlockSize) * BlockSize)
    BY <1>0
  <2> QED BY <1>0, <2>1
<1>4. (b + 1) * BlockSize = d + BlockSize
  BY <1>0, <1>1
<1>5. /\ b < q => d + BlockSize <= e
      /\ q < b => e + BlockSize <= d
      /\ q + 1 < b => (q + 1) * BlockSize + BlockSize <= d
      /\ (q + 1) * BlockSize = e + BlockSize
  BY <1>0, <1>1, <1>2, Apart
<1>6. b = q => d = e
  OBVIOUS
<1>7. \A c \in Int : n + 1 <= c * BlockSize /\ c * BlockSize < (n + 1) + BlockSize
                     => c = BlocksNeeded(n + 1)
  BY <1>0, Ceil
<1>8. b + 1 \in Int /\ b \in Int
  BY <1>1
<1> HIDE DEF b, d, q, e
<1>9. CASE n = d
  <2>1. b = q
    BY <1>0, <1>1, <1>2, <1>5, <1>9
  <2>2. (n + 1) % BlockSize = 1
    BY <1>0, <1>1, <1>3, <1>6, <1>9, <2>1
  <2>3. n + 1 <= (b + 1) * BlockSize /\ (b + 1) * BlockSize < (n + 1) + BlockSize
    BY <1>0, <1>1, <1>4, <1>9
  <2>4. b + 1 = BlocksNeeded(n + 1)
    BY <1>7, <1>8, <2>3
  <2> QED BY <2>2, <2>4 DEF b
<1>10. CASE n < d
  <2>1. n + 1 <= b * BlockSize /\ b * BlockSize < (n + 1) + BlockSize
    BY <1>0, <1>1, <1>10 DEF d
  <2>2. b = BlocksNeeded(n + 1)
    BY <1>7, <1>8, <2>1
  <2>3. (n + 1) - e # 1
    <3> SUFFICES ASSUME n = e PROVE FALSE
      BY <1>2
    <3>1. q < b
      BY <1>1, <1>2, <1>5, <1>6, <1>0, <1>10
    <3> QED BY <1>0, <1>1, <1>2, <1>5, <1>10, <3>1
  <2> QED BY <1>3, <2>2, <2>3 DEF b
<1> QED BY <1>1, <1>9, <1>10

-----------------------------------------------------------------------------
(* One cache: what its methods may be called on, and what they leave.      *)

Cell == Block \cup {Junk}

(* A cache as a call may find or leave it, also when it threw. *)
AnyKV == {k \in [cursor : Nat, table : Table, device : Seq(Cell), adopted : BOOLEAN] :
            k.cursor = 0 => k.table = <<>>}

(* The device has the whole table, with room for max_seq_len_ tokens. *)
Synced(k) ==
  /\ Len(k.device) = BlocksNeeded(MaxSeqLen)
  /\ \A i \in 1 .. Len(k.table) : k.device[i] = k.table[i]

(* A cache between two calls that did not throw. *)
KVOK(k) ==
  /\ k \in AnyKV
  /\ k.cursor <= MaxSeqLen
  /\ TableCoversCursor(k)
  /\ IF k.cursor = 0 THEN k = FreshKV ELSE Synced(k)

(* The answer r took blocks for k that nobody referenced, and nothing else. *)
Took(k, p, r) ==
  /\ r \in [ok : BOOLEAN, kv : AnyKV, pool : AnyPool]
  /\ PoolOK(r.pool)
  /\ \E got \in Table :
       /\ r.kv.table = k.table \o got
       /\ \A b \in Block : /\ Contains(got, b) => p.ref_cnt[b] = 0
                           /\ r.pool.ref_cnt[b] = IF Contains(got, b) THEN 1 ELSE p.ref_cnt[b]

(* The blocks of the cache's table are allocated. *)
Backed(k, p) == \A b \in Block : Contains(k.table, b) => p.ref_cnt[b] >= 1

\* The empty sequence is a table and holds no block.
LEMMA NoTable == <<>> \in Table /\ \A b \in Block : ~Contains(<<>>, b)
<1> DEFINE e == <<>>
<1>1. e \in Seq(Block) /\ Len(e) = 0
  OBVIOUS
<1> HIDE DEF e
<1>2. e \in Table /\ \A b \in Block : ~Contains(e, b)
  BY <1>1 DEF Table, NoDuplicates, Contains
<1> QED BY <1>2 DEF e

\* What KVOK says of the device is what the kernel needs.
LEMMA DeviceInStep ==
  ASSUME NEW k, KVOK(k)
  PROVE  DeviceCopyExact(k)
<1>1. k.table \in Seq(Block) /\ k.device \in Seq(Cell) /\ k.cursor \in Nat
  BY DEF KVOK, AnyKV, Table
<1>2. CASE k.cursor = 0
  <2>1. k.table = <<>> /\ k.device = <<>>
    BY <1>2 DEF KVOK, FreshKV
  <2>2. Len(<<>>) <= Len(<<>>) /\ SubSeq(<<>>, 1, Len(<<>>)) = <<>>
    OBVIOUS
  <2> QED BY <2>1, <2>2 DEF DeviceCopyExact
<1>3. CASE k.cursor # 0
  <2> DEFINE t == k.table
             d == k.device
  <2>1. Len(t) <= Len(d) /\ \A i \in 1 .. Len(t) : d[i] = t[i]
    <3>1. Len(t) = BlocksNeeded(k.cursor) /\ Len(d) = BlocksNeeded(MaxSeqLen) /\ k.cursor <= MaxSeqLen
      BY <1>3 DEF KVOK, Synced, TableCoversCursor
    <3>2. \A i \in 1 .. Len(t) : d[i] = t[i]
      BY <1>3 DEF KVOK, Synced
    <3> QED BY <1>1, <3>1, <3>2, CeilMonotone, MaxSeqLenAssumption
  <2>2. t \in Seq(Block)
    BY <1>1
  <2>3. d \in Seq(Cell)
    BY <1>1
  <2> HIDE DEF t, d
  <2>4. SubSeq(d, 1, Len(t)) \in Seq(Cell)
    BY <2>1, <2>2, <2>3
  <2>5. Len(SubSeq(d, 1, Len(t))) = Len(t)
    BY <2>1, <2>2, <2>3
  <2>6. \A i \in 1 .. Len(t) : SubSeq(d, 1, Len(t))[i] = t[i]
    BY <2>1, <2>2, <2>3
  <2>7. SubSeq(d, 1, Len(t)) = t
    BY <2>2, <2>4, <2>5, <2>6, SeqEqual
  <2> QED BY <2>1, <2>7 DEF DeviceCopyExact, t, d
<1> QED BY <1>2, <1>3

\* A copy to the device changes the entries it is for.
LEMMA CopyOK ==
  ASSUME NEW d \in Seq(Cell), NEW n \in Nat, NEW blocks \in Seq(Block)
  PROVE  /\ CopyTo(d, n, blocks) \in Seq(Cell)
         /\ Len(CopyTo(d, n, blocks)) = Len(d)
         /\ \A i \in 1 .. Len(d) : CopyTo(d, n, blocks)[i]
              = IF i \in n + 1 .. n + Len(blocks) THEN blocks[i - n] ELSE d[i]
<1> DEFINE m == Len(d)
           c == CopyTo(d, n, blocks)
<1>1. m \in Nat /\ DOMAIN d = 1 .. m /\ \A i \in 1 .. m : d[i] \in Cell
  OBVIOUS
<1>2. Len(blocks) \in Nat /\ \A j \in 1 .. Len(blocks) : blocks[j] \in Cell
  BY DEF Cell
<1>3. c = [i \in 1 .. m |-> IF i \in n + 1 .. n + Len(blocks) THEN blocks[i - n] ELSE d[i]]
  BY <1>1 DEF CopyTo
<1> HIDE DEF m, c
<1>4. ASSUME NEW i \in 1 .. m
      PROVE  (IF i \in n + 1 .. n + Len(blocks) THEN blocks[i - n] ELSE d[i]) \in Cell
  <2>1. i \in n + 1 .. n + Len(blocks) => i - n \in 1 .. Len(blocks)
    BY <1>1, <1>2
  <2> QED BY <1>1, <1>2, <2>1
<1>5. c \in [1 .. m -> Cell]
  BY <1>3, <1>4
<1>6. c \in Seq(Cell) /\ Len(c) = m
  BY <1>1, <1>5
<1> QED BY <1>3, <1>6 DEF m, c

\* A copy to newly allocated memory, which is as long as a full cache needs.
LEMMA NewDeviceOK ==
  ASSUME NEW blocks \in Seq(Block)
  PROVE  /\ NewDevice(blocks) \in Seq(Cell)
         /\ Len(NewDevice(blocks)) = BlocksNeeded(MaxSeqLen)
         /\ Len(blocks) <= BlocksNeeded(MaxSeqLen)
            => \A i \in 1 .. Len(blocks) : NewDevice(blocks)[i] = blocks[i]
<1> DEFINE n == BlocksNeeded(MaxSeqLen)
           d == [i \in 1 .. n |-> Junk]
<1>1. n \in Nat
  BY Ceil, MaxSeqLenAssumption
<1> HIDE DEF n
<1>2. d \in Seq(Cell) /\ Len(d) = n
  BY <1>1 DEF Cell
<1> HIDE DEF d
<1>3. NewDevice(blocks) = CopyTo(d, 0, blocks)
  BY DEF NewDevice, d, n
<1>4. /\ CopyTo(d, 0, blocks) \in Seq(Cell)
      /\ Len(CopyTo(d, 0, blocks)) = Len(d)
      /\ \A i \in 1 .. Len(d) : CopyTo(d, 0, blocks)[i]
              = IF i \in 0 + 1 .. 0 + Len(blocks) THEN blocks[i - 0] ELSE d[i]
  BY <1>2, CopyOK
<1>5. ASSUME Len(blocks) <= n, NEW i \in 1 .. Len(blocks) PROVE CopyTo(d, 0, blocks)[i] = blocks[i]
  <2>1. i \in 1 .. Len(d) /\ i \in 0 + 1 .. 0 + Len(blocks) /\ i - 0 = i
    BY <1>1, <1>2, <1>5
  <2> QED BY <1>4, <2>1
<1> QED BY <1>2, <1>3, <1>4, <1>5 DEF n

\* New blocks go to the end of the table and to the end of its copy.
LEMMA GrowOK ==
  ASSUME NEW k \in AnyKV, NEW blocks \in Table, k.cursor > 0,
         \A b \in Block : ~(Contains(k.table, b) /\ Contains(blocks, b))
  PROVE  /\ Grow(k, blocks) \in AnyKV
         /\ Grow(k, blocks).cursor = k.cursor
         /\ Grow(k, blocks).table = k.table \o blocks
         /\ Grow(k, blocks).adopted = k.adopted
         /\ Synced(k) /\ Len(k.table) + Len(blocks) <= BlocksNeeded(MaxSeqLen)
            => Synced(Grow(k, blocks))
<1> DEFINE t == k.table
           d == k.device
           c == CopyTo(d, Len(t), blocks)
           u == t \o blocks
<1>1. k.table \in Table /\ k.device \in Seq(Cell) /\ k.cursor \in Nat /\ k.adopted \in BOOLEAN
  BY DEF AnyKV
<1>2. u \in Table
  BY <1>1, ConcatTable
<1>3. t \in Seq(Block) /\ blocks \in Seq(Block) /\ Len(t) \in Nat
  BY <1>1 DEF Table
<1>4. /\ c \in Seq(Cell) /\ Len(c) = Len(d)
      /\ \A i \in 1 .. Len(d) : c[i]
              = IF i \in Len(t) + 1 .. Len(t) + Len(blocks) THEN blocks[i - Len(t)] ELSE d[i]
  <2>1. d \in Seq(Cell)
    BY <1>1
  <2> HIDE DEF d, t
  <2> QED BY <1>3, <2>1, CopyOK
<1>5. /\ Grow(k, blocks).cursor = k.cursor
      /\ Grow(k, blocks).table = u
      /\ Grow(k, blocks).device = c
      /\ Grow(k, blocks).adopted = k.adopted
  BY DEF Grow, AnyKV
<1>6. Grow(k, blocks) \in [cursor : Nat, table : Table, device : Seq(Cell), adopted : BOOLEAN]
  <2> HIDE DEF u, c
  <2>1. Grow(k, blocks) = [k EXCEPT !.table = u, !.device = c]
    BY DEF Grow, u, c
  <2> QED BY <1>2, <1>4, <2>1 DEF AnyKV
<1>7. Grow(k, blocks) \in AnyKV
  <2> HIDE DEF u, c
  <2> QED BY <1>1, <1>5, <1>6 DEF AnyKV
<1>8. ASSUME Synced(k), Len(t) + Len(blocks) <= BlocksNeeded(MaxSeqLen)
      PROVE  Synced(Grow(k, blocks))
  <2>1. Len(d) = BlocksNeeded(MaxSeqLen) /\ \A i \in 1 .. Len(t) : d[i] = t[i]
    BY <1>8 DEF Synced
  <2>2. /\ Len(u) = Len(t) + Len(blocks) /\ Len(blocks) \in Nat
        /\ \A i \in 1 .. Len(t) : u[i] = t[i]
        /\ \A i \in Len(t) + 1 .. Len(t) + Len(blocks) : u[i] = blocks[i - Len(t)]
    BY <1>3
  <2>3. BlocksNeeded(MaxSeqLen) \in Nat
    BY Ceil, MaxSeqLenAssumption
  <2> HIDE DEF u, c, t, d
  <2>4. ASSUME NEW i \in 1 .. Len(u) PROVE c[i] = u[i]
    <3>1. i \in 1 .. Len(d)
      BY <1>3, <1>8, <2>1, <2>2, <2>3
    <3>2. CASE i <= Len(t)
      <4>1. i \in 1 .. Len(t) /\ i \notin Len(t) + 1 .. Len(t) + Len(blocks)
        BY <1>3, <2>2, <3>2
      <4> QED BY <1>4, <2>1, <2>2, <3>1, <4>1
    <3>3. CASE i > Len(t)
      <4>1. i \in Len(t) + 1 .. Len(t) + Len(blocks)
        BY <1>3, <2>2, <3>3
      <4> QED BY <1>4, <2>2, <3>1, <4>1
    <3> QED BY <1>3, <3>2, <3>3
  <2> QED BY <1>4, <1>5, <2>1, <2>4 DEF Synced
<1> QED BY <1>5, <1>7, <1>8

\* An answer that changes neither the table nor the pool.
LEMMA TookNothing ==
  ASSUME NEW k \in AnyKV, NEW p, PoolOK(p), NEW k2 \in AnyKV, k2.table = k.table
  PROVE  Took(k, p, Stored(k2, p)) /\ Took(k, p, Refused(k2, p))
<1> DEFINE none == <<>>
<1>1. none \in Table /\ \A b \in Block : ~Contains(none, b)
  BY NoTable
<1>2. k.table \in Seq(Block)
  BY DEF AnyKV, Table
<1>3. k.table \o none = k.table
  BY <1>2
<1> HIDE DEF none
<1>4. p \in AnyPool
  BY DEF PoolOK
<1>5. \A b \in Block : /\ Contains(none, b) => p.ref_cnt[b] = 0
                       /\ p.ref_cnt[b] = IF Contains(none, b) THEN 1 ELSE p.ref_cnt[b]
  BY <1>1
<1> QED BY <1>1, <1>3, <1>4, <1>5 DEF Took, Stored, Refused

\* An answer that took the blocks of one alloc, which nobody referenced.
LEMMA TookSome ==
  ASSUME NEW k \in AnyKV, NEW p, PoolOK(p), NEW n \in Nat, Alloc(p, n).ok,
         NEW k2 \in AnyKV, k2.table = k.table \o Alloc(p, n).ids
  PROVE  Took(k, p, Stored(k2, Alloc(p, n).pool))
<1> DEFINE a == Alloc(p, n)
<1>1. /\ PoolOK(a.pool) /\ a.ids \in Table
      /\ \A b \in Block : Contains(a.ids, b) => p.ref_cnt[b] = 0
      /\ \A b \in Block : a.pool.ref_cnt[b] = IF Contains(a.ids, b) THEN 1 ELSE p.ref_cnt[b]
  BY AllocTable
<1>2. a.pool \in AnyPool
  BY <1>1 DEF PoolOK
<1> HIDE DEF a
<1>3. k2.table = k.table \o a.ids
  BY DEF a
<1>4. Took(k, p, Stored(k2, a.pool))
  BY <1>1, <1>2, <1>3 DEF Took, Stored
<1> QED BY <1>4 DEF a

\* The blocks of an alloc are not in the table of a cache whose own are allocated.
LEMMA NewAreNew ==
  ASSUME NEW k \in AnyKV, NEW p, PoolOK(p), Backed(k, p), NEW n \in Nat, Alloc(p, n).ok
  PROVE  /\ Alloc(p, n).ids \in Table
         /\ Len(Alloc(p, n).ids) = n
         /\ \A b \in Block : ~(Contains(k.table, b) /\ Contains(Alloc(p, n).ids, b))
<1>1. /\ Alloc(p, n).ids \in Table
      /\ Len(Alloc(p, n).ids) = n
      /\ \A b \in Block : Contains(Alloc(p, n).ids, b) => p.ref_cnt[b] = 0
  BY AllocTable
<1>2. \A b \in Block : p.ref_cnt[b] = 0 => ~(p.ref_cnt[b] >= 1)
  OBVIOUS
<1> QED BY <1>1, <1>2 DEF Backed

\* A decode: one token more, and a block when the token is the first of one.
LEMMA DecodeTook ==
  ASSUME NEW k \in AnyKV, NEW p, PoolOK(p), Backed(k, p)
  PROVE  /\ Took(k, p, DecodeSlot(k, p))
         /\ BlockSize > 1 /\ KVOK(k) /\ k.cursor > 0 /\ k.cursor < MaxSeqLen /\ DecodeSlot(k, p).ok
            => KVOK(DecodeSlot(k, p).kv) /\ DecodeSlot(k, p).kv.cursor = k.cursor + 1
<1> DEFINE a == Alloc(p, 1)
           m == [k EXCEPT !.cursor = @ + 1]
           g == Grow(m, a.ids)
           r == DecodeSlot(k, p)
<1>1. k.cursor \in Nat /\ k.table \in Table /\ k.device \in Seq(Cell) /\ k.adopted \in BOOLEAN
  BY DEF AnyKV
<1>2. /\ m \in AnyKV /\ m.cursor = k.cursor + 1 /\ m.cursor > 0
      /\ m.table = k.table /\ m.device = k.device
  <2>1. m = [cursor |-> k.cursor + 1, table |-> k.table, device |-> k.device, adopted |-> k.adopted]
    BY DEF AnyKV
  <2>2. k.cursor + 1 \in Nat /\ k.cursor + 1 > 0
    BY <1>1
  <2> HIDE DEF m
  <2>3. m.cursor # 0 /\ m \in [cursor : Nat, table : Table, device : Seq(Cell), adopted : BOOLEAN]
    BY <1>1, <2>1, <2>2
  <2> QED BY <2>1, <2>2, <2>3 DEF AnyKV
<1>3. r = IF m.cursor % BlockSize # 1 THEN Stored(m, p)
          ELSE IF a.ok THEN Stored(g, a.pool) ELSE Refused(m, p)
  <2>1. a.ok \/ a.pool = p
    BY AllocRefused
  <2> QED BY <2>1 DEF DecodeSlot
<1>4. ASSUME a.ok
      PROVE  /\ a.ids \in Table /\ Len(a.ids) = 1
             /\ g \in AnyKV /\ g.cursor = m.cursor /\ g.table = k.table \o a.ids
             /\ Synced(m) /\ Len(m.table) + 1 <= BlocksNeeded(MaxSeqLen) => Synced(g)
  <2> HIDE DEF m
  <2>1. /\ a.ids \in Table /\ Len(a.ids) = 1
        /\ \A b \in Block : ~(Contains(k.table, b) /\ Contains(a.ids, b))
    BY <1>4, NewAreNew
  <2> HIDE DEF a
  <2> QED BY <1>2, <2>1, GrowOK
<1> HIDE DEF r, g, m, a
<1>5. Took(k, p, r)
  <2>1. CASE m.cursor % BlockSize # 1
    BY <1>2, <1>3, <2>1, TookNothing
  <2>2. CASE m.cursor % BlockSize = 1 /\ a.ok
    <3>1. r = Stored(g, a.pool)
      BY <1>3, <2>2
    <3>2. Took(k, p, Stored(g, a.pool))
      BY <1>4, <2>2, TookSome DEF a
    <3> QED BY <3>1, <3>2
  <2>3. CASE m.cursor % BlockSize = 1 /\ ~a.ok
    BY <1>2, <1>3, <2>3, TookNothing
  <2> QED BY <2>1, <2>2, <2>3
<1>6. ASSUME BlockSize > 1, KVOK(k), k.cursor > 0, k.cursor < MaxSeqLen, r.ok
      PROVE  KVOK(r.kv) /\ r.kv.cursor = k.cursor + 1
  <2>1. /\ Synced(k) /\ Len(k.table) = BlocksNeeded(k.cursor) /\ MaxSeqLen \in Nat
        /\ k.cursor + 1 \in Nat /\ k.cursor + 1 <= MaxSeqLen
    BY <1>1, <1>6, MaxSeqLenAssumption DEF KVOK, TableCoversCursor
  <2>2. Synced(m)
    BY <1>2, <2>1 DEF Synced
  <2>3. BlocksNeeded(k.cursor + 1) <= BlocksNeeded(MaxSeqLen)
    BY <2>1, CeilMonotone
  <2>4. BlocksNeeded(k.cursor + 1)
        = IF (k.cursor + 1) % BlockSize = 1 THEN BlocksNeeded(k.cursor) + 1 ELSE BlocksNeeded(k.cursor)
    BY <1>1, <1>6, CeilNext
  <2>5. CASE m.cursor % BlockSize # 1
    <3>1. r.kv = m
      BY <1>3, <2>5 DEF Stored
    <3>2. TableCoversCursor(m)
      BY <1>2, <2>1, <2>4, <2>5 DEF TableCoversCursor
    <3> QED BY <1>1, <1>2, <2>1, <2>2, <3>1, <3>2 DEF KVOK
  <2>6. CASE m.cursor % BlockSize = 1
    <3>1. a.ok /\ r.kv = g
      BY <1>3, <1>6, <2>6 DEF Stored, Refused
    <3>2. (k.cursor + 1) % BlockSize = 1
      BY <1>2, <2>6
    <3>3. Len(k.table) + 1 = BlocksNeeded(k.cursor + 1)
      BY <2>1, <2>4, <3>2
    <3>4. Synced(g)
      BY <1>2, <1>4, <2>2, <2>3, <3>1, <3>3
    <3>5. k.table \in Seq(Block)
      BY <1>1 DEF Table
    <3>9. a.ids \in Seq(Block)
      BY <1>4, <3>1 DEF Table
    <3>10. Len(a.ids) = 1
      BY <1>4, <3>1
    <3>6. Len(k.table \o a.ids) = Len(k.table) + 1
      <4>1. Len(k.table \o a.ids) = Len(k.table) + Len(a.ids)
        BY <3>5, <3>9, ConcatProperties
      <4> QED BY <3>10, <4>1
    <3>7. TableCoversCursor(g)
      BY <1>2, <1>4, <3>1, <3>3, <3>6 DEF TableCoversCursor
    <3>8. g.cursor = k.cursor + 1 /\ g.cursor # 0
      BY <1>2, <1>4, <3>1
    <3> QED BY <1>4, <2>1, <3>1, <3>4, <3>7, <3>8 DEF KVOK
  <2> QED BY <2>5, <2>6
<1> QED BY <1>5, <1>6 DEF r

\* A prefill: the blocks for its tokens, after those of an adopted prefix.
LEMMA PrefillTook ==
  ASSUME NEW k \in AnyKV, NEW p, PoolOK(p), Backed(k, p), NEW len \in Nat \ {0}
  PROVE  /\ Took(k, p, PrefillSlots(k, p, len))
         /\ KVOK(k) /\ k.cursor = Len(k.table) * BlockSize /\ k.cursor + len <= MaxSeqLen
            /\ PrefillSlots(k, p, len).ok
            => KVOK(PrefillSlots(k, p, len).kv) /\ PrefillSlots(k, p, len).kv.cursor = k.cursor + len
<1> DEFINE n == BlocksNeeded(len)
           a == Alloc(p, n)
           g == [Grow(k, a.ids) EXCEPT !.cursor = @ + len]
           f == [k EXCEPT !.cursor = len, !.table = a.ids, !.device = NewDevice(a.ids)]
           r == PrefillSlots(k, p, len)
<1>1. /\ k.cursor \in Nat /\ k.table \in Table /\ k.device \in Seq(Cell) /\ k.adopted \in BOOLEAN
      /\ n \in Nat /\ len \in Nat /\ len # 0
      /\ MaxSeqLen \in Nat
  BY Ceil, MaxSeqLenAssumption DEF AnyKV
<1>2. r = IF (k.cursor > 0 /\ ~k.adopted) \/ ~a.ok THEN Refused(k, p)
          ELSE IF k.cursor > 0 THEN Stored(g, a.pool) ELSE Stored(f, a.pool)
  BY DEF PrefillSlots
<1>3. ASSUME a.ok
      PROVE  /\ a.ids \in Table /\ Len(a.ids) = n
             /\ \A b \in Block : ~(Contains(k.table, b) /\ Contains(a.ids, b))
  <2> HIDE DEF n
  <2> QED BY <1>1, <1>3, NewAreNew
<1>4. k.table \in Seq(Block)
  BY <1>1 DEF Table
<1>5. ASSUME a.ok PROVE a.ids \in Seq(Block)
  BY <1>3, <1>5 DEF Table
<1> HIDE DEF n
<1>6. ASSUME a.ok, k.cursor > 0
      PROVE  /\ g \in AnyKV /\ g.cursor = k.cursor + len /\ g.table = k.table \o a.ids
             /\ Synced(k) /\ Len(k.table) + n <= BlocksNeeded(MaxSeqLen) => Synced(g)
  <2> DEFINE h == Grow(k, a.ids)
  <2>1. /\ h \in AnyKV /\ h.cursor = k.cursor /\ h.table = k.table \o a.ids
        /\ Synced(k) /\ Len(k.table) + n <= BlocksNeeded(MaxSeqLen) => Synced(h)
    <3> HIDE DEF a
    <3> QED BY <1>3, <1>6, GrowOK
  <2> HIDE DEF h
  <2>2. g = [h EXCEPT !.cursor = @ + len]
    BY DEF h
  <2> HIDE DEF g
  <2>4. h \in [cursor : Nat, table : Table, device : Seq(Cell), adopted : BOOLEAN]
    BY <2>1 DEF AnyKV
  <2>5. g = [cursor |-> h.cursor + len, table |-> h.table, device |-> h.device, adopted |-> h.adopted]
    BY <2>2, <2>4
  <2>6. h.cursor + len \in Nat /\ h.cursor + len # 0
    BY <1>1, <2>4
  <2>3. /\ g.cursor = h.cursor + len /\ g.table = h.table /\ g.device = h.device
        /\ g \in [cursor : Nat, table : Table, device : Seq(Cell), adopted : BOOLEAN]
    BY <2>4, <2>5, <2>6
  <2> QED BY <2>1, <2>3, <2>6 DEF AnyKV, Synced
<1>7. ASSUME a.ok, k.cursor = 0
      PROVE  /\ f \in AnyKV /\ f.cursor = len /\ f.table = k.table \o a.ids /\ f.table = a.ids
             /\ n <= BlocksNeeded(MaxSeqLen) => Synced(f)
  <2> DEFINE d == NewDevice(a.ids)
             ids == a.ids
  <2>0. ids \in Seq(Block)
    BY <1>5, <1>7
  <2>9. Len(ids) = n
    BY <1>3, <1>7
  <2>1. /\ d \in Seq(Cell) /\ Len(d) = BlocksNeeded(MaxSeqLen)
        /\ n <= BlocksNeeded(MaxSeqLen) => \A i \in 1 .. Len(ids) : d[i] = ids[i]
    <3> HIDE DEF a, ids
    <3>1. d = NewDevice(ids)
      BY DEF ids
    <3> HIDE DEF d
    <3> QED BY <2>0, <2>9, <3>1, NewDeviceOK
  <2>2. f = [cursor |-> len, table |-> ids, device |-> d, adopted |-> k.adopted]
    <3> HIDE DEF a
    <3>1. k = [cursor |-> k.cursor, table |-> k.table, device |-> k.device, adopted |-> k.adopted]
      BY DEF AnyKV
    <3>2. f = [k EXCEPT !.cursor = len, !.table = ids, !.device = d]
      OBVIOUS
    <3> HIDE DEF f, d, ids
    <3> QED BY <3>1, <3>2
  <2> HIDE DEF d
  <2>3. k.table = <<>>
    BY <1>7 DEF AnyKV
  <2>4. <<>> \o a.ids = a.ids
    BY <1>5, <1>7
  <2> HIDE DEF f, a
  <2>5. f \in [cursor : Nat, table : Table, device : Seq(Cell), adopted : BOOLEAN]
    BY <1>1, <1>3, <1>7, <2>1, <2>2
  <2>6. f \in AnyKV
    BY <1>1, <2>2, <2>5 DEF AnyKV
  <2>7. n <= BlocksNeeded(MaxSeqLen) => Synced(f)
    <3>1. f.device = d /\ f.table = ids
      BY <2>2
    <3> HIDE DEF ids
    <3> QED BY <2>1, <2>9, <3>1 DEF Synced
  <2> QED BY <2>2, <2>3, <2>4, <2>6, <2>7
<1> HIDE DEF r, g, f
<1>8. CASE (k.cursor > 0 /\ ~k.adopted) \/ ~a.ok
  <2>1. r = Refused(k, p)
    BY <1>2, <1>8
  <2>2. ~r.ok
    BY <2>1 DEF Refused
  <2>3. Took(k, p, r)
    BY <2>1, TookNothing
  <2> QED BY <2>2, <2>3 DEF r
<1>9. CASE a.ok /\ k.cursor > 0 /\ k.adopted
  <2>1. r = Stored(g, a.pool)
    BY <1>2, <1>9
  <2>2. Took(k, p, r)
    BY <1>1, <1>6, <1>9, <2>1, TookSome
  <2>3. ASSUME KVOK(k), k.cursor = Len(k.table) * BlockSize, k.cursor + len <= MaxSeqLen
        PROVE  KVOK(g)
    <3>1. Synced(k)
      BY <1>9, <2>3 DEF KVOK
    <3>2. BlocksNeeded(Len(k.table) * BlockSize + len) = Len(k.table) + n
      BY <1>1, <1>4, CeilSum DEF n
    <3>3. BlocksNeeded(k.cursor + len) = Len(k.table) + n
      BY <2>3, <3>2
    <3>4. k.cursor + len \in Nat
      BY <1>1
    <3>5. BlocksNeeded(k.cursor + len) <= BlocksNeeded(MaxSeqLen)
      BY <1>1, <2>3, <3>4, CeilMonotone
    <3>9. a.ids \in Seq(Block)
      BY <1>5, <1>9
    <3>10. Len(a.ids) = n
      BY <1>3, <1>9
    <3> HIDE DEF a
    <3>6. Len(k.table \o a.ids) = Len(k.table) + n
      BY <1>4, <3>9, <3>10, ConcatProperties
    <3>7. TableCoversCursor(g)
      BY <1>6, <1>9, <3>3, <3>6 DEF TableCoversCursor
    <3>11. g.cursor = k.cursor + len
      BY <1>6, <1>9
    <3>8. g.cursor # 0 /\ g.cursor <= MaxSeqLen
      BY <1>1, <2>3, <3>11
    <3> QED BY <1>6, <1>9, <3>1, <3>3, <3>5, <3>7, <3>8 DEF KVOK
  <2>4. r.kv = g
    BY <2>1 DEF Stored
  <2>5. g.cursor = k.cursor + len
    BY <1>6, <1>9
  <2> QED BY <2>2, <2>3, <2>4, <2>5 DEF r
<1>10. CASE a.ok /\ ~(k.cursor > 0)
  <2>0. k.cursor = 0
    BY <1>1, <1>10
  <2>1. r = Stored(f, a.pool)
    BY <1>2, <1>10, <2>0
  <2>2. /\ f \in AnyKV /\ f.cursor = len /\ f.table = k.table \o a.ids /\ f.table = a.ids
        /\ n <= BlocksNeeded(MaxSeqLen) => Synced(f)
    BY <1>7, <1>10, <2>0
  <2>3. Took(k, p, r)
    BY <1>1, <1>10, <2>1, <2>2, TookSome
  <2>4. ASSUME k.cursor + len <= MaxSeqLen PROVE KVOK(f)
    <3>1. len <= MaxSeqLen /\ f.cursor # 0
      BY <1>1, <2>0, <2>2, <2>4
    <3>2. n <= BlocksNeeded(MaxSeqLen)
      BY <1>1, <3>1, CeilMonotone DEF n
    <3>3. Len(a.ids) = n
      BY <1>3, <1>10
    <3>4. TableCoversCursor(f)
      BY <2>2, <3>3 DEF TableCoversCursor, n
    <3> QED BY <2>2, <3>1, <3>2, <3>4 DEF KVOK
  <2>5. r.kv = f
    BY <2>1 DEF Stored
  <2>6. f.cursor = k.cursor + len
    BY <1>1, <2>0, <2>2
  <2> QED BY <2>3, <2>4, <2>5, <2>6 DEF r
<1> QED BY <1>8, <1>9, <1>10

-----------------------------------------------------------------------------
(* The caches together: every block is counted by the tables that hold it. *)

Holders(kvs, b) == {c \in Cache : Contains(kvs[c].table, b)}

(* The reference a lost block keeps. *)
Extra(b, L) == IF b \in L THEN 1 ELSE 0

(* The counts are those of the tables, and those of the lost blocks L, which *)
(* are in none.                                                            *)
Counted(p, kvs, L) ==
  \A b \in Block : /\ p.ref_cnt[b] = Cardinality(Holders(kvs, b)) + Extra(b, L)
                   /\ b \in L => Holders(kvs, b) = {}

(* What the calls of a layer leave, whether or not one of them threw. *)
Metas == {r \in [ok : BOOLEAN, kv : [Cache -> AnyKV], pool : AnyPool] :
            PoolOK(r.pool) /\ Counted(r.pool, r.kv, lost)}

\* Counting the members of a set of caches.
LEMMA Counting ==
  ASSUME NEW H \in SUBSET Cache
  PROVE  /\ IsFiniteSet(H) /\ Cardinality(H) \in Nat
         /\ Cardinality(H) = 0 <=> H = {}
         /\ \A c \in Cache : c \notin H => Cardinality(H \cup {c}) = Cardinality(H) + 1
         /\ \A c \in H : Cardinality(H \ {c}) = Cardinality(H) - 1
<1>1. IsFiniteSet(H)
  BY PagedKVCacheAssumption, FS_Subset, Zenon
<1>2. Cardinality(H) \in Nat
  BY <1>1, FS_CardinalityType, Zenon
<1>3. Cardinality(H) = 0 <=> H = {}
  BY <1>1, FS_EmptySet, Zenon
<1>4. ASSUME NEW c \in Cache, c \notin H PROVE Cardinality(H \cup {c}) = Cardinality(H) + 1
  BY <1>1, <1>4, FS_AddElement, Zenon
<1>5. ASSUME NEW c \in H PROVE Cardinality(H \ {c}) = Cardinality(H) - 1
  BY <1>1, FS_RemoveElement, Zenon
<1> QED BY <1>1, <1>2, <1>3, <1>4, <1>5

\* Exact counts back every table.
LEMMA CountedBacked ==
  ASSUME NEW p, PoolOK(p), NEW kvs \in [Cache -> AnyKV], NEW L, Counted(p, kvs, L), NEW c \in Cache
  PROVE  Backed(kvs[c], p)
<1> SUFFICES ASSUME NEW b \in Block, Contains(kvs[c].table, b) PROVE p.ref_cnt[b] >= 1
  BY DEF Backed
<1>1. c \in Holders(kvs, b) /\ Holders(kvs, b) \in SUBSET Cache
  BY DEF Holders
<1> DEFINE H == Holders(kvs, b)
<1> HIDE DEF H
<1>2. Cardinality(H) \in Nat /\ Cardinality(H) # 0
  BY <1>1, Counting DEF H
<1>3. p.ref_cnt[b] = Cardinality(H) + Extra(b, L) /\ Extra(b, L) \in {0, 1}
  BY DEF Counted, H, Extra
<1> QED BY <1>2, <1>3

\* A call that took blocks for one cache keeps the counts exact.
LEMMA CountedTook ==
  ASSUME NEW p, PoolOK(p), NEW kvs \in [Cache -> AnyKV], NEW L, Counted(p, kvs, L), NEW c \in Cache,
         NEW s, Took(kvs[c], p, s)
  PROVE  /\ [kvs EXCEPT ![c] = s.kv] \in [Cache -> AnyKV]
         /\ PoolOK(s.pool)
         /\ Counted(s.pool, [kvs EXCEPT ![c] = s.kv], L)
<1> DEFINE t  == kvs[c].table
           k2 == [kvs EXCEPT ![c] = s.kv]
<1>1. s.kv \in AnyKV /\ PoolOK(s.pool)
  BY DEF Took
<1>2. k2 \in [Cache -> AnyKV]
  BY <1>1
<1>3. PICK got \in Table :
        /\ s.kv.table = t \o got
        /\ \A b \in Block : /\ Contains(got, b) => p.ref_cnt[b] = 0
                            /\ s.pool.ref_cnt[b] = IF Contains(got, b) THEN 1 ELSE p.ref_cnt[b]
  BY DEF Took
<1>4. t \in Table /\ \A b \in Block : Contains(t, b) => p.ref_cnt[b] >= 1
  <2>1. kvs[c] \in AnyKV
    OBVIOUS
  <2> QED BY <2>1, CountedBacked DEF AnyKV, Backed
<1>5. \A b \in Block : ~(Contains(t, b) /\ Contains(got, b))
  <2>1. \A b \in Block : p.ref_cnt[b] = 0 => ~(p.ref_cnt[b] >= 1)
    OBVIOUS
  <2> QED BY <1>3, <1>4, <2>1
<1>6. \A b \in Block : Contains(s.kv.table, b) <=> Contains(t, b) \/ Contains(got, b)
  <2> HIDE DEF t
  <2> QED BY <1>3, <1>4, <1>5, ConcatTable
<1>7. k2[c] = s.kv /\ \A d \in Cache : d # c => k2[d] = kvs[d]
  OBVIOUS
<1> HIDE DEF k2
<1>8. ASSUME NEW b \in Block
      PROVE  /\ s.pool.ref_cnt[b] = Cardinality(Holders(k2, b)) + Extra(b, L)
             /\ b \in L => Holders(k2, b) = {}
  <2>0. /\ p.ref_cnt[b] = Cardinality(Holders(kvs, b)) + Extra(b, L)
        /\ b \in L => Holders(kvs, b) = {}
    BY DEF Counted
  <2>1. CASE Contains(got, b)
    <3>2. Holders(kvs, b) \in SUBSET Cache
      BY DEF Holders
    <3> DEFINE H == Holders(kvs, b)
    <3>4. Holders(k2, b) = H \cup {c}
      BY <1>6, <1>7, <2>1 DEF Holders
    <3> HIDE DEF H
    <3>1. Cardinality(H) = 0 /\ b \notin L
      <4>1. p.ref_cnt[b] = 0
        BY <1>3, <2>1
      <4>2. Cardinality(H) \in Nat
        BY <3>2, Counting DEF H
      <4>3. Extra(b, L) \in {0, 1} /\ (b \in L => Extra(b, L) = 1)
        BY DEF Extra
      <4> QED BY <2>0, <4>1, <4>2, <4>3 DEF H
    <3>3. H = {}
      BY <3>1, <3>2, Counting DEF H
    <3>5. c \notin H
      BY <3>3
    <3>6. Cardinality(H \cup {c}) = Cardinality(H) + 1
      BY <3>2, <3>5, Counting DEF H
    <3>7. Cardinality(Holders(k2, b)) = 1
      BY <3>1, <3>4, <3>6
    <3>8. s.pool.ref_cnt[b] = 1
      BY <1>3, <2>1
    <3> QED BY <3>1, <3>7, <3>8 DEF Extra
  <2>2. CASE ~Contains(got, b)
    <3>1. Holders(k2, b) = Holders(kvs, b)
      BY <1>6, <1>7, <2>2 DEF Holders
    <3>2. s.pool.ref_cnt[b] = p.ref_cnt[b]
      BY <1>3, <2>2
    <3> QED BY <2>0, <3>1, <3>2
  <2> QED BY <2>1, <2>2
<1> QED BY <1>1, <1>2, <1>8 DEF Counted, k2

ResetAll(kvs, ms) == [c \in Cache |-> IF c \in ToSet(ms) THEN Reset ELSE kvs[c]]

\* free of the tables of a batch and reset of its caches keep the counts exact.
LEMMA FreeBatch ==
  ASSUME NEW p, PoolOK(p), NEW kvs \in [Cache -> AnyKV], NEW L, Counted(p, kvs, L),
         NEW ms \in Seq(Cache), IsInjective(ms), NEW ids,
         ids = FlattenSeq([i \in DOMAIN ms |-> kvs[ms[i]].table])
  PROVE  /\ Free(p, ids).ok
         /\ PoolOK(Free(p, ids).pool)
         /\ Counted(Free(p, ids).pool, ResetAll(kvs, ms), L)
<1> DEFINE n  == Len(ms)
           ts == [i \in 1 .. n |-> kvs[ms[i]].table]
           Left(k) == {c \in Cache : \A i \in 1 .. k : ms[i] # c}
           On(k, b) == {c \in Left(k) : Contains(kvs[c].table, b)}
<1>1. n \in Nat /\ DOMAIN ms = 1 .. n /\ \A i \in 1 .. n : ms[i] \in Cache
  OBVIOUS
<1>2. Block \subseteq Int
  BY NumBlocksAssumption DEF Block
<1>3. ASSUME NEW c \in Cache PROVE kvs[c].table \in Table /\ kvs[c].table \in Seq(Int)
  <2>1. kvs[c] \in AnyKV
    OBVIOUS
  <2>2. kvs[c].table \in Table
    BY <2>1 DEF AnyKV
  <2>3. kvs[c].table \in Seq(Block)
    BY <2>2 DEF Table
  <2>4. ASSUME NEW t \in Seq(Block) PROVE t \in Seq(Int)
    <3>1. t \in [1 .. Len(t) -> Block] /\ Len(t) \in Nat
      OBVIOUS
    <3>2. t \in [1 .. Len(t) -> Int]
      BY <1>2, <3>1
    <3> QED BY <3>1, <3>2
  <2>5. kvs[c].table \in Seq(Int)
    BY <2>3, <2>4
  <2> QED BY <2>2, <2>5
<1> HIDE DEF n
<1>4. ts \in Seq(Seq(Int)) /\ Len(ts) = n
  BY <1>1, <1>3
<1> HIDE DEF ts
<1>5. PICK v \in [0 .. n -> Seq(Int)] :
        /\ v[0] = <<>>
        /\ \A k \in 1 .. n : v[k] = v[k - 1] \o ts[k]
        /\ FlattenSeq(ts) = v[n]
  BY <1>4, FlattenRuns
<1>6. ids = v[n]
  BY <1>1, <1>5 DEF ts
<1> DEFINE x(b) == Extra(b, L)
<1>13. \A b : x(b) \in {0, 1}
  BY DEF Extra
<1> HIDE DEF x
<1> DEFINE q(k) == Free(p, v[k]).pool
           S == {k \in Nat : k <= n => /\ Free(p, v[k]).ok
                                       /\ PoolOK(q(k))
                                       /\ \A b \in Block : q(k).ref_cnt[b] = Cardinality(On(k, b)) + x(b)}
<1>7. p \in AnyPool
  BY DEF PoolOK
<1>8. 0 \in S
  <2>1. Free(p, v[0]) = Begun(p)
    BY <1>5, <1>7, FreeSteps
  <2>2. Begun(p).ok /\ Begun(p).pool = p
    BY DEF Begun
  <2>3. ASSUME NEW b \in Block PROVE p.ref_cnt[b] = Cardinality(On(0, b)) + x(b)
    <3>1. On(0, b) = Holders(kvs, b)
      BY DEF Holders
    <3> QED BY <3>1 DEF Counted, x
  <2> HIDE DEF On
  <2> QED BY <2>1, <2>2, <2>3
<1>9. ASSUME NEW k \in 0 .. n - 1, k \in S PROVE k + 1 \in S
  <2> DEFINE c == ms[k + 1]
             t == kvs[c].table
  <2>1. k + 1 \in 1 .. n /\ k \in 0 .. n /\ k + 1 \in Nat /\ (k + 1) - 1 = k /\ k <= n
    BY <1>1
  <2>2. c \in Cache
    BY <1>1, <2>1
  <2>3. c \in Left(k)
    <3> SUFFICES ASSUME NEW i \in 1 .. k, ms[i] = c PROVE FALSE
      BY <2>2
    <3>1. i \in DOMAIN ms /\ k + 1 \in DOMAIN ms /\ i # k + 1
      BY <1>1, <2>1
    <3> QED BY <3>1 DEF IsInjective
  <2>4. Left(k + 1) = Left(k) \ {c}
    <3>1. \A i \in 1 .. k + 1 : i \in 1 .. k \/ i = k + 1
      BY <1>1
    <3>2. \A i \in 1 .. k : i \in 1 .. k + 1
      BY <1>1
    <3>3. k + 1 \in 1 .. k + 1
      BY <2>1
    <3> QED BY <3>1, <3>2, <3>3
  <2>5. Left(k) \in SUBSET Cache
    OBVIOUS
  <2> HIDE DEF Left
  <2>6. v[k + 1] = v[k] \o t
    <3>1. ts[k + 1] = t
      BY <2>1 DEF ts
    <3> QED BY <1>5, <2>1, <3>1
  <2> HIDE DEF c
  <2>7. t \in Table /\ t \in Seq(Int)
    BY <1>3, <2>2
  <2>8. v[k] \in Seq(Int)
    BY <1>5, <2>1
  <2>9. /\ Free(p, v[k]).ok /\ PoolOK(q(k))
        /\ \A b \in Block : q(k).ref_cnt[b] = Cardinality(On(k, b)) + x(b)
    BY <1>9, <2>1
  <2> DEFINE r == q(k)
  <2>10. Free(p, v[k + 1]) = Free(r, t)
    <3> HIDE DEF t
    <3> QED BY <1>7, <2>6, <2>7, <2>8, <2>9, FreeConcat
  <2> HIDE DEF r, On, t
  <2>11. ASSUME NEW b \in Block PROVE r.ref_cnt[b] = Cardinality(On(k, b)) + x(b)
    BY <2>9 DEF r
  <2>12. PoolOK(r)
    BY <2>9 DEF r
  <2>13. ASSUME NEW b \in Block
         PROVE  /\ On(k, b) \in SUBSET Cache
                /\ On(k + 1, b) = On(k, b) \ {c}
                /\ c \in On(k, b) <=> Contains(t, b)
    BY <2>3, <2>4, <2>5 DEF On, t
  <2>14. ASSUME NEW b \in Block, Contains(t, b) PROVE r.ref_cnt[b] >= 1
    <3>1. On(k, b) # {} /\ On(k, b) \in SUBSET Cache
      BY <2>13, <2>14
    <3>2. Cardinality(On(k, b)) \in Nat /\ Cardinality(On(k, b)) # 0
      BY <3>1, Counting
    <3> QED BY <1>13, <2>11, <3>2
  <2>15. /\ Free(r, t).ok
         /\ PoolOK(Free(r, t).pool)
         /\ \A b \in Block : Free(r, t).pool.ref_cnt[b]
                             = IF Contains(t, b) THEN r.ref_cnt[b] - 1 ELSE r.ref_cnt[b]
    BY <2>7, <2>12, <2>14, FreeTable
  <2>16. ASSUME NEW b \in Block
         PROVE  Free(r, t).pool.ref_cnt[b] = Cardinality(On(k + 1, b)) + x(b)
    <3>1. CASE Contains(t, b)
      <4>1. c \in On(k, b) /\ On(k, b) \in SUBSET Cache
        BY <2>13, <3>1
      <4>2. Cardinality(On(k, b) \ {c}) = Cardinality(On(k, b)) - 1
        BY <4>1, Counting
      <4>3. Free(r, t).pool.ref_cnt[b] = r.ref_cnt[b] - 1
        BY <2>15, <3>1
      <4>4. Cardinality(On(k, b)) \in Nat /\ x(b) \in {0, 1}
        BY <1>13, <4>1, Counting
      <4>5. r.ref_cnt[b] = Cardinality(On(k, b)) + x(b)
        BY <2>11
      <4>6. Cardinality(On(k + 1, b)) = Cardinality(On(k, b)) - 1
        BY <2>13, <4>2
      <4> DEFINE y == Cardinality(On(k, b))
                 z == x(b)
      <4> HIDE DEF y, z
      <4>7. y \in Nat /\ z \in {0, 1} /\ r.ref_cnt[b] = y + z
        BY <4>4, <4>5 DEF y, z
      <4>8. Free(r, t).pool.ref_cnt[b] = (y - 1) + z
        BY <4>3, <4>7
      <4> QED BY <4>6, <4>8 DEF y, z
    <3>2. CASE ~Contains(t, b)
      <4>1. On(k, b) \ {c} = On(k, b)
        BY <2>13, <3>2
      <4>2. Free(r, t).pool.ref_cnt[b] = r.ref_cnt[b]
        BY <2>15, <3>2
      <4> QED BY <2>11, <2>13, <4>1, <4>2
    <3> QED BY <3>1, <3>2
  <2> QED BY <2>1, <2>10, <2>15, <2>16
<1> HIDE DEF S
<1>10. \A k \in 0 .. n : k \in S
  BY <1>1, <1>8, <1>9, BoundedInduction
<1>11. /\ Free(p, ids).ok /\ PoolOK(Free(p, ids).pool)
       /\ \A b \in Block : Free(p, ids).pool.ref_cnt[b] = Cardinality(On(n, b)) + x(b)
  <2>1. n \in S /\ n <= n
    BY <1>1, <1>10
  <2> HIDE DEF On
  <2> QED BY <1>6, <2>1 DEF S
<1>12. ASSUME NEW b \in Block PROVE On(n, b) = Holders(ResetAll(kvs, ms), b)
  <2>1. ~Contains(Reset.table, b)
    BY NoTable DEF Reset, FreshKV
  <2>2. \A c \in Cache : c \in ToSet(ms) <=> \E i \in 1 .. n : ms[i] = c
    BY <1>1 DEF ToSet
  <2> QED BY <2>1, <2>2 DEF Holders, ResetAll
<1>14. ASSUME NEW b \in Block, b \in L PROVE Holders(ResetAll(kvs, ms), b) = {}
  <2>1. On(n, b) \subseteq Holders(kvs, b)
    BY DEF Holders
  <2>2. Holders(kvs, b) = {}
    BY <1>14 DEF Counted
  <2> QED BY <1>12, <2>1, <2>2
<1> HIDE DEF On
<1> QED BY <1>11, <1>12, <1>14 DEF Counted, x

-----------------------------------------------------------------------------
(* One layer of a pass: a loop over the caches of the batch.               *)

(* What the caller keeps to when a cache meets layer 0. *)
Due(c) == IF job.is_decode THEN job.len[c] = 1
          ELSE c \notin prefilled /\ kv[c].cursor + job.len[c] <= PromptLimit

JobOK ==
  /\ job = [members |-> job.members, api |-> job.api, len |-> job.len,
            is_decode |-> job.is_decode, layer |-> job.layer]
  /\ job.members \in Seq(Cache) /\ job.members # <<>> /\ IsInjective(job.members)
  /\ \A c \in InJob : job.len[c] \in Nat \ {0}
  /\ job.is_decode \in BOOLEAN /\ job.layer \in Layer
  /\ job.layer = 0 => \A c \in InJob : Due(c)

MetaTurn == [x \in Metas \X InJob |-> Turn(x[1], x[2])]

MetaBase == [ok |-> TRUE, kv |-> kv, pool |-> pool]

(* How far layer 0 moves a cursor. *)
Advance(c) == IF job.layer = 0 THEN job.len[c] ELSE 0

\* A call takes blocks or nothing; one that keeps to the contract and does not
\* throw leaves the cache as it should be, with the tokens of the pass.
LEMMA CallTook ==
  ASSUME JobOK, NEW c \in InJob, NEW k \in AnyKV, NEW p, PoolOK(p), Backed(k, p)
  PROVE  /\ Took(k, p, Call(k, p, c))
         /\ /\ BlockSize > 1 /\ KVOK(k) /\ Call(k, p, c).ok
            /\ job.layer = 0 => IF job.is_decode THEN job.len[c] = 1
                                ELSE /\ k.cursor = Len(k.table) * BlockSize
                                     /\ k.cursor + job.len[c] <= MaxSeqLen
            => KVOK(Call(k, p, c).kv) /\ Call(k, p, c).kv.cursor = k.cursor + Advance(c)
<1> DEFINE len == job.len[c]
           r   == Call(k, p, c)
           Ready == /\ BlockSize > 1 /\ KVOK(k) /\ r.ok
                    /\ job.layer = 0 => IF job.is_decode THEN len = 1
                                        ELSE /\ k.cursor = Len(k.table) * BlockSize
                                             /\ k.cursor + len <= MaxSeqLen
           Good(s) == KVOK(s.kv) /\ s.kv.cursor = k.cursor + Advance(c)
<1>1. len \in Nat \ {0} /\ job.is_decode \in BOOLEAN /\ job.layer \in Layer
      /\ k.cursor \in Nat /\ MaxSeqLen \in Nat
  BY MaxSeqLenAssumption DEF JobOK, AnyKV
<1> HIDE DEF len
<1>2. /\ Took(k, p, Stored(k, p)) /\ Took(k, p, Refused(k, p))
      /\ ~Refused(k, p).ok /\ Stored(k, p).kv = k
  BY TookNothing DEF Refused, Stored
<1>3. /\ Took(k, p, DecodeSlot(k, p))
      /\ BlockSize > 1 /\ KVOK(k) /\ k.cursor > 0 /\ k.cursor < MaxSeqLen /\ DecodeSlot(k, p).ok
         => KVOK(DecodeSlot(k, p).kv) /\ DecodeSlot(k, p).kv.cursor = k.cursor + 1
  BY DecodeTook
<1>4. /\ Took(k, p, PrefillSlots(k, p, len))
      /\ KVOK(k) /\ k.cursor = Len(k.table) * BlockSize /\ k.cursor + len <= MaxSeqLen
         /\ PrefillSlots(k, p, len).ok
         => KVOK(PrefillSlots(k, p, len).kv) /\ PrefillSlots(k, p, len).kv.cursor = k.cursor + len
  BY <1>1, PrefillTook
<1>5. KVOK(k) /\ HasDevice(k) => k.cursor > 0
  BY <1>1 DEF KVOK, HasDevice, FreshKV
<1>6. \/ r = Refused(k, p)
      \/ r = Stored(k, p) /\ job.layer # 0
      \/ r = DecodeSlot(k, p) /\ job.layer = 0 /\ job.is_decode /\ HasDevice(k)
         /\ (len = 1 => k.cursor < MaxSeqLen)
      \/ r = PrefillSlots(k, p, len) /\ job.layer = 0 /\ ~job.is_decode
  <2> USE DEF Call, len
  <2>1. CASE job.api = "write"
    <3>1. r = Write(k, p, job.layer, len, job.is_decode)
      BY <2>1
    <3>2. ~(k.cursor + len >= MaxSeqLen) /\ len = 1 => k.cursor < MaxSeqLen
      BY <1>1
    <3> HIDE DEF r
    <3> QED BY <3>1, <3>2 DEF Write
  <2>2. CASE job.api # "write" /\ job.layer = 0
    <3>1. r = PrepareMeta(k, p, len, job.is_decode)
      BY <2>2
    <3>2. ~(k.cursor >= MaxSeqLen) => k.cursor < MaxSeqLen
      BY <1>1
    <3> HIDE DEF r
    <3> QED BY <2>2, <3>1, <3>2 DEF PrepareMeta
  <2>3. CASE job.api # "write" /\ job.layer # 0
    BY <2>3
  <2> QED BY <2>1, <2>2, <2>3
<1> HIDE DEF r
<1>7. Took(k, p, r)
  BY <1>2, <1>3, <1>4, <1>6
<1>8. ASSUME Ready PROVE Good(r)
  <2>1. CASE r = Refused(k, p)
    BY <1>2, <1>8, <2>1
  <2>2. CASE r = Stored(k, p) /\ job.layer # 0
    <3>1. k.cursor + Advance(c) = k.cursor
      BY <1>1, <2>2 DEF Advance
    <3> QED BY <1>2, <1>8, <2>2, <3>1
  <2>3. CASE r = DecodeSlot(k, p) /\ job.layer = 0 /\ job.is_decode /\ HasDevice(k)
             /\ (len = 1 => k.cursor < MaxSeqLen)
    <3>1. Advance(c) = 1
      BY <1>8, <2>3 DEF Advance, len
    <3> QED BY <1>3, <1>5, <1>8, <2>3, <3>1
  <2>4. CASE r = PrefillSlots(k, p, len) /\ job.layer = 0 /\ ~job.is_decode
    <3>1. Advance(c) = len
      BY <2>4 DEF Advance, len
    <3> QED BY <1>4, <1>8, <2>4, <3>1
  <2> QED BY <1>6, <2>1, <2>2, <2>3, <2>4
<1> QED BY <1>7, <1>8 DEF r, len

\* A turn of the loop keeps the counts exact, also when a call threw.
LEMMA TurnOfMetas ==
  ASSUME JobOK
  PROVE  Turns(MetaTurn, Metas, InJob)
<1>1. ASSUME NEW r \in Metas, NEW c \in InJob PROVE Turn(r, c) \in Metas
  <2>1. c \in Cache
    BY DEF JobOK, InJob, ToSet
  <2>2. /\ r.ok \in BOOLEAN /\ r.kv \in [Cache -> AnyKV] /\ r.pool \in AnyPool
        /\ PoolOK(r.pool) /\ Counted(r.pool, r.kv, lost)
    BY DEF Metas
  <2>3. CASE ~r.ok
    BY <2>3 DEF Turn
  <2>4. CASE r.ok
    <3> DEFINE s == Call(r.kv[c], r.pool, c)
    <3>1. r.kv[c] \in AnyKV /\ Backed(r.kv[c], r.pool)
      BY <2>1, <2>2, CountedBacked
    <3>2. Took(r.kv[c], r.pool, s)
      BY <2>2, <3>1, CallTook
    <3> HIDE DEF s
    <3>3. s.ok \in BOOLEAN /\ s.pool \in AnyPool
      BY <3>2 DEF Took
    <3>4. /\ [r.kv EXCEPT ![c] = s.kv] \in [Cache -> AnyKV]
          /\ PoolOK(s.pool) /\ Counted(s.pool, [r.kv EXCEPT ![c] = s.kv], lost)
      BY <2>1, <2>2, <3>2, CountedTook
    <3>5. Turn(r, c) = [ok |-> s.ok, kv |-> [r.kv EXCEPT ![c] = s.kv], pool |-> s.pool]
      BY <2>4 DEF Turn, s
    <3> QED BY <3>3, <3>4, <3>5 DEF Metas
  <2> QED BY <2>2, <2>3, <2>4
<1> QED BY <1>1 DEF Turns, MetaTurn

\* MetaOf is that loop.
LEMMA MetaIsLoop ==
  ASSUME JobOK, MetaBase \in Metas, NEW ms \in Seq(InJob)
  PROVE  MetaOf(ms) = FoldOf(MetaTurn, MetaBase, ms)
<1> DEFINE n == Len(ms)
           P(G) == G = [s \in SUBSET (1 .. n) |->
                          IF s = {} THEN MetaBase ELSE Turn(G[s \ {Max(s)}], ms[Max(s)])]
           H == CHOOSE G : P(G)
           v == [k \in 0 .. n |-> H[1 .. k]]
<1>0. ms \in Seq(InJob)
  OBVIOUS
<1>1. n \in Nat /\ DOMAIN ms = 1 .. n /\ \A i \in 1 .. n : ms[i] \in InJob
  BY <1>0
<1>2. MetaOf(ms) = H[1 .. n]
  BY <1>1 DEF MetaOf, FoldLeft, MapThenFoldSet, MetaBase
<1>3. Turns(MetaTurn, Metas, InJob)
  BY TurnOfMetas
<1>4. \E G : P(G)
  <2>1. PICK G : IsFold(G, MetaTurn, Metas, InJob, MetaBase, ms)
    BY <1>0, <1>3, FoldExists
  <2>2. ASSUME NEW s \in SUBSET (1 .. n), s # {}
        PROVE  G[s] = Turn(G[s \ {Max(s)}], ms[Max(s)])
    BY <2>1, <2>2 DEF MetaTurn, IsFold
  <2>3. P(G)
    BY <2>1, <2>2 DEF IsFold
  <2> QED BY <2>3
<1>5. P(H)
  BY <1>4
<1> HIDE DEF H
<1>6. v[0] = MetaBase
  <2>1. 1 .. 0 = {} /\ {} \in SUBSET (1 .. n)
    OBVIOUS
  <2> QED BY <1>1, <1>5, <2>1
<1>7. ASSUME NEW k \in 1 .. n PROVE v[k] = Turn(v[k - 1], ms[k])
  <2> HIDE DEF n
  <2> DEFINE s == 1 .. k
  <2>0. s \in SUBSET (1 .. n) /\ s # {} /\ s \ {k} = 1 .. k - 1 /\ Max(s) = k
    BY <1>1, Intervals
  <2>1. H[1 .. k] = Turn(H[1 .. k - 1], ms[k])
    <3> HIDE DEF s
    <3>1. H[s] = Turn(H[s \ {k}], ms[k])
      BY <1>5, <2>0
    <3> QED BY <3>1, <2>0 DEF s
  <2>2. k - 1 \in 0 .. n /\ k \in 0 .. n
    BY <1>1
  <2> QED BY <2>1, <2>2
<1>8. ASSUME NEW k \in 1 .. n, v[k - 1] \in Metas PROVE v[k] = MetaTurn[<<v[k - 1], ms[k]>>]
  <2> HIDE DEF v
  <2> QED BY <1>1, <1>7, <1>8 DEF MetaTurn
<1>9. v[n] = Run(MetaTurn, MetaBase, ms)[n]
  <2> HIDE DEF v
  <2>1. \A k \in 0 .. Len(ms) : v[k] \in Metas /\ v[k] = Run(MetaTurn, MetaBase, ms)[k]
    BY <1>0, <1>3, <1>6, <1>8, RunIsFold
  <2> QED BY <1>1, <2>1
<1> QED BY <1>1, <1>2, <1>9 DEF FoldOf

(* The pool and the caches between two steps of the pass. *)
PagesOK ==
  /\ PoolOK(pool) /\ kv \in [Cache -> AnyKV] /\ Counted(pool, kv, lost)
  /\ \A c \in Cache : KVOK(kv[c])
  /\ \A c \in Cache \ prefilled : kv[c].cursor = Len(kv[c].table) * BlockSize

(* The blocks a cache has now that it did not have before the layer. *)
NewPlaces(r, c) == Len(kv[c].table) + 1 .. Len(r.kv[c].table)

(* The state r of the loop when it has served the caches of D. *)
Reached(r, D) ==
  /\ r \in Metas
  /\ \A c \in Cache \ D : r.kv[c] = kv[c]
  /\ \A c \in Cache : /\ Len(kv[c].table) <= Len(r.kv[c].table)
                      /\ \A i \in 1 .. Len(kv[c].table) : r.kv[c].table[i] = kv[c].table[i]
  /\ \A b \in Block : pool.ref_cnt[b] # 0 => r.pool.ref_cnt[b] = pool.ref_cnt[b]
  /\ \A c \in Cache : \A i \in NewPlaces(r, c) :
       pool.ref_cnt[r.kv[c].table[i]] = 0 /\ r.pool.ref_cnt[r.kv[c].table[i]] = 1
  /\ r.ok => \A c \in D : KVOK(r.kv[c]) /\ r.kv[c].cursor = kv[c].cursor + Advance(c)

\* A turn serves one cache more.
LEMMA ReachedMore ==
  ASSUME BlockSize > 1, PromptLimit <= MaxSeqLen, PagesOK, JobOK,
         NEW D \in SUBSET InJob, NEW c \in InJob \ D, NEW r, Reached(r, D)
  PROVE  Reached(Turn(r, c), D \cup {c})
<1> DEFINE s  == Call(r.kv[c], r.pool, c)
           m  == Turn(r, c)
           D2 == D \cup {c}
<1>1. /\ r \in Metas
      /\ \A d \in Cache \ D : r.kv[d] = kv[d]
      /\ \A d \in Cache : /\ Len(kv[d].table) <= Len(r.kv[d].table)
                          /\ \A i \in 1 .. Len(kv[d].table) : r.kv[d].table[i] = kv[d].table[i]
      /\ \A b \in Block : pool.ref_cnt[b] # 0 => r.pool.ref_cnt[b] = pool.ref_cnt[b]
      /\ \A d \in Cache : \A i \in NewPlaces(r, d) :
           pool.ref_cnt[r.kv[d].table[i]] = 0 /\ r.pool.ref_cnt[r.kv[d].table[i]] = 1
      /\ r.ok => \A d \in D : KVOK(r.kv[d]) /\ r.kv[d].cursor = kv[d].cursor + Advance(d)
  BY DEF Reached
<1>2. /\ r.ok \in BOOLEAN /\ r.kv \in [Cache -> AnyKV] /\ r.pool \in AnyPool
      /\ PoolOK(r.pool) /\ Counted(r.pool, r.kv, lost)
  BY <1>1 DEF Metas
<1>3. c \in Cache /\ D \in SUBSET Cache
  BY DEF JobOK, InJob, ToSet
<1>4. r.kv[c] = kv[c] /\ kv[c] \in AnyKV /\ KVOK(kv[c])
  BY <1>1, <1>3 DEF PagesOK
<1>5. CASE ~r.ok
  <2>1. m = r
    BY <1>5 DEF Turn
  <2>2. Reached(r, D2)
    BY <1>1, <1>5 DEF Reached
  <2> QED BY <2>1, <2>2
<1>6. CASE r.ok
  <2>1. Backed(kv[c], r.pool)
    BY <1>2, <1>3, <1>4, CountedBacked
  <2>2. Took(kv[c], r.pool, s)
    BY <1>2, <1>4, <2>1, CallTook
  <2>3. s.ok => KVOK(s.kv) /\ s.kv.cursor = kv[c].cursor + Advance(c)
    <3>1. ASSUME job.layer = 0, ~job.is_decode
          PROVE  /\ kv[c].cursor = Len(kv[c].table) * BlockSize
                 /\ kv[c].cursor + job.len[c] <= MaxSeqLen
      <4>1. Due(c)
        BY <3>1 DEF JobOK
      <4>2. c \notin prefilled /\ kv[c].cursor + job.len[c] <= PromptLimit
        BY <3>1, <4>1 DEF Due
      <4>3. kv[c].cursor \in Nat /\ job.len[c] \in Nat /\ PromptLimit \in Int /\ PromptLimit <= MaxSeqLen
            /\ MaxSeqLen \in Nat
        BY <1>4, PagedKVCacheAssumption, MaxSeqLenAssumption DEF JobOK, AnyKV
      <4>4. kv[c].cursor + job.len[c] <= MaxSeqLen
        BY <4>2, <4>3
      <4>5. kv[c].cursor = Len(kv[c].table) * BlockSize
        BY <1>3, <4>2 DEF PagesOK
      <4> QED BY <4>4, <4>5
    <3>2. ASSUME job.layer = 0, job.is_decode PROVE job.len[c] = 1
      BY <3>2 DEF JobOK, Due
    <3>3. s.ok => KVOK(Call(kv[c], r.pool, c).kv)
                  /\ Call(kv[c], r.pool, c).kv.cursor = kv[c].cursor + Advance(c)
      <4>1. Call(kv[c], r.pool, c) = s
        BY <1>4
      <4> HIDE DEF s
      <4> QED BY <1>2, <1>4, <2>1, <3>1, <3>2, <4>1, CallTook
    <3> QED BY <1>4, <3>3
  <2> HIDE DEF s
  <2>4. m = [ok |-> s.ok, kv |-> [r.kv EXCEPT ![c] = s.kv], pool |-> s.pool]
    BY <1>6 DEF Turn, s
  <2>5. m \in Metas
    <3>1. s.ok \in BOOLEAN /\ s.pool \in AnyPool
      BY <2>2 DEF Took
    <3>2. /\ [r.kv EXCEPT ![c] = s.kv] \in [Cache -> AnyKV]
          /\ PoolOK(s.pool) /\ Counted(s.pool, [r.kv EXCEPT ![c] = s.kv], lost)
      BY <1>2, <1>3, <1>4, <2>2, CountedTook
    <3> HIDE DEF m
    <3> QED BY <2>4, <3>1, <3>2 DEF Metas
  <2>6. m.ok = s.ok /\ m.pool = s.pool /\ m.kv[c] = s.kv
        /\ \A d \in Cache : d # c => m.kv[d] = r.kv[d]
    <3> HIDE DEF m
    <3> QED BY <1>2, <1>3, <2>4
  <2> HIDE DEF m
  <2> DEFINE t == kv[c].table
             u == s.kv.table
  <2>7. PICK got \in Table :
          /\ u = t \o got
          /\ \A b \in Block : /\ Contains(got, b) => r.pool.ref_cnt[b] = 0
                              /\ m.pool.ref_cnt[b] = IF Contains(got, b) THEN 1 ELSE r.pool.ref_cnt[b]
    BY <2>2, <2>6 DEF Took
  <2>8. \A d \in Cache : kv[d].table \in Seq(Block) /\ r.kv[d].table \in Seq(Block)
    <3>1. \A k \in AnyKV : k.table \in Seq(Block)
      BY DEF AnyKV, Table
    <3> QED BY <1>2, <3>1 DEF PagesOK
  <2>9. got \in Seq(Block)
    BY DEF Table
  <2>10. t \in Seq(Block)
    BY <1>3, <2>8
  <2> HIDE DEF t, u
  <2>11. /\ Len(t) \in Nat /\ Len(got) \in Nat
         /\ Len(u) = Len(t) + Len(got)
         /\ \A i \in 1 .. Len(t) : u[i] = t[i]
         /\ \A i \in Len(t) + 1 .. Len(u) : u[i] \in Block /\ Contains(got, u[i])
    <3>1. Len(t) \in Nat /\ Len(got) \in Nat
      BY <2>9, <2>10
    <3>2. Len(u) = Len(t) + Len(got)
      BY <2>7, <2>9, <2>10, ConcatProperties
    <3>3. \A i \in 1 .. Len(t) : u[i] = t[i]
      BY <2>7, <2>9, <2>10
    <3>4. ASSUME NEW i \in Len(t) + 1 .. Len(u) PROVE u[i] \in Block /\ Contains(got, u[i])
      <4>1. i - Len(t) \in 1 .. Len(got)
        BY <3>1, <3>2
      <4>2. u[i] = got[i - Len(t)]
        BY <2>7, <2>9, <2>10, <3>1, <3>2
      <4>3. got[i - Len(t)] \in Block
        BY <2>9, <4>1
      <4> QED BY <4>1, <4>2, <4>3 DEF Contains
    <3> QED BY <3>1, <3>2, <3>3, <3>4
  <2>12. \A d \in Cache \ D2 : m.kv[d] = kv[d]
    BY <1>1, <1>3, <2>6
  <2>13. ASSUME NEW d \in Cache
         PROVE  /\ Len(kv[d].table) <= Len(m.kv[d].table)
                /\ \A i \in 1 .. Len(kv[d].table) : m.kv[d].table[i] = kv[d].table[i]
    <3>1. CASE d = c
      <4>1. kv[d].table = t /\ m.kv[d].table = u
        BY <2>6, <3>1 DEF t, u
      <4> QED BY <2>11, <4>1
    <3>2. CASE d # c
      BY <1>1, <2>6, <3>2
    <3> QED BY <3>1, <3>2
  <2>14. ASSUME NEW b \in Block, r.pool.ref_cnt[b] # 0 PROVE m.pool.ref_cnt[b] = r.pool.ref_cnt[b]
    BY <2>7, <2>14
  <2>15. \A b \in Block : pool.ref_cnt[b] # 0 => m.pool.ref_cnt[b] = pool.ref_cnt[b]
    BY <1>1, <2>14
  <2>16. ASSUME NEW d \in Cache, NEW i \in NewPlaces(m, d)
         PROVE  pool.ref_cnt[m.kv[d].table[i]] = 0 /\ m.pool.ref_cnt[m.kv[d].table[i]] = 1
    <3>1. CASE d = c
      <4>1. kv[d].table = t /\ m.kv[d].table = u
        BY <2>6, <3>1 DEF t, u
      <4>2. i \in Len(t) + 1 .. Len(u)
        BY <4>1 DEF NewPlaces
      <4>3. u[i] \in Block /\ Contains(got, u[i])
        BY <2>11, <4>2
      <4>4. r.pool.ref_cnt[u[i]] = 0 /\ m.pool.ref_cnt[u[i]] = 1
        BY <2>7, <4>3
      <4>5. pool.ref_cnt[u[i]] = 0
        BY <1>1, <4>3, <4>4
      <4> QED BY <4>1, <4>4, <4>5
    <3>2. CASE d # c
      <4>1. m.kv[d] = r.kv[d]
        BY <2>6, <3>2
      <4>2. i \in NewPlaces(r, d)
        BY <4>1 DEF NewPlaces
      <4>3. pool.ref_cnt[r.kv[d].table[i]] = 0 /\ r.pool.ref_cnt[r.kv[d].table[i]] = 1
        BY <1>1, <4>2
      <4>4. r.kv[d].table[i] \in Block
        <5> DEFINE w == r.kv[d].table
                   n == Len(kv[d].table)
        <5>1. w \in Seq(Block)
          BY <2>8
        <5>2. n \in Nat
          BY <2>8
        <5>3. i \in n + 1 .. Len(w)
          BY <4>2 DEF NewPlaces
        <5> HIDE DEF w, n
        <5>4. i \in 1 .. Len(w)
          BY <5>2, <5>3
        <5>5. w[i] \in Block
          BY <5>1, <5>4
        <5> QED BY <5>5 DEF w
      <4>5. m.pool.ref_cnt[r.kv[d].table[i]] = 1
        BY <2>14, <4>3, <4>4
      <4> QED BY <4>1, <4>3, <4>5
    <3> QED BY <3>1, <3>2
  <2>17. ASSUME m.ok, NEW d \in D2 PROVE KVOK(m.kv[d]) /\ m.kv[d].cursor = kv[d].cursor + Advance(d)
    <3>1. CASE d = c
      BY <2>3, <2>6, <2>17, <3>1
    <3>2. CASE d # c
      BY <1>1, <1>3, <1>6, <2>6, <3>2
    <3> QED BY <3>1, <3>2
  <2>18. Reached(m, D2)
    <3> HIDE DEF D2
    <3> QED BY <2>5, <2>12, <2>13, <2>15, <2>16, <2>17 DEF Reached
  <2> QED BY <2>18 DEF m
<1> QED BY <1>2, <1>5, <1>6

\* Nothing is served before the loop.
LEMMA ReachedNone ==
  ASSUME PagesOK
  PROVE  MetaBase \in Metas /\ Reached(MetaBase, {})
<1>1. MetaBase.ok \in BOOLEAN /\ MetaBase.kv = kv /\ MetaBase.pool = pool
  BY DEF MetaBase
<1>2. pool \in AnyPool
  BY DEF PagesOK, PoolOK
<1>3. MetaBase \in Metas
  BY <1>2 DEF Metas, MetaBase, PagesOK
<1>4. \A c \in Cache : kv[c].table \in Seq(Block)
  <2>1. \A k \in AnyKV : k.table \in Seq(Block)
    BY DEF AnyKV, Table
  <2> QED BY <2>1 DEF PagesOK
<1>5. \A c \in Cache : Len(kv[c].table) \in Nat
  BY <1>4
<1>6. \A c \in Cache : NewPlaces(MetaBase, c) = {}
  BY <1>1, <1>5 DEF NewPlaces
<1> HIDE DEF MetaBase
<1> QED BY <1>1, <1>3, <1>5, <1>6 DEF Reached

\* The loop serves every cache of a part of the batch, or threw at one of them.
LEMMA MetaReached ==
  ASSUME BlockSize > 1, PromptLimit <= MaxSeqLen, PagesOK, JobOK,
         NEW ms \in Seq(InJob), IsInjective(ms)
  PROVE  Reached(MetaOf(ms), ToSet(ms))
<1> DEFINE n  == Len(ms)
           v  == Run(MetaTurn, MetaBase, ms)
           D(k) == {ms[i] : i \in 1 .. k}
           S  == {k \in Nat : k <= n => Reached(v[k], D(k))}
<1>1. ms \in Seq(InJob)
  OBVIOUS
<1>2. n \in Nat /\ DOMAIN ms = 1 .. n /\ \A i \in 1 .. n : ms[i] \in InJob
  BY <1>1
<1>3. MetaBase \in Metas /\ Reached(MetaBase, {})
  BY ReachedNone
<1>4. Turns(MetaTurn, Metas, InJob)
  BY TurnOfMetas
<1>5. MetaOf(ms) = v[n]
  BY <1>3, MetaIsLoop DEF FoldOf
<1>6. D(n) = ToSet(ms)
  BY <1>2 DEF ToSet
<1>7. \A i, j \in 1 .. n : ms[i] = ms[j] => i = j
  BY <1>2 DEF IsInjective
<1>8. /\ v[0] = MetaBase
      /\ \A k \in 1 .. n : v[k] = MetaTurn[<<v[k - 1], ms[k]>>]
  BY <1>1, <1>3, <1>4, RunValue
<1> HIDE DEF v, n
<1>9. 0 \in S
  <2>1. D(0) = {}
    OBVIOUS
  <2> QED BY <1>3, <1>8, <2>1
<1>10. ASSUME NEW k \in 0 .. n - 1, k \in S PROVE k + 1 \in S
  <2>1. k + 1 \in 1 .. n /\ (k + 1) - 1 = k /\ k + 1 \in Nat /\ k <= n
    BY <1>2
  <2>2. Reached(v[k], D(k))
    BY <1>10, <2>1
  <2> DEFINE c == ms[k + 1]
  <2>3. c \in InJob
    BY <1>2, <2>1
  <2>4. \A i \in 1 .. k : i \in 1 .. n /\ i # k + 1
    BY <1>2
  <2>5. c \notin D(k) /\ D(k) \in SUBSET InJob
    BY <1>2, <1>7, <2>1, <2>4
  <2>6. D(k + 1) = D(k) \cup {c}
    <3>1. \A i \in 1 .. k + 1 : i \in 1 .. k \/ i = k + 1
      BY <2>1
    <3>2. \A i \in 1 .. k : i \in 1 .. k + 1
      BY <2>1
    <3>3. k + 1 \in 1 .. k + 1
      BY <2>1
    <3> QED BY <3>1, <3>2, <3>3
  <2>7. v[k + 1] = MetaTurn[<<v[k], c>>]
    BY <1>8, <2>1
  <2> HIDE DEF c, D
  <2>8. v[k] \in Metas
    BY <2>2 DEF Reached
  <2>9. v[k + 1] = Turn(v[k], c)
    BY <2>3, <2>7, <2>8 DEF MetaTurn
  <2>10. Reached(Turn(v[k], c), D(k) \cup {c})
    BY <2>2, <2>3, <2>5, ReachedMore
  <2> QED BY <2>1, <2>6, <2>9, <2>10
<1> HIDE DEF S
<1>11. \A k \in 0 .. n : k \in S
  BY <1>2, <1>9, <1>10, BoundedInduction
<1>12. Reached(v[n], D(n))
  <2>1. n \in S /\ n <= n
    BY <1>2, <1>11
  <2> QED BY <2>1 DEF S
<1> QED BY <1>5, <1>6, <1>12

\* The whole batch is a part of it.
LEMMA LayerReached ==
  ASSUME BlockSize > 1, PromptLimit <= MaxSeqLen, PagesOK, JobOK
  PROVE  Reached(LayerMeta, InJob)
<1> DEFINE ms == job.members
<1>1. ms \in Seq(Cache) /\ IsInjective(ms)
  BY DEF JobOK
<1>2. ToSet(ms) = InJob
  BY DEF InJob
<1>3. LayerMeta = MetaOf(ms)
  BY DEF LayerMeta
<1> HIDE DEF ms
<1>4. ms \in Seq(InJob)
  <2>1. ms \in [1 .. Len(ms) -> Cache] /\ Len(ms) \in Nat
    BY <1>1
  <2>2. ms \in [1 .. Len(ms) -> InJob]
    BY <1>2, <2>1 DEF ToSet
  <2> QED BY <2>1, <2>2
<1> QED BY <1>1, <1>2, <1>3, <1>4, MetaReached

-----------------------------------------------------------------------------
(* The inductive invariant.                                                *)

Token == Cache \X Int

(* The tokens of the pass under way that only some layers have. *)
Pending(c) == IF c \in InJob /\ job.layer > 0 THEN job.len[c] ELSE 0

(* A cache stands for as many tokens as its cursor says. *)
TextsOK ==
  /\ text \in [Cache -> Seq(Token)]
  /\ \A c \in Cache : Len(text[c]) = kv[c].cursor /\ 0 <= Pending(c) /\ Pending(c) <= kv[c].cursor

(* A block that two tables hold is full of tokens that all layers have. *)
SharedAreFull ==
  \A c, d \in Cache : c # d =>
    \A i \in 1 .. Len(kv[c].table) :
      Contains(kv[d].table, kv[c].table[i]) => i * BlockSize <= kv[c].cursor - Pending(c)

SlotsOK == slots = [l \in Layer |-> [i \in PoolSlot |-> slots[l][i]]]

(* Each failure of the device loses one block at most. *)
LostOK == lost \in SUBSET Block /\ failures \in Nat /\ Cardinality(lost) <= failures

IInv ==
  /\ PagesOK
  /\ LostOK
  /\ job = NoJob \/ JobOK
  /\ TextsOK
  /\ SharedAreFull
  /\ SlotsOK
  /\ ReadsOwnTokens

\* A slot is in the block of its position, at the position's offset.
LEMMA SlotParts ==
  ASSUME NEW t \in Block, NEW pos \in Nat
  PROVE  /\ t * BlockSize + (pos % BlockSize) \in PoolSlot
         /\ (t * BlockSize + (pos % BlockSize)) \div BlockSize = t
         /\ (t * BlockSize + (pos % BlockSize)) % BlockSize = pos % BlockSize
<1> DEFINE B == BlockSize
           o == pos % B
           s == t * B + o
<1>1. B \in Nat /\ B >= 1 /\ t \in Nat /\ t + 1 <= NumBlocks /\ NumBlocks \in Nat
  BY BlockSizeAssumption, NumBlocksAssumption DEF Block
<1>2. o \in Nat /\ o < B
  <2> HIDE DEF B
  <2> QED BY <1>1
<1> HIDE DEF o
<1>3. t * B \in Nat /\ t * B + B <= NumBlocks * B /\ NumBlocks * B \in Nat
  <2> HIDE DEF B
  <2>1. t * B \in Nat /\ NumBlocks * B \in Nat
    BY <1>1
  <2>2. (t + 1) * B = t * B + B
    BY <1>1
  <2>3. (t + 1) * B <= NumBlocks * B
    BY <1>1
  <2> QED BY <2>1, <2>2, <2>3
<1>4. s \in Nat /\ t * B <= s /\ s < t * B + B /\ s <= NumBlocks * B - 1
  <2> HIDE DEF B
  <2> DEFINE x == t * B
             y == NumBlocks * B
  <2>1. x \in Nat /\ x + B <= y /\ y \in Nat
    BY <1>3
  <2> HIDE DEF x, y
  <2>2. x + o \in Nat /\ x <= x + o /\ x + o < x + B /\ x + o <= y - 1
    BY <1>1, <1>2, <2>1
  <2> QED BY <2>2 DEF x, y
<1>5. s \div B = t
  <2> HIDE DEF B, s
  <2> QED BY <1>1, <1>4
<1>6. s % B = s - t * B
  <2>1. s % B = s - (s \div B) * B
    <3> HIDE DEF B, s
    <3> QED BY <1>1, <1>4
  <2> QED BY <1>5, <2>1
<1>7. s % B = o
  <2> DEFINE x == t * B
  <2>1. x \in Nat /\ s = x + o /\ s % B = s - x
    BY <1>3, <1>6
  <2> HIDE DEF x, s
  <2> QED BY <1>2, <2>1
<1> QED BY <1>4, <1>5, <1>7 DEF PoolSlot, o

\* Positions and the blocks they are in.
LEMMA PositionParts ==
  ASSUME NEW pos \in Nat
  PROVE  /\ pos \div BlockSize \in Nat
         /\ pos < (pos \div BlockSize + 1) * BlockSize
         /\ \A m \in Nat : pos < m * BlockSize => pos \div BlockSize < m
         /\ \A other \in Nat : other \div BlockSize = pos \div BlockSize
                               /\ other % BlockSize = pos % BlockSize => other = pos
<1> DEFINE B == BlockSize
           q == pos \div B
<1>1. B \in Nat /\ B >= 1
  BY BlockSizeAssumption
<1> HIDE DEF B
<1>2. \A n \in Nat : /\ n \div B \in Nat /\ (n \div B) * B \in Nat
                     /\ (n \div B) * B <= n /\ n < (n \div B) * B + B
                     /\ (n % B) = n - ((n \div B) * B)
  BY <1>1
<1>3. q \in Nat /\ q * B <= pos /\ pos < q * B + B
  BY <1>2
<1> HIDE DEF q
<1>4. (q + 1) * B = q * B + B
  BY <1>1, <1>3
<1>5. ASSUME NEW m \in Nat, pos < m * B PROVE q < m
  <2> SUFFICES ASSUME m <= q PROVE FALSE
    BY <1>3
  <2>1. m * B <= q * B /\ m * B \in Nat /\ q * B \in Nat
    BY <1>1, <1>3
  <2> QED BY <1>3, <1>5, <2>1
<1>6. ASSUME NEW other \in Nat, other \div B = pos \div B, other % B = pos % B
      PROVE  other = pos
  <2>1. (other % B) = other - ((other \div B) * B) /\ (pos % B) = pos - ((pos \div B) * B)
        /\ (pos \div B) * B \in Nat
    BY <1>2
  <2>2. other - ((pos \div B) * B) = pos - ((pos \div B) * B)
    BY <1>6, <2>1
  <2> DEFINE x == (pos \div B) * B
  <2>3. x \in Nat /\ other - x = pos - x
    BY <2>1, <2>2
  <2> HIDE DEF x
  <2> QED BY <2>3
<1> QED BY <1>3, <1>4, <1>5, <1>6 DEF q, B

\* Between calls a cache has a block for every position it stands for.
LEMMA HasItsSlots ==
  ASSUME NEW k, KVOK(k), NEW pos \in Nat, pos < k.cursor
  PROVE  /\ HasSlot(k, pos)
         /\ pos \div BlockSize + 1 \in 1 .. Len(k.table)
         /\ k.table[pos \div BlockSize + 1] \in Block
         /\ Slot(k, pos) \in PoolSlot
         /\ Slot(k, pos) \div BlockSize = k.table[pos \div BlockSize + 1]
         /\ Slot(k, pos) % BlockSize = pos % BlockSize
<1>1. k.cursor \in Nat /\ k.table \in Seq(Block) /\ Len(k.table) = BlocksNeeded(k.cursor)
  BY DEF KVOK, AnyKV, Table, TableCoversCursor
<1> DEFINE n == Len(k.table)
           i == pos \div BlockSize + 1
<1>2. n \in Nat /\ k.cursor <= n * BlockSize
  BY <1>1, Ceil
<1>3. pos < n * BlockSize
  <2> DEFINE x == n * BlockSize
  <2>1. x \in Int
    BY <1>2, Apart
  <2>2. k.cursor <= x
    BY <1>2
  <2> HIDE DEF x
  <2>3. pos < x
    BY <1>1, <2>1, <2>2
  <2> QED BY <2>3 DEF x
<1> HIDE DEF n
<1>4. pos \div BlockSize \in Nat /\ pos \div BlockSize < n
  BY <1>2, <1>3, PositionParts
<1>5. i \in 1 .. n
  BY <1>2, <1>4
<1>6. k.table[i] \in Block
  <2> DEFINE t == k.table
  <2>1. t \in Seq(Block)
    BY <1>1
  <2>2. i \in 1 .. Len(t)
    BY <1>5 DEF n
  <2> HIDE DEF t, i
  <2>3. t[i] \in Block
    BY <2>1, <2>2
  <2> QED BY <2>3 DEF t
<1> DEFINE b == k.table[i]
<1>7. Slot(k, pos) = b * BlockSize + (pos % BlockSize)
  BY DEF Slot
<1> HIDE DEF b, i
<1>8. /\ b * BlockSize + (pos % BlockSize) \in PoolSlot
      /\ (b * BlockSize + (pos % BlockSize)) \div BlockSize = b
      /\ (b * BlockSize + (pos % BlockSize)) % BlockSize = pos % BlockSize
  <2>1. b \in Block
    BY <1>6 DEF b
  <2> QED BY <2>1, SlotParts
<1> QED BY <1>4, <1>5, <1>6, <1>7, <1>8 DEF HasSlot, n, b, i

\* Two positions of a cache have two slots.
LEMMA SlotsDiffer ==
  ASSUME NEW k, KVOK(k), NEW x \in Nat, x < k.cursor, NEW y \in Nat, y < k.cursor,
         Slot(k, x) = Slot(k, y)
  PROVE  x = y
<1> DEFINE t == k.table
           i == x \div BlockSize + 1
           j == y \div BlockSize + 1
<1>1. i \in 1 .. Len(t) /\ j \in 1 .. Len(t) /\ t[i] = t[j] /\ x % BlockSize = y % BlockSize
  BY HasItsSlots
<1>2. NoDuplicates(t)
  BY DEF KVOK, AnyKV, Table
<1> HIDE DEF t, i, j
<1>3. i = j
  BY <1>1, <1>2 DEF NoDuplicates
<1>4. x \div BlockSize \in Nat /\ y \div BlockSize \in Nat
  BY PositionParts
<1>5. x \div BlockSize = y \div BlockSize
  BY <1>3, <1>4 DEF i, j
<1> QED BY <1>1, <1>5, PositionParts

\* NoJob has no members, a pass has some.
LEMMA JobOrNone ==
  /\ job = NoJob => InJob = {}
  /\ JobOK => job # NoJob /\ InJob # {} /\ InJob \in SUBSET Cache
<1>1. ASSUME job = NoJob PROVE InJob = {}
  <2>1. job.members = <<>>
    BY <1>1 DEF NoJob
  <2>2. DOMAIN <<>> = {}
    OBVIOUS
  <2> QED BY <2>1, <2>2 DEF InJob, ToSet
<1>2. ASSUME JobOK PROVE job # NoJob /\ InJob # {} /\ InJob \in SUBSET Cache
  <2> DEFINE ms == job.members
  <2>1. ms # <<>>
    BY <1>2 DEF JobOK
  <2>2. ms \in Seq(Cache)
    BY <1>2 DEF JobOK
  <2>3. job # NoJob
    BY <2>1 DEF NoJob
  <2> HIDE DEF ms
  <2>4. 1 \in DOMAIN ms /\ \A i \in DOMAIN ms : ms[i] \in Cache
    BY <2>1, <2>2
  <2> QED BY <2>3, <2>4 DEF InJob, ToSet, ms
<1> QED BY <1>1, <1>2

\* What the invariant says of the counts and of the blocks a table holds.
LEMMA OneHolder ==
  ASSUME NEW p, NEW kvs \in [Cache -> AnyKV], NEW L, Counted(p, kvs, L), NEW c \in Cache,
         NEW b \in Block, Contains(kvs[c].table, b)
  PROVE  /\ p.ref_cnt[b] # 0
         /\ p.ref_cnt[b] = 1 <=> \A d \in Cache : Contains(kvs[d].table, b) => d = c
<1> DEFINE H == Holders(kvs, b)
<1>0. H \in SUBSET Cache /\ c \in H
  BY DEF Holders
<1>1. H \in SUBSET Cache /\ c \in H /\ p.ref_cnt[b] = Cardinality(H)
  <2>1. b \notin L
    BY <1>0 DEF Counted
  <2>2. p.ref_cnt[b] = Cardinality(H) + 0
    BY <2>1 DEF Counted, Extra
  <2>3. Cardinality(H) \in Nat
    BY <1>0, Counting
  <2> HIDE DEF H
  <2> QED BY <1>0, <2>2, <2>3
<1>2. \A d \in Cache : d \in H <=> Contains(kvs[d].table, b)
  BY DEF Holders
<1> HIDE DEF H
<1>3. Cardinality(H) \in Nat /\ Cardinality(H) # 0
  BY <1>1, Counting
<1>4. Cardinality(H \ {c}) = Cardinality(H) - 1
  BY <1>1, Counting
<1>5. H \ {c} \in SUBSET Cache
  BY <1>1
<1> DEFINE R == H \ {c}
<1>6. Cardinality(R) = 0 <=> R = {}
  <2> HIDE DEF R
  <2>1. R \in SUBSET Cache
    BY <1>5 DEF R
  <2> QED BY <2>1, Counting
<1>7. Cardinality(H) = 1 <=> R = {}
  BY <1>3, <1>4, <1>6
<1>8. R = {} <=> \A d \in Cache : Contains(kvs[d].table, b) => d = c
  BY <1>1, <1>2
<1> QED BY <1>1, <1>3, <1>7, <1>8

\* The same, each way.
LEMMA OnlyHolder ==
  ASSUME NEW p, NEW kvs \in [Cache -> AnyKV], NEW L, Counted(p, kvs, L), NEW c \in Cache,
         NEW b \in Block, Contains(kvs[c].table, b), p.ref_cnt[b] = 1,
         NEW d \in Cache, Contains(kvs[d].table, b)
  PROVE  d = c
<1>1. p.ref_cnt[b] = 1 <=> \A e \in Cache : Contains(kvs[e].table, b) => e = c
  BY OneHolder, Zenon
<1> QED BY <1>1

LEMMA SoleHolder ==
  ASSUME NEW p, NEW kvs \in [Cache -> AnyKV], NEW L, Counted(p, kvs, L), NEW c \in Cache,
         NEW b \in Block, Contains(kvs[c].table, b),
         \A d \in Cache : Contains(kvs[d].table, b) => d = c
  PROVE  p.ref_cnt[b] = 1
<1> DEFINE H == Holders(kvs, b)
<1>1. H = {c}
  BY DEF Holders
<1>2. b \notin L
  BY <1>1 DEF Counted
<1>3. p.ref_cnt[b] = Cardinality(H) + 0
  BY <1>2 DEF Counted, Extra
<1> HIDE DEF H
<1>4. Cardinality(H) = 1
  BY <1>1, FS_Singleton
<1> QED BY <1>3, <1>4

\* The invariant has the properties the runs check.
LEMMA IInvTables ==
  ASSUME IInv
  PROVE  TablesExact
<1>1. PoolOK(pool) /\ kv \in [Cache -> AnyKV] /\ Counted(pool, kv, lost)
      /\ \A c \in Cache : KVOK(kv[c])
  BY DEF IInv, PagesOK
<1>2. pool \in PoolType
  <2>1. pool.num_allocated \in Nat /\ pool \in AnyPool
    BY <1>1, AllocatedCount DEF PoolOK
  <2> QED BY <2>1 DEF AnyPool, PoolType
<1>3. ASSUME NEW c \in Cache PROVE kv[c].cursor \in 0 .. MaxSeqLen /\ ToSet(kv[c].table) \subseteq Block
  <2>1. KVOK(kv[c]) /\ MaxSeqLen \in Nat
    BY <1>1, MaxSeqLenAssumption
  <2>2. kv[c].cursor \in Nat /\ kv[c].cursor <= MaxSeqLen
    BY <2>1 DEF KVOK, AnyKV
  <2>3. kv[c].table \in Seq(Block)
    BY <2>1 DEF KVOK, AnyKV, Table
  <2>4. ToSet(kv[c].table) \subseteq Block
    BY <2>3 DEF ToSet
  <2> QED BY <2>1, <2>2, <2>4
<1>4. DOMAIN slots = Layer
  BY DEF IInv, SlotsOK
<1>5. TypeOK
  BY <1>2, <1>3, <1>4 DEF TypeOK
<1>6. TablesCoverCursors
  BY <1>1 DEF TablesCoverCursors, KVOK
<1>7. DeviceCopiesExact
  BY <1>1, DeviceInStep DEF DeviceCopiesExact
<1>8. RefCntExact
  BY <1>1 DEF RefCntExact, Counted, Holders, Extra, IInv, LostOK
<1> QED BY <1>5, <1>6, <1>7, <1>8 DEF TablesExact

\* A block that holds a token of the pass under way has one holder.
LEMMA IInvWrites ==
  ASSUME IInv
  PROVE  WritesExclusive
<1> SUFFICES ASSUME job # NoJob, job.layer > 0, NEW c \in InJob,
                    NEW pos \in LastPositions(kv[c], job.len[c])
             PROVE  HasSlot(kv[c], pos) /\ pool.ref_cnt[Slot(kv[c], pos) \div BlockSize] = 1
  BY DEF WritesExclusive
<1>1. JobOK /\ kv \in [Cache -> AnyKV] /\ Counted(pool, kv, lost)
  BY DEF IInv, PagesOK
<1>2. c \in Cache
  BY <1>1, JobOrNone
<1>3. KVOK(kv[c]) /\ kv[c].cursor \in Nat
  BY <1>2 DEF IInv, PagesOK, KVOK, AnyKV
<1>4. Pending(c) = job.len[c] /\ job.len[c] \in Nat /\ Pending(c) <= kv[c].cursor
  BY <1>1, <1>2 DEF Pending, JobOK, IInv, TextsOK
<1>5. pos \in Nat /\ pos < kv[c].cursor /\ pos >= kv[c].cursor - Pending(c)
  BY <1>3, <1>4 DEF LastPositions
<1> DEFINE i == pos \div BlockSize + 1
           b == kv[c].table[i]
<1>6. /\ HasSlot(kv[c], pos) /\ i \in 1 .. Len(kv[c].table) /\ b \in Block
      /\ Slot(kv[c], pos) \div BlockSize = b
  BY <1>3, <1>5, HasItsSlots
<1>7. pos < i * BlockSize /\ i * BlockSize \in Int
  <2>1. pos \div BlockSize \in Nat /\ pos < (pos \div BlockSize + 1) * BlockSize
    BY <1>5, PositionParts
  <2>2. i \in Int
    BY <2>1
  <2> HIDE DEF i
  <2>3. i * BlockSize \in Int
    BY <2>2, Apart
  <2> QED BY <2>1, <2>3 DEF i
<1> HIDE DEF i
<1>8. ~(i * BlockSize <= kv[c].cursor - Pending(c))
  <2> DEFINE x == i * BlockSize
             y == kv[c].cursor - Pending(c)
  <2>1. x \in Int /\ pos < x
    BY <1>7
  <2>2. y \in Int /\ pos >= y
    BY <1>3, <1>4, <1>5
  <2> HIDE DEF x, y
  <2> QED BY <1>5, <2>1, <2>2 DEF x, y
<1>9. ASSUME NEW d \in Cache, Contains(kv[d].table, b) PROVE d = c
  BY <1>2, <1>6, <1>8, <1>9 DEF IInv, SharedAreFull
<1>10. Contains(kv[c].table, b)
  BY <1>6 DEF Contains
<1>11. pool.ref_cnt[b] = 1
  <2> HIDE DEF b
  <2>1. \A d \in Cache : Contains(kv[d].table, b) => d = c
    BY <1>9
  <2>2. b \in Block
    BY <1>6
  <2> QED BY <1>1, <1>2, <1>10, <2>1, <2>2, SoleHolder
<1> QED BY <1>6, <1>11

\* A fresh cache is in order.
LEMMA FreshOK ==
  /\ KVOK(FreshKV) /\ FreshKV.cursor = 0 /\ FreshKV.table = <<>>
  /\ Len(FreshKV.table) = 0 /\ FreshKV.cursor = Len(FreshKV.table) * BlockSize
  /\ \A b \in Block : ~Contains(FreshKV.table, b)
<1> DEFINE none == <<>>
<1>1. FreshKV.cursor = 0 /\ FreshKV.table = none /\ FreshKV.device = none /\ FreshKV.adopted = FALSE
  BY DEF FreshKV
<1>2. none \in Seq(Cell) /\ Len(none) = 0
  OBVIOUS
<1>3. none \in Table /\ \A b \in Block : ~Contains(none, b)
  BY NoTable
<1>4. FreshKV = [cursor |-> 0, table |-> none, device |-> none, adopted |-> FALSE]
  BY DEF FreshKV
<1> HIDE DEF none
<1>5. FreshKV \in AnyKV
  <2>1. FreshKV \in [cursor : Nat, table : Table, device : Seq(Cell), adopted : BOOLEAN]
    BY <1>2, <1>3, <1>4
  <2>2. FreshKV.table = <<>>
    BY <1>1 DEF none
  <2> QED BY <2>1, <2>2 DEF AnyKV
<1>6. 0 * BlockSize = 0
  BY BlockSizeAssumption
<1>7. KVOK(FreshKV)
  BY <1>1, <1>2, <1>5, CeilMonotone, MaxSeqLenAssumption DEF KVOK, TableCoversCursor
<1> QED BY <1>1, <1>2, <1>3, <1>6, <1>7 DEF none

\* Fresh caches on a fresh pool satisfy the invariant.
LEMMA InitInv == Init => IInv
<1> SUFFICES ASSUME Init PROVE IInv
  OBVIOUS
<1> USE DEF Init
<1>1. PagesOK
  <2>1. PoolOK(pool)
    BY Pool0OK
  <2>2. kv \in [Cache -> AnyKV] /\ \A c \in Cache : kv[c] = FreshKV
    BY FreshOK DEF KVOK
  <2>3. ASSUME NEW b \in Block
        PROVE  pool.ref_cnt[b] = Cardinality(Holders(kv, b)) + Extra(b, lost) /\ b \notin lost
    <3>1. Holders(kv, b) = {}
      BY <2>2, FreshOK DEF Holders
    <3>2. pool.ref_cnt[b] = 0
      BY DEF Pool0
    <3>3. Cardinality(Holders(kv, b)) = 0
      BY <3>1, FS_EmptySet
    <3>4. Extra(b, lost) = 0 /\ b \notin lost
      BY DEF Extra
    <3> QED BY <3>2, <3>3, <3>4
  <2> QED BY <2>1, <2>2, <2>3, FreshOK DEF PagesOK, Counted
<1>2. \A c \in Cache : Pending(c) = 0
  BY JobOrNone DEF Pending
<1>3. TextsOK
  <2>1. \A c \in Cache : text[c] = <<>> /\ kv[c].cursor = 0
    BY FreshOK
  <2>2. <<>> \in Seq(Token) /\ Len(<<>>) = 0
    OBVIOUS
  <2>3. text \in [Cache -> Seq(Token)]
    BY <2>2
  <2> QED BY <1>2, <2>1, <2>2, <2>3 DEF TextsOK
<1>4. SharedAreFull
  BY FreshOK DEF SharedAreFull
<1>5. SlotsOK
  <2>1. slots = [l \in Layer |-> [i \in PoolSlot |-> Junk]]
    OBVIOUS
  <2> HIDE DEF Init
  <2> QED BY <2>1 DEF SlotsOK
<1>6. ReadsOwnTokens
  <2>1. \A c \in Cache : Len(text[c]) = 0
    OBVIOUS
  <2>2. 0 .. 0 - 1 = {}
    OBVIOUS
  <2> QED BY <2>1, <2>2 DEF ReadsOwnTokens
<1>7. LostOK
  <2>1. lost = {} /\ failures = 0
    OBVIOUS
  <2> QED BY <2>1, FS_EmptySet DEF LostOK
<1> QED BY <1>1, <1>3, <1>4, <1>5, <1>6, <1>7 DEF IInv

-----------------------------------------------------------------------------
(* Every step keeps the invariant.                                         *)

\* Between passes nothing is pending.
LEMMA NothingPending ==
  /\ job = NoJob => \A c : Pending(c) = 0
  /\ job' = NoJob => InJob' = {} /\ \A c : Pending(c)' = 0
<1>1. job = NoJob => \A c : Pending(c) = 0
  BY JobOrNone DEF Pending
<1>2. ASSUME job' = NoJob PROVE InJob' = {} /\ \A c : Pending(c)' = 0
  <2>1. job'.members = <<>>
    BY <1>2 DEF NoJob
  <2>2. DOMAIN <<>> = {}
    OBVIOUS
  <2>3. InJob' = {}
    BY <2>1, <2>2 DEF InJob, ToSet
  <2> QED BY <2>3 DEF Pending
<1> QED BY <1>1, <1>2

\* Freeing and resetting the caches of a batch, whatever a call that threw
\* has made of them.
LEMMA FreeAndResetInv ==
  ASSUME IInv, NEW ms \in Seq(Cache), IsInjective(ms), InJob \subseteq ToSet(ms),
         NEW p, PoolOK(p), NEW kvs \in [Cache -> AnyKV], Counted(p, kvs, lost'),
         \A c \in Cache \ ToSet(ms) : kvs[c] = kv[c], LostOK',
         FreeAndReset(ms, p, kvs), job' = NoJob
  PROVE  IInv'
<1> DEFINE Gone  == ToSet(ms)
           ids   == FlattenSeq([i \in DOMAIN ms |-> kvs[ms[i]].table])
           freed == Free(p, ids).pool
           k2    == ResetAll(kvs, ms)
<1>1. /\ pool' = freed
      /\ kv' = k2
      /\ text' = [c \in Cache |-> IF c \in Gone THEN <<>> ELSE text[c]]
      /\ slots' = Reclaimed(freed, slots)
      /\ prefilled' = prefilled \ Gone
  BY DEF FreeAndReset, ResetAll
<1>2. PoolOK(freed) /\ Counted(freed, k2, lost')
  <2> HIDE DEF ids
  <2>1. ids = FlattenSeq([i \in DOMAIN ms |-> kvs[ms[i]].table])
    BY DEF ids
  <2> QED BY <2>1, FreeBatch
<1> HIDE DEF freed
<1>3. ASSUME NEW c \in Cache
      PROVE  /\ c \in Gone => kv'[c] = FreshKV
             /\ c \notin Gone => kv'[c] = kv[c]
  BY <1>1 DEF ResetAll, Reset
<1>4. k2 \in [Cache -> AnyKV]
  BY FreshOK DEF ResetAll, Reset, KVOK
<1> HIDE DEF k2
<1>5. PagesOK'
  <2>1. \A c \in Cache : KVOK(kv[c]) /\ (c \notin prefilled => kv[c].cursor = Len(kv[c].table) * BlockSize)
    BY DEF IInv, PagesOK
  <2>2. ASSUME NEW c \in Cache
        PROVE  KVOK(kv'[c]) /\ (c \notin prefilled' => kv'[c].cursor = Len(kv'[c].table) * BlockSize)
    BY <1>1, <1>3, <2>1, FreshOK
  <2> QED BY <1>1, <1>2, <1>4, <2>2 DEF PagesOK
<1>6. InJob' = {} /\ \A c \in Cache : Pending(c)' = 0
  BY NothingPending
<1>7. TextsOK'
  <2>1. text \in [Cache -> Seq(Token)]
    BY DEF IInv, TextsOK
  <2>2. <<>> \in Seq(Token) /\ Len(<<>>) = 0
    OBVIOUS
  <2>3. text' \in [Cache -> Seq(Token)]
    BY <1>1, <2>1, <2>2
  <2>4. ASSUME NEW c \in Cache PROVE Len(text'[c]) = kv'[c].cursor
    <3>1. CASE c \in Gone
      BY <1>1, <1>3, <2>2, <3>1, FreshOK
    <3>2. CASE c \notin Gone
      BY <1>1, <1>3, <3>2 DEF IInv, TextsOK
    <3> QED BY <3>1, <3>2
  <2>5. \A c \in Cache : kv'[c].cursor \in Nat
    BY <1>1, <1>4 DEF AnyKV
  <2> QED BY <1>6, <2>3, <2>4, <2>5 DEF TextsOK
<1>8. \A c \in Cache : c \notin Gone => Pending(c) = 0
  BY DEF Pending
<1>9. SharedAreFull'
  <2> SUFFICES ASSUME NEW c \in Cache, NEW d \in Cache, c # d, NEW i \in 1 .. Len(kv'[c].table),
                      Contains(kv'[d].table, kv'[c].table[i])
               PROVE  i * BlockSize <= kv'[c].cursor - Pending(c)'
    BY DEF SharedAreFull
  <2>1. c \notin Gone
    <3> SUFFICES ASSUME c \in Gone PROVE FALSE
      OBVIOUS
    <3>1. Len(kv'[c].table) = 0
      BY <1>3, FreshOK
    <3> QED BY <3>1
  <2>2. d \notin Gone
    <3> SUFFICES ASSUME d \in Gone PROVE FALSE
      OBVIOUS
    <3>1. kv'[d].table = <<>>
      BY <1>3, FreshOK
    <3>2. Len(<<>>) = 0
      OBVIOUS
    <3> QED BY <3>1, <3>2 DEF Contains
  <2>3. kv'[c] = kv[c] /\ kv'[d] = kv[d]
    BY <1>3, <2>1, <2>2
  <2>4. i * BlockSize <= kv[c].cursor - Pending(c)
    BY <2>3 DEF IInv, SharedAreFull
  <2> QED BY <1>6, <1>8, <2>1, <2>3, <2>4
<1>10. SlotsOK'
  <2>1. slots' = [l \in Layer |-> [i \in PoolSlot |->
                    IF freed.ref_cnt[i \div BlockSize] = 0 THEN Junk ELSE slots[l][i]]]
    BY <1>1 DEF Reclaimed
  <2> QED BY <2>1 DEF SlotsOK
<1>11. ReadsOwnTokens'
  <2> SUFFICES ASSUME NEW c \in Cache, NEW l \in Layer, NEW pos \in 0 .. Len(text'[c]) - 1
               PROVE  HasSlot(kv'[c], pos) /\ slots'[l][Slot(kv'[c], pos)] = text'[c][pos + 1]
    BY DEF ReadsOwnTokens
  <2>1. c \notin Gone
    <3> SUFFICES ASSUME c \in Gone PROVE FALSE
      OBVIOUS
    <3>1. text'[c] = <<>>
      BY <1>1
    <3>2. Len(<<>>) = 0
      OBVIOUS
    <3> QED BY <3>1, <3>2
  <2>2. kv'[c] = kv[c] /\ text'[c] = text[c] /\ c \notin InJob
    BY <1>1, <1>3, <2>1
  <2>3. HasSlot(kv[c], pos) /\ slots[l][Slot(kv[c], pos)] = text[c][pos + 1]
    BY <2>2 DEF IInv, ReadsOwnTokens
  <2>4. KVOK(kv[c]) /\ Len(text[c]) = kv[c].cursor /\ kv[c].cursor \in Nat
    BY DEF IInv, PagesOK, TextsOK, KVOK, AnyKV
  <2>5. pos \in Nat /\ pos < kv[c].cursor
    BY <2>2, <2>4
  <2> DEFINE s == Slot(kv[c], pos)
             b == kv[c].table[pos \div BlockSize + 1]
  <2>6. s \in PoolSlot /\ s \div BlockSize = b /\ b \in Block /\ Contains(kv[c].table, b)
    BY <2>4, <2>5, HasItsSlots DEF Contains
  <2> HIDE DEF s, b
  <2>7. freed.ref_cnt[b] # 0
    <3>1. k2[c] = kv[c]
      BY <1>1, <2>2
    <3>2. Contains(k2[c].table, b)
      BY <2>6, <3>1
    <3> QED BY <1>2, <1>4, <2>6, <3>2, OneHolder
  <2>8. slots'[l][s] = slots[l][s]
    BY <1>1, <2>6, <2>7 DEF Reclaimed
  <2> QED BY <2>2, <2>3, <2>8 DEF s
<1> QED BY <1>5, <1>7, <1>9, <1>10, <1>11 DEF IInv

\* Releasing one cache keeps it.
LEMMA ReleaseInv ==
  ASSUME IInv, NEW c \in Cache, Release(c)
  PROVE  IInv'
<1> DEFINE ms == <<c>>
<1>1. job = NoJob /\ job' = NoJob /\ FreeAndReset(ms, pool, kv) /\ UNCHANGED <<lost, failures>>
  BY DEF Release
<1>2. ms \in Seq(Cache) /\ IsInjective(ms)
  BY DEF IsInjective
<1>3. InJob \subseteq ToSet(ms)
  BY <1>1, JobOrNone
<1>4. PoolOK(pool) /\ kv \in [Cache -> AnyKV] /\ Counted(pool, kv, lost') /\ LostOK'
  BY <1>1 DEF IInv, PagesOK, LostOK
<1> HIDE DEF ms
<1> QED BY <1>1, <1>2, <1>3, <1>4, FreeAndResetInv

\* A pass begins within the contract.
LEMMA StartInv ==
  ASSUME IInv, NEW api \in Apis, NEW ms \in Batches, NEW is_decode \in BOOLEAN,
         NEW len \in [ToSet(ms) -> IF is_decode THEN {1} ELSE 1 .. PromptLimit],
         Start(api, ms, len, is_decode)
  PROVE  IInv'
<1>1. /\ job = NoJob
      /\ job' = [members |-> ms, api |-> api, len |-> len, is_decode |-> is_decode, layer |-> 0]
      /\ UNCHANGED <<pool, kv, prefilled, text, slots, lost, failures>>
      /\ \A c \in ToSet(ms) : ~is_decode => c \notin prefilled /\ Len(text[c]) + len[c] <= PromptLimit
  BY DEF Start
<1>2. /\ job'.members = ms /\ job'.len = len /\ job'.is_decode = is_decode /\ job'.layer = 0
      /\ job'.api = api
  BY <1>1
<1>3. PICK n \in 1 .. Cardinality(Cache) : ms \in [1 .. n -> Cache] /\ IsInjective(ms)
  BY DEF Batches
<1>4. n \in Nat \ {0}
  <2>1. Cardinality(Cache) \in Nat
    BY PagedKVCacheAssumption, FS_CardinalityType, Zenon
  <2> QED BY <2>1
<1>5. ms \in Seq(Cache) /\ ms # <<>>
  BY <1>3, <1>4
<1>6. InJob' = ToSet(ms) /\ ToSet(ms) \subseteq Cache
  BY <1>2, <1>3 DEF InJob, ToSet
<1>7. \A c \in ToSet(ms) : len[c] \in Nat \ {0} /\ (is_decode => len[c] = 1)
  BY PagedKVCacheAssumption, MaxSeqLenAssumption
<1>8. JobOK'
  <2>1. job' = [members |-> job'.members, api |-> job'.api, len |-> job'.len,
                is_decode |-> job'.is_decode, layer |-> job'.layer]
    BY <1>1
  <2>2. 0 \in Layer
    BY PagedKVCacheAssumption DEF Layer
  <2>3. \A c \in ToSet(ms) : Len(text[c]) = kv[c].cursor
    BY <1>6 DEF IInv, TextsOK
  <2>4. \A c \in InJob' : Due(c)'
    BY <1>1, <1>2, <1>6, <1>7, <2>3 DEF Due
  <2> QED BY <1>2, <1>3, <1>5, <1>6, <1>7, <2>1, <2>2, <2>4 DEF JobOK
<1>9. \A c \in Cache : Pending(c) = 0 /\ Pending(c)' = 0
  BY <1>1, <1>2, NothingPending DEF Pending
<1>10. PagesOK' /\ SlotsOK' /\ LostOK'
  BY <1>1 DEF IInv, PagesOK, SlotsOK, LostOK
<1>11. TextsOK' /\ SharedAreFull'
  BY <1>1, <1>9 DEF IInv, TextsOK, SharedAreFull
<1>12. ReadsOwnTokens'
  BY <1>1, <1>2, JobOrNone DEF IInv, ReadsOwnTokens
<1> QED BY <1>8, <1>10, <1>11, <1>12 DEF IInv

\* Adopting a prefix shares only full blocks, whose tokens every layer has.
LEMMA AdoptInv ==
  ASSUME PromptLimit <= MaxSeqLen, IInv,
         NEW c \in Cache, NEW d \in Cache, NEW n \in 1 .. NumBlocks, Adopt(c, d, n)
  PROVE  IInv'
<1> DEFINE t   == kv[d].table
           pre == SubSeq(t, 1, n)
           q   == Ref(pool, pre).pool
           m   == n * BlockSize
           k   == [cursor |-> m, table |-> pre, device |-> NewDevice(pre), adopted |-> TRUE]
<1>1. /\ job = NoJob /\ kv[c] = FreshKV /\ m <= kv[d].cursor /\ m < PromptLimit
      /\ UNCHANGED <<prefilled, job, slots, lost, failures>>
  BY DEF Adopt
<1>2. /\ PoolOK(pool) /\ kv \in [Cache -> AnyKV] /\ Counted(pool, kv, lost)
      /\ \A x \in Cache : KVOK(kv[x])
      /\ \A x \in Cache \ prefilled : kv[x].cursor = Len(kv[x].table) * BlockSize
  BY DEF IInv, PagesOK
<1>3. n \in Nat /\ n >= 1 /\ m \in Nat /\ m >= 1 /\ kv[d].cursor \in Nat /\ kv[d].cursor <= MaxSeqLen
      /\ m < MaxSeqLen /\ MaxSeqLen \in Nat
  <2>1. kv[d].cursor \in Nat /\ kv[d].cursor <= MaxSeqLen
    BY <1>2 DEF KVOK, AnyKV
  <2>2. n \in Nat /\ n >= 1
    BY NumBlocksAssumption
  <2>3. m \in Nat /\ m >= 1
    BY <2>2, BlockSizeAssumption
  <2> HIDE DEF m
  <2> QED BY <1>1, <2>1, <2>2, <2>3, PagedKVCacheAssumption, MaxSeqLenAssumption
<1>4. c # d
  BY <1>1, <1>3, FreshOK
<1>5. BlocksNeeded(m) = n
  <2>1. m + 0 = m
    BY <1>3
  <2>2. BlocksNeeded(m + 0) = n + BlocksNeeded(0)
    BY <1>3, CeilSum
  <2> HIDE DEF m
  <2> QED BY <1>3, <2>1, <2>2, CeilMonotone
<1> HIDE DEF m
<1>6. t \in Table /\ n <= Len(t) /\ Len(t) \in Nat
  <2>1. t \in Table /\ Len(t) = BlocksNeeded(kv[d].cursor)
    BY <1>2 DEF KVOK, AnyKV, TableCoversCursor
  <2>2. BlocksNeeded(m) <= BlocksNeeded(kv[d].cursor)
    BY <1>1, <1>3, CeilMonotone
  <2> HIDE DEF t
  <2>3. t \in Seq(Block)
    BY <2>1 DEF Table
  <2>4. Len(t) \in Nat
    BY <2>3
  <2> QED BY <1>5, <2>1, <2>2, <2>4
<1>7. /\ pre \in Seq(Block) /\ Len(pre) = n
      /\ \A i \in 1 .. n : i \in 1 .. Len(t) /\ pre[i] = t[i]
  <2>1. t \in Seq(Block)
    BY <1>6 DEF Table
  <2> HIDE DEF t
  <2> QED BY <1>3, <1>6, <2>1
<1> HIDE DEF t
<1>8. pre \in Table /\ pre # <<>> /\ \A b \in Block : Contains(pre, b) => Contains(t, b)
  <2> HIDE DEF pre
  <2>1. NoDuplicates(pre)
    BY <1>6, <1>7 DEF Table, NoDuplicates
  <2>2. pre # <<>>
    BY <1>3, <1>7
  <2> QED BY <1>7, <2>1, <2>2 DEF Table, Contains
<1> HIDE DEF pre
<1>9. \A b \in Block : Contains(pre, b) => pool.ref_cnt[b] >= 1
  BY <1>2, <1>8, CountedBacked DEF Backed, t
<1>10. /\ PoolOK(q)
       /\ \A b \in Block : q.ref_cnt[b] = IF Contains(pre, b) THEN pool.ref_cnt[b] + 1 ELSE pool.ref_cnt[b]
       /\ Fork(pool, pre).pool = q /\ Fork(pool, pre).ids = pre
  BY <1>2, <1>8, <1>9, RefTable, ForkTable
<1>11. AdoptPrefix(kv[c], q, pre) = Stored(k, q)
  <2>1. kv[c].cursor = 0 /\ kv[c].table = <<>> /\ kv[c].device = <<>>
    BY <1>1 DEF FreshKV
  <2>2. Len(pre) * BlockSize = m /\ ~(m >= MaxSeqLen)
    BY <1>3, <1>7 DEF m
  <2> QED BY <1>8, <2>1, <2>2 DEF AdoptPrefix, HasDevice
<1>12. /\ kv' = [kv EXCEPT ![c] = k]
       /\ pool' = q
       /\ text' = [text EXCEPT ![c] = SubSeq(text[d], 1, m)]
  <2>1. LET f == Fork(pool, pre)
            a == AdoptPrefix(kv[c], f.pool, f.ids)
        IN  /\ kv'   = [kv EXCEPT ![c] = a.kv]
            /\ pool' = a.pool
            /\ text' = [text EXCEPT ![c] = SubSeq(text[d], 1, m)]
    BY DEF Adopt, m, pre, t
  <2> HIDE DEF k, q
  <2>2. Stored(k, q).kv = k /\ Stored(k, q).pool = q
    BY DEF Stored
  <2> QED BY <1>10, <1>11, <2>1, <2>2
<1> HIDE DEF q
<1>13. k.cursor = m /\ k.table = pre /\ k.device = NewDevice(pre) /\ k.adopted = TRUE
  OBVIOUS
<1>14. k \in AnyKV
  <2>1. NewDevice(pre) \in Seq(Cell)
    BY <1>7, NewDeviceOK
  <2>2. k \in [cursor : Nat, table : Table, device : Seq(Cell), adopted : BOOLEAN]
    BY <1>3, <1>8, <2>1
  <2> HIDE DEF k
  <2> QED BY <1>3, <1>13, <2>2 DEF AnyKV
<1> HIDE DEF k
<1>15. KVOK(k)
  <2>1. TableCoversCursor(k)
    BY <1>5, <1>7, <1>13 DEF TableCoversCursor
  <2>2. Len(pre) <= BlocksNeeded(MaxSeqLen)
    BY <1>3, <1>5, <1>7, CeilMonotone
  <2>3. Synced(k)
    BY <1>7, <1>13, <2>2, NewDeviceOK DEF Synced
  <2> QED BY <1>3, <1>13, <1>14, <2>1, <2>3 DEF KVOK
<1>16. /\ kv' \in [Cache -> AnyKV]
       /\ kv'[c] = k
       /\ \A x \in Cache : x # c => kv'[x] = kv[x]
  BY <1>2, <1>12, <1>14
<1>17. Counted(pool', kv', lost')
  <2> SUFFICES ASSUME NEW b \in Block
               PROVE  /\ q.ref_cnt[b] = Cardinality(Holders(kv', b)) + Extra(b, lost)
                      /\ b \in lost => Holders(kv', b) = {}
    BY <1>1, <1>12 DEF Counted
  <2> DEFINE H == Holders(kv, b)
  <2>1. /\ pool.ref_cnt[b] = Cardinality(H) + Extra(b, lost) /\ H \in SUBSET Cache
        /\ b \in lost => H = {}
    BY <1>2 DEF Counted, Holders
  <2>5. Extra(b, lost) \in Nat /\ Cardinality(H) \in Nat
    BY <2>1, Counting DEF Extra
  <2>2. ~Contains(kv[c].table, b)
    BY <1>1, FreshOK
  <2>3. CASE Contains(pre, b)
    <3>1. Holders(kv', b) = H \cup {c} /\ c \notin H
      BY <1>13, <1>16, <2>2, <2>3 DEF Holders
    <3>2. d \in H
      BY <1>8, <2>3 DEF Holders, t
    <3> HIDE DEF H
    <3>3. b \notin lost
      BY <2>1, <3>2
    <3>4. Cardinality(H \cup {c}) = Cardinality(H) + 1
      BY <2>1, <3>1, Counting
    <3>5. q.ref_cnt[b] = pool.ref_cnt[b] + 1
      BY <1>10, <2>3
    <3> QED BY <2>1, <2>5, <3>1, <3>3, <3>4, <3>5
  <2>4. CASE ~Contains(pre, b)
    <3>1. Holders(kv', b) = H
      BY <1>13, <1>16, <2>2, <2>4 DEF Holders
    <3> QED BY <1>10, <2>1, <2>4, <3>1
  <2> QED BY <2>3, <2>4
<1>18. PagesOK'
  <2>1. \A x \in Cache : KVOK(kv'[x])
    BY <1>2, <1>15, <1>16
  <2>2. \A x \in Cache \ prefilled' : kv'[x].cursor = Len(kv'[x].table) * BlockSize
    BY <1>1, <1>2, <1>7, <1>13, <1>16 DEF m
  <2> QED BY <1>10, <1>12, <1>16, <1>17, <2>1, <2>2 DEF PagesOK
<1>19. InJob = {} /\ InJob' = {} /\ \A x \in Cache : Pending(x) = 0 /\ Pending(x)' = 0
  BY <1>1, NothingPending, JobOrNone
<1>20. /\ text' \in [Cache -> Seq(Token)]
       /\ Len(text'[c]) = m
       /\ \A i \in 1 .. m : text'[c][i] = text[d][i]
       /\ \A x \in Cache : x # c => text'[x] = text[x]
  <2>1. text \in [Cache -> Seq(Token)] /\ Len(text[d]) = kv[d].cursor
    BY DEF IInv, TextsOK
  <2> DEFINE s == text[d]
             u == SubSeq(s, 1, m)
  <2>2. s \in Seq(Token) /\ m <= Len(s)
    BY <1>1, <2>1
  <2> HIDE DEF s
  <2>3. u \in Seq(Token) /\ Len(u) = m /\ \A i \in 1 .. m : u[i] = s[i]
    BY <1>3, <2>2
  <2>4. text' = [text EXCEPT ![c] = u]
    BY <1>12 DEF s
  <2> HIDE DEF u
  <2> QED BY <2>1, <2>3, <2>4 DEF s
<1>21. TextsOK'
  <2>1. ASSUME NEW x \in Cache PROVE Len(text'[x]) = kv'[x].cursor /\ kv'[x].cursor \in Nat
    <3>1. CASE x = c
      BY <1>3, <1>13, <1>16, <1>20, <3>1
    <3>2. CASE x # c
      BY <1>2, <1>16, <1>20, <3>2 DEF IInv, TextsOK, AnyKV
    <3> QED BY <3>1, <3>2
  <2> QED BY <1>19, <1>20, <2>1 DEF TextsOK
<1>22. SharedAreFull'
  <2> SUFFICES ASSUME NEW x \in Cache, NEW y \in Cache, x # y, NEW i \in 1 .. Len(kv'[x].table),
                      Contains(kv'[y].table, kv'[x].table[i])
               PROVE  i * BlockSize <= kv'[x].cursor
    <3>1. \A x \in Cache : kv'[x].cursor \in Nat
      BY <1>16 DEF AnyKV
    <3>2. \A x \in Cache : kv'[x].cursor - Pending(x)' = kv'[x].cursor
      BY <1>19, <3>1
    <3> QED BY <3>2 DEF SharedAreFull
  <2>1. \A v \in Cache : kv[v].cursor \in Nat /\ kv[v].cursor - Pending(v) = kv[v].cursor
    BY <1>2, <1>19 DEF AnyKV
  <2>2. ASSUME NEW v \in Cache, NEW w \in Cache, v # w, NEW j \in 1 .. Len(kv[v].table),
               Contains(kv[w].table, kv[v].table[j])
        PROVE  j * BlockSize <= kv[v].cursor
    BY <2>1, <2>2 DEF IInv, SharedAreFull
  <2>3. ASSUME NEW j \in 1 .. n PROVE j * BlockSize <= m
    <3>1. j \in Int /\ n \in Int /\ j <= n
      BY <1>3
    <3>2. j * BlockSize \in Int /\ (j < n => j * BlockSize + BlockSize <= m)
      BY <3>1, Apart DEF m
    <3>3. j = n => j * BlockSize = m
      BY DEF m
    <3> DEFINE z == j * BlockSize
    <3> HIDE DEF z
    <3>4. z \in Int /\ (j < n => z + BlockSize <= m) /\ (j = n => z = m)
      BY <3>2, <3>3 DEF z
    <3>5. z <= m
      BY <1>3, <3>1, <3>4, BlockSizeAssumption
    <3> QED BY <3>5 DEF z
  <2>4. CASE x = c
    BY <1>7, <1>13, <1>16, <2>3, <2>4
  <2>5. CASE x # c /\ y = c
    <3>1. kv'[x] = kv[x] /\ Contains(pre, kv[x].table[i]) /\ i \in 1 .. Len(kv[x].table)
      BY <1>13, <1>16, <2>5
    <3>2. kv[x].table[i] \in Block
      <4> DEFINE s == kv[x].table
      <4>1. s \in Seq(Block) /\ i \in 1 .. Len(s)
        BY <1>2, <3>1 DEF AnyKV, Table
      <4> HIDE DEF s
      <4>2. s[i] \in Block
        BY <4>1
      <4> QED BY <4>2 DEF s
    <3>3. CASE x # d
      BY <1>8, <2>2, <3>1, <3>2, <3>3 DEF t
    <3>4. CASE x = d
      <4>1. PICK j \in 1 .. n : pre[j] = t[i]
        BY <1>7, <3>1, <3>4 DEF Contains, t
      <4>2. t[j] = t[i] /\ j \in 1 .. Len(t) /\ i \in 1 .. Len(t)
        BY <1>7, <3>1, <3>4, <4>1 DEF t
      <4>3. i = j
        BY <1>6, <4>2 DEF Table, NoDuplicates
      <4>4. i * BlockSize <= m /\ i * BlockSize \in Int
        BY <1>3, <2>3, <4>3, BlockSizeAssumption
      <4> DEFINE z == i * BlockSize
      <4>5. z \in Int /\ z <= m
        BY <4>4
      <4> HIDE DEF z
      <4>6. z <= kv[d].cursor
        BY <1>1, <1>3, <4>5
      <4> QED BY <3>1, <3>4, <4>6 DEF z
    <3> QED BY <3>3, <3>4
  <2>6. CASE x # c /\ y # c
    BY <1>16, <2>2, <2>6
  <2> QED BY <2>4, <2>5, <2>6
<1>23. SlotsOK'
  BY <1>1 DEF IInv, SlotsOK
<1>24. ReadsOwnTokens'
  <2> SUFFICES ASSUME NEW x \in Cache, NEW l \in Layer, NEW pos \in 0 .. Len(text'[x]) - 1
               PROVE  HasSlot(kv'[x], pos) /\ slots[l][Slot(kv'[x], pos)] = text'[x][pos + 1]
    BY <1>1 DEF ReadsOwnTokens
  <2>1. ASSUME NEW v \in Cache, NEW o \in 0 .. Len(text[v]) - 1
        PROVE  HasSlot(kv[v], o) /\ slots[l][Slot(kv[v], o)] = text[v][o + 1]
    BY <1>19 DEF IInv, ReadsOwnTokens
  <2>2. CASE x # c
    BY <1>16, <1>20, <2>1, <2>2
  <2>3. CASE x = c
    <3>1. pos \in Nat /\ pos < m /\ pos \in 0 .. Len(text[d]) - 1 /\ pos + 1 \in 1 .. m
          /\ pos < kv[d].cursor
      <4>1. Len(text[d]) = kv[d].cursor /\ pos \in 0 .. m - 1
        BY <1>20, <2>3 DEF IInv, TextsOK
      <4> QED BY <1>1, <1>3, <4>1
    <3>2. pos \div BlockSize < n /\ pos \div BlockSize \in Nat
      BY <1>3, <3>1, PositionParts DEF m
    <3> DEFINE i == pos \div BlockSize + 1
    <3>3. i \in 1 .. n
      BY <1>3, <3>2
    <3>4. Slot(k, pos) = Slot(kv[d], pos)
      BY <1>7, <1>13, <3>3 DEF Slot, t
    <3>5. HasSlot(k, pos)
      BY <1>7, <1>13, <3>2 DEF HasSlot
    <3>6. slots[l][Slot(kv[d], pos)] = text[d][pos + 1]
      BY <2>1, <3>1
    <3>7. text'[c][pos + 1] = text[d][pos + 1]
      BY <1>20, <3>1
    <3> QED BY <1>16, <2>3, <3>4, <3>5, <3>6, <3>7
  <2> QED BY <2>2, <2>3
<1>25. job' = NoJob
  BY <1>1
<1>26. LostOK'
  BY <1>1 DEF IInv, LostOK
<1> QED BY <1>18, <1>21, <1>22, <1>23, <1>24, <1>25, <1>26 DEF IInv

(* What a layer that completes does to the caches. *)
Moved ==
  /\ PagesOK'
  /\ \A c \in Cache : kv'[c].cursor = kv[c].cursor + (IF c \in InJob THEN Advance(c) ELSE 0)
  /\ \A c \in Cache : \A i \in 1 .. Len(kv[c].table) :
       i \in 1 .. Len(kv'[c].table) /\ kv'[c].table[i] = kv[c].table[i]
  /\ \A c, d \in Cache : c # d =>
       \A i \in 1 .. Len(kv'[c].table) :
         Contains(kv'[d].table, kv'[c].table[i]) => i * BlockSize <= kv[c].cursor - Pending(c)

\* A layer that completes takes blocks nobody has for the tokens of the pass.
LEMMA LayerMoves ==
  ASSUME BlockSize > 1, PromptLimit <= MaxSeqLen, IInv, JobOK, LayerMeta.ok,
         pool' = LayerMeta.pool, kv' = LayerMeta.kv, prefilled' = prefilled \cup InJob, lost' = lost
  PROVE  Moved
<1> DEFINE r == LayerMeta
<1>1. Reached(r, InJob)
  BY LayerReached DEF IInv
<1>2. pool' = r.pool /\ kv' = r.kv /\ r.ok
  OBVIOUS
<1> HIDE DEF r
<1>3. /\ PoolOK(pool) /\ kv \in [Cache -> AnyKV] /\ Counted(pool, kv, lost)
      /\ \A c \in Cache : KVOK(kv[c])
      /\ \A c \in Cache \ prefilled : kv[c].cursor = Len(kv[c].table) * BlockSize
  BY DEF IInv, PagesOK
<1>4. PoolOK(pool') /\ kv' \in [Cache -> AnyKV] /\ Counted(pool', kv', lost')
  BY <1>1, <1>2 DEF Reached, Metas
<1>5. \A c \in Cache \ InJob : kv'[c] = kv[c]
  BY <1>1, <1>2 DEF Reached
<1>6. \A c \in InJob : KVOK(kv'[c]) /\ kv'[c].cursor = kv[c].cursor + Advance(c)
  BY <1>1, <1>2 DEF Reached
<1>7. /\ \A c \in Cache : /\ Len(kv[c].table) <= Len(kv'[c].table)
                          /\ \A i \in 1 .. Len(kv[c].table) : kv'[c].table[i] = kv[c].table[i]
      /\ \A c \in Cache : \A i \in Len(kv[c].table) + 1 .. Len(kv'[c].table) :
           pool.ref_cnt[kv'[c].table[i]] = 0 /\ pool'.ref_cnt[kv'[c].table[i]] = 1
  BY <1>1, <1>2 DEF Reached, NewPlaces
<1>8. \A c \in Cache : /\ Len(kv[c].table) \in Nat /\ Len(kv'[c].table) \in Nat
                       /\ kv[c].cursor \in Nat
                       /\ \A i \in 1 .. Len(kv'[c].table) : kv'[c].table[i] \in Block
  <2> TAKE c \in Cache
  <2> DEFINE t == kv[c].table
             u == kv'[c].table
  <2>1. t \in Seq(Block)
    BY <1>3 DEF AnyKV, Table
  <2>2. u \in Seq(Block)
    BY <1>4 DEF AnyKV, Table
  <2>3. kv[c].cursor \in Nat
    BY <1>3 DEF AnyKV
  <2> HIDE DEF t, u
  <2>4. Len(t) \in Nat /\ Len(u) \in Nat /\ \A i \in 1 .. Len(u) : u[i] \in Block
    BY <2>1, <2>2
  <2> QED BY <2>3, <2>4 DEF t, u
<1>9. PagesOK'
  <2>1. \A c \in Cache : KVOK(kv'[c])
    BY <1>3, <1>5, <1>6
  <2>2. \A c \in Cache \ prefilled' : kv'[c].cursor = Len(kv'[c].table) * BlockSize
    BY <1>3, <1>5
  <2> QED BY <1>4, <2>1, <2>2 DEF PagesOK
<1>10. \A c \in Cache : kv'[c].cursor = kv[c].cursor + (IF c \in InJob THEN Advance(c) ELSE 0)
  BY <1>5, <1>6, <1>8
<1>11. \A c \in Cache : \A i \in 1 .. Len(kv[c].table) :
         i \in 1 .. Len(kv'[c].table) /\ kv'[c].table[i] = kv[c].table[i]
  BY <1>7, <1>8
<1>12. ASSUME NEW c \in Cache, NEW d \in Cache, c # d, NEW i \in 1 .. Len(kv'[c].table),
              Contains(kv'[d].table, kv'[c].table[i])
       PROVE  i * BlockSize <= kv[c].cursor - Pending(c)
  <2> DEFINE b == kv'[c].table[i]
  <2>1. b \in Block /\ Contains(kv'[c].table, b) /\ Contains(kv'[d].table, b)
    BY <1>8, <1>12 DEF Contains
  <2>2. i \in 1 .. Len(kv[c].table)
    <3> SUFFICES ASSUME i \in Len(kv[c].table) + 1 .. Len(kv'[c].table) PROVE FALSE
      BY <1>8
    <3>1. pool'.ref_cnt[b] = 1
      BY <1>7
    <3> HIDE DEF b
    <3>2. d = c
      BY <1>4, <2>1, <3>1, OnlyHolder
    <3> QED BY <1>12, <3>2
  <2>3. b = kv[c].table[i] /\ Contains(kv[c].table, b)
    BY <1>7, <2>2 DEF Contains
  <2>4. pool.ref_cnt[b] # 0
    <3> HIDE DEF b
    <3> QED BY <1>3, <2>1, <2>3, OneHolder
  <2>5. PICK j \in 1 .. Len(kv'[d].table) : kv'[d].table[j] = b
    BY <2>1 DEF Contains
  <2>6. j \in 1 .. Len(kv[d].table)
    <3> SUFFICES ASSUME j \in Len(kv[d].table) + 1 .. Len(kv'[d].table) PROVE FALSE
      BY <1>8
    <3>1. \A e \in Cache : \A p \in Len(kv[e].table) + 1 .. Len(kv'[e].table) :
            pool.ref_cnt[kv'[e].table[p]] = 0
      BY <1>7
    <3>2. pool.ref_cnt[kv'[d].table[j]] = 0
      BY <3>1
    <3> HIDE DEF b
    <3> QED BY <2>4, <2>5, <3>2
  <2>7. Contains(kv[d].table, kv[c].table[i])
    BY <1>7, <2>3, <2>5, <2>6 DEF Contains
  <2> QED BY <1>12, <2>2, <2>7 DEF IInv, SharedAreFull
<1> QED BY <1>9, <1>10, <1>11, <1>12 DEF Moved

(* The pass goes on to its next layer, or ends. *)
NextLayer ==
  job' = IF job.layer + 1 = NumLayers THEN NoJob ELSE [job EXCEPT !.layer = @ + 1]

\* What the next layer finds: the same pass, its tokens pending.
LEMMA NextLayerJob ==
  ASSUME JobOK, NextLayer
  PROVE  /\ job' = NoJob \/ JobOK'
         /\ job.layer + 1 = NumLayers => job' = NoJob /\ \A c : Pending(c)' = 0
         /\ job.layer + 1 # NumLayers =>
              /\ job' # NoJob /\ job'.layer = job.layer + 1 /\ job'.len = job.len
              /\ InJob' = InJob
              /\ \A c : Pending(c)' = IF c \in InJob THEN job.len[c] ELSE 0
<1>1. /\ job = [members |-> job.members, api |-> job.api, len |-> job.len,
                is_decode |-> job.is_decode, layer |-> job.layer]
      /\ job.members \in Seq(Cache) /\ job.members # <<>> /\ IsInjective(job.members)
      /\ \A c \in InJob : job.len[c] \in Nat \ {0}
      /\ job.is_decode \in BOOLEAN /\ job.layer \in Layer
  BY DEF JobOK
<1>2. job.layer \in Nat /\ job.layer < NumLayers /\ NumLayers \in Nat
  BY <1>1, PagedKVCacheAssumption DEF Layer
<1>3. CASE job.layer + 1 = NumLayers
  <2>1. job' = NoJob
    BY <1>3 DEF NextLayer
  <2> QED BY <1>3, <2>1, NothingPending
<1>4. CASE job.layer + 1 # NumLayers
  <2>1. job' = [members |-> job.members, api |-> job.api, len |-> job.len,
                is_decode |-> job.is_decode, layer |-> job.layer + 1]
    <3>1. job' = [job EXCEPT !.layer = @ + 1]
      BY <1>4 DEF NextLayer
    <3> DEFINE m == job.members
               a == job.api
               e == job.len
               i == job.is_decode
               y == job.layer
               j == job
    <3>2. j = [members |-> m, api |-> a, len |-> e, is_decode |-> i, layer |-> y]
      BY <1>1
    <3>3. job' = [j EXCEPT !.layer = @ + 1]
      BY <3>1
    <3> HIDE DEF j, m, a, e, i, y
    <3>4. job' = [members |-> m, api |-> a, len |-> e, is_decode |-> i, layer |-> y + 1]
      BY <3>2, <3>3
    <3> QED BY <3>4 DEF m, a, e, i, y
  <2>2. /\ job'.members = job.members /\ job'.api = job.api /\ job'.len = job.len
        /\ job'.is_decode = job.is_decode /\ job'.layer = job.layer + 1
    BY <2>1
  <2>3. job'.layer \in Layer /\ job'.layer > 0
    BY <1>2, <1>4, <2>2 DEF Layer
  <2>4. InJob' = InJob
    BY <2>2 DEF InJob
  <2>5. JobOK'
    <3>1. job' = [members |-> job'.members, api |-> job'.api, len |-> job'.len,
                  is_decode |-> job'.is_decode, layer |-> job'.layer]
      BY <2>1, <2>2
    <3>2. job'.layer # 0
      BY <1>2, <2>2
    <3> QED BY <1>1, <2>2, <2>3, <2>4, <3>1, <3>2 DEF JobOK
  <2>6. job' # NoJob
    BY <1>1, <2>2 DEF NoJob
  <2>7. \A c : Pending(c)' = IF c \in InJob THEN job.len[c] ELSE 0
    BY <2>2, <2>3, <2>4 DEF Pending
  <2> QED BY <1>4, <2>2, <2>4, <2>5, <2>6, <2>7
<1> QED BY <1>3, <1>4

(* The tokens of the pass are the last of a cache of the batch. *)
PassPositions(c) == LastPositions(kv'[c], job.len[c])

\* The cursors around a layer: what was behind the tokens of the pass before
\* it is behind them after it.
LEMMA LayerCursors ==
  ASSUME IInv, JobOK, Moved, NextLayer, NEW c \in Cache
  PROVE  /\ kv[c].cursor \in Nat /\ kv'[c].cursor \in Nat /\ Pending(c) \in Nat /\ Pending(c)' \in Nat
         /\ KVOK(kv[c]) /\ KVOK(kv'[c])
         /\ kv[c].cursor - Pending(c) <= kv'[c].cursor - Pending(c)'
         /\ Pending(c)' <= kv'[c].cursor
         /\ c \notin InJob => kv'[c].cursor = kv[c].cursor
         /\ c \in InJob => /\ job.len[c] \in Nat \ {0}
                           /\ kv[c].cursor - Pending(c) = kv'[c].cursor - job.len[c]
                           /\ job.len[c] <= kv'[c].cursor
                           /\ job.layer = 0 => kv'[c].cursor = kv[c].cursor + job.len[c]
                           /\ job.layer > 0 => kv'[c].cursor = kv[c].cursor
<1>1. KVOK(kv[c]) /\ KVOK(kv'[c]) /\ kv[c].cursor \in Nat /\ kv'[c].cursor \in Nat
  BY DEF IInv, Moved, PagesOK, AnyKV
<1>2. kv'[c].cursor = kv[c].cursor + (IF c \in InJob THEN Advance(c) ELSE 0)
  BY DEF Moved
<1>3. c \in InJob => job.len[c] \in Nat \ {0}
  BY DEF JobOK
<1>4. job.layer \in Nat
  BY PagedKVCacheAssumption DEF JobOK, Layer
<1>5. Pending(c) <= kv[c].cursor
  BY DEF IInv, TextsOK
<1>6. Pending(c)' = 0 \/ (c \in InJob /\ Pending(c)' = job.len[c])
  BY NextLayerJob
<1>7. CASE c \notin InJob
  <2>1. kv'[c].cursor = kv[c].cursor /\ Pending(c) = 0 /\ Pending(c)' = 0
    BY <1>1, <1>2, <1>6, <1>7 DEF Pending
  <2> QED BY <1>1, <1>7, <2>1
<1>8. CASE c \in InJob /\ job.layer = 0
  <2>1. kv'[c].cursor = kv[c].cursor + job.len[c] /\ Pending(c) = 0
    BY <1>2, <1>8 DEF Advance, Pending
  <2> QED BY <1>1, <1>3, <1>6, <1>8, <2>1
<1>9. CASE c \in InJob /\ job.layer # 0
  <2>1. kv'[c].cursor = kv[c].cursor /\ Pending(c) = job.len[c]
    BY <1>1, <1>2, <1>4, <1>9 DEF Advance, Pending
  <2> QED BY <1>1, <1>3, <1>5, <1>6, <1>9, <2>1
<1> QED BY <1>7, <1>8, <1>9

\* The texts grow by the tokens of the pass, at layer 0.
LEMMA LayerTexts ==
  ASSUME IInv, JobOK, Moved, NextLayer, NEW r, text' = [c \in Cache |-> Extended(c, r)]
  PROVE  /\ TextsOK'
         /\ \A c \in Cache : \A i \in 1 .. Len(text[c]) : text'[c][i] = text[c][i]
<1>1. text \in [Cache -> Seq(Token)] /\ \A c \in Cache : Len(text[c]) = kv[c].cursor
  BY DEF IInv, TextsOK
<1>2. ASSUME NEW c \in Cache
      PROVE  /\ text'[c] \in Seq(Token) /\ Len(text'[c]) = kv'[c].cursor
             /\ \A i \in 1 .. Len(text[c]) : text'[c][i] = text[c][i]
  <2>1. text'[c] = Extended(c, r)
    OBVIOUS
  <2>2. CASE c \in InJob /\ job.layer = 0
    <3> DEFINE t == text[c]
               n == job.len[c]
               s == [i \in 1 .. n |-> <<c, Len(t) + i>>]
    <3>1. n \in Nat /\ kv'[c].cursor = kv[c].cursor + n
      BY <2>2, LayerCursors
    <3>2. t \in Seq(Token) /\ Len(t) = kv[c].cursor
      BY <1>1
    <3>3. text'[c] = t \o s
      BY <2>1, <2>2 DEF Extended
    <3> HIDE DEF t, n
    <3>4. Len(t) \in Nat
      BY <3>2
    <3>5. \A i \in 1 .. n : <<c, Len(t) + i>> \in Token
      BY <3>1, <3>4 DEF Token
    <3>6. s \in Seq(Token) /\ Len(s) = n
      BY <3>1, <3>5, IsASeq
    <3> HIDE DEF s
    <3>7. t \o s \in Seq(Token)
      BY <3>2, <3>6
    <3>8. Len(t \o s) = Len(t) + Len(s)
      BY <3>2, <3>6, ConcatProperties
    <3>9. \A i \in 1 .. Len(t) : (t \o s)[i] = t[i]
      BY <3>2, <3>6
    <3>10. \A i \in 1 .. Len(t) : text'[c][i] = t[i]
      BY <3>3, <3>9
    <3>11. text'[c] \in Seq(Token) /\ Len(text'[c]) = kv'[c].cursor
      BY <3>1, <3>2, <3>3, <3>6, <3>7, <3>8
    <3> QED BY <3>10, <3>11 DEF t
  <2>3. CASE ~(c \in InJob /\ job.layer = 0)
    <3>1. text'[c] = text[c]
      BY <2>1, <2>3 DEF Extended
    <3>2. job.layer \in Nat
      BY PagedKVCacheAssumption DEF JobOK, Layer
    <3>3. kv'[c].cursor = kv[c].cursor
      BY <2>3, <3>2, LayerCursors
    <3> QED BY <1>1, <3>1, <3>3
  <2> QED BY <2>2, <2>3
<1>3. text' \in [Cache -> Seq(Token)]
  BY <1>2
<1>4. \A c \in Cache : 0 <= Pending(c)' /\ Pending(c)' <= kv'[c].cursor
  BY LayerCursors
<1> QED BY <1>2, <1>3, <1>4 DEF TextsOK

\* What is shared stays full of tokens that all layers have.
LEMMA LayerShares ==
  ASSUME IInv, JobOK, Moved, NextLayer
  PROVE  SharedAreFull'
<1> SUFFICES ASSUME NEW c \in Cache, NEW d \in Cache, c # d, NEW i \in 1 .. Len(kv'[c].table),
                    Contains(kv'[d].table, kv'[c].table[i])
             PROVE  i * BlockSize <= kv'[c].cursor - Pending(c)'
  BY DEF SharedAreFull
<1> DEFINE z == i * BlockSize
           x == kv[c].cursor - Pending(c)
           y == kv'[c].cursor - Pending(c)'
<1>1. z <= x
  BY DEF Moved
<1>2. x <= y /\ x \in Int /\ y \in Int
  BY LayerCursors
<1>3. z \in Int
  <2>1. i \in Int
    OBVIOUS
  <2> QED BY <2>1, BlockSizeAssumption
<1> HIDE DEF x, y, z
<1>4. z <= y
  BY <1>1, <1>2, <1>3
<1> QED BY <1>4 DEF y, z

\* A slot that the pass writes is the slot of no other token.
LEMMA LayerSlots ==
  ASSUME IInv, JobOK, Moved, NextLayer,
         NEW x \in InJob, NEW p \in PassPositions(x), NEW c \in Cache, NEW pos \in Nat, pos < kv'[c].cursor,
         Slot(kv'[x], p) = Slot(kv'[c], pos)
  PROVE  x = c /\ p = pos
<1>1. x \in Cache
  BY JobOrNone
<1>2. /\ KVOK(kv'[x]) /\ KVOK(kv'[c]) /\ kv'[x].cursor \in Nat
      /\ job.len[x] \in Nat /\ job.len[x] <= kv'[x].cursor
      /\ kv[x].cursor - Pending(x) = kv'[x].cursor - job.len[x]
  BY <1>1, LayerCursors
<1>3. p \in Nat /\ p < kv'[x].cursor /\ kv'[x].cursor - job.len[x] <= p
  BY <1>2 DEF PassPositions, LastPositions
<1>4. CASE x = c
  BY <1>2, <1>3, <1>4, SlotsDiffer
<1>5. CASE x # c
  <2> DEFINE i == p \div BlockSize + 1
             j == pos \div BlockSize + 1
  <2>1. /\ i \in 1 .. Len(kv'[x].table) /\ Slot(kv'[x], p) \div BlockSize = kv'[x].table[i]
        /\ j \in 1 .. Len(kv'[c].table) /\ Slot(kv'[c], pos) \div BlockSize = kv'[c].table[j]
    BY <1>2, <1>3, HasItsSlots
  <2>2. p < i * BlockSize
    BY <1>3, PositionParts
  <2> HIDE DEF i, j
  <2>3. Contains(kv'[c].table, kv'[x].table[i])
    BY <2>1 DEF Contains
  <2>4. i * BlockSize <= kv'[x].cursor - job.len[x]
    BY <1>1, <1>2, <1>5, <2>1, <2>3 DEF Moved
  <2> DEFINE z == i * BlockSize
             y == kv'[x].cursor - job.len[x]
  <2>5. z \in Int
    <3>1. i \in Int
      BY <2>1
    <3> QED BY <3>1, BlockSizeAssumption
  <2>6. y \in Int /\ y <= p /\ p < z /\ z <= y
    BY <1>2, <1>3, <2>2, <2>4
  <2> HIDE DEF y, z
  <2> QED BY <1>3, <2>5, <2>6
<1> QED BY <1>4, <1>5

(* What the pass writes: at one layer, the tokens w to their slots. *)
Stores(w) ==
  slots' = [slots EXCEPT ![job.layer] =
              [i \in PoolSlot |-> IF \E x \in w : x.slot = i
                                  THEN (CHOOSE x \in w : x.slot = i).token ELSE @[i]]]

\* A layer stores each token of the pass in its slot and leaves the slot of
\* every other token as it was.
LEMMA LayerStores ==
  ASSUME IInv, JobOK, Moved, NextLayer, TextsOK', Stores(Written(kv', text'))
  PROVE  /\ SlotsOK'
         /\ \A c \in Cache, l \in Layer : \A pos \in 0 .. Len(text'[c]) - 1 :
              slots'[l][Slot(kv'[c], pos)]
                = IF l = job.layer /\ c \in InJob /\ pos \in PassPositions(c) THEN text'[c][pos + 1]
                                                                     ELSE slots[l][Slot(kv'[c], pos)]
<1> DEFINE w == Written(kv', text')
           L == job.layer
           new == [i \in PoolSlot |-> IF \E x \in w : x.slot = i
                                      THEN (CHOOSE x \in w : x.slot = i).token ELSE slots[L][i]]
<1>1. slots = [l \in Layer |-> [i \in PoolSlot |-> slots[l][i]]] /\ L \in Layer
  BY DEF IInv, SlotsOK, JobOK
<1>2. slots' = [slots EXCEPT ![L] = new]
  BY DEF Stores
<1> HIDE DEF new
<1>3. /\ slots'[L] = new
      /\ \A l \in Layer : l # L => slots'[l] = slots[l]
      /\ slots' = [l \in Layer |-> IF l = L THEN new ELSE slots[l]]
  BY <1>1, <1>2
<1>4. SlotsOK'
  <2>1. ASSUME NEW l \in Layer PROVE slots'[l] = [i \in PoolSlot |-> slots'[l][i]]
    <3>1. CASE l = L
      <4>1. new = [i \in PoolSlot |-> new[i]]
        BY DEF new
      <4> QED BY <1>3, <3>1, <4>1
    <3>2. CASE l # L
      <4>1. slots[l] = [i \in PoolSlot |-> slots[l][i]]
        BY <1>1
      <4> QED BY <1>3, <3>2, <4>1
    <3> QED BY <3>1, <3>2
  <2>2. slots' = [l \in Layer |-> slots'[l]]
    BY <1>3
  <2>3. slots' = [l \in Layer |-> [i \in PoolSlot |-> slots'[l][i]]]
    BY <2>1, <2>2
  <2> QED BY <2>3 DEF SlotsOK
<1>5. w = UNION {{[slot |-> Slot(kv'[x], p), token |-> text'[x][p + 1]] :
                    p \in {q \in PassPositions(x) : HasSlot(kv'[x], q)}} : x \in InJob}
  BY DEF Written, PassPositions
<1> HIDE DEF w
<1>6. ASSUME NEW c \in Cache, NEW pos \in 0 .. Len(text'[c]) - 1
      PROVE  /\ pos \in Nat /\ pos < kv'[c].cursor /\ Slot(kv'[c], pos) \in PoolSlot
             /\ HasSlot(kv'[c], pos)
             /\ \A y \in w : y.slot = Slot(kv'[c], pos)
                  => c \in InJob /\ pos \in PassPositions(c) /\ y.token = text'[c][pos + 1]
             /\ c \in InJob /\ pos \in PassPositions(c) => \E y \in w : y.slot = Slot(kv'[c], pos)
  <2>1. Len(text'[c]) = kv'[c].cursor /\ kv'[c].cursor \in Nat /\ KVOK(kv'[c])
    BY LayerCursors DEF TextsOK
  <2>2. pos \in Nat /\ pos < kv'[c].cursor
    BY <2>1
  <2>3. Slot(kv'[c], pos) \in PoolSlot /\ HasSlot(kv'[c], pos)
    BY <2>1, <2>2, HasItsSlots
  <2>4. ASSUME NEW y \in w, y.slot = Slot(kv'[c], pos)
        PROVE  c \in InJob /\ pos \in PassPositions(c) /\ y.token = text'[c][pos + 1]
    <3>1. PICK x \in InJob : \E p \in PassPositions(x) :
                 y = [slot |-> Slot(kv'[x], p), token |-> text'[x][p + 1]]
      BY <1>5
    <3>2. PICK p \in PassPositions(x) : y = [slot |-> Slot(kv'[x], p), token |-> text'[x][p + 1]]
      BY <3>1
    <3>3. y.slot = Slot(kv'[x], p) /\ y.token = text'[x][p + 1]
      BY <3>2
    <3>4. x = c /\ p = pos
      <4>1. Slot(kv'[x], p) = Slot(kv'[c], pos)
        BY <2>4, <3>3
      <4> QED BY <2>2, <4>1, LayerSlots
    <3> QED BY <3>3, <3>4
  <2>5. ASSUME c \in InJob, pos \in PassPositions(c) PROVE \E y \in w : y.slot = Slot(kv'[c], pos)
    <3> DEFINE y == [slot |-> Slot(kv'[c], pos), token |-> text'[c][pos + 1]]
    <3>1. y \in w
      BY <1>5, <2>3, <2>5
    <3>2. y.slot = Slot(kv'[c], pos)
      OBVIOUS
    <3> QED BY <3>1, <3>2
  <2> QED BY <2>2, <2>3, <2>4, <2>5
<1>7. ASSUME NEW c \in Cache, NEW l \in Layer, NEW pos \in 0 .. Len(text'[c]) - 1
      PROVE  slots'[l][Slot(kv'[c], pos)]
                = IF l = L /\ c \in InJob /\ pos \in PassPositions(c) THEN text'[c][pos + 1]
                                                             ELSE slots[l][Slot(kv'[c], pos)]
  <2> DEFINE s == Slot(kv'[c], pos)
  <2>1. /\ s \in PoolSlot
        /\ \A y \in w : y.slot = s => c \in InJob /\ pos \in PassPositions(c) /\ y.token = text'[c][pos + 1]
        /\ c \in InJob /\ pos \in PassPositions(c) => \E y \in w : y.slot = s
    BY <1>6
  <2> HIDE DEF s
  <2>2. CASE l # L
    BY <1>3, <2>2 DEF s
  <2>3. CASE l = L /\ ~(c \in InJob /\ pos \in PassPositions(c))
    <3>1. ~ \E y \in w : y.slot = s
      BY <2>1, <2>3
    <3>2. new[s] = slots[L][s]
      BY <2>1, <3>1 DEF new
    <3> QED BY <1>3, <2>3, <3>2 DEF s
  <2>4. CASE l = L /\ c \in InJob /\ pos \in PassPositions(c)
    <3>1. \E y \in w : y.slot = s
      BY <2>1, <2>4
    <3> DEFINE z == CHOOSE y \in w : y.slot = s
    <3>2. z \in w /\ z.slot = s
      BY <3>1
    <3>3. new[s] = z.token
      BY <2>1, <3>1 DEF new
    <3> HIDE DEF z
    <3>4. z.token = text'[c][pos + 1]
      BY <2>1, <3>2
    <3> QED BY <1>3, <2>4, <3>3, <3>4 DEF s
  <2> QED BY <2>2, <2>3, <2>4
<1> QED BY <1>4, <1>7

\* After the layer, every cache reads its own tokens at the layers it has been
\* through.
LEMMA LayerReads ==
  ASSUME IInv, JobOK, Moved, NextLayer, TextsOK', Stores(Written(kv', text')),
         \A c \in Cache : \A i \in 1 .. Len(text[c]) : text'[c][i] = text[c][i]
  PROVE  ReadsOwnTokens'
<1> SUFFICES ASSUME NEW c \in Cache, NEW l \in Layer, NEW pos \in 0 .. Len(text'[c]) - 1
             PROVE  (c \in InJob' /\ job'.layer > 0 /\ l >= job'.layer
                       /\ pos \in LastPositions(kv'[c], job'.len[c]))
                    \/ (HasSlot(kv'[c], pos) /\ slots'[l][Slot(kv'[c], pos)] = text'[c][pos + 1])
  BY DEF ReadsOwnTokens
<1>1. /\ kv[c].cursor \in Nat /\ kv'[c].cursor \in Nat /\ KVOK(kv[c]) /\ KVOK(kv'[c])
      /\ c \notin InJob => kv'[c].cursor = kv[c].cursor
      /\ c \in InJob => /\ job.len[c] \in Nat
                        /\ job.layer = 0 => kv'[c].cursor = kv[c].cursor + job.len[c]
                        /\ job.layer > 0 => kv'[c].cursor = kv[c].cursor
  BY LayerCursors
<1>2. job.layer \in Nat /\ l \in Nat /\ l < NumLayers /\ NumLayers \in Nat
  BY PagedKVCacheAssumption DEF JobOK, Layer
<1>3. Len(text'[c]) = kv'[c].cursor /\ Len(text[c]) = kv[c].cursor
  BY DEF TextsOK, IInv
<1>4. pos \in Nat /\ pos < kv'[c].cursor
  BY <1>1, <1>3
<1>5. HasSlot(kv'[c], pos)
  BY <1>1, <1>4, HasItsSlots
<1> DEFINE s == Slot(kv'[c], pos)
<1>6. slots'[l][s] = IF l = job.layer /\ c \in InJob /\ pos \in PassPositions(c) THEN text'[c][pos + 1]
                                                                        ELSE slots[l][s]
  BY LayerStores
<1>7. ASSUME pos < kv[c].cursor
      PROVE  /\ s = Slot(kv[c], pos)
             /\ text'[c][pos + 1] = text[c][pos + 1]
             /\ (c \in InJob /\ job.layer > 0 /\ l >= job.layer
                   /\ pos \in LastPositions(kv[c], job.len[c]))
                \/ slots[l][s] = text[c][pos + 1]
  <2>1. pos \in 0 .. Len(text[c]) - 1 /\ pos + 1 \in 1 .. Len(text[c])
    BY <1>1, <1>3, <1>4, <1>7
  <2>2. pos \div BlockSize + 1 \in 1 .. Len(kv[c].table)
    BY <1>1, <1>4, <1>7, HasItsSlots
  <2>3. kv'[c].table[pos \div BlockSize + 1] = kv[c].table[pos \div BlockSize + 1]
    BY <2>2 DEF Moved
  <2>4. s = Slot(kv[c], pos)
    BY <2>3 DEF Slot
  <2> HIDE DEF s
  <2> QED BY <2>1, <2>4 DEF IInv, ReadsOwnTokens
<1> HIDE DEF s
<1>8. CASE c \in InJob /\ pos \in PassPositions(c)
  <2>1. CASE l = job.layer
    BY <1>5, <1>6, <1>8, <2>1 DEF s
  <2>2. CASE l > job.layer
    <3>1. job.layer + 1 # NumLayers
      BY <1>2, <2>2
    <3>2. job'.layer = job.layer + 1 /\ job'.len = job.len /\ InJob' = InJob
      BY <3>1, NextLayerJob
    <3>3. job'.layer > 0 /\ l >= job'.layer
      BY <1>2, <2>2, <3>2
    <3> QED BY <1>8, <3>2, <3>3 DEF PassPositions
  <2>3. CASE l < job.layer
    <3>1. kv'[c].cursor = kv[c].cursor /\ ~(l >= job.layer) /\ l # job.layer
      BY <1>1, <1>2, <1>8, <2>3
    <3>2. s = Slot(kv[c], pos) /\ slots[l][s] = text[c][pos + 1]
          /\ text'[c][pos + 1] = text[c][pos + 1]
      BY <1>4, <1>7, <3>1
    <3> QED BY <1>5, <1>6, <3>1, <3>2 DEF s
  <2> QED BY <1>2, <2>1, <2>2, <2>3
<1>9. CASE ~(c \in InJob /\ pos \in PassPositions(c))
  <2>1. slots'[l][s] = slots[l][s]
    BY <1>6, <1>9
  <2>2. pos < kv[c].cursor
    BY <1>1, <1>2, <1>4, <1>9 DEF PassPositions, LastPositions
  <2>3. ~(c \in InJob /\ job.layer > 0 /\ pos \in LastPositions(kv[c], job.len[c]))
    BY <1>1, <1>9 DEF PassPositions, LastPositions
  <2>4. slots[l][s] = text'[c][pos + 1]
    BY <1>7, <2>2, <2>3
  <2> QED BY <1>5, <2>1, <2>4 DEF s
<1> QED BY <1>8, <1>9

\* A layer keeps the invariant, whether or not it throws.
LEMMA ForwardInv ==
  ASSUME BlockSize > 1, PromptLimit <= MaxSeqLen, IInv, Forward
  PROVE  IInv'
<1> DEFINE r == LayerMeta
<1>1. job # NoJob /\ JobOK
  BY DEF Forward, IInv
<1>2. /\ ~r.ok => FreeAndReset(job.members, r.pool, r.kv) /\ job' = NoJob
      /\ r.ok => /\ pool' = r.pool /\ kv' = r.kv /\ prefilled' = prefilled \cup InJob
                 /\ text' = [c \in Cache |-> Extended(c, r.kv)]
                 /\ Stores(Written(kv', text')) /\ NextLayer
      /\ UNCHANGED <<lost, failures>>
  <2>3. UNCHANGED <<lost, failures>>
    BY DEF Forward
  <2> HIDE DEF r
  <2>1. IF ~r.ok
        THEN FreeAndReset(job.members, r.pool, r.kv) /\ job' = NoJob
        ELSE \E tokens \in {[c \in Cache |-> Extended(c, r.kv)]} :
             \E w \in {Written(r.kv, tokens)} :
               /\ pool' = r.pool /\ kv' = r.kv /\ prefilled' = prefilled \cup InJob
               /\ text' = tokens /\ Stores(w) /\ NextLayer
    BY DEF Forward, Stores, NextLayer, r
  <2>2. ASSUME r.ok
        PROVE  /\ pool' = r.pool /\ kv' = r.kv /\ prefilled' = prefilled \cup InJob
               /\ text' = [c \in Cache |-> Extended(c, r.kv)]
               /\ Stores(Written(kv', text')) /\ NextLayer
    <3> DEFINE tokens == [c \in Cache |-> Extended(c, r.kv)]
               w == Written(r.kv, tokens)
    <3>1. /\ pool' = r.pool /\ kv' = r.kv /\ prefilled' = prefilled \cup InJob
          /\ text' = tokens /\ Stores(w) /\ NextLayer
      BY <2>1, <2>2
    <3> HIDE DEF tokens
    <3>2. w = Written(kv', text')
      BY <3>1
    <3> QED BY <3>1, <3>2 DEF tokens
  <2> QED BY <2>1, <2>2, <2>3
<1>5. LostOK'
  BY <1>2 DEF IInv, LostOK
<1>3. CASE ~r.ok
  <2>1. Reached(r, InJob)
    BY <1>1, LayerReached DEF IInv
  <2> HIDE DEF r
  <2> DEFINE ms == job.members
  <2>2. ms \in Seq(Cache) /\ IsInjective(ms) /\ InJob = ToSet(ms)
    BY <1>1 DEF JobOK, InJob
  <2>3. /\ PoolOK(r.pool) /\ r.kv \in [Cache -> AnyKV] /\ Counted(r.pool, r.kv, lost')
        /\ \A c \in Cache \ ToSet(ms) : r.kv[c] = kv[c]
    BY <1>2, <2>1, <2>2 DEF Reached, Metas
  <2>4. FreeAndReset(ms, r.pool, r.kv) /\ job' = NoJob
    BY <1>2, <1>3
  <2> HIDE DEF ms
  <2> QED BY <1>5, <2>2, <2>3, <2>4, FreeAndResetInv
<1>4. CASE r.ok
  <2>1. Moved
    BY <1>1, <1>2, <1>4, LayerMoves
  <2>2. NextLayer /\ Stores(Written(kv', text')) /\ text' = [c \in Cache |-> Extended(c, r.kv)]
    BY <1>2, <1>4
  <2> HIDE DEF r
  <2>3. TextsOK' /\ \A c \in Cache : \A i \in 1 .. Len(text[c]) : text'[c][i] = text[c][i]
    BY <1>1, <2>1, <2>2, LayerTexts
  <2>4. SharedAreFull'
    BY <1>1, <2>1, <2>2, LayerShares
  <2>5. SlotsOK'
    BY <1>1, <2>1, <2>2, <2>3, LayerStores
  <2>6. ReadsOwnTokens'
    BY <1>1, <2>1, <2>2, <2>3, LayerReads
  <2>7. job' = NoJob \/ JobOK'
    BY <1>1, <2>2, NextLayerJob
  <2>8. PagesOK'
    BY <2>1 DEF Moved
  <2> QED BY <1>5, <2>3, <2>4, <2>5, <2>6, <2>7, <2>8 DEF IInv
<1> QED BY <1>3, <1>4

\* The calls of a decode take one block, or none.
LEMMA DecodeTakesOne ==
  ASSUME JobOK, job.is_decode, NEW c \in InJob, NEW k \in AnyKV, NEW p, PoolOK(p), Backed(k, p),
         CopiesTable(k, Call(k, p, c))
  PROVE  Len(Call(k, p, c).kv.table) = Len(k.table) + 1
<1> DEFINE r == Call(k, p, c)
           a == Alloc(p, 1)
           m == [k EXCEPT !.cursor = @ + 1]
           g == Grow(m, a.ids)
<1>1. r.ok /\ r.kv.table # k.table
  BY DEF CopiesTable
<1>2. ~Refused(k, p).ok /\ Stored(k, p).kv = k
  BY DEF Refused, Stored
<1>3. r = Refused(k, p) \/ r = Stored(k, p) \/ r = DecodeSlot(k, p)
  <2>1. CASE job.api = "write"
    <3>1. r = Write(k, p, job.layer, job.len[c], job.is_decode)
      BY <2>1 DEF Call
    <3> HIDE DEF r
    <3> QED BY <3>1 DEF Write
  <2>2. CASE job.api # "write" /\ job.layer = 0
    <3>1. r = PrepareMeta(k, p, job.len[c], job.is_decode)
      BY <2>2 DEF Call
    <3> HIDE DEF r
    <3> QED BY <3>1 DEF PrepareMeta
  <2>3. CASE job.api # "write" /\ job.layer # 0
    BY <2>3 DEF Call
  <2> QED BY <2>1, <2>2, <2>3
<1> HIDE DEF r
<1>4. r = DecodeSlot(k, p)
  BY <1>1, <1>2, <1>3
<1>5. m.table = k.table /\ g.table = k.table \o a.ids
  <2>1. k = [cursor |-> k.cursor, table |-> k.table, device |-> k.device, adopted |-> k.adopted]
    BY DEF AnyKV
  <2> QED BY <2>1 DEF Grow
<1>6. r = Stored(m, p) \/ (a.ok /\ r = Stored(g, a.pool)) \/ r = Refused(m, p)
  <2>1. a.ok \/ a.pool = p
    BY AllocRefused
  <2> QED BY <1>4, <2>1 DEF DecodeSlot
<1> HIDE DEF m, g, a
<1>7. a.ok /\ r.kv.table = k.table \o a.ids
  <2>1. /\ r = Stored(m, p) => r.kv = m
        /\ r = Stored(g, a.pool) => r.kv = g
        /\ r = Refused(m, p) => ~r.ok
    BY DEF Stored, Refused
  <2>2. ~(r = Stored(m, p))
    BY <1>1, <1>5, <2>1
  <2>3. ~(r = Refused(m, p))
    BY <1>1, <2>1
  <2> QED BY <1>5, <1>6, <2>1, <2>2, <2>3
<1>8. a.ids \in Seq(Block) /\ Len(a.ids) = 1
  BY <1>7, AllocTable DEF a, Table
<1>9. k.table \in Seq(Block)
  BY DEF AnyKV, Table
<1> DEFINE t == k.table
           u == a.ids
<1> HIDE DEF t, u
<1>10. Len(t \o u) = Len(t) + 1
  <2>1. t \in Seq(Block) /\ u \in Seq(Block) /\ Len(u) = 1
    BY <1>8, <1>9 DEF t, u
  <2>2. ASSUME NEW x \in Seq(Block), NEW y \in Seq(Block)
        PROVE  Len(x \o y) = Len(x) + Len(y)
    BY ConcatFacts
  <2> QED BY <2>1, <2>2
<1> QED BY <1>7, <1>10 DEF r, t, u

\* Counting the lost blocks.
LEMMA LostCount ==
  ASSUME LostOK
  PROVE  IsFiniteSet(lost) /\ Cardinality(lost) \in Nat /\ failures \in Nat /\ Cardinality(lost) <= failures
<1>1. IsFiniteSet(Block)
  BY NumBlocksAssumption, FS_Interval DEF Block
<1>2. lost \in SUBSET Block /\ failures \in Nat /\ Cardinality(lost) <= failures
  BY DEF LostOK
<1>3. IsFiniteSet(lost)
  BY <1>1, <1>2, FS_Subset, Zenon
<1> QED BY <1>2, <1>3, FS_CardinalityType

\* A failure that loses none.
LEMMA LostStays ==
  ASSUME LostOK, lost' = lost, failures' = failures + 1
  PROVE  LostOK'
<1> DEFINE n == Cardinality(lost)
<1>1. n \in Nat /\ failures \in Nat /\ n <= failures /\ lost \in SUBSET Block
  BY LostCount DEF LostOK
<1>2. Cardinality(lost') = n
  OBVIOUS
<1> HIDE DEF n
<1>3. failures' \in Nat /\ n <= failures'
  BY <1>1
<1> QED BY <1>1, <1>2, <1>3 DEF LostOK

\* What a decode took when the device failed is in no table and stays counted;
\* a prefill has what it took.
LEMMA BrokenCounted ==
  ASSUME JobOK, LostOK, NEW r \in Metas, NEW c \in InJob,
         NEW s, s = Call(r.kv[c], r.pool, c), CopiesTable(r.kv[c], s),
         NEW k, k = CopyBroken(r.kv[c], s, job.is_decode),
         lost' = lost \cup BlockLost(s, job.is_decode), failures' = failures + 1
  PROVE  /\ [r.kv EXCEPT ![c] = k] \in [Cache -> AnyKV]
         /\ PoolOK(s.pool)
         /\ Counted(s.pool, [r.kv EXCEPT ![c] = k], lost')
         /\ LostOK'
<1> DEFINE old == r.kv[c]
           t   == old.table
           k2  == [r.kv EXCEPT ![c] = k]
<1>1. /\ r.kv \in [Cache -> AnyKV] /\ PoolOK(r.pool) /\ Counted(r.pool, r.kv, lost)
      /\ c \in Cache
  BY DEF Metas, JobOK, InJob, ToSet
<1>2. old \in AnyKV /\ Backed(old, r.pool)
  BY <1>1, CountedBacked
<1>3. Took(old, r.pool, s)
  BY <1>1, <1>2, CallTook
<1>4. s.kv \in AnyKV /\ PoolOK(s.pool)
  BY <1>3 DEF Took
<1>5. /\ k.cursor = s.kv.cursor /\ k.device = old.device /\ k.adopted = s.kv.adopted
      /\ k.table = IF job.is_decode THEN t ELSE s.kv.table
      /\ k = [cursor |-> k.cursor, table |-> k.table, device |-> k.device, adopted |-> k.adopted]
  BY <1>4 DEF CopyBroken, AnyKV
<1>6. PICK got \in Table :
        /\ s.kv.table = t \o got
        /\ \A b \in Block : /\ Contains(got, b) => r.pool.ref_cnt[b] = 0
                            /\ s.pool.ref_cnt[b] = IF Contains(got, b) THEN 1 ELSE r.pool.ref_cnt[b]
  BY <1>3 DEF Took
<1>7. t \in Seq(Block) /\ got \in Seq(Block) /\ t \in Table
  BY <1>2 DEF AnyKV, Table
<1>8. k \in AnyKV
  <2>1. s.kv.cursor = 0 => k.table = <<>>
    <3>1. ASSUME s.kv.cursor = 0 PROVE s.kv.table = <<>> /\ t = <<>>
      <4>1. s.kv.table = <<>>
        BY <1>4, <3>1 DEF AnyKV
      <4>2. Len(t \o got) = Len(t) + Len(got) /\ Len(t) \in Nat /\ Len(got) \in Nat
        BY <1>7, ConcatProperties
      <4>3. Len(s.kv.table) = 0
        BY <4>1
      <4> HIDE DEF t
      <4>4. Len(t) = 0
        BY <1>6, <4>2, <4>3
      <4> QED BY <1>7, <4>1, <4>4, EmptySeq
    <3> QED BY <1>5, <3>1
  <2>2. k \in [cursor : Nat, table : Table, device : Seq(Cell), adopted : BOOLEAN]
    <3>1. k.cursor \in Nat /\ k.table \in Table /\ k.device \in Seq(Cell) /\ k.adopted \in BOOLEAN
      BY <1>2, <1>4, <1>5 DEF AnyKV
    <3> QED BY <1>5, <3>1
  <2> QED BY <1>5, <2>1, <2>2 DEF AnyKV
<1>9. k2 \in [Cache -> AnyKV] /\ k2[c] = k /\ \A d \in Cache : d # c => k2[d] = r.kv[d]
  BY <1>1, <1>8
<1> HIDE DEF k2
<1>10. CASE ~job.is_decode
  <2> DEFINE k3 == [r.kv EXCEPT ![c] = s.kv]
  <2>1. Counted(s.pool, k3, lost) /\ k3[c] = s.kv /\ \A d \in Cache : d # c => k3[d] = r.kv[d]
    BY <1>1, <1>3, CountedTook
  <2> HIDE DEF k3
  <2>2. lost' = lost
    BY <1>10 DEF BlockLost
  <2>3. \A d \in Cache : k2[d].table = k3[d].table
    BY <1>5, <1>9, <1>10, <2>1
  <2>4. \A b \in Block : Holders(k2, b) = Holders(k3, b)
    BY <2>3 DEF Holders
  <2>5. Counted(s.pool, k2, lost)
    BY <2>1, <2>4 DEF Counted
  <2>6. LostOK'
    BY <2>2, LostStays
  <2> QED BY <1>4, <1>9, <2>2, <2>5, <2>6 DEF k2
<1>11. CASE job.is_decode
  <2> DEFINE x == got[1]
  <2>1. Len(got) = 1 /\ Last(s.kv.table) = x
    <3>1. Len(s.kv.table) = Len(t) + 1
      BY <1>1, <1>2, <1>11, DecodeTakesOne
    <3> HIDE DEF t
    <3>2. Len(t \o got) = Len(t) + Len(got) /\ Len(t) \in Nat /\ Len(got) \in Nat
      BY <1>7, ConcatProperties
    <3>5. s.kv.table = t \o got
      BY <1>6
    <3>6. Len(t) + Len(got) = Len(t) + 1
      BY <3>1, <3>2, <3>5
    <3>3. Len(got) = 1
      <4> DEFINE y == Len(t)
                 z == Len(got)
      <4>1. y \in Nat /\ z \in Nat /\ y + z = y + 1
        BY <3>2, <3>6
      <4> HIDE DEF y, z
      <4>2. z = 1
        BY <4>1
      <4> QED BY <4>2 DEF z
    <3>4. (t \o got)[Len(t) + 1] = got[1]
      BY <1>7, <3>2, <3>3
    <3>7. Last(s.kv.table) = s.kv.table[Len(s.kv.table)]
      BY DEF Last
    <3> DEFINE w == s.kv.table
    <3>8. Last(w) = w[Len(w)] /\ Len(w) = Len(t) + 1 /\ w = t \o got
      BY <3>1, <3>5, <3>7
    <3> HIDE DEF w
    <3>9. Last(w) = (t \o got)[Len(t) + 1]
      BY <3>8
    <3>10. Last(w) = x
      BY <3>4, <3>9
    <3> QED BY <3>3, <3>10 DEF w
  <2>2. x \in Block /\ \A b \in Block : Contains(got, b) <=> b = x
    <3>1. got \in Seq(Block) /\ Len(got) = 1
      BY <1>7, <2>1
    <3>3. 1 \in 1 .. Len(got) /\ \A i \in 1 .. Len(got) : i = 1
      BY <3>1
    <3>4. got[1] \in Block
      <4>1. ASSUME NEW e \in Seq(Block), NEW i \in 1 .. Len(e) PROVE e[i] \in Block
        OBVIOUS
      <4> QED BY <3>1, <3>3, <4>1
    <3>2. x \in Block
      BY <3>4
    <3> QED BY <3>2, <3>3 DEF Contains
  <2> HIDE DEF x
  <2>3. lost' = lost \cup {x}
    BY <1>11, <2>1 DEF BlockLost
  <2>4. \A b \in Block : Holders(k2, b) = Holders(r.kv, b)
    BY <1>5, <1>9, <1>11 DEF Holders
  <2>5. ASSUME NEW b \in Block
        PROVE  /\ s.pool.ref_cnt[b] = Cardinality(Holders(k2, b)) + Extra(b, lost')
               /\ b \in lost' => Holders(k2, b) = {}
    <3> DEFINE H == Holders(r.kv, b)
    <3>1. /\ r.pool.ref_cnt[b] = Cardinality(H) + Extra(b, lost) /\ H \in SUBSET Cache
          /\ b \in lost => H = {}
      BY <1>1 DEF Counted, Holders
    <3> HIDE DEF H
    <3>2. Cardinality(H) \in Nat
      BY <3>1, Counting
    <3>3. CASE b = x
      <4>1. r.pool.ref_cnt[b] = 0 /\ s.pool.ref_cnt[b] = 1
        BY <1>6, <2>2, <3>3
      <4>2. Extra(b, lost) \in Nat /\ Extra(b, lost') = 1
        BY <2>3, <3>3 DEF Extra
      <4>3. Cardinality(H) = 0
        BY <3>1, <3>2, <4>1, <4>2
      <4>4. H = {}
        BY <3>1, <4>3, Counting
      <4> QED BY <2>4, <4>1, <4>2, <4>3, <4>4 DEF H
    <3>4. CASE b # x
      <4>1. s.pool.ref_cnt[b] = r.pool.ref_cnt[b]
        BY <1>6, <2>2, <3>4
      <4>2. (b \in lost' <=> b \in lost) /\ Extra(b, lost') = Extra(b, lost)
        BY <2>3, <3>4 DEF Extra
      <4> QED BY <2>4, <3>1, <4>1, <4>2 DEF H
    <3> QED BY <3>3, <3>4
  <2>6. LostOK'
    <3> DEFINE y == Cardinality(lost)
               z == Cardinality(lost \cup {x})
    <3>1. IsFiniteSet(lost) /\ y \in Nat /\ failures \in Nat /\ y <= failures
      BY LostCount
    <3>2. z = y \/ z = y + 1
      BY <3>1, FS_AddElement, Zenon
    <3>3. Cardinality(lost') = z /\ lost' \in SUBSET Block
      BY <2>2, <2>3 DEF LostOK
    <3> HIDE DEF y, z
    <3>4. failures' \in Nat /\ z <= failures'
      BY <3>1, <3>2
    <3> QED BY <3>3, <3>4 DEF LostOK
  <2> QED BY <1>4, <1>9, <2>5, <2>6 DEF Counted, k2
<1> QED BY <1>10, <1>11

\* A failure of the device keeps the invariant, wherever in the layer it comes.
LEMMA DeviceFailsInv ==
  ASSUME BlockSize > 1, PromptLimit <= MaxSeqLen, IInv, DeviceFails
  PROVE  IInv'
<1> DEFINE ms == job.members
           dec == job.is_decode
<1>1. JobOK /\ job' = NoJob /\ failures' = failures + 1 /\ PagesOK /\ LostOK
  BY DEF DeviceFails, IInv
<1>2. ms \in Seq(Cache) /\ IsInjective(ms) /\ InJob = ToSet(ms)
  BY <1>1 DEF JobOK, InJob
<1>3. PICK n \in 0 .. Len(ms) : \E r \in {MetaOf(SubSeq(ms, 1, n))} :
        \/ FreeAndReset(ms, r.pool, r.kv) /\ UNCHANGED lost
        \/ /\ n < Len(ms)
           /\ \E c \in {ms[n + 1]} : \E s \in {Call(r.kv[c], r.pool, c)} :
                /\ CopiesTable(r.kv[c], s)
                /\ FreeAndReset(ms, s.pool, [r.kv EXCEPT ![c] = CopyBroken(r.kv[c], s, dec)])
                /\ lost' = lost \cup BlockLost(s, dec)
  BY DEF DeviceFails
<1> DEFINE q == SubSeq(ms, 1, n)
           r == MetaOf(q)
<1> HIDE DEF ms, r
<1>4. ms \in [1 .. Len(ms) -> InJob] /\ Len(ms) \in Nat /\ ms \in Seq(InJob)
  <2>1. ms \in [1 .. Len(ms) -> Cache] /\ Len(ms) \in Nat
    BY <1>2
  <2>2. ms \in [1 .. Len(ms) -> InJob]
    BY <1>2, <2>1 DEF ToSet
  <2> QED BY <2>1, <2>2
<1>5. q \in Seq(InJob) /\ IsInjective(q)
  <2>1. /\ q \in Seq(InJob) /\ Len(q) = n /\ \A i \in 1 .. n : q[i] = ms[i] /\ i \in 1 .. Len(ms)
    BY <1>4
  <2> HIDE DEF q
  <2>2. DOMAIN q = 1 .. n /\ DOMAIN ms = 1 .. Len(ms)
    BY <1>4, <2>1
  <2>3. \A i, j \in 1 .. n : q[i] = q[j] => i = j
    BY <1>2, <2>1, <2>2 DEF IsInjective
  <2> QED BY <2>1, <2>2, <2>3 DEF IsInjective
<1>6. r = MetaOf(q)
  BY DEF r
<1>12. \/ FreeAndReset(ms, r.pool, r.kv) /\ UNCHANGED lost
       \/ /\ n < Len(ms)
          /\ \E c \in {ms[n + 1]} : \E s \in {Call(r.kv[c], r.pool, c)} :
               /\ CopiesTable(r.kv[c], s)
               /\ FreeAndReset(ms, s.pool, [r.kv EXCEPT ![c] = CopyBroken(r.kv[c], s, dec)])
               /\ lost' = lost \cup BlockLost(s, dec)
  BY <1>3, <1>6
<1> HIDE DEF q
<1>7. Reached(r, ToSet(q))
  BY <1>1, <1>5, <1>6, MetaReached
<1>8. ToSet(q) \subseteq InJob
  BY <1>5 DEF ToSet
<1>9. /\ r \in Metas /\ PoolOK(r.pool) /\ r.kv \in [Cache -> AnyKV] /\ Counted(r.pool, r.kv, lost)
      /\ \A c \in Cache \ ToSet(ms) : r.kv[c] = kv[c]
  BY <1>2, <1>7, <1>8 DEF Reached, Metas
<1>10. CASE FreeAndReset(ms, r.pool, r.kv) /\ UNCHANGED lost
  <2>1. LostOK' /\ Counted(r.pool, r.kv, lost')
    BY <1>1, <1>9, <1>10, LostStays
  <2> QED BY <1>1, <1>2, <1>9, <1>10, <2>1, FreeAndResetInv
<1>11. CASE /\ n < Len(ms)
            /\ \E c \in {ms[n + 1]} : \E s \in {Call(r.kv[c], r.pool, c)} :
                 /\ CopiesTable(r.kv[c], s)
                 /\ FreeAndReset(ms, s.pool, [r.kv EXCEPT ![c] = CopyBroken(r.kv[c], s, dec)])
                 /\ lost' = lost \cup BlockLost(s, dec)
  <2> DEFINE c == ms[n + 1]
             s == Call(r.kv[c], r.pool, c)
             k == CopyBroken(r.kv[c], s, dec)
             k2 == [r.kv EXCEPT ![c] = k]
  <2>1. /\ CopiesTable(r.kv[c], s) /\ FreeAndReset(ms, s.pool, k2)
        /\ lost' = lost \cup BlockLost(s, dec)
    BY <1>11
  <2>2. c \in InJob /\ c \in ToSet(ms)
    BY <1>2, <1>4, <1>11
  <2> HIDE DEF c
  <2>3. /\ k2 \in [Cache -> AnyKV] /\ PoolOK(s.pool) /\ Counted(s.pool, k2, lost') /\ LostOK'
    <3>1. s = Call(r.kv[c], r.pool, c) /\ k = CopyBroken(r.kv[c], s, job.is_decode)
      OBVIOUS
    <3> HIDE DEF s, k
    <3> QED BY <1>1, <1>9, <2>1, <2>2, <3>1, BrokenCounted
  <2> HIDE DEF s, k
  <2>4. \A d \in Cache \ ToSet(ms) : k2[d] = kv[d]
    BY <1>9, <2>2
  <2> HIDE DEF k2
  <2> QED BY <1>1, <1>2, <2>1, <2>3, <2>4, FreeAndResetInv
<1> QED BY <1>10, <1>11, <1>12

\* A step of nothing keeps it.
LEMMA StutterInv ==
  ASSUME IInv, UNCHANGED vars
  PROVE  IInv'
<1> USE DEF vars
<1>1. \A c : Pending(c)' = Pending(c)
  BY DEF Pending, InJob
<1>2. PagesOK' /\ SlotsOK' /\ LostOK'
  BY DEF IInv, PagesOK, SlotsOK, LostOK
<1>3. TextsOK' /\ SharedAreFull'
  BY <1>1 DEF IInv, TextsOK, SharedAreFull
<1>4. ReadsOwnTokens'
  BY DEF IInv, ReadsOwnTokens, InJob
<1>5. job' = NoJob \/ JobOK'
  <2>1. JobOK => JobOK'
    BY DEF JobOK, Due, InJob
  <2> QED BY <2>1 DEF IInv
<1> QED BY <1>2, <1>3, <1>4, <1>5 DEF IInv

\* Every step keeps it, when blocks hold two tokens or more.
LEMMA NextInv ==
  ASSUME BlockSize > 1, PromptLimit <= MaxSeqLen, IInv, [Next]_vars
  PROVE  IInv'
<1>1. ASSUME NEW c \in Cache, NEW d \in Cache, NEW n \in 1 .. NumBlocks, Adopt(c, d, n)
      PROVE  IInv'
  BY <1>1, AdoptInv
<1>2. ASSUME NEW c \in Cache, Release(c) PROVE IInv'
  BY <1>2, ReleaseInv
<1>3. ASSUME NEW api \in Apis, NEW ms \in Batches, NEW is_decode \in BOOLEAN,
             NEW len \in [ToSet(ms) -> IF is_decode THEN {1} ELSE 1 .. PromptLimit],
             Start(api, ms, len, is_decode)
      PROVE  IInv'
  BY <1>3, StartInv
<1>4. ASSUME Forward PROVE IInv'
  BY <1>4, ForwardInv
<1>5. ASSUME UNCHANGED vars PROVE IInv'
  BY <1>5, StutterInv
<1>6. ASSUME DeviceFails PROVE IInv'
  BY <1>6, DeviceFailsInv
<1> QED BY <1>1, <1>2, <1>3, <1>4, <1>5, <1>6 DEF Next

-----------------------------------------------------------------------------
(* Theorems.  Blocks hold two tokens or more, since with blocks of one the *)
(* code never takes a block for a decoded token, and a prompt fits         *)
(* max_seq_len, since only what is left of it behind an adopted prefix is  *)
(* compared with that.                                                     *)

\* The tables, their device copies and the pool's counts agree in every state,
\* also after a layer threw half-way through a batch, or the device half-way
\* through a call: then the one block a decode had taken is lost, and no more
\* (paged_kv_cache.cpp:153-159).
THEOREM TablesAlwaysExact ==
  ASSUME BlockSize > 1, PromptLimit <= MaxSeqLen
  PROVE  Spec => []TablesExact
<1>1. Init => IInv
  BY InitInv
<1>2. IInv /\ [Next]_vars => IInv'
  BY NextInv
<1>3. IInv => TablesExact
  BY IInvTables
<1> QED BY <1>1, <1>2, <1>3, PTL DEF Spec

\* The blocks that a pass writes have one holder (no copy-on-write is needed).
THEOREM WritesAlwaysExclusive ==
  ASSUME BlockSize > 1, PromptLimit <= MaxSeqLen
  PROVE  Spec => []WritesExclusive
<1>1. Init => IInv
  BY InitInv
<1>2. IInv /\ [Next]_vars => IInv'
  BY NextInv
<1>3. IInv => WritesExclusive
  BY IInvWrites
<1> QED BY <1>1, <1>2, <1>3, PTL DEF Spec

\* Attention reads the K/V of the cache's own tokens, through shared blocks,
\* batches and layers.
THEOREM ReadsAlwaysOwnTokens ==
  ASSUME BlockSize > 1, PromptLimit <= MaxSeqLen
  PROVE  Spec => []ReadsOwnTokens
<1>1. Init => IInv
  BY InitInv
<1>2. IInv /\ [Next]_vars => IInv'
  BY NextInv
<1>3. IInv => ReadsOwnTokens
  BY DEF IInv
<1> QED BY <1>1, <1>2, <1>3, PTL DEF Spec
=============================================================================
