--------------------------- MODULE BlockPoolProofs ---------------------------
(***************************************************************************)
(* Lemmas about the operators of BlockPool, for every pool size: what each *)
(* loop iteration keeps, and what a whole call is in terms of iterations.  *)
(***************************************************************************)
EXTENDS BlockPool, LoopProofs, SequenceTheorems, FiniteSetTheorems

AnyPool == [ref_cnt : [Block -> Nat], free_list : Seq(Block), num_allocated : Int]

(* The part of a pool that every iteration keeps. *)
PoolOK(p) ==
  /\ p \in AnyPool
  /\ FreeListExact(p)
  /\ CountExact(p)

-----------------------------------------------------------------------------
(* The primitives.                                                         *)

\* The constructor's pool is consistent: pop order 0, 1, 2, ...
LEMMA Pool0OK == PoolOK(Pool0)
<1> USE NumBlocksAssumption DEF Block
<1>1. Pool0.free_list \in Seq(Block) /\ Len(Pool0.free_list) = NumBlocks
  BY IsASeq DEF Pool0
<1>2. FreeListExact(Pool0)
  <2>1. NoDuplicates(Pool0.free_list)
    BY <1>1 DEF Pool0, NoDuplicates
  <2>2. ASSUME NEW b \in Block
        PROVE  \E i \in 1 .. Len(Pool0.free_list) : Pool0.free_list[i] = b
    <3>1. b + 1 \in 1 .. Len(Pool0.free_list) /\ Pool0.free_list[b + 1] = b
      BY <1>1 DEF Pool0
    <3> QED BY <3>1
  <2> QED BY <2>1, <2>2 DEF FreeListExact, Pool0
<1> QED BY <1>1, <1>2 DEF PoolOK, AnyPool, Pool0, CountExact, num_free

\* pop_free_head hands out a block nobody references, and keeps the pool
\* consistent with one block fewer on the list.
LEMMA PopFreeHeadOK ==
  ASSUME NEW p, PoolOK(p), p.free_list # <<>>
  PROVE  /\ PoolOK(PopFreeHead(p))
         /\ Head(p.free_list) \in Block
         /\ p.ref_cnt[Head(p.free_list)] = 0
         /\ PopFreeHead(p).ref_cnt = [p.ref_cnt EXCEPT ![Head(p.free_list)] = 1]
         /\ Len(PopFreeHead(p).free_list) = Len(p.free_list) - 1
<1> DEFINE f == p.free_list
           q == PopFreeHead(p)
<1>1. /\ f \in Seq(Block) /\ Len(f) >= 1 /\ Head(f) = f[1] /\ Head(f) \in Block
      /\ Tail(f) \in Seq(Block) /\ Len(Tail(f)) = Len(f) - 1
      /\ \A i \in 1 .. Len(Tail(f)) : Tail(f)[i] = f[i + 1]
  BY HeadTailProperties, EmptySeq, LenProperties DEF PoolOK, AnyPool
<1>2. p.ref_cnt[Head(f)] = 0
  BY <1>1 DEF PoolOK, AnyPool, FreeListExact
<1>3. NoDuplicates(Tail(f))
  <2>1. ASSUME NEW i \in 1 .. Len(Tail(f)), NEW j \in 1 .. Len(Tail(f)), Tail(f)[i] = Tail(f)[j]
        PROVE  i = j
    <3>1. i + 1 \in 1 .. Len(f) /\ j + 1 \in 1 .. Len(f) /\ f[i + 1] = f[j + 1]
      BY <1>1, <2>1
    <3>2. i + 1 = j + 1
      BY <3>1 DEF PoolOK, AnyPool, FreeListExact, NoDuplicates
    <3> QED BY <3>2
  <2> QED BY <2>1 DEF NoDuplicates
<1>4. ASSUME NEW b \in Block
      PROVE  q.ref_cnt[b] = 0 <=> \E i \in 1 .. Len(Tail(f)) : Tail(f)[i] = b
  <2>1. CASE b = Head(f)
    <3>1. ASSUME NEW i \in 1 .. Len(Tail(f)) PROVE Tail(f)[i] # b
      BY <1>1, <2>1 DEF PoolOK, AnyPool, FreeListExact, NoDuplicates
    <3>2. q.ref_cnt[b] # 0
      BY <2>1 DEF PopFreeHead, PoolOK, AnyPool
    <3> HIDE DEF q
    <3> QED BY <3>1, <3>2
  <2>2. CASE b # Head(f)
    <3>1. q.ref_cnt[b] = p.ref_cnt[b]
      BY <2>2 DEF PopFreeHead, PoolOK, AnyPool
    <3>2. ASSUME NEW i \in 1 .. Len(f), f[i] = b
          PROVE  \E j \in 1 .. Len(Tail(f)) : Tail(f)[j] = b
      <4>1. i # 1 /\ i - 1 \in 1 .. Len(Tail(f)) /\ Tail(f)[i - 1] = b
        BY <1>1, <2>2, <3>2
      <4> QED BY <4>1
    <3>3. ASSUME NEW j \in 1 .. Len(Tail(f)), Tail(f)[j] = b
          PROVE  \E i \in 1 .. Len(f) : f[i] = b
      <4>1. j + 1 \in 1 .. Len(f) /\ f[j + 1] = b
        BY <1>1, <3>3
      <4> QED BY <4>1
    <3> QED BY <3>1, <3>2, <3>3 DEF PoolOK, AnyPool, FreeListExact
  <2> QED BY <2>1, <2>2
<1>5. q \in [ref_cnt : [Block -> Nat], free_list : Seq(Block), num_allocated : Int]
  BY <1>1 DEF PopFreeHead, PoolOK, AnyPool
<1>6. CountExact(q)
  BY <1>1, NumBlocksAssumption DEF PoolOK, AnyPool, CountExact, num_free, PopFreeHead
<1> QED
  BY <1>1, <1>2, <1>3, <1>4, <1>5, <1>6 DEF PoolOK, AnyPool, FreeListExact, PopFreeHead

\* push_free_head puts back a block that is off the list.
LEMMA PushFreeHeadOK ==
  ASSUME NEW p, PoolOK(p), NEW b \in Block, p.ref_cnt[b] # 0
  PROVE  PoolOK(PushFreeHead(p, b))
<1> DEFINE f == p.free_list
           g == <<b>> \o f
           q == PushFreeHead(p, b)
<1>1. /\ f \in Seq(Block) /\ g \in Seq(Block) /\ Len(f) \in Nat /\ Len(g) = Len(f) + 1
      /\ g[1] = b /\ \A i \in 2 .. Len(g) : g[i] = f[i - 1]
  BY ConcatProperties, LenProperties DEF PoolOK, AnyPool
<1>2. \A i \in 1 .. Len(f) : f[i] # b
  BY DEF PoolOK, AnyPool, FreeListExact
<1>3. NoDuplicates(g)
  <2>1. ASSUME NEW i \in 1 .. Len(g), NEW j \in 1 .. Len(g), g[i] = g[j]
        PROVE  i = j
    <3>1. CASE i = 1 /\ j = 1
      BY <3>1
    <3>2. CASE i = 1 /\ j # 1
      <4>1. j - 1 \in 1 .. Len(f) /\ f[j - 1] = b
        BY <1>1, <2>1, <3>2
      <4> QED BY <4>1, <1>2
    <3>3. CASE i # 1 /\ j = 1
      <4>1. i - 1 \in 1 .. Len(f) /\ f[i - 1] = b
        BY <1>1, <2>1, <3>3
      <4> QED BY <4>1, <1>2
    <3>4. CASE i # 1 /\ j # 1
      <4>1. i - 1 \in 1 .. Len(f) /\ j - 1 \in 1 .. Len(f) /\ f[i - 1] = f[j - 1]
        BY <1>1, <2>1, <3>4
      <4>2. i - 1 = j - 1
        BY <4>1 DEF PoolOK, AnyPool, FreeListExact, NoDuplicates
      <4> QED BY <4>2, <1>1
    <3> QED BY <3>1, <3>2, <3>3, <3>4
  <2> QED BY <2>1 DEF NoDuplicates
<1>4. ASSUME NEW c \in Block
      PROVE  q.ref_cnt[c] = 0 <=> \E i \in 1 .. Len(g) : g[i] = c
  <2>1. CASE c = b
    <3>1. 1 \in 1 .. Len(g) /\ g[1] = c
      BY <1>1, <2>1
    <3> QED BY <3>1, <2>1 DEF PushFreeHead, PoolOK, AnyPool
  <2>2. CASE c # b
    <3>1. q.ref_cnt[c] = p.ref_cnt[c]
      BY <2>2 DEF PushFreeHead, PoolOK, AnyPool
    <3>2. ASSUME NEW i \in 1 .. Len(f), f[i] = c
          PROVE  \E j \in 1 .. Len(g) : g[j] = c
      <4>1. i + 1 \in 1 .. Len(g) /\ i + 1 \in 2 .. Len(g) /\ (i + 1) - 1 = i
        BY <1>1
      <4>2. g[i + 1] = c
        BY <1>1, <4>1, <3>2
      <4> QED BY <4>1, <4>2
    <3>3. ASSUME NEW j \in 1 .. Len(g), g[j] = c
          PROVE  \E i \in 1 .. Len(f) : f[i] = c
      <4>1. j # 1
        BY <1>1, <2>2, <3>3
      <4>2. j - 1 \in 1 .. Len(f) /\ f[j - 1] = c
        BY <1>1, <3>3, <4>1
      <4> QED BY <4>2
    <3> QED BY <3>1, <3>2, <3>3 DEF PoolOK, AnyPool, FreeListExact
  <2> QED BY <2>1, <2>2
<1>5. q \in [ref_cnt : [Block -> Nat], free_list : Seq(Block), num_allocated : Int]
  BY <1>1 DEF PushFreeHead, PoolOK, AnyPool
<1>6. CountExact(q)
  BY <1>1, NumBlocksAssumption DEF PoolOK, AnyPool, CountExact, num_free, PushFreeHead
<1> QED
  BY <1>3, <1>4, <1>5, <1>6 DEF PoolOK, AnyPool, FreeListExact, PushFreeHead

\* Changing one count without making it zero, or leaving zero, disturbs nothing.
LEMMA RecountOK ==
  ASSUME NEW p, PoolOK(p), NEW b \in Block, p.ref_cnt[b] # 0, NEW k \in Nat \ {0}
  PROVE  PoolOK([p EXCEPT !.ref_cnt[b] = k])
<1> DEFINE q == [p EXCEPT !.ref_cnt[b] = k]
<1>1. q.free_list = p.free_list /\ q.num_allocated = p.num_allocated
      /\ q.ref_cnt = [p.ref_cnt EXCEPT ![b] = k]
      /\ q \in [ref_cnt : [Block -> Nat], free_list : Seq(Block), num_allocated : Int]
  BY DEF PoolOK, AnyPool
<1>2. FreeListExact(q)
  BY <1>1 DEF PoolOK, AnyPool, FreeListExact
<1>3. CountExact(q)
  BY <1>1 DEF PoolOK, AnyPool, CountExact, num_free
<1> QED BY <1>1, <1>2, <1>3 DEF PoolOK, AnyPool

\* An iteration of free keeps the pool consistent when the id passed the checks.
LEMMA FreeOneOK ==
  ASSUME NEW p, PoolOK(p), NEW b, Allocated(p, b)
  PROVE  PoolOK(FreeOne(p, b))
<1>1. b \in Block /\ p.ref_cnt[b] \in Nat /\ p.ref_cnt[b] # 0
  BY DEF Allocated, PoolOK, AnyPool
<1>2. CASE p.ref_cnt[b] = 1
  BY <1>1, <1>2, PushFreeHeadOK DEF FreeOne
<1>3. CASE p.ref_cnt[b] # 1
  <2>1. p.ref_cnt[b] - 1 \in Nat \ {0}
    BY <1>1, <1>3
  <2>2. PoolOK([p EXCEPT !.ref_cnt[b] = p.ref_cnt[b] - 1])
    BY <1>1, <2>1, RecountOK
  <2> QED BY <1>3, <2>2 DEF FreeOne
<1> QED BY <1>2, <1>3

\* So does an iteration of ref.
LEMMA RefOneOK ==
  ASSUME NEW p, PoolOK(p), NEW b, Allocated(p, b)
  PROVE  PoolOK(RefOne(p, b))
<1>1. b \in Block /\ p.ref_cnt[b] # 0 /\ p.ref_cnt[b] + 1 \in Nat \ {0}
  BY DEF Allocated, PoolOK, AnyPool
<1>2. PoolOK([p EXCEPT !.ref_cnt[b] = p.ref_cnt[b] + 1])
  BY <1>1, RecountOK
<1> QED BY <1>2 DEF RefOne

\* The free list is a bijection from its positions to the unreferenced blocks,
\* so the cached count is the number of referenced ones.
LEMMA AllocatedCount ==
  ASSUME NEW p, PoolOK(p)
  PROVE  AllocatedExact(p) /\ p.num_allocated \in Nat
<1> DEFINE f      == p.free_list
           n      == Len(f)
           unused == {b \in Block : p.ref_cnt[b] = 0}
           used   == {b \in Block : p.ref_cnt[b] > 0}
<1>1. f \in Seq(Block) /\ n \in Nat /\ f \in [1 .. n -> Block]
  BY LenProperties, ElementOfSeq DEF PoolOK, AnyPool
<1>2. f \in Bijection(1 .. n, unused)
  <2>1. f \in [1 .. n -> unused]
    BY <1>1 DEF PoolOK, AnyPool, FreeListExact
  <2>2. f \in Injection(1 .. n, unused)
    BY <2>1 DEF PoolOK, AnyPool, FreeListExact, NoDuplicates, Injection, IsInjective
  <2>3. \A b \in unused : \E i \in 1 .. n : f[i] = b
    BY DEF PoolOK, AnyPool, FreeListExact
  <2>4. f \in Surjection(1 .. n, unused)
    BY <2>1, <2>3 DEF Surjection
  <2> QED BY <2>2, <2>4 DEF Bijection
<1>3. Cardinality(unused) = n
  <2>1. IsFiniteSet(1 .. n) /\ Cardinality(1 .. n) = n
    <3> HIDE DEF n
    <3>1. 1 \in Int /\ n \in Int
      BY <1>1
    <3>2. IsFiniteSet(1 .. n) /\ Cardinality(1 .. n) = IF 1 > n THEN 0 ELSE n - 1 + 1
      BY <3>1, FS_Interval, Zenon
    <3> QED BY <1>1, <3>2
  <2>2. ExistsBijection(1 .. n, unused)
    BY <1>2 DEF ExistsBijection
  <2> QED BY <2>1, <2>2, FS_Bijection
<1>4. IsFiniteSet(Block) /\ Cardinality(Block) = NumBlocks
  BY NumBlocksAssumption, FS_Interval DEF Block
<1>5. used = Block \ unused /\ Block \cap unused = unused
  BY DEF PoolOK, AnyPool
<1>6. Cardinality(used) = NumBlocks - n
  <2> HIDE DEF unused, used, n
  <2>1. Cardinality(Block \ unused) = Cardinality(Block) - Cardinality(Block \cap unused)
    BY <1>4, FS_Difference, Zenon
  <2> QED BY <2>1, <1>3, <1>4, <1>5
<1>7. p.num_allocated = NumBlocks - n
  <2>1. p.num_allocated \in Int /\ NumBlocks - p.num_allocated = n
    BY DEF PoolOK, AnyPool, CountExact, num_free
  <2> HIDE DEF n
  <2> QED BY <1>1, <2>1, NumBlocksAssumption
<1>8. Cardinality(used) \in Nat
  <2> HIDE DEF unused, used, n
  <2>1. IsFiniteSet(Block \ unused)
    BY <1>4, FS_Difference, Zenon
  <2>2. IsFiniteSet(used)
    BY <2>1, <1>5
  <2> QED BY <2>2, FS_CardinalityType, Zenon
<1> QED BY <1>6, <1>7, <1>8 DEF AllocatedExact

-----------------------------------------------------------------------------
(* Whole calls.  free and ref are loops over the ids of the call; what they *)
(* answer is one of Results.                                               *)

Results == [ok : BOOLEAN, pool : AnyPool, ids : {<<>>}]

FreeTurn == [x \in Results \X Int |-> OneId(x[1], x[2], FreeOne(x[1].pool, x[2]))]
RefTurn  == [x \in Results \X Int |-> OneId(x[1], x[2], RefOne(x[1].pool, x[2]))]

\* An iteration on an id that passed the checks leaves a pool.
LEMMA OneIdType ==
  ASSUME NEW r \in Results, NEW b \in Int
  PROVE  /\ OneId(r, b, FreeOne(r.pool, b)) \in Results
         /\ OneId(r, b, RefOne(r.pool, b)) \in Results
<1>1. Thrown(r.pool) \in Results
  BY DEF Thrown, Results
<1>2. ASSUME Allocated(r.pool, b)
      PROVE  FreeOne(r.pool, b) \in AnyPool /\ RefOne(r.pool, b) \in AnyPool
  <2> DEFINE p == r.pool
  <2>1. p \in AnyPool /\ b \in Block /\ p.ref_cnt[b] \in Nat /\ p.ref_cnt[b] >= 1
    BY <1>2 DEF Allocated, Results, AnyPool
  <2> HIDE DEF p
  <2>2. p.ref_cnt[b] - 1 \in Nat /\ p.ref_cnt[b] + 1 \in Nat
    BY <2>1
  <2>3. ASSUME NEW k \in Nat PROVE [p EXCEPT !.ref_cnt[b] = k] \in AnyPool
    BY <2>1 DEF AnyPool
  <2>4. <<b>> \o p.free_list \in Seq(Block)
    BY <2>1 DEF AnyPool
  <2>5. PushFreeHead(p, b) \in AnyPool
    BY <2>1, <2>4 DEF PushFreeHead, AnyPool
  <2>6. FreeOne(p, b) \in AnyPool
    BY <2>2, <2>3, <2>5 DEF FreeOne
  <2>7. RefOne(p, b) \in AnyPool
    BY <2>2, <2>3 DEF RefOne
  <2> QED BY <2>6, <2>7 DEF p
<1>3. ASSUME NEW q \in AnyPool PROVE [r EXCEPT !.pool = q] \in Results
  BY DEF Results
<1> QED BY <1>1, <1>2, <1>3 DEF OneId

\* An iteration of a call that has not thrown goes on or throws.
LEMMA OneIdBegun ==
  ASSUME NEW p, NEW b, NEW q
  PROVE  OneId(Begun(p), b, q) = IF Allocated(p, b) THEN Begun(q) ELSE Thrown(p)
<1>1. Begun(p).ok
  BY DEF Begun
<1>2. Begun(p).pool = p
  BY DEF Begun
<1>3. [Begun(p) EXCEPT !.pool = q] = Begun(q)
  <2>1. PICK i : i = <<>>
    OBVIOUS
  <2>2. PICK o : o = TRUE
    OBVIOUS
  <2>3. Begun(p) = [ok |-> o, pool |-> p, ids |-> i] /\ Begun(q) = [ok |-> o, pool |-> q, ids |-> i]
    BY <2>1, <2>2, Zenon DEF Begun
  <2> QED BY ONLY <2>3
<1> QED BY <1>1, <1>2, <1>3 DEF OneId

\* The turns of both loops lead from answers to answers.
LEMMA TurnsOfResults == Turns(FreeTurn, Results, Int) /\ Turns(RefTurn, Results, Int)
<1>1. ASSUME NEW x \in Results \X Int
      PROVE  /\ OneId(x[1], x[2], FreeOne(x[1].pool, x[2])) \in Results
             /\ OneId(x[1], x[2], RefOne(x[1].pool, x[2])) \in Results
  BY OneIdType
<1> QED BY <1>1 DEF Turns, FreeTurn, RefTurn

\* Free is the loop of FreeTurn.
LEMMA FreeIsFold ==
  ASSUME NEW p \in AnyPool, NEW ids \in Seq(Int)
  PROVE  Free(p, ids) = FoldOf(FreeTurn, Begun(p), ids)
<1> DEFINE n == Len(ids)
           P(G) == G = [s \in SUBSET (1 .. n) |->
                          IF s = {} THEN Begun(p)
                          ELSE OneId(G[s \ {Max(s)}], ids[Max(s)],
                                     FreeOne(G[s \ {Max(s)}].pool, ids[Max(s)]))]
           H == CHOOSE G : P(G)
           v == [k \in 0 .. n |-> H[1 .. k]]
<1>1. n \in Nat /\ DOMAIN ids = 1 .. n
  OBVIOUS
<1>2. Free(p, ids) = H[1 .. n]
  BY <1>1 DEF Free, FoldLeft, MapThenFoldSet
<1>3. Begun(p) \in Results
  BY DEF Begun, Results
<1>4. \E G : P(G)
  <2>1. PICK G : IsFold(G, FreeTurn, Results, Int, Begun(p), ids)
    BY <1>3, TurnsOfResults, FoldExists
  <2>2. ASSUME NEW s \in SUBSET (1 .. n), s # {}
        PROVE  G[s] = OneId(G[s \ {Max(s)}], ids[Max(s)],
                            FreeOne(G[s \ {Max(s)}].pool, ids[Max(s)]))
    BY <2>1, <2>2 DEF FreeTurn, IsFold
  <2>3. P(G)
    BY <2>1, <2>2 DEF IsFold
  <2> QED BY <2>3
<1>5. P(H)
  BY <1>4
<1> HIDE DEF H
<1>6. v[0] = Begun(p)
  <2>1. 1 .. 0 = {} /\ {} \in SUBSET (1 .. n)
    OBVIOUS
  <2> QED BY <1>1, <1>5, <2>1
<1>7. ASSUME NEW k \in 1 .. n
      PROVE  v[k] = OneId(v[k - 1], ids[k], FreeOne(v[k - 1].pool, ids[k]))
  <2> HIDE DEF n
  <2> DEFINE s == 1 .. k
  <2>0. s \in SUBSET (1 .. n) /\ s # {} /\ s \ {k} = 1 .. k - 1 /\ Max(s) = k
    BY <1>1, Intervals
  <2>1. H[1 .. k] = OneId(H[1 .. k - 1], ids[k], FreeOne(H[1 .. k - 1].pool, ids[k]))
    <3> HIDE DEF s
    <3>1. H[s] = OneId(H[s \ {k}], ids[k], FreeOne(H[s \ {k}].pool, ids[k]))
      BY <1>5, <2>0
    <3> QED BY <3>1, <2>0 DEF s
  <2>2. k - 1 \in 0 .. n /\ k \in 0 .. n
    BY <1>1
  <2> QED BY <2>1, <2>2
<1>8. ASSUME NEW k \in 1 .. n, v[k - 1] \in Results PROVE v[k] = FreeTurn[<<v[k - 1], ids[k]>>]
  <2> HIDE DEF v
  <2>1. ids[k] \in Int
    OBVIOUS
  <2> QED BY <1>7, <1>8, <2>1 DEF FreeTurn
<1>9. v[n] = Run(FreeTurn, Begun(p), ids)[n]
  <2> HIDE DEF v
  <2>1. \A k \in 0 .. Len(ids) : v[k] \in Results /\ v[k] = Run(FreeTurn, Begun(p), ids)[k]
    BY <1>3, <1>6, <1>8, TurnsOfResults, RunIsFold
  <2> QED BY <2>1
<1> QED BY <1>1, <1>2, <1>9 DEF FoldOf

\* Ref is the loop of RefTurn.
LEMMA RefIsFold ==
  ASSUME NEW p \in AnyPool, NEW ids \in Seq(Int)
  PROVE  Ref(p, ids) = FoldOf(RefTurn, Begun(p), ids)
<1> DEFINE n == Len(ids)
           P(G) == G = [s \in SUBSET (1 .. n) |->
                          IF s = {} THEN Begun(p)
                          ELSE OneId(G[s \ {Max(s)}], ids[Max(s)],
                                     RefOne(G[s \ {Max(s)}].pool, ids[Max(s)]))]
           H == CHOOSE G : P(G)
           v == [k \in 0 .. n |-> H[1 .. k]]
<1>1. n \in Nat /\ DOMAIN ids = 1 .. n
  OBVIOUS
<1>2. Ref(p, ids) = H[1 .. n]
  BY <1>1 DEF Ref, FoldLeft, MapThenFoldSet
<1>3. Begun(p) \in Results
  BY DEF Begun, Results
<1>4. \E G : P(G)
  <2>1. PICK G : IsFold(G, RefTurn, Results, Int, Begun(p), ids)
    BY <1>3, TurnsOfResults, FoldExists
  <2>2. ASSUME NEW s \in SUBSET (1 .. n), s # {}
        PROVE  G[s] = OneId(G[s \ {Max(s)}], ids[Max(s)],
                            RefOne(G[s \ {Max(s)}].pool, ids[Max(s)]))
    BY <2>1, <2>2 DEF RefTurn, IsFold
  <2>3. P(G)
    BY <2>1, <2>2 DEF IsFold
  <2> QED BY <2>3
<1>5. P(H)
  BY <1>4
<1> HIDE DEF H
<1>6. v[0] = Begun(p)
  <2>1. 1 .. 0 = {} /\ {} \in SUBSET (1 .. n)
    OBVIOUS
  <2> QED BY <1>1, <1>5, <2>1
<1>7. ASSUME NEW k \in 1 .. n
      PROVE  v[k] = OneId(v[k - 1], ids[k], RefOne(v[k - 1].pool, ids[k]))
  <2> HIDE DEF n
  <2> DEFINE s == 1 .. k
  <2>0. s \in SUBSET (1 .. n) /\ s # {} /\ s \ {k} = 1 .. k - 1 /\ Max(s) = k
    BY <1>1, Intervals
  <2>1. H[1 .. k] = OneId(H[1 .. k - 1], ids[k], RefOne(H[1 .. k - 1].pool, ids[k]))
    <3> HIDE DEF s
    <3>1. H[s] = OneId(H[s \ {k}], ids[k], RefOne(H[s \ {k}].pool, ids[k]))
      BY <1>5, <2>0
    <3> QED BY <3>1, <2>0 DEF s
  <2>2. k - 1 \in 0 .. n /\ k \in 0 .. n
    BY <1>1
  <2> QED BY <2>1, <2>2
<1>8. ASSUME NEW k \in 1 .. n, v[k - 1] \in Results PROVE v[k] = RefTurn[<<v[k - 1], ids[k]>>]
  <2> HIDE DEF v
  <2>1. ids[k] \in Int
    OBVIOUS
  <2> QED BY <1>7, <1>8, <2>1 DEF RefTurn
<1>9. v[n] = Run(RefTurn, Begun(p), ids)[n]
  <2> HIDE DEF v
  <2>1. \A k \in 0 .. Len(ids) : v[k] \in Results /\ v[k] = Run(RefTurn, Begun(p), ids)[k]
    BY <1>3, <1>6, <1>8, TurnsOfResults, RunIsFold
  <2> QED BY <2>1
<1> QED BY <1>1, <1>2, <1>9 DEF FoldOf

\* free of no ids does nothing, and one id more is one iteration more.
LEMMA FreeSteps ==
  ASSUME NEW p \in AnyPool
  PROVE  /\ Free(p, <<>>) = Begun(p)
         /\ \A ids \in Seq(Int) : Free(p, ids) \in Results
         /\ \A ids \in Seq(Int), b \in Int :
              Free(p, Append(ids, b)) = OneId(Free(p, ids), b, FreeOne(Free(p, ids).pool, b))
<1>1. Begun(p) \in Results
  BY DEF Begun, Results
<1>2. Free(p, <<>>) = Begun(p)
  <2>1. FoldOf(FreeTurn, Begun(p), <<>>) = Begun(p)
    BY <1>1, TurnsOfResults, FoldEmpty
  <2>2. <<>> \in Seq(Int)
    OBVIOUS
  <2> QED BY <2>1, <2>2, FreeIsFold
<1>3. ASSUME NEW ids \in Seq(Int) PROVE Free(p, ids) \in Results
  <2>1. FoldOf(FreeTurn, Begun(p), ids) \in Results
    BY <1>1, TurnsOfResults, FoldType
  <2> QED BY <2>1, FreeIsFold
<1>4. ASSUME NEW ids \in Seq(Int), NEW b \in Int
      PROVE  Free(p, Append(ids, b)) = OneId(Free(p, ids), b, FreeOne(Free(p, ids).pool, b))
  <2> DEFINE more == Append(ids, b)
  <2>1. FoldOf(FreeTurn, Begun(p), more) = FreeTurn[<<FoldOf(FreeTurn, Begun(p), ids), b>>]
    BY <1>1, TurnsOfResults, FoldAppend
  <2>2. more \in Seq(Int)
    OBVIOUS
  <2> HIDE DEF more
  <2>3. Free(p, more) = FreeTurn[<<Free(p, ids), b>>]
    BY <2>1, <2>2, FreeIsFold
  <2>4. Free(p, ids) \in Results
    BY <1>3
  <2> QED BY <2>3, <2>4 DEF FreeTurn, more
<1> QED BY <1>2, <1>3, <1>4

\* Nothing is done after a throw.
LEMMA FreeThrown ==
  ASSUME NEW p \in AnyPool, NEW ids \in Seq(Int), NEW rest \in Seq(Int), ~Free(p, ids).ok
  PROVE  Free(p, ids \o rest) = Free(p, ids)
<1>1. Begun(p) \in Results
  BY DEF Begun, Results
<1>2. FoldOf(FreeTurn, Begun(p), ids) = Free(p, ids)
  BY FreeIsFold
<1>3. Free(p, ids) \in Results
  BY FreeSteps
<1>4. ASSUME NEW b \in Int PROVE FreeTurn[<<Free(p, ids), b>>] = Free(p, ids)
  BY <1>3 DEF FreeTurn, OneId
<1> DEFINE all == ids \o rest
<1>5. FoldOf(FreeTurn, Begun(p), all) = Free(p, ids)
  BY <1>1, <1>2, <1>4, TurnsOfResults, FoldStays
<1>6. all \in Seq(Int)
  OBVIOUS
<1> HIDE DEF all
<1>7. Free(p, all) = FoldOf(FreeTurn, Begun(p), all)
  BY <1>6, FreeIsFold
<1> QED BY <1>5, <1>7 DEF all

\* ref of no ids does nothing, and one id more is one iteration more.
LEMMA RefSteps ==
  ASSUME NEW p \in AnyPool
  PROVE  /\ Ref(p, <<>>) = Begun(p)
         /\ \A ids \in Seq(Int) : Ref(p, ids) \in Results
         /\ \A ids \in Seq(Int), b \in Int :
              Ref(p, Append(ids, b)) = OneId(Ref(p, ids), b, RefOne(Ref(p, ids).pool, b))
<1>1. Begun(p) \in Results
  BY DEF Begun, Results
<1>2. Ref(p, <<>>) = Begun(p)
  <2>1. FoldOf(RefTurn, Begun(p), <<>>) = Begun(p)
    BY <1>1, TurnsOfResults, FoldEmpty
  <2>2. <<>> \in Seq(Int)
    OBVIOUS
  <2> QED BY <2>1, <2>2, RefIsFold
<1>3. ASSUME NEW ids \in Seq(Int) PROVE Ref(p, ids) \in Results
  <2>1. FoldOf(RefTurn, Begun(p), ids) \in Results
    BY <1>1, TurnsOfResults, FoldType
  <2> QED BY <2>1, RefIsFold
<1>4. ASSUME NEW ids \in Seq(Int), NEW b \in Int
      PROVE  Ref(p, Append(ids, b)) = OneId(Ref(p, ids), b, RefOne(Ref(p, ids).pool, b))
  <2> DEFINE more == Append(ids, b)
  <2>1. FoldOf(RefTurn, Begun(p), more) = RefTurn[<<FoldOf(RefTurn, Begun(p), ids), b>>]
    BY <1>1, TurnsOfResults, FoldAppend
  <2>2. more \in Seq(Int)
    OBVIOUS
  <2> HIDE DEF more
  <2>3. Ref(p, more) = RefTurn[<<Ref(p, ids), b>>]
    BY <2>1, <2>2, RefIsFold
  <2>4. Ref(p, ids) \in Results
    BY <1>3
  <2> QED BY <2>3, <2>4 DEF RefTurn, more
<1> QED BY <1>2, <1>3, <1>4

\* Nothing is done after a throw.
LEMMA RefThrown ==
  ASSUME NEW p \in AnyPool, NEW ids \in Seq(Int), NEW rest \in Seq(Int), ~Ref(p, ids).ok
  PROVE  Ref(p, ids \o rest) = Ref(p, ids)
<1>1. Begun(p) \in Results
  BY DEF Begun, Results
<1>2. FoldOf(RefTurn, Begun(p), ids) = Ref(p, ids)
  BY RefIsFold
<1>3. Ref(p, ids) \in Results
  BY RefSteps
<1>4. ASSUME NEW b \in Int PROVE RefTurn[<<Ref(p, ids), b>>] = Ref(p, ids)
  BY <1>3 DEF RefTurn, OneId
<1> DEFINE all == ids \o rest
<1>5. FoldOf(RefTurn, Begun(p), all) = Ref(p, ids)
  BY <1>1, <1>2, <1>4, TurnsOfResults, FoldStays
<1>6. all \in Seq(Int)
  OBVIOUS
<1> HIDE DEF all
<1>7. Ref(p, all) = FoldOf(RefTurn, Begun(p), all)
  BY <1>6, RefIsFold
<1> QED BY <1>5, <1>7 DEF all

\* The pool after k pops.
Taken(p, k) ==
  [ref_cnt       |-> [b \in Block |-> IF Contains(SubSeq(p.free_list, 1, k), b) THEN 1 ELSE p.ref_cnt[b]],
   free_list     |-> SubSeq(p.free_list, k + 1, Len(p.free_list)),
   num_allocated |-> p.num_allocated + k]

\* alloc is that many pops of the free list.
LEMMA AllocTakes ==
  ASSUME NEW p, PoolOK(p), NEW k \in Nat, k <= Len(p.free_list)
  PROVE  Alloc(p, k) = [ok |-> TRUE, pool |-> Taken(p, k), ids |-> SubSeq(p.free_list, 1, k)]
<1>1. num_free(p) = Len(p.free_list)
  BY DEF PoolOK, CountExact
<1>2. Len(p.free_list) \in Nat
  BY DEF PoolOK, AnyPool
<1>3. ~(k < 0 \/ num_free(p) < k)
  BY <1>1, <1>2
<1> QED BY <1>3 DEF Alloc, Taken

\* alloc of no blocks takes nothing, and one block more is one pop more.
LEMMA AllocNone ==
  ASSUME NEW p, PoolOK(p)
  PROVE  Alloc(p, 0) = Begun(p)
<1> DEFINE f == p.free_list
<1>1. f \in Seq(Block) /\ p.num_allocated \in Int
  BY DEF PoolOK, AnyPool
<1>2. SubSeq(f, 1, 0) = <<>>
  BY <1>1
<1>3. SubSeq(f, 0 + 1, Len(f)) = f
  BY <1>1
<1>4. [b \in Block |-> IF Contains(SubSeq(f, 1, 0), b) THEN 1 ELSE p.ref_cnt[b]] = p.ref_cnt
  <2>1. \A b \in Block : ~Contains(<<>>, b)
    BY DEF Contains
  <2>2. p.ref_cnt = [b \in Block |-> p.ref_cnt[b]]
    BY DEF PoolOK, AnyPool
  <2> HIDE DEF f
  <2> QED BY <1>2, <2>1, <2>2
<1>5. p = [ref_cnt |-> p.ref_cnt, free_list |-> f, num_allocated |-> p.num_allocated]
  BY DEF PoolOK, AnyPool
<1>6. p.num_allocated + 0 = p.num_allocated
  BY <1>1
<1>7. Taken(p, 0) = p
  <2>1. Taken(p, 0) = [ref_cnt |-> p.ref_cnt, free_list |-> f, num_allocated |-> p.num_allocated]
    BY <1>3, <1>4, <1>6 DEF Taken
  <2> QED BY <1>5, <2>1
<1>8. Len(f) >= 0
  BY <1>1
<1> QED BY <1>2, <1>7, <1>8, AllocTakes DEF Begun

\* One pop more is pop_free_head.
LEMMA TakenMore ==
  ASSUME NEW p, PoolOK(p), NEW k \in Nat, k < Len(p.free_list)
  PROVE  /\ Taken(p, k).free_list # <<>>
         /\ Taken(p, k + 1) = PopFreeHead(Taken(p, k))
         /\ SubSeq(p.free_list, 1, k + 1)
            = Append(SubSeq(p.free_list, 1, k), Head(Taken(p, k).free_list))
<1> DEFINE f    == p.free_list
           h    == f[k + 1]
           rest == SubSeq(f, k + 1, Len(f))
           got  == SubSeq(f, 1, k)
           more == SubSeq(f, 1, k + 1)
<1>1. f \in Seq(Block) /\ Len(f) \in Nat /\ p.num_allocated \in Int
  BY DEF PoolOK, AnyPool
<1>2. h \in Block
  BY <1>1
<1>3. rest \in Seq(Block) /\ Len(rest) = Len(f) - k /\ rest[1] = h
  BY <1>1
<1>4. rest # <<>> /\ Head(rest) = h
  <2>1. Len(rest) >= 1
    BY <1>1, <1>3
  <2> HIDE DEF rest, h
  <2> QED BY <1>3, <2>1
<1>5. Tail(rest) = SubSeq(f, (k + 1) + 1, Len(f))
  BY <1>1
<1>6. more = Append(got, h)
  BY <1>1
<1>7. ASSUME NEW b \in Block PROVE Contains(more, b) <=> Contains(got, b) \/ b = h
  <2>1. got \in Seq(Block) /\ Len(got) = k
    BY <1>1
  <2> HIDE DEF got, more, h
  <2> QED BY <1>2, <1>6, <2>1 DEF Contains
<1>8. [[b \in Block |-> IF Contains(got, b) THEN 1 ELSE p.ref_cnt[b]] EXCEPT ![h] = 1]
      = [b \in Block |-> IF Contains(more, b) THEN 1 ELSE p.ref_cnt[b]]
  <2> HIDE DEF got, more, h
  <2> QED BY <1>2, <1>7
<1>9. p.num_allocated + k + 1 = p.num_allocated + (k + 1)
  BY <1>1
<1>10. PopFreeHead(Taken(p, k))
       = [ref_cnt       |-> [[b \in Block |-> IF Contains(got, b) THEN 1 ELSE p.ref_cnt[b]]
                               EXCEPT ![Head(rest)] = 1],
          free_list     |-> Tail(rest),
          num_allocated |-> p.num_allocated + k + 1]
  BY DEF PopFreeHead, Taken
<1>11. Taken(p, k + 1)
       = [ref_cnt       |-> [b \in Block |-> IF Contains(more, b) THEN 1 ELSE p.ref_cnt[b]],
          free_list     |-> SubSeq(f, (k + 1) + 1, Len(f)),
          num_allocated |-> p.num_allocated + (k + 1)]
  BY DEF Taken
<1>12. Taken(p, k + 1) = PopFreeHead(Taken(p, k))
  <2> HIDE DEF got, more, h, rest, f
  <2> QED BY <1>4, <1>5, <1>8, <1>9, <1>10, <1>11
<1>13. Taken(p, k).free_list = rest
  BY DEF Taken
<1> HIDE DEF got, more, h, rest
<1>14. Taken(p, k).free_list # <<>> /\ more = Append(got, Head(Taken(p, k).free_list))
  BY <1>4, <1>6, <1>13
<1> QED BY <1>12, <1>14 DEF got, more

\* alloc of one block more is one pop more.
LEMMA AllocMore ==
  ASSUME NEW p, PoolOK(p), NEW k \in Nat, k < Len(p.free_list)
  PROVE  /\ Alloc(p, k).pool.free_list # <<>>
         /\ Alloc(p, k + 1) =
              [ok   |-> TRUE,
               pool |-> PopFreeHead(Alloc(p, k).pool),
               ids  |-> Append(Alloc(p, k).ids, Head(Alloc(p, k).pool.free_list))]
<1>1. Len(p.free_list) \in Nat /\ k <= Len(p.free_list) /\ k + 1 \in Nat /\ k + 1 <= Len(p.free_list)
  BY DEF PoolOK, AnyPool
<1>2. Alloc(p, k) = [ok |-> TRUE, pool |-> Taken(p, k), ids |-> SubSeq(p.free_list, 1, k)]
  BY <1>1, AllocTakes
<1>3. Alloc(p, k + 1) = [ok |-> TRUE, pool |-> Taken(p, k + 1), ids |-> SubSeq(p.free_list, 1, k + 1)]
  BY <1>1, AllocTakes
<1>4. /\ Taken(p, k).free_list # <<>>
      /\ Taken(p, k + 1) = PopFreeHead(Taken(p, k))
      /\ SubSeq(p.free_list, 1, k + 1) = Append(SubSeq(p.free_list, 1, k), Head(Taken(p, k).free_list))
  BY TakenMore
<1>5. Alloc(p, k).pool = Taken(p, k) /\ Alloc(p, k).ids = SubSeq(p.free_list, 1, k)
  BY <1>2
<1> QED BY <1>3, <1>4, <1>5

-----------------------------------------------------------------------------
(* Calls on a table: a sequence of blocks without repetition.              *)

Table == {t \in Seq(Block) : NoDuplicates(t)}

\* A table one block longer, and what it holds.
LEMMA LongerTable ==
  ASSUME NEW t \in Seq(Block), NEW e \in Block
  PROVE  /\ \A b \in Block : Contains(Append(t, e), b) <=> Contains(t, b) \/ b = e
         /\ NoDuplicates(Append(t, e)) => NoDuplicates(t) /\ ~Contains(t, e)
<1> DEFINE s == Append(t, e)
           n == Len(t)
<1>1. n \in Nat /\ Len(s) = n + 1 /\ s[n + 1] = e /\ \A i \in 1 .. n : s[i] = t[i]
  OBVIOUS
<1> HIDE DEF s, n
<1>2. ASSUME NEW b \in Block PROVE Contains(s, b) <=> Contains(t, b) \/ b = e
  <2>1. Contains(t, b) => Contains(s, b)
    BY <1>1 DEF Contains, n
  <2>2. b = e => Contains(s, b)
    BY <1>1 DEF Contains, n
  <2>3. Contains(s, b) => Contains(t, b) \/ b = e
    BY <1>1 DEF Contains, n
  <2> QED BY <2>1, <2>2, <2>3
<1>3. NoDuplicates(s) => NoDuplicates(t) /\ ~Contains(t, e)
  <2> SUFFICES ASSUME NoDuplicates(s) PROVE NoDuplicates(t) /\ ~Contains(t, e)
    OBVIOUS
  <2>1. NoDuplicates(t)
    BY <1>1 DEF NoDuplicates, n
  <2>2. ~Contains(t, e)
    <3> SUFFICES ASSUME NEW i \in 1 .. n, t[i] = e PROVE FALSE
      BY DEF Contains, n
    <3>1. i \in 1 .. Len(s) /\ n + 1 \in 1 .. Len(s) /\ s[i] = s[n + 1] /\ i # n + 1
      BY <1>1
    <3> QED BY <3>1 DEF NoDuplicates
  <2> QED BY <2>1, <2>2
<1> QED BY <1>2, <1>3 DEF s

\* free of a table whose blocks are all allocated takes one reference of each.
LEMMA FreeTable ==
  ASSUME NEW p, PoolOK(p), NEW t \in Table, \A b \in Block : Contains(t, b) => p.ref_cnt[b] >= 1
  PROVE  /\ Free(p, t).ok
         /\ PoolOK(Free(p, t).pool)
         /\ \A b \in Block :
              Free(p, t).pool.ref_cnt[b] = IF Contains(t, b) THEN p.ref_cnt[b] - 1 ELSE p.ref_cnt[b]
<1> DEFINE Exact(s) == /\ Free(p, s).ok
                       /\ PoolOK(Free(p, s).pool)
                       /\ \A b \in Block : Free(p, s).pool.ref_cnt[b]
                            = IF Contains(s, b) THEN p.ref_cnt[b] - 1 ELSE p.ref_cnt[b]
           Alive(s) == NoDuplicates(s) /\ \A b \in Block : Contains(s, b) => p.ref_cnt[b] >= 1
           S == {s \in Seq(Block) : Alive(s) => Exact(s)}
<1>0. p \in AnyPool /\ Block \subseteq Int /\ \A b \in Block : p.ref_cnt[b] \in Nat
  BY NumBlocksAssumption DEF PoolOK, AnyPool, Block
<1>1. <<>> \in S
  <2> DEFINE e == <<>>
  <2>1. Free(p, e) = Begun(p)
    BY <1>0, FreeSteps
  <2>2. e \in Seq(Block) /\ Len(e) = 0
    OBVIOUS
  <2>3. \A b \in Block : ~Contains(e, b)
    BY <2>2 DEF Contains
  <2>4. Begun(p).ok /\ Begun(p).pool = p
    BY DEF Begun
  <2> HIDE DEF e
  <2>5. Exact(e)
    BY <2>1, <2>3, <2>4
  <2> QED BY <2>2, <2>5 DEF e
<1>2. ASSUME NEW s \in Seq(Block), NEW e \in Block, s \in S PROVE Append(s, e) \in S
  <2> DEFINE m == Append(s, e)
             r == Free(p, s)
  <2>1. m \in Seq(Block) /\ s \in Seq(Int) /\ e \in Int
    BY <1>0
  <2>2. /\ \A b \in Block : Contains(m, b) <=> Contains(s, b) \/ b = e
        /\ NoDuplicates(m) => NoDuplicates(s) /\ ~Contains(s, e)
    BY LongerTable
  <2>3. Free(p, m) = OneId(r, e, FreeOne(r.pool, e))
    BY <1>0, <2>1, FreeSteps
  <2>4. r \in Results
    BY <1>0, <2>1, FreeSteps
  <2> HIDE DEF m
  <2> SUFFICES ASSUME Alive(m) PROVE Exact(m)
    BY <2>1 DEF m
  <2>5. Alive(s) /\ ~Contains(s, e) /\ p.ref_cnt[e] >= 1
    BY <2>2
  <2>6. Exact(s)
    BY <1>2, <2>5
  <2>7. r.ok /\ PoolOK(r.pool) /\ r.pool.ref_cnt[e] = p.ref_cnt[e]
    BY <2>5, <2>6
  <2> DEFINE q == r.pool
  <2>8. Allocated(q, e)
    BY <2>5, <2>7 DEF Allocated
  <2>9. Free(p, m) = [r EXCEPT !.pool = FreeOne(q, e)]
    BY <2>3, <2>7, <2>8 DEF OneId
  <2>10. Free(p, m).ok /\ Free(p, m).pool = FreeOne(q, e)
    BY <2>4, <2>7, <2>9 DEF Results
  <2>11. PoolOK(FreeOne(q, e))
    BY <2>7, <2>8, FreeOneOK
  <2>12. ASSUME NEW b \in Block
         PROVE  FreeOne(q, e).ref_cnt[b] = IF b = e THEN q.ref_cnt[e] - 1 ELSE q.ref_cnt[b]
    <3>1. q \in AnyPool
      BY <2>7 DEF PoolOK
    <3> HIDE DEF q
    <3> QED BY <3>1 DEF FreeOne, PushFreeHead, AnyPool
  <2>13. ASSUME NEW b \in Block
         PROVE  FreeOne(q, e).ref_cnt[b] = IF Contains(m, b) THEN p.ref_cnt[b] - 1 ELSE p.ref_cnt[b]
    <3>1. q.ref_cnt[b] = IF Contains(s, b) THEN p.ref_cnt[b] - 1 ELSE p.ref_cnt[b]
      BY <2>6
    <3> HIDE DEF q
    <3> QED BY <2>2, <2>5, <2>12, <3>1
  <2> QED BY <2>10, <2>11, <2>13
<1> HIDE DEF S
<1>3. \A s \in Seq(Block) : s \in S
  BY <1>1, <1>2, SeqInduction
<1>4. t \in Seq(Block) /\ Alive(t)
  BY DEF Table
<1> QED BY <1>3, <1>4 DEF S

\* ref of a table whose blocks are all allocated adds one reference to each.
LEMMA RefTable ==
  ASSUME NEW p, PoolOK(p), NEW t \in Table, \A b \in Block : Contains(t, b) => p.ref_cnt[b] >= 1
  PROVE  /\ Ref(p, t).ok
         /\ PoolOK(Ref(p, t).pool)
         /\ \A b \in Block :
              Ref(p, t).pool.ref_cnt[b] = IF Contains(t, b) THEN p.ref_cnt[b] + 1 ELSE p.ref_cnt[b]
<1> DEFINE Exact(s) == /\ Ref(p, s).ok
                       /\ PoolOK(Ref(p, s).pool)
                       /\ \A b \in Block : Ref(p, s).pool.ref_cnt[b]
                            = IF Contains(s, b) THEN p.ref_cnt[b] + 1 ELSE p.ref_cnt[b]
           Alive(s) == NoDuplicates(s) /\ \A b \in Block : Contains(s, b) => p.ref_cnt[b] >= 1
           S == {s \in Seq(Block) : Alive(s) => Exact(s)}
<1>0. p \in AnyPool /\ Block \subseteq Int /\ \A b \in Block : p.ref_cnt[b] \in Nat
  BY NumBlocksAssumption DEF PoolOK, AnyPool, Block
<1>1. <<>> \in S
  <2> DEFINE e == <<>>
  <2>1. Ref(p, e) = Begun(p)
    BY <1>0, RefSteps
  <2>2. e \in Seq(Block) /\ Len(e) = 0
    OBVIOUS
  <2>3. \A b \in Block : ~Contains(e, b)
    BY <2>2 DEF Contains
  <2>4. Begun(p).ok /\ Begun(p).pool = p
    BY DEF Begun
  <2> HIDE DEF e
  <2>5. Exact(e)
    BY <2>1, <2>3, <2>4
  <2> QED BY <2>2, <2>5 DEF e
<1>2. ASSUME NEW s \in Seq(Block), NEW e \in Block, s \in S PROVE Append(s, e) \in S
  <2> DEFINE m == Append(s, e)
             r == Ref(p, s)
  <2>1. m \in Seq(Block) /\ s \in Seq(Int) /\ e \in Int
    BY <1>0
  <2>2. /\ \A b \in Block : Contains(m, b) <=> Contains(s, b) \/ b = e
        /\ NoDuplicates(m) => NoDuplicates(s) /\ ~Contains(s, e)
    BY LongerTable
  <2>3. Ref(p, m) = OneId(r, e, RefOne(r.pool, e))
    BY <1>0, <2>1, RefSteps
  <2>4. r \in Results
    BY <1>0, <2>1, RefSteps
  <2> HIDE DEF m
  <2> SUFFICES ASSUME Alive(m) PROVE Exact(m)
    BY <2>1 DEF m
  <2>5. Alive(s) /\ ~Contains(s, e) /\ p.ref_cnt[e] >= 1
    BY <2>2
  <2>6. Exact(s)
    BY <1>2, <2>5
  <2>7. r.ok /\ PoolOK(r.pool) /\ r.pool.ref_cnt[e] = p.ref_cnt[e]
    BY <2>5, <2>6
  <2> DEFINE q == r.pool
  <2>8. Allocated(q, e)
    BY <2>5, <2>7 DEF Allocated
  <2>9. Ref(p, m) = [r EXCEPT !.pool = RefOne(q, e)]
    BY <2>3, <2>7, <2>8 DEF OneId
  <2>10. Ref(p, m).ok /\ Ref(p, m).pool = RefOne(q, e)
    BY <2>4, <2>7, <2>9 DEF Results
  <2>11. PoolOK(RefOne(q, e))
    BY <2>7, <2>8, RefOneOK
  <2>12. ASSUME NEW b \in Block
         PROVE  RefOne(q, e).ref_cnt[b] = IF b = e THEN q.ref_cnt[e] + 1 ELSE q.ref_cnt[b]
    <3>1. q \in AnyPool
      BY <2>7 DEF PoolOK
    <3> HIDE DEF q
    <3> QED BY <3>1 DEF RefOne, AnyPool
  <2>13. ASSUME NEW b \in Block
         PROVE  RefOne(q, e).ref_cnt[b] = IF Contains(m, b) THEN p.ref_cnt[b] + 1 ELSE p.ref_cnt[b]
    <3>1. q.ref_cnt[b] = IF Contains(s, b) THEN p.ref_cnt[b] + 1 ELSE p.ref_cnt[b]
      BY <2>6
    <3> HIDE DEF q
    <3> QED BY <2>2, <2>5, <2>12, <3>1
  <2> QED BY <2>10, <2>11, <2>13
<1> HIDE DEF S
<1>3. \A s \in Seq(Block) : s \in S
  BY <1>1, <1>2, SeqInduction
<1>4. t \in Seq(Block) /\ Alive(t)
  BY DEF Table
<1> QED BY <1>3, <1>4 DEF S

\* fork of such a table is ref, and answers the table.
LEMMA ForkTable ==
  ASSUME NEW p, PoolOK(p), NEW t \in Table, \A b \in Block : Contains(t, b) => p.ref_cnt[b] >= 1
  PROVE  /\ Fork(p, t).pool = Ref(p, t).pool
         /\ Fork(p, t).ids = t
<1>1. t \in Seq(Int) /\ p \in AnyPool
  BY NumBlocksAssumption DEF Table, Block, PoolOK
<1>2. Ref(p, t) \in Results
  BY <1>1, RefSteps
<1>3. Ref(p, t).ok
  BY RefTable
<1> HIDE DEF Table
<1> QED BY <1>2, <1>3 DEF Fork, Results

\* free of one sequence of ids after another is two calls.
LEMMA FreeConcat ==
  ASSUME NEW p \in AnyPool, NEW ids \in Seq(Int), Free(p, ids).ok, NEW rest \in Seq(Int)
  PROVE  Free(p, ids \o rest) = Free(Free(p, ids).pool, rest)
<1> DEFINE q == Free(p, ids).pool
           S == {s \in Seq(Int) : Free(p, ids \o s) = Free(q, s)}
<1>0. Free(p, ids) \in Results /\ q \in AnyPool
  <2>1. Free(p, ids) \in Results
    BY FreeSteps
  <2> QED BY <2>1 DEF Results
<1>1. <<>> \in S
  <2>1. Free(p, ids) = Begun(q)
    <3>1. Free(p, ids).ok = TRUE /\ Free(p, ids).ids = <<>>
      BY <1>0 DEF Results
    <3>2. Free(p, ids) = [ok |-> Free(p, ids).ok, pool |-> q, ids |-> Free(p, ids).ids]
      BY <1>0 DEF Results
    <3> QED BY <3>1, <3>2 DEF Begun
  <2>2. ids \o <<>> = ids /\ <<>> \in Seq(Int)
    OBVIOUS
  <2> QED BY <1>0, <2>1, <2>2, FreeSteps
<1>2. ASSUME NEW s \in Seq(Int), NEW e \in Int, s \in S PROVE Append(s, e) \in S
  <2> DEFINE both == ids \o s
             more == Append(s, e)
  <2>1. both \in Seq(Int)
    OBVIOUS
  <2>2. more \in Seq(Int)
    OBVIOUS
  <2>3. ids \o more = Append(both, e)
    OBVIOUS
  <2> HIDE DEF both, more, q
  <2>4. Free(p, Append(both, e)) = OneId(Free(p, both), e, FreeOne(Free(p, both).pool, e))
    BY <2>1, FreeSteps
  <2>5. Free(q, more) = OneId(Free(q, s), e, FreeOne(Free(q, s).pool, e))
    BY <1>0, FreeSteps DEF more
  <2>6. Free(p, both) = Free(q, s)
    BY <1>2 DEF both
  <2>7. Free(p, ids \o more) = Free(q, more)
    BY <2>3, <2>4, <2>5, <2>6
  <2> QED BY <2>2, <2>7 DEF more
<1> HIDE DEF S
<1>3. \A s \in Seq(Int) : s \in S
  BY <1>1, <1>2, SeqInduction
<1> QED BY <1>3 DEF S

\* alloc answers a table of blocks nobody referenced, each with one reference.
LEMMA AllocTable ==
  ASSUME NEW p, PoolOK(p), NEW n \in Nat, Alloc(p, n).ok
  PROVE  /\ PoolOK(Alloc(p, n).pool)
         /\ Alloc(p, n).ids \in Table
         /\ Len(Alloc(p, n).ids) = n
         /\ \A b \in Block : Contains(Alloc(p, n).ids, b) => p.ref_cnt[b] = 0
         /\ \A b \in Block : Alloc(p, n).pool.ref_cnt[b]
                             = IF Contains(Alloc(p, n).ids, b) THEN 1 ELSE p.ref_cnt[b]
<1> DEFINE f == p.free_list
           got == SubSeq(f, 1, n)
<1>1. f \in Seq(Block) /\ Len(f) \in Nat /\ num_free(p) = Len(f)
  BY DEF PoolOK, AnyPool, CountExact
<1>2. n <= Len(f)
  BY <1>1 DEF Alloc, Thrown
<1>3. Alloc(p, n) = [ok |-> TRUE, pool |-> Taken(p, n), ids |-> got]
  BY <1>1, <1>2, AllocTakes
<1>4. Alloc(p, n).pool = Taken(p, n) /\ Alloc(p, n).ids = got
  BY <1>3
<1>5. got \in Seq(Block) /\ Len(got) = n /\ \A i \in 1 .. n : got[i] = f[i]
  BY <1>1, <1>2
<1>6. got \in Table
  <2>1. NoDuplicates(f)
    BY DEF PoolOK, FreeListExact
  <2> HIDE DEF got
  <2>2. NoDuplicates(got)
    BY <1>1, <1>2, <1>5, <2>1 DEF NoDuplicates
  <2> QED BY <1>5, <2>2 DEF Table
<1>7. ASSUME NEW b \in Block, Contains(got, b) PROVE p.ref_cnt[b] = 0
  <2> HIDE DEF got
  <2>1. \E i \in 1 .. Len(f) : f[i] = b
    BY <1>1, <1>2, <1>5, <1>7 DEF Contains
  <2> QED BY <2>1 DEF PoolOK, FreeListExact
<1>8. PoolOK(Taken(p, n))
  <2> DEFINE S == {k \in Nat : PoolOK(Taken(p, k))}
  <2>1. 0 \in S
    <3>1. Alloc(p, 0) = [ok |-> TRUE, pool |-> Taken(p, 0), ids |-> SubSeq(f, 1, 0)]
      BY <1>1, AllocTakes
    <3>2. Alloc(p, 0).pool = Taken(p, 0)
      BY <3>1
    <3>3. Begun(p).pool = p
      BY DEF Begun
    <3> QED BY <3>2, <3>3, AllocNone
  <2>2. ASSUME NEW k \in 0 .. Len(f) - 1, k \in S PROVE k + 1 \in S
    <3>1. Taken(p, k).free_list # <<>> /\ Taken(p, k + 1) = PopFreeHead(Taken(p, k))
      BY <1>1, TakenMore
    <3>2. PoolOK(Taken(p, k))
      BY <2>2
    <3>3. PoolOK(PopFreeHead(Taken(p, k)))
      BY <3>1, <3>2, PopFreeHeadOK
    <3>4. PoolOK(Taken(p, k + 1))
      BY <3>1, <3>3
    <3> QED BY <3>4
  <2> HIDE DEF S
  <2>3. \A k \in 0 .. Len(f) : k \in S
    BY <1>1, <2>1, <2>2, BoundedInduction
  <2> QED BY <1>1, <1>2, <2>3 DEF S
<1>9. ASSUME NEW b \in Block
      PROVE  Taken(p, n).ref_cnt[b] = IF Contains(got, b) THEN 1 ELSE p.ref_cnt[b]
  BY DEF Taken
<1> QED BY <1>4, <1>5, <1>6, <1>7, <1>8, <1>9

\* alloc that throws leaves the pool alone.
LEMMA AllocRefused ==
  ASSUME NEW p, NEW n, ~Alloc(p, n).ok
  PROVE  Alloc(p, n).pool = p
BY DEF Alloc, Thrown

\* One table after another.
LEMMA ConcatTable ==
  ASSUME NEW t \in Table, NEW u \in Table, \A b \in Block : ~(Contains(t, b) /\ Contains(u, b))
  PROVE  /\ t \o u \in Table
         /\ \A b \in Block : Contains(t \o u, b) <=> Contains(t, b) \/ Contains(u, b)
<1> DEFINE s == t \o u
           m == Len(t)
           n == Len(u)
<1>1. t \in Seq(Block) /\ u \in Seq(Block) /\ NoDuplicates(t) /\ NoDuplicates(u)
  BY DEF Table
<1>2. /\ s \in Seq(Block) /\ m \in Nat /\ n \in Nat /\ Len(s) = m + n
      /\ \A i \in 1 .. m : s[i] = t[i] /\ t[i] \in Block
      /\ \A i \in m + 1 .. m + n : s[i] = u[i - m] /\ u[i - m] \in Block
  <2>1. s \in Seq(Block) /\ m \in Nat /\ n \in Nat /\ Len(s) = m + n
    BY <1>1
  <2>2. \A i \in 1 .. m : s[i] = t[i] /\ t[i] \in Block
    BY <1>1
  <2>3. \A i \in m + 1 .. m + n : s[i] = u[i - m] /\ u[i - m] \in Block
    BY <1>1
  <2> QED BY <2>1, <2>2, <2>3
<1> HIDE DEF s
<1>3. ASSUME NEW b \in Block PROVE Contains(s, b) <=> Contains(t, b) \/ Contains(u, b)
  <2>1. Contains(t, b) => Contains(s, b)
    BY <1>2 DEF Contains
  <2>2. Contains(u, b) => Contains(s, b)
    <3> SUFFICES ASSUME NEW j \in 1 .. n, u[j] = b PROVE Contains(s, b)
      BY DEF Contains
    <3> HIDE DEF m, n
    <3>1. m + j \in m + 1 .. m + n /\ m + j \in 1 .. Len(s) /\ (m + j) - m = j
      BY <1>2
    <3>2. s[m + j] = u[j]
      BY <1>2, <3>1
    <3> QED BY <3>1, <3>2 DEF Contains
  <2>3. Contains(s, b) => Contains(t, b) \/ Contains(u, b)
    <3> SUFFICES ASSUME NEW i \in 1 .. Len(s), s[i] = b PROVE Contains(t, b) \/ Contains(u, b)
      BY DEF Contains
    <3>1. CASE i <= m
      BY <1>2, <3>1 DEF Contains
    <3>2. CASE i > m
      <4> HIDE DEF m
      <4>1. i \in m + 1 .. m + n /\ i - m \in 1 .. n
        BY <1>2, <3>2
      <4> QED BY <1>2, <4>1 DEF Contains
    <3> QED BY <1>2, <3>1, <3>2
  <2> QED BY <2>1, <2>2, <2>3
<1>4. ASSUME NEW i \in 1 .. Len(s), NEW j \in 1 .. Len(s), s[i] = s[j] PROVE i = j
  <2>1. CASE i <= m /\ j <= m
    BY <1>1, <1>2, <1>4, <2>1 DEF NoDuplicates
  <2>2. CASE i > m /\ j > m
    <3> HIDE DEF m, n
    <3>1. i - m \in 1 .. n /\ j - m \in 1 .. n /\ u[i - m] = u[j - m]
      BY <1>2, <1>4, <2>2
    <3>2. i - m = j - m
      BY <1>1, <3>1 DEF NoDuplicates, n
    <3> QED BY <1>2, <3>2
  <2>3. ASSUME NEW x \in 1 .. Len(s), NEW y \in 1 .. Len(s), s[x] = s[y], x <= m, y > m PROVE FALSE
    <3> HIDE DEF m, n
    <3>1. x \in 1 .. m /\ y \in m + 1 .. m + n /\ y - m \in 1 .. n
      BY <1>2, <2>3
    <3>2. t[x] = u[y - m] /\ t[x] \in Block
      BY <1>2, <2>3, <3>1
    <3> QED BY <3>1, <3>2 DEF Contains, m, n
  <2> QED BY <1>2, <1>4, <2>1, <2>2, <2>3
<1> QED BY <1>2, <1>3, <1>4 DEF Table, NoDuplicates, s

\* FlattenSeq appends one sequence after another.
LEMMA FlattenRuns ==
  ASSUME NEW E, NEW ts \in Seq(Seq(E))
  PROVE  \E v \in [0 .. Len(ts) -> Seq(E)] :
           /\ v[0] = <<>>
           /\ \A k \in 1 .. Len(ts) : v[k] = v[k - 1] \o ts[k]
           /\ FlattenSeq(ts) = v[Len(ts)]
<1> DEFINE n == Len(ts)
           X == Seq(E)
           F == [x \in X \X X |-> x[1] \o x[2]]
           Eq(f) == f = [i \in 1 .. n |-> IF i = 1 THEN ts[i] ELSE f[i - 1] \o ts[i]]
           f == CHOOSE g : Eq(g)
           none == <<>>
<1>1. n \in Nat /\ none \in X /\ Turns(F, X, X) /\ ts \in [1 .. n -> X]
  <2>1. n \in Nat /\ none \in X /\ ts \in [1 .. n -> X]
    OBVIOUS
  <2>2. ASSUME NEW a \in X, NEW b \in X PROVE a \o b \in X
    OBVIOUS
  <2>3. \A x \in X \X X : x[1] \o x[2] \in X
    BY <2>2
  <2>4. Turns(F, X, X)
    BY <2>3 DEF Turns
  <2> QED BY <2>1, <2>4
<1>2. PICK w \in [0 .. n -> X] :
        w = [k \in 0 .. n |-> IF k = 0 THEN none ELSE F[<<w[k - 1], ts[k]>>]]
  <2> HIDE DEF F, X, none
  <2>1. ts \in Seq(X)
    BY DEF X
  <2> QED BY <1>1, <2>1, RunExists
<1>3. /\ w[0] = none
      /\ \A k \in 1 .. n : w[k] = w[k - 1] \o ts[k]
  <2>1. \A k \in 0 .. n : w[k] = IF k = 0 THEN none ELSE F[<<w[k - 1], ts[k]>>]
    <3> HIDE DEF F, X, none
    <3> QED BY <1>2
  <2>2. w[0] = none
    <3> HIDE DEF F, X, none, n
    <3>1. 0 \in 0 .. n
      BY <1>1
    <3> QED BY <2>1, <3>1
  <2>3. ASSUME NEW k \in 1 .. n PROVE w[k] = w[k - 1] \o ts[k]
    <3> HIDE DEF n
    <3>1. k \in 0 .. n /\ k # 0 /\ k - 1 \in 0 .. n
      BY <1>1
    <3>2. w[k - 1] \in X /\ ts[k] \in X
      BY <1>1, <1>2, <3>1
    <3>3. w[k] = F[<<w[k - 1], ts[k]>>]
      BY <2>1, <3>1
    <3> HIDE DEF X
    <3> QED BY <3>2, <3>3
  <2> QED BY <2>2, <2>3
<1>4. CASE n = 0
  <2>1. FlattenSeq(ts) = none
    BY <1>4 DEF FlattenSeq
  <2> HIDE DEF F, X
  <2> QED BY <1>2, <1>3, <1>4, <2>1 DEF X
<1>5. CASE n # 0
  <2> DEFINE g == [i \in 1 .. n |-> w[i]]
  <2>1. ASSUME NEW i \in 1 .. n
        PROVE  g[i] = IF i = 1 THEN ts[i] ELSE g[i - 1] \o ts[i]
    <3>1. CASE i = 1
      <4>1. w[1] = none \o ts[1]
        <5> HIDE DEF none, n
        <5>1. 1 \in 1 .. n /\ 1 - 1 = 0
          BY <3>1
        <5>2. w[1] = w[1 - 1] \o ts[1]
          BY <1>3, <5>1
        <5> QED BY <1>3, <5>1, <5>2
      <4>2. ts[1] \in Seq(E)
        BY <1>1, <3>1
      <4>3. none \o ts[1] = ts[1]
        BY <4>2
      <4> HIDE DEF none
      <4> QED BY <4>1, <4>3, <3>1
    <3>2. CASE i # 1
      <4> HIDE DEF n
      <4>1. i - 1 \in 1 .. n
        BY <1>1, <3>2
      <4> QED BY <1>3, <3>2, <4>1
    <3> QED BY <3>1, <3>2
  <2>2. Eq(g)
    <3> HIDE DEF n
    <3> QED BY <2>1
  <2>3. Eq(f)
    <3> HIDE DEF Eq
    <3> QED BY <2>2
  <2>4. FlattenSeq(ts) = f[n]
    BY <1>5 DEF FlattenSeq
  <2> HIDE DEF f
  <2>5. \A i \in 1 .. n : f[i] = IF i = 1 THEN ts[i] ELSE f[i - 1] \o ts[i]
    <3> HIDE DEF n
    <3> QED BY <2>3
  <2> DEFINE S == {k \in Nat : k >= 1 => f[k] = w[k]}
  <2>6. 0 \in S
    OBVIOUS
  <2>7. ASSUME NEW k \in 0 .. n - 1, k \in S PROVE k + 1 \in S
    <3> HIDE DEF n
    <3>1. k + 1 \in 1 .. n /\ k + 1 \in Nat
      BY <1>1
    <3>2. CASE k = 0
      <4>1. f[1] = ts[1]
        BY <2>5, <3>1, <3>2
      <4>0. 1 \in 1 .. n
        BY <3>1, <3>2
      <4>2. g[1] = ts[1]
        <5> HIDE DEF g
        <5> QED BY <2>1, <4>0
      <4>3. g[1] = w[1]
        BY <4>0
      <4> HIDE DEF g
      <4> QED BY <3>2, <4>1, <4>2, <4>3
    <3>3. CASE k # 0
      <4>1. k \in 1 .. n /\ (k + 1) - 1 = k /\ k + 1 # 1
        BY <1>1, <3>3
      <4>2. f[k + 1] = f[(k + 1) - 1] \o ts[k + 1]
        BY <2>5, <3>1, <4>1
      <4>3. w[k + 1] = w[(k + 1) - 1] \o ts[k + 1]
        BY <1>3, <3>1
      <4>4. f[k] = w[k]
        BY <2>7, <4>1
      <4>5. f[k + 1] = w[k + 1]
        BY <4>1, <4>2, <4>3, <4>4
      <4> QED BY <3>1, <4>5
    <3> QED BY <3>2, <3>3
  <2> HIDE DEF S
  <2>8. \A k \in 0 .. n : k \in S
    BY <1>1, <2>6, <2>7, BoundedInduction
  <2>9. f[n] = w[n]
    BY <1>1, <1>5, <2>8 DEF S
  <2> HIDE DEF F
  <2> QED BY <1>2, <1>3, <2>4, <2>9
<1> QED BY <1>4, <1>5

-----------------------------------------------------------------------------
(* Sequences, sums over lists, tables of blocks and nodes of a tree, as the  *)
(* proofs about RadixCache use them.                                         *)

\* The first elements of s, of which it has enough.
LEMMA SubSeqFacts ==
  ASSUME NEW E, NEW s \in Seq(E), NEW i \in Nat, NEW j \in Nat, j <= Len(s), i <= j
  PROVE  /\ SubSeq(s, i + 1, j) \in Seq(E)
         /\ Len(SubSeq(s, i + 1, j)) = j - i
         /\ \A k \in 1 .. j - i : SubSeq(s, i + 1, j)[k] = s[i + k]
<1>1. CASE i = j
  BY <1>1
<1>2. CASE i < j
  <2>1. \A k \in i + 1 .. j : s[k] \in E
    BY <1>2
  <2> QED BY <2>1, <1>2
<1> QED BY <1>1, <1>2

\* One sequence after another.
LEMMA ConcatFacts ==
  ASSUME NEW E, NEW s \in Seq(E), NEW u \in Seq(E)
  PROVE  /\ s \o u \in Seq(E)
         /\ Len(s \o u) = Len(s) + Len(u)
         /\ \A i \in 1 .. Len(s) : (s \o u)[i] = s[i]
         /\ \A i \in 1 .. Len(u) : (s \o u)[Len(s) + i] = u[i]
  OBVIOUS

\* s is a prefix of u.
Begins(u, s) == Len(s) <= Len(u) /\ \A i \in 1 .. Len(s) : s[i] = u[i]

\* A prefix of a prefix.
LEMMA BeginsTransitive ==
  ASSUME NEW E, NEW r \in Seq(E), NEW s \in Seq(E), NEW u \in Seq(E), Begins(s, r), Begins(u, s)
  PROVE  Begins(u, r)
  BY DEF Begins

\* A sequence begins what it is followed by more in.
LEMMA BeginsConcat ==
  ASSUME NEW E, NEW s \in Seq(E), NEW u \in Seq(E)
  PROVE  Begins(s \o u, s)
  BY ConcatFacts DEF Begins

\* Two sequences with the same elements are the same.
LEMMA SeqExtensional ==
  ASSUME NEW E, NEW s \in Seq(E), NEW u \in Seq(E), Len(s) = Len(u),
         \A i \in 1 .. Len(s) : s[i] = u[i]
  PROVE  s = u
  OBVIOUS

\* The largest of the numbers up to n.
LEMMA MaxFromZero ==
  ASSUME NEW n \in Nat, NEW s \in SUBSET (0 .. n), s # {}
  PROVE  Max(s) \in s /\ \A i \in s : i <= Max(s)
<1> DEFINE T == {n - i : i \in s}
<1>1. T \in SUBSET Nat /\ T # {}
  OBVIOUS
<1> HIDE DEF T
<1>2. PICK k \in T : \A m \in T : k <= m
  BY <1>1, SmallestElement
<1>3. PICK i \in s : k = n - i
  BY <1>2 DEF T
<1>4. \A j \in s : i >= j
  <2> SUFFICES ASSUME NEW j \in s PROVE i >= j
    OBVIOUS
  <2>1. n - j \in T
    BY DEF T
  <2> QED BY <2>1, <1>2, <1>3
<1>5. \E x \in s : \A y \in s : x >= y
  BY <1>4
<1>6. Max(s) \in s /\ \A y \in s : Max(s) >= y
  BY <1>5 DEF Max
<1> QED BY <1>6

AddTurn(G)   == [x \in Int \X Nat |-> x[1] + G[x[2]]]
Total(G, list) == FoldOf(AddTurn(G), 0, list)

\* The sum of a list, an element at a time.
LEMMA SumSteps ==
  ASSUME NEW G \in [Nat -> Int]
  PROVE  /\ Total(G, <<>>) = 0
         /\ \A s \in Seq(Nat) : Total(G, s) \in Int
         /\ \A s \in Seq(Nat), n \in Nat : Total(G, Append(s, n)) = Total(G, s) + G[n]
<1>1. 0 \in Int
  OBVIOUS
<1>2. Turns(AddTurn(G), Int, Nat)
  BY DEF Turns, AddTurn
<1>3. Total(G, <<>>) = 0
  <2>1. FoldOf(AddTurn(G), 0, <<>>) = 0
    BY <1>1, <1>2, FoldEmpty
  <2> QED BY <2>1 DEF Total
<1>4. ASSUME NEW s \in Seq(Nat) PROVE Total(G, s) \in Int
  <2>1. FoldOf(AddTurn(G), 0, s) \in Int
    BY <1>1, <1>2, FoldType
  <2> QED BY <2>1 DEF Total
<1>5. ASSUME NEW s \in Seq(Nat), NEW n \in Nat PROVE Total(G, Append(s, n)) = Total(G, s) + G[n]
  <2> DEFINE more == Append(s, n)
  <2> DEFINE F == AddTurn(G)
             X == Int
             E == Nat
  <2>1. FoldOf(F, 0, more) = F[<<FoldOf(F, 0, s), n>>]
    <3>1. 0 \in X /\ Turns(F, X, E) /\ s \in Seq(E) /\ n \in E
      BY <1>2
    <3> HIDE DEF F, X, E
    <3> QED BY <3>1, FoldAppend
  <2>2. AddTurn(G)[<<Total(G, s), n>>] = Total(G, s) + G[n]
    BY <1>4 DEF AddTurn
  <2> QED BY <2>1, <2>2 DEF Total
<1> QED BY <1>3, <1>4, <1>5

\* An element added after the second of two sequences.
LEMMA ConcatAppend ==
  \A s, u \in Seq(Nat), e \in Nat : s \o Append(u, e) = Append(s \o u, e)
  OBVIOUS

\* A sequence with all its elements in F is one over F.
LEMMA SeqOver ==
  ASSUME NEW E, NEW s \in Seq(E), NEW F, \A i \in 1 .. Len(s) : s[i] \in F
  PROVE  s \in Seq(F)
<1>1. s \in [1 .. Len(s) -> F]
  OBVIOUS
<1> QED BY <1>1

\* The sum of two lists, one after the other.
LEMMA SumConcat ==
  ASSUME NEW G \in [Nat -> Int], NEW s \in Seq(Nat)
  PROVE  \A u \in Seq(Nat) : Total(G, s \o u) = Total(G, s) + Total(G, u)
<1> DEFINE S == {u \in Seq(Nat) : Total(G, s \o u) = Total(G, s) + Total(G, u)}
<1>1. <<>> \in S
  <2>1. s \o <<>> = s /\ <<>> \in Seq(Nat)
    OBVIOUS
  <2>2. Total(G, <<>>) = 0 /\ Total(G, s) \in Int
    BY SumSteps
  <2> QED BY <2>1, <2>2
<1>2. ASSUME NEW u \in Seq(Nat), NEW n \in Nat, u \in S PROVE Append(u, n) \in S
  <2> DEFINE v == s \o u
             w == Append(u, n)
  <2>1. v \in Seq(Nat)
    OBVIOUS
  <2>2. w \in Seq(Nat)
    OBVIOUS
  <2>3. s \o w = Append(v, n)
    BY ConcatAppend
  <2>4. Total(G, v) = Total(G, s) + Total(G, u)
    BY <1>2
  <2>5. Total(G, w) = Total(G, u) + G[n]
    BY SumSteps
  <2>6. Total(G, s) \in Int /\ Total(G, u) \in Int /\ G[n] \in Int
    BY SumSteps
  <2> HIDE DEF v, w
  <2>7. Total(G, s \o w) = Total(G, v) + G[n]
    BY <2>1, <2>3, SumSteps
  <2>8. w \in S
    BY <2>2, <2>4, <2>5, <2>6, <2>7
  <2> QED BY <2>8 DEF w
<1>3. \A u \in Seq(Nat) : u \in S
  <2> HIDE DEF S
  <2> QED BY <1>1, <1>2, SeqInduction
<1> QED BY <1>3

\* The sum of a list of one.
LEMMA SumOne ==
  ASSUME NEW G \in [Nat -> Int], NEW n \in Nat
  PROVE  Total(G, <<n>>) = G[n]
<1> DEFINE none == <<>>
<1>1. none \in Seq(Nat)
  OBVIOUS
<1>2. <<n>> = Append(none, n)
  OBVIOUS
<1>3. Total(G, none) = 0
  BY SumSteps
<1> HIDE DEF none
<1>4. Total(G, Append(none, n)) = Total(G, none) + G[n]
  BY <1>1, SumSteps
<1>5. G[n] \in Int
  OBVIOUS
<1>6. Total(G, <<n>>) = 0 + G[n]
  BY <1>2, <1>3, <1>4
<1> QED BY <1>5, <1>6

\* A sum depends only on what the list holds.
LEMMA SumAgrees ==
  ASSUME NEW G \in [Nat -> Int], NEW H \in [Nat -> Int], NEW s \in Seq(Nat),
         \A n \in ToSet(s) : G[n] = H[n]
  PROVE  Total(G, s) = Total(H, s)
<1> DEFINE E == {n \in Nat : G[n] = H[n]}
           S == {u \in Seq(E) : u \in Seq(Nat) /\ Total(G, u) = Total(H, u)}
<1>1. <<>> \in S
  BY SumSteps
<1>2. ASSUME NEW u \in Seq(E), NEW n \in E, u \in S PROVE Append(u, n) \in S
  <2> DEFINE w == Append(u, n)
  <2>1. n \in Nat /\ u \in Seq(Nat) /\ G[n] = H[n]
    BY <1>2
  <2>2. Total(G, w) = Total(G, u) + G[n] /\ Total(H, w) = Total(H, u) + H[n]
    BY <2>1, SumSteps
  <2>3. w \in Seq(E)
    <3> HIDE DEF E
    <3> QED OBVIOUS
  <2>4. w \in Seq(Nat)
    BY <2>1
  <2> HIDE DEF w, E
  <2>5. Total(G, w) = Total(H, w)
    BY <2>1, <2>2, <1>2
  <2>6. w \in S
    BY <2>3, <2>4, <2>5
  <2> QED BY <2>6 DEF w
<1>3. s \in Seq(E)
  <2>1. ASSUME NEW i \in 1 .. Len(s) PROVE s[i] \in E
    <3>1. i \in DOMAIN s /\ s[i] \in Nat
      OBVIOUS
    <3>2. s[i] \in ToSet(s)
      BY <3>1 DEF ToSet
    <3> QED BY <3>1, <3>2
  <2> HIDE DEF E
  <2> QED BY <2>1, SeqOver
<1>4. \A u \in Seq(E) : u \in S
  <2> HIDE DEF S
  <2> QED BY <1>1, <1>2, SeqInduction
<1> QED BY <1>3, <1>4

\* A sum of natural numbers is one.
LEMMA SumNatural ==
  ASSUME NEW G \in [Nat -> Nat], NEW s \in Seq(Nat)
  PROVE  Total(G, s) \in Nat
<1> DEFINE S == {u \in Seq(Nat) : Total(G, u) \in Nat}
<1>1. G \in [Nat -> Int]
  OBVIOUS
<1>2. <<>> \in S
  BY <1>1, SumSteps
<1>3. ASSUME NEW u \in Seq(Nat), NEW n \in Nat, u \in S PROVE Append(u, n) \in S
  <2> DEFINE w == Append(u, n)
  <2>1. w \in Seq(Nat)
    OBVIOUS
  <2>2. Total(G, w) = Total(G, u) + G[n]
    BY <1>1, SumSteps
  <2> HIDE DEF w
  <2>3. w \in S
    <3>1. Total(G, u) \in Nat /\ G[n] \in Nat
      BY <1>3
    <3>2. \A a \in Nat, b \in Nat : a + b \in Nat
      OBVIOUS
    <3>3. Total(G, w) \in Nat
      BY <2>2, <3>1, <3>2, Zenon
    <3> QED BY <2>1, <3>3
  <2> QED BY <2>3 DEF w
<1>4. \A u \in Seq(Nat) : u \in S
  <2> HIDE DEF S
  <2> QED BY <1>2, <1>3, SeqInduction
<1> QED BY <1>4

\* v has the results of the turns of F along seq.
Follows(v, F, X, seq) == \A k \in 1 .. Len(seq) : v[k - 1] \in X => v[k] = F[<<v[k - 1], seq[k]>>]

\* What follows F along a list ends where the run of F ends.
LEMMA RunFollowed ==
  ASSUME NEW X, NEW E, NEW base \in X, NEW F, Turns(F, X, E), NEW seq \in Seq(E), NEW v, v[0] = base,
         Follows(v, F, X, seq)
  PROVE  \A k \in 0 .. Len(seq) : v[k] \in X /\ v[k] = Run(F, base, seq)[k]
BY RunIsFold DEF Follows

\* The sum of the lengths of the tables of a list of numbers, as a fold.
LEMMA LengthsFold ==
  ASSUME NEW node, NEW list \in Seq(Nat), NEW G \in [Nat -> Int],
         \A i \in 1 .. Len(list) : G[list[i]] = Len(node[list[i]].table)
  PROVE  FoldLeft(LAMBDA s, n : s + Len(node[n].table), 0, list) = Total(G, list)
<1> DEFINE n == Len(list)
           F == AddTurn(G)
           P(K) == K = [s \in SUBSET (1 .. n) |->
                          IF s = {} THEN 0
                          ELSE K[s \ {Max(s)}] + Len(node[list[Max(s)]].table)]
           H == CHOOSE K : P(K)
           v == [k \in 0 .. n |-> H[1 .. k]]
<1>1. n \in Nat /\ DOMAIN list = 1 .. n
  OBVIOUS
<1>2. FoldLeft(LAMBDA s, m : s + Len(node[m].table), 0, list) = H[1 .. n]
  BY <1>1 DEF FoldLeft, MapThenFoldSet
<1>3. Turns(F, Int, Nat)
  BY DEF Turns, AddTurn
<1>4. ASSUME NEW i \in 1 .. n, NEW x \in Int
      PROVE  F[<<x, list[i]>>] = x + Len(node[list[i]].table)
  <2>1. list[i] \in Nat /\ G[list[i]] = Len(node[list[i]].table)
    OBVIOUS
  <2> QED BY <2>1 DEF AddTurn
<1> HIDE DEF F
<1>5. \E K : P(K)
  <2>1. PICK K : IsFold(K, F, Int, Nat, 0, list)
    <3>1. 0 \in Int
      OBVIOUS
    <3> QED BY <3>1, <1>1, <1>3, FoldExists
  <2>2. ASSUME NEW s \in SUBSET (1 .. n), s # {}
        PROVE  K[s] = K[s \ {Max(s)}] + Len(node[list[Max(s)]].table)
    <3>1. Max(s) \in s
      BY <1>1, <2>2, MaxInside
    <3>2. K[s \ {Max(s)}] \in Int /\ K[s] = F[<<K[s \ {Max(s)}], list[Max(s)]>>]
      BY <2>1, <2>2 DEF IsFold
    <3>3. Max(s) \in 1 .. n
      BY <3>1
    <3> QED BY <3>2, <3>3, <1>4
  <2>3. P(K)
    BY <2>1, <2>2 DEF IsFold
  <2> QED BY <2>3
<1>6. P(H)
  BY <1>5
<1> HIDE DEF H
<1>7. v[0] = 0
  <2>1. 1 .. 0 = {} /\ {} \in SUBSET (1 .. n)
    OBVIOUS
  <2> QED BY <1>1, <1>6, <2>1
<1>8. ASSUME NEW k \in 1 .. n, v[k - 1] \in Int
      PROVE  v[k] = F[<<v[k - 1], list[k]>>]
  <2> HIDE DEF n
  <2> DEFINE s == 1 .. k
  <2>1. s \in SUBSET (1 .. n) /\ s # {} /\ s \ {k} = 1 .. k - 1 /\ Max(s) = k
    BY <1>1, Intervals
  <2>2. H[1 .. k] = H[1 .. k - 1] + Len(node[list[k]].table)
    <3> HIDE DEF s
    <3>1. H[s] = H[s \ {k}] + Len(node[list[k]].table)
      BY <1>6, <2>1
    <3> QED BY <3>1, <2>1 DEF s
  <2>3. k - 1 \in 0 .. n /\ k \in 0 .. n
    BY <1>1
  <2>4. v[k] = v[k - 1] + Len(node[list[k]].table)
    BY <2>2, <2>3
  <2> HIDE DEF v
  <2> QED BY <2>4, <1>8, <1>4
<1>9. \A k \in 0 .. n : v[k] \in Int /\ v[k] = Run(F, 0, list)[k]
  <2> DEFINE X == Int
             E == Nat
             L == list
             z == 0
  <2>1. z \in X /\ Turns(F, X, E) /\ L \in Seq(E)
    BY <1>1, <1>3
  <2>2. Follows(v, F, X, L)
    BY <1>8 DEF Follows
  <2>3. v[0] = z
    BY <1>7
  <2> HIDE DEF v, X, E, L, z, P
  <2>4. \A k \in 0 .. Len(L) : v[k] \in X /\ v[k] = Run(F, z, L)[k]
    BY <2>1, <2>2, <2>3, RunFollowed
  <2> QED BY <2>4 DEF X, L, z
<1>10. v[n] = H[1 .. n] /\ n \in 0 .. n
  BY <1>1
<1>11. v[n] = Run(F, 0, list)[n]
  <2> HIDE DEF v, n
  <2> QED BY <1>9, <1>10
<1> QED BY <1>2, <1>10, <1>11 DEF Total, FoldOf, F

\* A list taken apart at one of its elements.
LEMMA TakenApart ==
  ASSUME NEW E, NEW s \in Seq(E), NEW i \in 1 .. Len(s)
  PROVE  LET front == SubSeq(s, 1, i - 1)
             back  == SubSeq(s, i + 1, Len(s))
         IN  /\ front \in Seq(E) /\ Len(front) = i - 1 /\ \A k \in 1 .. i - 1 : front[k] = s[k]
             /\ back \in Seq(E) /\ Len(back) = Len(s) - i /\ \A k \in 1 .. Len(s) - i : back[k] = s[i + k]
             /\ s = (front \o <<s[i]>>) \o back
<1> DEFINE front == SubSeq(s, 1, i - 1)
           back  == SubSeq(s, i + 1, Len(s))
<1>1. front \in Seq(E) /\ Len(front) = i - 1 /\ \A k \in 1 .. i - 1 : front[k] = s[k]
  OBVIOUS
<1>2. back \in Seq(E) /\ Len(back) = Len(s) - i /\ \A k \in 1 .. Len(s) - i : back[k] = s[i + k]
  BY SubSeqFacts
<1>3. s[i] \in E
  OBVIOUS
<1> HIDE DEF front, back
<1> DEFINE u == (front \o <<s[i]>>) \o back
<1> DEFINE w == front \o <<s[i]>>
<1>4. w \in Seq(E) /\ Len(w) = i /\ w[i] = s[i] /\ \A k \in 1 .. i - 1 : w[k] = s[k]
  BY <1>1, <1>3
<1> HIDE DEF w
<1>5. u = w \o back
  BY DEF w
<1> HIDE DEF u
<1>6. u \in Seq(E) /\ Len(u) = Len(s)
  <2>1. w \o back \in Seq(E) /\ Len(w \o back) = Len(w) + Len(back)
    BY <1>4, <1>2, ConcatFacts
  <2> QED BY <2>1, <1>4, <1>2, <1>5
<1>7. \A k \in 1 .. i : u[k] = w[k]
  BY <1>4, <1>2, <1>5
<1>8. \A k \in 1 .. Len(s) - i : u[i + k] = back[k]
  BY <1>4, <1>2, <1>5, ConcatFacts
<1>9. ASSUME NEW k \in 1 .. Len(s) PROVE s[k] = u[k]
  <2>1. CASE k <= i - 1
    BY <2>1, <1>4, <1>7
  <2>2. CASE k = i
    BY <2>2, <1>4, <1>7
  <2>3. CASE k > i
    <3>1. k - i \in 1 .. Len(s) - i /\ i + (k - i) = k
      BY <2>3
    <3> QED BY <3>1, <1>2, <1>8
  <2> QED BY <2>1, <2>2, <2>3
<1>10. s = u
  <2> HIDE DEF u
  <2> QED BY <1>6, <1>9, SeqExtensional
<1> QED BY <1>1, <1>2, <1>10 DEF front, back, u

\* Stepping over a position keeps two positions apart.
LEMMA ShiftedOver ==
  \A a, b, c, d, e \in Int :
     /\ (a < e /\ c = a) \/ (a >= e /\ c = a + 1)
     /\ (b < e /\ d = b) \/ (b >= e /\ d = b + 1)
     /\ c = d
     => a = b
  OBVIOUS

\* An element taken out of a list.
LEMMA Removed ==
  ASSUME NEW G \in [Nat -> Int], NEW s \in Seq(Nat), NoDuplicates(s), NEW n \in Nat, Contains(s, n)
  PROVE  /\ RemoveFirst(s, n) \in Seq(Nat)
         /\ NoDuplicates(RemoveFirst(s, n))
         /\ ToSet(RemoveFirst(s, n)) = ToSet(s) \ {n}
         /\ Total(G, RemoveFirst(s, n)) = Total(G, s) - G[n]
<1>1. PICK i \in 1 .. Len(s) : s[i] = n
  BY DEF Contains
<1> DEFINE front == SubSeq(s, 1, i - 1)
           back  == SubSeq(s, i + 1, Len(s))
           r     == front \o back
<1>2. /\ front \in Seq(Nat) /\ Len(front) = i - 1 /\ \A k \in 1 .. i - 1 : front[k] = s[k]
      /\ back \in Seq(Nat) /\ Len(back) = Len(s) - i /\ \A k \in 1 .. Len(s) - i : back[k] = s[i + k]
      /\ s = (front \o <<s[i]>>) \o back
  BY TakenApart
<1>3. RemoveFirst(s, n) = r
  <2>1. {j \in 1 .. Len(s) : s[j] = n} = {i}
    BY <1>1 DEF NoDuplicates
  <2>2. SelectInSeq(s, LAMBDA v : v = n) = i
    BY <2>1 DEF SelectInSeq, Min
  <2> QED BY <1>1, <2>2 DEF RemoveFirst, RemoveAt
<1> HIDE DEF front, back
<1>4. /\ r \in Seq(Nat) /\ Len(r) = Len(s) - 1
      /\ \A k \in 1 .. i - 1 : r[k] = s[k]
      /\ \A k \in i .. Len(s) - 1 : r[k] = s[k + 1]
  <2>1. /\ r \in Seq(Nat) /\ Len(r) = Len(front) + Len(back)
        /\ \A k \in 1 .. Len(front) : r[k] = front[k]
        /\ \A k \in 1 .. Len(back) : r[Len(front) + k] = back[k]
    <3> DEFINE E == Nat
    <3>1. front \in Seq(E) /\ back \in Seq(E)
      BY <1>2
    <3> HIDE DEF E
    <3>2. r \in Seq(E) /\ Len(r) = Len(front) + Len(back)
      BY <3>1, ConcatFacts
    <3>3. \A k \in 1 .. Len(front) : r[k] = front[k]
      BY <3>1, ConcatFacts
    <3>4. \A k \in 1 .. Len(back) : r[Len(front) + k] = back[k]
      BY <3>1, ConcatFacts
    <3> QED BY <3>2, <3>3, <3>4 DEF E
  <2> HIDE DEF r
  <2>2. r \in Seq(Nat) /\ Len(r) = Len(s) - 1
    BY <2>1, <1>2
  <2>3. /\ \A k \in 1 .. i - 1 : r[k] = s[k]
        /\ \A k \in 1 .. Len(s) - i : r[(i - 1) + k] = s[i + k]
    BY <2>1, <1>2
  <2> HIDE DEF r
  <2>4. ASSUME NEW k \in i .. Len(s) - 1 PROVE r[k] = s[k + 1]
    <3>1. k - i + 1 \in 1 .. Len(s) - i /\ (i - 1) + (k - i + 1) = k /\ i + (k - i + 1) = k + 1
      OBVIOUS
    <3> QED BY <3>1, <2>3
  <2> QED BY <2>2, <2>3, <2>4
<1>5. Total(G, s) = (Total(G, front) + G[n]) + Total(G, back) /\ Total(G, r) = Total(G, front) + Total(G, back)
  <2>1. front \o <<s[i]>> \in Seq(Nat) /\ <<s[i]>> \in Seq(Nat)
    BY <1>1, <1>2
  <2>2. Total(G, <<s[i]>>) = G[n]
    BY <1>1, SumOne
  <2>3. Total(G, s) = Total(G, front \o <<s[i]>>) + Total(G, back)
    BY <1>2, <2>1, SumConcat
  <2> QED BY <1>2, <2>1, <2>2, <2>3, SumConcat
<1>6. Total(G, front) \in Int /\ Total(G, back) \in Int /\ G[n] \in Int
  BY <1>2, SumSteps
<1> HIDE DEF r
<1>7. ASSUME NEW k \in 1 .. Len(r)
      PROVE  \E K \in 1 .. Len(s) : r[k] = s[K] /\ K # i /\ ((k < i /\ K = k) \/ (k >= i /\ K = k + 1))
  <2>1. CASE k < i
    <3>1. k \in 1 .. i - 1 /\ k \in 1 .. Len(s) /\ k # i
      BY <2>1, <1>4
    <3>2. r[k] = s[k]
      BY <3>1, <1>4
    <3> QED BY <3>1, <3>2, <2>1
  <2>2. CASE ~(k < i)
    <3>1. k \in i .. Len(s) - 1 /\ k + 1 \in 1 .. Len(s) /\ k + 1 # i
      BY <2>2, <1>4
    <3>2. r[k] = s[k + 1]
      BY <3>1, <1>4
    <3> QED BY <3>1, <3>2, <2>2
  <2> QED BY <2>1, <2>2
<1>8. NoDuplicates(r)
  <2> SUFFICES ASSUME NEW j \in 1 .. Len(r), NEW k \in 1 .. Len(r), r[j] = r[k] PROVE j = k
    BY DEF NoDuplicates
  <2>1. PICK J \in 1 .. Len(s) : r[j] = s[J] /\ ((j < i /\ J = j) \/ (j >= i /\ J = j + 1))
    BY <1>7
  <2>2. PICK K \in 1 .. Len(s) : r[k] = s[K] /\ ((k < i /\ K = k) \/ (k >= i /\ K = k + 1))
    BY <1>7
  <2>3. J = K
    BY <2>1, <2>2 DEF NoDuplicates
  <2>4. j \in Int /\ k \in Int /\ i \in Int /\ J \in Int /\ K \in Int
    BY <1>4
  <2>5. /\ (j < i /\ J = j) \/ (j >= i /\ J = j + 1)
        /\ (k < i /\ K = k) \/ (k >= i /\ K = k + 1)
    BY <2>1, <2>2
  <2> QED BY <2>3, <2>4, <2>5, ShiftedOver, Zenon
<1>9. ToSet(r) = ToSet(s) \ {n}
  <2>1. ASSUME NEW x \in ToSet(r) PROVE x \in ToSet(s) \ {n}
    <3>1. PICK k \in 1 .. Len(r) : r[k] = x
      BY <1>4 DEF ToSet
    <3>2. PICK K \in 1 .. Len(s) : r[k] = s[K] /\ K # i
      BY <1>7
    <3>3. x = s[K]
      BY <3>1, <3>2
    <3>4. K \in DOMAIN s
      BY <3>2
    <3>5. x # n
      BY <3>2, <3>3, <1>1 DEF NoDuplicates
    <3> QED BY <3>3, <3>4, <3>5 DEF ToSet
  <2>2. ASSUME NEW x \in ToSet(s), x # n PROVE x \in ToSet(r)
    <3>1. PICK k \in 1 .. Len(s) : s[k] = x
      <4>1. DOMAIN s = 1 .. Len(s) /\ x \in {s[k] : k \in DOMAIN s}
        BY <2>2 DEF ToSet
      <4> QED BY <4>1
    <3>2. k # i
      BY <3>1, <2>2, <1>1
    <3>3. \E j \in 1 .. Len(r) : r[j] = x
      <4>1. CASE k < i
        <5>1. k \in 1 .. i - 1 /\ k \in 1 .. Len(r)
          BY <4>1, <1>4
        <5>2. r[k] = s[k]
          BY <5>1, <1>4
        <5> QED BY <5>1, <5>2, <3>1
      <4>2. CASE i < k
        <5>1. k - 1 \in i .. Len(s) - 1 /\ k - 1 \in 1 .. Len(r) /\ (k - 1) + 1 = k
          BY <4>2, <1>4
        <5>2. r[k - 1] = s[(k - 1) + 1]
          BY <5>1, <1>4
        <5> QED BY <5>1, <5>2, <3>1
      <4> QED BY <4>1, <4>2, <3>2
    <3>4. DOMAIN r = 1 .. Len(r)
      BY <1>4
    <3> QED BY <3>3, <3>4 DEF ToSet
  <2> QED BY <2>1, <2>2
<1> QED BY <1>3, <1>4, <1>5, <1>6, <1>8, <1>9

\* An element added to a list.
LEMMA Appended ==
  ASSUME NEW G \in [Nat -> Int], NEW s \in Seq(Nat), NoDuplicates(s), NEW n \in Nat, ~Contains(s, n)
  PROVE  /\ Append(s, n) \in Seq(Nat)
         /\ NoDuplicates(Append(s, n))
         /\ ToSet(Append(s, n)) = ToSet(s) \cup {n}
         /\ Total(G, Append(s, n)) = Total(G, s) + G[n]
<1> DEFINE r == Append(s, n)
<1>1. /\ r \in Seq(Nat) /\ Len(r) = Len(s) + 1
      /\ \A k \in 1 .. Len(s) : r[k] = s[k]
      /\ r[Len(s) + 1] = n
  OBVIOUS
<1> HIDE DEF r
<1>2. NoDuplicates(r)
  <2> SUFFICES ASSUME NEW j \in 1 .. Len(r), NEW k \in 1 .. Len(r), r[j] = r[k] PROVE j = k
    BY DEF NoDuplicates
  <2>1. \A i \in 1 .. Len(s) : s[i] # n
    BY DEF Contains
  <2>2. (j \in 1 .. Len(s) \/ j = Len(s) + 1) /\ (k \in 1 .. Len(s) \/ k = Len(s) + 1)
    BY <1>1
  <2>3. CASE j \in 1 .. Len(s) /\ k \in 1 .. Len(s)
    BY <2>3, <1>1 DEF NoDuplicates
  <2> QED BY <2>1, <2>2, <2>3, <1>1
<1>3. ToSet(r) = ToSet(s) \cup {n}
  <2>1. DOMAIN r = 1 .. Len(s) + 1 /\ DOMAIN s = 1 .. Len(s)
    BY <1>1
  <2>2. 1 .. Len(s) + 1 = (1 .. Len(s)) \cup {Len(s) + 1}
    OBVIOUS
  <2>3. ASSUME NEW x PROVE x \in ToSet(r) <=> x \in ToSet(s) \cup {n}
    <3>1. x \in ToSet(r) <=> \E k \in 1 .. Len(s) + 1 : r[k] = x
      BY <2>1 DEF ToSet
    <3>2. x \in ToSet(s) <=> \E k \in 1 .. Len(s) : s[k] = x
      BY <2>1 DEF ToSet
    <3> QED BY <3>1, <3>2, <2>2, <1>1
  <2> QED BY <2>3
<1> QED BY <1>1, <1>2, <1>3, SumSteps DEF r

\* Containing and being an element.
LEMMA ToSetContains ==
  ASSUME NEW E, NEW s \in Seq(E), NEW x
  PROVE  x \in ToSet(s) <=> Contains(s, x)
<1>1. DOMAIN s = 1 .. Len(s)
  OBVIOUS
<1> QED BY <1>1 DEF ToSet, Contains

\* The record of a node of the tree.
IsNode(r) ==
  /\ r = [parent |-> r.parent, key |-> r.key, table |-> r.table, lock |-> r.lock,
          children |-> r.children]
  /\ r.parent \in Int /\ r.key \in Seq(Int) /\ r.table \in Table /\ r.lock \in Nat

\* u is s followed by r.
Joined(u, s, r) ==
  /\ u = s \o r
  /\ Len(u) = Len(s) + Len(r)
  /\ Begins(u, s)
  /\ \A i \in 1 .. Len(r) : u[Len(s) + i] = r[i]

\* What two sequences make, one after the other.
LEMMA JoinedConcat ==
  ASSUME NEW E, NEW s \in Seq(E), NEW r \in Seq(E)
  PROVE  Joined(s \o r, s, r)
  BY ConcatFacts, BeginsConcat DEF Joined

\* A sum with a positive part.
LEMMA LongerSum ==
  \A i, j, k \in Int : i = j + k /\ k >= 1 => j < i
  OBVIOUS

\* An element added at the end.
LEMMA Longer ==
  ASSUME NEW E, NEW p \in Seq(E), NEW q \in E
  PROVE  /\ Append(p, q) \in Seq(E)
         /\ Len(Append(p, q)) = Len(p) + 1
         /\ \A i \in 1 .. Len(p) : Append(p, q)[i] = p[i]
         /\ Append(p, q)[Len(p) + 1] = q
         /\ Last(Append(p, q)) = q
         /\ ToSet(Append(p, q)) = ToSet(p) \cup {q}
<1> DEFINE r == Append(p, q)
<1>1. /\ r \in Seq(E) /\ Len(r) = Len(p) + 1 /\ r[Len(p) + 1] = q
      /\ \A i \in 1 .. Len(p) : r[i] = p[i]
  OBVIOUS
<1>2. Last(r) = q
  BY <1>1 DEF Last
<1>3. ToSet(r) = ToSet(p) \cup {q}
  <2> HIDE DEF r
  <2>1. Len(p) \in Nat
    OBVIOUS
  <2> QED BY <1>1, <2>1 DEF ToSet
<1> QED BY <1>1, <1>2, <1>3

\* A list without repetitions is no longer than the set it is over.
LEMMA ListBound ==
  ASSUME NEW E, IsFiniteSet(E), NEW s \in Seq(E), NoDuplicates(s)
  PROVE  Len(s) <= Cardinality(E)
<1>1. Len(s) \in Nat /\ s \in [1 .. Len(s) -> E]
  OBVIOUS
<1>2. s \in Injection(1 .. Len(s), E)
  BY <1>1 DEF Injection, IsInjective, NoDuplicates
<1>3. Cardinality(1 .. Len(s)) <= Cardinality(E)
  BY <1>2, FS_Injection
<1>4. Cardinality(1 .. Len(s)) = Len(s)
  BY <1>1, FS_Interval
<1> QED BY <1>3, <1>4

\* Nothing before or after a sequence.
LEMMA ConcatEmpty ==
  ASSUME NEW E, NEW u \in Seq(E)
  PROVE  <<>> \o u = u /\ u \o <<>> = u
OBVIOUS

\* The first k elements of two sequences are the same.
Agree(u, v, k) == \A j \in 1 .. k : u[j] = v[j]

\* The first c of r followed by w.
LEMMA JoinedFront ==
  ASSUME NEW E, NEW v \in Seq(E), NEW r \in Seq(E), NEW w \in Seq(E), Joined(v, r, w),
         NEW c \in Nat, Len(r) <= c, c <= Len(v)
  PROVE  /\ r \o SubSeq(w, 1, c - Len(r)) = SubSeq(v, 1, c)
         /\ Len(SubSeq(v, 1, c)) = c
         /\ SubSeq(v, 1, c) \in Seq(E)
<1>1. /\ Len(v) = Len(r) + Len(w)
      /\ \A i \in 1 .. Len(r) : r[i] = v[i]
      /\ \A i \in 1 .. Len(w) : v[Len(r) + i] = w[i]
  BY DEF Joined, Begins
<1> DEFINE l == Len(r)
           d == c - l
           f == SubSeq(w, 1, d)
           h == SubSeq(v, 1, c)
           g == r \o f
<1>2. l \in Nat /\ d \in Nat /\ d <= Len(w) /\ 0 + 1 = 1 /\ 0 \in Nat
  BY <1>1
<1>3. f \in Seq(E) /\ Len(f) = d /\ \A k \in 1 .. d : f[k] = w[k]
  <2>1. /\ SubSeq(w, 0 + 1, d) \in Seq(E) /\ Len(SubSeq(w, 0 + 1, d)) = d - 0
        /\ \A k \in 1 .. d - 0 : SubSeq(w, 0 + 1, d)[k] = w[0 + k]
    BY <1>2, SubSeqFacts
  <2>2. d - 0 = d /\ \A k \in 1 .. d : 0 + k = k
    BY <1>2
  <2> QED BY <1>2, <2>1, <2>2
<1>4. h \in Seq(E) /\ Len(h) = c /\ \A k \in 1 .. c : h[k] = v[k]
  <2>1. /\ SubSeq(v, 0 + 1, c) \in Seq(E) /\ Len(SubSeq(v, 0 + 1, c)) = c - 0
        /\ \A k \in 1 .. c - 0 : SubSeq(v, 0 + 1, c)[k] = v[0 + k]
    BY <1>2, SubSeqFacts
  <2>2. c - 0 = c /\ \A k \in 1 .. c : 0 + k = k
    OBVIOUS
  <2> QED BY <1>2, <2>1, <2>2
<1> HIDE DEF f, h
<1>5. /\ g \in Seq(E) /\ Len(g) = l + d
      /\ \A i \in 1 .. l : g[i] = r[i]
      /\ \A i \in 1 .. d : g[l + i] = f[i]
  BY <1>3, ConcatFacts
<1>6. l + d = c
  BY <1>2
<1> HIDE DEF g
<1>7. ASSUME NEW i \in 1 .. c PROVE g[i] = h[i]
  <2>1. CASE i <= l
    BY <2>1, <1>1, <1>2, <1>4, <1>5
  <2>2. CASE i > l
    <3>1. i - l \in 1 .. d /\ i - l \in 1 .. Len(w) /\ l + (i - l) = i
      BY <2>2, <1>2, <1>6
    <3>2. g[l + (i - l)] = f[i - l] /\ f[i - l] = w[i - l] /\ v[l + (i - l)] = w[i - l]
      BY <3>1, <1>1, <1>3, <1>5
    <3> QED BY <3>1, <3>2, <1>4
  <2> QED BY <2>1, <2>2, <1>2
<1>8. g = h
  BY <1>4, <1>5, <1>6, <1>7, SeqExtensional
<1> QED BY <1>4, <1>8 DEF g, h, f, d, l

\* Tokens that agree with those of a node and of its parent.
LEMMA AgreeBack ==
  ASSUME NEW u, NEW v, NEW w, NEW k \in Nat, NEW l \in Nat, Agree(u, v, k), Agree(w, v, l), l <= k
  PROVE  Agree(u, w, l)
BY DEF Agree

\* A sequence and its prefix agree.
LEMMA BeginsAgree ==
  ASSUME NEW u, NEW v, Begins(u, v), NEW k \in Nat, k <= Len(v), Len(v) \in Nat
  PROVE  Agree(u, v, k) /\ Agree(v, u, k)
BY DEF Agree, Begins

\* A node with other children.
LEMMA Rewired ==
  ASSUME NEW r, IsNode(r), NEW K
  PROVE  LET s == [r EXCEPT !.children = K]
         IN  /\ IsNode(s) /\ s.parent = r.parent /\ s.key = r.key /\ s.table = r.table /\ s.lock = r.lock
             /\ s.children = K
<1>1. r = [parent |-> r.parent, key |-> r.key, table |-> r.table, lock |-> r.lock, children |-> r.children]
  BY DEF IsNode
<1> DEFINE s == [parent |-> r.parent, key |-> r.key, table |-> r.table, lock |-> r.lock, children |-> K]
<1>2. [r EXCEPT !.children = K] = s
  BY <1>1
<1>3. s.parent = r.parent /\ s.key = r.key /\ s.table = r.table /\ s.lock = r.lock /\ s.children = K
      /\ s = [parent |-> s.parent, key |-> s.key, table |-> s.table, lock |-> s.lock, children |-> s.children]
  OBVIOUS
<1> HIDE DEF s
<1>4. IsNode(s)
  BY <1>3 DEF IsNode
<1> QED BY <1>2, <1>3, <1>4

\* A sequence cut in two.
LEMMA Cut ==
  ASSUME NEW E, NEW s \in Seq(E), NEW i \in Nat, i <= Len(s)
  PROVE  /\ SubSeq(s, 1, i) \in Seq(E) /\ Len(SubSeq(s, 1, i)) = i
         /\ \A k \in 1 .. i : SubSeq(s, 1, i)[k] = s[k]
         /\ SubSeq(s, i + 1, Len(s)) \in Seq(E) /\ Len(SubSeq(s, i + 1, Len(s))) = Len(s) - i
         /\ \A k \in 1 .. Len(s) - i : SubSeq(s, i + 1, Len(s))[k] = s[i + k]
         /\ SubSeq(s, 1, i) \o SubSeq(s, i + 1, Len(s)) = s
<1> DEFINE p == SubSeq(s, 1, i)
           r == SubSeq(s, i + 1, Len(s))
<1>1. p \in Seq(E) /\ Len(p) = i /\ \A k \in 1 .. i : p[k] = s[k]
  <2>1. 0 \in Nat /\ 0 <= i /\ 0 + 1 = 1 /\ i - 0 = i /\ \A k \in 1 .. i : 0 + k = k
    OBVIOUS
  <2>2. SubSeq(s, 0 + 1, i) \in Seq(E) /\ Len(SubSeq(s, 0 + 1, i)) = i - 0
        /\ \A k \in 1 .. i - 0 : SubSeq(s, 0 + 1, i)[k] = s[0 + k]
    BY <2>1, SubSeqFacts
  <2> QED BY <2>1, <2>2
<1>2. r \in Seq(E) /\ Len(r) = Len(s) - i /\ \A k \in 1 .. Len(s) - i : r[k] = s[i + k]
  <2>1. Len(s) \in Nat
    OBVIOUS
  <2> QED BY <2>1, SubSeqFacts
<1> HIDE DEF p, r
<1>3. p \o r = s
  <2>1. /\ p \o r \in Seq(E) /\ Len(p \o r) = Len(p) + Len(r)
        /\ \A k \in 1 .. Len(p) : (p \o r)[k] = p[k]
        /\ \A k \in 1 .. Len(r) : (p \o r)[Len(p) + k] = r[k]
    <3>1. Joined(p \o r, p, r)
      BY <1>1, <1>2, JoinedConcat
    <3>2. p \o r \in Seq(E)
      BY <1>1, <1>2
    <3> QED BY <3>1, <3>2 DEF Joined, Begins
  <2> DEFINE q == p \o r
  <2>2. /\ q \in Seq(E) /\ Len(q) = Len(s)
        /\ \A k \in 1 .. i : q[k] = s[k]
        /\ \A k \in 1 .. Len(s) - i : q[i + k] = s[i + k]
    BY <1>1, <1>2, <2>1
  <2> HIDE DEF q
  <2>3. ASSUME NEW k \in 1 .. Len(q) PROVE q[k] = s[k]
    <3>1. k \in 1 .. i \/ (k - i \in 1 .. Len(s) - i /\ i + (k - i) = k)
      BY <2>2
    <3> QED BY <3>1, <2>2
  <2>4. q = s
    BY <2>2, <2>3, SeqExtensional
  <2> QED BY <2>4 DEF q
<1> QED BY <1>1, <1>2, <1>3 DEF p, r

\* The parts of a table are tables, with its blocks between them.
LEMMA CutTable ==
  ASSUME NEW s \in Table, NEW i \in Nat, i <= Len(s)
  PROVE  /\ SubSeq(s, 1, i) \in Table /\ SubSeq(s, i + 1, Len(s)) \in Table
         /\ \A e : Contains(s, e) <=> Contains(SubSeq(s, 1, i), e) \/ Contains(SubSeq(s, i + 1, Len(s)), e)
         /\ \A e : ~(Contains(SubSeq(s, 1, i), e) /\ Contains(SubSeq(s, i + 1, Len(s)), e))
<1> DEFINE p == SubSeq(s, 1, i)
           r == SubSeq(s, i + 1, Len(s))
<1>1. s \in Seq(Block) /\ NoDuplicates(s)
  BY DEF Table
<1>2. /\ p \in Seq(Block) /\ Len(p) = i /\ \A k \in 1 .. i : p[k] = s[k]
      /\ r \in Seq(Block) /\ Len(r) = Len(s) - i /\ \A k \in 1 .. Len(s) - i : r[k] = s[i + k]
  BY <1>1, Cut
<1> HIDE DEF p, r
<1>3. NoDuplicates(p)
  BY <1>1, <1>2 DEF NoDuplicates
<1>4. NoDuplicates(r)
  <2> SUFFICES ASSUME NEW k \in 1 .. Len(r), NEW j \in 1 .. Len(r), r[k] = r[j] PROVE k = j
    BY DEF NoDuplicates
  <2>1. i + k \in 1 .. Len(s) /\ i + j \in 1 .. Len(s) /\ s[i + k] = s[i + j]
    BY <1>1, <1>2
  <2>2. i + k = i + j
    BY <1>1, <2>1 DEF NoDuplicates
  <2> QED BY <2>2
<1>5. ASSUME NEW e, Contains(s, e) PROVE Contains(p, e) \/ Contains(r, e)
  <2>1. PICK k \in 1 .. Len(s) : s[k] = e
    BY <1>5 DEF Contains
  <2>2. k \in 1 .. i \/ (k - i \in 1 .. Len(s) - i /\ i + (k - i) = k)
    BY <1>1
  <2>3. CASE k \in 1 .. i
    BY <2>1, <2>3, <1>2 DEF Contains
  <2>4. CASE k - i \in 1 .. Len(s) - i /\ i + (k - i) = k
    <3> DEFINE j == k - i
    <3>1. j \in 1 .. Len(r) /\ i + j = k
      BY <2>4, <1>2
    <3> HIDE DEF j
    <3>2. r[j] = s[i + j]
      BY <3>1, <1>2
    <3> QED BY <3>1, <3>2, <2>1 DEF Contains
  <2> QED BY <2>2, <2>3, <2>4
<1>6. ASSUME NEW e, Contains(p, e) PROVE \E k \in 1 .. i : k \in 1 .. Len(s) /\ s[k] = e
  <2>1. PICK k \in 1 .. Len(p) : p[k] = e
    BY <1>6 DEF Contains
  <2>2. k \in 1 .. i /\ k \in 1 .. Len(s)
    BY <1>1, <1>2
  <2> QED BY <2>1, <2>2, <1>2
<1>7. ASSUME NEW e, Contains(r, e) PROVE \E k \in 1 .. Len(s) : ~(k \in 1 .. i) /\ s[k] = e
  <2>1. PICK j \in 1 .. Len(r) : r[j] = e
    BY <1>7 DEF Contains
  <2>2. i + j \in 1 .. Len(s) /\ ~(i + j \in 1 .. i) /\ s[i + j] = e
    BY <1>1, <1>2, <2>1
  <2> QED BY <2>2
<1>8. ASSUME NEW e, Contains(p, e) \/ Contains(r, e) PROVE Contains(s, e)
  BY <1>6, <1>7, <1>8, Zenon DEF Contains
<1>9. ASSUME NEW e, Contains(p, e), Contains(r, e) PROVE FALSE
  <2>1. PICK k \in 1 .. i : k \in 1 .. Len(s) /\ s[k] = e
    BY <1>6, <1>9
  <2>2. PICK j \in 1 .. Len(s) : ~(j \in 1 .. i) /\ s[j] = e
    BY <1>7, <1>9
  <2>3. k = j
    BY <1>1, <2>1, <2>2 DEF NoDuplicates
  <2> QED BY <2>2, <2>3
<1> QED BY <1>2, <1>3, <1>4, <1>5, <1>8, <1>9 DEF Table, p, r

\* A node with another key, table and parent.
Recut(r, A, B, C)  == [r EXCEPT !.key = A, !.table = B, !.parent = C]
Remade(r, A, B, C) == [parent |-> C, key |-> A, table |-> B, lock |-> r.lock, children |-> r.children]

\* A node with another parent, key and table, as a whole record.
LEMMA RecutIsRemade ==
  ASSUME NEW r, IsNode(r), NEW A, NEW B, NEW C
  PROVE  Recut(r, A, B, C) = Remade(r, A, B, C)
<1>1. r = [parent |-> r.parent, key |-> r.key, table |-> r.table, lock |-> r.lock, children |-> r.children]
  BY DEF IsNode
<1> DEFINE r1 == [parent |-> r.parent, key |-> A, table |-> r.table, lock |-> r.lock, children |-> r.children]
           r2 == [parent |-> r.parent, key |-> A, table |-> B, lock |-> r.lock, children |-> r.children]
           r3 == [parent |-> C, key |-> A, table |-> B, lock |-> r.lock, children |-> r.children]
<1>2. [r EXCEPT !.key = A] = r1
  BY <1>1
<1>3. [r1 EXCEPT !.table = B] = r2
  OBVIOUS
<1>4. [r2 EXCEPT !.parent = C] = r3
  OBVIOUS
<1>5. [r EXCEPT !.key = A, !.table = B, !.parent = C]
      = [[[r EXCEPT !.key = A] EXCEPT !.table = B] EXCEPT !.parent = C]
  OBVIOUS
<1> HIDE DEF r1, r2, r3
<1>6. [r EXCEPT !.key = A, !.table = B, !.parent = C] = r3
  BY <1>2, <1>3, <1>4, <1>5
<1> QED BY <1>6 DEF r3, Recut, Remade

\* s cut after i elements into p and r.
Cuts(s, i, p, r) == p = SubSeq(s, 1, i) /\ r = SubSeq(s, i + 1, Len(s))

\* p is the first i elements of s, r the others.
CutInto(E, s, i, p, r) ==
  /\ p \in Seq(E) /\ Len(p) = i /\ \A k \in 1 .. i : p[k] = s[k]
  /\ r \in Seq(E) /\ Len(r) = Len(s) - i
  /\ p \o r = s

\* A sequence cut in two.
LEMMA CutFacts ==
  ASSUME NEW E, NEW s \in Seq(E), NEW i \in Nat, i <= Len(s), NEW p, NEW r, Cuts(s, i, p, r)
  PROVE  CutInto(E, s, i, p, r)
BY Cut DEF Cuts, CutInto

\* A sum over a list when the value at one node has lost j.
LessAt(G, H, l, c, j) == H[c] = G[c] - j /\ \A n \in ToSet(l) : n # c => H[n] = G[n]
LessSum(G, H, l, c, j) == Total(H, l) = Total(G, l) - (IF Contains(l, c) THEN j ELSE 0)

\* A sum in which one element counts for less.
LEMMA LessAtOne ==
  ASSUME NEW G \in [Nat -> Int], NEW H \in [Nat -> Int], NEW l \in Seq(Nat), NoDuplicates(l), NEW c \in Nat,
         NEW j \in Nat, LessAt(G, H, l, c, j)
  PROVE  LessSum(G, H, l, c, j)
<1>1. H[c] = G[c] - j /\ \A n \in ToSet(l) : n # c => H[n] = G[n]
  BY DEF LessAt
<1>2. CASE Contains(l, c)
  <2> DEFINE r == RemoveFirst(l, c)
  <2>1. r \in Seq(Nat) /\ ToSet(r) = ToSet(l) \ {c} /\ Total(G, r) = Total(G, l) - G[c]
    BY <1>2, Removed
  <2>2. Total(H, r) = Total(H, l) - H[c]
    BY <1>2, Removed
  <2> HIDE DEF r
  <2>3. \A n \in ToSet(r) : G[n] = H[n]
    BY <2>1, <1>1
  <2>4. Total(G, r) = Total(H, r)
    BY <2>1, <2>3, SumAgrees
  <2>5. Total(G, l) \in Int /\ Total(H, l) \in Int /\ G[c] \in Int /\ H[c] \in Int
    BY SumSteps
  <2> DEFINE g == Total(G, l)
             h == Total(H, l)
             gr == Total(G, r)
  <2>6. g \in Int /\ h \in Int /\ G[c] \in Int /\ gr = g - G[c] /\ gr = h - (G[c] - j)
    BY <2>1, <2>2, <2>4, <2>5, <1>1
  <2> HIDE DEF g, h, gr
  <2>7. h = g - j
    BY <2>6
  <2> QED BY <1>2, <2>7 DEF g, h, LessSum
<1>3. CASE ~Contains(l, c)
  <2>1. c \notin ToSet(l)
    BY <1>3, ToSetContains
  <2>2. \A n \in ToSet(l) : G[n] = H[n]
    BY <2>1, <1>1
  <2>3. Total(G, l) = Total(H, l)
    BY <2>2, SumAgrees
  <2>4. Total(G, l) \in Int
    BY SumSteps
  <2> QED BY <1>3, <2>3, <2>4 DEF LessSum
<1> QED BY <1>2, <1>3

\* The empty table.
LEMMA NoBlocks ==
  <<>> \in Table /\ \A e : ~Contains(<<>>, e)
BY DEF Table, NoDuplicates, Contains

Joining(cl, c, k) == [cl EXCEPT ![c] = k]

\* The size of a set, from that of the set without c.
LEMMA OneLess ==
  ASSUME NEW S, IsFiniteSet(S), NEW c, NEW n, n = Cardinality(S \ {c})
  PROVE  n \in Nat /\ Cardinality(S) = n + (IF c \in S THEN 1 ELSE 0)
<1>1. CASE c \in S
  <2>1. IsFiniteSet(S \ {c}) /\ Cardinality(S \ {c}) = Cardinality(S) - 1
    BY <1>1, FS_RemoveElement
  <2>2. Cardinality(S) \in Nat /\ Cardinality(S \ {c}) \in Nat
    BY <2>1, FS_CardinalityType
  <2> QED BY <1>1, <2>1, <2>2
<1>2. CASE c \notin S
  <2>1. S \ {c} = S
    BY <1>2
  <2>2. Cardinality(S) \in Nat
    BY FS_CardinalityType
  <2> QED BY <1>2, <2>1, <2>2
<1> QED BY <1>1, <1>2

\* The size of a set with, perhaps, one element more.
LEMMA OneMore ==
  ASSUME NEW S, IsFiniteSet(S), NEW c, c \notin S, NEW P, NEW n, n = Cardinality(IF P THEN S \cup {c} ELSE S)
  PROVE  Cardinality(S) \in Nat /\ n = Cardinality(S) + (IF P THEN 1 ELSE 0)
<1>1. Cardinality(S) \in Nat
  BY FS_CardinalityType
<1>2. CASE P
  <2>1. Cardinality(S \cup {c}) = Cardinality(S) + 1
    BY FS_AddElement
  <2> QED BY <1>1, <1>2, <2>1
<1>3. CASE ~P
  BY <1>1, <1>3
<1> QED BY <1>2, <1>3

\* As many elements as the list is long.
LEMMA ListCount ==
  ASSUME NEW E, NEW s \in Seq(E), NoDuplicates(s)
  PROVE  IsFiniteSet(ToSet(s)) /\ Cardinality(ToSet(s)) = Len(s)
<1> DEFINE S == ToSet(s)
           n == Len(s)
<1>1. n \in Nat /\ s \in [1 .. n -> E] /\ DOMAIN s = 1 .. n
  OBVIOUS
<1>2. S = {s[i] : i \in 1 .. n}
  BY <1>1 DEF ToSet
<1>3. s \in [1 .. n -> S] /\ \A e \in S : \E i \in 1 .. n : s[i] = e
  BY <1>1, <1>2
<1> HIDE DEF S
<1>4. s \in Bijection(1 .. n, S)
  BY <1>1, <1>3 DEF NoDuplicates, Injection, IsInjective, Surjection, Bijection
<1>5. ExistsBijection(1 .. n, S)
  BY <1>4 DEF ExistsBijection
<1> HIDE DEF n
<1>6. IsFiniteSet(1 .. n) /\ Cardinality(1 .. n) = n
  <2>1. 1 \in Int /\ n \in Int
    BY <1>1
  <2>2. IsFiniteSet(1 .. n) /\ Cardinality(1 .. n) = IF 1 > n THEN 0 ELSE n - 1 + 1
    BY <2>1, FS_Interval, Zenon
  <2> QED BY <1>1, <2>2
<1>7. IsFiniteSet(S) /\ Cardinality(S) = n
  BY <1>5, <1>6, FS_Bijection
<1> QED BY <1>7 DEF S, n

\* num_free is the number of blocks nobody references.
Unused(p) == {e \in Block : p.ref_cnt[e] = 0}

\* The free list is as long as there are blocks nobody references.
LEMMA FreeCount ==
  ASSUME NEW p, PoolOK(p)
  PROVE  IsFiniteSet(Unused(p)) /\ num_free(p) = Cardinality(Unused(p)) /\ num_free(p) \in Nat
         /\ \A e \in Block : p.ref_cnt[e] \in Nat
<1> DEFINE f == p.free_list
<1>1. f \in Seq(Block) /\ NoDuplicates(f) /\ num_free(p) = Len(f)
  BY DEF PoolOK, AnyPool, FreeListExact, CountExact
<1>2. ToSet(f) = Unused(p)
  <2>1. DOMAIN f = 1 .. Len(f) /\ \A i \in 1 .. Len(f) : f[i] \in Block
    BY <1>1
  <2>2. \A e \in Block : p.ref_cnt[e] = 0 <=> \E i \in 1 .. Len(f) : f[i] = e
    BY DEF PoolOK, FreeListExact
  <2> HIDE DEF f
  <2>3. ToSet(f) = {f[i] : i \in 1 .. Len(f)}
    BY <2>1 DEF ToSet
  <2> QED BY <2>1, <2>2, <2>3 DEF Unused
<1> HIDE DEF f
<1>3. IsFiniteSet(ToSet(f)) /\ Cardinality(ToSet(f)) = Len(f) /\ Len(f) \in Nat
  BY <1>1, ListCount
<1>4. \A e \in Block : p.ref_cnt[e] \in Nat
  BY DEF PoolOK, AnyPool
<1> QED BY <1>1, <1>2, <1>3, <1>4

\* The first element of a list taken off.
LEMMA Beheaded ==
  ASSUME NEW G \in [Nat -> Int], NEW E, E \subseteq Nat, NEW s \in Seq(E), NoDuplicates(s), s # <<>>
  PROVE  /\ Head(s) \in E /\ Head(s) \in ToSet(s) /\ Tail(s) \in Seq(E)
         /\ NoDuplicates(Tail(s))
         /\ ToSet(Tail(s)) = ToSet(s) \ {Head(s)}
         /\ Total(G, Tail(s)) = Total(G, s) - G[Head(s)]
<1> DEFINE h == Head(s)
           r == Tail(s)
<1>1. /\ Len(s) \in Nat \ {0} /\ h = s[1] /\ r \in Seq(E) /\ Len(r) = Len(s) - 1
      /\ \A i \in 1 .. Len(r) : r[i] = s[i + 1]
  OBVIOUS
<1>2. h \in E /\ s[1] \in E /\ DOMAIN s = 1 .. Len(s) /\ DOMAIN r = 1 .. Len(r)
  BY <1>1
<1> HIDE DEF h, r
<1>3. NoDuplicates(r)
  <2> SUFFICES ASSUME NEW i \in 1 .. Len(r), NEW j \in 1 .. Len(r), r[i] = r[j] PROVE i = j
    BY DEF NoDuplicates
  <2>1. i + 1 \in 1 .. Len(s) /\ j + 1 \in 1 .. Len(s) /\ s[i + 1] = s[j + 1]
    BY <1>1
  <2>2. i + 1 = j + 1
    BY <2>1 DEF NoDuplicates
  <2> QED BY <2>2
<1>4. ToSet(s) = {s[i] : i \in 1 .. Len(s)} /\ ToSet(r) = {r[i] : i \in 1 .. Len(r)}
  BY <1>2 DEF ToSet
<1>5. h \in ToSet(s)
  <2>1. 1 \in 1 .. Len(s)
    BY <1>1
  <2> QED BY <2>1, <1>1, <1>4
<1>6. ToSet(r) = ToSet(s) \ {h}
  <2>1. ASSUME NEW e \in ToSet(r) PROVE e \in ToSet(s) /\ e # h
    <3>1. PICK i \in 1 .. Len(r) : e = r[i]
      BY <1>4
    <3>2. i + 1 \in 1 .. Len(s) /\ 1 \in 1 .. Len(s) /\ i + 1 # 1 /\ e = s[i + 1]
      BY <3>1, <1>1
    <3>3. s[i + 1] # s[1]
      BY <3>2 DEF NoDuplicates
    <3> QED BY <3>2, <3>3, <1>1, <1>4
  <2>2. ASSUME NEW e \in ToSet(s), e # h PROVE e \in ToSet(r)
    <3>1. PICK i \in 1 .. Len(s) : e = s[i]
      BY <1>4
    <3>2. i # 1
      BY <3>1, <2>2, <1>1
    <3>3. i - 1 \in 1 .. Len(r) /\ (i - 1) + 1 = i
      BY <3>2, <1>1
    <3>4. e = r[i - 1]
      <4> DEFINE j == i - 1
      <4>1. j \in 1 .. Len(r) /\ j + 1 = i
        BY <3>3
      <4> HIDE DEF j
      <4>2. e = r[j]
        BY <4>1, <3>1, <1>1
      <4> QED BY <4>2 DEF j
    <3> QED BY <3>3, <3>4, <1>4
  <2> QED BY <2>1, <2>2
<1>7. Total(G, r) = Total(G, s) - G[h]
  <2>1. h \in Nat /\ <<h>> \in Seq(Nat) /\ r \in Seq(Nat)
    <3>1. \A i \in 1 .. Len(r) : r[i] \in E
      BY <1>1
    <3>2. \A i \in 1 .. Len(r) : r[i] \in Nat
      BY <3>1, Zenon
    <3> DEFINE F == Nat
    <3> HIDE DEF F
    <3>3. r \in Seq(E) /\ \A i \in 1 .. Len(r) : r[i] \in F
      BY <1>1, <3>2 DEF F
    <3>4. r \in Seq(F)
      BY <3>3, SeqOver
    <3>5. h \in Nat
      BY <1>2
    <3> QED BY <3>4, <3>5 DEF F
  <2>2. s = <<h>> \o r
    BY <1>1, <1>2 DEF h, r
  <2>3. Total(G, <<h>> \o r) = Total(G, <<h>>) + Total(G, r)
    BY <2>1, SumConcat
  <2>4. Total(G, <<h>>) = G[h]
    BY <2>1, SumOne
  <2>5. Total(G, r) \in Int /\ G[h] \in Int
    BY <2>1, SumSteps
  <2> DEFINE T == Total(G, s)
             V == Total(G, r)
             g == G[h]
  <2>6. T = g + V /\ g \in Int /\ V \in Int
    BY <2>2, <2>3, <2>4, <2>5
  <2> HIDE DEF T, V, g
  <2>7. V = T - g
    BY <2>6
  <2> QED BY <2>7 DEF T, V, g
<1> QED BY <1>1, <1>2, <1>3, <1>5, <1>6, <1>7 DEF h, r

Only(f, D) == [n \in D |-> f[n]]

\* A function restricted twice.
LEMMA OnlyOnly ==
  ASSUME NEW f, NEW D, NEW E, E \subseteq D
  PROVE  Only(Only(f, D), E) = Only(f, E)
BY DEF Only

\* The table of an admitted request: its match, then the new blocks.
Tabled(r, ids, table) ==
  /\ table \in Table /\ Len(r) \in Nat /\ Len(ids) \in Nat /\ Len(table) = Len(r) + Len(ids)
  /\ \A i \in 1 .. Len(r) : table[i] = r[i]
  /\ \A i \in 1 .. Len(ids) : table[Len(r) + i] = ids[i]
  /\ \A e \in Block : Contains(table, e) <=> Contains(r, e) \/ Contains(ids, e)

\* The table is the matched blocks and then the new ones.
LEMMA TableOfBoth ==
  ASSUME NEW r \in Table, NEW ids \in Table, \A e \in Block : ~(Contains(r, e) /\ Contains(ids, e))
  PROVE  Tabled(r, ids, r \o ids)
<1>1. r \in Seq(Block) /\ ids \in Seq(Block)
  BY DEF Table
<1>2. /\ Len(r \o ids) = Len(r) + Len(ids)
      /\ \A i \in 1 .. Len(r) : (r \o ids)[i] = r[i]
      /\ \A i \in 1 .. Len(ids) : (r \o ids)[Len(r) + i] = ids[i]
  BY <1>1, ConcatFacts
<1>3. r \o ids \in Table /\ \A e \in Block : Contains(r \o ids, e) <=> Contains(r, e) \/ Contains(ids, e)
  BY ConcatTable
<1>4. Len(r) \in Nat /\ Len(ids) \in Nat
  BY <1>1
<1> QED BY <1>2, <1>3, <1>4 DEF Tabled

\* Two sequences that agree have the same prefixes.
LEMMA AgreePrefix ==
  ASSUME NEW E, NEW u \in Seq(E), NEW v \in Seq(E), NEW k \in Nat, Agree(u, v, k), NEW l \in Nat, l <= k,
         l <= Len(u), l <= Len(v)
  PROVE  SubSeq(u, 1, l) = SubSeq(v, 1, l)
<1>1. SubSeq(u, 1, l) \in Seq(E) /\ Len(SubSeq(u, 1, l)) = l /\ \A j \in 1 .. l : SubSeq(u, 1, l)[j] = u[j]
  BY Cut
<1>2. SubSeq(v, 1, l) \in Seq(E) /\ Len(SubSeq(v, 1, l)) = l /\ \A j \in 1 .. l : SubSeq(v, 1, l)[j] = v[j]
  BY Cut
<1>3. \A j \in 1 .. l : SubSeq(u, 1, l)[j] = SubSeq(v, 1, l)[j]
  <2>1. \A j \in 1 .. l : j \in 1 .. k
    OBVIOUS
  <2> QED BY <2>1, <1>1, <1>2 DEF Agree
<1> DEFINE p == SubSeq(u, 1, l)
           q == SubSeq(v, 1, l)
<1>4. p \in Seq(E) /\ q \in Seq(E) /\ Len(p) = Len(q) /\ \A j \in 1 .. Len(p) : p[j] = q[j]
  BY <1>1, <1>2, <1>3
<1> HIDE DEF p, q
<1>5. p = q
  BY <1>4, SeqExtensional
<1> QED BY <1>5 DEF p, q
=============================================================================
