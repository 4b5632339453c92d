-------------------------- MODULE ContinuousKVProofs --------------------------
(***************************************************************************)
(* The contiguous cache for every number of layers, heads and tokens.  A   *)
(* block is brought into closed form, row by row (BlockRow): the splits    *)
(* and strides cancel out.  A row depends on the rows before it alone, so  *)
(* the rows of a text stay what they are when the text goes on, and a pass *)
(* that finds them in the cache computes what the whole pass computes.     *)
(***************************************************************************)
EXTENDS ContinuousKV, LoopProofs, FiniteSetTheorems, SequenceTheorems

-----------------------------------------------------------------------------
(* Heads and rows in flat memory.                                          *)

\* The rows of heads and blocks, by what they are computed from.
QRow(h, s, y) == [row |-> [w |-> "q", head |-> h, of |-> y], pos |-> s]
KRow(h, s, y) == [row |-> [w |-> "k", head |-> h, of |-> y], pos |-> s]
VRow(h, y)    == [w |-> "v", head |-> h, of |-> y]

\* A tensor of seq rows.
Tall(x, seq) == DOMAIN x = 0 .. seq - 1

\* What a block makes of the row at a place, from the rows up to it.
BlockRow(x, s) ==
  [tok |-> x[s].tok,
   past |-> <<x[s].past,
              [h \in 0 .. NumHeads - 1 |->
                 <<QRow(h, s, x[s]),
                   [j \in 0 .. s |-> <<KRow(h \div Rep, j, x[j]), VRow(h \div Rep, x[j])>>]>>]>>]

\* A place in flat memory has one row and one column.
LEMMA Flat ==
  ASSUME NEW n \in Nat, NEW i \in Nat, NEW s \in 0 .. n - 1
  PROVE  /\ (i * n + s) \div n = i /\ ((i * n + s) % n) = s
         /\ \A m \in Nat : i < m => i * n + s \in 0 .. m * n - 1
<1>1. n \in Nat \ {0}
  OBVIOUS
<1>2. i * n \in Nat /\ (i * n + s) \in Nat
  OBVIOUS
<1> DEFINE a == i * n + s
           q == a \div n
<1>3. q \in Int /\ n * q <= a /\ a < n * q + n
  BY <1>1, <1>2
<1>4. q = i
  <2>1. CASE q < i
    <3>1. n * (q + 1) <= n * i
      BY <2>1, <1>1, <1>3
    <3> QED BY <3>1, <1>1, <1>3
  <2>2. CASE q > i
    <3>1. n * (i + 1) <= n * q
      BY <2>2, <1>1, <1>3
    <3> QED BY <3>1, <1>1, <1>3
  <2> QED BY <2>1, <2>2, <1>3
<1>5. (a % n) = a - n * q
  BY <1>1, <1>2
<1>6. ASSUME NEW m \in Nat, i < m PROVE i * n + s \in 0 .. m * n - 1
  <2>1. (i + 1) * n <= m * n
    BY <1>6, <1>1
  <2> QED BY <2>1, <1>2
<1> QED BY <1>4, <1>5, <1>6

\* A row of a split projection is a head of a row.
LEMMA Split ==
  ASSUME NEW x, NEW seq \in Nat, Tall(x, seq), NEW w, NEW heads \in Nat,
         NEW h \in 0 .. heads - 1, NEW s \in 0 .. seq - 1
  PROVE  /\ h * seq + s \in DOMAIN HeadSplit(Linear(x, w, heads), heads, seq)
         /\ HeadSplit(Linear(x, w, heads), heads, seq)[h * seq + s]
              = [w |-> w, head |-> h, of |-> x[s]]
<1> DEFINE t == Linear(x, w, heads)
           i == h * seq + s
           a == s * heads + h
<1>1. Cardinality(DOMAIN x) = seq
  BY FS_Interval DEF Tall
<1>2. t = [j \in 0 .. seq * heads - 1 |-> [w |-> w, head |-> j % heads, of |-> x[j \div heads]]]
  BY <1>1 DEF Linear
<1>3. i \div seq = h /\ (i % seq) = s /\ i \in 0 .. heads * seq - 1
  <2>1. h \in Nat /\ h < heads
    OBVIOUS
  <2> QED BY <2>1, Flat
<1>4. a \div heads = s /\ (a % heads) = h /\ a \in 0 .. seq * heads - 1
  <2>1. s \in Nat /\ s < seq
    OBVIOUS
  <2> QED BY <2>1, Flat
<1> HIDE DEF t, i, a
<1>5. t[a] = [w |-> w, head |-> h, of |-> x[s]]
  BY <1>2, <1>4
<1>6. (i % seq) * heads + i \div seq = a
  BY <1>3 DEF a
<1>7. HeadSplit(t, heads, seq)[i] = t[a] /\ i \in DOMAIN HeadSplit(t, heads, seq)
  BY <1>3, <1>6 DEF HeadSplit
<1> QED BY <1>5, <1>7 DEF t, i

\* Where the split and turned rows of a token are.
QueriesAt(x, positions, seq, s) ==
  \A h \in 0 .. NumHeads - 1 : Queries(x, positions, seq)[h * seq + s] = QRow(h, positions[s], x[s])
KeysAt(x, positions, seq, s) ==
  \A h \in 0 .. NumKVHeads - 1 :
    /\ Keys(x, positions, seq)[h * seq + s] = KRow(h, positions[s], x[s])
    /\ Values(x, seq)[h * seq + s] = VRow(h, x[s])

\* Queries, keys and values are at their places, turned by their positions.
LEMMA Turned ==
  ASSUME NEW x, NEW seq \in Nat, Tall(x, seq), NEW positions, NEW s \in 0 .. seq - 1
  PROVE  QueriesAt(x, positions, seq, s) /\ KeysAt(x, positions, seq, s)
<1>1. \A h \in Nat : ((h * seq + s) % seq) = s
  BY Flat
<1>2. NumHeads \in Nat /\ NumKVHeads \in Nat
  BY SequenceAssumption
<1>3. ASSUME NEW h \in 0 .. NumHeads - 1
      PROVE  Queries(x, positions, seq)[h * seq + s] = QRow(h, positions[s], x[s])
  <2> DEFINE t == HeadSplit(Linear(x, "q", NumHeads), NumHeads, seq)
  <2>1. h * seq + s \in DOMAIN t /\ t[h * seq + s] = [w |-> "q", head |-> h, of |-> x[s]]
    BY <1>2, Split
  <2>2. h \in Nat
    BY <1>2
  <2>3. Queries(x, positions, seq) = Rope(t, positions, seq)
    BY DEF Queries
  <2> HIDE DEF t
  <2> QED BY <1>1, <2>1, <2>2, <2>3 DEF Rope, QRow
<1>4. ASSUME NEW h \in 0 .. NumKVHeads - 1
      PROVE  /\ Keys(x, positions, seq)[h * seq + s] = KRow(h, positions[s], x[s])
             /\ Values(x, seq)[h * seq + s] = VRow(h, x[s])
  <2> DEFINE t == HeadSplit(Linear(x, "k", NumKVHeads), NumKVHeads, seq)
  <2>1. h * seq + s \in DOMAIN t /\ t[h * seq + s] = [w |-> "k", head |-> h, of |-> x[s]]
    BY <1>2, Split
  <2>2. h \in Nat
    BY <1>2
  <2>3. Keys(x, positions, seq) = Rope(t, positions, seq)
    BY DEF Keys
  <2>4. Values(x, seq)[h * seq + s] = [w |-> "v", head |-> h, of |-> x[s]]
    BY <1>2, Split DEF Values
  <2> HIDE DEF t
  <2>5. Keys(x, positions, seq)[h * seq + s] = KRow(h, positions[s], x[s])
    BY <1>1, <2>1, <2>2, <2>3 DEF Rope, KRow
  <2> QED BY <2>4, <2>5 DEF VRow
<1> QED BY <1>3, <1>4 DEF QueriesAt, KeysAt

-----------------------------------------------------------------------------
(* A block, row by row.                                                    *)

\* Each head has a KV head.
LEMMA GroupOfHead ==
  ASSUME NEW h \in 0 .. NumHeads - 1
  PROVE  h \div Rep \in 0 .. NumKVHeads - 1
<1> DEFINE n == NumKVHeads
           r == NumHeads \div n
           q == h \div r
<1>1. n \in Nat \ {0} /\ NumHeads \in Nat \ {0} /\ (NumHeads % n) = 0
  BY SequenceAssumption
<1>2. NumHeads = n * r /\ r \in Nat
  BY <1>1
<1>3. r # 0
  BY <1>1, <1>2
<1>4. q \in Int /\ r * q <= h /\ h < r * q + r
  <2> HIDE DEF r
  <2> QED BY <1>1, <1>2, <1>3
<1> HIDE DEF n, r, q
<1>5. q >= 0
  <2> SUFFICES ASSUME q + 1 <= 0 PROVE FALSE
    BY <1>4
  <2>1. r * (q + 1) <= 0
    BY <1>2, <1>3, <1>4
  <2> QED BY <2>1, <1>1, <1>2, <1>4
<1>6. q < n
  <2> SUFFICES ASSUME n <= q PROVE FALSE
    BY <1>1, <1>4
  <2>1. r * n <= r * q
    BY <1>1, <1>2, <1>4
  <2> QED BY <2>1, <1>1, <1>2, <1>4
<1> QED BY <1>1, <1>4, <1>5, <1>6 DEF n, r, q, Rep

\* The keys and values of the rows up to a place are where a query looks.
Backed(K, V, y, at, seq_k) ==
  \A i \in 0 .. NumKVHeads - 1, j \in 0 .. at :
    K[i * seq_k + j] = KRow(i, j, y[j]) /\ V[i * seq_k + j] = VRow(i, y[j])

\* Row s of a pass, at its position, is row at of the text.
SameRow(x, positions, s, y, at) == at \in Nat /\ positions[s] = at /\ x[s] = y[at]

\* The last key a query sees.
LastSeen(s, seq_q, seq_k) == IF seq_q = 1 THEN seq_k - 1 ELSE s

\* The result of a block, row by row: if the keys and values of the first
\* rows are at their places, a query at a place attends to those up to it.
LEMMA BlockRows ==
  ASSUME NEW x, NEW seq_q \in Nat, Tall(x, seq_q),
         NEW positions, NEW seq_k \in Nat, NEW K, NEW V, NEW y,
         NEW s \in 0 .. seq_q - 1, NEW at, SameRow(x, positions, s, y, at),
         at = LastSeen(s, seq_q, seq_k), Backed(K, V, y, at, seq_k)
  PROVE  Residual(x, Attention(Queries(x, positions, seq_q), K, V, seq_q, seq_k))[s]
           = BlockRow(y, at)
<1> USE DEF SameRow
<1> DEFINE Q == Queries(x, positions, seq_q)
           att == Attention(Q, K, V, seq_q, seq_k)
<1>1. ASSUME NEW h \in 0 .. NumHeads - 1
      PROVE  att[s * NumHeads + h]
               = <<QRow(h, at, y[at]),
                   [j \in 0 .. at |-> <<KRow(h \div Rep, j, y[j]), VRow(h \div Rep, y[j])>>]>>
  <2> DEFINE i == s * NumHeads + h
  <2>1. NumHeads \in Nat /\ s \in Nat /\ s < seq_q
    BY SequenceAssumption
  <2>2. i \div NumHeads = s /\ (i % NumHeads) = h /\ i \in 0 .. seq_q * NumHeads - 1
    BY <2>1, Flat
  <2>3. Q[h * seq_q + s] = QRow(h, at, y[at])
    <3>1. QueriesAt(x, positions, seq_q, s)
      BY Turned
    <3> QED BY <3>1 DEF QueriesAt
  <2>4. h \div Rep \in 0 .. NumKVHeads - 1
    BY GroupOfHead
  <2>5. Attended(K, V, h, s, seq_q, seq_k)
          = [j \in 0 .. at |-> <<KRow(h \div Rep, j, y[j]), VRow(h \div Rep, y[j])>>]
    BY <2>4 DEF Attended, Backed, LastSeen
  <2> HIDE DEF i, Q
  <2>6. att[i] = <<Q[h * seq_q + s], Attended(K, V, h, s, seq_q, seq_k)>>
    BY <2>2 DEF Attention
  <2> QED BY <2>3, <2>5, <2>6 DEF i
<1>2. Residual(x, att)[s]
        = [tok |-> x[s].tok,
           past |-> <<x[s].past, [h \in 0 .. NumHeads - 1 |-> att[s * NumHeads + h]]>>]
  BY DEF Residual, Tall
<1> HIDE DEF att
<1>3. [h \in 0 .. NumHeads - 1 |-> att[s * NumHeads + h]]
        = [h \in 0 .. NumHeads - 1 |->
             <<QRow(h, at, y[at]),
               [j \in 0 .. at |-> <<KRow(h \div Rep, j, y[j]), VRow(h \div Rep, y[j])>>]>>]
  BY <1>1
<1> QED BY <1>2, <1>3 DEF BlockRow, att

\* A block on all rows, in closed form.
LEMMA WholeRows ==
  ASSUME NEW x, NEW seq \in Nat, Tall(x, seq)
  PROVE  /\ WholeBlock(x, seq) = [s \in 0 .. seq - 1 |-> BlockRow(x, s)]
         /\ WholeBlock(x, seq)
              = Residual(x, Attention(Queries(x, [s \in 0 .. seq - 1 |-> s], seq),
                                      Keys(x, [s \in 0 .. seq - 1 |-> s], seq),
                                      Values(x, seq), seq, seq))
<1> DEFINE positions == [s \in 0 .. seq - 1 |-> s]
           Q == Queries(x, positions, seq)
           K == Keys(x, positions, seq)
           V == Values(x, seq)
           whole == Residual(x, Attention(Q, K, V, seq, seq))
<1>1. WholeBlock(x, seq) = whole
  BY DEF WholeBlock
<1>2. whole = [s \in 0 .. seq - 1 |-> whole[s]]
  BY DEF Residual, Tall
<1>3. ASSUME NEW s \in 0 .. seq - 1 PROVE whole[s] = BlockRow(x, s)
  <2>1. Backed(K, V, x, s, seq)
    <3> SUFFICES ASSUME NEW i \in 0 .. NumKVHeads - 1, NEW j \in 0 .. s
                 PROVE  K[i * seq + j] = KRow(i, j, x[j]) /\ V[i * seq + j] = VRow(i, x[j])
      BY DEF Backed
    <3>1. j \in 0 .. seq - 1 /\ positions[j] = j
      OBVIOUS
    <3> HIDE DEF positions
    <3>2. KeysAt(x, positions, seq, j)
      BY <3>1, Turned
    <3> QED BY <3>1, <3>2 DEF KeysAt
  <2>2. s = LastSeen(s, seq, seq)
    BY DEF LastSeen
  <2>3. SameRow(x, positions, s, x, s)
    BY DEF SameRow
  <2> HIDE DEF positions, K, V, Q, whole
  <2>4. Residual(x, Attention(Queries(x, positions, seq), K, V, seq, seq))[s] = BlockRow(x, s)
    BY <2>1, <2>2, <2>3, BlockRows
  <2> QED BY <2>4 DEF whole, Q
<1> HIDE DEF whole
<1>4. whole = [s \in 0 .. seq - 1 |-> BlockRow(x, s)]
  BY <1>2, <1>3
<1> QED BY <1>1, <1>4 DEF whole

\* A row of a block depends on the rows up to its own alone.
LEMMA Causal ==
  ASSUME NEW x, NEW y, NEW s \in Nat, \A j \in 0 .. s : x[j] = y[j]
  PROVE  BlockRow(x, s) = BlockRow(y, s)
<1>1. x[s] = y[s]
  OBVIOUS
<1>2. ASSUME NEW h \in 0 .. NumHeads - 1
      PROVE  [j \in 0 .. s |-> <<KRow(h \div Rep, j, x[j]), VRow(h \div Rep, x[j])>>]
               = [j \in 0 .. s |-> <<KRow(h \div Rep, j, y[j]), VRow(h \div Rep, y[j])>>]
  OBVIOUS
<1> QED BY <1>1, <1>2 DEF BlockRow

-----------------------------------------------------------------------------
(* The pass without a cache, layer by layer.                               *)

\* The rows of a text behind each layer, without a cache.
After(tokens) ==
  CHOOSE after : after = [l \in 0 .. NumLayers |->
    IF l = 0 THEN Embedding(tokens) ELSE WholeBlock(after[l - 1], Len(tokens))]

\* The whole pass is what is behind the last layer.
LEMMA WholeIsAfter ==
  ASSUME NEW t
  PROVE  Whole(t) = After(t)[NumLayers]
BY DEF Whole, After

\* The function by which the whole pass is defined exists.
LEMMA AfterExists ==
  ASSUME NEW t
  PROVE  After(t) = [l \in 0 .. NumLayers |->
                       IF l = 0 THEN Embedding(t) ELSE WholeBlock(After(t)[l - 1], Len(t))]
<1> DEFINE P(f, n) == f = [l \in 0 .. n |->
                             IF l = 0 THEN Embedding(t) ELSE WholeBlock(f[l - 1], Len(t))]
           S == {n \in Nat : \E f : P(f, n)}
<1>1. 0 \in S
  <2> DEFINE f == [l \in 0 .. 0 |-> Embedding(t)]
  <2>1. f = [l \in 0 .. 0 |-> IF l = 0 THEN Embedding(t) ELSE WholeBlock(f[l - 1], Len(t))]
    OBVIOUS
  <2> HIDE DEF f
  <2>2. P(f, 0)
    BY <2>1
  <2> QED BY <2>2
<1>2. ASSUME NEW n \in Nat, n \in S PROVE n + 1 \in S
  <2>1. PICK f : P(f, n)
    BY <1>2
  <2> DEFINE g == [l \in 0 .. n + 1 |-> IF l <= n THEN f[l] ELSE WholeBlock(f[n], Len(t))]
  <2>2. ASSUME NEW l \in 0 .. n + 1
        PROVE  g[l] = IF l = 0 THEN Embedding(t) ELSE WholeBlock(g[l - 1], Len(t))
    <3>1. CASE l = n + 1
      <4>1. l - 1 = n /\ g[n] = f[n] /\ l # 0
        BY <3>1
      <4> QED BY <3>1, <4>1
    <3>2. CASE l \in 0 .. n
      <4>1. g[l] = f[l] /\ (l # 0 => g[l - 1] = f[l - 1])
        BY <3>2
      <4>2. f[l] = IF l = 0 THEN Embedding(t) ELSE WholeBlock(f[l - 1], Len(t))
        BY <2>1, <3>2
      <4> QED BY <4>1, <4>2
    <3> QED BY <3>1, <3>2
  <2>3. g = [l \in 0 .. n + 1 |-> g[l]]
    OBVIOUS
  <2> HIDE DEF g
  <2>4. P(g, n + 1)
    BY <2>2, <2>3
  <2> QED BY <2>4
<1> HIDE DEF S
<1>3. \A n \in Nat : n \in S
  BY <1>1, <1>2, SetInduction
<1>4. NumLayers \in Nat
  BY SequenceAssumption
<1>5. \E f : P(f, NumLayers)
  BY <1>3, <1>4 DEF S
<1>6. P(CHOOSE f : P(f, NumLayers), NumLayers)
  <2> HIDE DEF P
  <2> QED BY <1>5
<1> QED BY <1>6 DEF After

\* The layers one after the other.
LEMMA AfterLayers ==
  ASSUME NEW t \in Seq(Token)
  PROVE  /\ After(t)[0] = Embedding(t)
         /\ \A l \in 0 .. NumLayers - 1 :
              /\ After(t)[l + 1] = WholeBlock(After(t)[l], Len(t))
              /\ After(t)[l + 1] = [s \in 0 .. Len(t) - 1 |-> BlockRow(After(t)[l], s)]
         /\ \A l \in 0 .. NumLayers : Tall(After(t)[l], Len(t))
<1>1. NumLayers \in Nat /\ Len(t) \in Nat
  BY SequenceAssumption
<1>2. After(t)[0] = Embedding(t)
  BY <1>1, AfterExists
<1>3. ASSUME NEW l \in 0 .. NumLayers - 1
      PROVE  After(t)[l + 1] = WholeBlock(After(t)[l], Len(t))
  <2>1. l + 1 \in 0 .. NumLayers /\ l + 1 # 0 /\ (l + 1) - 1 = l
    BY <1>1
  <2>2. \A i \in 0 .. NumLayers : i # 0 => After(t)[i] = WholeBlock(After(t)[i - 1], Len(t))
    BY AfterExists
  <2> QED BY <2>1, <2>2
<1> DEFINE S == {l \in 0 .. NumLayers : Tall(After(t)[l], Len(t))}
<1>4. 0 \in S
  BY <1>1, <1>2 DEF Tall, Embedding
<1>5. ASSUME NEW l \in 0 .. NumLayers - 1, l \in S PROVE l + 1 \in S
  <2>1. After(t)[l + 1] = [s \in 0 .. Len(t) - 1 |-> BlockRow(After(t)[l], s)]
    BY <1>1, <1>3, <1>5, WholeRows
  <2>2. Tall(After(t)[l + 1], Len(t))
    BY <2>1 DEF Tall
  <2> QED BY <1>1, <2>2
<1> HIDE DEF S
<1>6. \A l \in 0 .. NumLayers : l \in S
  BY <1>1, <1>4, <1>5, BoundedInduction
<1>7. ASSUME NEW l \in 0 .. NumLayers - 1
      PROVE  After(t)[l + 1] = [s \in 0 .. Len(t) - 1 |-> BlockRow(After(t)[l], s)]
  <2>1. Tall(After(t)[l], Len(t))
    BY <1>1, <1>6 DEF S
  <2> QED BY <1>1, <1>3, <2>1, WholeRows
<1> QED BY <1>2, <1>3, <1>6, <1>7 DEF S

\* Each row is the row of its token.
LEMMA AfterTok ==
  ASSUME NEW t \in Seq(Token)
  PROVE  \A l \in 0 .. NumLayers : \A s \in 0 .. Len(t) - 1 : After(t)[l][s].tok = t[s + 1]
<1>1. NumLayers \in Nat
  BY SequenceAssumption
<1> DEFINE S == {l \in 0 .. NumLayers : \A s \in 0 .. Len(t) - 1 : After(t)[l][s].tok = t[s + 1]}
<1>2. 0 \in S
  <2>1. \A s \in 0 .. Len(t) - 1 : Embedding(t)[s].tok = t[s + 1]
    BY DEF Embedding
  <2>2. \A s \in 0 .. Len(t) - 1 : After(t)[0][s].tok = t[s + 1]
    BY <2>1, AfterLayers
  <2> QED BY <1>1, <2>2
<1>3. ASSUME NEW l \in 0 .. NumLayers - 1, l \in S PROVE l + 1 \in S
  <2>1. ASSUME NEW s \in 0 .. Len(t) - 1 PROVE After(t)[l + 1][s].tok = t[s + 1]
    <3>1. After(t)[l + 1][s] = BlockRow(After(t)[l], s)
      <4>1. After(t)[l + 1] = [r \in 0 .. Len(t) - 1 |-> BlockRow(After(t)[l], r)]
        BY AfterLayers
      <4> QED BY <4>1
    <3>2. BlockRow(After(t)[l], s).tok = After(t)[l][s].tok
      BY DEF BlockRow
    <3> QED BY <1>3, <3>1, <3>2
  <2> QED BY <1>1, <2>1
<1> HIDE DEF S
<1>4. \A l \in 0 .. NumLayers : l \in S
  BY <1>1, <1>2, <1>3, BoundedInduction
<1> QED BY <1>4 DEF S

\* A text that goes on has the rows it had.
LEMMA AfterPrefix ==
  ASSUME NEW t \in Seq(Token), NEW u \in Seq(Token), Len(t) <= Len(u),
         \A i \in 1 .. Len(t) : t[i] = u[i]
  PROVE  \A l \in 0 .. NumLayers : \A s \in 0 .. Len(t) - 1 : After(t)[l][s] = After(u)[l][s]
<1>1. NumLayers \in Nat
  BY SequenceAssumption
<1> DEFINE S == {l \in 0 .. NumLayers : \A s \in 0 .. Len(t) - 1 : After(t)[l][s] = After(u)[l][s]}
<1>2. 0 \in S
  <2>1. ASSUME NEW s \in 0 .. Len(t) - 1 PROVE Embedding(t)[s] = Embedding(u)[s]
    BY DEF Embedding
  <2> QED BY <1>1, <2>1, AfterLayers
<1>3. ASSUME NEW l \in 0 .. NumLayers - 1, l \in S PROVE l + 1 \in S
  <2>1. ASSUME NEW s \in 0 .. Len(t) - 1 PROVE After(t)[l + 1][s] = After(u)[l + 1][s]
    <3>1. \A j \in 0 .. s : After(t)[l][j] = After(u)[l][j]
      BY <1>3
    <3>2. BlockRow(After(t)[l], s) = BlockRow(After(u)[l], s)
      BY <3>1, Causal
    <3>3. s \in 0 .. Len(u) - 1
      OBVIOUS
    <3>4. /\ After(t)[l + 1] = [r \in 0 .. Len(t) - 1 |-> BlockRow(After(t)[l], r)]
          /\ After(u)[l + 1] = [r \in 0 .. Len(u) - 1 |-> BlockRow(After(u)[l], r)]
      BY AfterLayers
    <3> QED BY <3>2, <3>3, <3>4
  <2> QED BY <1>1, <2>1
<1> HIDE DEF S
<1>4. \A l \in 0 .. NumLayers : l \in S
  BY <1>1, <1>2, <1>3, BoundedInduction
<1> QED BY <1>4 DEF S

-----------------------------------------------------------------------------
(* What a layer of the cache holds.                                        *)

\* A layer of the cache holds the keys and values of the tokens of a text.
Holds(kl, vl, l, t) ==
  \A i \in 0 .. NumKVHeads - 1 : \A p \in 0 .. Len(t) - 1 :
    /\ kl[i * MaxSeqLen + p] = KRow(i, p, After(t)[l][p])
    /\ vl[i * MaxSeqLen + p] = VRow(i, After(t)[l][p])

\* The rows and positions of the last n tokens of a text, which come after base.
RowsAre(x, t, l, base, n)         == x = [s \in 0 .. n - 1 |-> After(t)[l][base + s]]
PositionsAre(positions, base, n)  == positions = [s \in 0 .. n - 1 |-> base + s]

\* One text goes on as the other.
Extends(u, t) == Len(t) <= Len(u) /\ \A i \in 1 .. Len(t) : t[i] = u[i]

Address == 0 .. NumKVHeads * MaxSeqLen - 1

\* A head and a place are an address of the buffer, and back.
LEMMA AddressOf ==
  ASSUME NEW i \in 0 .. NumKVHeads - 1, NEW p \in 0 .. MaxSeqLen - 1
  PROVE  /\ i * MaxSeqLen + p \in Address
         /\ (i * MaxSeqLen + p) \div MaxSeqLen = i /\ ((i * MaxSeqLen + p) % MaxSeqLen) = p
<1>1. /\ MaxSeqLen \in Nat /\ NumKVHeads \in Nat /\ i \in Nat /\ i < NumKVHeads
  BY SequenceAssumption
<1> QED BY <1>1, Flat DEF Address

\* A prefill leaves its own text in a layer.
LEMMA PrefillHolds ==
  ASSUME NEW t \in Seq(Token), Len(t) < MaxSeqLen, NEW l \in Layer,
         NEW kl, NEW vl, DOMAIN kl = Address, DOMAIN vl = Address,
         NEW x, RowsAre(x, t, l, 0, Len(t)),
         NEW positions, PositionsAre(positions, 0, Len(t)), NEW end
  PROVE  Holds(Copied(kl, Keys(x, positions, Len(t)), Len(t), FALSE, end),
               Copied(vl, Values(x, Len(t)), Len(t), FALSE, end), l, t)
<1>1. SUFFICES ASSUME NEW i \in 0 .. NumKVHeads - 1, NEW p \in 0 .. Len(t) - 1
               PROVE  /\ Copied(kl, Keys(x, positions, Len(t)), Len(t), FALSE, end)[i * MaxSeqLen + p]
                           = KRow(i, p, After(t)[l][p])
                      /\ Copied(vl, Values(x, Len(t)), Len(t), FALSE, end)[i * MaxSeqLen + p]
                           = VRow(i, After(t)[l][p])
  BY DEF Holds
<1> DEFINE a == i * MaxSeqLen + p
           n == Len(t)
<1>2. a \in Address /\ a \div MaxSeqLen = i /\ (a % MaxSeqLen) = p
  <2>1. p \in 0 .. MaxSeqLen - 1
    BY SequenceAssumption
  <2> QED BY <2>1, AddressOf
<1>3. Tall(x, n) /\ n \in Nat
  BY DEF Tall, RowsAre
<1>4. positions[p] = p /\ x[p] = After(t)[l][p] /\ p < n
  BY DEF RowsAre, PositionsAre
<1> HIDE DEF a, n
<1>5. KeysAt(x, positions, n, p)
  <2>1. p \in 0 .. n - 1
    BY DEF n
  <2> QED BY <1>3, <2>1, Turned
<1>6. \A rows : /\ Copied(kl, rows, n, FALSE, end)[a] = rows[i * n + p]
                /\ Copied(vl, rows, n, FALSE, end)[a] = rows[i * n + p]
  BY <1>2, <1>4 DEF Copied
<1> QED BY <1>4, <1>5, <1>6 DEF a, n, KeysAt

\* A decode adds the row of its token.
LEMMA DecodeHolds ==
  ASSUME NEW t \in Seq(Token), NEW u \in Seq(Token), NEW n \in Nat, Len(t) = n, Len(u) = n + 1,
         n < MaxSeqLen, Extends(u, t), NEW l \in Layer,
         NEW kl, NEW vl, DOMAIN kl = Address, DOMAIN vl = Address, Holds(kl, vl, l, t),
         NEW x, RowsAre(x, u, l, n, 1), NEW positions, PositionsAre(positions, n, 1)
  PROVE  Holds(Copied(kl, Keys(x, positions, 1), 1, TRUE, n + 1),
               Copied(vl, Values(x, 1), 1, TRUE, n + 1), l, u)
<1>1. SUFFICES ASSUME NEW i \in 0 .. NumKVHeads - 1, NEW p \in 0 .. n
               PROVE  /\ Copied(kl, Keys(x, positions, 1), 1, TRUE, n + 1)[i * MaxSeqLen + p]
                           = KRow(i, p, After(u)[l][p])
                      /\ Copied(vl, Values(x, 1), 1, TRUE, n + 1)[i * MaxSeqLen + p]
                           = VRow(i, After(u)[l][p])
  <2>1. Len(u) - 1 = n
    OBVIOUS
  <2> QED BY <2>1 DEF Holds
<1> DEFINE a == i * MaxSeqLen + p
<1>2. a \in Address /\ a \div MaxSeqLen = i /\ (a % MaxSeqLen) = p
  <2>1. p \in 0 .. MaxSeqLen - 1
    BY SequenceAssumption
  <2> QED BY <2>1, AddressOf
<1> HIDE DEF a
<1>3. \A rows : /\ Copied(kl, rows, 1, TRUE, n + 1)[a] = IF p = n THEN rows[i] ELSE kl[a]
                /\ Copied(vl, rows, 1, TRUE, n + 1)[a] = IF p = n THEN rows[i] ELSE vl[a]
  <2>1. (n + 1) - 1 = n /\ i * 1 = i
    OBVIOUS
  <2> QED BY <1>2, <2>1 DEF Copied
<1>4. CASE p = n
  <2>1. Tall(x, 1) /\ positions[0] = n /\ x[0] = After(u)[l][n]
    BY DEF Tall, RowsAre, PositionsAre
  <2>2. KeysAt(x, positions, 1, 0)
    <3>1. 1 \in Nat /\ 0 \in 0 .. 1 - 1
      OBVIOUS
    <3> QED BY <2>1, <3>1, Turned
  <2>3. i * 1 + 0 = i
    OBVIOUS
  <2>4. Keys(x, positions, 1)[i] = KRow(i, n, x[0]) /\ Values(x, 1)[i] = VRow(i, x[0])
    BY <2>1, <2>2, <2>3 DEF KeysAt
  <2> QED BY <1>3, <1>4, <2>1, <2>4 DEF a
<1>5. CASE p # n
  <2>1. p \in 0 .. n - 1
    BY <1>5
  <2>2. After(t)[l][p] = After(u)[l][p]
    <3>1. l \in 0 .. NumLayers
      BY SequenceAssumption DEF Layer
    <3>4. \A m \in 0 .. NumLayers : \A s \in 0 .. Len(t) - 1 : After(t)[m][s] = After(u)[m][s]
      BY AfterPrefix DEF Extends
    <3> QED BY <2>1, <3>1, <3>4
  <2>3. kl[a] = KRow(i, p, After(t)[l][p]) /\ vl[a] = VRow(i, After(t)[l][p])
    BY <2>1 DEF Holds, a
  <2> QED BY <1>3, <1>5, <2>2, <2>3 DEF a
<1> QED BY <1>4, <1>5

\* What is copied stays inside the buffer.
LEMMA CopiedDomain ==
  ASSUME NEW b, NEW rows, NEW seq, NEW d, NEW end
  PROVE  DOMAIN Copied(b, rows, seq, d, end) = DOMAIN b
BY DEF Copied

-----------------------------------------------------------------------------
(* The inductive invariant.                                                *)

\* The text of the pass, and where its own tokens begin in it.
Ends(u, b, tokens)           == \A s \in 0 .. Len(tokens) - 1 : u[b + s + 1] = tokens[s + 1]
FullOf(t, tokens, is_decode) == IF is_decode THEN t \o tokens ELSE tokens
BaseOf(t, is_decode)         == IF is_decode THEN Len(t) ELSE 0
Full == FullOf(text, pass.tokens, pass.is_decode)
Base == BaseOf(text, pass.is_decode)

\* The cache holds a text.
Holding(t) == cursor = Len(t) /\ Len(t) <= MaxSeqLen /\ \A l \in Layer : Holds(k[l], v[l], l, t)

Started    == pass.layer > 0 \/ pass.at = "attend"
Written(l) == l < pass.layer \/ (l = pass.layer /\ pass.at = "attend")

PassShape ==
  /\ pass = [at |-> pass.at, layer |-> pass.layer, is_decode |-> pass.is_decode,
             tokens |-> pass.tokens, positions |-> pass.positions, x |-> pass.x]
  /\ pass.at \in {"write", "attend"} /\ pass.layer \in Layer /\ pass.is_decode \in BOOLEAN
  /\ pass.tokens \in Seq(Token)
  /\ pass.is_decode => Len(pass.tokens) = 1 /\ ~broken

\* A pass has the rows of its tokens behind the layers it has done.
RowsOK ==
  /\ PositionsAre(pass.positions, Base, Seq_q)
  /\ RowsAre(pass.x, Full, pass.layer, Base, Seq_q)

\* Until its first write the cache is what it was; then its cursor is that of
\* the whole text, which fits.
CursorOK ==
  IF Started
  THEN cursor = Len(Full) /\ cursor <= MaxSeqLen /\ Seq_q < MaxSeqLen /\ ~RopeRefuses(pass.positions)
  ELSE broken \/ Holding(text)

\* The layers a pass has written hold the whole text, and those a decode has
\* yet to write the text before it.
LayersOK ==
  \A l \in Layer : /\ Written(l) => Holds(k[l], v[l], l, Full)
                   /\ ~Written(l) /\ pass.is_decode => Holds(k[l], v[l], l, text)

BuffersOK ==
  /\ DOMAIN k = Layer /\ DOMAIN v = Layer
  /\ \A l \in Layer : DOMAIN k[l] = Address /\ DOMAIN v[l] = Address

IInv ==
  /\ setup \in Setups /\ text \in Seq(Token) /\ broken \in BOOLEAN /\ BuffersOK
  /\ \/ pass = NoPass /\ (broken \/ Holding(text)) /\ IncrementalIsWhole
     \/ PassShape /\ logits = <<>> /\ RowsOK /\ CursorOK /\ LayersOK

\* The two cases of the invariant exclude each other.
LEMMA NoPassOrPass ==
  ASSUME IInv
  PROVE  /\ pass.at # "none" <=> pass # NoPass
         /\ pass = NoPass => (broken \/ Holding(text)) /\ IncrementalIsWhole
         /\ pass # NoPass => PassShape /\ logits = <<>> /\ RowsOK /\ CursorOK /\ LayersOK
<1>1. PassShape => pass # NoPass /\ pass.at # "none"
  BY DEF PassShape, NoPass
<1>2. NoPass.at = "none"
  BY DEF NoPass
<1> QED BY <1>1, <1>2 DEF IInv

\* An empty cache holds the empty text.
LEMMA InitInv == Init => IInv
<1> SUFFICES ASSUME Init PROVE IInv
  OBVIOUS
<1>1. /\ setup \in Setups /\ k = [l \in Layer |-> Buffer0] /\ v = [l \in Layer |-> Buffer0]
      /\ cursor = 0 /\ pass = NoPass /\ logits = <<>> /\ text = <<>> /\ broken = FALSE
  BY DEF Init
<1>2. BuffersOK
  BY <1>1 DEF BuffersOK, Buffer0, Address
<1>3. Holding(text)
  <2>1. Len(text) = 0 /\ 0 <= MaxSeqLen
    BY <1>1, SequenceAssumption
  <2>2. \A l \in Layer : Holds(k[l], v[l], l, text)
    <3>1. Len(text) - 1 = -1 /\ 0 .. -1 = {}
      BY <2>1
    <3> QED BY <3>1 DEF Holds
  <2> QED BY <1>1, <2>1, <2>2 DEF Holding
<1>4. IncrementalIsWhole
  BY <1>1 DEF IncrementalIsWhole
<1>5. text \in Seq(Token) /\ broken \in BOOLEAN
  BY <1>1, EmptySeq
<1> QED BY <1>1, <1>2, <1>3, <1>4, <1>5 DEF IInv

\* The text of a pass: its parts and their lengths.
LEMMA FullText ==
  ASSUME NEW t \in Seq(Token), NEW tokens \in Seq(Token), NEW d \in BOOLEAN,
         NEW u, u = FullOf(t, tokens, d), NEW b, b = BaseOf(t, d)
  PROVE  /\ u \in Seq(Token) /\ b \in Nat /\ Len(tokens) \in Nat /\ Len(u) = b + Len(tokens)
         /\ Ends(u, b, tokens)
         /\ d => Extends(u, t)
<1>1. Len(t) \in Nat /\ Len(tokens) \in Nat
  OBVIOUS
<1>2. CASE d
  <2>1. u = t \o tokens /\ b = Len(t)
    BY <1>2 DEF FullOf, BaseOf
  <2>2. /\ t \o tokens \in Seq(Token) /\ Len(t \o tokens) = Len(t) + Len(tokens)
        /\ \A i \in 1 .. Len(t) + Len(tokens) :
             (t \o tokens)[i] = IF i <= Len(t) THEN t[i] ELSE tokens[i - Len(t)]
    BY ConcatProperties
  <2>3. /\ u \in Seq(Token) /\ Len(u) = Len(t) + Len(tokens)
        /\ \A i \in 1 .. Len(t) + Len(tokens) : u[i] = IF i <= Len(t) THEN t[i] ELSE tokens[i - Len(t)]
    BY <2>1, <2>2
  <2>4. Extends(u, t)
    BY <1>1, <2>3 DEF Extends
  <2>5. ASSUME NEW s \in 0 .. Len(tokens) - 1 PROVE u[b + s + 1] = tokens[s + 1]
    <3>1. b + s + 1 \in 1 .. Len(t) + Len(tokens) /\ ~(b + s + 1 <= Len(t))
          /\ (b + s + 1) - Len(t) = s + 1
      BY <1>1, <2>1
    <3> QED BY <2>3, <3>1
  <2> QED BY <1>1, <1>2, <2>1, <2>3, <2>4, <2>5 DEF Ends
<1>3. CASE ~d
  BY <1>1, <1>3 DEF FullOf, BaseOf, Ends
<1> QED BY <1>2, <1>3

\* The same of the pass under way.
LEMMA PassText ==
  ASSUME PassShape, text \in Seq(Token)
  PROVE  /\ Full \in Seq(Token) /\ Base \in Nat /\ Seq_q \in Nat /\ Len(Full) = Base + Seq_q
         /\ pass.is_decode => Base = Len(text) /\ Extends(Full, text)
         /\ ~pass.is_decode => Base = 0 /\ Full = pass.tokens
<1>1. pass.tokens \in Seq(Token) /\ pass.is_decode \in BOOLEAN
  BY DEF PassShape
<1> DEFINE t == text
           tokens == pass.tokens
           d == pass.is_decode
<1>2. /\ Full = FullOf(t, tokens, d) /\ Base = BaseOf(t, d) /\ Seq_q = Len(tokens)
      /\ t \in Seq(Token) /\ tokens \in Seq(Token) /\ d \in BOOLEAN
  BY <1>1 DEF Full, Base, Seq_q
<1> HIDE DEF t, tokens, d
<1>3. /\ Full \in Seq(Token) /\ Base \in Nat /\ Len(tokens) \in Nat /\ Len(Full) = Base + Len(tokens)
      /\ d => Extends(Full, t)
  BY <1>2, FullText
<1>4. (d => Base = Len(t)) /\ (~d => Base = 0 /\ Full = tokens)
  BY <1>2 DEF FullOf, BaseOf
<1> QED BY <1>2, <1>3, <1>4 DEF t, tokens, d

-----------------------------------------------------------------------------
(* Beginning, failing and writing.                                         *)

\* Prefill and Decode: a pass begins and the cache is what it was.
LEMMA BeginInv ==
  ASSUME IInv, NEW tokens \in Seq(Token), NEW is_decode \in BOOLEAN,
         is_decode => Len(tokens) = 1 /\ ~broken, Begin(tokens, is_decode)
  PROVE  IInv'
<1>1. /\ pass = NoPass /\ logits' = <<>>
      /\ pass' = [at |-> "write", layer |-> 0, is_decode |-> is_decode, tokens |-> tokens,
                  positions |-> Positions(tokens, is_decode), x |-> Embedding(tokens)]
      /\ setup' = setup /\ k' = k /\ v' = v /\ cursor' = cursor /\ text' = text /\ broken' = broken
  BY DEF Begin, cache
<1>2. /\ pass'.at = "write" /\ pass'.layer = 0 /\ pass'.is_decode = is_decode /\ pass'.tokens = tokens
      /\ pass'.positions = Positions(tokens, is_decode) /\ pass'.x = Embedding(tokens)
  BY <1>1
<1>3. /\ setup \in Setups /\ text \in Seq(Token) /\ broken \in BOOLEAN /\ BuffersOK
      /\ broken \/ Holding(text)
  BY <1>1, NoPassOrPass DEF IInv
<1>4. setup' \in Setups /\ text' \in Seq(Token) /\ broken' \in BOOLEAN /\ BuffersOK'
  BY <1>1, <1>3 DEF BuffersOK
<1>5. 0 \in Layer
  BY SequenceAssumption DEF Layer
<1>6. PassShape'
  <2>1. pass' = [at |-> pass'.at, layer |-> pass'.layer, is_decode |-> pass'.is_decode,
                 tokens |-> pass'.tokens, positions |-> pass'.positions, x |-> pass'.x]
    BY <1>1
  <2> QED BY <1>1, <1>2, <1>5, <2>1 DEF PassShape
<1>7. ~Started' /\ \A l \in Layer : ~Written(l)'
  BY <1>2, SequenceAssumption DEF Started, Written, Layer
<1>8. Holding(text)' <=> Holding(text)
  BY <1>1 DEF Holding
<1>9. CursorOK'
  BY <1>1, <1>3, <1>7, <1>8 DEF CursorOK
<1>10. LayersOK'
  <2>1. ASSUME NEW l \in Layer, is_decode PROVE Holds(k'[l], v'[l], l, text')
    <3>1. Holding(text)
      BY <1>3, <2>1
    <3> QED BY <1>1, <3>1 DEF Holding
  <2> QED BY <1>2, <1>7, <2>1 DEF LayersOK
<1>11. RowsOK'
  <2>1. /\ Full' \in Seq(Token) /\ Base' \in Nat /\ Seq_q' = Len(tokens) /\ Len(Full') = Base' + Seq_q'
        /\ \A s \in 0 .. Seq_q' - 1 : Full'[Base' + s + 1] = tokens[s + 1]
        /\ is_decode => Base' = Len(text)
        /\ ~is_decode => Base' = 0
    <3>1. Full' = FullOf(text, tokens, is_decode) /\ Base' = BaseOf(text, is_decode)
          /\ Seq_q' = Len(tokens)
      BY <1>1, <1>2 DEF Full, Base, Seq_q
    <3> DEFINE u == FullOf(text, tokens, is_decode)
               b == BaseOf(text, is_decode)
    <3>2. /\ u \in Seq(Token) /\ b \in Nat /\ Len(u) = b + Len(tokens) /\ Ends(u, b, tokens)
      BY <1>3, FullText
    <3>4. (is_decode => b = Len(text)) /\ (~is_decode => b = 0)
      BY DEF BaseOf
    <3> HIDE DEF u, b
    <3>3. Full' = u /\ Base' = b
      BY <3>1 DEF u, b
    <3> QED BY <3>1, <3>2, <3>3, <3>4 DEF Ends
  <2>2. is_decode => cursor = Len(text)
    BY <1>3 DEF Holding
  <2>3. Positions(tokens, is_decode) = [s \in 0 .. Len(tokens) - 1 |-> Base' + s]
    <3>1. ASSUME is_decode PROVE \A s \in 0 .. Len(tokens) - 1 : Base' + s = cursor
      <4>1. Len(tokens) = 1 /\ Base' = cursor /\ Base' \in Nat
        BY <2>1, <2>2, <3>1
      <4> QED BY <4>1
    <3>2. ASSUME ~is_decode PROVE \A s \in 0 .. Len(tokens) - 1 : Base' + s = s
      BY <2>1, <3>2
    <3> QED BY <3>1, <3>2 DEF Positions
  <2>4. ASSUME NEW s \in 0 .. Len(tokens) - 1
        PROVE  After(Full')[0][Base' + s] = [tok |-> tokens[s + 1], past |-> <<>>]
    <3>1. Base' + s \in 0 .. Len(Full') - 1
      BY <2>1, <2>4
    <3>2. After(Full')[0] = Embedding(Full')
      BY <2>1, AfterLayers
    <3> QED BY <2>1, <3>1, <3>2 DEF Embedding
  <2>5. Embedding(tokens) = [s \in 0 .. Len(tokens) - 1 |-> After(Full')[0][Base' + s]]
    BY <2>4 DEF Embedding
  <2> QED BY <1>2, <2>1, <2>3, <2>5 DEF RowsOK, RowsAre, PositionsAre
<1> QED BY <1>1, <1>4, <1>6, <1>9, <1>10, <1>11 DEF IInv

\* RefusedWrite, RefusedAttend, OutOfMemory: what was written stays.
LEMMA ThrownInv ==
  ASSUME IInv, pass # NoPass, Thrown
  PROVE  IInv'
<1>1. /\ pass' = NoPass /\ broken' = (broken \/ pass.layer > 0 \/ pass.at = "attend")
      /\ setup' = setup /\ k' = k /\ v' = v /\ cursor' = cursor /\ text' = text /\ logits' = logits
  BY DEF Thrown, cache
<1>2. logits = <<>> /\ CursorOK /\ setup \in Setups /\ text \in Seq(Token) /\ BuffersOK
  BY NoPassOrPass DEF IInv
<1>3. IncrementalIsWhole'
  BY <1>1, <1>2 DEF IncrementalIsWhole
<1>4. broken' \/ Holding(text)'
  <2>1. ASSUME ~broken' PROVE Holding(text)
    BY <1>1, <1>2, <2>1 DEF CursorOK, Started
  <2> QED BY <1>1, <2>1 DEF Holding
<1>5. BuffersOK' /\ broken' \in BOOLEAN
  BY <1>1, <1>2 DEF BuffersOK
<1> QED BY <1>1, <1>2, <1>3, <1>4, <1>5 DEF IInv

\* Write: the layer holds the whole text, and the cursor is behind it.
LEMMA WriteInv ==
  ASSUME IInv, Write
  PROVE  IInv'
<1> DEFINE L == pass.layer
           d == pass.is_decode
           n == Seq_q
           end == Advanced(L, n, d)
           kl == Copied(k[L], Keys(pass.x, pass.positions, n), n, d, end)
           vl == Copied(v[L], Values(pass.x, n), n, d, end)
<1>1. /\ pass.at = "write" /\ ~RopeRefuses(pass.positions) /\ ~WriteRefuses(L, n, d)
      /\ cursor' = end /\ k' = [k EXCEPT ![L] = kl] /\ v' = [v EXCEPT ![L] = vl]
      /\ pass' = [pass EXCEPT !.at = "attend"]
      /\ setup' = setup /\ logits' = logits /\ text' = text /\ broken' = broken
  BY DEF Write
<1>2. /\ PassShape /\ logits = <<>> /\ RowsOK /\ CursorOK /\ LayersOK
      /\ setup \in Setups /\ text \in Seq(Token) /\ broken \in BOOLEAN /\ BuffersOK
  <2>1. pass # NoPass
    BY <1>1 DEF NoPass
  <2> QED BY <2>1, NoPassOrPass DEF IInv
<1>3. /\ pass = [at |-> pass.at, layer |-> L, is_decode |-> d,
                 tokens |-> pass.tokens, positions |-> pass.positions, x |-> pass.x]
      /\ L \in Layer /\ d \in BOOLEAN /\ pass.tokens \in Seq(Token) /\ (d => n = 1 /\ ~broken)
  BY <1>2 DEF PassShape, Seq_q
<1>4. pass' = [at |-> "attend", layer |-> L, is_decode |-> d,
               tokens |-> pass.tokens, positions |-> pass.positions, x |-> pass.x]
  BY <1>1, <1>3
<1>5. /\ pass'.at = "attend" /\ pass'.layer = L /\ pass'.is_decode = d /\ pass'.tokens = pass.tokens
      /\ pass'.positions = pass.positions /\ pass'.x = pass.x
  BY <1>4
<1>6. Full' = Full /\ Base' = Base /\ Seq_q' = n
  BY <1>1, <1>5 DEF Full, Base, Seq_q
<1>7. /\ Full \in Seq(Token) /\ Base \in Nat /\ n \in Nat /\ Len(Full) = Base + n
      /\ d => Base = Len(text) /\ Extends(Full, text)
      /\ ~d => Base = 0 /\ Full = pass.tokens
  BY <1>2, PassText
<1>8. MaxSeqLen \in Nat \ {0} /\ n < MaxSeqLen
  BY <1>1, <1>7, SequenceAssumption DEF WriteRefuses
<1>9. end = Len(Full) /\ end <= MaxSeqLen
  <2>1. CASE ~d
    <3>1. end = n
      BY <2>1 DEF Advanced
    <3> HIDE DEF end, n
    <3> QED BY <1>7, <1>8, <2>1, <3>1
  <2>2. CASE d /\ L = 0
    <3>1. end = cursor + 1 /\ cursor = Len(text) /\ ~(cursor >= MaxSeqLen)
      <4>1. Holding(text)
        BY <1>1, <1>2, <1>3, <2>2 DEF CursorOK, Started
      <4> QED BY <1>1, <2>2, <4>1 DEF Advanced, WriteRefuses, Holding
    <3> HIDE DEF end, n
    <3> QED BY <1>2, <1>3, <1>7, <1>8, <2>2, <3>1
  <2>3. CASE d /\ L # 0
    <3>1. L > 0
      BY <1>3, <2>3, SequenceAssumption DEF Layer
    <3>2. end = cursor /\ cursor = Len(Full) /\ cursor <= MaxSeqLen
      BY <1>2, <2>3, <3>1 DEF Advanced, CursorOK, Started
    <3> QED BY <3>2
  <2> QED BY <2>1, <2>2, <2>3
<1>10. Holds(kl, vl, L, Full)
  <2>1. DOMAIN k[L] = Address /\ DOMAIN v[L] = Address
    BY <1>2, <1>3 DEF BuffersOK
  <2>2. PositionsAre(pass.positions, Base, n) /\ RowsAre(pass.x, Full, L, Base, n)
    BY <1>2 DEF RowsOK
  <2>3. CASE ~d
    <3>1. Len(Full) = n /\ Base = 0 /\ d = FALSE /\ Len(Full) < MaxSeqLen
      BY <1>3, <1>7, <1>8, <2>3
    <3> HIDE DEF n, end
    <3>2. PositionsAre(pass.positions, 0, Len(Full)) /\ RowsAre(pass.x, Full, L, 0, Len(Full))
      BY <2>2, <3>1
    <3>3. Holds(Copied(k[L], Keys(pass.x, pass.positions, Len(Full)), Len(Full), FALSE, end),
                Copied(v[L], Values(pass.x, Len(Full)), Len(Full), FALSE, end), L, Full)
      BY <1>3, <1>7, <2>1, <3>1, <3>2, PrefillHolds
    <3> QED BY <3>1, <3>3
  <2>4. CASE d
    <3> DEFINE m == Len(text)
    <3>1. n = 1 /\ m \in Nat /\ Len(Full) = m + 1 /\ end = m + 1 /\ m < MaxSeqLen /\ Base = m /\ d = TRUE
      BY <1>2, <1>3, <1>7, <1>8, <1>9, <2>4
    <3>2. Holds(k[L], v[L], L, text)
      <4>1. ~Written(L)
        BY <1>1, <1>3, SequenceAssumption DEF Written, Layer
      <4> QED BY <1>2, <1>3, <2>4, <4>1 DEF LayersOK
    <3> HIDE DEF n, end, m
    <3>3. PositionsAre(pass.positions, m, 1) /\ RowsAre(pass.x, Full, L, m, 1)
      BY <2>2, <3>1
    <3>4. Len(text) = m /\ Extends(Full, text)
      BY <1>7, <2>4 DEF m
    <3>5. Holds(Copied(k[L], Keys(pass.x, pass.positions, 1), 1, TRUE, m + 1),
                Copied(v[L], Values(pass.x, 1), 1, TRUE, m + 1), L, Full)
      BY <1>2, <1>3, <1>7, <2>1, <3>1, <3>2, <3>3, <3>4, DecodeHolds
    <3> QED BY <3>1, <3>5
  <2> QED BY <1>3, <2>3, <2>4
<1>11. DOMAIN kl = Address /\ DOMAIN vl = Address
  <2>1. DOMAIN k[L] = Address /\ DOMAIN v[L] = Address
    BY <1>2, <1>3 DEF BuffersOK
  <2> QED BY <2>1, CopiedDomain
<1> HIDE DEF L, d, n, end, kl, vl
<1>12. /\ k'[L] = kl /\ v'[L] = vl /\ \A l \in Layer : l # L => k'[l] = k[l] /\ v'[l] = v[l]
  BY <1>1, <1>2, <1>3 DEF BuffersOK
<1>13. BuffersOK'
  BY <1>1, <1>2, <1>11, <1>12 DEF BuffersOK
<1>14. PassShape'
  BY <1>1, <1>3, <1>4, <1>5 DEF PassShape, n, Seq_q
<1>15. RowsOK'
  BY <1>2, <1>5, <1>6 DEF RowsOK, L, n
<1>16. CursorOK'
  <2>1. Started'
    BY <1>5 DEF Started
  <2>2. RopeRefuses(pass.positions)' <=> RopeRefuses(pass.positions)
    BY <1>1, <1>5 DEF RopeRefuses
  <2> QED BY <1>1, <1>6, <1>8, <1>9, <2>1, <2>2 DEF CursorOK
<1>17. LayersOK'
  <2>1. ASSUME NEW l \in Layer
        PROVE  /\ Written(l)' => Holds(k'[l], v'[l], l, Full)
               /\ ~Written(l)' /\ d => Holds(k'[l], v'[l], l, text)
    <3>1. CASE l = L
      <4>1. Written(l)'
        BY <1>5, <3>1 DEF Written
      <4> QED BY <1>10, <1>12, <3>1, <4>1
    <3>2. CASE l # L
      <4>1. Written(l)' <=> Written(l)
        BY <1>5, <3>2 DEF Written, L
      <4>2. k'[l] = k[l] /\ v'[l] = v[l]
        BY <1>12, <3>2
      <4> QED BY <1>2, <4>1, <4>2 DEF LayersOK, d
    <3> QED BY <3>1, <3>2
  <2> QED BY <1>1, <1>5, <1>6, <2>1 DEF LayersOK
<1>18. setup' \in Setups /\ text' \in Seq(Token) /\ broken' \in BOOLEAN /\ logits' = <<>>
  BY <1>1, <1>2
<1> QED BY <1>13, <1>14, <1>15, <1>16, <1>17, <1>18 DEF IInv

-----------------------------------------------------------------------------
(* Attending.                                                              *)

\* What View reads is what the layer holds.
LEMMA ViewHolds ==
  ASSUME NEW u \in Seq(Token), NEW l \in Layer, NEW kl, NEW vl, Holds(kl, vl, l, u),
         NEW n \in Nat, Len(u) = n + 1, cursor = n + 1
  PROVE  Backed(View(kl), View(vl), After(u)[l], n, n + 1)
<1>1. SUFFICES ASSUME NEW i \in 0 .. NumKVHeads - 1, NEW j \in 0 .. n
               PROVE  /\ View(kl)[i * (n + 1) + j] = KRow(i, j, After(u)[l][j])
                      /\ View(vl)[i * (n + 1) + j] = VRow(i, After(u)[l][j])
  BY DEF Backed
<1> DEFINE a == i * (n + 1) + j
<1>2. a \div cursor = i /\ (a % cursor) = j /\ a \in 0 .. NumKVHeads * cursor - 1
  <2>1. n + 1 \in Nat /\ i \in Nat /\ j \in 0 .. (n + 1) - 1 /\ NumKVHeads \in Nat /\ i < NumKVHeads
    BY SequenceAssumption
  <2>2. a \div (n + 1) = i /\ (a % (n + 1)) = j /\ a \in 0 .. NumKVHeads * (n + 1) - 1
    BY <2>1, Flat
  <2> HIDE DEF a
  <2> QED BY <2>2
<1> HIDE DEF a
<1>3. View(kl)[a] = kl[i * MaxSeqLen + j] /\ View(vl)[a] = vl[i * MaxSeqLen + j]
  BY <1>2 DEF View
<1>4. j \in 0 .. Len(u) - 1
  OBVIOUS
<1>5. /\ kl[i * MaxSeqLen + j] = KRow(i, j, After(u)[l][j])
      /\ vl[i * MaxSeqLen + j] = VRow(i, After(u)[l][j])
  BY <1>4 DEF Holds
<1> QED BY <1>3, <1>5 DEF a

\* A layer of a pass gives the rows of the pass without a cache.
LEMMA BlockOutRows ==
  ASSUME IInv, pass.at = "attend"
  PROVE  RowsAre(BlockOut, Full, pass.layer + 1, Base, Seq_q)
<1> DEFINE L == pass.layer
           n == Seq_q
<1>1. /\ PassShape /\ RowsOK /\ CursorOK /\ LayersOK /\ text \in Seq(Token)
  BY NoPassOrPass DEF IInv, NoPass
<1>2. /\ L \in Layer /\ pass.is_decode \in BOOLEAN /\ pass.tokens \in Seq(Token)
      /\ (pass.is_decode => n = 1)
  BY <1>1 DEF PassShape, Seq_q
<1>3. /\ Full \in Seq(Token) /\ Base \in Nat /\ n \in Nat /\ Len(Full) = Base + n
      /\ pass.is_decode => Base = Len(text)
      /\ ~pass.is_decode => Base = 0
  BY <1>1, PassText
<1>4. PositionsAre(pass.positions, Base, n) /\ RowsAre(pass.x, Full, L, Base, n)
  BY <1>1 DEF RowsOK
<1>5. After(Full)[L + 1] = [s \in 0 .. Len(Full) - 1 |-> BlockRow(After(Full)[L], s)]
  <2>1. L \in 0 .. NumLayers - 1
    BY <1>2 DEF Layer
  <2> QED BY <1>3, <2>1, AfterLayers
<1> HIDE DEF L, n
<1>6. CASE ~pass.is_decode
  <2>1. Base = 0 /\ Len(Full) = n /\ Tall(After(Full)[L], n)
    <3>1. L \in 0 .. NumLayers
      BY <1>2, SequenceAssumption DEF Layer
    <3>2. Tall(After(Full)[L], Len(Full))
      BY <1>3, <3>1, AfterLayers
    <3> QED BY <1>3, <1>6, <3>2
  <2>2. pass.positions = [s \in 0 .. n - 1 |-> s]
    BY <1>3, <1>4, <2>1 DEF PositionsAre
  <2>3. pass.x = [s \in 0 .. n - 1 |-> After(Full)[L][s]]
    BY <1>3, <1>4, <2>1 DEF RowsAre
  <2>4. Tall(pass.x, n)
    BY <2>3 DEF Tall
  <2>5. BlockOut = WholeBlock(pass.x, n)
    <3>1. WholeBlock(pass.x, n)
            = Residual(pass.x, Attention(Queries(pass.x, pass.positions, n),
                                         Keys(pass.x, pass.positions, n), Values(pass.x, n), n, n))
      BY <1>3, <2>2, <2>4, WholeRows
    <3> QED BY <1>6, <3>1 DEF BlockOut, n
  <2>6. BlockOut = [s \in 0 .. n - 1 |-> BlockRow(pass.x, s)]
    BY <1>3, <2>4, <2>5, WholeRows
  <2>7. ASSUME NEW s \in 0 .. n - 1 PROVE BlockRow(pass.x, s) = After(Full)[L + 1][0 + s]
    <3>1. \A j \in 0 .. s : pass.x[j] = After(Full)[L][j]
      BY <1>3, <2>3
    <3>2. s \in Nat /\ 0 + s = s /\ s \in 0 .. Len(Full) - 1
      BY <1>3, <2>1
    <3>3. BlockRow(pass.x, s) = BlockRow(After(Full)[L], s)
      BY <3>1, <3>2, Causal
    <3> QED BY <1>5, <3>2, <3>3
  <2>8. RowsAre(BlockOut, Full, L + 1, 0, n)
    BY <2>6, <2>7 DEF RowsAre
  <2> QED BY <2>1, <2>8 DEF L, n
<1>7. CASE pass.is_decode
  <2> DEFINE m == Base
             K == View(k[L])
             V == View(v[L])
  <2>1. n = 1 /\ Len(Full) = m + 1 /\ cursor = m + 1 /\ m \in Nat
    BY <1>1, <1>2, <1>3, <1>7 DEF CursorOK, Started
  <2>2. Holds(k[L], v[L], L, Full)
    <3>1. Written(L)
      BY DEF Written, L
    <3> QED BY <1>1, <1>2, <3>1 DEF LayersOK
  <2>3. Backed(K, V, After(Full)[L], m, m + 1)
    <3> HIDE DEF m
    <3> QED BY <1>2, <1>3, <2>1, <2>2, ViewHolds
  <2>4. Tall(pass.x, 1) /\ SameRow(pass.x, pass.positions, 0, After(Full)[L], m)
    <3>1. pass.x = [s \in 0 .. 0 |-> After(Full)[L][m + s]] /\ pass.positions = [s \in 0 .. 0 |-> m + s]
      BY <1>4, <2>1 DEF RowsAre, PositionsAre
    <3>2. pass.x[0] = After(Full)[L][m] /\ pass.positions[0] = m
      BY <2>1, <3>1
    <3> QED BY <2>1, <3>1, <3>2 DEF Tall, SameRow
  <2>5. m = LastSeen(0, 1, m + 1)
    BY <2>1 DEF LastSeen
  <2> DEFINE r == Residual(pass.x, Attention(Queries(pass.x, pass.positions, 1), K, V, 1, m + 1))
  <2>6. BlockOut = r
    BY <1>7, <2>1 DEF BlockOut, L, n
  <2>7. r[0] = BlockRow(After(Full)[L], m)
    <3> HIDE DEF K, V, m
    <3>1. 1 \in Nat /\ 0 \in 0 .. 1 - 1 /\ m + 1 \in Nat
      BY <2>1
    <3> QED BY <2>3, <2>4, <2>5, <3>1, BlockRows
  <2>8. DOMAIN r = 0 .. 0
    BY <2>4 DEF Residual, Tall
  <2>9. r = [s \in DOMAIN r |-> r[s]]
    <3> DEFINE att == Attention(Queries(pass.x, pass.positions, 1), K, V, 1, m + 1)
    <3>1. r = Residual(pass.x, att)
      OBVIOUS
    <3> HIDE DEF att, r
    <3> QED BY <3>1 DEF Residual
  <2>10. BlockRow(After(Full)[L], m) = After(Full)[L + 1][m + 0]
    BY <1>5, <2>1
  <2> HIDE DEF r, K, V, m
  <2>11. RowsAre(r, Full, L + 1, m, 1)
    <3>1. r = [s \in 0 .. 0 |-> r[s]]
      BY <2>8, <2>9
    <3>2. \A s \in 0 .. 0 : r[s] = After(Full)[L + 1][m + s]
      BY <2>7, <2>10
    <3>3. 1 - 1 = 0
      OBVIOUS
    <3> QED BY <3>1, <3>2, <3>3 DEF RowsAre
  <2> QED BY <2>1, <2>6, <2>11 DEF L, n, m
<1> QED BY <1>2, <1>6, <1>7

\* Attend: the next layer's rows, or the end of the pass.
LEMMA AttendInv ==
  ASSUME IInv, Attend
  PROVE  IInv'
<1> DEFINE L == pass.layer
           n == Seq_q
<1>1. /\ pass.at = "attend"
      /\ setup' = setup /\ k' = k /\ v' = v /\ cursor' = cursor
  BY DEF Attend, cache
<1>2. /\ PassShape /\ logits = <<>> /\ RowsOK /\ CursorOK /\ LayersOK
      /\ setup \in Setups /\ text \in Seq(Token) /\ broken \in BOOLEAN /\ BuffersOK
  BY <1>1, NoPassOrPass DEF IInv, NoPass
<1>3. /\ pass = [at |-> pass.at, layer |-> L, is_decode |-> pass.is_decode,
                 tokens |-> pass.tokens, positions |-> pass.positions, x |-> pass.x]
      /\ L \in Layer /\ pass.is_decode \in BOOLEAN /\ pass.tokens \in Seq(Token)
      /\ (pass.is_decode => n = 1 /\ ~broken)
  BY <1>2 DEF PassShape, Seq_q
<1>4. RowsAre(BlockOut, Full, L + 1, Base, n)
  BY <1>1, BlockOutRows
<1>5. Started /\ \A l \in Layer : Written(l) <=> l <= L
  BY <1>1, <1>3 DEF Started, Written, Layer
<1>6. /\ cursor = Len(Full) /\ cursor <= MaxSeqLen /\ n < MaxSeqLen /\ ~RopeRefuses(pass.positions)
  BY <1>2, <1>5 DEF CursorOK
<1>7. BuffersOK' /\ setup' \in Setups
  BY <1>1, <1>2 DEF BuffersOK
<1>8. L \in Nat /\ NumLayers \in Nat \ {0} /\ L <= NumLayers - 1
  BY <1>3, SequenceAssumption DEF Layer
<1>9. CASE L < NumLayers - 1
  <2> DEFINE out == BlockOut
  <2>1. /\ pass' = [pass EXCEPT !.at = "write", !.layer = @ + 1, !.x = out]
        /\ logits' = logits /\ text' = text /\ broken' = broken
    BY <1>9 DEF Attend
  <2> HIDE DEF L, n, out
  <2>2. pass' = [at |-> "write", layer |-> L + 1, is_decode |-> pass.is_decode,
                 tokens |-> pass.tokens, positions |-> pass.positions, x |-> out]
    BY <1>3, <2>1 DEF L
  <2>3. /\ pass'.at = "write" /\ pass'.layer = L + 1 /\ pass'.is_decode = pass.is_decode
        /\ pass'.tokens = pass.tokens /\ pass'.positions = pass.positions /\ pass'.x = out
    BY <2>2
  <2>4. Full' = Full /\ Base' = Base /\ Seq_q' = n
    BY <2>1, <2>3 DEF Full, Base, Seq_q, n
  <2>5. L + 1 \in Layer
    BY <1>8, <1>9 DEF Layer
  <2>6. PassShape'
    BY <1>3, <2>1, <2>2, <2>3, <2>5 DEF PassShape, n, Seq_q
  <2>7. RowsOK'
    <3>1. RowsAre(out, Full, L + 1, Base, n) /\ PositionsAre(pass.positions, Base, n)
      BY <1>2, <1>4 DEF RowsOK, n, out
    <3> QED BY <2>3, <2>4, <3>1 DEF RowsOK
  <2>8. CursorOK'
    <3>1. Started'
      BY <1>8, <2>3 DEF Started
    <3>2. RopeRefuses(pass.positions)' <=> RopeRefuses(pass.positions)
      BY <1>1, <2>3 DEF RopeRefuses
    <3> QED BY <1>1, <1>6, <2>4, <3>1, <3>2 DEF CursorOK
  <2>9. LayersOK'
    <3>1. \A l \in Layer : Written(l)' <=> Written(l)
      BY <1>5, <1>8, <2>3 DEF Written, Layer
    <3> QED BY <1>1, <1>2, <2>1, <2>3, <2>4, <3>1 DEF LayersOK
  <2> QED BY <1>2, <1>7, <2>1, <2>6, <2>7, <2>8, <2>9 DEF IInv
<1>10. CASE L = NumLayers - 1
  <2> DEFINE out == BlockOut
  <2>1. pass' = NoPass /\ logits' = out /\ broken' = FALSE
    BY <1>10, <1>8 DEF Attend
  <2>2. text' = Full
    BY <1>10, <1>8 DEF Attend, Full, FullOf
  <2> HIDE DEF n, out
  <2>3. /\ Full \in Seq(Token) /\ Base \in Nat /\ n \in Nat /\ Len(Full) = Base + n
    BY <1>2, PassText DEF n
  <2>4. Holding(text)'
    <3>1. \A l \in Layer : Holds(k[l], v[l], l, Full)
      <4>1. \A l \in Layer : Written(l)
        BY <1>5, <1>10 DEF Layer
      <4> QED BY <1>2, <4>1 DEF LayersOK
    <3> QED BY <1>1, <1>6, <2>2, <3>1 DEF Holding
  <2>5. IncrementalIsWhole'
    <3>1. out = [s \in 0 .. n - 1 |-> After(Full)[NumLayers][Base + s]]
      <4>1. L + 1 = NumLayers
        BY <1>8, <1>10
      <4> QED BY <1>4, <4>1 DEF RowsAre, out, n
    <3>2. DOMAIN out = 0 .. n - 1 /\ Cardinality(DOMAIN out) = n
      BY <2>3, <3>1, FS_Interval
    <3>3. Whole(Full) = After(Full)[NumLayers]
      BY WholeIsAfter
    <3>4. Len(Full) - n = Base
      BY <2>3
    <3>5. \A s \in DOMAIN out : out[s] = Whole(Full)[Len(Full) - n + s]
      BY <3>1, <3>2, <3>3, <3>4
    <3> QED BY <2>1, <2>2, <3>2, <3>5 DEF IncrementalIsWhole
  <2> QED BY <1>7, <2>1, <2>2, <2>3, <2>4, <2>5 DEF IInv
<1> QED BY <1>8, <1>9, <1>10

\* The invariant is inductive.
LEMMA NextInv ==
  ASSUME IInv, [Next]_vars
  PROVE  IInv'
<1>1. ASSUME Prefill PROVE IInv'
  <2>1. PICK tokens \in Prompts : Begin(tokens, FALSE)
    BY <1>1 DEF Prefill
  <2>2. tokens \in Seq(Token)
    BY <2>1, SequenceAssumption
  <2> QED BY <2>1, <2>2, BeginInv
<1>2. ASSUME Decode PROVE IInv'
  <2>1. PICK t \in Token : Begin(<<t>>, TRUE)
    BY <1>2 DEF Decode
  <2>2. ~broken /\ <<t>> \in Seq(Token) /\ Len(<<t>>) = 1
    BY <1>2 DEF Decode
  <2> QED BY <2>1, <2>2, BeginInv
<1>3. ASSUME Write PROVE IInv'
  BY <1>3, WriteInv
<1>4. ASSUME RefusedWrite \/ RefusedAttend \/ OutOfMemory PROVE IInv'
  <2>1. pass # NoPass /\ Thrown
    BY <1>4 DEF RefusedWrite, RefusedAttend, OutOfMemory, NoPass
  <2> QED BY <2>1, ThrownInv
<1>5. ASSUME Attend PROVE IInv'
  BY <1>5, AttendInv
<1>6. ASSUME UNCHANGED vars PROVE IInv'
  BY <1>6 DEF vars, cache, IInv, BuffersOK, Holding, IncrementalIsWhole, PassShape, RowsOK, Seq_q,
              CursorOK, LayersOK, Full, Base, Started, Written, RopeRefuses
<1> QED BY <1>1, <1>2, <1>3, <1>4, <1>5, <1>6 DEF Next

\* What the caches of an undamaged sequence hold at rest is its text.
LEMMA StoredIsText ==
  ASSUME \A r, p : Junk # [row |-> r, pos |-> p], text \in Seq(Token), Holding(text)
  PROVE  StoredText = text
<1>1. cursor = Len(text) /\ cursor <= MaxSeqLen /\ cursor \in Nat
  BY DEF Holding
<1>2. /\ 0 \in Layer /\ 0 \in 0 .. NumKVHeads - 1 /\ MaxSeqLen \in Nat
      /\ \A l \in Layer : l \in 0 .. NumLayers
  BY SequenceAssumption DEF Layer
<1>3. ASSUME NEW p \in 1 .. cursor, NEW row \in Held(p)
      PROVE  row # Junk /\ row.pos = p - 1 /\ row.row.of.tok = text[p]
  <2>1. PICK l \in Layer, i \in 0 .. NumKVHeads - 1 : row = k[l][i * MaxSeqLen + p - 1]
    BY DEF Held
  <2> DEFINE q == p - 1
             y == After(text)[l][q]
  <2>2. q \in 0 .. Len(text) - 1 /\ q + 1 = p /\ i * MaxSeqLen + p - 1 = i * MaxSeqLen + q
    BY <1>1, <1>2
  <2> HIDE DEF q
  <2>3. row = KRow(i, q, y)
    BY <2>1, <2>2 DEF Holding, Holds
  <2>4. y.tok = text[p]
    BY <1>2, <2>2, AfterTok
  <2> HIDE DEF y
  <2>5. /\ row = [row |-> [w |-> "k", head |-> i, of |-> y], pos |-> q]
        /\ row.pos = q /\ row.row.of = y
    BY <2>3 DEF KRow
  <2> QED BY <2>4, <2>5 DEF q
<1>4. \A p \in 1 .. cursor : Held(p) # {}
  <2>1. \A p \in 1 .. cursor : \A l \in Layer, i \in 0 .. NumKVHeads - 1 :
          k[l][i * MaxSeqLen + p - 1] \in Held(p)
    BY DEF Held
  <2> QED BY <1>2, <2>1
<1>5. ASSUME NEW p \in 1 .. cursor
      PROVE  (IF \E t \in Token : \A row \in Held(p) : row # Junk /\ row.pos = p - 1 /\ row.row.of.tok = t
              THEN CHOOSE t \in Token : \A row \in Held(p) : row.row.of.tok = t ELSE Junk) = text[p]
  <2>1. text[p] \in Token
    BY <1>1
  <2>2. \E t \in Token : \A row \in Held(p) : row # Junk /\ row.pos = p - 1 /\ row.row.of.tok = t
    BY <1>3, <2>1
  <2>3. \A t \in Token : (\A row \in Held(p) : row.row.of.tok = t) <=> t = text[p]
    BY <1>3, <1>4
  <2>4. (CHOOSE t \in Token : \A row \in Held(p) : row.row.of.tok = t) = text[p]
    BY <2>1, <2>3
  <2> QED BY <2>2, <2>4
<1>6. StoredText = [p \in 1 .. cursor |-> text[p]]
  BY <1>5 DEF StoredText
<1> QED BY <1>1, <1>6

-----------------------------------------------------------------------------
(* Theorems.                                                               *)

\* A pass that returns, prefill or decode, has computed what the pass without a
\* cache computes for the whole text (kv_cache.cpp, transformer_block.cpp).
THEOREM IncrementalAlwaysWhole == Spec => []IncrementalIsWhole
<1>1. Init => IInv
  BY InitInv
<1>2. IInv /\ [Next]_vars => IInv'
  BY NextInv
<1>3. IInv => IncrementalIsWhole
  BY DEF IInv, IncrementalIsWhole
<1> QED BY <1>1, <1>2, <1>3, PTL DEF Spec

\* On the device for which decoding is written, a pass that is refused is
\* refused before it touches the cache.
THEOREM RefusalsComeFirst == Spec => RefusedAtOnce
<1>1. Init => IInv
  BY InitInv
<1>2. IInv /\ [Next]_vars => IInv'
  BY NextInv
<1>3. ASSUME IInv, RefusedWrite \/ RefusedAttend, setup.device = "CUDA"
      PROVE  pass.layer = 0 /\ pass.at = "write"
  <2>1. pass.at \in {"write", "attend"}
    BY <1>3 DEF RefusedWrite, RefusedAttend
  <2>2. PassShape /\ CursorOK /\ text \in Seq(Token)
    BY <1>3, <2>1, NoPassOrPass DEF IInv, NoPass
  <2>3. ~RefusedAttend
    <3>1. ~AttentionRefuses(Seq_q, Seq_k)
      BY <1>3, <2>2 DEF AttentionRefuses, Seq_k, Seq_q, PassShape
    <3> QED BY <3>1 DEF RefusedAttend
  <2>4. pass.at = "write" /\ (RopeRefuses(pass.positions) \/ WriteRefuses(pass.layer, Seq_q, pass.is_decode))
    BY <1>3, <2>3 DEF RefusedWrite
  <2>5. ~(pass.layer > 0)
    <3> SUFFICES ASSUME pass.layer > 0 PROVE FALSE
      OBVIOUS
    <3>1. Seq_q < MaxSeqLen /\ ~RopeRefuses(pass.positions) /\ pass.layer # 0
      BY <2>2 DEF CursorOK, Started
    <3>2. Seq_q \in Nat /\ MaxSeqLen \in Nat
      BY <2>2, PassText, SequenceAssumption
    <3> QED BY <2>4, <3>1, <3>2 DEF WriteRefuses
  <2>6. pass.layer \in Nat
    BY <2>2, SequenceAssumption DEF PassShape, Layer
  <2> QED BY <2>4, <2>5, <2>6
<1>4. IInv /\ [Next]_vars =>
        [(RefusedWrite \/ RefusedAttend) /\ setup.device = "CUDA"
           => pass.layer = 0 /\ pass.at = "write"]_vars
  BY <1>3
<1> QED BY <1>1, <1>2, <1>4, PTL DEF Spec, RefusedAtOnce

\* The contiguous cache implements a text: prefills replace it, decodes add to
\* it, and only a pass that fails half-way loses it (kv_cache.h).  Junk is no
\* row and Lost no text.
THEOREM ImplementsSequence ==
  ASSUME \A r, p : Junk # [row |-> r, pos |-> p], Lost \notin Seq(Token)
  PROVE  Spec => SequenceSpec
<1> DEFINE bar == IF broken THEN Lost ELSE IF pass = NoPass THEN StoredText ELSE text
           Seen == bar = IF broken THEN Lost ELSE text
<1>1. ASSUME IInv PROVE Seen
  <2>1. ASSUME ~broken, pass = NoPass PROVE StoredText = text
    <3>1. Holding(text) /\ text \in Seq(Token)
      BY <1>1, <2>1, NoPassOrPass DEF IInv
    <3> QED BY <3>1, StoredIsText
  <2> QED BY <2>1
<1>2. Init => IInv /\ Sequence!Init
  <2> SUFFICES ASSUME Init PROVE bar = <<>>
    BY InitInv DEF Sequence!Init
  <2>1. bar = IF broken THEN Lost ELSE text
    BY <1>1, InitInv
  <2> QED BY <2>1 DEF Init
<1>3. IInv /\ [Next]_vars => IInv'
  BY NextInv
<1>4. ASSUME IInv, Seen, Seen', [Next]_vars
      PROVE  [Sequence!Prefill \/ Sequence!Decode \/ Sequence!Lose]_bar
  <2>1. /\ bar = IF broken THEN Lost ELSE text
        /\ bar' = IF broken' THEN Lost ELSE text'
    BY <1>4
  <2>2. Sequence!Lose <=> bar' = Lost
    BY DEF Sequence!Lose
  <2>3. Sequence!Prefill <=> \E n \in 0 .. MaxSeqLen - 1 : bar' \in [1 .. n -> Token]
    BY DEF Sequence!Prefill
  <2>4. Sequence!Decode <=> /\ bar # Lost /\ Len(bar) < MaxSeqLen
                            /\ \E t \in Token : bar' = Append(bar, t)
    BY DEF Sequence!Decode
  <2> HIDE DEF bar
  <2>5. CASE UNCHANGED <<text, broken>>
    BY <2>1, <2>5
  <2>6. CASE Thrown
    BY <2>1, <2>2, <2>6 DEF Thrown
  <2>7. CASE Attend /\ ~UNCHANGED <<text, broken>>
    <3>1. /\ pass.at = "attend" /\ broken' = FALSE
          /\ text' = IF pass.is_decode THEN text \o pass.tokens ELSE pass.tokens
      BY <2>7 DEF Attend
    <3>2. PassShape /\ CursorOK /\ text \in Seq(Token)
      BY <1>4, <3>1, NoPassOrPass DEF IInv, NoPass
    <3>3. /\ cursor = Len(Full) /\ cursor <= MaxSeqLen /\ Seq_q < MaxSeqLen
      BY <3>1, <3>2 DEF CursorOK, Started
    <3>4. /\ Full \in Seq(Token) /\ Base \in Nat /\ Seq_q \in Nat /\ Len(Full) = Base + Seq_q
          /\ pass.is_decode => Base = Len(text)
          /\ ~pass.is_decode => Base = 0 /\ Full = pass.tokens
      BY <3>2, PassText
    <3>5. CASE ~pass.is_decode
      <4>1. bar' = pass.tokens /\ pass.tokens \in Seq(Token)
        BY <2>1, <3>1, <3>4, <3>5
      <4>2. Len(pass.tokens) \in 0 .. MaxSeqLen - 1
        BY <3>3, <3>4, SequenceAssumption DEF Seq_q
      <4>3. pass.tokens \in [1 .. Len(pass.tokens) -> Token]
        BY <4>1
      <4> QED BY <2>3, <4>1, <4>2, <4>3
    <3>6. CASE pass.is_decode
      <4>1. ~broken /\ Len(pass.tokens) = 1 /\ pass.tokens \in Seq(Token)
        BY <3>2, <3>6 DEF PassShape
      <4>2. bar = text /\ bar' = text \o pass.tokens
        BY <2>1, <3>1, <3>6, <4>1
      <4>3. Len(text) < MaxSeqLen
        BY <3>3, <3>4, <3>6, <4>1, SequenceAssumption DEF Seq_q
      <4>4. pass.tokens = <<pass.tokens[1]>> /\ pass.tokens[1] \in Token
        BY <4>1
      <4>5. text \o pass.tokens = Append(text, pass.tokens[1])
        BY <3>2, <4>4, AppendIsConcat
      <4>6. text # Lost
        BY <3>2
      <4> QED BY <2>4, <4>2, <4>3, <4>4, <4>5, <4>6
    <3> QED BY <3>2, <3>5, <3>6 DEF PassShape
  <2>8. CASE Prefill \/ Decode \/ Write
    <3>1. UNCHANGED <<text, broken>>
      BY <2>8 DEF Prefill, Decode, Begin, Write
    <3> QED BY <2>5, <3>1
  <2>9. CASE RefusedWrite \/ RefusedAttend \/ OutOfMemory
    BY <2>6, <2>9 DEF RefusedWrite, RefusedAttend, OutOfMemory
  <2>10. CASE UNCHANGED vars
    BY <2>5, <2>10 DEF vars
  <2> QED BY <1>4, <2>5, <2>7, <2>8, <2>9, <2>10 DEF Next
<1> QED BY <1>1, <1>2, <1>3, <1>4, PTL DEF Spec, SequenceSpec, Sequence!Spec
=============================================================================
