-------------------------- MODULE RadixCacheProofs --------------------------
(***************************************************************************)
(* Proofs about RadixCache, for every pool size, block size and number of  *)
(* requests: the tree stays well formed, pins and references stay exact,   *)
(* and every block holds the KV of the tokens it is filed under.  They are *)
(* about requests whose tokens part at block boundaries (PartAtBlocks);    *)
(* for others the code does not have these properties.  With them the      *)
(* cache implements PrefixCache.                                           *)
(*                                                                         *)
(* The inductive invariant is BaseState.  It gives the tree a meaning: the *)
(* ancestors, tokens and blocks of each node, as three functions tied to   *)
(* its links (Spanned), which a tree with a cycle would not have.  All the *)
(* rest is said in terms of them: where the blocks and the pins of each    *)
(* request are (Placed), whose KV is where (Stored), what every count is   *)
(* (Refs, Pins).                                                           *)
(***************************************************************************)
EXTENDS RadixCache, BlockPoolProofs

\* The tokens of i blocks.  Naming the product keeps it out of the arithmetic.
Span(i) == i * BlockSize

\* The tokens of i blocks grow with i, a block at a time.
LEMMA SpanFacts ==
  /\ \A i \in Int : Span(i) \in Int /\ Span(i + 1) = Span(i) + BlockSize
  /\ \A i, j \in Int : Span(i + j) = Span(i) + Span(j)
  /\ \A i, j \in Int : Span(i - j) = Span(i) - Span(j)
  /\ \A i, j \in Int : i < j => Span(i) + BlockSize <= Span(j)
  /\ \A i, j \in Int : i <= j <=> Span(i) <= Span(j)
  /\ \A i, j \in Int : i < j <=> Span(i) < Span(j)
  /\ \A i, j \in Int : Span(i) = Span(j) => i = j
  /\ \A i \in Nat : Span(i) \in Nat
  /\ Span(0) = 0 /\ Span(1) = BlockSize
  /\ BlockSize \in Nat \ {0}
<1>1. BlockSize \in Nat \ {0}
  BY BlockSizeAssumption
<1>2. \A i \in Int : Span(i) \in Int /\ Span(i + 1) = Span(i) + BlockSize
  BY <1>1 DEF Span
<1>3. \A i, j \in Int : Span(i + j) = Span(i) + Span(j)
  BY <1>1 DEF Span
<1>4. \A i, j \in Int : Span(i - j) = Span(i) - Span(j)
  BY <1>1 DEF Span
<1>5. \A i \in Nat : Span(i) \in Nat
  BY <1>1 DEF Span
<1>6. \A i, j \in Int : i < j => Span(i) + BlockSize <= Span(j)
  BY <1>1 DEF Span
<1>7. \A i \in Int : Span(i) \in Int
  BY <1>2
<1>8. \A i, j \in Int : /\ i <= j <=> Span(i) <= Span(j)
                        /\ i < j <=> Span(i) < Span(j)
                        /\ Span(i) = Span(j) => i = j
  BY <1>1, <1>6, <1>7
<1>9. Span(0) = 0 /\ Span(1) = BlockSize
  BY <1>1 DEF Span
<1> QED BY <1>1, <1>2, <1>3, <1>4, <1>5, <1>6, <1>8, <1>9

\* Division by the block size.
LEMMA BlocksIn ==
  /\ \A m \in Nat : /\ m \div BlockSize \in Nat
                    /\ Span(m \div BlockSize) <= m
                    /\ m < Span(m \div BlockSize) + BlockSize
  /\ \A m \in Nat, q \in Int : Span(q) <= m /\ m < Span(q) + BlockSize => m \div BlockSize = q
  /\ \A q \in Nat : Span(q) \div BlockSize = q
<1>1. BlockSize \in Nat \ {0}
  BY BlockSizeAssumption
<1>2. \A m \in Nat : /\ m \div BlockSize \in Nat
                     /\ Span(m \div BlockSize) <= m
                     /\ m < Span(m \div BlockSize) + BlockSize
  BY <1>1 DEF Span
<1>3. ASSUME NEW m \in Nat, NEW q \in Int, Span(q) <= m, m < Span(q) + BlockSize
      PROVE  m \div BlockSize = q
  <2>1. \A d \in Int : Span(d) <= m /\ m < Span(d) + BlockSize => d = q
    <3> TAKE d \in Int
    <3>1. Span(d) \in Int /\ Span(q) \in Int
      BY SpanFacts
    <3>2. (d < q => Span(d) + BlockSize <= Span(q)) /\ (q < d => Span(q) + BlockSize <= Span(d))
      BY SpanFacts
    <3> QED BY <3>1, <3>2, <1>1, <1>3
  <2> QED BY <2>1, <1>2
<1>4. ASSUME NEW q \in Nat PROVE Span(q) \div BlockSize = q
  <2>1. Span(q) \in Nat
    BY SpanFacts
  <2>2. Span(q) <= Span(q) /\ Span(q) < Span(q) + BlockSize
    BY <2>1, <1>1
  <2> QED BY <2>1, <2>2, <1>3
<1> QED BY <1>2, <1>3, <1>4

\* The blocks n tokens need, counted from the whole ones among them.
LEMMA NeededBlocks ==
  ASSUME NEW n \in Nat
  PROVE  /\ BlocksNeeded(n) \in Nat
         /\ n <= Span(BlocksNeeded(n))
         /\ Span(BlocksNeeded(n)) < n + BlockSize
         /\ n \div BlockSize <= BlocksNeeded(n)
<1> DEFINE m == n + BlockSize - 1
           q == BlocksNeeded(n)
           d == n \div BlockSize
<1>1. BlockSize \in Nat \ {0} /\ m \in Nat /\ q = m \div BlockSize
  BY BlockSizeAssumption DEF BlocksNeeded
<1>2. q \in Nat /\ Span(q) <= m /\ m < Span(q) + BlockSize
  BY <1>1, BlocksIn
<1>3. d \in Nat /\ Span(d) <= n
  BY BlocksIn
<1> HIDE DEF q, d
<1>4. Span(q) \in Int /\ Span(d) \in Int
  BY <1>2, <1>3, SpanFacts
<1>5. n <= Span(q) /\ Span(q) < n + BlockSize
  BY <1>1, <1>2, <1>4
<1>6. Span(d) <= Span(q)
  BY <1>3, <1>4, <1>5
<1>7. d <= q
  BY <1>6, <1>2, <1>3, SpanFacts
<1> QED BY <1>2, <1>5, <1>7 DEF q, d

\* n tokens of which only whole blocks count.
LEMMA AlignedLength ==
  ASSUME NEW n \in Nat
  PROVE  /\ Aligned(n) \in Nat /\ Aligned(n) <= n /\ n < Aligned(n) + BlockSize
         /\ Aligned(n) = Span(n \div BlockSize)
         /\ n \div BlockSize \in Nat
         /\ Aligned(n) \div BlockSize = n \div BlockSize
<1> DEFINE d == n \div BlockSize
<1>1. Aligned(n) = Span(d)
  BY DEF Aligned, Span
<1>2. d \in Nat /\ Span(d) <= n /\ n < Span(d) + BlockSize
  BY BlocksIn
<1> HIDE DEF d
<1>3. Span(d) \in Nat /\ Span(d) \div BlockSize = d
  BY <1>2, SpanFacts, BlocksIn
<1> QED BY <1>1, <1>2, <1>3 DEF d

\* How far a key agrees: the loop stops at a difference or at one of the ends.
LEMMA AgreementFacts ==
  ASSUME NEW key \in Seq(Int), NEW tokens \in Seq(Int), NEW k \in Nat, NEW total \in Nat,
         k <= total, total <= Len(tokens)
  PROVE  LET m == Agreement(key, tokens, k, total)
         IN  /\ m \in Nat /\ m <= Len(key) /\ k + m <= total
             /\ \A i \in 1 .. m : key[i] = tokens[k + i]
             /\ m < Len(key) /\ k + m < total => key[m + 1] # tokens[k + m + 1]
<1> DEFINE n == Min({Len(key), total - k})
           s == {m \in 0 .. n : \A i \in 1 .. m : key[i] = tokens[k + i]}
           a == Agreement(key, tokens, k, total)
<1>1. n \in Nat /\ n <= Len(key) /\ n <= total - k /\ (n = Len(key) \/ n = total - k)
  <2>1. \E x \in {Len(key), total - k} : \A y \in {Len(key), total - k} : x <= y
    OBVIOUS
  <2>2. n \in {Len(key), total - k} /\ \A y \in {Len(key), total - k} : n <= y
    BY <2>1 DEF Min
  <2> QED BY <2>2
<1> HIDE DEF n
<1>2. a = Max(s)
  BY DEF Agreement, n
<1>3. 0 \in s /\ s \in SUBSET (0 .. n)
  BY <1>1
<1>4. a \in s /\ \A i \in s : i <= a
  BY <1>1, <1>2, <1>3, MaxFromZero
<1>5. /\ a \in 0 .. n
      /\ \A i \in 1 .. a : key[i] = tokens[k + i]
      /\ a + 1 \notin s
  <2>1. a \in 0 .. n /\ \A i \in 1 .. a : key[i] = tokens[k + i]
    BY <1>4
  <2> HIDE DEF a, s
  <2> QED BY <1>4, <2>1
<1> HIDE DEF a
<1>6. ASSUME a < Len(key), k + a < total, key[a + 1] = tokens[k + a + 1] PROVE FALSE
  <2>1. a + 1 \in 0 .. n
    BY <1>1, <1>5, <1>6
  <2>2. ASSUME NEW i \in 1 .. a + 1 PROVE key[i] = tokens[k + i]
    <3>1. i \in 1 .. a \/ (i = a + 1 /\ k + i = k + a + 1)
      BY <1>5
    <3> QED BY <3>1, <1>5, <1>6
  <2>3. a + 1 \in s
    BY <2>1, <2>2
  <2> QED BY <2>3, <1>5
<1>7. a \in Nat /\ a <= Len(key) /\ k + a <= total
  BY <1>1, <1>5
<1> HIDE DEF s
<1>8. a = Agreement(key, tokens, k, total)
  BY DEF a
<1> QED BY <1>5, <1>6, <1>7, <1>8

\* The blocks of each node, and the sum of G over a list.
Sizes(t)     == [n \in Nat |-> IF n \in Nodes(t) THEN Len(t.node[n].table) ELSE 0]

\* The sum the tree keeps is this one.
LEMMA LruFold ==
  ASSUME NEW t, Nodes(t) \subseteq Nat, t.lru \in Seq(Nodes(t)),
         \A n \in Nodes(t) : t.node[n].table \in Seq(Block)
  PROVE  FoldLeft(LAMBDA s, n : s + Len(t.node[n].table), 0, t.lru) = Total(Sizes(t), t.lru)
<1> DEFINE list == t.lru
           node == t.node
           G == Sizes(t)
<1>1. G \in [Nat -> Int] /\ \A n \in Nodes(t) : n \in Nat /\ G[n] = Len(node[n].table)
  BY DEF Sizes
<1>2. list \in Seq(Nat) /\ \A i \in 1 .. Len(list) : list[i] \in Nodes(t)
  OBVIOUS
<1> HIDE DEF list, node, G
<1>3. FoldLeft(LAMBDA s, n : s + Len(node[n].table), 0, list) = Total(G, list)
  BY <1>1, <1>2, LengthsFold
<1> QED BY <1>3 DEF list, node, G

\* The fields of a node.
ParentOf(t, n) == t.node[n].parent
KeyOf(t, n)    == t.node[n].key
TableOf(t, n)  == t.node[n].table
LockOf(t, n)   == t.node[n].lock
KidsOf(t, n)   == t.node[n].children
IsTree(t) ==
  /\ t = [node |-> t.node, lru |-> t.lru, evictable |-> t.evictable]
  /\ t.node = [n \in Nodes(t) |-> t.node[n]]
  /\ IsFiniteSet(Nodes(t)) /\ Nodes(t) \subseteq Nat /\ Root \in Nodes(t)
  /\ \A n \in Nodes(t) : IsNode(t.node[n])
  /\ ParentOf(t, Root) = NoParent /\ KeyOf(t, Root) = <<>> /\ TableOf(t, Root) = <<>>
  /\ t.lru \in Seq(Nodes(t)) /\ t.evictable \in Int

\* What the tree says of each node: the nodes above it and itself, the tokens
\* from the root to its end and their blocks.  It is given as three functions
\* that satisfy the equations of the links; a tree with a cycle has none.
Spanned(t, a, x, b) ==
  /\ a \in [Nodes(t) -> SUBSET Nodes(t)]
  /\ x \in [Nodes(t) -> Seq(Int)]
  /\ b \in [Nodes(t) -> Seq(Block)]
  /\ a[Root] = {Root} /\ x[Root] = <<>> /\ b[Root] = <<>>
  /\ \A n \in Nodes(t) \ {Root} :
       /\ a[n] = a[ParentOf(t, n)] \cup {n}
       /\ x[n] = x[ParentOf(t, n)] \o KeyOf(t, n)
       /\ b[n] = b[ParentOf(t, n)] \o TableOf(t, n)
Shape(t, a, x, b) == IsTree(t) /\ WholeBlocks(t) /\ LinksExact(t) /\ Spanned(t, a, x, b)

\* What a node is.
LEMMA NodeFacts ==
  ASSUME NEW t, NEW a, NEW x, NEW b, Shape(t, a, x, b), NEW n \in Nodes(t)
  PROVE  /\ n \in Nat
         /\ KeyOf(t, n) \in Seq(Int) /\ TableOf(t, n) \in Seq(Block)
         /\ NoDuplicates(TableOf(t, n)) /\ TableOf(t, n) \in Table
         /\ LockOf(t, n) \in Nat
         /\ a[n] \subseteq Nodes(t) /\ x[n] \in Seq(Int) /\ b[n] \in Seq(Block)
         /\ Len(KeyOf(t, n)) = Span(Len(TableOf(t, n)))
<1>1. IsNode(t.node[n]) /\ n \in Nat /\ a[n] \subseteq Nodes(t) /\ x[n] \in Seq(Int) /\ b[n] \in Seq(Block)
  BY DEF Shape, IsTree, Spanned
<1>2. Len(KeyOf(t, n)) = Span(Len(TableOf(t, n)))
  <2>1. CASE n = Root
    <3>1. KeyOf(t, n) = <<>> /\ TableOf(t, n) = <<>>
      BY <2>1 DEF Shape, IsTree
    <3>2. Len(<<>>) = 0
      OBVIOUS
    <3> QED BY <3>1, <3>2, SpanFacts
  <2>2. CASE n # Root
    BY <2>2 DEF Shape, WholeBlocks, Span, KeyOf, TableOf
  <2> QED BY <2>1, <2>2
<1> QED BY <1>1, <1>2 DEF IsNode, Table, KeyOf, TableOf, LockOf

\* What a node other than the root has from its parent.
LEMMA ChildFacts ==
  ASSUME NEW t, NEW a, NEW x, NEW b, Shape(t, a, x, b), NEW n \in Nodes(t), n # Root
  PROVE  /\ ParentOf(t, n) \in Nodes(t)
         /\ Len(TableOf(t, n)) >= 1 /\ Len(KeyOf(t, n)) >= BlockSize
         /\ a[n] = a[ParentOf(t, n)] \cup {n}
         /\ Joined(x[n], x[ParentOf(t, n)], KeyOf(t, n))
         /\ Joined(b[n], b[ParentOf(t, n)], TableOf(t, n))
<1> DEFINE p == ParentOf(t, n)
           key == KeyOf(t, n)
           table == TableOf(t, n)
<1>1. p \in Nodes(t)
  BY DEF Shape, LinksExact, ParentOf
<1>2. /\ key \in Seq(Int) /\ table \in Seq(Block)
      /\ Len(key) = Span(Len(table))
      /\ x[p] \in Seq(Int) /\ b[p] \in Seq(Block)
  BY <1>1, NodeFacts
<1>3. table # <<>>
  BY DEF Shape, WholeBlocks, TableOf
<1>4. a[n] = a[p] \cup {n} /\ x[n] = x[p] \o key /\ b[n] = b[p] \o table
  BY DEF Shape, Spanned
<1> HIDE DEF p, key, table
<1>5. Len(table) >= 1
  BY <1>2, <1>3
<1>6. Len(key) >= BlockSize
  <2>1. Len(table) \in Int
    BY <1>2
  <2>2. Span(1) <= Span(Len(table))
    BY <1>5, <2>1, SpanFacts
  <2> QED BY <1>2, <2>2, SpanFacts
<1>7. Joined(x[n], x[p], key)
  <2> DEFINE E == Int
  <2>1. x[p] \in Seq(E) /\ key \in Seq(E)
    BY <1>2
  <2> HIDE DEF E
  <2> QED BY <2>1, <1>4, JoinedConcat
<1>8. Joined(b[n], b[p], table)
  BY <1>2, <1>4, JoinedConcat
<1> QED BY <1>1, <1>4, <1>5, <1>6, <1>7, <1>8 DEF p, key, table

\* The lengths of a node's tokens and blocks, and of its parent's.
LEMMA ChildLonger ==
  ASSUME NEW t, NEW a, NEW x, NEW b, Shape(t, a, x, b), NEW n \in Nodes(t), n # Root
  PROVE  /\ Len(x[ParentOf(t, n)]) < Len(x[n])
         /\ Len(b[ParentOf(t, n)]) < Len(b[n])
         /\ Len(x[ParentOf(t, n)]) = Span(Len(b[ParentOf(t, n)])) => Len(x[n]) = Span(Len(b[n]))
<1> DEFINE u == x[n]
           s == x[ParentOf(t, n)]
           key == KeyOf(t, n)
           v == b[n]
           r == b[ParentOf(t, n)]
           table == TableOf(t, n)
<1>1. Joined(u, s, key) /\ Joined(v, r, table) /\ Len(table) >= 1 /\ Len(key) >= BlockSize
  BY ChildFacts
<1>2. ParentOf(t, n) \in Nodes(t)
  BY ChildFacts
<1>3. /\ u \in Seq(Int) /\ s \in Seq(Int) /\ key \in Seq(Int)
      /\ v \in Seq(Block) /\ r \in Seq(Block) /\ table \in Seq(Block)
  BY <1>2, NodeFacts
<1>4. Len(key) = Span(Len(table))
  BY NodeFacts
<1> HIDE DEF u, s, key, v, r, table
<1>5. Len(u) \in Nat /\ Len(s) \in Nat /\ Len(key) \in Nat /\ Len(v) \in Nat /\ Len(r) \in Nat /\ Len(table) \in Nat
  BY <1>3
<1>6. Len(u) = Len(s) + Len(key) /\ Len(v) = Len(r) + Len(table)
  BY <1>1 DEF Joined
<1>7. Len(s) < Len(u) /\ Len(r) < Len(v)
  <2>1. Len(table) >= 1 /\ Len(key) >= 1
    <3>1. BlockSize \in Nat \ {0}
      BY SpanFacts
    <3> QED BY <1>1, <1>5, <3>1
  <2> QED BY <2>1, <1>5, <1>6, LongerSum
<1>8. Span(Len(v)) = Span(Len(r)) + Span(Len(table))
  BY <1>5, <1>6, SpanFacts
<1>9. ASSUME Len(s) = Span(Len(r)) PROVE Len(u) = Span(Len(v))
  BY <1>4, <1>6, <1>8, <1>9
<1> QED BY <1>7, <1>9 DEF u, s, v, r

\* The tokens and the blocks down to a node have lengths.
LEMMA Lengths ==
  ASSUME NEW t, NEW a, NEW x, NEW b, Shape(t, a, x, b), NEW n \in Nodes(t)
  PROVE  Len(x[n]) \in Nat /\ Len(b[n]) \in Nat
<1>1. x[n] \in Seq(Int) /\ b[n] \in Seq(Block)
  BY NodeFacts
<1> QED BY <1>1

\* What holds of the root and is passed from each node to its children holds
\* of all nodes.
LEMMA ClimbInduction ==
  ASSUME NEW t, NEW a, NEW x, NEW b, Shape(t, a, x, b), NEW S, Root \in S,
         \A n \in Nodes(t) \ {Root} : ParentOf(t, n) \in S => n \in S
  PROVE  \A n \in Nodes(t) : n \in S
<1> DEFINE T == {k \in Nat : \A n \in Nodes(t) : Len(x[n]) <= k => n \in S}
<1>1. \A n \in Nodes(t) : Len(x[n]) \in Nat
  BY Lengths
<1>2. \A n \in Nodes(t) \ {Root} :
        ParentOf(t, n) \in Nodes(t) /\ Len(x[ParentOf(t, n)]) < Len(x[n])
  BY ChildFacts, ChildLonger
<1>3. 0 \in T
  <2> SUFFICES ASSUME NEW n \in Nodes(t), Len(x[n]) <= 0 PROVE n \in S
    OBVIOUS
  <2>1. n = Root
    BY <1>1, <1>2
  <2> QED BY <2>1
<1>4. ASSUME NEW k \in Nat, k \in T PROVE k + 1 \in T
  <2> SUFFICES ASSUME NEW n \in Nodes(t), Len(x[n]) <= k + 1 PROVE n \in S
    OBVIOUS
  <2>1. CASE n = Root
    BY <2>1
  <2>2. CASE n # Root
    <3>1. ParentOf(t, n) \in Nodes(t) /\ Len(x[ParentOf(t, n)]) <= k
      BY <1>1, <1>2, <2>2
    <3>2. ParentOf(t, n) \in S
      BY <1>4, <3>1
    <3> QED BY <3>2, <2>2
  <2> QED BY <2>1, <2>2
<1>5. \A k \in Nat : k \in T
  <2> HIDE DEF T
  <2> QED BY <1>3, <1>4, SetInduction
<1> QED BY <1>1, <1>5

\* m is above n or n itself, with fewer tokens and blocks when it is not n.
Above(t, a, x, b, m, n) ==
  /\ m \in Nodes(t) /\ a[m] \subseteq a[n]
  /\ Begins(x[n], x[m]) /\ Begins(b[n], b[m])
  /\ m # n => Len(x[m]) < Len(x[n]) /\ Len(b[m]) < Len(b[n])

\* The nodes above a node.
LEMMA AboveFacts ==
  ASSUME NEW t, NEW a, NEW x, NEW b, Shape(t, a, x, b)
  PROVE  \A n \in Nodes(t) :
           /\ n \in a[n] /\ Root \in a[n]
           /\ Len(x[n]) = Span(Len(b[n]))
           /\ \A m \in a[n] : Above(t, a, x, b, m, n)
<1> DEFINE P(n) == /\ n \in a[n] /\ Root \in a[n]
                   /\ Len(x[n]) = Span(Len(b[n]))
                   /\ \A m \in a[n] : Above(t, a, x, b, m, n)
           S == {n \in Nodes(t) : P(n)}
<1>1. \A n \in Nodes(t) : x[n] \in Seq(Int) /\ b[n] \in Seq(Block) /\ Len(x[n]) \in Nat /\ Len(b[n]) \in Nat
  BY NodeFacts, Lengths
<1>2. ASSUME NEW n \in Nodes(t) PROVE Begins(x[n], x[n]) /\ Begins(b[n], b[n])
  BY <1>1 DEF Begins
<1>3. Root \in S
  <2>1. a[Root] = {Root} /\ x[Root] = <<>> /\ b[Root] = <<>> /\ Root \in Nodes(t)
    BY DEF Shape, Spanned, IsTree
  <2>2. Len(<<>>) = 0
    OBVIOUS
  <2>3. Len(x[Root]) = Span(Len(b[Root]))
    BY <2>1, <2>2, SpanFacts
  <2>4. Above(t, a, x, b, Root, Root)
    BY <2>1, <1>2 DEF Above
  <2> QED BY <2>1, <2>3, <2>4
<1>4. ASSUME NEW n \in Nodes(t) \ {Root}, ParentOf(t, n) \in S PROVE n \in S
  <2> DEFINE p == ParentOf(t, n)
  <2>1. /\ p \in Nodes(t)
        /\ a[n] = a[p] \cup {n}
        /\ Joined(x[n], x[p], KeyOf(t, n)) /\ Joined(b[n], b[p], TableOf(t, n))
    BY ChildFacts
  <2>2. P(p)
    BY <1>4
  <2>3. /\ Len(x[p]) < Len(x[n]) /\ Len(b[p]) < Len(b[n])
        /\ Len(x[p]) = Span(Len(b[p])) => Len(x[n]) = Span(Len(b[n]))
    BY ChildLonger
  <2> HIDE DEF p
  <2>4. Begins(x[n], x[p]) /\ Begins(b[n], b[p])
    BY <2>1 DEF Joined
  <2>5. ASSUME NEW m \in a[n] PROVE Above(t, a, x, b, m, n)
    <3>1. CASE m = n
      BY <3>1, <1>2 DEF Above
    <3>2. CASE m \in a[p]
      <4>1. Above(t, a, x, b, m, p)
        BY <2>2, <3>2
      <4>2. m \in Nodes(t) /\ Len(x[m]) <= Len(x[p]) /\ Len(b[m]) <= Len(b[p])
        BY <4>1, <1>1, <2>1 DEF Above
      <4>3. Len(x[m]) < Len(x[n]) /\ Len(b[m]) < Len(b[n])
        BY <4>2, <2>3, <1>1, <2>1
      <4>4. Begins(x[n], x[m])
        <5> DEFINE E == Int
        <5>1. x[m] \in Seq(E) /\ x[p] \in Seq(E) /\ x[n] \in Seq(E)
          BY <4>2, <2>1, <1>1
        <5> HIDE DEF E
        <5>2. Begins(x[p], x[m])
          BY <4>1 DEF Above
        <5> QED BY <5>1, <5>2, <2>4, BeginsTransitive
      <4>5. Begins(b[n], b[m])
        <5>1. Begins(b[p], b[m])
          BY <4>1 DEF Above
        <5> QED BY <5>1, <4>2, <2>1, <2>4, <1>1, BeginsTransitive
      <4>6. a[m] \subseteq a[n]
        BY <4>1, <2>1 DEF Above
      <4> QED BY <4>2, <4>3, <4>4, <4>5, <4>6 DEF Above
    <3> QED BY <3>1, <3>2, <2>1
  <2>6. n \in a[n] /\ Root \in a[n]
    BY <2>1, <2>2
  <2>7. Len(x[n]) = Span(Len(b[n]))
    BY <2>2, <2>3
  <2> QED BY <2>5, <2>6, <2>7
<1>5. \A n \in Nodes(t) : n \in S
  <2> HIDE DEF S
  <2> QED BY <1>3, <1>4, ClimbInduction
<1> QED BY <1>1, <1>5

(* The loops of the tree, each as the states it goes through. *)
PathTurn(t, p) == IF Last(p) = Root THEN p ELSE Append(p, t.node[Last(p)].parent)
LockTurn(path, s)   == [tree |-> LockNode(s.tree, path[s.i]), i |-> s.i + 1]
UnlockTurn(path, s) == [tree |-> UnlockNode(s.tree, path[s.i]), i |-> s.i + 1]
DescendTurn(tokens, refresh, w) == WalkStep(w, tokens, Aligned(Len(tokens)), refresh)
EvictTurn(need, r) == IF r.ok /\ r.freed < need /\ r.tree.lru # <<>> THEN EvictOne(r) ELSE r
ChainTurn(t, s) == [at     |-> t.node[s.at].parent,
                    tokens |-> t.node[s.at].key \o s.tokens,
                    blocks |-> t.node[s.at].table \o s.blocks]
PathStart(m)    == <<m>>
ChainStart(m)   == [at |-> m, tokens |-> <<>>, blocks |-> <<>>]
EvictStart(t, p) == [tree |-> t, pool |-> p, freed |-> 0, ok |-> TRUE]
LockStart(t)    == [tree |-> t, i |-> 1]

\* The turn of each of them, and the states f of n turns.
Turned(loop, x, y, s) ==
  CASE loop = "PathUp"     -> PathTurn(x, s)
    [] loop = "Chain"      -> ChainTurn(x, s)
    [] loop = "IncLockRef" -> LockTurn(x, s)
    [] loop = "DecLockRef" -> UnlockTurn(x, s)
    [] loop = "Descend"    -> DescendTurn(x, y, s)
    [] loop = "Evict"      -> EvictTurn(x, s)
Goes(loop, x, y, first, n, f) == f = [i \in 0 .. n |-> IF i = 0 THEN first ELSE Turned(loop, x, y, f[i - 1])]

\* A loop goes through states.
LEMMA LoopGoes ==
  ASSUME NEW loop, NEW x, NEW y, NEW first, NEW n \in Nat
  PROVE  \E f : Goes(loop, x, y, first, n, f)
<1> DEFINE T(s) == Turned(loop, x, y, s)
           Runs(f, k) == f = [i \in 0 .. k |-> IF i = 0 THEN first ELSE T(f[i - 1])]
           S == {k \in Nat : \E f : Runs(f, k)}
<1> HIDE DEF T
<1>1. 0 \in S
  <2>1. Runs([i \in 0 .. 0 |-> first], 0)
    OBVIOUS
  <2> QED BY <2>1
<1>2. ASSUME NEW k \in Nat, k \in S PROVE k + 1 \in S
  <2>1. PICK f : Runs(f, k)
    BY <1>2
  <2> DEFINE g == [i \in 0 .. k + 1 |-> IF i = k + 1 THEN T(f[k]) ELSE f[i]]
  <2>2. ASSUME NEW i \in 0 .. k + 1 PROVE g[i] = IF i = 0 THEN first ELSE T(g[i - 1])
    <3>1. CASE i = k + 1
      <4>1. g[i] = T(f[k]) /\ g[i - 1] = f[k] /\ i # 0
        BY <3>1
      <4> QED BY <4>1
    <3>2. CASE i \in 0 .. k
      <4>1. g[i] = f[i] /\ (i # 0 => g[i - 1] = f[i - 1])
        BY <3>2
      <4>2. f[i] = IF i = 0 THEN first ELSE T(f[i - 1])
        BY <2>1, <3>2
      <4> HIDE DEF g
      <4> QED BY <4>1, <4>2
    <3> QED BY <3>1, <3>2
  <2>3. Runs(g, k + 1)
    BY <2>2
  <2> HIDE DEF Runs, g
  <2> QED BY <2>3
<1>3. n \in S
  <2> HIDE DEF S
  <2> QED BY <1>1, <1>2, SetInduction
<1> QED BY <1>3 DEF Goes, T

\* Turn by turn.
LEMMA LoopTurns ==
  ASSUME NEW loop, NEW x, NEW y, NEW first, NEW n \in Nat, NEW f, Goes(loop, x, y, first, n, f)
  PROVE  f[0] = first /\ \A i \in 1 .. n : f[i] = Turned(loop, x, y, f[i - 1])
<1>1. f[0] = first
  BY DEF Goes
<1>2. ASSUME NEW i \in 1 .. n PROVE f[i] = Turned(loop, x, y, f[i - 1])
  <2>1. i \in 0 .. n /\ i # 0
    OBVIOUS
  <2> QED BY <2>1 DEF Goes
<1> QED BY <1>1, <1>2

\* The way up from a node.
LEMMA PathRuns ==
  ASSUME NEW t, NEW m, NEW n \in Nat, n = Cardinality(Nodes(t))
  PROVE  \E f : /\ f[0] = PathStart(m)
                /\ \A i \in 1 .. n : f[i] = PathTurn(t, f[i - 1])
                /\ PathUp(t, m) = f[n]
<1> DEFINE Runs(f) == f = [i \in 0 .. n |->
              IF i = 0 THEN PathStart(m) ELSE CHOOSE u \in {PathTurn(t, r) : r \in {f[i - 1]}} : TRUE]
           h == CHOOSE f : Runs(f)
<1>1. \A s : Turned("PathUp", t, t, s) = CHOOSE u \in {PathTurn(t, r) : r \in {s}} : TRUE
  BY DEF Turned
<1>2. \A f : Runs(f) <=> Goes("PathUp", t, t, PathStart(m), n, f)
  BY <1>1 DEF Goes
<1>3. PathUp(t, m) = h[n]
  BY DEF PathUp, Iterate, PathTurn, PathStart
<1>4. Goes("PathUp", t, t, PathStart(m), n, h)
  <2> HIDE DEF Runs
  <2> QED BY <1>2, LoopGoes
<1> HIDE DEF Runs, h
<1> QED BY <1>3, <1>4, LoopTurns DEF Turned

\* The tokens and blocks of a node, gathered on the way up.
LEMMA ChainRuns ==
  ASSUME NEW t, NEW m, NEW n \in Nat, n = Len(PathUp(t, m))
  PROVE  \E f : /\ f[0] = ChainStart(m)
                /\ \A i \in 1 .. n : f[i] = ChainTurn(t, f[i - 1])
                /\ Chain(t, m) = f[n]
<1> DEFINE Runs(f) == f = [i \in 0 .. n |->
              IF i = 0 THEN ChainStart(m) ELSE CHOOSE u \in {ChainTurn(t, r) : r \in {f[i - 1]}} : TRUE]
           h == CHOOSE f : Runs(f)
<1>1. \A s : Turned("Chain", t, t, s) = CHOOSE u \in {ChainTurn(t, r) : r \in {s}} : TRUE
  BY DEF Turned
<1>2. \A f : Runs(f) <=> Goes("Chain", t, t, ChainStart(m), n, f)
  BY <1>1 DEF Goes
<1>3. Chain(t, m) = h[n]
  BY DEF Chain, Iterate, ChainTurn, ChainStart
<1>4. Goes("Chain", t, t, ChainStart(m), n, h)
  <2> HIDE DEF Runs
  <2> QED BY <1>2, LoopGoes
<1> HIDE DEF Runs, h
<1> QED BY <1>3, <1>4, LoopTurns DEF Turned

\* The pins taken on the way up.
LEMMA IncRuns ==
  ASSUME NEW t, NEW m, NEW path, path = PathUp(t, m), NEW n \in Nat, n = Len(path)
  PROVE  \E f : /\ f[0] = LockStart(t)
                /\ \A i \in 1 .. n : f[i] = LockTurn(path, f[i - 1])
                /\ IncLockRef(t, m) = f[n].tree
<1> DEFINE Runs(f) == f = [i \in 0 .. n |->
              IF i = 0 THEN LockStart(t) ELSE CHOOSE u \in {LockTurn(path, r) : r \in {f[i - 1]}} : TRUE]
           h == CHOOSE f : Runs(f)
<1>1. \A s : Turned("IncLockRef", path, path, s) = CHOOSE u \in {LockTurn(path, r) : r \in {s}} : TRUE
  BY DEF Turned
<1>2. \A f : Runs(f) <=> Goes("IncLockRef", path, path, LockStart(t), n, f)
  BY <1>1 DEF Goes
<1>3. IncLockRef(t, m) = h[n].tree
  BY DEF IncLockRef, Iterate, LockTurn, LockStart
<1>4. Goes("IncLockRef", path, path, LockStart(t), n, h)
  <2> HIDE DEF Runs
  <2> QED BY <1>2, LoopGoes
<1> HIDE DEF Runs, h
<1> QED BY <1>3, <1>4, LoopTurns DEF Turned

\* The pins given back on the way up.
LEMMA DecRuns ==
  ASSUME NEW t, NEW m, NEW path, path = PathUp(t, m), NEW n \in Nat, n = Len(path)
  PROVE  \E f : /\ f[0] = LockStart(t)
                /\ \A i \in 1 .. n : f[i] = UnlockTurn(path, f[i - 1])
                /\ DecLockRef(t, m) = f[n].tree
<1> DEFINE Runs(f) == f = [i \in 0 .. n |->
              IF i = 0 THEN LockStart(t) ELSE CHOOSE u \in {UnlockTurn(path, r) : r \in {f[i - 1]}} : TRUE]
           h == CHOOSE f : Runs(f)
<1>1. \A s : Turned("DecLockRef", path, path, s) = CHOOSE u \in {UnlockTurn(path, r) : r \in {s}} : TRUE
  BY DEF Turned
<1>2. \A f : Runs(f) <=> Goes("DecLockRef", path, path, LockStart(t), n, f)
  BY <1>1 DEF Goes
<1>3. DecLockRef(t, m) = h[n].tree
  BY DEF DecLockRef, Iterate, UnlockTurn, LockStart
<1>4. Goes("DecLockRef", path, path, LockStart(t), n, h)
  <2> HIDE DEF Runs
  <2> QED BY <1>2, LoopGoes
<1> HIDE DEF Runs, h
<1> QED BY <1>3, <1>4, LoopTurns DEF Turned

\* The way down along the tokens.
LEMMA DescendRuns ==
  ASSUME NEW t, NEW tokens, NEW refresh, NEW n \in Nat, n = Cardinality(Nodes(t))
  PROVE  \E f : /\ f[0] = Walk0(t)
                /\ \A i \in 1 .. n : f[i] = DescendTurn(tokens, refresh, f[i - 1])
                /\ Descend(t, tokens, refresh) = f[n]
<1> DEFINE Runs(f) == f = [i \in 0 .. n |->
              IF i = 0 THEN Walk0(t) ELSE CHOOSE u \in {DescendTurn(tokens, refresh, r) : r \in {f[i - 1]}} : TRUE]
           h == CHOOSE f : Runs(f)
<1>1. \A s : Turned("Descend", tokens, refresh, s) = CHOOSE u \in {DescendTurn(tokens, refresh, r) : r \in {s}} : TRUE
  BY DEF Turned
<1>2. \A f : Runs(f) <=> Goes("Descend", tokens, refresh, Walk0(t), n, f)
  BY <1>1 DEF Goes
<1>3. Descend(t, tokens, refresh) = h[n]
  BY DEF Descend, Iterate, DescendTurn
<1>4. Goes("Descend", tokens, refresh, Walk0(t), n, h)
  <2> HIDE DEF Runs
  <2> QED BY <1>2, LoopGoes
<1> HIDE DEF Runs, h
<1> QED BY <1>3, <1>4, LoopTurns DEF Turned

\* The evictions of one call.
LEMMA EvictRuns ==
  ASSUME NEW t, NEW p, NEW need, NEW n \in Nat, n = Cardinality(Nodes(t))
  PROVE  \E f : /\ f[0] = EvictStart(t, p)
                /\ \A i \in 1 .. n : f[i] = EvictTurn(need, f[i - 1])
                /\ Evict(t, need, p) = f[n]
<1> DEFINE Runs(f) == f = [i \in 0 .. n |->
              IF i = 0 THEN EvictStart(t, p) ELSE CHOOSE u \in {EvictTurn(need, r) : r \in {f[i - 1]}} : TRUE]
           h == CHOOSE f : Runs(f)
<1>1. \A s : Turned("Evict", need, need, s) = CHOOSE u \in {EvictTurn(need, r) : r \in {s}} : TRUE
  BY DEF Turned
<1>2. \A f : Runs(f) <=> Goes("Evict", need, need, EvictStart(t, p), n, f)
  BY <1>1 DEF Goes
<1>3. Evict(t, need, p) = h[n]
  BY DEF Evict, Iterate, EvictTurn, EvictStart
<1>4. Goes("Evict", need, need, EvictStart(t, p), n, h)
  <2> HIDE DEF Runs
  <2> QED BY <1>2, LoopGoes
<1> HIDE DEF Runs, h
<1> QED BY <1>3, <1>4, LoopTurns DEF Turned

\* A node is not above its parent.
LEMMA OffParent ==
  ASSUME NEW t, NEW a, NEW x, NEW b, Shape(t, a, x, b), NEW n \in Nodes(t) \ {Root}
  PROVE  n \notin a[ParentOf(t, n)]
<1> DEFINE p == ParentOf(t, n)
<1>1. p \in Nodes(t) /\ Len(x[p]) < Len(x[n])
  BY ChildFacts, ChildLonger
<1>2. Len(x[p]) \in Nat /\ Len(x[n]) \in Nat
  BY <1>1, Lengths
<1> HIDE DEF p
<1>3. ASSUME n \in a[p] PROVE FALSE
  <2>1. n # p => Len(x[n]) < Len(x[p])
    BY <1>1, <1>3, AboveFacts DEF Above
  <2>2. n # p
    BY <1>1, <1>2
  <2> QED BY <2>1, <2>2, <1>1, <1>2
<1> QED BY <1>3 DEF p

\* The list p climbs from the node m.
Climbs(t, a, m, p) ==
  /\ p \in Seq(Nodes(t)) /\ Len(p) >= 1 /\ p[1] = m /\ NoDuplicates(p)
  /\ \A i \in 1 .. Len(p) - 1 : p[i] # Root /\ p[i + 1] = ParentOf(t, p[i]) /\ p[i] \notin a[Last(p)]
  /\ a[m] = ToSet(p) \cup a[Last(p)]

\* The way up from a node starts at the node.
LEMMA ClimbStarts ==
  ASSUME NEW t, NEW a, NEW x, NEW b, Shape(t, a, x, b), NEW m \in Nodes(t)
  PROVE  Climbs(t, a, m, <<m>>)
<1> DEFINE p == <<m>>
           N == Nodes(t)
<1>1. m \in a[m]
  BY AboveFacts
<1> HIDE DEF N
<1>2. p \in Seq(N) /\ Len(p) = 1 /\ p[1] = m /\ Last(p) = m
  <2>1. m \in N
    BY DEF N
  <2> QED BY <2>1 DEF Last
<1> HIDE DEF p
<1>3. NoDuplicates(p) /\ ToSet(p) = {m} /\ 1 .. Len(p) - 1 = {}
  BY <1>2 DEF NoDuplicates, ToSet
<1> QED BY <1>1, <1>2, <1>3 DEF Climbs, p, N

\* A way up that has not reached the root goes on to the parent.
LEMMA ClimbGoesOn ==
  ASSUME NEW t, NEW a, NEW x, NEW b, Shape(t, a, x, b), NEW m \in Nodes(t), NEW p, Climbs(t, a, m, p),
         Last(p) # Root
  PROVE  Climbs(t, a, m, Append(p, ParentOf(t, Last(p))))
<1> DEFINE N == Nodes(t)
           l == Last(p)
           q == ParentOf(t, l)
           r == Append(p, q)
           k == Len(p)
<1>1. p \in Seq(N) /\ k \in Nat /\ k >= 1 /\ l \in N /\ l = p[k]
  BY DEF Climbs, Last
<1>2. q \in N /\ a[l] = a[q] \cup {l} /\ l \notin a[q] /\ q \in a[q]
  BY <1>1, ChildFacts, OffParent, AboveFacts
<1> HIDE DEF N, l, q
<1>3. /\ r \in Seq(N) /\ Len(r) = k + 1 /\ r[k + 1] = q /\ Last(r) = q /\ ToSet(r) = ToSet(p) \cup {q}
      /\ \A i \in 1 .. k : r[i] = p[i]
  BY <1>1, <1>2, Longer
<1>4. /\ p[1] = m /\ NoDuplicates(p) /\ a[m] = ToSet(p) \cup a[l]
      /\ \A i \in 1 .. k - 1 : p[i] # Root /\ p[i + 1] = ParentOf(t, p[i]) /\ p[i] \notin a[l]
  BY DEF Climbs, l
<1> HIDE DEF r, k
<1>5. \A i \in 1 .. k : p[i] \notin a[q]
  <2> SUFFICES ASSUME NEW i \in 1 .. k PROVE p[i] \notin a[q]
    OBVIOUS
  <2>1. CASE i = k
    BY <2>1, <1>1, <1>2
  <2>2. CASE i \in 1 .. k - 1
    BY <2>2, <1>4, <1>2
  <2> QED BY <2>1, <2>2, <1>1
<1>6. NoDuplicates(r)
  <2> SUFFICES ASSUME NEW i \in 1 .. k + 1, NEW j \in 1 .. k + 1, r[i] = r[j] PROVE i = j
    BY <1>3 DEF NoDuplicates
  <2>1. CASE i \in 1 .. k /\ j \in 1 .. k
    BY <2>1, <1>3, <1>4 DEF NoDuplicates, k
  <2>2. CASE i = k + 1 /\ j \in 1 .. k
    BY <2>2, <1>3, <1>5, <1>2
  <2>3. CASE j = k + 1 /\ i \in 1 .. k
    BY <2>3, <1>3, <1>5, <1>2
  <2> QED BY <2>1, <2>2, <2>3, <1>1
<1>7. \A i \in 1 .. k : r[i] # Root /\ r[i + 1] = ParentOf(t, r[i]) /\ r[i] \notin a[Last(r)]
  <2> SUFFICES ASSUME NEW i \in 1 .. k PROVE r[i] # Root /\ r[i + 1] = ParentOf(t, r[i]) /\ r[i] \notin a[Last(r)]
    OBVIOUS
  <2>1. CASE i = k
    BY <2>1, <1>1, <1>3, <1>5 DEF q, l
  <2>2. CASE i \in 1 .. k - 1
    <3>1. i + 1 \in 1 .. k
      BY <2>2, <1>1
    <3> QED BY <2>2, <3>1, <1>3, <1>4, <1>5
  <2> QED BY <2>1, <2>2, <1>1
<1>8. a[m] = ToSet(r) \cup a[q]
  <2>1. l \in ToSet(p)
    BY <1>1 DEF ToSet, k
  <2> QED BY <1>2, <1>3, <1>4, <2>1
<1>9. Len(r) >= 1 /\ r[1] = m /\ 1 .. Len(r) - 1 = 1 .. k
  BY <1>1, <1>3, <1>4
<1> QED BY <1>3, <1>6, <1>7, <1>8, <1>9 DEF Climbs, r, q, l, N

\* The path of a node: itself, its parent, and so on to the root.
LEMMA PathFacts ==
  ASSUME NEW t, NEW a, NEW x, NEW b, Shape(t, a, x, b), NEW m \in Nodes(t)
  PROVE  /\ Climbs(t, a, m, PathUp(t, m))
         /\ Last(PathUp(t, m)) = Root
         /\ ToSet(PathUp(t, m)) = a[m]
<1> DEFINE n == Cardinality(Nodes(t))
<1>1. IsFiniteSet(Nodes(t)) /\ n \in Nat /\ n = Cardinality(Nodes(t))
  BY FS_CardinalityType DEF Shape, IsTree
<1> HIDE DEF n
<1>2. PICK f : /\ f[0] = PathStart(m)
               /\ \A i \in 1 .. n : f[i] = PathTurn(t, f[i - 1])
               /\ PathUp(t, m) = f[n]
  BY <1>1, PathRuns
<1> DEFINE Ok(i) == Climbs(t, a, m, f[i]) /\ (Last(f[i]) = Root \/ Len(f[i]) = i + 1)
           S == {i \in 0 .. n : Ok(i)}
<1>3. 0 \in S
  <2>1. Len(<<m>>) = 0 + 1
    OBVIOUS
  <2>2. f[0] = <<m>>
    BY <1>2 DEF PathStart
  <2> QED BY <1>1, <2>2, <2>1, ClimbStarts
<1>4. ASSUME NEW i \in 0 .. n - 1, i \in S PROVE i + 1 \in S
  <2>1. i + 1 \in 1 .. n /\ (i + 1) - 1 = i
    BY <1>1
  <2>2. f[i + 1] = PathTurn(t, f[i])
    BY <1>2, <2>1
  <2>3. Ok(i)
    BY <1>4
  <2> DEFINE p == f[i]
  <2>4. CASE Last(p) = Root
    <3>1. f[i + 1] = p
      BY <2>2, <2>4 DEF PathTurn
    <3> QED BY <3>1, <2>1, <2>3, <2>4
  <2>5. CASE Last(p) # Root
    <3>1. f[i + 1] = Append(p, ParentOf(t, Last(p)))
      BY <2>2, <2>5 DEF PathTurn, ParentOf
    <3>2. Climbs(t, a, m, f[i + 1])
      BY <3>1, <2>3, <2>5, ClimbGoesOn
    <3>3. Len(f[i + 1]) = (i + 1) + 1
      <4> DEFINE N == Nodes(t)
                 q == ParentOf(t, Last(p))
      <4>1. p \in Seq(N) /\ Last(p) \in N /\ Len(p) = i + 1
        BY <2>3, <2>5 DEF Climbs, Last
      <4>2. q \in N
        BY <4>1, <2>5, ChildFacts
      <4> HIDE DEF N, q, p
      <4>3. Len(Append(p, q)) = Len(p) + 1
        BY <4>1, <4>2, Longer
      <4> QED BY <4>1, <4>3, <3>1 DEF q
    <3> QED BY <3>2, <3>3, <2>1
  <2> QED BY <2>4, <2>5
<1>5. Ok(n)
  <2>1. \A i \in 0 .. n : i \in S
    <3> HIDE DEF S
    <3> QED BY <1>1, <1>3, <1>4, BoundedInduction
  <2> QED BY <2>1, <1>1
<1>6. Len(f[n]) <= n /\ Len(f[n]) \in Nat
  <2>1. f[n] \in Seq(Nodes(t)) /\ NoDuplicates(f[n])
    BY <1>5 DEF Climbs
  <2> QED BY <2>1, <1>1, ListBound
<1>7. Last(f[n]) = Root
  BY <1>1, <1>5, <1>6
<1>8. ToSet(f[n]) = a[m]
  <2>1. f[n] \in Seq(Nodes(t)) /\ Len(f[n]) >= 1 /\ a[m] = ToSet(f[n]) \cup a[Root]
    BY <1>5, <1>7 DEF Climbs
  <2>2. Root \in ToSet(f[n])
    BY <2>1, <1>7 DEF Last, ToSet
  <2>3. a[Root] = {Root}
    BY DEF Shape, Spanned
  <2> QED BY <2>1, <2>2, <2>3
<1> QED BY <1>2, <1>5, <1>7, <1>8

\* s is what Chain has gathered when it has come from node m up to node at.
Gathered(t, x, b, m, at, s) ==
  /\ s.at = at
  /\ s.tokens \in Seq(Int) /\ s.blocks \in Seq(Block)
  /\ x[m] = x[at] \o s.tokens /\ b[m] = b[at] \o s.blocks

\* Chain starts with nothing gathered.
LEMMA GatherStarts ==
  ASSUME NEW t, NEW a, NEW x, NEW b, Shape(t, a, x, b), NEW m \in Nodes(t)
  PROVE  Gathered(t, x, b, m, m, ChainStart(m))
<1>1. x[m] \in Seq(Int) /\ b[m] \in Seq(Block)
  BY NodeFacts
<1>2. x[m] = x[m] \o <<>> /\ b[m] = b[m] \o <<>>
  BY <1>1, ConcatEmpty
<1>3. ChainStart(m).at = m /\ ChainStart(m).tokens = <<>> /\ ChainStart(m).blocks = <<>>
  BY DEF ChainStart
<1>4. <<>> \in Seq(Int) /\ <<>> \in Seq(Block)
  OBVIOUS
<1> QED BY <1>2, <1>3, <1>4 DEF Gathered

\* A turn of Chain gathers the node it stands at and goes up.
LEMMA GatherGoesOn ==
  ASSUME NEW t, NEW a, NEW x, NEW b, Shape(t, a, x, b), NEW m \in Nodes(t), NEW at \in Nodes(t) \ {Root},
         NEW s, Gathered(t, x, b, m, at, s)
  PROVE  Gathered(t, x, b, m, ParentOf(t, at), ChainTurn(t, s))
<1> DEFINE p == ParentOf(t, at)
           key == KeyOf(t, at)
           table == TableOf(t, at)
           tk == s.tokens
           bk == s.blocks
           r == ChainTurn(t, s)
           xp == x[p]
           bp == b[p]
           E == Int
<1>1. p \in Nodes(t) /\ Joined(x[at], x[p], key) /\ Joined(b[at], b[p], table)
  BY ChildFacts
<1>2. /\ x[p] \in Seq(E) /\ b[p] \in Seq(Block) /\ key \in Seq(E) /\ table \in Seq(Block)
  BY <1>1, NodeFacts
<1>3. s.at = at /\ tk \in Seq(E) /\ bk \in Seq(Block) /\ x[m] = x[at] \o tk /\ b[m] = b[at] \o bk
  BY DEF Gathered
<1>4. r.at = p /\ r.tokens = key \o tk /\ r.blocks = table \o bk
  BY <1>3 DEF ChainTurn, ParentOf, KeyOf, TableOf
<1> HIDE DEF xp, bp, p, key, table, tk, bk, r, E
<1>5. x[at] = xp \o key /\ b[at] = bp \o table
  BY <1>1 DEF Joined, xp, bp
<1>6. xp \in Seq(E) /\ bp \in Seq(Block)
  BY <1>2 DEF xp, bp
<1>7. x[m] = xp \o (key \o tk)
  <2>1. \A r1, r2, r3 \in Seq(E) : (r1 \o r2) \o r3 = r1 \o (r2 \o r3)
    OBVIOUS
  <2>2. (xp \o key) \o tk = xp \o (key \o tk)
    BY <2>1, <1>2, <1>3, <1>6, Zenon
  <2> QED BY <2>2, <1>3, <1>5
<1>8. b[m] = bp \o (table \o bk)
  <2>1. \A r1, r2, r3 \in Seq(Block) : (r1 \o r2) \o r3 = r1 \o (r2 \o r3)
    OBVIOUS
  <2>2. (bp \o table) \o bk = bp \o (table \o bk)
    BY <2>1, <1>2, <1>3, <1>6, Zenon
  <2> QED BY <2>2, <1>3, <1>5
<1>9. key \o tk \in Seq(E) /\ table \o bk \in Seq(Block)
  BY <1>2, <1>3, ConcatFacts
<1> QED BY <1>4, <1>7, <1>8, <1>9 DEF Gathered, p, r, E, xp, bp

\* The chain of a node is its tokens and its blocks.
LEMMA ChainFacts ==
  ASSUME NEW t, NEW a, NEW x, NEW b, Shape(t, a, x, b), NEW m \in Nodes(t)
  PROVE  Chain(t, m).tokens = x[m] /\ Chain(t, m).blocks = b[m]
<1> DEFINE path == PathUp(t, m)
           n == Len(path)
<1>1. /\ path \in Seq(Nodes(t)) /\ n \in Nat /\ n >= 1 /\ path[1] = m /\ path[n] = Root
      /\ \A i \in 1 .. n - 1 : path[i] # Root /\ path[i + 1] = ParentOf(t, path[i])
  BY PathFacts DEF Climbs, Last
<1>2. n = Len(PathUp(t, m))
  OBVIOUS
<1>3. \A i \in 1 .. n : path[i] \in Nodes(t)
  BY <1>1
<1> HIDE DEF n, path
<1>4. PICK f : /\ f[0] = ChainStart(m)
               /\ \A i \in 1 .. n : f[i] = ChainTurn(t, f[i - 1])
               /\ Chain(t, m) = f[n]
  BY <1>1, <1>2, ChainRuns
<1> DEFINE Ok(i) == Gathered(t, x, b, m, path[i + 1], f[i])
           S == {i \in 0 .. n - 1 : Ok(i)}
<1>5. 0 \in S
  BY <1>1, <1>4, GatherStarts
<1>6. ASSUME NEW i \in 0 .. (n - 1) - 1, i \in S PROVE i + 1 \in S
  <2>1. /\ i + 1 \in 1 .. n - 1 /\ i + 1 \in 1 .. n /\ (i + 1) - 1 = i
        /\ i + 1 \in 0 .. n - 1
    BY <1>1
  <2>2. f[i + 1] = ChainTurn(t, f[i])
    BY <1>4, <2>1
  <2>3. path[i + 1] \in Nodes(t) \ {Root} /\ path[(i + 1) + 1] = ParentOf(t, path[i + 1])
    BY <1>1, <1>3, <2>1
  <2>4. Gathered(t, x, b, m, path[i + 1], f[i])
    BY <1>6
  <2>5. Gathered(t, x, b, m, path[(i + 1) + 1], f[i + 1])
    BY <2>2, <2>3, <2>4, GatherGoesOn
  <2> QED BY <2>5, <2>1
<1>7. Gathered(t, x, b, m, Root, f[n - 1])
  <2>1. \A i \in 0 .. n - 1 : i \in S
    <3>1. n - 1 \in Nat
      BY <1>1
    <3> HIDE DEF S
    <3> QED BY <3>1, <1>5, <1>6, BoundedInduction
  <2>2. n - 1 \in 0 .. n - 1 /\ (n - 1) + 1 = n
    BY <1>1
  <2> QED BY <2>1, <2>2, <1>1
<1> DEFINE s == f[n - 1]
<1>8. f[n] = ChainTurn(t, s)
  BY <1>1, <1>4
<1> HIDE DEF s
<1>9. /\ x[Root] = <<>> /\ b[Root] = <<>> /\ KeyOf(t, Root) = <<>> /\ TableOf(t, Root) = <<>>
  BY DEF Shape, Spanned, IsTree
<1>10. /\ s.at = Root /\ s.tokens \in Seq(Int) /\ s.blocks \in Seq(Block)
       /\ x[m] = <<>> \o s.tokens /\ b[m] = <<>> \o s.blocks
  BY <1>7, <1>9 DEF Gathered, s
<1>11. f[n].tokens = KeyOf(t, s.at) \o s.tokens /\ f[n].blocks = TableOf(t, s.at) \o s.blocks
  <2>1. /\ ChainTurn(t, s).tokens = KeyOf(t, s.at) \o s.tokens
        /\ ChainTurn(t, s).blocks = TableOf(t, s.at) \o s.blocks
    BY DEF ChainTurn, KeyOf, TableOf
  <2> QED BY <1>8, <2>1, Zenon
<1>12. f[n].tokens = x[m] /\ f[n].blocks = b[m]
  <2>1. KeyOf(t, s.at) = <<>> /\ TableOf(t, s.at) = <<>>
    BY <1>9, <1>10
  <2> QED BY <2>1, <1>10, <1>11, Zenon
<1> QED BY <1>4, <1>12

-----------------------------------------------------------------------------
(* Steps that leave the shape of the tree alone.                           *)
\* u and t differ at most in pins and in the list.
Alike(t, u) ==
  /\ Nodes(u) = Nodes(t)
  /\ \A n \in Nodes(t) : /\ ParentOf(u, n) = ParentOf(t, n) /\ KeyOf(u, n) = KeyOf(t, n)
                         /\ TableOf(u, n) = TableOf(t, n) /\ KidsOf(u, n) = KidsOf(t, n)

\* Two steps that leave the shape alone make one.
LEMMA AlikeTransitive ==
  ASSUME NEW t, NEW u, NEW v, Alike(t, u), Alike(u, v)
  PROVE  Alike(t, v)
BY DEF Alike

\* What leaves keys, tables and links alone leaves the shape as it was.
LEMMA AlikeShape ==
  ASSUME NEW t, NEW a, NEW x, NEW b, Shape(t, a, x, b), NEW u, IsTree(u), Alike(t, u)
  PROVE  Shape(u, a, x, b)
<1>1. Nodes(u) = Nodes(t)
  BY DEF Alike
<1>2. WholeBlocks(u)
  BY <1>1 DEF Shape, WholeBlocks, Alike, KeyOf, TableOf
<1>3. LinksExact(u)
  <2>1. \A n \in Nodes(t) : u.node[n].children = t.node[n].children /\ u.node[n].parent = t.node[n].parent
                            /\ u.node[n].key = t.node[n].key
    BY DEF Alike, KidsOf, ParentOf, KeyOf
  <2>2. LinksExact(t)
    BY DEF Shape
  <2>3. ASSUME NEW n \in Nodes(t), NEW f \in DOMAIN u.node[n].children
        PROVE  LET c == u.node[n].children[f]
               IN  c \in Nodes(t) /\ u.node[c].parent = n /\ BlockAt(u.node[c].key, 0) = f
    <3> DEFINE c == u.node[n].children[f]
    <3>1. u.node[n].children = t.node[n].children
      BY <2>1
    <3>2. c \in Nodes(t) /\ t.node[c].parent = n /\ BlockAt(t.node[c].key, 0) = f
      BY <2>2, <3>1 DEF LinksExact
    <3>3. u.node[c].parent = t.node[c].parent /\ u.node[c].key = t.node[c].key
      BY <2>1, <3>2
    <3> QED BY <3>2, <3>3
  <2>4. ASSUME NEW c \in Nodes(t) \ {Root}
        PROVE  LET n == u.node[c].parent
               IN  n \in Nodes(t) /\ \E f \in DOMAIN u.node[n].children : u.node[n].children[f] = c
    <3>1. u.node[c].parent = t.node[c].parent
      BY <2>1
    <3> DEFINE n == t.node[c].parent
    <3>2. n \in Nodes(t) /\ \E f \in DOMAIN t.node[n].children : t.node[n].children[f] = c
      BY <2>2 DEF LinksExact
    <3>3. u.node[n].children = t.node[n].children
      BY <2>1, <3>2
    <3> QED BY <3>1, <3>2, <3>3
  <2> QED BY <2>3, <2>4, <1>1 DEF LinksExact
<1>4. Spanned(u, a, x, b)
  BY <1>1 DEF Shape, Spanned, Alike
<1> QED BY <1>2, <1>3, <1>4 DEF Shape

\* The nodes the LRU list is to hold.
Listed(t) == {n \in Nodes(t) \ {Root} : LockOf(t, n) = 0 /\ DOMAIN KidsOf(t, n) = {}}

\* LruExact, with the sum as Total gives it.
ListOK(t) ==
  /\ NoDuplicates(t.lru)
  /\ ToSet(t.lru) = Listed(t)
  /\ t.evictable = Total(Sizes(t), t.lru)

\* The types of what a node holds.
LEMMA TreeFields ==
  ASSUME NEW t, IsTree(t), NEW n \in Nodes(t)
  PROVE  /\ n \in Nat /\ n \in Int
         /\ ParentOf(t, n) \in Int /\ KeyOf(t, n) \in Seq(Int) /\ LockOf(t, n) \in Nat
         /\ TableOf(t, n) \in Table /\ TableOf(t, n) \in Seq(Block) /\ NoDuplicates(TableOf(t, n))
         /\ Len(TableOf(t, n)) \in Nat
<1>1. IsNode(t.node[n]) /\ n \in Nat
  BY DEF IsTree
<1>2. TableOf(t, n) \in Table
  BY <1>1 DEF IsNode, TableOf
<1>3. TableOf(t, n) \in Seq(Block)
  BY <1>2 DEF Table
<1> QED BY <1>1, <1>2, <1>3 DEF IsNode, Table, ParentOf, KeyOf, TableOf, LockOf

\* The types of what the list is summed from.
LEMMA SizesFacts ==
  ASSUME NEW t, IsTree(t)
  PROVE  /\ Sizes(t) \in [Nat -> Nat] /\ Sizes(t) \in [Nat -> Int]
         /\ \A n \in Nodes(t) : Sizes(t)[n] = Len(TableOf(t, n))
         /\ t.lru \in Seq(Nat) /\ t.lru \in Seq(Nodes(t)) /\ t.evictable \in Int
<1>1. \A n \in Nodes(t) : Len(TableOf(t, n)) \in Nat /\ n \in Nat
  BY TreeFields
<1>2. Sizes(t) = [n \in Nat |-> IF n \in Nodes(t) THEN Len(TableOf(t, n)) ELSE 0]
  BY DEF Sizes, TableOf
<1>3. Sizes(t) \in [Nat -> Nat]
  BY <1>1, <1>2
<1>4. Sizes(t) \in [Nat -> Int]
  BY <1>3
<1>5. t.lru \in Seq(Nodes(t)) /\ Nodes(t) \subseteq Nat
  BY DEF IsTree
<1>6. t.lru \in Seq(Nat)
  BY <1>5
<1> QED BY <1>1, <1>2, <1>3, <1>4, <1>5, <1>6 DEF IsTree

\* ListOK is LruExact.
LEMMA ListExact ==
  ASSUME NEW t, IsTree(t)
  PROVE  LruExact(t) <=> ListOK(t)
<1>1. /\ Nodes(t) \subseteq Nat /\ t.lru \in Seq(Nodes(t))
      /\ \A n \in Nodes(t) : t.node[n].table \in Seq(Block)
  BY TreeFields DEF IsTree, TableOf
<1>2. FoldLeft(LAMBDA s, n : s + Len(t.node[n].table), 0, t.lru) = Total(Sizes(t), t.lru)
  BY <1>1, LruFold
<1>3. {n \in Nodes(t) \ {Root} : t.node[n].lock = 0 /\ Childless(t, n)} = Listed(t)
  BY DEF Listed, LockOf, KidsOf, Childless
<1> QED BY <1>2, <1>3 DEF LruExact, ListOK

\* What leaves the tables alone leaves their lengths.
LEMMA AlikeSizes ==
  ASSUME NEW t, NEW u, Alike(t, u)
  PROVE  Sizes(u) = Sizes(t)
<1>1. Nodes(u) = Nodes(t) /\ \A n \in Nodes(t) : Len(TableOf(u, n)) = Len(TableOf(t, n))
  BY DEF Alike
<1>2. Sizes(u) = [n \in Nat |-> IF n \in Nodes(u) THEN Len(TableOf(u, n)) ELSE 0]
  BY DEF Sizes, TableOf
<1>3. Sizes(t) = [n \in Nat |-> IF n \in Nodes(t) THEN Len(TableOf(t, n)) ELSE 0]
  BY DEF Sizes, TableOf
<1> QED BY <1>1, <1>2, <1>3

\* The tree t with another list, and with another number of pins at n.
WithList(t, l, e) == [node |-> t.node, lru |-> l, evictable |-> e]
Relock(t, n, k) ==
  [node |-> [m \in Nodes(t) |->
               IF m = n THEN [parent |-> t.node[n].parent, key |-> t.node[n].key, table |-> t.node[n].table,
                              lock |-> k, children |-> t.node[n].children]
               ELSE t.node[m]],
   lru |-> t.lru, evictable |-> t.evictable]

\* A tree with another list.
LEMMA Relisted ==
  ASSUME NEW t, IsTree(t), NEW l \in Seq(Nodes(t)), NEW e \in Int
  PROVE  /\ IsTree(WithList(t, l, e)) /\ Alike(t, WithList(t, l, e))
         /\ WithList(t, l, e).lru = l /\ WithList(t, l, e).evictable = e
         /\ \A m \in Nodes(t) : LockOf(WithList(t, l, e), m) = LockOf(t, m)
<1> DEFINE u == WithList(t, l, e)
<1>1. u = [node |-> u.node, lru |-> u.lru, evictable |-> u.evictable] /\ u.node = t.node /\ u.lru = l
      /\ u.evictable = e
  BY DEF WithList
<1> HIDE DEF u
<1>2. Nodes(u) = Nodes(t)
  BY <1>1 DEF Nodes
<1>3. \A m \in Nodes(t) : ParentOf(u, m) = ParentOf(t, m) /\ KeyOf(u, m) = KeyOf(t, m)
                          /\ TableOf(u, m) = TableOf(t, m) /\ KidsOf(u, m) = KidsOf(t, m)
                          /\ LockOf(u, m) = LockOf(t, m)
  BY <1>1 DEF ParentOf, KeyOf, TableOf, KidsOf, LockOf
<1>4. IsTree(u)
  <2>1. u.node = [m \in Nodes(u) |-> u.node[m]]
    BY <1>1, <1>2 DEF IsTree
  <2>2. \A m \in Nodes(u) : IsNode(u.node[m])
    BY <1>1, <1>2 DEF IsTree
  <2>3. Root \in Nodes(t) /\ IsFiniteSet(Nodes(t)) /\ Nodes(t) \subseteq Nat
        /\ ParentOf(t, Root) = NoParent /\ KeyOf(t, Root) = <<>> /\ TableOf(t, Root) = <<>>
    BY DEF IsTree
  <2>4. u.lru \in Seq(Nodes(u)) /\ u.evictable \in Int
    BY <1>1, <1>2
  <2>5. ParentOf(u, Root) = NoParent /\ KeyOf(u, Root) = <<>> /\ TableOf(u, Root) = <<>>
    BY <1>3, <2>3, Zenon
  <2> QED BY <1>1, <1>2, <2>1, <2>2, <2>3, <2>4, <2>5 DEF IsTree
<1> QED BY <1>1, <1>2, <1>3, <1>4 DEF u, Alike

\* A tree with one count of pins changed.
LEMMA Relocked ==
  ASSUME NEW t, IsTree(t), NEW n \in Nodes(t), NEW k \in Nat
  PROVE  /\ IsTree(Relock(t, n, k)) /\ Alike(t, Relock(t, n, k))
         /\ Relock(t, n, k).lru = t.lru /\ Relock(t, n, k).evictable = t.evictable
         /\ \A m \in Nodes(t) : LockOf(Relock(t, n, k), m) = IF m = n THEN k ELSE LockOf(t, m)
<1> DEFINE u == Relock(t, n, k)
           r == [parent |-> t.node[n].parent, key |-> t.node[n].key, table |-> t.node[n].table,
                 lock |-> k, children |-> t.node[n].children]
<1>1. /\ u = [node |-> u.node, lru |-> u.lru, evictable |-> u.evictable] /\ u.lru = t.lru
      /\ u.evictable = t.evictable
      /\ u.node = [m \in Nodes(t) |-> IF m = n THEN r ELSE t.node[m]]
  BY DEF Relock
<1>2. r.parent = ParentOf(t, n) /\ r.key = KeyOf(t, n) /\ r.table = TableOf(t, n) /\ r.lock = k
      /\ r.children = KidsOf(t, n)
      /\ r = [parent |-> r.parent, key |-> r.key, table |-> r.table, lock |-> r.lock, children |-> r.children]
  BY DEF ParentOf, KeyOf, TableOf, KidsOf
<1> HIDE DEF u, r
<1>3. Nodes(u) = Nodes(t)
  BY <1>1 DEF Nodes
<1>4. \A m \in Nodes(t) : u.node[m] = IF m = n THEN r ELSE t.node[m]
  BY <1>1, Zenon
<1>5. \A m \in Nodes(t) : ParentOf(u, m) = ParentOf(t, m) /\ KeyOf(u, m) = KeyOf(t, m)
                          /\ TableOf(u, m) = TableOf(t, m) /\ KidsOf(u, m) = KidsOf(t, m)
                          /\ LockOf(u, m) = IF m = n THEN k ELSE LockOf(t, m)
  <2> SUFFICES ASSUME NEW m \in Nodes(t)
               PROVE  ParentOf(u, m) = ParentOf(t, m) /\ KeyOf(u, m) = KeyOf(t, m)
                      /\ TableOf(u, m) = TableOf(t, m) /\ KidsOf(u, m) = KidsOf(t, m)
                      /\ LockOf(u, m) = IF m = n THEN k ELSE LockOf(t, m)
    OBVIOUS
  <2>1. CASE m = n
    <3>1. u.node[m] = r
      BY <2>1, <1>4, Zenon
    <3> QED BY <3>1, <2>1, <1>2 DEF ParentOf, KeyOf, TableOf, KidsOf, LockOf
  <2>2. CASE m # n
    <3>1. u.node[m] = t.node[m]
      BY <2>2, <1>4, Zenon
    <3> QED BY <3>1, <2>2 DEF ParentOf, KeyOf, TableOf, KidsOf, LockOf
  <2> QED BY <2>1, <2>2
<1>6. IsTree(u)
  <2>1. u.node = [m \in Nodes(u) |-> u.node[m]]
    BY <1>1, <1>3
  <2>2. \A m \in Nodes(u) : IsNode(u.node[m])
    <3>1. IsNode(r)
      BY <1>2, TreeFields DEF IsNode
    <3>2. \A m \in Nodes(t) : IsNode(t.node[m])
      BY DEF IsTree
    <3> QED BY <1>3, <1>4, <3>1, <3>2, Zenon
  <2>3. Root \in Nodes(t) /\ IsFiniteSet(Nodes(t)) /\ Nodes(t) \subseteq Nat
        /\ ParentOf(t, Root) = NoParent /\ KeyOf(t, Root) = <<>> /\ TableOf(t, Root) = <<>>
    BY DEF IsTree
  <2>4. u.lru \in Seq(Nodes(u)) /\ u.evictable \in Int
    BY <1>1, <1>3 DEF IsTree
  <2>5. ParentOf(u, Root) = NoParent /\ KeyOf(u, Root) = <<>> /\ TableOf(u, Root) = <<>>
    BY <1>5, <2>3, Zenon
  <2> QED BY <1>1, <1>3, <2>1, <2>2, <2>3, <2>4, <2>5 DEF IsTree
<1> QED BY <1>1, <1>3, <1>5, <1>6 DEF u, Alike

\* The list without n, and with n at its end.
LEMMA ShorterList ==
  ASSUME NEW t, IsTree(t), NoDuplicates(t.lru), NEW n \in Nodes(t), Contains(t.lru, n)
  PROVE  /\ RemoveFirst(t.lru, n) \in Seq(Nodes(t))
         /\ NoDuplicates(RemoveFirst(t.lru, n))
         /\ ToSet(RemoveFirst(t.lru, n)) = ToSet(t.lru) \ {n}
         /\ Total(Sizes(t), RemoveFirst(t.lru, n)) = Total(Sizes(t), t.lru) - Len(TableOf(t, n))
<1> DEFINE l == t.lru
           r == RemoveFirst(l, n)
           G == Sizes(t)
           N == Nodes(t)
<1>1. G \in [Nat -> Int] /\ l \in Seq(Nat) /\ n \in Nat /\ G[n] = Len(TableOf(t, n)) /\ l \in Seq(N)
  BY SizesFacts, TreeFields
<1> HIDE DEF G, l, N
<1>2. NoDuplicates(l) /\ Contains(l, n)
  BY DEF l
<1>3. /\ r \in Seq(Nat) /\ NoDuplicates(r) /\ ToSet(r) = ToSet(l) \ {n}
      /\ Total(G, r) = Total(G, l) - G[n]
  BY <1>1, <1>2, Removed
<1> HIDE DEF r
<1>4. r \in Seq(N)
  <2>1. ToSet(l) \subseteq N
    BY <1>1 DEF ToSet
  <2>2. DOMAIN r = 1 .. Len(r)
    BY <1>3
  <2>3. \A i \in 1 .. Len(r) : r[i] \in N
    BY <1>3, <2>1, <2>2, Zenon DEF ToSet
  <2> QED BY <1>3, <2>3, SeqOver
<1> QED BY <1>1, <1>3, <1>4 DEF G, l, N, r

\* A node added to the list adds its blocks to the sum.
LEMMA LongerList ==
  ASSUME NEW t, IsTree(t), NEW l \in Seq(Nodes(t)), NoDuplicates(l), NEW n \in Nodes(t), ~Contains(l, n)
  PROVE  /\ Append(l, n) \in Seq(Nodes(t))
         /\ NoDuplicates(Append(l, n))
         /\ ToSet(Append(l, n)) = ToSet(l) \cup {n}
         /\ Total(Sizes(t), Append(l, n)) = Total(Sizes(t), l) + Len(TableOf(t, n))
<1> DEFINE r == Append(l, n)
           G == Sizes(t)
           N == Nodes(t)
<1>1. G \in [Nat -> Int] /\ n \in Nat /\ G[n] = Len(TableOf(t, n)) /\ N \subseteq Nat
  BY SizesFacts, TreeFields DEF IsTree
<1>2. n \in N /\ l \in Seq(N)
  OBVIOUS
<1> HIDE DEF G, N
<1>3. l \in Seq(Nat) /\ r \in Seq(N)
  <2>1. \A i \in 1 .. Len(l) : l[i] \in N
    BY <1>2
  <2>2. \A m \in N : m \in Nat
    BY <1>1
  <2>3. \A i \in 1 .. Len(l) : l[i] \in Nat
    BY <2>1, <2>2
  <2>4. l \in Seq(Nat)
    BY <2>3, <1>2, SeqOver
  <2> QED BY <2>4, <1>2
<1>4. /\ NoDuplicates(r) /\ ToSet(r) = ToSet(l) \cup {n}
      /\ Total(G, r) = Total(G, l) + G[n]
  BY <1>1, <1>3, Appended
<1> HIDE DEF r
<1> QED BY <1>1, <1>3, <1>4 DEF G, N, r

\* Touch changes only the order of the list.
LEMMA TouchFacts ==
  ASSUME NEW t, IsTree(t), ListOK(t), NEW n \in Nodes(t)
  PROVE  /\ IsTree(Touch(t, n)) /\ ListOK(Touch(t, n)) /\ Alike(t, Touch(t, n))
         /\ Touch(t, n).node = t.node /\ Touch(t, n).evictable = t.evictable
<1>1. CASE InLru(t, n)
  <2> DEFINE l == RemoveFirst(t.lru, n)
             r == Append(l, n)
             N == Nodes(t)
  <2>1. /\ l \in Seq(N) /\ NoDuplicates(l) /\ ToSet(l) = ToSet(t.lru) \ {n}
        /\ Total(Sizes(t), l) = Total(Sizes(t), t.lru) - Len(TableOf(t, n))
    BY <1>1, ShorterList DEF InLru, ListOK
  <2>2. t.lru \in Seq(N) /\ t = [node |-> t.node, lru |-> t.lru, evictable |-> t.evictable] /\ t.evictable \in Int
    BY DEF IsTree
  <2>3. n \in ToSet(t.lru)
    BY <1>1, <2>2, ToSetContains DEF InLru
  <2>4. Touch(t, n) = WithList(t, r, t.evictable)
    BY <1>1, <2>2 DEF Touch, WithList
  <2> HIDE DEF l
  <2>5. ~Contains(l, n)
    BY <2>1, ToSetContains
  <2>6. /\ r \in Seq(N) /\ NoDuplicates(r) /\ ToSet(r) = ToSet(l) \cup {n}
        /\ Total(Sizes(t), r) = Total(Sizes(t), l) + Len(TableOf(t, n))
    BY <2>1, <2>5, LongerList
  <2> HIDE DEF r
  <2> DEFINE u == WithList(t, r, t.evictable)
  <2>7. /\ IsTree(u) /\ Alike(t, u) /\ u.lru = r /\ u.evictable = t.evictable /\ u.node = t.node
    BY <2>6, <2>2, Relisted DEF WithList
  <2>8. Total(Sizes(t), r) = Total(Sizes(t), t.lru)
    <3>1. Total(Sizes(t), t.lru) \in Int
      BY SizesFacts, SumSteps
    <3>2. Len(TableOf(t, n)) \in Int
      BY TreeFields
    <3> QED BY <2>1, <2>6, <3>1, <3>2
  <2>9. ToSet(r) = ToSet(t.lru)
    BY <2>1, <2>3, <2>6
  <2> HIDE DEF u
  <2>10. Listed(u) = Listed(t) /\ Sizes(u) = Sizes(t)
    <3>1. Nodes(u) = Nodes(t) /\ \A m \in Nodes(t) : LockOf(u, m) = LockOf(t, m) /\ KidsOf(u, m) = KidsOf(t, m)
      BY <2>7 DEF Nodes, LockOf, KidsOf
    <3> QED BY <3>1, <2>7, AlikeSizes DEF Listed
  <2>11. ListOK(u)
    BY <2>6, <2>7, <2>8, <2>9, <2>10 DEF ListOK
  <2> QED BY <2>7, <2>4, <2>11 DEF u
<1>2. CASE ~InLru(t, n)
  BY <1>2 DEF Touch, Alike
<1> QED BY <1>1, <1>2

\* Taking a listed node off the list.
LEMMA DelistFacts ==
  ASSUME NEW t, IsTree(t), NoDuplicates(t.lru), t.evictable = Total(Sizes(t), t.lru), NEW n \in Nodes(t)
  PROVE  LET u == Delist(t, n)
         IN  /\ IsTree(u) /\ Alike(t, u) /\ u.node = t.node
             /\ NoDuplicates(u.lru) /\ ToSet(u.lru) = ToSet(t.lru) \ {n}
             /\ u.evictable = Total(Sizes(u), u.lru)
             /\ \A m \in Nodes(t) : LockOf(u, m) = LockOf(t, m)
<1> DEFINE d == Delist(t, n)
<1>1. t.lru \in Seq(Nodes(t)) /\ t = [node |-> t.node, lru |-> t.lru, evictable |-> t.evictable] /\ t.evictable \in Int
  BY DEF IsTree
<1>2. CASE InLru(t, n)
  <2> DEFINE l == RemoveFirst(t.lru, n)
             N == Nodes(t)
             e == t.evictable - Len(TableOf(t, n))
             u == WithList(t, l, e)
  <2>1. /\ l \in Seq(N) /\ NoDuplicates(l) /\ ToSet(l) = ToSet(t.lru) \ {n}
        /\ Total(Sizes(t), l) = Total(Sizes(t), t.lru) - Len(TableOf(t, n))
    BY <1>2, ShorterList DEF InLru
  <2>2. d = u
    BY <1>2, <1>1 DEF Delist, WithList, TableOf
  <2>3. e \in Int
    BY <1>1, TreeFields
  <2>4. e = Total(Sizes(t), l)
    BY <2>1
  <2> HIDE DEF l, e, d
  <2>5. /\ IsTree(u) /\ Alike(t, u) /\ u.lru = l /\ u.evictable = e /\ u.node = t.node
        /\ \A m \in Nodes(t) : LockOf(u, m) = LockOf(t, m)
    BY <2>1, <2>3, Relisted DEF WithList
  <2> HIDE DEF u
  <2>6. Sizes(u) = Sizes(t)
    BY <2>5, AlikeSizes
  <2> QED BY <2>1, <2>2, <2>4, <2>5, <2>6 DEF d
<1>3. CASE ~InLru(t, n)
  <2>1. d = t
    BY <1>3 DEF Delist
  <2>2. ToSet(t.lru) = ToSet(t.lru) \ {n}
    BY <1>3, <1>1, ToSetContains DEF InLru
  <2> HIDE DEF d
  <2>3. Alike(t, d)
    BY <2>1 DEF Alike
  <2> QED BY <2>1, <2>2, <2>3 DEF d
<1> QED BY <1>2, <1>3

\* Putting a node on the list.
LEMMA EnlistFacts ==
  ASSUME NEW t, IsTree(t), NoDuplicates(t.lru), t.evictable = Total(Sizes(t), t.lru), NEW n \in Nodes(t),
         n \notin ToSet(t.lru)
  PROVE  LET u == Enlist(t, n)
         IN  /\ IsTree(u) /\ Alike(t, u) /\ u.node = t.node
             /\ NoDuplicates(u.lru) /\ ToSet(u.lru) = ToSet(t.lru) \cup {n}
             /\ u.evictable = Total(Sizes(u), u.lru)
             /\ \A m \in Nodes(t) : LockOf(u, m) = LockOf(t, m)
<1> DEFINE d == Enlist(t, n)
           l == Append(t.lru, n)
           N == Nodes(t)
           e == t.evictable + Len(TableOf(t, n))
           u == WithList(t, l, e)
<1>1. t.lru \in Seq(N) /\ t = [node |-> t.node, lru |-> t.lru, evictable |-> t.evictable] /\ t.evictable \in Int
  BY DEF IsTree
<1>2. ~Contains(t.lru, n)
  BY <1>1, ToSetContains
<1>3. /\ l \in Seq(N) /\ NoDuplicates(l) /\ ToSet(l) = ToSet(t.lru) \cup {n}
      /\ Total(Sizes(t), l) = Total(Sizes(t), t.lru) + Len(TableOf(t, n))
  BY <1>1, <1>2, LongerList
<1>4. d = u
  <2> DEFINE k == Len(TableOf(t, n))
  <2>1. k = Len(t.node[n].table) /\ e = t.evictable + k
    BY DEF TableOf
  <2>2. d = [t EXCEPT !.lru = l, !.evictable = @ + k]
    BY <2>1 DEF Enlist
  <2> HIDE DEF l, k, e
  <2> QED BY <1>1, <2>1, <2>2 DEF WithList
<1>5. e \in Int
  BY <1>1, TreeFields
<1>6. e = Total(Sizes(t), l)
  BY <1>3
<1> HIDE DEF l, e, d
<1>7. /\ IsTree(u) /\ Alike(t, u) /\ u.lru = l /\ u.evictable = e /\ u.node = t.node
      /\ \A m \in Nodes(t) : LockOf(u, m) = LockOf(t, m)
  BY <1>3, <1>5, Relisted DEF WithList
<1> HIDE DEF u
<1>8. Sizes(u) = Sizes(t)
  BY <1>7, AlikeSizes
<1> QED BY <1>3, <1>4, <1>6, <1>7, <1>8 DEF d

\* A pin more on one node.
LEMMA LockNodeFacts ==
  ASSUME NEW t, IsTree(t), ListOK(t), NEW n \in Nodes(t)
  PROVE  LET u == LockNode(t, n)
         IN  /\ IsTree(u) /\ ListOK(u) /\ Alike(t, u)
             /\ \A m \in Nodes(t) : LockOf(u, m) = IF m = n THEN LockOf(t, n) + 1 ELSE LockOf(t, m)
<1> DEFINE v == IF t.node[n].lock = 0 THEN Delist(t, n) ELSE t
           k == LockOf(t, n) + 1
           u == Relock(v, n, k)
           d == LockNode(t, n)
<1>1. /\ NoDuplicates(t.lru) /\ t.evictable = Total(Sizes(t), t.lru) /\ ToSet(t.lru) = Listed(t)
      /\ LockOf(t, n) \in Nat
  BY TreeFields DEF ListOK
<1>2. /\ IsTree(v) /\ Alike(t, v) /\ v.node = t.node
      /\ NoDuplicates(v.lru) /\ ToSet(v.lru) = ToSet(t.lru) \ {n}
      /\ v.evictable = Total(Sizes(v), v.lru)
      /\ \A m \in Nodes(t) : LockOf(v, m) = LockOf(t, m)
  <2>1. CASE t.node[n].lock = 0
    <3>1. v = Delist(t, n)
      BY <2>1
    <3> HIDE DEF v
    <3> QED BY <3>1, <1>1, DelistFacts
  <2>2. CASE t.node[n].lock # 0
    <3>1. v = t
      BY <2>2
    <3>2. n \notin ToSet(t.lru)
      BY <2>2, <1>1 DEF Listed, LockOf
    <3> HIDE DEF v
    <3> QED BY <3>1, <3>2, <1>1 DEF Alike
  <2> QED BY <2>1, <2>2
<1>3. d = [v EXCEPT !.node[n].lock = @ + 1]
  BY DEF LockNode
<1>4. n \in Nodes(v) /\ Nodes(v) = Nodes(t)
  BY <1>2 DEF Alike
<1> HIDE DEF v, d
<1>5. d = u
  <2>1. /\ v = [node |-> v.node, lru |-> v.lru, evictable |-> v.evictable]
        /\ v.node = [m \in Nodes(v) |-> v.node[m]] /\ IsNode(v.node[n])
    BY <1>2, <1>4 DEF IsTree
  <2>2. v.node[n].lock + 1 = k
    BY <1>2, <1>4 DEF LockOf
  <2> HIDE DEF k
  <2> DEFINE old == v.node[n]
  <2>3. old = [parent |-> old.parent, key |-> old.key, table |-> old.table, lock |-> old.lock,
               children |-> old.children] /\ old.lock + 1 = k
    BY <2>1, <2>2 DEF IsNode
  <2>4. [old EXCEPT !.lock = @ + 1]
        = [parent |-> old.parent, key |-> old.key, table |-> old.table, lock |-> k, children |-> old.children]
    BY <2>3
  <2>5. [v.node EXCEPT ![n].lock = @ + 1]
        = [m \in Nodes(v) |-> IF m = n THEN [old EXCEPT !.lock = @ + 1] ELSE v.node[m]]
    BY <2>1, <1>4
  <2>6. d = [node |-> [v.node EXCEPT ![n].lock = @ + 1], lru |-> v.lru, evictable |-> v.evictable]
    BY <2>1, <1>3
  <2> QED BY <2>4, <2>5, <2>6 DEF Relock
<1>6. k \in Nat
  BY <1>1
<1>7. /\ IsTree(u) /\ Alike(v, u) /\ u.lru = v.lru /\ u.evictable = v.evictable
      /\ \A m \in Nodes(v) : LockOf(u, m) = IF m = n THEN k ELSE LockOf(v, m)
  BY <1>2, <1>4, <1>6, Relocked
<1> HIDE DEF u
<1>8. Alike(t, u)
  BY <1>2, <1>7, AlikeTransitive
<1>9. Sizes(u) = Sizes(v)
  BY <1>7, AlikeSizes
<1>10. Listed(u) = Listed(t) \ {n}
  <2>1. Nodes(u) = Nodes(t) /\ \A m \in Nodes(t) : KidsOf(u, m) = KidsOf(t, m)
    BY <1>8 DEF Alike
  <2>2. k # 0
    BY <1>1
  <2>3. \A m \in Nodes(t) : LockOf(u, m) = IF m = n THEN k ELSE LockOf(t, m)
    BY <1>2, <1>4, <1>7
  <2> HIDE DEF k
  <2> QED BY <2>1, <2>2, <2>3 DEF Listed
<1>11. ListOK(u)
  BY <1>1, <1>2, <1>7, <1>9, <1>10 DEF ListOK
<1> QED BY <1>2, <1>4, <1>5, <1>7, <1>8, <1>11 DEF d

\* A pin less on one node that has one to give.
LEMMA UnlockNodeFacts ==
  ASSUME NEW t, IsTree(t), ListOK(t), NEW n \in Nodes(t), LockOf(t, n) >= IF n = Root THEN 2 ELSE 1
  PROVE  LET u == UnlockNode(t, n)
         IN  /\ IsTree(u) /\ ListOK(u) /\ Alike(t, u)
             /\ \A m \in Nodes(t) : LockOf(u, m) = IF m = n THEN LockOf(t, n) - 1 ELSE LockOf(t, m)
<1> DEFINE k == LockOf(t, n) - 1
           v == Relock(t, n, k)
           d == UnlockNode(t, n)
<1>1. /\ NoDuplicates(t.lru) /\ t.evictable = Total(Sizes(t), t.lru) /\ ToSet(t.lru) = Listed(t)
      /\ LockOf(t, n) \in Nat /\ t.lru \in Seq(Nodes(t))
  BY TreeFields DEF ListOK, IsTree
<1>2. k \in Nat /\ (n = Root => k >= 1) /\ LockOf(t, n) # 0
  BY <1>1
<1>3. [t EXCEPT !.node[n].lock = @ - 1] = v
  <2>1. /\ t = [node |-> t.node, lru |-> t.lru, evictable |-> t.evictable]
        /\ t.node = [m \in Nodes(t) |-> t.node[m]] /\ IsNode(t.node[n])
    BY DEF IsTree
  <2>2. t.node[n].lock - 1 = k
    BY DEF LockOf
  <2> HIDE DEF k
  <2> DEFINE old == t.node[n]
  <2>3. old = [parent |-> old.parent, key |-> old.key, table |-> old.table, lock |-> old.lock,
               children |-> old.children] /\ old.lock - 1 = k
    BY <2>1, <2>2 DEF IsNode
  <2>4. [old EXCEPT !.lock = @ - 1]
        = [parent |-> old.parent, key |-> old.key, table |-> old.table, lock |-> k, children |-> old.children]
    BY <2>3
  <2>5. [t.node EXCEPT ![n].lock = @ - 1]
        = [m \in Nodes(t) |-> IF m = n THEN [old EXCEPT !.lock = @ - 1] ELSE t.node[m]]
    BY <2>1
  <2>6. [t EXCEPT !.node[n].lock = @ - 1]
        = [node |-> [t.node EXCEPT ![n].lock = @ - 1], lru |-> t.lru, evictable |-> t.evictable]
    BY <2>1
  <2> QED BY <2>4, <2>5, <2>6 DEF Relock
<1>4. /\ IsTree(v) /\ Alike(t, v) /\ v.lru = t.lru /\ v.evictable = t.evictable
      /\ \A m \in Nodes(t) : LockOf(v, m) = IF m = n THEN k ELSE LockOf(t, m)
  BY <1>2, Relocked
<1>5. d = IF v.node[n].lock = 0 /\ ~InLru(v, n) /\ Childless(v, n) THEN Enlist(v, n) ELSE v
  BY <1>3 DEF UnlockNode
<1> HIDE DEF v, d
<1>6. Sizes(v) = Sizes(t) /\ Nodes(v) = Nodes(t) /\ n \in Nodes(v)
  BY <1>4, AlikeSizes DEF Alike
<1>7. n \notin ToSet(v.lru) /\ ~InLru(v, n)
  BY <1>1, <1>2, <1>4, ToSetContains DEF Listed, InLru
<1>8. v.node[n].lock = k
  BY <1>4 DEF LockOf
<1>9. Childless(v, n) <=> DOMAIN KidsOf(t, n) = {}
  BY <1>4 DEF Childless, KidsOf, Alike
<1>10. \A m \in Nodes(t) : KidsOf(v, m) = KidsOf(t, m)
  BY <1>4 DEF Alike
<1>11. CASE k = 0 /\ DOMAIN KidsOf(t, n) = {}
  <2>1. d = Enlist(v, n)
    BY <1>11, <1>5, <1>7, <1>8, <1>9
  <2>2. /\ IsTree(d) /\ Alike(v, d) /\ d.node = v.node
        /\ NoDuplicates(d.lru) /\ ToSet(d.lru) = ToSet(v.lru) \cup {n}
        /\ d.evictable = Total(Sizes(d), d.lru)
        /\ \A m \in Nodes(v) : LockOf(d, m) = LockOf(v, m)
    <3>1. NoDuplicates(v.lru) /\ v.evictable = Total(Sizes(v), v.lru)
      BY <1>1, <1>4, <1>6
    <3> QED BY <2>1, <3>1, <1>4, <1>6, <1>7, EnlistFacts
  <2>3. Alike(t, d)
    BY <1>4, <2>2, AlikeTransitive
  <2>4. \A m \in Nodes(t) : LockOf(d, m) = IF m = n THEN k ELSE LockOf(t, m)
    BY <1>4, <1>6, <2>2
  <2>5. Listed(d) = Listed(t) \cup {n}
    <3>1. Nodes(d) = Nodes(t) /\ \A m \in Nodes(t) : KidsOf(d, m) = KidsOf(t, m)
      BY <2>3 DEF Alike
    <3>2. n # Root
      BY <1>2, <1>11
    <3> QED BY <3>1, <3>2, <2>4, <1>11 DEF Listed
  <2>6. ListOK(d)
    BY <2>2, <2>5, <1>1, <1>4 DEF ListOK
  <2> QED BY <2>2, <2>3, <2>4, <2>6 DEF d
<1>12. CASE ~(k = 0 /\ DOMAIN KidsOf(t, n) = {})
  <2>1. d = v
    BY <1>12, <1>5, <1>8, <1>9
  <2>2. Listed(d) = Listed(t)
    <3>1. Nodes(d) = Nodes(t) /\ \A m \in Nodes(t) : KidsOf(d, m) = KidsOf(t, m)
      BY <2>1, <1>6, <1>10
    <3>2. \A m \in Nodes(t) : LockOf(d, m) = IF m = n THEN k ELSE LockOf(t, m)
      BY <2>1, <1>4
    <3> HIDE DEF k
    <3> QED BY <3>1, <3>2, <1>2, <1>12 DEF Listed
  <2>3. ListOK(d)
    BY <2>1, <2>2, <1>1, <1>4, <1>6 DEF ListOK
  <2> QED BY <2>1, <2>3, <1>4 DEF d
<1> QED BY <1>11, <1>12

\* inc_lock_ref: one pin more on a node and on all above it.
LEMMA IncFacts ==
  ASSUME NEW t, NEW a, NEW x, NEW b, Shape(t, a, x, b), ListOK(t), NEW m \in Nodes(t)
  PROVE  LET u == IncLockRef(t, m)
         IN  /\ IsTree(u) /\ ListOK(u) /\ Alike(t, u)
             /\ \A q \in Nodes(t) : LockOf(u, q) = IF q \in a[m] THEN LockOf(t, q) + 1 ELSE LockOf(t, q)
<1> DEFINE path == PathUp(t, m)
           n == Len(path)
<1>1. /\ path \in Seq(Nodes(t)) /\ n \in Nat /\ NoDuplicates(path) /\ ToSet(path) = a[m]
      /\ IsTree(t) /\ Alike(t, t) /\ DOMAIN path = 1 .. n
  BY PathFacts DEF Climbs, Shape, Alike
<1>2. path = PathUp(t, m) /\ n = Len(path) /\ \A i \in 1 .. n : path[i] \in Nodes(t)
  BY <1>1
<1> HIDE DEF n, path
<1>3. PICK f : /\ f[0] = LockStart(t)
               /\ \A i \in 1 .. n : f[i] = LockTurn(path, f[i - 1])
               /\ IncLockRef(t, m) = f[n].tree
  BY <1>1, <1>2, IncRuns
<1> DEFINE Passed(i) == {path[j] : j \in 1 .. i}
           Ok(i) == /\ f[i].i = i + 1
                    /\ IsTree(f[i].tree) /\ ListOK(f[i].tree) /\ Alike(t, f[i].tree)
                    /\ \A q \in Nodes(t) : LockOf(f[i].tree, q)
                         = IF q \in Passed(i) THEN LockOf(t, q) + 1 ELSE LockOf(t, q)
           S == {i \in 0 .. n : Ok(i)}
<1>4. 0 \in S
  <2>1. f[0].tree = t /\ f[0].i = 0 + 1
    BY <1>3 DEF LockStart
  <2>2. Passed(0) = {}
    OBVIOUS
  <2> HIDE DEF Passed
  <2> QED BY <1>1, <2>1, <2>2
<1>5. ASSUME NEW i \in 0 .. n - 1, i \in S PROVE i + 1 \in S
  <2> DEFINE s == f[i]
             v == s.tree
             k == path[i + 1]
  <2>1. i + 1 \in 1 .. n /\ (i + 1) - 1 = i /\ i + 1 \in 0 .. n /\ i \in 0 .. n
    BY <1>1
  <2>2. Ok(i)
    BY <1>5
  <2>3. s.i = i + 1
    BY <2>2
  <2>4. f[i + 1] = LockTurn(path, s)
    BY <1>3, <2>1
  <2>5. f[i + 1].tree = LockNode(v, k) /\ f[i + 1].i = (i + 1) + 1
    BY <2>3, <2>4 DEF LockTurn
  <2>6. k \in Nodes(t) /\ Nodes(v) = Nodes(t)
    BY <1>2, <2>1, <2>2 DEF Alike
  <2>7. k \notin Passed(i) /\ Passed(i + 1) = Passed(i) \cup {k}
    <3>1. \A j \in 1 .. i : j \in 1 .. n /\ path[j] # k
      BY <1>1, <1>2, <2>1 DEF NoDuplicates
    <3>2. 1 .. i + 1 = (1 .. i) \cup {i + 1}
      BY <2>1
    <3> QED BY <3>1, <3>2
  <2> DEFINE w == f[i + 1].tree
  <2>8. IsTree(v) /\ ListOK(v) /\ Alike(t, v)
        /\ \A q \in Nodes(t) : LockOf(v, q) = IF q \in Passed(i) THEN LockOf(t, q) + 1 ELSE LockOf(t, q)
    BY <2>2
  <2> HIDE DEF w, v, k, s, Passed
  <2>9. /\ IsTree(w) /\ ListOK(w) /\ Alike(v, w)
        /\ \A q \in Nodes(v) : LockOf(w, q) = IF q = k THEN LockOf(v, k) + 1 ELSE LockOf(v, q)
    BY <2>5, <2>6, <2>8, LockNodeFacts DEF w
  <2>10. Alike(t, w)
    BY <2>8, <2>9, AlikeTransitive
  <2>11. \A q \in Nodes(t) : LockOf(w, q) = IF q \in Passed(i + 1) THEN LockOf(t, q) + 1 ELSE LockOf(t, q)
    BY <2>6, <2>7, <2>8, <2>9
  <2> QED BY <2>1, <2>5, <2>9, <2>10, <2>11 DEF w
<1>6. Ok(n)
  <2>1. \A i \in 0 .. n : i \in S
    <3> HIDE DEF S
    <3> QED BY <1>1, <1>4, <1>5, BoundedInduction
  <2> QED BY <2>1, <1>1
<1>7. Passed(n) = a[m]
  BY <1>1 DEF ToSet
<1> HIDE DEF Passed
<1> QED BY <1>3, <1>6, <1>7

\* dec_lock_ref: one pin less on a node and on all above it.
LEMMA DecFacts ==
  ASSUME NEW t, NEW a, NEW x, NEW b, Shape(t, a, x, b), ListOK(t), NEW m \in Nodes(t),
         \A q \in a[m] : LockOf(t, q) >= IF q = Root THEN 2 ELSE 1
  PROVE  LET u == DecLockRef(t, m)
         IN  /\ IsTree(u) /\ ListOK(u) /\ Alike(t, u)
             /\ \A q \in Nodes(t) : LockOf(u, q) = IF q \in a[m] THEN LockOf(t, q) - 1 ELSE LockOf(t, q)
<1> DEFINE path == PathUp(t, m)
           n == Len(path)
<1>1. /\ path \in Seq(Nodes(t)) /\ n \in Nat /\ NoDuplicates(path) /\ ToSet(path) = a[m]
      /\ IsTree(t) /\ Alike(t, t) /\ DOMAIN path = 1 .. n
  BY PathFacts DEF Climbs, Shape, Alike
<1>2. path = PathUp(t, m) /\ n = Len(path) /\ \A i \in 1 .. n : path[i] \in Nodes(t)
  BY <1>1
<1> HIDE DEF n, path
<1>3. PICK f : /\ f[0] = LockStart(t)
               /\ \A i \in 1 .. n : f[i] = UnlockTurn(path, f[i - 1])
               /\ DecLockRef(t, m) = f[n].tree
  BY <1>1, <1>2, DecRuns
<1> DEFINE Passed(i) == {path[j] : j \in 1 .. i}
           Ok(i) == /\ f[i].i = i + 1
                    /\ IsTree(f[i].tree) /\ ListOK(f[i].tree) /\ Alike(t, f[i].tree)
                    /\ \A q \in Nodes(t) : LockOf(f[i].tree, q)
                         = IF q \in Passed(i) THEN LockOf(t, q) - 1 ELSE LockOf(t, q)
           S == {i \in 0 .. n : Ok(i)}
<1>4. 0 \in S
  <2>1. f[0].tree = t /\ f[0].i = 0 + 1
    BY <1>3 DEF LockStart
  <2>2. Passed(0) = {}
    OBVIOUS
  <2> HIDE DEF Passed
  <2> QED BY <1>1, <2>1, <2>2
<1>5. ASSUME NEW i \in 0 .. n - 1, i \in S PROVE i + 1 \in S
  <2> DEFINE s == f[i]
             v == s.tree
             k == path[i + 1]
  <2>1. i + 1 \in 1 .. n /\ (i + 1) - 1 = i /\ i + 1 \in 0 .. n /\ i \in 0 .. n
    BY <1>1
  <2>2. Ok(i)
    BY <1>5
  <2>3. s.i = i + 1
    BY <2>2
  <2>4. f[i + 1] = UnlockTurn(path, s)
    BY <1>3, <2>1
  <2>5. f[i + 1].tree = UnlockNode(v, k) /\ f[i + 1].i = (i + 1) + 1
    BY <2>3, <2>4 DEF UnlockTurn
  <2>6. k \in Nodes(t) /\ Nodes(v) = Nodes(t)
    BY <1>2, <2>1, <2>2 DEF Alike
  <2>7. k \notin Passed(i) /\ Passed(i + 1) = Passed(i) \cup {k}
    <3>1. \A j \in 1 .. i : j \in 1 .. n /\ path[j] # k
      BY <1>1, <1>2, <2>1 DEF NoDuplicates
    <3>2. 1 .. i + 1 = (1 .. i) \cup {i + 1}
      BY <2>1
    <3> QED BY <3>1, <3>2
  <2> DEFINE w == f[i + 1].tree
  <2>8. IsTree(v) /\ ListOK(v) /\ Alike(t, v)
        /\ \A q \in Nodes(t) : LockOf(v, q) = IF q \in Passed(i) THEN LockOf(t, q) - 1 ELSE LockOf(t, q)
    BY <2>2
  <2> HIDE DEF w, v, k, s, Passed
  <2>9. LockOf(v, k) >= IF k = Root THEN 2 ELSE 1
    <3>1. k \in a[m]
      BY <1>1, <2>1, Zenon DEF ToSet, k
    <3>2. LockOf(v, k) = LockOf(t, k)
      BY <2>6, <2>7, <2>8
    <3> QED BY <3>1, <3>2
  <2>10. /\ IsTree(w) /\ ListOK(w) /\ Alike(v, w)
        /\ \A q \in Nodes(v) : LockOf(w, q) = IF q = k THEN LockOf(v, k) - 1 ELSE LockOf(v, q)
    BY <2>5, <2>6, <2>8, UnlockNodeFacts, <2>9 DEF w
  <2>11. Alike(t, w)
    BY <2>8, <2>10, AlikeTransitive
  <2>12. \A q \in Nodes(t) : LockOf(w, q) = IF q \in Passed(i + 1) THEN LockOf(t, q) - 1 ELSE LockOf(t, q)
    BY <2>6, <2>7, <2>8, <2>10
  <2> QED BY <2>1, <2>5, <2>10, <2>11, <2>12 DEF w
<1>6. Ok(n)
  <2>1. \A i \in 0 .. n : i \in S
    <3> HIDE DEF S
    <3> QED BY <1>1, <1>4, <1>5, BoundedInduction
  <2> QED BY <2>1, <1>1
<1>7. Passed(n) = a[m]
  BY <1>1 DEF ToSet
<1> HIDE DEF Passed
<1> QED BY <1>3, <1>6, <1>7

\* u begins a sequence a client brings.
Told(u) == u = <<>> \/ \E s \in TokenSeqs : Begins(s, u)

\* The tokens of one more block.
LEMMA SpanNext ==
  \A i \in Nat : /\ Span(i) \in Nat /\ Span(i + 1) \in Nat /\ Span(i + 1) = Span(i) + BlockSize
                 /\ BlockSize \in Nat \ {0} /\ i + 1 \in Nat
<1> SUFFICES ASSUME NEW i \in Nat
             PROVE  /\ Span(i) \in Nat /\ Span(i + 1) \in Nat /\ Span(i + 1) = Span(i) + BlockSize
                    /\ BlockSize \in Nat \ {0} /\ i + 1 \in Nat
  OBVIOUS
<1>1. i \in Int /\ i + 1 \in Nat
  OBVIOUS
<1>2. Span(i) \in Nat /\ Span(i + 1) \in Nat
  <2>1. \A k \in Nat : Span(k) \in Nat
    BY SpanFacts
  <2> QED BY <2>1, <1>1
<1>3. Span(i + 1) = Span(i) + BlockSize
  <2>1. \A k \in Int : Span(k + 1) = Span(k) + BlockSize
    BY SpanFacts
  <2> QED BY <2>1, <1>1
<1> QED BY <1>1, <1>2, <1>3, BlockSizeAssumption

\* More blocks are more tokens.
LEMMA SpanOrder ==
  ASSUME NEW i \in Nat, NEW j \in Nat
  PROVE  /\ Span(i) < Span(j) <=> i < j
         /\ Span(i) <= Span(j) <=> i <= j
         /\ Span(i) = Span(j) <=> i = j
         /\ i < j => Span(i) + BlockSize <= Span(j)
<1>1. i \in Int /\ j \in Int
  OBVIOUS
<1>2. \A p, q \in Int : p < q => Span(p) + BlockSize <= Span(q)
  BY SpanFacts
<1>3. \A p, q \in Int : p <= q <=> Span(p) <= Span(q)
  BY SpanFacts
<1>4. \A p, q \in Int : p < q <=> Span(p) < Span(q)
  BY SpanFacts
<1>5. \A p, q \in Int : Span(p) = Span(q) => p = q
  BY SpanFacts
<1> QED BY <1>1, <1>2, <1>3, <1>4, <1>5

\* Sequences that differ do so from the first token of a block on.
LEMMA ToldPart ==
  ASSUME PartAtBlocks, NEW u \in Seq(Int), NEW v \in Seq(Int), Told(u), Told(v), NEW i \in Nat,
         Span(i + 1) <= Len(u), Span(i + 1) <= Len(v), Agree(u, v, Span(i) + 1)
  PROVE  Agree(u, v, Span(i + 1))
<1>1. u # <<>> /\ v # <<>>
  <2> DEFINE h == Span(i)
             k == Span(i + 1)
  <2>1. h \in Nat /\ k = h + BlockSize /\ BlockSize \in Nat \ {0}
    BY SpanNext
  <2> HIDE DEF h, k
  <2>2. k \in Nat /\ k >= 1
    BY <2>1
  <2>3. Span(i + 1) \in Nat /\ Span(i + 1) >= 1
    BY <2>2 DEF k
  <2>4. Len(u) >= 1 /\ Len(v) >= 1
    BY <2>3
  <2> QED BY <2>4
<1>2. PICK s \in TokenSeqs : Begins(s, u)
  BY <1>1 DEF Told
<1>3. PICK r \in TokenSeqs : Begins(r, v)
  BY <1>1 DEF Told
<1>4. s \in Seq(Int) /\ r \in Seq(Int)
  BY RadixCacheAssumption
<1>5. Len(u) \in Nat /\ Len(v) \in Nat /\ Len(s) \in Nat /\ Len(r) \in Nat
  BY <1>4
<1>6. /\ Span(i) \in Nat /\ Span(i + 1) \in Nat /\ Span(i + 1) = Span(i) + BlockSize
       /\ BlockSize \in Nat \ {0}
  BY SpanNext
<1>7. /\ Len(u) \in Nat /\ Len(v) \in Nat /\ Len(s) \in Nat /\ Len(r) \in Nat
      /\ Span(i) \in Nat /\ Span(i + 1) \in Nat /\ Span(i + 1) = Span(i) + BlockSize
      /\ BlockSize \in Nat \ {0}
  BY <1>5, <1>6
<1> DEFINE A == Span(i)
           B == Span(i + 1)
<1>8. A + 1 <= B /\ B \in Nat /\ A \in Nat
  BY <1>7
<1>9. B <= Len(s) /\ B <= Len(r)
  <2>1. Len(u) <= Len(s) /\ Len(v) <= Len(r)
    BY <1>2, <1>3 DEF Begins
  <2> HIDE DEF A, B
  <2>2. B <= Len(u) /\ B <= Len(v)
    BY DEF B
  <2> QED BY <2>1, <2>2, <1>7, <1>8
<1>10. i \in 0 .. Len(s)
  <2>1. i <= Span(i)
    BY BlockSizeAssumption DEF Span
  <2> QED BY <2>1, <1>7, <1>8, <1>9
<1>11. A = i * BlockSize /\ B = (i + 1) * BlockSize
  BY DEF Span
<1>12. Agree(u, v, A + 1)
  OBVIOUS
<1> HIDE DEF A, B
<1>13. \A j \in 1 .. B : s[j] = u[j] /\ r[j] = v[j]
  <2>1. /\ \A j \in 1 .. Len(u) : u[j] = s[j]
        /\ \A j \in 1 .. Len(v) : v[j] = r[j]
    BY <1>2, <1>3 DEF Begins
  <2>2. B <= Len(u) /\ B <= Len(v)
    BY DEF B
  <2>3. \A j \in 1 .. B : j \in 1 .. Len(u) /\ j \in 1 .. Len(v)
    BY <2>2, <1>7, <1>8
  <2> QED BY <2>1, <2>3
<1>14. \A j \in 1 .. A + 1 : s[j] = r[j]
  BY <1>8, <1>12, <1>13 DEF Agree
<1>15. \A j \in 1 .. B : s[j] = r[j]
  <2>1. \A j \in 1 .. i * BlockSize + 1 : s[j] = r[j]
    BY <1>11, <1>14
  <2>2. (i + 1) * BlockSize <= Len(s) /\ (i + 1) * BlockSize <= Len(r)
    BY <1>9, <1>11
  <2>3. \A j \in 1 .. (i + 1) * BlockSize : s[j] = r[j]
    BY <2>1, <2>2, <1>10, Zenon DEF PartAtBlocks
  <2> QED BY <2>3, <1>11
<1>16. Agree(u, v, B)
  BY <1>13, <1>15 DEF Agree
<1> QED BY <1>16 DEF B

\* Two sequences that agree until they differ or one of them ends, ending at
\* block boundaries, agree on whole blocks.
LEMMA AgreedBlocks ==
  ASSUME PartAtBlocks, NEW u \in Seq(Int), NEW v \in Seq(Int), Told(u), Told(v), NEW k \in Nat,
         NEW p \in Nat, NEW q \in Nat, Len(u) = Span(p), Span(q) <= Len(v), k <= Span(p), k <= Span(q),
         Agree(u, v, k), k < Span(p) /\ k < Span(q) => u[k + 1] # v[k + 1]
  PROVE  k = Span(k \div BlockSize) /\ k \div BlockSize \in Nat
<1> DEFINE i == k \div BlockSize
           A == Span(i)
           B == Span(i + 1)
           P == Span(p)
           Q == Span(q)
<1>1. /\ i \in Nat /\ i + 1 \in Nat /\ A <= k /\ k < A + BlockSize /\ B = A + BlockSize
      /\ A \in Nat /\ B \in Nat /\ P \in Nat /\ Q \in Nat /\ BlockSize \in Nat \ {0}
  <2>1. i \in Nat /\ A <= k /\ k < A + BlockSize
    BY BlocksIn
  <2> HIDE DEF i
  <2>2. /\ A \in Nat /\ B \in Nat /\ B = A + BlockSize /\ BlockSize \in Nat \ {0} /\ i + 1 \in Nat
    BY <2>1, SpanNext
  <2>3. P \in Nat /\ Q \in Nat
    BY SpanNext
  <2> HIDE DEF A, B, P, Q
  <2> QED BY <2>1, <2>2, <2>3
<1>2. /\ A < P <=> i < p
      /\ A < Q <=> i < q
      /\ i < p => A + BlockSize <= P
      /\ i < q => A + BlockSize <= Q
  <2>1. i \in Nat
    BY <1>1
  <2> HIDE DEF i
  <2> QED BY <2>1, SpanOrder
<1>3. (k = P => i = p) /\ (k = Q => i = q)
  BY BlocksIn
<1>4. A = P <=> i = p
  <2>1. i \in Nat
    BY <1>1
  <2> HIDE DEF i
  <2> QED BY <2>1, SpanOrder
<1>5. A = Q <=> i = q
  <2>1. i \in Nat
    BY <1>1
  <2> HIDE DEF i
  <2> QED BY <2>1, SpanOrder
<1>6. Len(u) = P /\ Q <= Len(v) /\ Len(v) \in Nat /\ k <= P /\ k <= Q
  OBVIOUS
<1>7. k < P /\ k < Q => u[k + 1] # v[k + 1]
  OBVIOUS
<1>8. A + 1 <= k /\ B <= Len(u) /\ B <= Len(v) => Agree(u, v, B)
  <2> SUFFICES ASSUME A + 1 <= k, B <= Len(u), B <= Len(v) PROVE Agree(u, v, B)
    OBVIOUS
  <2>1. Agree(u, v, A + 1)
    <3> HIDE DEF A, B
    <3> QED BY <1>1 DEF Agree
  <2>2. i \in Nat
    BY <1>1
  <2> HIDE DEF i
  <2> QED BY <2>1, <2>2, ToldPart
<1> HIDE DEF i, A, B, P, Q
<1>9. ASSUME A # k PROVE FALSE
  <2>1. A < k /\ A + 1 <= k
    BY <1>1, <1>9
  <2>2. k # P /\ k # Q
    BY <1>3, <1>4, <1>5, <1>9
  <2>3. k < P /\ k < Q
    BY <1>1, <1>6, <2>2
  <2>4. B <= Len(u) /\ B <= Len(v)
    BY <1>1, <1>2, <1>6, <2>1, <2>3
  <2>5. Agree(u, v, B)
    BY <1>8, <2>1, <2>4
  <2>6. k + 1 \in 1 .. B
    BY <1>1
  <2>7. u[k + 1] = v[k + 1]
    BY <2>5, <2>6 DEF Agree
  <2> QED BY <1>7, <2>3, <2>7
<1> QED BY <1>1, <1>9 DEF A, i

\* Going down to the child filed under the next block of the tokens.
LEMMA ForkAgrees ==
  ASSUME NEW u \in Seq(Int), NEW s \in Seq(Int), NEW key \in Seq(Int), NEW tokens \in Seq(Int),
         Joined(u, s, key), Agree(s, tokens, Len(s)), BlockAt(key, 0) = BlockAt(tokens, Len(s)),
         Len(s) + BlockSize <= Len(tokens), BlockSize <= Len(key)
  PROVE  Agree(u, tokens, Len(s) + BlockSize)
<1>1. /\ \A i \in 1 .. Len(s) : s[i] = u[i]
      /\ \A i \in 1 .. Len(key) : u[Len(s) + i] = key[i]
  BY DEF Joined, Begins
<1>2. BlockSize \in Nat /\ Len(s) \in Nat /\ Len(tokens) \in Nat /\ Len(key) \in Nat
  BY BlockSizeAssumption
<1>3. ASSUME NEW i \in 1 .. BlockSize PROVE key[i] = tokens[Len(s) + i]
  <2>1. BlockAt(key, 0)[i] = IF 0 + i <= Len(key) THEN key[0 + i] ELSE Junk
    BY DEF BlockAt
  <2>2. BlockAt(tokens, Len(s))[i] = IF Len(s) + i <= Len(tokens) THEN tokens[Len(s) + i] ELSE Junk
    BY DEF BlockAt
  <2>3. 0 + i = i /\ i <= Len(key) /\ Len(s) + i <= Len(tokens)
    BY <1>2
  <2> QED BY <2>1, <2>2, <2>3
<1>4. ASSUME NEW j \in 1 .. Len(s) + BlockSize PROVE u[j] = tokens[j]
  <2>1. CASE j <= Len(s)
    BY <2>1, <1>2, <1>1 DEF Agree
  <2>2. CASE j > Len(s)
    <3> DEFINE l == Len(s)
               i == j - l
    <3>1. i \in 1 .. BlockSize /\ i \in 1 .. Len(key) /\ l + i = j
      BY <2>2, <1>2
    <3> HIDE DEF i
    <3>2. u[l + i] = key[i] /\ key[i] = tokens[l + i]
      BY <3>1, <1>1, <1>3
    <3> QED BY <3>1, <3>2
  <2> QED BY <2>1, <2>2, <1>2
<1> QED BY <1>4 DEF Agree

Agreed(key, tokens, k, total, m) == m = Agreement(key, tokens, k, total)
AgreedFor(key, tokens, k, total, m) ==
  /\ m \in Nat /\ m <= Len(key) /\ k + m <= total
  /\ \A i \in 1 .. m : key[i] = tokens[k + i]
  /\ m < Len(key) /\ k + m < total => key[m + 1] # tokens[k + m + 1]

\* AgreementFacts, of a named agreement.
LEMMA AgreementOf ==
  ASSUME NEW key \in Seq(Int), NEW tokens \in Seq(Int), NEW k \in Nat, NEW total \in Nat,
         k <= total, total <= Len(tokens), NEW m, Agreed(key, tokens, k, total, m)
  PROVE  AgreedFor(key, tokens, k, total, m)
BY AgreementFacts DEF Agreed, AgreedFor

\* u ends with key, which starts after the first l elements.
Tailed(u, l, key) ==
  /\ Len(u) = l + Len(key)
  /\ \A i \in 1 .. Len(key) : u[l + i] = key[i]

\* The tokens and the blocks before a node.
LeadOf(t, x, n) == IF n = Root THEN 0 ELSE Len(x[ParentOf(t, n)])
LedOf(t, b, n)  == IF n = Root THEN <<>> ELSE b[ParentOf(t, n)]

\* A node's tokens and blocks are those of its parent and then its own.
LEMMA Leads ==
  ASSUME NEW t, NEW a, NEW x, NEW b, Shape(t, a, x, b), NEW n \in Nodes(t)
  PROVE  /\ LeadOf(t, x, n) \in Nat /\ LedOf(t, b, n) \in Seq(Block)
         /\ LeadOf(t, x, n) = Span(Len(LedOf(t, b, n)))
         /\ Tailed(x[n], LeadOf(t, x, n), KeyOf(t, n))
         /\ Joined(b[n], LedOf(t, b, n), TableOf(t, n))
         /\ n # Root => Len(KeyOf(t, n)) >= BlockSize
<1>1. CASE n = Root
  <2>1. x[n] = <<>> /\ b[n] = <<>> /\ KeyOf(t, n) = <<>> /\ TableOf(t, n) = <<>>
    BY <1>1 DEF Shape, Spanned, IsTree
  <2>2. LeadOf(t, x, n) = 0 /\ LedOf(t, b, n) = <<>>
    BY <1>1 DEF LeadOf, LedOf
  <2>3. Len(<<>>) = 0 /\ <<>> \in Seq(Block) /\ Span(0) = 0
    BY SpanFacts
  <2>4. Tailed(<<>>, 0, <<>>) /\ Joined(<<>>, <<>>, <<>>)
    BY DEF Tailed, Joined, Begins
  <2>5. 0 \in Nat /\ 0 = Span(Len(<<>>))
    BY <2>3
  <2> QED BY <1>1, <2>1, <2>2, <2>3, <2>4, <2>5, Zenon
<1>2. CASE n # Root
  <2> DEFINE p == ParentOf(t, n)
             s == x[p]
             r == b[p]
             u == x[n]
             key == KeyOf(t, n)
  <2>1. /\ p \in Nodes(t) /\ Joined(u, s, key) /\ Joined(b[n], r, TableOf(t, n))
        /\ Len(key) >= BlockSize
    BY <1>2, ChildFacts
  <2>2. s \in Seq(Int) /\ r \in Seq(Block) /\ Len(s) = Span(Len(r))
    BY <2>1, NodeFacts, AboveFacts
  <2>3. LeadOf(t, x, n) = Len(s) /\ LedOf(t, b, n) = r
    BY <1>2 DEF LeadOf, LedOf
  <2> HIDE DEF s, r, u, key
  <2>4. Tailed(u, Len(s), key)
    BY <2>1 DEF Joined, Tailed
  <2>5. Len(s) \in Nat
    BY <2>2
  <2> QED BY <2>1, <2>2, <2>3, <2>4, <2>5 DEF u, key
<1> QED BY <1>1, <1>2

\* The key agrees with the tokens after the first l on m of them, the k-th being
\* the last; u is as long as its blocks v, and starts with l tokens in the blocks r.
Compares(tokens, key, l, m, k) == m = Agreement(key, tokens, l, Aligned(Len(tokens))) /\ k = l + m
Filled(u, v, l, r) == l = Span(Len(r)) /\ Len(u) = Span(Len(v))
Comparison(u, tokens, key, v, r, table, m, k) ==
  /\ m \in Nat /\ m <= Len(key) /\ k \in Nat /\ k <= Aligned(Len(tokens)) /\ k <= Len(u)
  /\ Agree(u, tokens, k)
  /\ k \div BlockSize \in Nat /\ k = Span(k \div BlockSize) /\ k \div BlockSize <= Len(v)
  /\ r \o SubSeq(table, 1, m \div BlockSize) = SubSeq(v, 1, k \div BlockSize)
  /\ Len(SubSeq(v, 1, k \div BlockSize)) = k \div BlockSize
  /\ m < Len(key) /\ k < Aligned(Len(tokens)) => u[k + 1] # tokens[k + 1]
  /\ m = Len(key) => k = Len(u)

\* One comparison of the walk, at a node with the tokens u and the blocks v,
\* l tokens and the blocks r of them before its key.
LEMMA Compared ==
  ASSUME PartAtBlocks,
         NEW u \in Seq(Int), Told(u), NEW tokens \in Seq(Int), Told(tokens), NEW key \in Seq(Int),
         NEW l \in Nat, Tailed(u, l, key),
         NEW v \in Seq(Block), NEW r \in Seq(Block), NEW table \in Seq(Block), Joined(v, r, table),
         Filled(u, v, l, r), l <= Aligned(Len(tokens)), Agree(u, tokens, l),
         NEW m, NEW k, Compares(tokens, key, l, m, k)
  PROVE  Comparison(u, tokens, key, v, r, table, m, k)
<1> DEFINE total == Aligned(Len(tokens))
           T == Len(tokens) \div BlockSize
<1>1. total \in Nat /\ total <= Len(tokens) /\ total = Span(T) /\ T \in Nat
  <2>1. Len(tokens) \in Nat
    OBVIOUS
  <2> QED BY <2>1, AlignedLength
<1> DEFINE P == Len(v)
           B == Len(u)
           c == k \div BlockSize
<1>2. P \in Nat /\ B \in Nat /\ Len(key) \in Nat /\ Len(r) \in Nat /\ Len(tokens) \in Nat
  OBVIOUS
<1>3. l <= total /\ Agreed(key, tokens, l, total, m)
  BY DEF Compares, Agreed
<1>4. k = l + m
  BY DEF Compares
<1>5. l = Span(Len(r)) /\ B = Span(P)
  BY DEF Filled
<1>6. B = l + Len(key) /\ \A i \in 1 .. Len(key) : u[l + i] = key[i]
  BY DEF Tailed
<1> HIDE DEF total, T, P, B
<1>7. /\ m \in Nat /\ m <= Len(key) /\ l + m <= total
      /\ \A i \in 1 .. m : key[i] = tokens[l + i]
      /\ m < Len(key) /\ l + m < total => key[m + 1] # tokens[l + m + 1]
  <2>1. AgreedFor(key, tokens, l, total, m)
    BY <1>1, <1>3, AgreementOf
  <2> QED BY <2>1 DEF AgreedFor
<1>8. k \in Nat /\ k <= total /\ k <= B /\ (m = Len(key) => k = B) /\ (m < Len(key) <=> k < B)
  <2>1. B = l + Len(key)
    BY <1>6
  <2>2. m \in Nat /\ m <= Len(key) /\ l + m <= total
    BY <1>7
  <2>3. l \in Nat /\ B \in Nat /\ Len(key) \in Nat
    BY <1>2
  <2> HIDE DEF total
  <2> QED BY <2>1, <2>2, <2>3, <1>4
<1>9. Agree(u, tokens, k)
  <2> SUFFICES ASSUME NEW j \in 1 .. k PROVE u[j] = tokens[j]
    BY DEF Agree
  <2>1. CASE j <= l
    BY <2>1 DEF Agree
  <2>2. CASE j > l
    <3> DEFINE i == j - l
    <3>1. i \in 1 .. m /\ i \in 1 .. Len(key) /\ l + i = j
      BY <2>2, <1>2, <1>4, <1>7, <1>8
    <3> HIDE DEF i
    <3>2. u[l + i] = key[i] /\ key[i] = tokens[l + i]
      BY <3>1, <1>6, <1>7
    <3> QED BY <3>1, <3>2
  <2> QED BY <2>1, <2>2, <1>8
<1>10. m < Len(key) /\ k < total => u[k + 1] # tokens[k + 1]
  <2> SUFFICES ASSUME m < Len(key), k < total PROVE u[k + 1] # tokens[k + 1]
    OBVIOUS
  <2>1. m + 1 \in 1 .. Len(key) /\ l + (m + 1) = k + 1 /\ l + m + 1 = k + 1
    <3>1. m \in Nat /\ Len(key) \in Nat /\ m < Len(key) /\ k = l + m
      BY <1>2, <1>4, <1>7
    <3> QED BY <3>1
  <2>2. u[l + (m + 1)] = key[m + 1]
    BY <2>1, <1>6
  <2>3. key[m + 1] # tokens[l + m + 1]
    BY <1>7, <1>4
  <2> QED BY <2>1, <2>2, <2>3
<1>11. k = Span(c) /\ c \in Nat
  <2>1. Len(u) = Span(P) /\ Span(T) <= Len(tokens) /\ k <= Span(P) /\ k <= Span(T)
    BY <1>1, <1>8, <1>5 DEF B
  <2>2. k < Span(P) /\ k < Span(T) => u[k + 1] # tokens[k + 1]
    BY <1>1, <1>8, <1>10, <2>1 DEF B
  <2>3. k \in Nat
    BY <1>8
  <2> QED BY <2>1, <2>2, <2>3, <1>2, <1>1, <1>9, AgreedBlocks
<1>12. Len(r) <= c /\ c <= P
  <2>1. Span(Len(r)) <= Span(c) /\ Span(c) <= Span(P)
    BY <1>4, <1>7, <1>8, <1>11, <1>5, <1>2
  <2> HIDE DEF c
  <2> QED BY <2>1, <1>2, <1>11, SpanOrder
<1>13. m \div BlockSize = c - Len(r)
  <2>1. m = Span(c) - Span(Len(r))
    <3>1. l \in Nat /\ m = k - l
      BY <1>4, <1>7
    <3> QED BY <3>1, <1>11, <1>5
  <2>2. Span(c - Len(r)) = Span(c) - Span(Len(r))
    <3>1. c \in Int /\ Len(r) \in Int
      BY <1>2, <1>11
    <3>2. \A i, j \in Int : Span(i - j) = Span(i) - Span(j)
      BY SpanFacts
    <3> HIDE DEF c
    <3> QED BY <3>1, <3>2
  <2>3. c - Len(r) \in Nat
    BY <1>2, <1>11, <1>12
  <2>4. Span(c - Len(r)) \div BlockSize = c - Len(r)
    BY <2>3, BlocksIn
  <2> QED BY <2>1, <2>2, <2>4
<1>14. r \o SubSeq(table, 1, m \div BlockSize) = SubSeq(v, 1, c) /\ Len(SubSeq(v, 1, c)) = c
  <2>1. r \o SubSeq(table, 1, c - Len(r)) = SubSeq(v, 1, c) /\ Len(SubSeq(v, 1, c)) = c
    <3>1. c \in Nat /\ c <= Len(v) /\ Len(r) <= c
      BY <1>11, <1>12 DEF P
    <3> HIDE DEF c
    <3> QED BY <3>1, JoinedFront
  <2> QED BY <2>1, <1>13, Zenon
<1> QED BY <1>7, <1>8, <1>9, <1>10, <1>11, <1>12, <1>14 DEF Comparison, c, P, B, total

\* Where the walk stands before it compares the key of n: l tokens agreed with,
\* those before the key, in the blocks r; and the first block of the key, by
\* which the node was found.
Open(t, x, b, tokens, n, l, r) ==
  /\ n \in Nodes(t) /\ l = LeadOf(t, x, n) /\ r = LedOf(t, b, n)
  /\ l <= Aligned(Len(tokens)) /\ Agree(x[n], tokens, l)
  /\ n # Root => l < Aligned(Len(tokens)) /\ Agree(x[n], tokens, l + BlockSize)

\* Where it ends: k tokens agreed with, in the blocks r, of which m are in n,
\* and no node of the tree has the next block of the tokens after them.
Ended(t, x, b, tokens, n, k, m, r) ==
  /\ n \in Nodes(t) /\ k \in Nat /\ k = Span(Len(r)) /\ k <= Aligned(Len(tokens)) /\ k <= Len(x[n])
  /\ Agree(x[n], tokens, k)
  /\ r = SubSeq(b[n], 1, Len(r)) /\ Len(r) \in Nat /\ Len(r) <= Len(b[n])
  /\ m \in Nat /\ m <= Len(KeyOf(t, n)) /\ k = LeadOf(t, x, n) + m /\ (n # Root => BlockSize <= m)
  /\ \/ k = Aligned(Len(tokens))
     \/ m < Len(KeyOf(t, n)) /\ x[n][k + 1] # tokens[k + 1]
     \/ m = Len(KeyOf(t, n)) /\ k = Len(x[n]) /\ BlockAt(tokens, k) \notin DOMAIN KidsOf(t, n)
Stops(tokens, refresh, key, kids, m, k) ==
  \/ m < Len(key)
  \/ k >= Aligned(Len(tokens))
  \/ refresh /\ Aligned(Len(tokens)) - k < BlockSize
  \/ BlockAt(tokens, k) \notin DOMAIN kids

\* What a comparison finds, for use with opaque names.
Finding(tokens, key, v, u, l, r, s, m, k) ==
  /\ m \in Nat /\ m <= Len(key) /\ k \in Nat /\ k = l + m /\ k <= Aligned(Len(tokens)) /\ k <= Len(u)
  /\ Agree(u, tokens, k)
  /\ k = Span(Len(s)) /\ Len(s) \in Nat /\ Len(s) <= Len(v) /\ s = SubSeq(v, 1, Len(s))
  /\ m < Len(key) /\ k < Aligned(Len(tokens)) => u[k + 1] # tokens[k + 1]
  /\ m = Len(key) => k = Len(u) /\ s = v

\* What a comparison finds, from Compared.
LEMMA Finds ==
  ASSUME PartAtBlocks,
         NEW u \in Seq(Int), Told(u), NEW tokens \in Seq(Int), Told(tokens), NEW key \in Seq(Int),
         NEW l \in Nat, Tailed(u, l, key),
         NEW v \in Seq(Block), NEW r \in Seq(Block), NEW table \in Seq(Block), Joined(v, r, table),
         Filled(u, v, l, r), l <= Aligned(Len(tokens)), Agree(u, tokens, l),
         NEW m, NEW k, Compares(tokens, key, l, m, k)
  PROVE  Finding(tokens, key, v, u, l, r, r \o SubSeq(table, 1, m \div BlockSize), m, k)
<1> DEFINE s == r \o SubSeq(table, 1, m \div BlockSize)
           c == k \div BlockSize
<1>1. /\ m \in Nat /\ m <= Len(key) /\ k \in Nat /\ k <= Aligned(Len(tokens)) /\ k <= Len(u)
      /\ Agree(u, tokens, k)
      /\ c \in Nat /\ k = Span(c) /\ c <= Len(v)
      /\ s = SubSeq(v, 1, c) /\ Len(SubSeq(v, 1, c)) = c
      /\ m < Len(key) /\ k < Aligned(Len(tokens)) => u[k + 1] # tokens[k + 1]
      /\ m = Len(key) => k = Len(u)
  <2>1. Comparison(u, tokens, key, v, r, table, m, k)
    BY Compared
  <2> QED BY <2>1 DEF Comparison
<1>2. k = l + m
  BY DEF Compares
<1>3. Len(u) = Span(Len(v)) /\ Len(v) \in Nat
  BY DEF Filled
<1>4. m = Len(key) => s = v
  <2> SUFFICES ASSUME m = Len(key) PROVE s = v
    OBVIOUS
  <2>1. Span(c) = Span(Len(v))
    BY <1>1, <1>3
  <2>2. c = Len(v)
    <3>1. c \in Nat /\ Len(v) \in Nat
      BY <1>1, <1>3
    <3> HIDE DEF c
    <3> QED BY <2>1, <3>1, SpanOrder
  <2>3. SubSeq(v, 1, Len(v)) = v
    OBVIOUS
  <2> QED BY <1>1, <2>2, <2>3
<1> HIDE DEF c
<1>5. Len(s) = c
  BY <1>1
<1> HIDE DEF s
<1> QED BY <1>1, <1>2, <1>4, <1>5 DEF Finding, s

\* The blocks s after a comparison that agreed on m tokens of node n.
Collects(t, n, r, m, s) == s = r \o SubSeq(TableOf(t, n), 1, m \div BlockSize)
GoesTo(t, x, b, tokens, n, k, s) ==
  LET c == KidsOf(t, n)[BlockAt(tokens, k)]
  IN  c \in Nodes(t) \ {Root} /\ ParentOf(t, c) = n /\ Open(t, x, b, tokens, c, k, s)

\* What one comparison of the walk leads to.
LEMMA TurnLeads ==
  ASSUME PartAtBlocks, NEW t, NEW a, NEW x, NEW b, Shape(t, a, x, b),
         NEW tokens \in Seq(Int), Told(tokens), \A n \in Nodes(t) : Told(x[n]),
         NEW n, NEW l, NEW r, Open(t, x, b, tokens, n, l, r),
         NEW m, NEW k, Compares(tokens, KeyOf(t, n), l, m, k), NEW refresh,
         NEW s, Collects(t, n, r, m, s)
  PROVE  /\ Stops(tokens, refresh, KeyOf(t, n), KidsOf(t, n), m, k) => Ended(t, x, b, tokens, n, k, m, s)
         /\ ~Stops(tokens, refresh, KeyOf(t, n), KidsOf(t, n), m, k) => GoesTo(t, x, b, tokens, n, k, s)
<1> DEFINE u == x[n]
           v == b[n]
           key == KeyOf(t, n)
           kids == KidsOf(t, n)
           table == TableOf(t, n)
           total == Aligned(Len(tokens))
<1>1. n \in Nodes(t) /\ l = LeadOf(t, x, n) /\ r = LedOf(t, b, n)
      /\ l <= total /\ Agree(u, tokens, l)
      /\ (n # Root => l < total /\ Agree(u, tokens, l + BlockSize))
  BY DEF Open
<1>2. /\ l \in Nat /\ r \in Seq(Block) /\ l = Span(Len(r))
      /\ Tailed(u, l, key) /\ Joined(v, r, table) /\ (n # Root => Len(key) >= BlockSize)
  BY <1>1, Leads, Zenon
<1>3. /\ u \in Seq(Int) /\ v \in Seq(Block) /\ key \in Seq(Int) /\ table \in Seq(Block) /\ Told(u)
      /\ Len(u) = Span(Len(v))
  BY <1>1, NodeFacts, AboveFacts
<1>4. Filled(u, v, l, r)
  BY <1>2, <1>3 DEF Filled
<1>5. Finding(tokens, key, v, u, l, r, s, m, k)
  <2> HIDE DEF u, v, key, table
  <2>1. Finding(tokens, key, v, u, l, r, r \o SubSeq(table, 1, m \div BlockSize), m, k)
    BY <1>1, <1>2, <1>3, <1>4, Finds DEF key
  <2>2. s = r \o SubSeq(table, 1, m \div BlockSize)
    BY DEF Collects, table
  <2> QED BY <2>1, <2>2, Zenon
<1>6. /\ total \in Nat /\ total <= Len(tokens) /\ total = Span(Len(tokens) \div BlockSize)
      /\ Len(tokens) \div BlockSize \in Nat
  <2>1. Len(tokens) \in Nat
    OBVIOUS
  <2> QED BY <2>1, AlignedLength
<1>7. BlockSize \in Nat \ {0} /\ Len(key) \in Nat /\ Len(u) \in Nat /\ Len(tokens) \in Nat
  BY <1>3, BlockSizeAssumption
<1> DEFINE T == Len(tokens) \div BlockSize
<1> HIDE DEF u, v, key, table, total, kids, T
<1>8. /\ m \in Nat /\ m <= Len(key) /\ k \in Nat /\ k = l + m /\ k <= total /\ k <= Len(u)
      /\ k = Span(Len(s)) /\ Len(s) \in Nat
      /\ (m = Len(key) => k = Len(u) /\ s = v)
      /\ (m < Len(key) /\ k < total => u[k + 1] # tokens[k + 1])
  BY <1>5 DEF Finding, total
<1>9. /\ total \in Nat /\ l \in Nat /\ m \in Nat /\ k \in Nat /\ Len(u) \in Nat /\ Len(tokens) \in Nat
       /\ Len(key) \in Nat /\ BlockSize \in Nat /\ total <= Len(tokens) /\ k = l + m /\ k <= total
       /\ m <= Len(key)
  BY <1>2, <1>6, <1>7, <1>8
<1>10. k < total => k + BlockSize <= total
  <2>1. T \in Nat /\ total = Span(T)
    BY <1>6 DEF T
  <2>2. Span(Len(s)) < Span(T) => Span(Len(s)) + BlockSize <= Span(T)
    BY <2>1, <1>8, SpanOrder
  <2> QED BY <1>8, <2>1, <2>2
<1>11. n # Root => BlockSize <= m
  <2> SUFFICES ASSUME n # Root, m < BlockSize PROVE FALSE
    BY <1>7, <1>8
  <2>1. l < total /\ Agree(u, tokens, l + BlockSize) /\ BlockSize <= Len(key)
    BY <1>1, <1>2
  <2>2. l + BlockSize <= total
    <3>1. T \in Nat /\ total = Span(T) /\ Len(r) \in Nat
      BY <1>6, <1>2 DEF T
    <3>2. Span(Len(r)) < Span(T) => Span(Len(r)) + BlockSize <= Span(T)
      BY <3>1, SpanOrder
    <3> QED BY <2>1, <3>1, <3>2, <1>2
  <2>3. m < Len(key) /\ k < total /\ k + 1 \in 1 .. l + BlockSize
    BY <2>1, <2>2, <1>9
  <2>4. u[k + 1] = tokens[k + 1]
    BY <2>1, <2>3 DEF Agree
  <2> QED BY <2>3, <2>4, <1>8
<1>12. ASSUME Stops(tokens, refresh, key, kids, m, k)
       PROVE  Ended(t, x, b, tokens, n, k, m, s)
  <2>1. \/ k = total
        \/ m < Len(key) /\ u[k + 1] # tokens[k + 1]
        \/ m = Len(key) /\ k = Len(u) /\ BlockAt(tokens, k) \notin DOMAIN kids
    <3>1. CASE k = total
      BY <3>1
    <3>2. CASE k # total /\ m < Len(key)
      BY <3>2, <1>6, <1>8
    <3>3. CASE k # total /\ m = Len(key)
      <4>1. k < total /\ k + BlockSize <= total
        BY <3>3, <1>6, <1>8, <1>10
      <4>2. ~(k >= total) /\ ~(total - k < BlockSize)
        BY <4>1, <1>6, <1>7, <1>8
      <4>3. BlockAt(tokens, k) \notin DOMAIN kids
        <5>1. ~(m < Len(key))
          BY <3>3, <1>7
        <5> QED BY <4>2, <5>1, <1>12 DEF Stops, total
      <4> QED BY <3>3, <4>3, <1>8
    <3> QED BY <3>1, <3>2, <3>3, <1>7, <1>8
  <2> QED BY <2>1, <1>1, <1>5, <1>8, <1>11 DEF Ended, Finding, u, v, key, kids, total
<1>13. ASSUME ~Stops(tokens, refresh, key, kids, m, k)
       PROVE  GoesTo(t, x, b, tokens, n, k, s)
  <2> DEFINE fork == BlockAt(tokens, k)
             c == kids[fork]
  <2>1. fork \in DOMAIN kids /\ ~(m < Len(key)) /\ ~(k >= total)
    BY <1>13 DEF Stops, total
  <2>2. m = Len(key) /\ k < total /\ k = Len(u) /\ s = v /\ k + BlockSize <= total
    <3>1. m = Len(key) /\ k < total
      BY <2>1, <1>9
    <3> QED BY <3>1, <1>8, <1>10
  <2>3. c \in Nodes(t) /\ ParentOf(t, c) = n /\ BlockAt(KeyOf(t, c), 0) = fork
    BY <1>1, <2>1 DEF Shape, LinksExact, ParentOf, KeyOf, KidsOf, kids
  <2>4. c # Root
    <3>1. ParentOf(t, Root) = NoParent /\ n \in Nat
      BY <1>1, NodeFacts DEF Shape, IsTree
    <3> HIDE DEF c
    <3>2. NoParent \notin Nat
      BY DEF NoParent
    <3> QED BY <2>3, <3>1, <3>2
  <2> DEFINE w == x[c]
             ckey == KeyOf(t, c)
  <2>5. Joined(w, u, ckey) /\ Len(ckey) >= BlockSize /\ w \in Seq(Int) /\ ckey \in Seq(Int)
    BY <2>3, <2>4, ChildFacts, NodeFacts DEF u
  <2>6. BlockAt(ckey, 0) = BlockAt(tokens, Len(u))
    BY <2>2, <2>3
  <2>7. LeadOf(t, x, c) = k /\ LedOf(t, b, c) = s
    BY <2>2, <2>3, <2>4 DEF LeadOf, LedOf, u, v
  <2> HIDE DEF w, ckey, c
  <2>8. Agree(w, tokens, k + BlockSize)
    <3>1. Agree(u, tokens, Len(u))
      BY <1>5, <2>2 DEF Finding
    <3>2. Len(u) + BlockSize <= Len(tokens)
      BY <2>2, <1>9
    <3>3. Agree(w, tokens, Len(u) + BlockSize)
      BY <3>1, <3>2, <2>5, <2>6, <1>3, ForkAgrees
    <3> QED BY <3>3, <2>2
  <2>9. Agree(w, tokens, k)
    BY <2>8, <1>7, <1>8 DEF Agree
  <2>10. Open(t, x, b, tokens, c, k, s)
    BY <2>2, <2>3, <2>7, <2>8, <2>9, <1>8 DEF Open, w, total
  <2> QED BY <2>3, <2>4, <2>10 DEF c, GoesTo, kids
<1> QED BY <1>12, <1>13 DEF key, kids

\* The tree u is t but for the order of the list, and t itself when the walk
\* is insert's.
Kept(t, refresh, u) ==
  /\ IsTree(u) /\ ListOK(u) /\ u.node = t.node /\ u.evictable = t.evictable
  /\ ~refresh => u = t

\* match_prefix moves a node to the end of the list, insert does not.
LEMMA KeptTouch ==
  ASSUME NEW t, NEW refresh, NEW u, Kept(t, refresh, u), NEW n \in Nodes(t)
  PROVE  Kept(t, refresh, IF refresh THEN Touch(u, n) ELSE u)
<1>1. CASE refresh
  <2>1. n \in Nodes(u) /\ IsTree(u) /\ ListOK(u) /\ u.node = t.node /\ u.evictable = t.evictable
    BY DEF Kept, Nodes
  <2>2. /\ IsTree(Touch(u, n)) /\ ListOK(Touch(u, n))
        /\ Touch(u, n).node = u.node /\ Touch(u, n).evictable = u.evictable
    BY <2>1, TouchFacts
  <2> QED BY <1>1, <2>1, <2>2 DEF Kept
<1>2. CASE ~refresh
  BY <1>2
<1> QED BY <1>1, <1>2

\* What the loop has reached: it goes on, i nodes below the root, or is over.
Walking(t, a, x, b, tokens, refresh, w, i) ==
  /\ Kept(t, refresh, w.tree)
  /\ w.over \in BOOLEAN
  /\ w.over => Ended(t, x, b, tokens, w.now, w.length, w.m, w.blocks)
  /\ ~w.over => /\ Open(t, x, b, tokens, w.now, w.length, w.blocks)
                /\ Cardinality(a[w.now]) = i + 1

\* A node has one node above it more than its parent has.
LEMMA AboveCount ==
  ASSUME NEW t, NEW a, NEW x, NEW b, Shape(t, a, x, b), NEW n \in Nodes(t)
  PROVE  /\ IsFiniteSet(a[n]) /\ Cardinality(a[n]) \in Nat /\ Cardinality(a[n]) <= Cardinality(Nodes(t))
         /\ n # Root => Cardinality(a[n]) = Cardinality(a[ParentOf(t, n)]) + 1
<1>1. IsFiniteSet(Nodes(t)) /\ \A m \in Nodes(t) : a[m] \subseteq Nodes(t)
  BY NodeFacts DEF Shape, IsTree
<1>2. \A m \in Nodes(t) : IsFiniteSet(a[m]) /\ Cardinality(a[m]) \in Nat /\ Cardinality(a[m]) <= Cardinality(Nodes(t))
  BY <1>1, FS_Subset, FS_CardinalityType
<1>3. ASSUME n # Root PROVE Cardinality(a[n]) = Cardinality(a[ParentOf(t, n)]) + 1
  <2> DEFINE p == ParentOf(t, n)
  <2>1. p \in Nodes(t) /\ a[n] = a[p] \cup {n} /\ n \notin a[p]
    BY <1>3, ChildFacts, OffParent
  <2> HIDE DEF p
  <2>2. IsFiniteSet(a[p])
    BY <2>1, <1>2
  <2>3. Cardinality(a[p] \cup {n}) = Cardinality(a[p]) + 1
    BY <2>1, <2>2, FS_AddElement
  <2> QED BY <2>1, <2>3 DEF p
<1> QED BY <1>2, <1>3

\* A turn of the walk that is not over.
TurnOf(t, tokens, refresh, w, v) ==
  LET n == w.now
  IN  /\ Compares(tokens, KeyOf(t, n), w.length, v.m, v.length)
      /\ v.over \in BOOLEAN
      /\ v.over <=> Stops(tokens, refresh, KeyOf(t, n), KidsOf(t, n), v.m, v.length)
      /\ v.now = IF v.over THEN n ELSE KidsOf(t, n)[BlockAt(tokens, v.length)]
      /\ Collects(t, n, w.blocks, v.m, v.blocks)
      /\ v.tree = IF refresh THEN Touch(w.tree, n) ELSE w.tree

\* WalkStep, field by field.
LEMMA TurnFields ==
  ASSUME NEW t, NEW tokens, NEW refresh \in BOOLEAN, NEW w, ~w.over, w.tree.node = t.node
  PROVE  TurnOf(t, tokens, refresh, w, DescendTurn(tokens, refresh, w))
<1> DEFINE n == w.now
           l == w.length
           r == w.blocks
           m == Agreement(KeyOf(t, n), tokens, l, Aligned(Len(tokens)))
           k == l + m
           stop == Stops(tokens, refresh, KeyOf(t, n), KidsOf(t, n), m, k)
           now == IF stop THEN n ELSE KidsOf(t, n)[BlockAt(tokens, k)]
           s == r \o SubSeq(TableOf(t, n), 1, m \div BlockSize)
           u == IF refresh THEN Touch(w.tree, n) ELSE w.tree
           v == DescendTurn(tokens, refresh, w)
<1>1. v = [tree |-> u, now |-> now, length |-> k, m |-> m, blocks |-> s, over |-> stop]
  BY DEF DescendTurn, WalkStep, Stops, KeyOf, KidsOf, TableOf
<1>2. stop \in BOOLEAN
  BY DEF Stops
<1>3. Compares(tokens, KeyOf(t, n), l, m, k) /\ Collects(t, n, r, m, s)
  BY DEF Compares, Collects
<1>4. now = IF stop THEN n ELSE KidsOf(t, n)[BlockAt(tokens, k)]
  OBVIOUS
<1>5. stop <=> Stops(tokens, refresh, KeyOf(t, n), KidsOf(t, n), m, k)
  OBVIOUS
<1>6. u = IF refresh THEN Touch(w.tree, n) ELSE w.tree
  OBVIOUS
<1> HIDE DEF m, k, stop, now, s, u, v, l, r, n
<1>7. v.m = m /\ v.length = k /\ v.now = now /\ v.blocks = s /\ v.tree = u
  BY <1>1
<1>8. v.over = stop
  BY <1>1, Zenon
<1>9. n = w.now /\ l = w.length /\ r = w.blocks
  BY DEF n, l, r
<1> QED BY <1>7, <1>8, <1>2, <1>3, <1>4, <1>5, <1>6, <1>9, Zenon DEF TurnOf, v

\* One turn of the loop goes on or is the last.
LEMMA WalkGoesOn ==
  ASSUME PartAtBlocks, NEW t, NEW a, NEW x, NEW b, Shape(t, a, x, b), NEW refresh \in BOOLEAN,
         NEW tokens \in Seq(Int), Told(tokens), \A n \in Nodes(t) : Told(x[n]),
         NEW i \in Nat, NEW w, Walking(t, a, x, b, tokens, refresh, w, i)
  PROVE  Walking(t, a, x, b, tokens, refresh, DescendTurn(tokens, refresh, w), i + 1)
<1> DEFINE v == DescendTurn(tokens, refresh, w)
<1>1. CASE w.over
  <2>1. v = w
    BY <1>1 DEF DescendTurn, WalkStep
  <2> HIDE DEF v
  <2> QED BY <1>1, <2>1 DEF Walking, v
<1>2. CASE ~w.over
  <2> DEFINE n == w.now
             l == w.length
             r == w.blocks
  <2>1. Kept(t, refresh, w.tree) /\ Open(t, x, b, tokens, n, l, r) /\ Cardinality(a[n]) = i + 1
    BY <1>2 DEF Walking
  <2>2. w.tree.node = t.node /\ n \in Nodes(t)
    BY <2>1 DEF Kept, Open
  <2>3. TurnOf(t, tokens, refresh, w, v)
    BY <1>2, <2>2, TurnFields
  <2> DEFINE m == v.m
             k == v.length
             s == v.blocks
             kid == KidsOf(t, n)[BlockAt(tokens, k)]
  <2>4. /\ Compares(tokens, KeyOf(t, n), l, m, k)
        /\ v.over <=> Stops(tokens, refresh, KeyOf(t, n), KidsOf(t, n), m, k)
        /\ v.over \in BOOLEAN
        /\ v.now = IF v.over THEN n ELSE kid
        /\ Collects(t, n, r, m, s)
        /\ v.tree = IF refresh THEN Touch(w.tree, n) ELSE w.tree
    BY <2>3, Zenon DEF TurnOf
  <2> HIDE DEF v, n, l, r
  <2>5. Kept(t, refresh, v.tree)
    BY <2>1, <2>2, <2>4, KeptTouch
  <2> HIDE DEF m, k, s
  <2>6. /\ v.over => Ended(t, x, b, tokens, n, k, m, s)
        /\ ~v.over => GoesTo(t, x, b, tokens, n, k, s)
    BY <2>1, <2>4, TurnLeads
  <2>7. v.now = IF v.over THEN n ELSE kid
    BY <2>4
  <2>8. GoesTo(t, x, b, tokens, n, k, s) =>
          kid \in Nodes(t) \ {Root} /\ ParentOf(t, kid) = n /\ Open(t, x, b, tokens, kid, k, s)
    BY DEF GoesTo
  <2> HIDE DEF kid
  <2>9. CASE v.over
    <3>1. v.now = n /\ Ended(t, x, b, tokens, n, k, m, s)
      BY <2>6, <2>7, <2>9
    <3> QED BY <3>1, <2>4, <2>5, <2>9 DEF Walking, v, m, k, s
  <2>10. CASE ~v.over
    <3>1. /\ v.now = kid /\ kid \in Nodes(t) \ {Root} /\ ParentOf(t, kid) = n
          /\ Open(t, x, b, tokens, kid, k, s)
      BY <2>6, <2>8, <2>7, <2>10
    <3>2. Cardinality(a[kid]) = (i + 1) + 1
      BY <3>1, <2>1, AboveCount
    <3> QED BY <3>1, <3>2, <2>4, <2>5, <2>10 DEF Walking, v, m, k, s
  <2> QED BY <2>9, <2>10, <2>4
<1> QED BY <1>1, <1>2 DEF Walking

\* The walk as a whole.
LEMMA DescendFacts ==
  ASSUME PartAtBlocks, NEW t, NEW a, NEW x, NEW b, Shape(t, a, x, b), ListOK(t), NEW refresh \in BOOLEAN,
         NEW tokens \in Seq(Int), Told(tokens), \A n \in Nodes(t) : Told(x[n]),
         NEW w, w = Descend(t, tokens, refresh)
  PROVE  /\ Kept(t, refresh, w.tree)
         /\ Ended(t, x, b, tokens, w.now, w.length, w.m, w.blocks)
<1> DEFINE n == Cardinality(Nodes(t))
<1>1. n \in Nat /\ n = Cardinality(Nodes(t))
  BY FS_CardinalityType DEF Shape, IsTree
<1> HIDE DEF n
<1>2. PICK f : /\ f[0] = Walk0(t)
               /\ \A i \in 1 .. n : f[i] = DescendTurn(tokens, refresh, f[i - 1])
               /\ Descend(t, tokens, refresh) = f[n]
  BY <1>1, DescendRuns
<1> DEFINE Ok(i) == Walking(t, a, x, b, tokens, refresh, f[i], i)
           S == {i \in 0 .. n : Ok(i)}
<1>3. 0 \in S
  <2> DEFINE v == f[0]
  <2>1. v.tree = t /\ v.now = Root /\ v.length = 0 /\ v.blocks = <<>> /\ v.over = FALSE
    BY <1>2 DEF Walk0
  <2> HIDE DEF v
  <2>2. Kept(t, refresh, t)
    BY DEF Kept, Shape
  <2>3. Root \in Nodes(t) /\ a[Root] = {Root}
    BY DEF Shape, Spanned, IsTree
  <2>4. Cardinality(a[Root]) = 0 + 1
    <3>1. Cardinality({Root}) = 1
      BY FS_Singleton
    <3> QED BY <2>3, <3>1
  <2>5. Open(t, x, b, tokens, Root, 0, <<>>)
    <3>1. Len(tokens) \in Nat
      OBVIOUS
    <3>2. 0 <= Aligned(Len(tokens))
      BY <3>1, AlignedLength
    <3>3. Agree(x[Root], tokens, 0)
      BY DEF Agree
    <3> QED BY <2>3, <3>2, <3>3 DEF Open, LeadOf, LedOf
  <2>6. Walking(t, a, x, b, tokens, refresh, v, 0)
    BY <2>1, <2>2, <2>4, <2>5 DEF Walking
  <2> QED BY <2>6, <1>1 DEF v
<1>4. ASSUME NEW i \in 0 .. n - 1, i \in S PROVE i + 1 \in S
  <2>1. i + 1 \in 1 .. n /\ (i + 1) - 1 = i /\ i + 1 \in 0 .. n /\ i \in Nat
    BY <1>1
  <2>2. f[i + 1] = DescendTurn(tokens, refresh, f[i])
    BY <1>2, <2>1
  <2>3. Ok(i)
    BY <1>4
  <2>4. Ok(i + 1)
    BY <2>1, <2>2, <2>3, WalkGoesOn
  <2> QED BY <2>1, <2>4
<1>5. Ok(n)
  <2>1. \A i \in 0 .. n : i \in S
    <3> HIDE DEF S
    <3> QED BY <1>1, <1>3, <1>4, BoundedInduction
  <2> QED BY <2>1, <1>1
<1>6. w = f[n]
  BY <1>2
<1>7. Walking(t, a, x, b, tokens, refresh, w, n)
  BY <1>5, <1>6
<1>8. w.over
  <2> SUFFICES ASSUME ~w.over PROVE FALSE
    BY <1>7 DEF Walking
  <2>1. w.now \in Nodes(t) /\ Cardinality(a[w.now]) = n + 1
    BY <1>7 DEF Walking, Open
  <2>2. Cardinality(a[w.now]) <= n
    BY <2>1, <1>1, AboveCount
  <2> QED BY <2>1, <2>2, <1>1
<1> QED BY <1>7, <1>8 DEF Walking

\* The links by accessors: a child is filed under the first block of its key.
FirstBlock(t, n) == BlockAt(KeyOf(t, n), 0)

\* LinksExact, in the accessors.
LEMMA LinkFacts ==
  ASSUME NEW t, LinksExact(t)
  PROVE  /\ \A n \in Nodes(t) : \A f \in DOMAIN KidsOf(t, n) :
              /\ KidsOf(t, n)[f] \in Nodes(t) /\ ParentOf(t, KidsOf(t, n)[f]) = n
              /\ FirstBlock(t, KidsOf(t, n)[f]) = f
         /\ \A c \in Nodes(t) \ {Root} :
              /\ ParentOf(t, c) \in Nodes(t)
              /\ FirstBlock(t, c) \in DOMAIN KidsOf(t, ParentOf(t, c))
              /\ KidsOf(t, ParentOf(t, c))[FirstBlock(t, c)] = c
<1>1. \A n \in Nodes(t) : \A f \in DOMAIN KidsOf(t, n) :
              /\ KidsOf(t, n)[f] \in Nodes(t) /\ ParentOf(t, KidsOf(t, n)[f]) = n
              /\ FirstBlock(t, KidsOf(t, n)[f]) = f
  BY DEF LinksExact, KidsOf, ParentOf, FirstBlock, KeyOf
<1>2. ASSUME NEW c \in Nodes(t) \ {Root}
      PROVE  /\ ParentOf(t, c) \in Nodes(t)
             /\ FirstBlock(t, c) \in DOMAIN KidsOf(t, ParentOf(t, c))
             /\ KidsOf(t, ParentOf(t, c))[FirstBlock(t, c)] = c
  <2>1. ParentOf(t, c) \in Nodes(t) /\ \E f \in DOMAIN KidsOf(t, ParentOf(t, c)) : KidsOf(t, ParentOf(t, c))[f] = c
    BY DEF LinksExact, KidsOf, ParentOf
  <2>2. PICK f \in DOMAIN KidsOf(t, ParentOf(t, c)) : KidsOf(t, ParentOf(t, c))[f] = c
    BY <2>1
  <2>3. FirstBlock(t, c) = f
    BY <1>1, <2>1, <2>2
  <2> QED BY <2>1, <2>2, <2>3
<1> QED BY <1>1, <1>2

\* The accessors, back to LinksExact.
LEMMA LinksFrom ==
  ASSUME NEW t,
         \A n \in Nodes(t) : \A f \in DOMAIN KidsOf(t, n) :
              /\ KidsOf(t, n)[f] \in Nodes(t) /\ ParentOf(t, KidsOf(t, n)[f]) = n
              /\ FirstBlock(t, KidsOf(t, n)[f]) = f,
         \A c \in Nodes(t) \ {Root} :
              /\ ParentOf(t, c) \in Nodes(t)
              /\ FirstBlock(t, c) \in DOMAIN KidsOf(t, ParentOf(t, c))
              /\ KidsOf(t, ParentOf(t, c))[FirstBlock(t, c)] = c
  PROVE  LinksExact(t)
BY DEF LinksExact, KidsOf, ParentOf, FirstBlock, KeyOf

\* Below a node that is above q there is a child of it that is q or above it.
LEMMA ChildToward ==
  ASSUME NEW t, NEW a, NEW x, NEW b, Shape(t, a, x, b), NEW p
  PROVE  \A q \in Nodes(t) : p \in a[q] /\ p # q =>
           \E c \in Nodes(t) \ {Root} : c \in a[q] /\ ParentOf(t, c) = p
<1> DEFINE P(q) == p \in a[q] /\ p # q => \E c \in Nodes(t) \ {Root} : c \in a[q] /\ ParentOf(t, c) = p
           S == {q \in Nodes(t) : P(q)}
<1>1. Root \in S
  <2>1. Root \in Nodes(t) /\ a[Root] = {Root}
    BY DEF Shape, Spanned, IsTree
  <2> QED BY <2>1
<1>2. ASSUME NEW q \in Nodes(t) \ {Root}, ParentOf(t, q) \in S PROVE q \in S
  <2> SUFFICES ASSUME p \in a[q], p # q
               PROVE  \E c \in Nodes(t) \ {Root} : c \in a[q] /\ ParentOf(t, c) = p
    OBVIOUS
  <2> DEFINE r == ParentOf(t, q)
  <2>1. r \in Nodes(t) /\ a[q] = a[r] \cup {q} /\ P(r)
    BY <1>2, ChildFacts
  <2> HIDE DEF r
  <2>2. p \in a[r]
    BY <2>1
  <2>3. CASE p = r
    BY <2>3, <2>1 DEF r
  <2>4. CASE p # r
    BY <2>1, <2>2, <2>4
  <2> QED BY <2>3, <2>4
<1>3. \A q \in Nodes(t) : q \in S
  <2> HIDE DEF S
  <2> QED BY <1>1, <1>2, ClimbInduction
<1> QED BY <1>3

\* The first blocks of two keys are the same when the tokens are.
LEMMA SameFirstBlock ==
  ASSUME NEW u \in Seq(Int), NEW key \in Seq(Int), NEW l \in Nat, Tailed(u, l, key), BlockSize <= Len(key),
         NEW v \in Seq(Int), l + BlockSize <= Len(v), Agree(u, v, l + BlockSize)
  PROVE  BlockAt(key, 0) = BlockAt(v, l)
<1>1. BlockSize \in Nat /\ Len(key) \in Nat /\ Len(v) \in Nat
  BY BlockSizeAssumption
<1>2. ASSUME NEW i \in 1 .. BlockSize PROVE key[i] = v[l + i]
  <2>1. i \in 1 .. Len(key) /\ l + i \in 1 .. l + BlockSize
    BY <1>1
  <2> QED BY <2>1 DEF Tailed, Agree
<1>3. BlockAt(key, 0) = [i \in 1 .. BlockSize |-> IF 0 + i <= Len(key) THEN key[0 + i] ELSE Junk]
  BY DEF BlockAt
<1>4. BlockAt(v, l) = [i \in 1 .. BlockSize |-> IF l + i <= Len(v) THEN v[l + i] ELSE Junk]
  BY DEF BlockAt
<1>5. ASSUME NEW i \in 1 .. BlockSize
      PROVE  (IF 0 + i <= Len(key) THEN key[0 + i] ELSE Junk) = (IF l + i <= Len(v) THEN v[l + i] ELSE Junk)
  <2>1. 0 + i = i /\ i <= Len(key) /\ l + i <= Len(v)
    BY <1>1
  <2> QED BY <2>1, <1>2
<1> QED BY <1>3, <1>4, <1>5

\* A key that is the part of u after the first l tokens, and no shorter than a block.
IsPart(u, l, key) == key \in Seq(Int) /\ Tailed(u, l, key) /\ BlockSize <= Len(key)

\* The first block of a key, read off the tokens down to it.
LEMMA PartsFirstBlock ==
  ASSUME NEW u \in Seq(Int), NEW key, NEW l \in Nat, IsPart(u, l, key),
         NEW v \in Seq(Int), l + BlockSize <= Len(v), Agree(u, v, l + BlockSize)
  PROVE  BlockAt(key, 0) = BlockAt(v, l)
BY SameFirstBlock DEF IsPart

\* Two children of one node with the same first block are one.
LEMMA SameChild ==
  ASSUME NEW t, LinksExact(t), NEW c \in Nodes(t) \ {Root}, NEW d \in Nodes(t) \ {Root},
         ParentOf(t, c) = ParentOf(t, d), FirstBlock(t, c) = FirstBlock(t, d)
  PROVE  c = d
<1> DEFINE kids == KidsOf(t, ParentOf(t, c))
           f == FirstBlock(t, c)
<1>1. kids[f] = c
  BY LinkFacts
<1>2. KidsOf(t, ParentOf(t, d))[FirstBlock(t, d)] = d
  BY LinkFacts
<1>3. kids[f] = d
  BY <1>2
<1> QED BY <1>1, <1>3

\* A node is above every node whose tokens begin with the tokens before it and
\* the first block of its key.
LEMMA Filed ==
  ASSUME NEW t, NEW a, NEW x, NEW b, Shape(t, a, x, b), NEW q \in Nodes(t)
  PROVE  \A n \in Nodes(t) :
           n # Root /\ LeadOf(t, x, n) + BlockSize <= Len(x[q]) /\ Agree(x[q], x[n], LeadOf(t, x, n) + BlockSize)
           => n \in a[q]
<1> DEFINE P(n) == n # Root /\ LeadOf(t, x, n) + BlockSize <= Len(x[q])
                   /\ Agree(x[q], x[n], LeadOf(t, x, n) + BlockSize) => n \in a[q]
           S == {n \in Nodes(t) : P(n)}
<1>1. Root \in S
  BY DEF Shape, IsTree
<1>2. ASSUME NEW n \in Nodes(t) \ {Root}, ParentOf(t, n) \in S PROVE n \in S
  <2> DEFINE l == LeadOf(t, x, n)
             p == ParentOf(t, n)
             u == x[n]
             v == x[q]
             s == x[p]
  <2> SUFFICES ASSUME l + BlockSize <= Len(v), Agree(v, u, l + BlockSize)
               PROVE  n \in a[q]
    OBVIOUS
  <2>1. p \in Nodes(t) /\ P(p) /\ Joined(u, s, KeyOf(t, n))
    BY <1>2, ChildFacts
  <2>2. u \in Seq(Int) /\ v \in Seq(Int) /\ s \in Seq(Int) /\ KeyOf(t, n) \in Seq(Int)
    BY <2>1, NodeFacts
  <2>3. l \in Nat /\ l = Len(s) /\ BlockSize \in Nat \ {0}
    BY <2>1, <2>2, BlockSizeAssumption DEF LeadOf
  <2>4. Begins(u, s)
    BY <2>1 DEF Joined
  <2>5. Tailed(u, l, KeyOf(t, n)) /\ Len(KeyOf(t, n)) >= BlockSize
    BY Leads
  <2> HIDE DEF l, p, u, v, s
  <2>6. p \in a[q]
    <3>1. CASE p = Root
      BY <3>1, AboveFacts
    <3>2. CASE p # Root
      <4> DEFINE k == LeadOf(t, x, p)
      <4>1. /\ k \in Nat /\ Tailed(s, k, KeyOf(t, p)) /\ Len(KeyOf(t, p)) >= BlockSize
        BY <2>1, <3>2, Leads DEF s
      <4>2. Len(KeyOf(t, p)) \in Nat
        BY <2>1, NodeFacts
      <4> HIDE DEF k
      <4>3. k + BlockSize <= l
        BY <4>1, <4>2, <2>3 DEF Tailed
      <4>4. Agree(v, s, k + BlockSize)
        <5>1. Agree(s, u, l)
          BY <2>3, <2>4, BeginsAgree
        <5> QED BY <5>1, <4>1, <4>3, <2>3 DEF Agree
      <4>5. k + BlockSize <= Len(v)
        <5>1. Len(v) \in Nat
          BY <2>2
        <5> QED BY <5>1, <4>1, <4>3, <2>3
      <4> QED BY <4>4, <4>5, <2>1, <3>2 DEF k, s, v
    <3> QED BY <3>1, <3>2
  <2>7. p # q
    <3>1. Len(s) < Len(v)
      <4>1. Len(v) \in Nat
        BY <2>2
      <4> QED BY <4>1, <2>3
    <3>2. Len(v) \in Nat
      BY <2>2
    <3> QED BY <3>1, <3>2, <2>3 DEF s, v
  <2>8. PICK c \in Nodes(t) \ {Root} : c \in a[q] /\ ParentOf(t, c) = p
    BY <2>6, <2>7, ChildToward
  <2> DEFINE w == x[c]
  <2>9. /\ Tailed(w, l, KeyOf(t, c)) /\ Len(KeyOf(t, c)) >= BlockSize
        /\ w \in Seq(Int) /\ KeyOf(t, c) \in Seq(Int)
    <3>1. LeadOf(t, x, c) = l
      BY <2>3, <2>8 DEF LeadOf, s
    <3> QED BY <3>1, Leads, NodeFacts
  <2>10. Begins(v, w)
    BY <2>8, AboveFacts DEF Above, v
  <2> HIDE DEF w
  <2>11. l + BlockSize <= Len(w) /\ Len(w) \in Nat
    <3>1. Len(w) \in Nat /\ Len(KeyOf(t, c)) \in Nat
      BY <2>9
    <3> QED BY <3>1, <2>3, <2>9 DEF Tailed
  <2>12. Agree(w, v, l + BlockSize)
    BY <2>3, <2>10, <2>11, BeginsAgree
  <2>13. FirstBlock(t, c) = BlockAt(v, l)
    <3>1. IsPart(w, l, KeyOf(t, c)) /\ w \in Seq(Int)
      <4>1. Len(KeyOf(t, c)) \in Nat /\ BlockSize \in Nat
        BY <2>3, <2>9
      <4>2. BlockSize <= Len(KeyOf(t, c))
        BY <2>9, <4>1
      <4> QED BY <2>9, <4>2 DEF IsPart
    <3>2. v \in Seq(Int) /\ l \in Nat
      BY <2>2, <2>3
    <3>3. l + BlockSize <= Len(v)
      OBVIOUS
    <3>4. BlockAt(KeyOf(t, c), 0) = BlockAt(v, l)
      BY <3>1, <3>2, <3>3, <2>12, PartsFirstBlock
    <3> QED BY <3>4 DEF FirstBlock
  <2>14. FirstBlock(t, n) = BlockAt(v, l)
    <3>1. IsPart(u, l, KeyOf(t, n)) /\ u \in Seq(Int)
      <4>1. Len(KeyOf(t, n)) \in Nat /\ BlockSize \in Nat
        BY <2>2, <2>3
      <4>2. BlockSize <= Len(KeyOf(t, n))
        BY <2>5, <4>1
      <4> QED BY <2>2, <2>5, <4>2 DEF IsPart
    <3>2. v \in Seq(Int) /\ l \in Nat
      BY <2>2, <2>3
    <3>3. Agree(u, v, l + BlockSize)
      BY DEF Agree
    <3>4. l + BlockSize <= Len(v)
      OBVIOUS
    <3>5. BlockAt(KeyOf(t, n), 0) = BlockAt(v, l)
      BY <3>1, <3>2, <3>3, <3>4, PartsFirstBlock
    <3> QED BY <3>5 DEF FirstBlock
  <2>15. c = n
    <3>1. LinksExact(t)
      BY DEF Shape
    <3> QED BY <3>1, <2>8, <2>13, <2>14, SameChild DEF p
  <2> QED BY <2>8, <2>15
<1>3. \A n \in Nodes(t) : n \in S
  <2> HIDE DEF S
  <2> QED BY <1>1, <1>2, ClimbInduction
<1> QED BY <1>3

\* Scalars of a walk that ended short of the c-th block.
LEMMA ShortOf ==
  ASSUME NEW j \in Nat, NEW c \in Nat, NEW k, k = Span(j), k < Span(c)
  PROVE  k \in Nat /\ k + BlockSize <= Span(c) /\ k + 1 \in 1 .. Span(c)
<1>1. Span(j) \in Nat /\ Span(c) \in Nat /\ BlockSize \in Nat \ {0}
  BY SpanFacts
<1>2. j < c
  BY SpanOrder
<1>3. Span(j) + BlockSize <= Span(c)
  BY <1>2, SpanOrder
<1> QED BY <1>1, <1>3

\* A walk that ended in n is above every node whose tokens agree further.
LEMMA WalkAbove ==
  ASSUME NEW t, NEW a, NEW x, NEW b, Shape(t, a, x, b), NEW tokens, NEW n, NEW k, NEW m, NEW r,
         Ended(t, x, b, tokens, n, k, m, r), NEW q \in Nodes(t), NEW s \in Nat, k <= s,
         s <= Len(x[q]), Agree(x[q], tokens, s)
  PROVE  n \in a[q]
<1>1. n \in Nodes(t) /\ k \in Nat /\ m \in Nat /\ k = LeadOf(t, x, n) + m /\ (n # Root => BlockSize <= m)
      /\ Agree(x[n], tokens, k)
  BY DEF Ended
<1>2. CASE n = Root
  BY <1>2, AboveFacts
<1>3. CASE n # Root
  <2> DEFINE l == LeadOf(t, x, n)
             u == x[n]
             v == x[q]
  <2>1. l \in Nat /\ BlockSize \in Nat /\ u \in Seq(Int) /\ v \in Seq(Int)
    BY <1>1, Leads, NodeFacts, BlockSizeAssumption
  <2>2. k = l + m /\ BlockSize <= m /\ Len(v) \in Nat
    BY <1>1, <1>3, <2>1
  <2>3. s <= Len(v) /\ Agree(v, tokens, s) /\ Agree(u, tokens, k)
    BY <1>1
  <2> HIDE DEF l, u, v
  <2>4. l + BlockSize <= k /\ l + BlockSize <= s /\ l + BlockSize <= Len(v)
    BY <1>1, <2>1, <2>2, <2>3
  <2>5. Agree(v, u, l + BlockSize)
    <3>1. ASSUME NEW i \in 1 .. l + BlockSize PROVE v[i] = u[i]
      <4>1. i \in 1 .. s /\ i \in 1 .. k
        BY <2>1, <2>4, <1>1
      <4> QED BY <4>1, <2>3 DEF Agree
    <3> QED BY <3>1 DEF Agree
  <2> QED BY <1>1, <1>3, <2>4, <2>5, Filed DEF l, u, v
<1> QED BY <1>2, <1>3

\* The walk reaches the end of the longest cached prefix of the tokens.
LEMMA Longest ==
  ASSUME NEW t, NEW a, NEW x, NEW b, Shape(t, a, x, b), NEW tokens \in Seq(Int),
         NEW n, NEW k, NEW m, NEW r, Ended(t, x, b, tokens, n, k, m, r),
         NEW q \in Nodes(t), NEW c \in Nat, Span(c) <= Len(x[q]), Span(c) <= Aligned(Len(tokens)),
         Agree(x[q], tokens, Span(c))
  PROVE  Span(c) <= k
<1> DEFINE u == x[n]
           v == x[q]
           s == Span(c)
           key == KeyOf(t, n)
           top == Aligned(Len(tokens))
<1>1. n \in Nodes(t) /\ k \in Nat /\ k = Span(Len(r)) /\ Len(r) \in Nat /\ k <= top
      /\ Agree(u, tokens, k) /\ m \in Nat /\ k = LeadOf(t, x, n) + m
      /\ \/ k = top
         \/ m < Len(key) /\ u[k + 1] # tokens[k + 1]
         \/ m = Len(key) /\ k = Len(u) /\ BlockAt(tokens, k) \notin DOMAIN KidsOf(t, n)
  BY DEF Ended
<1>2. s \in Nat /\ top \in Nat /\ top <= Len(tokens) /\ u \in Seq(Int) /\ v \in Seq(Int) /\ key \in Seq(Int)
  <2>1. Len(tokens) \in Nat
    OBVIOUS
  <2> QED BY <1>1, <2>1, AlignedLength, SpanFacts, NodeFacts
<1>3. s <= Len(v) /\ s <= top /\ Agree(v, tokens, s)
  OBVIOUS
<1> SUFFICES ASSUME ~(s <= k) PROVE FALSE
  OBVIOUS
<1>4. k < s /\ k <= s
  BY <1>1, <1>2
<1>5. k + BlockSize <= s /\ k + 1 \in 1 .. s
  BY <1>1, <1>4, ShortOf
<1>6. n \in a[q]
  BY <1>1, <1>2, <1>3, <1>4, WalkAbove
<1>7. Begins(v, u)
  BY <1>6, AboveFacts DEF Above
<1>8. k # top
  <2> HIDE DEF s, top
  <2> QED BY <1>1, <1>2, <1>3, <1>4
<1>9. CASE m < Len(key) /\ u[k + 1] # tokens[k + 1]
  <2>1. Len(u) = LeadOf(t, x, n) + Len(key) /\ LeadOf(t, x, n) \in Nat
    BY <1>1, Leads DEF Tailed
  <2>2. k + 1 <= Len(u) /\ Len(u) \in Nat
    <3> DEFINE l == LeadOf(t, x, n)
    <3>1. Len(u) = l + Len(key) /\ l \in Nat /\ k = l + m
      BY <1>1, <2>1
    <3>2. Len(key) \in Nat
      BY <1>2
    <3> HIDE DEF l, u, key
    <3> QED BY <1>1, <1>9, <3>1, <3>2
  <2> HIDE DEF u, v, s, key, top
  <2>3. u[k + 1] = v[k + 1]
    BY <1>1, <1>7, <2>2 DEF Begins
  <2>4. v[k + 1] = tokens[k + 1]
    BY <1>3, <1>5 DEF Agree
  <2> QED BY <1>9, <2>3, <2>4
<1>10. CASE m = Len(key) /\ k = Len(u) /\ BlockAt(tokens, k) \notin DOMAIN KidsOf(t, n)
  <2>1. n # q
    <3> HIDE DEF s
    <3>1. Len(v) \in Nat
      BY <1>2
    <3> QED BY <1>1, <1>2, <1>3, <1>4, <1>10, <3>1
  <2>2. PICK d \in Nodes(t) \ {Root} : d \in a[q] /\ ParentOf(t, d) = n
    BY <1>6, <2>1, ChildToward
  <2> DEFINE w == x[d]
             kd == KeyOf(t, d)
  <2>3. Tailed(w, k, kd) /\ Len(kd) >= BlockSize /\ w \in Seq(Int) /\ kd \in Seq(Int)
    <3>1. LeadOf(t, x, d) = k
      BY <1>10, <2>2 DEF LeadOf
    <3> QED BY <3>1, Leads, NodeFacts
  <2>4. Begins(v, w)
    BY <2>2, AboveFacts DEF Above
  <2> HIDE DEF u, v, s, key, top, w, kd
  <2>5. Len(w) = k + Len(kd) /\ Len(kd) \in Nat /\ Len(w) \in Nat /\ BlockSize \in Nat
    BY <2>3, BlockSizeAssumption DEF Tailed
  <2>6. k + BlockSize <= Len(w) /\ BlockSize <= Len(kd) /\ k + BlockSize <= Len(tokens)
    <3>1. /\ k \in Nat /\ s \in Nat /\ top \in Nat /\ top <= Len(tokens) /\ s <= top
          /\ k + BlockSize <= s /\ Len(kd) >= BlockSize
      BY <1>1, <1>2, <1>3, <1>5, <2>3
    <3>2. Len(tokens) \in Nat
      OBVIOUS
    <3> QED BY <3>1, <3>2, <2>5
  <2>7. Agree(w, tokens, k + BlockSize)
    <3>1. ASSUME NEW i \in 1 .. k + BlockSize PROVE w[i] = tokens[i]
      <4>1. i \in 1 .. Len(w) /\ i \in 1 .. s
        <5>1. /\ k \in Nat /\ s \in Nat /\ BlockSize \in Nat /\ Len(w) \in Nat
              /\ k + BlockSize <= s /\ k + BlockSize <= Len(w)
          BY <1>1, <1>2, <1>5, <2>5, <2>6
        <5> QED BY <5>1
      <4>2. w[i] = v[i]
        BY <4>1, <2>4 DEF Begins
      <4>3. v[i] = tokens[i]
        BY <4>1, <1>3 DEF Agree
      <4> QED BY <4>2, <4>3
    <3> QED BY <3>1 DEF Agree
  <2>8. IsPart(w, k, kd)
    BY <2>3, <2>6 DEF IsPart
  <2>9. BlockAt(kd, 0) = BlockAt(tokens, k)
    BY <2>3, <2>6, <2>7, <2>8, <1>1, PartsFirstBlock
  <2>10. FirstBlock(t, d) = BlockAt(tokens, k)
    BY <2>9 DEF FirstBlock, kd
  <2>11. LinksExact(t)
    BY DEF Shape
  <2>12. FirstBlock(t, d) \in DOMAIN KidsOf(t, n)
    BY <2>2, <2>11, LinkFacts
  <2> QED BY <2>10, <2>12, <1>10
<1> QED BY <1>1, <1>8, <1>9, <1>10

\* Every block of a node's chain is in the table of one of the nodes above it.
Owns(t, b, n, i) == n # Root /\ Len(LedOf(t, b, n)) < i /\ i <= Len(b[n])

\* Each block down to a node is one of a node above it.
LEMMA Owner ==
  ASSUME NEW t, NEW a, NEW x, NEW b, Shape(t, a, x, b)
  PROVE  \A n \in Nodes(t) : \A i \in 1 .. Len(b[n]) : \E d \in a[n] : Owns(t, b, d, i)
<1> DEFINE P(n) == \A i \in 1 .. Len(b[n]) : \E d \in a[n] : Owns(t, b, d, i)
           S == {n \in Nodes(t) : P(n)}
<1>1. Root \in S
  <2>1. Root \in Nodes(t) /\ b[Root] = <<>>
    BY DEF Shape, Spanned, IsTree
  <2>2. 1 .. Len(b[Root]) = {}
    BY <2>1
  <2> QED BY <2>1, <2>2
<1>2. ASSUME NEW n \in Nodes(t) \ {Root}, ParentOf(t, n) \in S PROVE n \in S
  <2> DEFINE p == ParentOf(t, n)
  <2> SUFFICES ASSUME NEW i \in 1 .. Len(b[n]) PROVE \E d \in a[n] : Owns(t, b, d, i)
    OBVIOUS
  <2>1. p \in Nodes(t) /\ P(p) /\ a[n] = a[p] \cup {n}
    BY <1>2, ChildFacts
  <2>2. Len(b[p]) \in Nat /\ Len(b[n]) \in Nat
    BY <2>1, Lengths
  <2>3. CASE i <= Len(b[p])
    <3>1. i \in 1 .. Len(b[p])
      BY <2>2, <2>3
    <3>2. \E d \in a[p] : Owns(t, b, d, i)
      BY <3>1, <2>1
    <3> QED BY <3>2, <2>1
  <2>4. CASE ~(i <= Len(b[p]))
    <3>1. Len(b[p]) < i /\ i <= Len(b[n])
      BY <2>2, <2>4
    <3>2. Owns(t, b, n, i)
      BY <3>1 DEF Owns, LedOf
    <3> QED BY <3>2, <2>1
  <2> QED BY <2>3, <2>4
<1>3. \A n \in Nodes(t) : n \in S
  <2> HIDE DEF S
  <2> QED BY <1>1, <1>2, ClimbInduction
<1> QED BY <1>3

\* The block it is there, and the same one in every chain below.
LEMMA OwnerFacts ==
  ASSUME NEW t, NEW a, NEW x, NEW b, Shape(t, a, x, b), NEW n \in Nodes(t), NEW d \in a[n],
         NEW i \in Nat, Owns(t, b, d, i)
  PROVE  /\ d \in Nodes(t) /\ i <= Len(b[n]) /\ b[n][i] = b[d][i]
         /\ Contains(TableOf(t, d), b[n][i])
         /\ LeadOf(t, x, d) + BlockSize <= Span(i) /\ Span(i) <= Len(x[d])
<1>1. Above(t, a, x, b, d, n) /\ d \in Nodes(t)
  BY AboveFacts DEF Above
<1> DEFINE v == b[n]
           u == b[d]
           led == LedOf(t, b, d)
           table == TableOf(t, d)
<1>2. led \in Seq(Block) /\ table \in Seq(Block) /\ Joined(u, led, table) /\ LeadOf(t, x, d) = Span(Len(led))
  BY <1>1, Leads, NodeFacts
<1>3. Len(x[d]) = Span(Len(u))
  BY <1>1, AboveFacts
<1>4. Len(led) < i /\ i <= Len(u) /\ Begins(v, u)
  BY <1>1 DEF Owns, Above
<1>5. v \in Seq(Block) /\ u \in Seq(Block)
  BY <1>1, NodeFacts
<1>6. Span(Len(led)) + BlockSize <= Span(i) /\ Span(i) <= Span(Len(u))
  <2>1. Len(led) \in Nat /\ Len(u) \in Nat
    BY <1>2, <1>5
  <2> QED BY <2>1, <1>4, SpanOrder
<1>7. /\ i <= Len(v) /\ v[i] = u[i]
      /\ \E j \in 1 .. Len(table) : table[j] = v[i]
  <2> HIDE DEF v, u, led, table
  <2>1. Len(led) \in Nat /\ Len(table) \in Nat /\ Len(u) \in Nat /\ Len(v) \in Nat
    BY <1>2, <1>5
  <2>2. Len(u) = Len(led) + Len(table) /\ \A j \in 1 .. Len(table) : u[Len(led) + j] = table[j]
    BY <1>2 DEF Joined
  <2>3. i <= Len(v) /\ v[i] = u[i]
    BY <1>4, <2>1 DEF Begins
  <2> DEFINE j == i - Len(led)
  <2>4. j \in 1 .. Len(table) /\ Len(led) + j = i
    BY <1>4, <2>1, <2>2
  <2>5. u[Len(led) + j] = table[j]
    BY <2>2, <2>4
  <2> QED BY <2>3, <2>4, <2>5
<1> QED BY <1>1, <1>2, <1>3, <1>6, <1>7 DEF Contains

\* A block of a table is in the chain of its node.
LEMMA TableInChain ==
  ASSUME NEW t, NEW a, NEW x, NEW b, Shape(t, a, x, b), NEW n \in Nodes(t), NEW e, Contains(TableOf(t, n), e)
  PROVE  \E i \in 1 .. Len(b[n]) : b[n][i] = e /\ Owns(t, b, n, i)
<1> DEFINE u == b[n]
           led == LedOf(t, b, n)
           table == TableOf(t, n)
<1>1. led \in Seq(Block) /\ table \in Seq(Block) /\ Joined(u, led, table) /\ u \in Seq(Block)
  BY Leads, NodeFacts
<1>2. PICK j \in 1 .. Len(table) : table[j] = e
  BY DEF Contains
<1>3. n # Root
  <2>1. TableOf(t, Root) = <<>>
    BY DEF Shape, IsTree
  <2>2. n = Root => 1 .. Len(table) = {}
    BY <2>1
  <2> QED BY <1>2, <2>2
<1> HIDE DEF u, led, table
<1>4. Len(led) \in Nat /\ Len(table) \in Nat /\ Len(u) = Len(led) + Len(table) /\ u[Len(led) + j] = table[j]
  BY <1>1, <1>2 DEF Joined
<1> DEFINE i == Len(led) + j
<1>5. i \in 1 .. Len(u) /\ Len(led) < i /\ i <= Len(u) /\ u[i] = e
  BY <1>2, <1>4
<1> HIDE DEF i
<1> QED BY <1>3, <1>5 DEF Owns, u, led

\* The tree files at most one block under a prefix.
LEMMA Determined ==
  ASSUME NEW t, NEW a, NEW x, NEW b, Shape(t, a, x, b), NEW n \in Nodes(t), NEW q \in Nodes(t),
         NEW i \in 1 .. Len(b[n]), i <= Len(b[q]), Agree(x[n], x[q], Span(i))
  PROVE  b[n][i] = b[q][i]
<1>1. i \in Nat /\ Len(b[q]) \in Nat
  BY Lengths
<1>2. PICK d \in a[n] : Owns(t, b, d, i)
  BY Owner
<1> DEFINE l == LeadOf(t, x, d)
           u == x[n]
           v == x[q]
           w == x[d]
<1>3. d \in Nodes(t) /\ b[n][i] = b[d][i] /\ l + BlockSize <= Span(i) /\ Span(i) <= Len(w)
  BY <1>1, <1>2, OwnerFacts
<1>4. Begins(u, w)
  BY <1>2, AboveFacts DEF Above
<1>5. l \in Nat /\ BlockSize \in Nat /\ Span(i) \in Nat /\ Len(w) \in Nat /\ Len(v) \in Nat
  BY <1>1, <1>3, Leads, SpanFacts, Lengths
<1>6. Span(i) <= Len(v)
  <2>1. Len(v) = Span(Len(b[q]))
    BY AboveFacts
  <2> QED BY <2>1, <1>1, SpanOrder
<1>7. Agree(v, w, l + BlockSize)
  <2>1. Agree(u, v, Span(i))
    OBVIOUS
  <2> HIDE DEF l, u, v, w
  <2>2. ASSUME NEW j \in 1 .. l + BlockSize PROVE v[j] = w[j]
    <3>1. j \in 1 .. Span(i) /\ j \in 1 .. Len(w)
      BY <1>3, <1>5
    <3> QED BY <3>1, <2>1, <1>4 DEF Agree, Begins
  <2> QED BY <2>2 DEF Agree
<1>8. l + BlockSize <= Len(v)
  <2> HIDE DEF l, v, w
  <2> QED BY <1>3, <1>5, <1>6
<1>9. d \in a[q]
  BY <1>2, <1>3, <1>7, <1>8, Filed DEF Owns
<1>10. b[q][i] = b[d][i]
  BY <1>1, <1>2, <1>9, OwnerFacts
<1> QED BY <1>3, <1>10

\* A map with one more entry.
LEMMA PutFacts ==
  ASSUME NEW f, NEW k, NEW v
  PROVE  /\ \A j : j \in DOMAIN Put(f, k, v) <=> j \in DOMAIN f \/ j = k
         /\ Put(f, k, v)[k] = v
         /\ \A j \in DOMAIN f : j # k => Put(f, k, v)[j] = f[j]
BY DEF Put

\* A fresh node is none of the nodes.
LEMMA FreshNodeFacts ==
  ASSUME NEW t, IsTree(t)
  PROVE  FreshNode(t) \in Nat \ {0} /\ FreshNode(t) \notin Nodes(t)
<1> DEFINE N == Nodes(t)
           c == Cardinality(N)
<1>1. IsFiniteSet(N) /\ N \subseteq Nat /\ 0 \in N
  BY DEF IsTree, Root
<1>2. c \in Nat
  BY <1>1, FS_CardinalityType
<1> HIDE DEF N
<1>3. \E n \in 1 .. c : n \notin N
  <2> SUFFICES ASSUME 1 .. c \subseteq N PROVE FALSE
    OBVIOUS
  <2> HIDE DEF c
  <2>1. 0 .. c \subseteq N
    BY <1>1, <1>2
  <2>2. IsFiniteSet(0 .. c) /\ Cardinality(0 .. c) = c - 0 + 1
    <3>1. 0 <= c /\ 0 \in Int /\ c \in Int
      BY <1>2
    <3> QED BY <3>1, FS_Interval
  <2>3. Cardinality(0 .. c) <= Cardinality(N)
    BY <1>1, <2>1, FS_Subset
  <2> QED BY <1>2, <2>2, <2>3 DEF c
<1>4. FreshNode(t) \in 1 .. c /\ FreshNode(t) \notin N
  BY <1>3 DEF FreshNode, N
<1> QED BY <1>2, <1>4 DEF N

\* N is a map of nodes with the domain D.
NodeMap(N, D) ==
  /\ N = [m \in D |-> N[m]]
  /\ IsFiniteSet(D) /\ D \subseteq Nat /\ Root \in D
  /\ \A m \in D : IsNode(N[m])
  /\ N[Root].parent = NoParent /\ N[Root].key = <<>> /\ N[Root].table = <<>>

\* A tree made of a map of nodes, a list and a count.
LEMMA MadeTree ==
  ASSUME NEW N, NEW D, NodeMap(N, D), NEW l \in Seq(D), NEW e \in Int
  PROVE  LET u == [node |-> N, lru |-> l, evictable |-> e]
         IN  IsTree(u) /\ Nodes(u) = D /\ u.node = N /\ u.lru = l /\ u.evictable = e
<1> DEFINE u == [node |-> N, lru |-> l, evictable |-> e]
<1>1. u = [node |-> u.node, lru |-> u.lru, evictable |-> u.evictable] /\ u.node = N /\ u.lru = l /\ u.evictable = e
  OBVIOUS
<1> HIDE DEF u
<1>2. DOMAIN N = D
  BY DEF NodeMap
<1>3. Nodes(u) = D
  BY <1>1, <1>2 DEF Nodes
<1>4. /\ u.node = [m \in Nodes(u) |-> u.node[m]]
      /\ IsFiniteSet(D) /\ D \subseteq Nat /\ Root \in D
      /\ \A m \in D : IsNode(u.node[m])
  BY <1>1, <1>3 DEF NodeMap
<1>5. ParentOf(u, Root) = NoParent /\ KeyOf(u, Root) = <<>> /\ TableOf(u, Root) = <<>>
  BY <1>1 DEF NodeMap, ParentOf, KeyOf, TableOf
<1>6. IsTree(u)
  BY <1>1, <1>3, <1>4, <1>5 DEF IsTree
<1> QED BY <1>1, <1>3, <1>6 DEF u

\* A tree is its map of nodes, its list and its count.
LEMMA TreeParts ==
  ASSUME NEW t, IsTree(t)
  PROVE  NodeMap(t.node, Nodes(t)) /\ t = [node |-> t.node, lru |-> t.lru, evictable |-> t.evictable]
         /\ t.lru \in Seq(Nodes(t)) /\ t.evictable \in Int
BY DEF IsTree, NodeMap, ParentOf, KeyOf, TableOf

\* The nodes of a tree with one more, hung under n.
HangNode(t, n, key, leaf, r) ==
  Put([t.node EXCEPT ![n].children = Put(t.node[n].children, BlockAt(key, 0), leaf)], leaf, r)

\* A leaf with this key and these blocks under n.
NewLeaf(n, key, blocks) == [parent |-> n, key |-> key, table |-> blocks, lock |-> 0, children |-> <<>>]

\* What hanging a leaf changes.
Hung(t, u, n, leaf, key, blocks) ==
  /\ Nodes(u) = Nodes(t) \cup {leaf}
  /\ \A m \in Nodes(t) : /\ ParentOf(u, m) = ParentOf(t, m) /\ KeyOf(u, m) = KeyOf(t, m)
                         /\ TableOf(u, m) = TableOf(t, m) /\ LockOf(u, m) = LockOf(t, m)
                         /\ m # n => KidsOf(u, m) = KidsOf(t, m)
  /\ KidsOf(u, n) = Put(KidsOf(t, n), BlockAt(key, 0), leaf)
  /\ ParentOf(u, leaf) = n /\ KeyOf(u, leaf) = key /\ TableOf(u, leaf) = blocks /\ LockOf(u, leaf) = 0
  /\ DOMAIN KidsOf(u, leaf) = {}

\* The map of nodes after a leaf is hung, node by node.
LEMMA HungNodes ==
  ASSUME NEW t, IsTree(t), NEW n \in Nodes(t), NEW leaf \in Nat, leaf \notin Nodes(t),
         NEW key \in Seq(Int), NEW blocks \in Table, NEW N, N = HangNode(t, n, key, leaf, NewLeaf(n, key, blocks)),
         NEW u, u.node = N
  PROVE  NodeMap(N, Nodes(t) \cup {leaf}) /\ Hung(t, u, n, leaf, key, blocks)
<1> DEFINE D == Nodes(t)
           K == Put(t.node[n].children, BlockAt(key, 0), leaf)
           s == [t.node[n] EXCEPT !.children = K]
           M == [t.node EXCEPT ![n] = s]
           r == NewLeaf(n, key, blocks)
<1>1. NodeMap(t.node, D)
  BY TreeParts
<1>2. D = DOMAIN t.node
  BY DEF Nodes
<1>3. N = Put(M, leaf, r)
  <2>1. [t.node EXCEPT ![n].children = Put(t.node[n].children, BlockAt(key, 0), leaf)] = M
    BY <1>2
  <2> QED BY <2>1, Zenon DEF HangNode
<1>4. /\ r.parent = n /\ r.key = key /\ r.table = blocks /\ r.lock = 0 /\ r.children = <<>>
      /\ r = [parent |-> r.parent, key |-> r.key, table |-> r.table, lock |-> r.lock, children |-> r.children]
  BY DEF NewLeaf
<1>5. IsNode(t.node[n]) /\ n \in Nat
  BY <1>1 DEF NodeMap
<1>6. IsNode(r)
  <2> HIDE DEF r
  <2> QED BY <1>4, <1>5 DEF IsNode
<1>7. /\ IsNode(s) /\ s.parent = ParentOf(t, n) /\ s.key = KeyOf(t, n) /\ s.table = TableOf(t, n)
      /\ s.lock = LockOf(t, n) /\ s.children = Put(KidsOf(t, n), BlockAt(key, 0), leaf)
  BY <1>5, Rewired DEF ParentOf, KeyOf, TableOf, LockOf, KidsOf
<1>8. DOMAIN M = D /\ M[n] = s /\ \A m \in D : m # n => M[m] = t.node[m]
  BY <1>1, <1>2
<1> HIDE DEF M, s, r, K
<1>9. DOMAIN N = D \cup {leaf} /\ N[leaf] = r /\ \A m \in D : N[m] = M[m]
  <2>1. DOMAIN Put(M, leaf, r) = DOMAIN M \cup {leaf} /\ Put(M, leaf, r)[leaf] = r
        /\ \A m \in DOMAIN M : m # leaf => Put(M, leaf, r)[m] = M[m]
    BY DEF Put
  <2> QED BY <2>1, <1>3, <1>8, Zenon
<1>10. N[n] = s /\ \A m \in D : m # n => N[m] = t.node[m]
  BY <1>8, <1>9
<1>11. Nodes(u) = D \cup {leaf}
  BY <1>9, Zenon DEF Nodes
<1>12. \A m \in D : /\ ParentOf(u, m) = ParentOf(t, m) /\ KeyOf(u, m) = KeyOf(t, m)
                    /\ TableOf(u, m) = TableOf(t, m) /\ LockOf(u, m) = LockOf(t, m)
                    /\ m # n => KidsOf(u, m) = KidsOf(t, m)
  <2> SUFFICES ASSUME NEW m \in D
               PROVE  /\ ParentOf(u, m) = ParentOf(t, m) /\ KeyOf(u, m) = KeyOf(t, m)
                      /\ TableOf(u, m) = TableOf(t, m) /\ LockOf(u, m) = LockOf(t, m)
                      /\ m # n => KidsOf(u, m) = KidsOf(t, m)
    OBVIOUS
  <2>1. CASE m = n
    <3>1. u.node[m] = s
      BY <2>1, <1>10, Zenon
    <3> QED BY <3>1, <2>1, <1>7 DEF ParentOf, KeyOf, TableOf, KidsOf, LockOf
  <2>2. CASE m # n
    <3>1. u.node[m] = t.node[m]
      BY <2>2, <1>10, Zenon
    <3> QED BY <3>1 DEF ParentOf, KeyOf, TableOf, KidsOf, LockOf
  <2> QED BY <2>1, <2>2
<1>13. KidsOf(u, n) = Put(KidsOf(t, n), BlockAt(key, 0), leaf)
  <2>1. u.node[n] = s
    BY <1>10, Zenon
  <2> QED BY <2>1, <1>7 DEF KidsOf
<1>14. /\ ParentOf(u, leaf) = n /\ KeyOf(u, leaf) = key /\ TableOf(u, leaf) = blocks /\ LockOf(u, leaf) = 0
       /\ DOMAIN KidsOf(u, leaf) = {}
  <2>1. u.node[leaf] = r
    BY <1>9, Zenon
  <2>2. DOMAIN r.children = {}
    BY <1>4
  <2> QED BY <2>1, <2>2, <1>4 DEF ParentOf, KeyOf, TableOf, KidsOf, LockOf
<1>15. NodeMap(N, D \cup {leaf})
  <2>1. N = [m \in D \cup {leaf} |-> N[m]]
    BY <1>3, <1>9 DEF Put
  <2>2. IsFiniteSet(D \cup {leaf})
    BY <1>1, FS_AddElement DEF NodeMap
  <2>3. \A m \in D \cup {leaf} : IsNode(N[m])
    <3>1. \A m \in D : IsNode(t.node[m])
      BY <1>1 DEF NodeMap
    <3> QED BY <3>1, <1>6, <1>7, <1>9, <1>10, Zenon
  <2>4. Root \in D /\ ParentOf(t, Root) = NoParent /\ KeyOf(t, Root) = <<>> /\ TableOf(t, Root) = <<>>
    BY DEF IsTree
  <2>5. ParentOf(u, Root) = NoParent /\ KeyOf(u, Root) = <<>> /\ TableOf(u, Root) = <<>>
    BY <2>4, <1>12, Zenon
  <2>6. N[Root].parent = NoParent /\ N[Root].key = <<>> /\ N[Root].table = <<>>
    BY <2>5 DEF ParentOf, KeyOf, TableOf
  <2>7. D \cup {leaf} \subseteq Nat
    BY <1>1 DEF NodeMap
  <2> QED BY <2>1, <2>2, <2>3, <2>4, <2>6, <2>7 DEF NodeMap
<1> QED BY <1>11, <1>12, <1>13, <1>14, <1>15 DEF Hung

\* A list over some nodes of a tree has the same sum in a tree where these have
\* the same tables.
LEMMA SameSum ==
  ASSUME NEW t, NEW u, IsTree(t), IsTree(u), NEW D, D \subseteq Nodes(t), D \subseteq Nodes(u),
         \A m \in D : TableOf(u, m) = TableOf(t, m), NEW l \in Seq(D)
  PROVE  Total(Sizes(u), l) = Total(Sizes(t), l)
<1> DEFINE G == Sizes(t)
           H == Sizes(u)
<1>1. G \in [Nat -> Int] /\ H \in [Nat -> Int]
  BY SizesFacts
<1>2. D \subseteq Nat
  BY DEF IsTree
<1>3. l \in Seq(Nat)
  <2>1. \A i \in 1 .. Len(l) : l[i] \in Nat
    <3>1. \A i \in 1 .. Len(l) : l[i] \in D
      OBVIOUS
    <3> QED BY <1>2, <3>1, Zenon
  <2> DEFINE E == Nat
  <2> HIDE DEF E
  <2>2. l \in Seq(D) /\ \A i \in 1 .. Len(l) : l[i] \in E
    BY <2>1 DEF E
  <2> QED BY <2>2, SeqOver DEF E
<1>4. ASSUME NEW m \in ToSet(l) PROVE G[m] = H[m]
  <2>1. m \in D
    BY DEF ToSet
  <2>2. G[m] = Len(TableOf(t, m)) /\ H[m] = Len(TableOf(u, m))
    BY <2>1, SizesFacts
  <2> QED BY <2>1, <2>2
<1> HIDE DEF G, H
<1>5. Total(G, l) = Total(H, l)
  BY <1>1, <1>3, <1>4, SumAgrees
<1> QED BY <1>5 DEF G, H

\* A leaf is hung: the tree has it, and its list is right again.
LEMMA HangLeafFacts ==
  ASSUME NEW t, IsTree(t), ListOK(t), NEW n \in Nodes(t), NEW key \in Seq(Int), NEW blocks \in Table,
         NEW leaf, leaf = FreshNode(t)
  PROVE  LET u == HangLeaf(t, n, key, blocks)
         IN  IsTree(u) /\ ListOK(u) /\ Hung(t, u, n, leaf, key, blocks)
<1> DEFINE d == Delist(t, n)
           N == HangNode(t, n, key, leaf, NewLeaf(n, key, blocks))
           l == d.lru
           e == d.evictable
           v == [node |-> N, lru |-> l, evictable |-> e]
           u == Enlist(v, leaf)
           D == Nodes(t)
           D2 == Nodes(t) \cup {leaf}
<1>1. leaf \in Nat /\ leaf \notin D
  BY FreshNodeFacts
<1>2. /\ IsTree(d) /\ Alike(t, d) /\ d.node = t.node
      /\ NoDuplicates(l) /\ ToSet(l) = Listed(t) \ {n}
      /\ e = Total(Sizes(d), l)
  BY DelistFacts DEF ListOK
<1>3. d = [node |-> d.node, lru |-> l, evictable |-> e] /\ l \in Seq(D) /\ e \in Int
  <2>1. Nodes(d) = D
    BY <1>2 DEF Alike
  <2> QED BY <1>2, <2>1 DEF IsTree
<1>4. HangLeaf(t, n, key, blocks) = u
  <2> DEFINE M == Put([t.node EXCEPT ![n].children = Put(t.node[n].children, BlockAt(key, 0), leaf)], leaf,
                       NewLeaf(n, key, blocks))
             w == [d EXCEPT !.node = M]
  <2>1. HangLeaf(t, n, key, blocks) = Enlist(w, leaf)
    BY DEF HangLeaf, NewLeaf
  <2>2. M = N
    BY <1>2 DEF HangNode
  <2> HIDE DEF M, N, l, e
  <2>3. w = v
    BY <1>3, <2>2
  <2> QED BY <2>1, <2>3
<1>5. NodeMap(N, D2) /\ v.node = N
  <2>1. v.node = N
    OBVIOUS
  <2> HIDE DEF v, N
  <2> QED BY <1>1, <2>1, HungNodes DEF N
<1>6. l \in Seq(D2)
  BY <1>3
<1> HIDE DEF N, l, e, D2
<1>7. IsTree(v) /\ Nodes(v) = D2 /\ v.node = N /\ v.lru = l /\ v.evictable = e
  BY <1>3, <1>5, <1>6, MadeTree
<1>8. Hung(t, v, n, leaf, key, blocks)
  BY <1>1, <1>7, HungNodes DEF N
<1> HIDE DEF v
<1>9. e = Total(Sizes(v), l)
  <2>1. Sizes(d) = Sizes(t)
    BY <1>2, AlikeSizes
  <2>2. D \subseteq Nodes(v) /\ \A m \in D : TableOf(v, m) = TableOf(t, m)
    BY <1>8 DEF Hung
  <2>3. Total(Sizes(v), l) = Total(Sizes(t), l)
    BY <1>3, <1>7, <2>2, SameSum
  <2> QED BY <1>2, <2>1, <2>3 DEF l, e
<1>10. leaf \in Nodes(v) /\ leaf \notin ToSet(v.lru) /\ ToSet(v.lru) = Listed(t) \ {n}
  <2>1. ToSet(l) = Listed(t) \ {n} /\ leaf \notin Listed(t)
    BY <1>1, <1>2 DEF Listed, l
  <2> QED BY <1>7, <2>1 DEF D2
<1>11. /\ IsTree(u) /\ Alike(v, u) /\ u.node = v.node
       /\ NoDuplicates(u.lru) /\ ToSet(u.lru) = (Listed(t) \ {n}) \cup {leaf}
       /\ u.evictable = Total(Sizes(u), u.lru)
       /\ \A m \in Nodes(v) : LockOf(u, m) = LockOf(v, m)
  <2>1. NoDuplicates(v.lru) /\ v.evictable = Total(Sizes(v), v.lru)
    BY <1>2, <1>7, <1>9 DEF l
  <2> QED BY <1>7, <1>10, <2>1, EnlistFacts
<1> HIDE DEF u
<1>12. Hung(t, u, n, leaf, key, blocks)
  BY <1>1, <1>7, <1>11, HungNodes DEF N
<1>13. Listed(u) = (Listed(t) \ {n}) \cup {leaf}
  <2>1. DOMAIN KidsOf(u, n) # {}
    <3> DEFINE f == KidsOf(t, n)
               k == BlockAt(key, 0)
    <3>1. KidsOf(u, n) = Put(f, k, leaf)
      BY <1>12 DEF Hung
    <3> HIDE DEF f, k
    <3>2. k \in DOMAIN Put(f, k, leaf)
      BY DEF Put
    <3> QED BY <3>1, <3>2
  <2>2. \A m \in D : m # n => LockOf(u, m) = LockOf(t, m) /\ KidsOf(u, m) = KidsOf(t, m)
    BY <1>12 DEF Hung
  <2>3. Nodes(u) = D \cup {leaf} /\ LockOf(u, leaf) = 0 /\ DOMAIN KidsOf(u, leaf) = {}
    BY <1>12 DEF Hung
  <2>4. leaf # Root
    BY <1>1 DEF IsTree
  <2>5. ASSUME NEW m \in D, m # n PROVE m \in Listed(u) <=> m \in Listed(t)
    <3>1. LockOf(u, m) = LockOf(t, m) /\ KidsOf(u, m) = KidsOf(t, m) /\ m \in Nodes(u)
      BY <2>2, <2>3, <2>5
    <3> QED BY <3>1, Zenon DEF Listed
  <2>6. n \notin Listed(u)
    BY <2>1 DEF Listed
  <2>7. leaf \in Listed(u) /\ leaf \notin D
    BY <1>1, <2>3, <2>4 DEF Listed
  <2>8. Listed(u) \subseteq D \cup {leaf} /\ Listed(t) \subseteq D
    BY <2>3 DEF Listed
  <2> HIDE DEF D
  <2> QED BY <2>5, <2>6, <2>7, <2>8
<1> QED BY <1>4, <1>11, <1>12, <1>13 DEF ListOK

\* A node that holds whole blocks.
Whole(t, n) == TableOf(t, n) # <<>> /\ Len(KeyOf(t, n)) = Span(Len(TableOf(t, n)))

\* The links of a node to its children, and of a child to its parent.
KidsLinked(t, n) ==
  \A f \in DOMAIN KidsOf(t, n) :
     /\ KidsOf(t, n)[f] \in Nodes(t) /\ ParentOf(t, KidsOf(t, n)[f]) = n
     /\ FirstBlock(t, KidsOf(t, n)[f]) = f
ChildLinked(t, c) ==
  /\ ParentOf(t, c) \in Nodes(t)
  /\ FirstBlock(t, c) \in DOMAIN KidsOf(t, ParentOf(t, c))
  /\ KidsOf(t, ParentOf(t, c))[FirstBlock(t, c)] = c

\* The equations of the links at a node.
SpannedAt(t, a, x, b, n) ==
  /\ a[n] = a[ParentOf(t, n)] \cup {n}
  /\ x[n] = x[ParentOf(t, n)] \o KeyOf(t, n)
  /\ b[n] = b[ParentOf(t, n)] \o TableOf(t, n)
SpanTypes(D, a, x, b) ==
  /\ a \in [D -> SUBSET D] /\ x \in [D -> Seq(Int)] /\ b \in [D -> Seq(Block)]
  /\ a[Root] = {Root} /\ x[Root] = <<>> /\ b[Root] = <<>>

\* Shape, node by node.
LEMMA ShapeByNode ==
  ASSUME NEW t, NEW a, NEW x, NEW b
  PROVE  Shape(t, a, x, b) <=>
           /\ IsTree(t) /\ SpanTypes(Nodes(t), a, x, b)
           /\ \A n \in Nodes(t) : KidsLinked(t, n)
           /\ \A n \in Nodes(t) \ {Root} : Whole(t, n) /\ ChildLinked(t, n) /\ SpannedAt(t, a, x, b, n)
<1>1. WholeBlocks(t) <=> \A n \in Nodes(t) \ {Root} : Whole(t, n)
  BY DEF WholeBlocks, Whole, TableOf, KeyOf, Span
<1>2. LinksExact(t) => /\ \A n \in Nodes(t) : KidsLinked(t, n)
                       /\ \A n \in Nodes(t) \ {Root} : ChildLinked(t, n)
  <2> SUFFICES ASSUME LinksExact(t)
               PROVE  /\ \A n \in Nodes(t) : KidsLinked(t, n)
                      /\ \A n \in Nodes(t) \ {Root} : ChildLinked(t, n)
    OBVIOUS
  <2> QED BY LinkFacts DEF KidsLinked, ChildLinked
<1>3. ASSUME \A n \in Nodes(t) : KidsLinked(t, n), \A n \in Nodes(t) \ {Root} : ChildLinked(t, n)
      PROVE  LinksExact(t)
  <2>1. \A n \in Nodes(t) : \A f \in DOMAIN KidsOf(t, n) :
              /\ KidsOf(t, n)[f] \in Nodes(t) /\ ParentOf(t, KidsOf(t, n)[f]) = n
              /\ FirstBlock(t, KidsOf(t, n)[f]) = f
    BY <1>3 DEF KidsLinked
  <2>2. \A c \in Nodes(t) \ {Root} :
              /\ ParentOf(t, c) \in Nodes(t)
              /\ FirstBlock(t, c) \in DOMAIN KidsOf(t, ParentOf(t, c))
              /\ KidsOf(t, ParentOf(t, c))[FirstBlock(t, c)] = c
    BY <1>3 DEF ChildLinked
  <2> QED BY <2>1, <2>2, LinksFrom
<1>4. Spanned(t, a, x, b) <=> /\ SpanTypes(Nodes(t), a, x, b)
                              /\ \A n \in Nodes(t) \ {Root} : SpannedAt(t, a, x, b, n)
  BY Zenon DEF Spanned, SpanTypes, SpannedAt
<1> QED BY <1>1, <1>2, <1>3, <1>4, Zenon DEF Shape

\* The shape with the new leaf.
LEMMA HungShape ==
  ASSUME NEW t, NEW a, NEW x, NEW b, Shape(t, a, x, b), NEW n \in Nodes(t), NEW leaf, leaf \notin Nodes(t),
         NEW key \in Seq(Int), NEW blocks \in Table, NEW u, IsTree(u), Hung(t, u, n, leaf, key, blocks),
         Whole(u, leaf), BlockAt(key, 0) \notin DOMAIN KidsOf(t, n),
         NEW a2, NEW x2, NEW b2, a2 = Put(a, leaf, a[n] \cup {leaf}), x2 = Put(x, leaf, x[n] \o key),
         b2 = Put(b, leaf, b[n] \o blocks)
  PROVE  Shape(u, a2, x2, b2)
<1> DEFINE D == Nodes(t)
           f == BlockAt(key, 0)
<1>1. /\ IsTree(t) /\ SpanTypes(D, a, x, b)
      /\ \A m \in D : KidsLinked(t, m)
      /\ \A m \in D \ {Root} : Whole(t, m) /\ ChildLinked(t, m) /\ SpannedAt(t, a, x, b, m)
  BY ShapeByNode, Zenon
<1>2. Nodes(u) = D \cup {leaf} /\ Root \in D
  BY DEF Hung, Shape, IsTree
<1>3. /\ a[n] \cup {leaf} \in SUBSET (D \cup {leaf}) /\ x[n] \o key \in Seq(Int) /\ b[n] \o blocks \in Seq(Block)
  <2>1. a[n] \in SUBSET D /\ x[n] \in Seq(Int) /\ b[n] \in Seq(Block) /\ blocks \in Seq(Block)
    BY <1>1 DEF SpanTypes, Table
  <2> QED BY <2>1
<1>4. /\ a2 \in [D \cup {leaf} -> SUBSET (D \cup {leaf})] /\ a2[leaf] = a[n] \cup {leaf} /\ \A m \in D : a2[m] = a[m]
  <2> DEFINE E == SUBSET (D \cup {leaf})
             v == a[n] \cup {leaf}
  <2>1. a \in [D -> E] /\ v \in E
    BY <1>1, <1>3 DEF SpanTypes
  <2> DEFINE D2 == D \cup {leaf}
  <2>2. (\A j : j \in D2 <=> j \in D \/ j = leaf) /\ leaf \notin D
    OBVIOUS
  <2> HIDE DEF D, E, v, D2
  <2>3. a2 = Put(a, leaf, v)
    BY DEF v, D, E
  <2>4. Put(a, leaf, v) \in [D2 -> E] /\ Put(a, leaf, v)[leaf] = v /\ \A m \in D : Put(a, leaf, v)[m] = a[m]
    BY <2>1, <2>2 DEF Put
  <2> QED BY <2>3, <2>4 DEF D2, E, v
<1>5. /\ x2 \in [D \cup {leaf} -> Seq(Int)] /\ x2[leaf] = x[n] \o key /\ \A m \in D : x2[m] = x[m]
  <2> DEFINE E == Seq(Int)
             v == x[n] \o key
  <2>1. x \in [D -> E] /\ v \in E
    BY <1>1, <1>3 DEF SpanTypes
  <2> DEFINE D2 == D \cup {leaf}
  <2>2. (\A j : j \in D2 <=> j \in D \/ j = leaf) /\ leaf \notin D
    OBVIOUS
  <2> HIDE DEF D, E, v, D2
  <2>3. x2 = Put(x, leaf, v)
    BY DEF v, D, E
  <2>4. Put(x, leaf, v) \in [D2 -> E] /\ Put(x, leaf, v)[leaf] = v /\ \A m \in D : Put(x, leaf, v)[m] = x[m]
    BY <2>1, <2>2 DEF Put
  <2> QED BY <2>3, <2>4 DEF D2, E, v
<1>6. /\ b2 \in [D \cup {leaf} -> Seq(Block)] /\ b2[leaf] = b[n] \o blocks /\ \A m \in D : b2[m] = b[m]
  <2> DEFINE E == Seq(Block)
             v == b[n] \o blocks
  <2>1. b \in [D -> E] /\ v \in E
    BY <1>1, <1>3 DEF SpanTypes
  <2> DEFINE D2 == D \cup {leaf}
  <2>2. (\A j : j \in D2 <=> j \in D \/ j = leaf) /\ leaf \notin D
    OBVIOUS
  <2> HIDE DEF D, E, v, D2
  <2>3. b2 = Put(b, leaf, v)
    BY DEF v, D, E
  <2>4. Put(b, leaf, v) \in [D2 -> E] /\ Put(b, leaf, v)[leaf] = v /\ \A m \in D : Put(b, leaf, v)[m] = b[m]
    BY <2>1, <2>2 DEF Put
  <2> QED BY <2>3, <2>4 DEF D2, E, v
<1>7. SpanTypes(Nodes(u), a2, x2, b2)
  BY <1>1, <1>2, <1>4, <1>5, <1>6 DEF SpanTypes
<1>8. /\ \A m \in D : ParentOf(u, m) = ParentOf(t, m) /\ KeyOf(u, m) = KeyOf(t, m) /\ TableOf(u, m) = TableOf(t, m)
                      /\ FirstBlock(u, m) = FirstBlock(t, m)
                      /\ (m # n => KidsOf(u, m) = KidsOf(t, m))
      /\ KidsOf(u, n) = Put(KidsOf(t, n), f, leaf)
      /\ ParentOf(u, leaf) = n /\ KeyOf(u, leaf) = key /\ TableOf(u, leaf) = blocks
      /\ FirstBlock(u, leaf) = f /\ DOMAIN KidsOf(u, leaf) = {}
  BY DEF Hung, FirstBlock
<1>9. /\ \A g : g \in DOMAIN KidsOf(u, n) <=> g \in DOMAIN KidsOf(t, n) \/ g = f
      /\ KidsOf(u, n)[f] = leaf
      /\ \A g \in DOMAIN KidsOf(t, n) : KidsOf(u, n)[g] = KidsOf(t, n)[g]
  <2> DEFINE K == KidsOf(t, n)
             L == KidsOf(u, n)
  <2>1. L = Put(K, f, leaf) /\ f \notin DOMAIN K
    BY <1>8
  <2> HIDE DEF K, L, f
  <2>2. /\ \A g : g \in DOMAIN L <=> g \in DOMAIN K \/ g = f
        /\ L[f] = leaf
        /\ \A g \in DOMAIN K : L[g] = K[g]
    BY <2>1 DEF Put
  <2> QED BY <2>2 DEF K, L
<1> HIDE DEF f
<1>10. ASSUME NEW m \in Nodes(u) PROVE KidsLinked(u, m)
  <2>1. CASE m = leaf
    BY <2>1, <1>8 DEF KidsLinked
  <2>2. CASE m \in D /\ m # n
    <3>1. KidsLinked(t, m) /\ KidsOf(u, m) = KidsOf(t, m)
      BY <2>2, <1>1, <1>8
    <3> QED BY <3>1, <1>2, <1>8 DEF KidsLinked
  <2>3. CASE m = n
    <3> SUFFICES ASSUME NEW g \in DOMAIN KidsOf(u, n)
                 PROVE  /\ KidsOf(u, n)[g] \in Nodes(u) /\ ParentOf(u, KidsOf(u, n)[g]) = n
                        /\ FirstBlock(u, KidsOf(u, n)[g]) = g
      BY <2>3 DEF KidsLinked
    <3>1. CASE g = f
      <4>1. KidsOf(u, n)[g] = leaf
        BY <3>1, <1>9
      <4> QED BY <4>1, <3>1, <1>2, <1>8
    <3>2. CASE g \in DOMAIN KidsOf(t, n)
      <4> DEFINE c == KidsOf(t, n)[g]
      <4>1. c \in D /\ ParentOf(t, c) = n /\ FirstBlock(t, c) = g
        BY <3>2, <1>1 DEF KidsLinked
      <4>2. KidsOf(u, n)[g] = c
        BY <3>2, <1>9
      <4> HIDE DEF c
      <4> QED BY <4>1, <4>2, <1>2, <1>8
    <3> QED BY <3>1, <3>2, <1>9
  <2> QED BY <2>1, <2>2, <2>3, <1>2
<1>11. ASSUME NEW m \in Nodes(u) \ {Root} PROVE ChildLinked(u, m)
  <2>1. CASE m = leaf
    BY <2>1, <1>2, <1>8, <1>9 DEF ChildLinked
  <2>2. CASE m \in D
    <3> DEFINE p == ParentOf(t, m)
               g == FirstBlock(t, m)
    <3>1. p \in D /\ g \in DOMAIN KidsOf(t, p) /\ KidsOf(t, p)[g] = m
      BY <2>2, <1>1 DEF ChildLinked
    <3>2. ParentOf(u, m) = p /\ FirstBlock(u, m) = g
      BY <2>2, <1>8
    <3> HIDE DEF p, g
    <3>3. g \in DOMAIN KidsOf(u, p) /\ KidsOf(u, p)[g] = m
      <4>1. CASE p = n
        BY <3>1, <4>1, <1>9
      <4>2. CASE p # n
        BY <3>1, <4>2, <1>8
      <4> QED BY <4>1, <4>2
    <3> QED BY <3>1, <3>2, <3>3, <1>2 DEF ChildLinked
  <2> QED BY <2>1, <2>2, <1>2
<1>12. ASSUME NEW m \in Nodes(u) \ {Root} PROVE Whole(u, m)
  <2>1. CASE m \in D
    BY <2>1, <1>1, <1>8 DEF Whole
  <2> QED BY <2>1, <1>2
<1>13. ASSUME NEW m \in Nodes(u) \ {Root} PROVE SpannedAt(u, a2, x2, b2, m)
  <2>1. CASE m = leaf
    BY <2>1, <1>4, <1>5, <1>6, <1>8 DEF SpannedAt
  <2>2. CASE m \in D
    <3>1. ParentOf(t, m) \in D /\ SpannedAt(t, a, x, b, m)
      BY <2>2, <1>1 DEF ChildLinked
    <3> QED BY <2>2, <3>1, <1>4, <1>5, <1>6, <1>8 DEF SpannedAt
  <2> QED BY <2>1, <2>2, <1>2
<1> QED BY <1>7, <1>10, <1>11, <1>12, <1>13, ShapeByNode, Zenon

\* The two nodes a node is split into, after j of its blocks.
UpperKey(t, c, j)   == SubSeq(KeyOf(t, c), 1, Span(j))
LowerKey(t, c, j)   == SubSeq(KeyOf(t, c), Span(j) + 1, Len(KeyOf(t, c)))
UpperTable(t, c, j) == SubSeq(TableOf(t, c), 1, j)
LowerTable(t, c, j) == SubSeq(TableOf(t, c), j + 1, Len(TableOf(t, c)))

\* What splitting node c changes.
Splits(t, u, c, upper, j) ==
  /\ Nodes(u) = Nodes(t) \cup {upper}
  /\ \A m \in Nodes(t) : /\ LockOf(u, m) = LockOf(t, m)
                         /\ m # c => /\ ParentOf(u, m) = ParentOf(t, m) /\ KeyOf(u, m) = KeyOf(t, m)
                                     /\ TableOf(u, m) = TableOf(t, m)
                         /\ m # ParentOf(t, c) => KidsOf(u, m) = KidsOf(t, m)
  /\ ParentOf(u, c) = upper /\ KeyOf(u, c) = LowerKey(t, c, j) /\ TableOf(u, c) = LowerTable(t, c, j)
  /\ KidsOf(u, ParentOf(t, c)) = Put(KidsOf(t, ParentOf(t, c)), BlockAt(UpperKey(t, c, j), 0), upper)
  /\ ParentOf(u, upper) = ParentOf(t, c) /\ KeyOf(u, upper) = UpperKey(t, c, j)
  /\ TableOf(u, upper) = UpperTable(t, c, j) /\ LockOf(u, upper) = LockOf(t, c)
  /\ KidsOf(u, upper) = Put(<<>>, BlockAt(LowerKey(t, c, j), 0), c)

\* u is t with c split, its list as it was and this many blocks fewer counted.
SplitMade(t, u, c, upper, j, moved) ==
  /\ NodeMap(u.node, Nodes(t) \cup {upper}) /\ Splits(t, u, c, upper, j)
  /\ u = [node |-> u.node, lru |-> t.lru, evictable |-> t.evictable - moved]

\* The tree after a split, node by node.
LEMMA SplitNodes ==
  ASSUME NEW t, IsTree(t), NEW c \in Nodes(t) \ {Root}, ParentOf(t, c) \in Nodes(t) \ {c},
         NEW upper, upper = FreshNode(t),
         NEW j \in Nat, j <= Len(TableOf(t, c)), Span(j) <= Len(KeyOf(t, c)), NEW pins, pins = LockOf(t, c), NEW moved
  PROVE  SplitMade(t, SplitInto(t, c, Span(j), pins, moved), c, upper, j, moved)
<1> DEFINE D == Nodes(t)
           p == ParentOf(t, c)
           len == Span(j)
           lower == [t.node[c] EXCEPT !.key    = SubSeq(@, len + 1, Len(@)),
                                      !.table  = SubSeq(@, len \div BlockSize + 1, Len(@)),
                                      !.parent = upper]
           low == [parent |-> upper, key |-> LowerKey(t, c, j), table |-> LowerTable(t, c, j),
                   lock |-> LockOf(t, c), children |-> KidsOf(t, c)]
           up == [parent |-> p, key |-> UpperKey(t, c, j), table |-> UpperTable(t, c, j),
                  lock |-> pins, children |-> Put(<<>>, BlockAt(LowerKey(t, c, j), 0), c)]
           f == BlockAt(UpperKey(t, c, j), 0)
           s == [t.node[p] EXCEPT !.children = Put(t.node[p].children, f, upper)]
           M == [t.node EXCEPT ![c] = low, ![p].children = Put(@, f, upper)]
           N == Put(M, upper, up)
           u == SplitInto(t, c, len, pins, moved)
<1>1. upper \in Nat \ {0} /\ upper \notin D
  BY FreshNodeFacts
<1>2. NodeMap(t.node, D) /\ D = DOMAIN t.node
  BY TreeParts DEF Nodes
<1>3. IsNode(t.node[c]) /\ IsNode(t.node[p]) /\ c \in Nat /\ p \in D /\ p # c /\ p \in Nat
  BY <1>2 DEF NodeMap
<1>4. len \div BlockSize = j
  BY BlocksIn
<1>5. lower = low
  <2> DEFINE r == t.node[c]
             A == SubSeq(r.key, len + 1, Len(r.key))
             B == SubSeq(r.table, j + 1, Len(r.table))
  <2>1. lower = [r EXCEPT !.key = A, !.table = B, !.parent = upper]
    BY <1>4
  <2>2. Recut(r, A, B, upper) = Remade(r, A, B, upper)
    <3>1. IsNode(r)
      BY <1>3
    <3> HIDE DEF r, A, B
    <3> QED BY <3>1, RecutIsRemade
  <2>3. lower = Remade(r, A, B, upper)
    BY <2>1, <2>2 DEF Recut
  <2> QED BY <2>3 DEF Remade, LowerKey, LowerTable, KeyOf, TableOf, LockOf, KidsOf
<1>6. u = [node |-> N, lru |-> t.lru, evictable |-> t.evictable - moved]
  <2>1. low.key = LowerKey(t, c, j) /\ up.key = UpperKey(t, c, j)
    OBVIOUS
  <2> DEFINE upr == [parent   |-> t.node[c].parent,
                     key      |-> SubSeq(t.node[c].key, 1, len),
                     table    |-> SubSeq(t.node[c].table, 1, len \div BlockSize),
                     lock     |-> pins,
                     children |-> Put(<<>>, BlockAt(lower.key, 0), c)]
  <2>2. upr = up
    BY <1>4, <1>5 DEF UpperKey, UpperTable, KeyOf, TableOf, ParentOf
  <2>3. u = [node      |-> Put([t.node EXCEPT ![c] = lower,
                                              ![t.node[c].parent].children = Put(@, BlockAt(upr.key, 0), upper)],
                               upper, upr),
             lru       |-> t.lru,
             evictable |-> t.evictable - moved]
    BY DEF SplitInto
  <2> QED BY <2>1, <2>2, <2>3, <1>5 DEF ParentOf
<1>7. /\ up.parent = p /\ up.key = UpperKey(t, c, j) /\ up.table = UpperTable(t, c, j) /\ up.lock = pins
      /\ up.children = Put(<<>>, BlockAt(LowerKey(t, c, j), 0), c)
      /\ up = [parent |-> up.parent, key |-> up.key, table |-> up.table, lock |-> up.lock, children |-> up.children]
  OBVIOUS
<1>8. /\ low.parent = upper /\ low.key = LowerKey(t, c, j) /\ low.table = LowerTable(t, c, j)
      /\ low.lock = LockOf(t, c) /\ low.children = KidsOf(t, c)
      /\ low = [parent |-> low.parent, key |-> low.key, table |-> low.table, lock |-> low.lock,
                children |-> low.children]
  OBVIOUS
<1>9. /\ UpperKey(t, c, j) \in Seq(Int) /\ LowerKey(t, c, j) \in Seq(Int)
      /\ UpperTable(t, c, j) \in Table /\ LowerTable(t, c, j) \in Table
  <2>1. KeyOf(t, c) \in Seq(Int) /\ TableOf(t, c) \in Table /\ len \in Nat
    BY TreeFields, SpanFacts
  <2> DEFINE key == KeyOf(t, c)
             table == TableOf(t, c)
  <2> HIDE DEF len
  <2>2. UpperKey(t, c, j) \in Seq(Int) /\ LowerKey(t, c, j) \in Seq(Int)
    <3> DEFINE E == Int
    <3> HIDE DEF E, key
    <3>1. key \in Seq(E) /\ len <= Len(key)
      BY <2>1 DEF key, E, len
    <3>2. SubSeq(key, 1, len) \in Seq(E) /\ SubSeq(key, len + 1, Len(key)) \in Seq(E)
      BY <2>1, <3>1, Cut
    <3> QED BY <3>2 DEF UpperKey, LowerKey, key, E, len
  <2>3. UpperTable(t, c, j) \in Table /\ LowerTable(t, c, j) \in Table
    <3> HIDE DEF table
    <3>1. table \in Table /\ j <= Len(table)
      BY <2>1 DEF table
    <3>2. SubSeq(table, 1, j) \in Table /\ SubSeq(table, j + 1, Len(table)) \in Table
      BY <3>1, CutTable
    <3> QED BY <3>2 DEF UpperTable, LowerTable, table
  <2> QED BY <2>2, <2>3
<1>10. /\ IsNode(s) /\ s.parent = ParentOf(t, p) /\ s.key = KeyOf(t, p) /\ s.table = TableOf(t, p)
      /\ s.lock = LockOf(t, p) /\ s.children = Put(KidsOf(t, p), f, upper)
  BY <1>3, Rewired DEF ParentOf, KeyOf, TableOf, LockOf, KidsOf
<1>11. pins = LockOf(t, c) /\ LockOf(t, c) \in Nat
  BY TreeFields
<1>12. DOMAIN M = D /\ M[p] = s /\ M[c] = low /\ \A m \in D : m # p /\ m # c => M[m] = t.node[m]
  <2> HIDE DEF low, f, p
  <2>1. t.node = [m \in D |-> t.node[m]]
    BY <1>2 DEF NodeMap
  <2>2. c \in D
    OBVIOUS
  <2> QED BY <1>2, <1>3, <2>1, <2>2
<1>13. u.node = N /\ u.lru = t.lru /\ u.evictable = t.evictable - moved
       /\ u = [node |-> u.node, lru |-> t.lru, evictable |-> t.evictable - moved]
  <2> HIDE DEF u, N
  <2> QED BY <1>6
<1> HIDE DEF low, up, s, M, u, D, f, p, len
<1>14. IsNode(up) /\ IsNode(low)
  <2>1. p \in Int /\ upper \in Int
    BY <1>1, <1>3
  <2> QED BY <2>1, <1>7, <1>8, <1>9, <1>11 DEF IsNode
<1>15. N = [m \in D \cup {upper} |-> N[m]] /\ DOMAIN N = D \cup {upper} /\ N[upper] = up
       /\ \A m \in D : N[m] = M[m]
  BY <1>1, <1>12 DEF Put
<1> HIDE DEF N
<1>16. N[p] = s /\ N[c] = low /\ \A m \in D : m # p /\ m # c => N[m] = t.node[m]
  BY <1>3, <1>12, <1>15 DEF D
<1>17. Nodes(u) = D \cup {upper}
  BY <1>13, <1>15, Zenon DEF Nodes
<1>18. \A m \in D : /\ LockOf(u, m) = LockOf(t, m)
                    /\ m # c => /\ ParentOf(u, m) = ParentOf(t, m) /\ KeyOf(u, m) = KeyOf(t, m)
                                /\ TableOf(u, m) = TableOf(t, m)
                    /\ m # p => KidsOf(u, m) = KidsOf(t, m)
  <2> SUFFICES ASSUME NEW m \in D
               PROVE  /\ LockOf(u, m) = LockOf(t, m)
                      /\ m # c => /\ ParentOf(u, m) = ParentOf(t, m) /\ KeyOf(u, m) = KeyOf(t, m)
                                  /\ TableOf(u, m) = TableOf(t, m)
                      /\ m # p => KidsOf(u, m) = KidsOf(t, m)
    OBVIOUS
  <2>1. CASE m = c
    <3>1. u.node[m] = low
      BY <2>1, <1>13, <1>16, Zenon
    <3>2. LockOf(u, m) = low.lock /\ KidsOf(u, m) = low.children
      BY <3>1, Zenon DEF LockOf, KidsOf
    <3> QED BY <3>2, <2>1, <1>8
  <2>2. CASE m = p
    <3>1. u.node[m] = s
      BY <2>2, <1>13, <1>16, Zenon
    <3>2. LockOf(u, m) = s.lock /\ ParentOf(u, m) = s.parent /\ KeyOf(u, m) = s.key /\ TableOf(u, m) = s.table
      BY <3>1, Zenon DEF LockOf, ParentOf, KeyOf, TableOf
    <3> QED BY <3>2, <2>2, <1>10
  <2>3. CASE m # c /\ m # p
    <3>1. u.node[m] = t.node[m]
      BY <2>3, <1>13, <1>16, Zenon
    <3> QED BY <3>1 DEF ParentOf, KeyOf, TableOf, KidsOf, LockOf
  <2> QED BY <2>1, <2>2, <2>3
<1>19. /\ ParentOf(u, c) = upper /\ KeyOf(u, c) = LowerKey(t, c, j) /\ TableOf(u, c) = LowerTable(t, c, j)
       /\ KidsOf(u, p) = Put(KidsOf(t, p), f, upper)
       /\ ParentOf(u, upper) = p /\ KeyOf(u, upper) = UpperKey(t, c, j)
       /\ TableOf(u, upper) = UpperTable(t, c, j) /\ LockOf(u, upper) = LockOf(t, c)
       /\ KidsOf(u, upper) = Put(<<>>, BlockAt(LowerKey(t, c, j), 0), c)
  <2>1. u.node[c] = low /\ u.node[p] = s /\ u.node[upper] = up
    BY <1>13, <1>15, <1>16, Zenon
  <2>2. ParentOf(u, c) = low.parent /\ KeyOf(u, c) = low.key /\ TableOf(u, c) = low.table
    BY <2>1, Zenon DEF ParentOf, KeyOf, TableOf
  <2>3. KidsOf(u, p) = s.children
    BY <2>1, Zenon DEF KidsOf
  <2>4. /\ ParentOf(u, upper) = up.parent /\ KeyOf(u, upper) = up.key /\ TableOf(u, upper) = up.table
        /\ LockOf(u, upper) = up.lock /\ KidsOf(u, upper) = up.children
    BY <2>1, Zenon DEF ParentOf, KeyOf, TableOf, LockOf, KidsOf
  <2> QED BY <2>2, <2>3, <2>4, <1>7, <1>8, <1>10, <1>11, Zenon
<1>20. NodeMap(u.node, D \cup {upper})
  <2>1. IsFiniteSet(D \cup {upper}) /\ D \cup {upper} \subseteq Nat
    BY <1>1, <1>2, FS_AddElement DEF NodeMap
  <2>2. \A m \in D \cup {upper} : IsNode(N[m])
    <3>1. \A m \in D : IsNode(t.node[m])
      BY <1>2 DEF NodeMap
    <3> QED BY <3>1, <1>10, <1>14, <1>15, <1>16, Zenon
  <2>3. Root \in D /\ Root # c /\ ParentOf(t, Root) = NoParent /\ KeyOf(t, Root) = <<>> /\ TableOf(t, Root) = <<>>
    BY DEF IsTree, D
  <2>4. ParentOf(u, Root) = NoParent /\ KeyOf(u, Root) = <<>> /\ TableOf(u, Root) = <<>>
    BY <2>3, <1>18, Zenon
  <2>5. N[Root].parent = NoParent /\ N[Root].key = <<>> /\ N[Root].table = <<>>
    BY <2>4, <1>13 DEF ParentOf, KeyOf, TableOf
  <2> QED BY <2>1, <2>2, <2>3, <2>5, <1>13, <1>15 DEF NodeMap
<1>21. Splits(t, u, c, upper, j)
  BY <1>17, <1>18, <1>19, Zenon DEF Splits, D, p, f
<1> QED BY <1>13, <1>20, <1>21 DEF D, u, len, SplitMade

\* A key cut after j of its n blocks.
LEMMA CutKey ==
  ASSUME NEW key \in Seq(Int), NEW n \in Nat, Len(key) = Span(n), NEW j \in Nat, 1 <= j, j < n,
         NEW pre, NEW suf, Cuts(key, Span(j), pre, suf)
  PROVE  /\ pre \in Seq(Int) /\ Len(pre) = Span(j) /\ suf \in Seq(Int) /\ Len(suf) = Span(n - j)
         /\ pre \o suf = key /\ BlockAt(pre, 0) = BlockAt(key, 0)
<1> DEFINE i == Span(j)
           E == Int
<1>1. /\ i \in Nat /\ i <= Len(key) /\ BlockSize <= i /\ Span(n - j) = Len(key) - i
      /\ BlockSize \in Nat /\ Len(key) \in Nat
  <2>1. Span(j) \in Nat /\ Span(n) \in Nat /\ Span(1) = BlockSize /\ Span(n - j) = Span(n) - Span(j)
        /\ BlockSize \in Nat
    BY SpanFacts
  <2>2. Span(j) <= Span(n) /\ Span(1) <= Span(j)
    BY SpanOrder
  <2> QED BY <2>1, <2>2
<1>2. key \in Seq(E) /\ Cuts(key, i, pre, suf)
  OBVIOUS
<1> HIDE DEF i, E
<1>3. /\ pre \in Seq(E) /\ Len(pre) = i /\ \A k \in 1 .. i : pre[k] = key[k]
      /\ suf \in Seq(E) /\ Len(suf) = Len(key) - i /\ pre \o suf = key
  <2>1. CutInto(E, key, i, pre, suf)
    BY <1>1, <1>2, CutFacts
  <2> QED BY <2>1 DEF CutInto
<1>4. BlockAt(pre, 0) = BlockAt(key, 0)
  <2>1. IsPart(pre, 0, pre) /\ pre \in Seq(Int)
    <3>1. Len(pre) = 0 + Len(pre) /\ \A k \in 1 .. Len(pre) : pre[0 + k] = pre[k]
      <4>1. Len(pre) \in Nat
        BY <1>1, <1>3
      <4>2. Len(pre) = 0 + Len(pre) /\ \A k \in 1 .. Len(pre) : 0 + k = k
        BY <4>1
      <4> QED BY <4>2
    <3> QED BY <3>1, <1>1, <1>3 DEF IsPart, Tailed, E
  <2>2. 0 + BlockSize <= Len(key) /\ 0 \in Nat
    BY <1>1
  <2>3. Agree(pre, key, 0 + BlockSize)
    <3>1. ASSUME NEW k \in 1 .. 0 + BlockSize PROVE pre[k] = key[k]
      <4>1. k \in 1 .. i
        BY <1>1
      <4> QED BY <4>1, <1>3
    <3> QED BY <3>1 DEF Agree
  <2> QED BY <2>1, <2>2, <2>3, PartsFirstBlock
<1> QED BY <1>1, <1>3, <1>4 DEF i, E

\* What the nodes of a split tree stand for.
SplitSpan(t, a, x, b, a2, x2, b2, c, upper, j) ==
  LET p == ParentOf(t, c)
      D == Nodes(t) \cup {upper}
  IN  /\ a2 = [q \in D |-> IF q = upper THEN a[p] \cup {upper}
                           ELSE IF c \in a[q] THEN a[q] \cup {upper} ELSE a[q]]
      /\ x2 = [q \in D |-> IF q = upper THEN x[p] \o UpperKey(t, c, j) ELSE x[q]]
      /\ b2 = [q \in D |-> IF q = upper THEN b[p] \o UpperTable(t, c, j) ELSE b[q]]

\* Node c of a tree may be split after j of its blocks.
Splittable(t, c, j) == c \in Nodes(t) \ {Root} /\ j \in Nat /\ 1 <= j /\ j < Len(TableOf(t, c))

\* The parts that a split makes.
LEMMA SplitParts ==
  ASSUME NEW t, NEW a, NEW x, NEW b, Shape(t, a, x, b), NEW c, NEW j, Splittable(t, c, j)
  PROVE  /\ UpperKey(t, c, j) \in Seq(Int) /\ LowerKey(t, c, j) \in Seq(Int)
         /\ UpperKey(t, c, j) \o LowerKey(t, c, j) = KeyOf(t, c)
         /\ UpperTable(t, c, j) \in Seq(Block) /\ LowerTable(t, c, j) \in Seq(Block)
         /\ UpperTable(t, c, j) \o LowerTable(t, c, j) = TableOf(t, c)
         /\ Len(UpperTable(t, c, j)) = j /\ Len(UpperKey(t, c, j)) = Span(j)
         /\ Len(LowerTable(t, c, j)) = Len(TableOf(t, c)) - j
         /\ Len(LowerKey(t, c, j)) = Span(Len(TableOf(t, c)) - j)
         /\ BlockAt(UpperKey(t, c, j), 0) = FirstBlock(t, c)
         /\ Len(TableOf(t, c)) \in Nat
<1> DEFINE key == KeyOf(t, c)
           table == TableOf(t, c)
           n == Len(TableOf(t, c))
           pre == UpperKey(t, c, j)
           suf == LowerKey(t, c, j)
<1>1. key \in Seq(Int) /\ table \in Seq(Block) /\ Len(key) = Span(n) /\ n \in Nat /\ j \in Nat /\ 1 <= j /\ j < n
  BY NodeFacts DEF Splittable
<1>2. Cuts(key, Span(j), pre, suf)
  BY DEF Cuts, UpperKey, LowerKey
<1>3. /\ UpperTable(t, c, j) = SubSeq(table, 1, j)
      /\ LowerTable(t, c, j) = SubSeq(table, j + 1, Len(table)) /\ Len(table) = n
  BY DEF UpperTable, LowerTable
<1>4. FirstBlock(t, c) = BlockAt(key, 0)
  BY DEF FirstBlock
<1> HIDE DEF key, table, n, pre, suf
<1>5. /\ pre \in Seq(Int) /\ Len(pre) = Span(j) /\ suf \in Seq(Int) /\ Len(suf) = Span(n - j)
      /\ pre \o suf = key /\ BlockAt(pre, 0) = BlockAt(key, 0)
  BY <1>1, <1>2, CutKey
<1>6. /\ SubSeq(table, 1, j) \in Seq(Block) /\ Len(SubSeq(table, 1, j)) = j
      /\ SubSeq(table, j + 1, Len(table)) \in Seq(Block) /\ Len(SubSeq(table, j + 1, Len(table))) = Len(table) - j
      /\ SubSeq(table, 1, j) \o SubSeq(table, j + 1, Len(table)) = table
  <2> DEFINE E == Block
  <2>1. table \in Seq(E) /\ j \in Nat /\ j <= Len(table)
    BY <1>1, <1>3
  <2> HIDE DEF E
  <2>2. /\ SubSeq(table, 1, j) \in Seq(E) /\ Len(SubSeq(table, 1, j)) = j
        /\ SubSeq(table, j + 1, Len(table)) \in Seq(E) /\ Len(SubSeq(table, j + 1, Len(table))) = Len(table) - j
        /\ SubSeq(table, 1, j) \o SubSeq(table, j + 1, Len(table)) = table
    BY <2>1, Cut
  <2> QED BY <2>2 DEF E
<1>7. /\ UpperTable(t, c, j) \in Seq(Block) /\ Len(UpperTable(t, c, j)) = j
      /\ LowerTable(t, c, j) \in Seq(Block) /\ Len(LowerTable(t, c, j)) = n - j
      /\ UpperTable(t, c, j) \o LowerTable(t, c, j) = table
  BY <1>3, <1>6
<1> QED BY <1>1, <1>4, <1>5, <1>7 DEF key, table, n, pre, suf

\* A split keeps the shape: the tokens down to every old node are the same.
LEMMA SplitShape ==
  ASSUME NEW t, NEW a, NEW x, NEW b, Shape(t, a, x, b), NEW c, NEW j, Splittable(t, c, j),
         NEW upper, upper \notin Nodes(t), NEW u, IsTree(u), Splits(t, u, c, upper, j),
         NEW a2, NEW x2, NEW b2, SplitSpan(t, a, x, b, a2, x2, b2, c, upper, j)
  PROVE  Shape(u, a2, x2, b2)
<1> DEFINE D == Nodes(t)
           p == ParentOf(t, c)
           f == FirstBlock(t, c)
           pre == UpperKey(t, c, j)
           suf == LowerKey(t, c, j)
           top == UpperTable(t, c, j)
           low == LowerTable(t, c, j)
<1>1. /\ IsTree(t) /\ SpanTypes(D, a, x, b)
      /\ \A m \in D : KidsLinked(t, m)
      /\ \A m \in D \ {Root} : Whole(t, m) /\ ChildLinked(t, m) /\ SpannedAt(t, a, x, b, m)
  BY ShapeByNode, Zenon
<1>2. /\ Nodes(u) = D \cup {upper} /\ Root \in D /\ c \in D \ {Root} /\ p \in D
      /\ upper \notin D /\ c # upper /\ upper # Root
  BY <1>1 DEF Splits, IsTree, ChildLinked, Splittable
<1>3. c \notin a[p] /\ p \in a[p] /\ p # c
  <2>1. c \notin a[p]
    BY <1>2, OffParent
  <2>2. p \in a[p]
    BY <1>2, AboveFacts
  <2> QED BY <2>1, <2>2
<1>4. /\ pre \in Seq(Int) /\ suf \in Seq(Int) /\ pre \o suf = KeyOf(t, c)
      /\ top \in Seq(Block) /\ low \in Seq(Block) /\ top \o low = TableOf(t, c)
      /\ BlockAt(pre, 0) = f
  BY SplitParts
<1>5. /\ \A m \in D : /\ m # c => ParentOf(u, m) = ParentOf(t, m) /\ KeyOf(u, m) = KeyOf(t, m)
                                  /\ TableOf(u, m) = TableOf(t, m) /\ FirstBlock(u, m) = FirstBlock(t, m)
                      /\ m # p => KidsOf(u, m) = KidsOf(t, m)
      /\ ParentOf(u, c) = upper /\ KeyOf(u, c) = suf /\ TableOf(u, c) = low
      /\ FirstBlock(u, c) = BlockAt(suf, 0)
      /\ ParentOf(u, upper) = p /\ KeyOf(u, upper) = pre /\ TableOf(u, upper) = top
      /\ FirstBlock(u, upper) = f
      /\ KidsOf(u, p) = Put(KidsOf(t, p), f, upper) /\ KidsOf(u, upper) = Put(<<>>, BlockAt(suf, 0), c)
  BY <1>4 DEF Splits, FirstBlock
<1>6. /\ f \in DOMAIN KidsOf(t, p) /\ KidsOf(t, p)[f] = c
  BY <1>1, <1>2 DEF ChildLinked
<1>7. /\ \A g : g \in DOMAIN KidsOf(u, p) <=> g \in DOMAIN KidsOf(t, p)
      /\ KidsOf(u, p)[f] = upper
      /\ \A g \in DOMAIN KidsOf(t, p) : g # f => KidsOf(u, p)[g] = KidsOf(t, p)[g]
  <2> DEFINE K == KidsOf(t, p)
             L == KidsOf(u, p)
  <2>1. L = Put(K, f, upper) /\ f \in DOMAIN K
    BY <1>5, <1>6
  <2> HIDE DEF K, L, f
  <2>2. /\ \A g : g \in DOMAIN L <=> g \in DOMAIN K
        /\ L[f] = upper
        /\ \A g \in DOMAIN K : g # f => L[g] = K[g]
    BY <2>1 DEF Put
  <2> QED BY <2>2 DEF K, L
<1>8. /\ \A g : g \in DOMAIN KidsOf(u, upper) <=> g = BlockAt(suf, 0)
      /\ KidsOf(u, upper)[BlockAt(suf, 0)] = c
  <2> DEFINE L == KidsOf(u, upper)
             h == BlockAt(suf, 0)
             none == <<>>
  <2>1. L = Put(none, h, c) /\ DOMAIN none = {}
    BY <1>5
  <2> HIDE DEF L, h, none
  <2>2. (\A g : g \in DOMAIN L <=> g = h) /\ L[h] = c
    BY <2>1 DEF Put
  <2> QED BY <2>2 DEF L, h
<1> HIDE DEF f
<1>9. /\ \A q \in D : a2[q] = (IF c \in a[q] THEN a[q] \cup {upper} ELSE a[q]) /\ x2[q] = x[q] /\ b2[q] = b[q]
      /\ a2[upper] = a[p] \cup {upper} /\ x2[upper] = x[p] \o pre /\ b2[upper] = b[p] \o top
  <2> HIDE DEF D, p, pre, top
  <2>1. /\ a2 = [q \in D \cup {upper} |-> IF q = upper THEN a[p] \cup {upper}
                           ELSE IF c \in a[q] THEN a[q] \cup {upper} ELSE a[q]]
        /\ x2 = [q \in D \cup {upper} |-> IF q = upper THEN x[p] \o pre ELSE x[q]]
        /\ b2 = [q \in D \cup {upper} |-> IF q = upper THEN b[p] \o top ELSE b[q]]
    BY DEF SplitSpan, D, p, pre, top
  <2>2. \A q \in D : q \in D \cup {upper} /\ q # upper
    BY <1>2
  <2> QED BY <2>1, <2>2
<1>10. SpanTypes(Nodes(u), a2, x2, b2)
  <2>1. a2 \in [D \cup {upper} -> SUBSET (D \cup {upper})]
    <3>1. \A q \in D : a2[q] \subseteq D \cup {upper}
      <4>1. \A q \in D : a[q] \subseteq D
        BY <1>1 DEF SpanTypes
      <4> HIDE DEF D
      <4> QED BY <4>1, <1>9
    <3>2. a2[upper] \subseteq D \cup {upper}
      BY <1>1, <1>2, <1>9 DEF SpanTypes
    <3>3. a2 = [q \in D \cup {upper} |-> a2[q]]
      BY DEF SplitSpan
    <3> HIDE DEF D
    <3>4. \A q \in D \cup {upper} : a2[q] \in SUBSET (D \cup {upper})
      BY <3>1, <3>2
    <3> QED BY <3>3, <3>4
  <2>2. x2 \in [D \cup {upper} -> Seq(Int)]
    <3>1. \A q \in D : x2[q] \in Seq(Int)
      BY <1>1, <1>9 DEF SpanTypes
    <3>2. x2[upper] \in Seq(Int)
      <4>1. x[p] \in Seq(Int)
        BY <1>1, <1>2 DEF SpanTypes
      <4> QED BY <4>1, <1>4, <1>9
    <3>3. x2 = [q \in D \cup {upper} |-> x2[q]]
      BY DEF SplitSpan
    <3> DEFINE E == Seq(Int)
    <3> HIDE DEF D, E
    <3>4. \A q \in D \cup {upper} : x2[q] \in E
      BY <3>1, <3>2 DEF E
    <3>5. x2 \in [D \cup {upper} -> E]
      BY <3>3, <3>4
    <3> QED BY <3>5 DEF E
  <2>3. b2 \in [D \cup {upper} -> Seq(Block)]
    <3>1. \A q \in D : b2[q] \in Seq(Block)
      BY <1>1, <1>9 DEF SpanTypes
    <3>2. b2[upper] \in Seq(Block)
      <4>1. b[p] \in Seq(Block)
        BY <1>1, <1>2 DEF SpanTypes
      <4> QED BY <4>1, <1>4, <1>9
    <3>3. b2 = [q \in D \cup {upper} |-> b2[q]]
      BY DEF SplitSpan
    <3> DEFINE E == Seq(Block)
    <3> HIDE DEF D, E
    <3>4. \A q \in D \cup {upper} : b2[q] \in E
      BY <3>1, <3>2 DEF E
    <3>5. b2 \in [D \cup {upper} -> E]
      BY <3>3, <3>4
    <3> QED BY <3>5 DEF E
  <2>4. a2[Root] = {Root} /\ x2[Root] = <<>> /\ b2[Root] = <<>>
    BY <1>1, <1>2, <1>9 DEF SpanTypes
  <2> QED BY <1>2, <2>1, <2>2, <2>3, <2>4 DEF SpanTypes
<1> HIDE DEF pre, suf, top, low
<1>11. ASSUME NEW m \in Nodes(u) PROVE KidsLinked(u, m)
  <2>1. CASE m = upper
    BY <2>1, <1>2, <1>5, <1>8 DEF KidsLinked
  <2>2. CASE m \in D /\ m # p
    <3>1. KidsLinked(t, m) /\ KidsOf(u, m) = KidsOf(t, m)
      BY <2>2, <1>1, <1>5
    <3> SUFFICES ASSUME NEW g \in DOMAIN KidsOf(t, m)
                 PROVE  LET d == KidsOf(t, m)[g]
                        IN  d \in Nodes(u) /\ ParentOf(u, d) = m /\ FirstBlock(u, d) = g
      BY <3>1 DEF KidsLinked
    <3> DEFINE d == KidsOf(t, m)[g]
    <3>2. d \in D /\ ParentOf(t, d) = m /\ FirstBlock(t, d) = g
      BY <3>1 DEF KidsLinked
    <3> HIDE DEF d
    <3>3. d # c
      BY <3>2, <2>2
    <3>4. d \in Nodes(u) /\ ParentOf(u, d) = m /\ FirstBlock(u, d) = g
      BY <3>2, <3>3, <1>2, <1>5
    <3> QED BY <3>4 DEF d
  <2>3. CASE m = p
    <3> SUFFICES ASSUME NEW g \in DOMAIN KidsOf(t, p)
                 PROVE  /\ KidsOf(u, p)[g] \in Nodes(u) /\ ParentOf(u, KidsOf(u, p)[g]) = p
                        /\ FirstBlock(u, KidsOf(u, p)[g]) = g
      BY <2>3, <1>7 DEF KidsLinked
    <3>1. CASE g = f
      <4>1. KidsOf(u, p)[g] = upper
        BY <3>1, <1>7
      <4> QED BY <4>1, <3>1, <1>2, <1>5
    <3>2. CASE g # f
      <4> DEFINE d == KidsOf(t, p)[g]
      <4>1. d \in D /\ ParentOf(t, d) = p /\ FirstBlock(t, d) = g
        BY <3>2, <1>1, <1>2 DEF KidsLinked
      <4>2. KidsOf(u, p)[g] = d
        BY <3>2, <1>7
      <4> HIDE DEF d
      <4>3. d # c
        BY <4>1, <3>2 DEF f
      <4> QED BY <4>1, <4>2, <4>3, <1>2, <1>5
    <3> QED BY <3>1, <3>2
  <2> QED BY <2>1, <2>2, <2>3, <1>2
<1>12. ASSUME NEW m \in Nodes(u) \ {Root} PROVE ChildLinked(u, m)
  <2>1. CASE m = upper
    BY <2>1, <1>2, <1>5, <1>6, <1>7 DEF ChildLinked
  <2>2. CASE m = c
    BY <2>2, <1>2, <1>5, <1>8 DEF ChildLinked
  <2>3. CASE m \in D /\ m # c
    <3> DEFINE r == ParentOf(t, m)
               g == FirstBlock(t, m)
    <3>1. r \in D /\ g \in DOMAIN KidsOf(t, r) /\ KidsOf(t, r)[g] = m
      BY <2>3, <1>1 DEF ChildLinked
    <3>2. ParentOf(u, m) = r /\ FirstBlock(u, m) = g
      BY <2>3, <1>5
    <3>3. r = p => g # f
      BY <3>1, <1>6, <2>3
    <3> HIDE DEF r, g
    <3>4. g \in DOMAIN KidsOf(u, r) /\ KidsOf(u, r)[g] = m
      <4>1. CASE r = p
        BY <3>1, <3>3, <4>1, <1>7
      <4>2. CASE r # p
        BY <3>1, <4>2, <1>5
      <4> QED BY <4>1, <4>2
    <3> QED BY <3>1, <3>2, <3>4, <1>2 DEF ChildLinked
  <2> QED BY <2>1, <2>2, <2>3, <1>2
<1>13. ASSUME NEW m \in Nodes(u) \ {Root} PROVE Whole(u, m)
  <2>1. /\ Len(top) = j /\ Len(pre) = Span(j) /\ Len(low) = Len(TableOf(t, c)) - j
        /\ Len(suf) = Span(Len(TableOf(t, c)) - j) /\ j \in Nat /\ 1 <= j /\ j < Len(TableOf(t, c))
        /\ Len(TableOf(t, c)) \in Nat
    BY SplitParts DEF top, pre, low, suf, Splittable
  <2>2. CASE m = upper
    <3>1. top # <<>> /\ Len(pre) = Span(Len(top))
      BY <2>1, <1>4
    <3> QED BY <3>1, <2>2, <1>5 DEF Whole
  <2>3. CASE m = c
    <3>1. low # <<>> /\ Len(suf) = Span(Len(low))
      BY <2>1, <1>4
    <3> QED BY <3>1, <2>3, <1>5 DEF Whole
  <2>4. CASE m \in D /\ m # c
    BY <2>4, <1>1, <1>5 DEF Whole
  <2> QED BY <2>2, <2>3, <2>4, <1>2
<1>14. ASSUME NEW m \in Nodes(u) \ {Root} PROVE SpannedAt(u, a2, x2, b2, m)
  <2>1. CASE m = upper
    <3>1. a2[p] = a[p] /\ x2[p] = x[p] /\ b2[p] = b[p]
      BY <1>2, <1>3, <1>9
    <3> QED BY <2>1, <3>1, <1>5, <1>9 DEF SpannedAt
  <2>2. CASE m = c
    <3>1. SpannedAt(t, a, x, b, c)
      BY <1>1, <1>2
    <3>2. c \in a[c] /\ a2[c] = a[c] \cup {upper} /\ x2[c] = x[c] /\ b2[c] = b[c]
      BY <1>2, <1>9, <3>1 DEF SpannedAt
    <3>3. a2[c] = a2[upper] \cup {c}
      BY <3>1, <3>2, <1>9 DEF SpannedAt
    <3>4. x2[c] = x2[upper] \o suf
      <4>1. x[p] \in Seq(Int)
        BY <1>1, <1>2 DEF SpanTypes
      <4> DEFINE s == x[p]
                 E == Int
      <4>2. s \in Seq(E) /\ pre \in Seq(E) /\ suf \in Seq(E)
        BY <4>1, <1>4
      <4>3. x[c] = s \o (pre \o suf)
        BY <3>1, <1>4 DEF SpannedAt, p
      <4>4. x2[upper] = s \o pre
        BY <1>9
      <4> HIDE DEF s, E
      <4>5. (s \o pre) \o suf = s \o (pre \o suf)
        BY <4>2, ConcatAssociative
      <4> QED BY <4>3, <4>4, <4>5, <3>2
    <3>5. b2[c] = b2[upper] \o low
      <4>1. b[p] \in Seq(Block)
        BY <1>1, <1>2 DEF SpanTypes
      <4> DEFINE s == b[p]
                 E == Block
      <4>2. s \in Seq(E) /\ top \in Seq(E) /\ low \in Seq(E)
        BY <4>1, <1>4
      <4>3. b[c] = s \o (top \o low)
        BY <3>1, <1>4 DEF SpannedAt, p
      <4>4. b2[upper] = s \o top
        BY <1>9
      <4> HIDE DEF s, E
      <4>5. (s \o top) \o low = s \o (top \o low)
        BY <4>2, ConcatAssociative
      <4> QED BY <4>3, <4>4, <4>5, <3>2
    <3> QED BY <2>2, <3>3, <3>4, <3>5, <1>5 DEF SpannedAt
  <2>3. CASE m \in D /\ m # c
    <3> DEFINE r == ParentOf(t, m)
    <3>1. r \in D /\ SpannedAt(t, a, x, b, m) /\ ParentOf(u, m) = r /\ KeyOf(u, m) = KeyOf(t, m)
          /\ TableOf(u, m) = TableOf(t, m)
      BY <2>3, <1>1, <1>5 DEF ChildLinked
    <3>2. a[m] = a[r] \cup {m} /\ x[m] = x[r] \o KeyOf(t, m) /\ b[m] = b[r] \o TableOf(t, m)
      BY <3>1 DEF SpannedAt
    <3> HIDE DEF r
    <3>3. c \in a[m] <=> c \in a[r]
      BY <3>2, <2>3
    <3>4. a2[m] = a2[r] \cup {m}
      BY <3>1, <3>2, <3>3, <2>3, <1>9
    <3>5. x2[m] = x[m] /\ x2[r] = x[r] /\ b2[m] = b[m] /\ b2[r] = b[r]
      BY <3>1, <2>3, <1>9
    <3> QED BY <3>1, <3>2, <3>4, <3>5 DEF SpannedAt
  <2> QED BY <2>1, <2>2, <2>3, <1>2
<1> QED BY <1>10, <1>11, <1>12, <1>13, <1>14, ShapeByNode, Zenon

\* A node is split: the tree has the upper node, and its list is right.
LEMMA SplitFacts ==
  ASSUME NEW t, NEW a, NEW x, NEW b, Shape(t, a, x, b), ListOK(t), NEW c, NEW j, Splittable(t, c, j),
         NEW upper, upper = FreshNode(t)
  PROVE  LET u == SplitNode(t, c, Span(j))
         IN  IsTree(u) /\ ListOK(u) /\ Splits(t, u, c, upper, j)
<1> DEFINE D == Nodes(t)
           moved == MovedUp(t, c, Span(j))
           pins == t.node[c].lock
           u == SplitInto(t, c, Span(j), pins, moved)
           p == ParentOf(t, c)
<1>1. SplitNode(t, c, Span(j)) = u
  BY DEF SplitNode
<1>2. c \in D \ {Root} /\ j \in Nat /\ 1 <= j /\ j < Len(TableOf(t, c)) /\ IsTree(t)
  BY DEF Splittable, Shape
<1>3. Span(j) <= Len(KeyOf(t, c)) /\ Len(TableOf(t, c)) \in Nat
  <2>1. Len(KeyOf(t, c)) = Span(Len(TableOf(t, c))) /\ Len(TableOf(t, c)) \in Nat
    BY <1>2, NodeFacts, SplitParts
  <2> QED BY <1>2, <2>1, SpanOrder
<1>4. p \in D \ {c}
  <2>1. p \in D
    BY <1>2, ChildFacts
  <2>2. c \notin a[p] /\ p \in a[p]
    BY <1>2, <2>1, OffParent, AboveFacts
  <2> QED BY <2>1, <2>2
<1>5. moved = IF Contains(t.lru, c) THEN j ELSE 0
  BY <1>2, BlocksIn DEF MovedUp, InLru
<1>6. pins = LockOf(t, c)
  BY DEF LockOf
<1>7. /\ NodeMap(u.node, D \cup {upper}) /\ Splits(t, u, c, upper, j)
      /\ u = [node |-> u.node, lru |-> t.lru, evictable |-> t.evictable - moved]
  <2> HIDE DEF moved, pins
  <2>1. j <= Len(TableOf(t, c))
    BY <1>2, <1>3
  <2>2. /\ IsTree(t) /\ c \in Nodes(t) \ {Root} /\ ParentOf(t, c) \in Nodes(t) \ {c}
        /\ j \in Nat /\ Span(j) <= Len(KeyOf(t, c))
    BY <1>2, <1>3, <1>4
  <2>3. SplitMade(t, u, c, upper, j, moved)
    BY <1>6, <2>1, <2>2, SplitNodes
  <2> QED BY <2>3 DEF SplitMade
<1> HIDE DEF moved, pins, u
<1>8. upper \in Nat \ {0} /\ upper \notin D
  BY <1>2, FreshNodeFacts
<1>9. t.lru \in Seq(D) /\ t.evictable \in Int /\ moved \in Int
  <2>1. t.lru \in Seq(D) /\ t.evictable \in Int
    BY <1>2, TreeParts
  <2>2. moved \in Int
    BY <1>2, <1>5
  <2> QED BY <2>1, <2>2
<1>10. IsTree(u) /\ Nodes(u) = D \cup {upper} /\ u.lru = t.lru /\ u.evictable = t.evictable - moved
  <2> DEFINE N == u.node
             E == D \cup {upper}
             l == t.lru
             e == t.evictable - moved
  <2>1. NodeMap(N, E) /\ l \in Seq(E) /\ e \in Int
    <3>1. l \in Seq(E)
      BY <1>9
    <3> QED BY <3>1, <1>7, <1>9
  <2>2. u = [node |-> N, lru |-> l, evictable |-> e]
    BY <1>7
  <2> HIDE DEF N, E, l, e
  <2>3. IsTree(u) /\ Nodes(u) = E /\ u.lru = l /\ u.evictable = e
    BY <2>1, <2>2, MadeTree
  <2> QED BY <2>3 DEF E, l, e
<1>11. u.evictable = Total(Sizes(u), u.lru)
  <2> DEFINE G == Sizes(t)
             H == Sizes(u)
             l == t.lru
  <2>1. G \in [Nat -> Int] /\ H \in [Nat -> Int] /\ l \in Seq(Nat) /\ c \in Nat /\ NoDuplicates(l)
    BY <1>2, <1>10, SizesFacts DEF ListOK, IsTree
  <2>2. ASSUME NEW n \in ToSet(l), n # c PROVE H[n] = G[n]
    <3>1. n \in D
      BY <1>9 DEF ToSet
    <3>2. TableOf(u, n) = TableOf(t, n) /\ n \in Nodes(u)
      BY <2>2, <3>1, <1>7, <1>10 DEF Splits
    <3>3. G[n] = Len(TableOf(t, n)) /\ H[n] = Len(TableOf(u, n))
      BY <3>1, <3>2, <1>2, <1>10, SizesFacts
    <3> QED BY <3>2, <3>3
  <2>3. H[c] = G[c] - j
    <3>1. G[c] = Len(TableOf(t, c)) /\ H[c] = Len(TableOf(u, c))
      BY <1>2, <1>10, SizesFacts
    <3>2. TableOf(u, c) = LowerTable(t, c, j)
      BY <1>7 DEF Splits
    <3>3. Len(LowerTable(t, c, j)) = Len(TableOf(t, c)) - j
      BY SplitParts
    <3> QED BY <3>1, <3>2, <3>3
  <2>4. Total(G, l) = t.evictable
    BY DEF ListOK
  <2> HIDE DEF G, H, l
  <2>5. Total(H, l) = Total(G, l) - (IF Contains(l, c) THEN j ELSE 0)
    <3>1. LessAt(G, H, l, c, j)
      BY <2>2, <2>3 DEF LessAt
    <3>2. LessSum(G, H, l, c, j)
      BY <1>2, <2>1, <3>1, LessAtOne
    <3> QED BY <3>2 DEF LessSum
  <2> QED BY <1>5, <1>10, <2>4, <2>5 DEF H, l
<1>12. Listed(u) = Listed(t)
  <2>1. DOMAIN KidsOf(u, p) # {} /\ DOMAIN KidsOf(u, upper) # {}
    <3> DEFINE f == KidsOf(t, p)
               k == BlockAt(UpperKey(t, c, j), 0)
               h == BlockAt(LowerKey(t, c, j), 0)
               none == <<>>
    <3>1. KidsOf(u, p) = Put(f, k, upper) /\ KidsOf(u, upper) = Put(none, h, c)
      BY <1>7 DEF Splits
    <3> HIDE DEF f, k, h, none
    <3>2. k \in DOMAIN Put(f, k, upper) /\ h \in DOMAIN Put(none, h, c)
      BY DEF Put
    <3> QED BY <3>1, <3>2
  <2>2. \A m \in D : LockOf(u, m) = LockOf(t, m) /\ (m # p => KidsOf(u, m) = KidsOf(t, m))
    BY <1>7 DEF Splits
  <2>3. p \notin Listed(u) /\ upper \notin Listed(u)
    BY <2>1 DEF Listed
  <2>4. p \notin Listed(t)
    <3>1. p \in D /\ FirstBlock(t, c) \in DOMAIN KidsOf(t, p)
      <4>1. LinksExact(t)
        BY DEF Shape
      <4> QED BY <1>2, <4>1, LinkFacts
    <3> QED BY <3>1 DEF Listed
  <2>5. ASSUME NEW m \in D, m # p PROVE m \in Listed(u) <=> m \in Listed(t)
    <3>1. LockOf(u, m) = LockOf(t, m) /\ KidsOf(u, m) = KidsOf(t, m) /\ m \in Nodes(u)
      BY <2>2, <2>5, <1>10
    <3> QED BY <3>1, Zenon DEF Listed
  <2>6. Listed(u) \subseteq D \cup {upper} /\ Listed(t) \subseteq D
    BY <1>10 DEF Listed
  <2>7. upper \notin D
    BY <1>8
  <2> HIDE DEF D
  <2> QED BY <2>3, <2>4, <2>5, <2>6, <2>7
<1>13. ListOK(u)
  BY <1>10, <1>11, <1>12 DEF ListOK
<1> QED BY <1>1, <1>7, <1>10, <1>13

(* The state invariant.                                                    *)
\* The running ones of some clients, those with a block in their table, and
\* those whose match ended at a node or below it.
RunningIn(cl)      == {c \in Client : cl[c].running}
Holders(cl, e)     == {c \in RunningIn(cl) : Contains(cl[c].table, e)}
PinsAt(a, y, n)    == y # NoParent /\ n \in a[y]
Pinners(cl, a, n)  == {c \in RunningIn(cl) : PinsAt(a, cl[c].node, n)}

\* The tree records the block, and records no block twice.
InTree(t, e) == \E n \in Nodes(t) : Contains(TableOf(t, n), e)
Separate(t)  == \A n, q \in Nodes(t) : \A e \in Block :
                  Contains(TableOf(t, n), e) /\ Contains(TableOf(t, q), e) => n = q

\* What a request holds: as many blocks as its tokens need, the first of them
\* those of the nodes it matched and pins, the others in no node.
Matches(k, t, x, b) ==
  IF k.matched = 0 THEN k.node = NoParent
  ELSE /\ k.node \in Nodes(t) \ {Root} /\ k.matched <= Len(b[k.node])
       /\ Agree(x[k.node], k.tokens, Span(k.matched))
       /\ \A i \in 1 .. k.matched : k.table[i] = b[k.node][i]
ClientOK(k, t, x, b) ==
  /\ k.tokens \in TokenSeqs /\ k.table \in Table /\ k.matched \in Nat
  /\ Len(k.table) = BlocksNeeded(Len(k.tokens)) /\ Span(k.matched) < Len(k.tokens)
  /\ Matches(k, t, x, b)
  /\ \A i \in k.matched + 1 .. Len(k.table) : ~InTree(t, k.table[i])

\* Two requests share a block only through the tree.
Apart2(k, l, t) == \A e \in Block : Contains(k.table, e) /\ Contains(l.table, e) => InTree(t, e)
Placed(t, cl, x, b) ==
  /\ cl = [c \in Client |-> cl[c]] /\ IsFiniteSet(RunningIn(cl))
  /\ Separate(t)
  /\ \A n \in Nodes(t) : Told(x[n])
  /\ \A c \in RunningIn(cl) : ClientOK(cl[c], t, x, b)
  /\ \A c, d \in RunningIn(cl) : c # d => Apart2(cl[c], cl[d], t)

\* The KV in the blocks of the tree and of a request is that of their tokens.
TreeStored(t, ct, x, b) ==
  \A n \in Nodes(t) : \A i \in 1 .. Len(b[n]) : ct[b[n][i]] = SubSeq(x[n], 1, Span(i))
ClientStored(k, ct) == \A i \in 1 .. Len(k.table) : ct[k.table[i]] = PrefixTo(k.tokens, i)
Stored(t, cl, ct, x, b) ==
  TreeStored(t, ct, x, b) /\ \A c \in RunningIn(cl) : ClientStored(cl[c], ct)

\* The counts, while a table and a pinned node are in the hands of a step: the
\* request it admits or releases has the first, and is not among the clients.
RefAt(t, cl, table, e) == (IF InTree(t, e) THEN 1 ELSE 0) + (IF Contains(table, e) THEN 1 ELSE 0)
                          + Cardinality(Holders(cl, e))
PinAt(a, cl, y, n)     == (IF n = Root THEN 1 ELSE 0) + (IF PinsAt(a, y, n) THEN 1 ELSE 0)
                          + Cardinality(Pinners(cl, a, n))
Refs(t, p, cl, table) == \A e \in Block : p.ref_cnt[e] = RefAt(t, cl, table, e)
Pins(t, a, cl, y)     == \A n \in Nodes(t) : LockOf(t, n) = PinAt(a, cl, y, n)
InHand(t, table, y)   == table \in Table /\ y \in Nodes(t) \cup {NoParent}
Base(t, p, cl, ct, a, x, b, table, y) ==
  /\ Shape(t, a, x, b) /\ ListOK(t) /\ PoolOK(p)
  /\ Placed(t, cl, x, b) /\ Stored(t, cl, ct, x, b)
  /\ InHand(t, table, y) /\ Refs(t, p, cl, table) /\ Pins(t, a, cl, y)

-----------------------------------------------------------------------------
LEMMA Counts ==
  ASSUME NEW cl, IsFiniteSet(RunningIn(cl))
  PROVE  /\ \A e : Cardinality(Holders(cl, e)) \in Nat
         /\ \A e : Cardinality(Holders(cl, e)) = 0 <=> Holders(cl, e) = {}
         /\ \A a, n : Cardinality(Pinners(cl, a, n)) \in Nat
         /\ \A a, n : Cardinality(Pinners(cl, a, n)) = 0 <=> Pinners(cl, a, n) = {}
<1>1. ASSUME NEW e
      PROVE  Cardinality(Holders(cl, e)) \in Nat /\ (Cardinality(Holders(cl, e)) = 0 <=> Holders(cl, e) = {})
  <2>1. Holders(cl, e) \subseteq RunningIn(cl)
    BY DEF Holders
  <2>2. IsFiniteSet(Holders(cl, e))
    BY <2>1, FS_Subset
  <2> QED BY <2>2, FS_CardinalityType, FS_EmptySet
<1>2. ASSUME NEW a, NEW n
      PROVE  Cardinality(Pinners(cl, a, n)) \in Nat
             /\ (Cardinality(Pinners(cl, a, n)) = 0 <=> Pinners(cl, a, n) = {})
  <2>1. Pinners(cl, a, n) \subseteq RunningIn(cl)
    BY DEF Pinners
  <2>2. IsFiniteSet(Pinners(cl, a, n))
    BY <2>1, FS_Subset
  <2> QED BY <2>2, FS_CardinalityType, FS_EmptySet
<1> QED BY <1>1, <1>2

\* What leaves the tables alone leaves the blocks that are in the tree.
LEMMA AlikeInTree ==
  ASSUME NEW t, NEW u, Alike(t, u)
  PROVE  \A e : InTree(u, e) <=> InTree(t, e)
BY Zenon DEF Alike, InTree

\* Where things are does not depend on pins and list.
LEMMA AlikePlaced ==
  ASSUME NEW t, NEW u, Alike(t, u), NEW cl, NEW ct, NEW x, NEW b, Placed(t, cl, x, b), Stored(t, cl, ct, x, b)
  PROVE  Placed(u, cl, x, b) /\ Stored(u, cl, ct, x, b)
<1>1. Nodes(u) = Nodes(t) /\ \A n \in Nodes(t) : TableOf(u, n) = TableOf(t, n)
  BY DEF Alike
<1>2. \A e : InTree(u, e) <=> InTree(t, e)
  BY AlikeInTree
<1>3. Separate(u)
  BY <1>1, Zenon DEF Placed, Separate
<1>4. ASSUME NEW k, ClientOK(k, t, x, b) PROVE ClientOK(k, u, x, b)
  <2>1. Matches(k, u, x, b)
    BY <1>1, <1>4, Zenon DEF ClientOK, Matches
  <2> QED BY <2>1, <1>2, <1>4, Zenon DEF ClientOK
<1>5. \A k, l : Apart2(k, l, t) => Apart2(k, l, u)
  BY <1>2, Zenon DEF Apart2
<1>6. Placed(u, cl, x, b)
  BY <1>1, <1>3, <1>4, <1>5, Zenon DEF Placed
<1>7. Stored(u, cl, ct, x, b)
  BY <1>1, Zenon DEF Stored, TreeStored
<1> QED BY <1>6, <1>7

\* What a step on pins and list alone has to show.
LEMMA AlikeBase ==
  ASSUME NEW t, NEW p, NEW cl, NEW ct, NEW a, NEW x, NEW b, NEW table, NEW y,
         Base(t, p, cl, ct, a, x, b, table, y), NEW u, IsTree(u), ListOK(u), Alike(t, u),
         NEW z \in Nodes(t) \cup {NoParent}, Pins(u, a, cl, z)
  PROVE  Base(u, p, cl, ct, a, x, b, table, z)
<1>1. Shape(u, a, x, b)
  BY AlikeShape DEF Base
<1>2. Placed(u, cl, x, b) /\ Stored(u, cl, ct, x, b)
  BY AlikePlaced DEF Base
<1>3. Refs(u, p, cl, table)
  <2>1. \A e : InTree(u, e) <=> InTree(t, e)
    BY AlikeInTree
  <2>2. ASSUME NEW e \in Block PROVE RefAt(u, cl, table, e) = RefAt(t, cl, table, e)
    BY <2>1 DEF RefAt
  <2> QED BY <2>2 DEF Base, Refs
<1>4. InHand(u, table, z)
  BY DEF Base, InHand, Alike
<1> QED BY <1>1, <1>2, <1>3, <1>4 DEF Base

\* Touching the nodes of a match.
LEMMA KeptBase ==
  ASSUME NEW t, NEW p, NEW cl, NEW ct, NEW a, NEW x, NEW b, NEW table, NEW y,
         Base(t, p, cl, ct, a, x, b, table, y), NEW refresh, NEW u, Kept(t, refresh, u)
  PROVE  Base(u, p, cl, ct, a, x, b, table, y)
<1>1. u.node = t.node /\ IsTree(u) /\ ListOK(u)
  BY DEF Kept
<1>2. Alike(t, u) /\ \A n \in Nodes(t) : LockOf(u, n) = LockOf(t, n)
  BY <1>1 DEF Alike, Nodes, ParentOf, KeyOf, TableOf, KidsOf, LockOf
<1>3. Pins(u, a, cl, y)
  BY <1>2 DEF Base, Pins, Alike
<1>4. y \in Nodes(t) \cup {NoParent}
  BY DEF Base, InHand
<1> QED BY <1>1, <1>2, <1>3, <1>4, AlikeBase

\* NoParent is no node.
LEMMA NodesNatural ==
  ASSUME NEW t, NEW a, NEW x, NEW b, Shape(t, a, x, b)
  PROVE  NoParent \notin Nodes(t) /\ \A n \in Nodes(t) : n # NoParent
BY DEF Shape, IsTree, NoParent

\* The pin of a step is taken,
LEMMA PinBase ==
  ASSUME NEW t, NEW p, NEW cl, NEW ct, NEW a, NEW x, NEW b, NEW table,
         Base(t, p, cl, ct, a, x, b, table, NoParent), NEW m \in Nodes(t)
  PROVE  Base(IncLockRef(t, m), p, cl, ct, a, x, b, table, m)
<1> DEFINE u == IncLockRef(t, m)
<1>1. /\ IsTree(u) /\ ListOK(u) /\ Alike(t, u)
      /\ \A q \in Nodes(t) : LockOf(u, q) = IF q \in a[m] THEN LockOf(t, q) + 1 ELSE LockOf(t, q)
  BY IncFacts DEF Base
<1> HIDE DEF u
<1>2. m # NoParent
  BY NodesNatural DEF Base
<1>3. Pins(u, a, cl, m)
  <2> SUFFICES ASSUME NEW q \in Nodes(t) PROVE LockOf(u, q) = PinAt(a, cl, m, q)
    BY <1>1 DEF Pins, Alike
  <2> DEFINE k == Cardinality(Pinners(cl, a, q))
  <2>1. k \in Nat
    BY Counts DEF Base, Placed
  <2>2. LockOf(t, q) = (IF q = Root THEN 1 ELSE 0) + k
    <3>1. LockOf(t, q) = PinAt(a, cl, NoParent, q) /\ ~PinsAt(a, NoParent, q)
      BY DEF Base, Pins, PinsAt
    <3> HIDE DEF k
    <3>2. LockOf(t, q) = (IF q = Root THEN 1 ELSE 0) + 0 + k
      BY <3>1 DEF PinAt, k
    <3> QED BY <2>1, <3>2
  <2>3. PinsAt(a, m, q) <=> q \in a[m]
    BY <1>2 DEF PinsAt
  <2>4. PinAt(a, cl, m, q) = (IF q = Root THEN 1 ELSE 0) + (IF q \in a[m] THEN 1 ELSE 0) + k
    BY <2>3 DEF PinAt
  <2> HIDE DEF k
  <2> QED BY <1>1, <2>1, <2>2, <2>4
<1>4. m \in Nodes(t) \cup {NoParent}
  OBVIOUS
<1> QED BY <1>1, <1>3, <1>4, AlikeBase DEF u

\* The blocks u records are those of t, or some of them.
SameBlocks(t, u)  == \A e : InTree(u, e) <=> InTree(t, e)
FewerBlocks(t, u) == \A e : InTree(u, e) => InTree(t, e)

\* and given back.
LEMMA UnpinBase ==
  ASSUME NEW t, NEW p, NEW cl, NEW ct, NEW a, NEW x, NEW b, NEW table, NEW m \in Nodes(t),
         Base(t, p, cl, ct, a, x, b, table, m)
  PROVE  Base(DecLockRef(t, m), p, cl, ct, a, x, b, table, NoParent) /\ SameBlocks(t, DecLockRef(t, m))
<1> DEFINE u == DecLockRef(t, m)
<1>1. m # NoParent
  BY NodesNatural DEF Base
<1>2. ASSUME NEW q \in Nodes(t)
      PROVE  /\ LockOf(t, q) = (IF q = Root THEN 1 ELSE 0) + (IF q \in a[m] THEN 1 ELSE 0)
                               + Cardinality(Pinners(cl, a, q))
             /\ PinAt(a, cl, NoParent, q) = (IF q = Root THEN 1 ELSE 0) + 0 + Cardinality(Pinners(cl, a, q))
             /\ Cardinality(Pinners(cl, a, q)) \in Nat
  <2>1. PinsAt(a, m, q) <=> q \in a[m]
    BY <1>1 DEF PinsAt
  <2>2. ~PinsAt(a, NoParent, q)
    BY DEF PinsAt
  <2>3. Cardinality(Pinners(cl, a, q)) \in Nat
    BY Counts DEF Base, Placed
  <2>4. LockOf(t, q) = PinAt(a, cl, m, q)
    BY DEF Base, Pins
  <2> QED BY <2>1, <2>2, <2>3, <2>4 DEF PinAt
<1>3. \A q \in a[m] : LockOf(t, q) >= IF q = Root THEN 2 ELSE 1
  <2> SUFFICES ASSUME NEW q \in a[m] PROVE LockOf(t, q) >= IF q = Root THEN 2 ELSE 1
    OBVIOUS
  <2>1. q \in Nodes(t)
    BY NodeFacts DEF Base
  <2> DEFINE k == Cardinality(Pinners(cl, a, q))
  <2>2. LockOf(t, q) = (IF q = Root THEN 1 ELSE 0) + 1 + k /\ k \in Nat
    BY <1>2, <2>1
  <2> HIDE DEF k
  <2> QED BY <2>2
<1>4. /\ IsTree(u) /\ ListOK(u) /\ Alike(t, u)
      /\ \A q \in Nodes(t) : LockOf(u, q) = IF q \in a[m] THEN LockOf(t, q) - 1 ELSE LockOf(t, q)
  BY <1>3, DecFacts DEF Base
<1> HIDE DEF u
<1>5. Pins(u, a, cl, NoParent)
  <2> SUFFICES ASSUME NEW q \in Nodes(t) PROVE LockOf(u, q) = PinAt(a, cl, NoParent, q)
    BY <1>4 DEF Pins, Alike
  <2> DEFINE k == Cardinality(Pinners(cl, a, q))
  <2>1. /\ LockOf(t, q) = (IF q = Root THEN 1 ELSE 0) + (IF q \in a[m] THEN 1 ELSE 0) + k
        /\ PinAt(a, cl, NoParent, q) = (IF q = Root THEN 1 ELSE 0) + 0 + k
        /\ k \in Nat
    BY <1>2
  <2>2. LockOf(u, q) = IF q \in a[m] THEN LockOf(t, q) - 1 ELSE LockOf(t, q)
    BY <1>4
  <2> HIDE DEF k
  <2> QED BY <2>1, <2>2
<1>6. NoParent \in Nodes(t) \cup {NoParent}
  OBVIOUS
<1>7. SameBlocks(t, u)
  BY <1>4, AlikeInTree DEF SameBlocks
<1> QED BY <1>4, <1>5, <1>6, <1>7, AlikeBase DEF u

\* The references of the table in hand are given back.
LEMMA FreeBase ==
  ASSUME NEW t, NEW p, NEW cl, NEW ct, NEW a, NEW x, NEW b, NEW table, NEW y,
         Base(t, p, cl, ct, a, x, b, table, y)
  PROVE  Free(p, table).ok /\ Base(t, Free(p, table).pool, cl, ct, a, x, b, <<>>, y)
<1> DEFINE q == Free(p, table).pool
           none == <<>>
<1>1. none \in Table /\ \A e : ~Contains(none, e)
  BY NoBlocks
<1> HIDE DEF none
<1>2. ASSUME NEW e \in Block
      PROVE  /\ p.ref_cnt[e] = (IF InTree(t, e) THEN 1 ELSE 0) + (IF Contains(table, e) THEN 1 ELSE 0)
                               + Cardinality(Holders(cl, e))
             /\ RefAt(t, cl, none, e) = (IF InTree(t, e) THEN 1 ELSE 0) + 0 + Cardinality(Holders(cl, e))
             /\ Cardinality(Holders(cl, e)) \in Nat
  <2>1. p.ref_cnt[e] = RefAt(t, cl, table, e)
    BY DEF Base, Refs
  <2>2. Cardinality(Holders(cl, e)) \in Nat
    BY Counts DEF Base, Placed
  <2> QED BY <2>1, <2>2, <1>1 DEF RefAt
<1>3. \A e \in Block : Contains(table, e) => p.ref_cnt[e] >= 1
  <2> SUFFICES ASSUME NEW e \in Block, Contains(table, e) PROVE p.ref_cnt[e] >= 1
    OBVIOUS
  <2> DEFINE k == Cardinality(Holders(cl, e))
  <2>1. p.ref_cnt[e] = (IF InTree(t, e) THEN 1 ELSE 0) + 1 + k /\ k \in Nat
    BY <1>2
  <2> HIDE DEF k
  <2> QED BY <2>1
<1>4. /\ Free(p, table).ok /\ PoolOK(q)
      /\ \A e \in Block : q.ref_cnt[e] = IF Contains(table, e) THEN p.ref_cnt[e] - 1 ELSE p.ref_cnt[e]
  BY <1>3, FreeTable DEF Base, InHand
<1> HIDE DEF q
<1>5. Refs(t, q, cl, none)
  <2> SUFFICES ASSUME NEW e \in Block PROVE q.ref_cnt[e] = RefAt(t, cl, none, e)
    BY DEF Refs
  <2> DEFINE k == Cardinality(Holders(cl, e))
             r == p.ref_cnt[e]
             s == q.ref_cnt[e]
             w == RefAt(t, cl, none, e)
  <2>1. /\ r = (IF InTree(t, e) THEN 1 ELSE 0) + (IF Contains(table, e) THEN 1 ELSE 0) + k
        /\ w = (IF InTree(t, e) THEN 1 ELSE 0) + 0 + k
        /\ k \in Nat /\ s = IF Contains(table, e) THEN r - 1 ELSE r
    BY <1>2, <1>4
  <2> HIDE DEF k, r, s, w
  <2>2. s = w
    BY <2>1
  <2> QED BY <2>2 DEF s, w
<1>6. InHand(t, none, y)
  BY <1>1 DEF Base, InHand
<1>7. Base(t, q, cl, ct, a, x, b, none, y)
  BY <1>4, <1>5, <1>6 DEF Base
<1> QED BY <1>4, <1>7 DEF none, q

\* Some clients without one of them, and with one of them holding k.
Without(cl, c) == [cl EXCEPT ![c] = NoClient]

\* What the step that releases or admits a request has of it.
Hand(t, cl, ct, x, b, k) ==
  /\ ClientOK(k, t, x, b) /\ ClientStored(k, ct)
  /\ \A d \in RunningIn(cl) : Apart2(k, cl[d], t)

\* The clients without one that ran.
LEMMA WithoutFacts ==
  ASSUME NEW cl, cl = [k \in Client |-> cl[k]], NEW c \in RunningIn(cl), NEW l, l = Without(cl, c)
  PROVE  /\ l = [k \in Client |-> l[k]]
         /\ RunningIn(l) = RunningIn(cl) \ {c}
         /\ \A d \in RunningIn(l) : l[d] = cl[d]
         /\ \A e : Holders(l, e) = Holders(cl, e) \ {c}
         /\ \A a, n : Pinners(l, a, n) = Pinners(cl, a, n) \ {c}
<1>1. c \in Client
  BY DEF RunningIn
<1>2. l = [k \in Client |-> l[k]] /\ l[c] = NoClient /\ \A d \in Client : d # c => l[d] = cl[d]
  BY <1>1 DEF Without
<1>3. ~l[c].running
  BY <1>2 DEF NoClient
<1>4. RunningIn(l) = RunningIn(cl) \ {c}
  BY <1>2, <1>3, Zenon DEF RunningIn
<1>5. \A d \in RunningIn(l) : l[d] = cl[d]
  BY <1>2, <1>4 DEF RunningIn
<1>6. \A e : Holders(l, e) = Holders(cl, e) \ {c}
  BY <1>4, <1>5, Zenon DEF Holders
<1>7. \A a, n : Pinners(l, a, n) = Pinners(cl, a, n) \ {c}
  BY <1>4, <1>5, Zenon DEF Pinners
<1> QED BY <1>2, <1>4, <1>5, <1>6, <1>7

\* l is cl with c running as r.
Grown(cl, l, c, r) ==
  /\ l = [k \in Client |-> l[k]] /\ l[c] = r
  /\ RunningIn(l) = RunningIn(cl) \cup {c}
  /\ \A d \in RunningIn(cl) : l[d] = cl[d]
  /\ \A e : Holders(l, e) = IF Contains(r.table, e) THEN Holders(cl, e) \cup {c} ELSE Holders(cl, e)
  /\ \A a, n : Pinners(l, a, n) = IF PinsAt(a, r.node, n) THEN Pinners(cl, a, n) \cup {c}
                                  ELSE Pinners(cl, a, n)

\* The clients with one more that runs.
LEMMA WithFacts ==
  ASSUME NEW cl, cl = [k \in Client |-> cl[k]], NEW c \in Client \ RunningIn(cl), NEW r, r.running,
         NEW l, l = Joining(cl, c, r)
  PROVE  Grown(cl, l, c, r)
<1>1. l = [k \in Client |-> l[k]] /\ l[c] = r /\ \A d \in Client : d # c => l[d] = cl[d]
  BY DEF Joining
<1>2. RunningIn(l) = RunningIn(cl) \cup {c}
  BY <1>1, Zenon DEF RunningIn
<1>3. \A d \in RunningIn(cl) : d # c /\ l[d] = cl[d]
  BY <1>1 DEF RunningIn
<1>4. ASSUME NEW e
      PROVE  Holders(l, e) = IF Contains(r.table, e) THEN Holders(cl, e) \cup {c} ELSE Holders(cl, e)
  <2>1. \A d \in RunningIn(cl) : d \in Holders(l, e) <=> d \in Holders(cl, e)
    BY <1>2, <1>3, Zenon DEF Holders
  <2>2. c \in Holders(l, e) <=> Contains(r.table, e)
    BY <1>1, <1>2, Zenon DEF Holders
  <2>3. Holders(l, e) \subseteq RunningIn(cl) \cup {c} /\ Holders(cl, e) \subseteq RunningIn(cl)
    BY <1>2 DEF Holders
  <2> QED BY <2>1, <2>2, <2>3
<1>5. ASSUME NEW a, NEW n
      PROVE  Pinners(l, a, n) = IF PinsAt(a, r.node, n) THEN Pinners(cl, a, n) \cup {c} ELSE Pinners(cl, a, n)
  <2>1. \A d \in RunningIn(cl) : d \in Pinners(l, a, n) <=> d \in Pinners(cl, a, n)
    BY <1>2, <1>3, Zenon DEF Pinners
  <2>2. c \in Pinners(l, a, n) <=> PinsAt(a, r.node, n)
    BY <1>1, <1>2, Zenon DEF Pinners
  <2>3. Pinners(l, a, n) \subseteq RunningIn(cl) \cup {c} /\ Pinners(cl, a, n) \subseteq RunningIn(cl)
    BY <1>2 DEF Pinners
  <2> QED BY <2>1, <2>2, <2>3
<1> QED BY <1>1, <1>2, <1>3, <1>4, <1>5 DEF Grown

\* Being apart goes both ways.
LEMMA Apart2Symmetric ==
  \A k, l, t : Apart2(k, l, t) => Apart2(l, k, t)
BY DEF Apart2

\* The node a request pins.
LEMMA HandNode ==
  ASSUME NEW k, NEW t, NEW x, NEW b, ClientOK(k, t, x, b)
  PROVE  k.table \in Table /\ k.node \in Nodes(t) \cup {NoParent} /\ k.tokens \in TokenSeqs /\ k.matched \in Nat
BY DEF ClientOK, Matches

\* A request leaves the clients, and what it holds is in the hands of the step.
LEMMA LeaveBase ==
  ASSUME NEW t, NEW p, NEW cl, NEW ct, NEW a, NEW x, NEW b, Base(t, p, cl, ct, a, x, b, <<>>, NoParent),
         NEW c \in RunningIn(cl)
  PROVE  /\ Base(t, p, Without(cl, c), ct, a, x, b, cl[c].table, cl[c].node)
         /\ Hand(t, Without(cl, c), ct, x, b, cl[c])
<1> DEFINE l == Without(cl, c)
           k == cl[c]
           none == <<>>
<1>1. none \in Table /\ \A e : ~Contains(none, e)
  BY NoBlocks
<1>2. Base(t, p, cl, ct, a, x, b, none, NoParent)
  OBVIOUS
<1>3. cl = [d \in Client |-> cl[d]] /\ IsFiniteSet(RunningIn(cl))
  BY <1>2, Zenon DEF Base, Placed
<1>4. /\ l = [d \in Client |-> l[d]]
      /\ RunningIn(l) = RunningIn(cl) \ {c}
      /\ \A d \in RunningIn(l) : l[d] = cl[d]
      /\ \A e : Holders(l, e) = Holders(cl, e) \ {c}
      /\ \A n : Pinners(l, a, n) = Pinners(cl, a, n) \ {c}
  <2> HIDE DEF l
  <2>1. l = Without(cl, c)
    BY DEF l
  <2> QED BY <1>3, <2>1, WithoutFacts
<1>5. \A e : c \in Holders(cl, e) <=> Contains(k.table, e)
  BY Zenon DEF Holders
<1>6. \A n : c \in Pinners(cl, a, n) <=> PinsAt(a, k.node, n)
  BY Zenon DEF Pinners
<1>7. ClientOK(k, t, x, b) /\ ClientStored(k, ct)
  BY <1>2 DEF Base, Placed, Stored
<1>8. \A d \in RunningIn(l) : Apart2(k, l[d], t)
  BY <1>2, <1>4 DEF Base, Placed
<1> HIDE DEF l, k, none
<1>9. Hand(t, l, ct, x, b, k)
  BY <1>7, <1>8 DEF Hand
<1>10. Placed(t, l, x, b)
  <2>1. IsFiniteSet(RunningIn(l))
    BY <1>3, <1>4, FS_Subset
  <2>2. \A d \in RunningIn(l) : ClientOK(l[d], t, x, b)
    BY <1>2, <1>4 DEF Base, Placed
  <2>3. \A d, e \in RunningIn(l) : d # e => Apart2(l[d], l[e], t)
    BY <1>2, <1>4 DEF Base, Placed
  <2>4. Separate(t) /\ \A n \in Nodes(t) : Told(x[n])
    BY <1>2 DEF Base, Placed
  <2> QED BY <1>4, <2>1, <2>2, <2>3, <2>4 DEF Placed
<1>11. Stored(t, l, ct, x, b)
  BY <1>2, <1>4 DEF Base, Stored
<1>12. InHand(t, k.table, k.node)
  BY <1>7, HandNode DEF InHand
<1>13. Refs(t, p, l, k.table)
  <2> SUFFICES ASSUME NEW e \in Block PROVE p.ref_cnt[e] = RefAt(t, l, k.table, e)
    BY DEF Refs
  <2> DEFINE S == Holders(cl, e)
             n == Cardinality(Holders(l, e))
             r == p.ref_cnt[e]
             w == RefAt(t, l, k.table, e)
  <2>1. IsFiniteSet(S)
    <3>1. S \subseteq RunningIn(cl)
      BY DEF Holders
    <3> QED BY <3>1, <1>3, FS_Subset
  <2>2. n = Cardinality(S \ {c})
    BY <1>4
  <2>3. w = (IF InTree(t, e) THEN 1 ELSE 0) + (IF Contains(k.table, e) THEN 1 ELSE 0) + n
    BY DEF RefAt
  <2>4. r = (IF InTree(t, e) THEN 1 ELSE 0) + 0 + Cardinality(S)
    <3>1. r = RefAt(t, cl, none, e)
      BY <1>2 DEF Base, Refs
    <3> HIDE DEF S
    <3> QED BY <3>1, <1>1 DEF RefAt, S
  <2>5. c \in S <=> Contains(k.table, e)
    BY <1>5
  <2> HIDE DEF S, n, r, w
  <2>6. n \in Nat /\ Cardinality(S) = n + (IF c \in S THEN 1 ELSE 0)
    BY <2>1, <2>2, OneLess
  <2>7. r = w
    BY <2>3, <2>4, <2>5, <2>6
  <2> QED BY <2>7 DEF r, w
<1>14. Pins(t, a, l, k.node)
  <2> SUFFICES ASSUME NEW q \in Nodes(t) PROVE LockOf(t, q) = PinAt(a, l, k.node, q)
    BY DEF Pins
  <2> DEFINE S == Pinners(cl, a, q)
             n == Cardinality(Pinners(l, a, q))
             r == LockOf(t, q)
             w == PinAt(a, l, k.node, q)
  <2>1. IsFiniteSet(S)
    <3>1. S \subseteq RunningIn(cl)
      BY DEF Pinners
    <3> QED BY <3>1, <1>3, FS_Subset
  <2>2. n = Cardinality(S \ {c})
    BY <1>4
  <2>3. w = (IF q = Root THEN 1 ELSE 0) + (IF PinsAt(a, k.node, q) THEN 1 ELSE 0) + n
    BY DEF PinAt
  <2>4. r = (IF q = Root THEN 1 ELSE 0) + 0 + Cardinality(S)
    <3>1. r = PinAt(a, cl, NoParent, q) /\ ~PinsAt(a, NoParent, q)
      BY <1>2 DEF Base, Pins, PinsAt
    <3> HIDE DEF S
    <3> QED BY <3>1 DEF PinAt, S
  <2>5. c \in S <=> PinsAt(a, k.node, q)
    BY <1>6
  <2> HIDE DEF S, n, r, w
  <2>6. n \in Nat /\ Cardinality(S) = n + (IF c \in S THEN 1 ELSE 0)
    BY <2>1, <2>2, OneLess
  <2>7. r = w
    BY <2>3, <2>4, <2>5, <2>6
  <2> QED BY <2>7 DEF r, w
<1>15. Base(t, p, l, ct, a, x, b, k.table, k.node)
  BY <1>2, <1>10, <1>11, <1>12, <1>13, <1>14 DEF Base
<1> QED BY <1>9, <1>15 DEF l, k

\* A request joins the clients with what the step has in hand.
LEMMA JoinBase ==
  ASSUME NEW t, NEW p, NEW cl, NEW ct, NEW a, NEW x, NEW b, NEW k, k.running,
         Base(t, p, cl, ct, a, x, b, k.table, k.node), Hand(t, cl, ct, x, b, k),
         NEW c \in Client \ RunningIn(cl)
  PROVE  Base(t, p, Joining(cl, c, k), ct, a, x, b, <<>>, NoParent)
<1> DEFINE l == Joining(cl, c, k)
           none == <<>>
<1>1. none \in Table /\ \A e : ~Contains(none, e)
  BY NoBlocks
<1>2. cl = [d \in Client |-> cl[d]] /\ IsFiniteSet(RunningIn(cl))
  BY Zenon DEF Base, Placed
<1>3. /\ l = [d \in Client |-> l[d]] /\ l[c] = k
      /\ RunningIn(l) = RunningIn(cl) \cup {c}
      /\ \A d \in RunningIn(cl) : l[d] = cl[d]
      /\ \A e : Holders(l, e) = IF Contains(k.table, e) THEN Holders(cl, e) \cup {c} ELSE Holders(cl, e)
      /\ \A n : Pinners(l, a, n) = IF PinsAt(a, k.node, n) THEN Pinners(cl, a, n) \cup {c}
                                   ELSE Pinners(cl, a, n)
  <2> HIDE DEF l
  <2>1. l = Joining(cl, c, k)
    BY DEF l
  <2>2. Grown(cl, l, c, k)
    BY <1>2, <2>1, WithFacts
  <2> QED BY <2>2, Zenon DEF Grown
<1> HIDE DEF l, none
<1>4. Placed(t, l, x, b)
  <2>1. IsFiniteSet(RunningIn(l))
    BY <1>2, <1>3, FS_AddElement
  <2>2. \A d \in RunningIn(l) : ClientOK(l[d], t, x, b)
    BY <1>3 DEF Base, Placed, Hand
  <2>3. \A d, e \in RunningIn(l) : d # e => Apart2(l[d], l[e], t)
    <3> SUFFICES ASSUME NEW d \in RunningIn(l), NEW e \in RunningIn(l), d # e PROVE Apart2(l[d], l[e], t)
      OBVIOUS
    <3>1. CASE d = c
      <4>1. e \in RunningIn(cl)
        BY <3>1, <1>3
      <4> QED BY <3>1, <4>1, <1>3 DEF Hand
    <3>2. CASE e = c
      <4>1. d \in RunningIn(cl)
        BY <3>2, <1>3
      <4>2. Apart2(l[e], l[d], t)
        BY <3>2, <4>1, <1>3 DEF Hand
      <4> QED BY <4>2, Apart2Symmetric
    <3>3. CASE d # c /\ e # c
      BY <3>3, <1>3 DEF Base, Placed
    <3> QED BY <3>1, <3>2, <3>3
  <2>4. Separate(t) /\ \A n \in Nodes(t) : Told(x[n])
    BY DEF Base, Placed
  <2> QED BY <1>3, <2>1, <2>2, <2>3, <2>4 DEF Placed
<1>5. Stored(t, l, ct, x, b)
  BY <1>3 DEF Base, Stored, Hand
<1>6. InHand(t, none, NoParent)
  BY <1>1 DEF InHand
<1>7. Refs(t, p, l, none)
  <2> SUFFICES ASSUME NEW e \in Block PROVE p.ref_cnt[e] = RefAt(t, l, none, e)
    BY DEF Refs
  <2> DEFINE S == Holders(cl, e)
             P == Contains(k.table, e)
             n == Cardinality(Holders(l, e))
             r == p.ref_cnt[e]
             w == RefAt(t, l, none, e)
  <2>1. IsFiniteSet(S) /\ c \notin S
    <3>1. S \subseteq RunningIn(cl)
      BY DEF Holders
    <3> QED BY <3>1, <1>2, FS_Subset
  <2>2. n = Cardinality(IF P THEN S \cup {c} ELSE S)
    BY <1>3
  <2>3. w = (IF InTree(t, e) THEN 1 ELSE 0) + 0 + n
    BY <1>1 DEF RefAt
  <2>4. r = (IF InTree(t, e) THEN 1 ELSE 0) + (IF P THEN 1 ELSE 0) + Cardinality(S)
    BY DEF Base, Refs, RefAt
  <2> HIDE DEF S, n, r, w, P
  <2>5. Cardinality(S) \in Nat /\ n = Cardinality(S) + (IF P THEN 1 ELSE 0)
    BY <2>1, <2>2, OneMore
  <2>6. r = w
    BY <2>3, <2>4, <2>5
  <2> QED BY <2>6 DEF r, w
<1>8. Pins(t, a, l, NoParent)
  <2> SUFFICES ASSUME NEW q \in Nodes(t) PROVE LockOf(t, q) = PinAt(a, l, NoParent, q)
    BY DEF Pins
  <2> DEFINE S == Pinners(cl, a, q)
             P == PinsAt(a, k.node, q)
             n == Cardinality(Pinners(l, a, q))
             r == LockOf(t, q)
             w == PinAt(a, l, NoParent, q)
  <2>1. IsFiniteSet(S) /\ c \notin S
    <3>1. S \subseteq RunningIn(cl)
      BY DEF Pinners
    <3> QED BY <3>1, <1>2, FS_Subset
  <2>2. n = Cardinality(IF P THEN S \cup {c} ELSE S)
    BY <1>3
  <2>3. w = (IF q = Root THEN 1 ELSE 0) + 0 + n
    <3>1. ~PinsAt(a, NoParent, q)
      BY DEF PinsAt
    <3> QED BY <3>1 DEF PinAt
  <2>4. r = (IF q = Root THEN 1 ELSE 0) + (IF P THEN 1 ELSE 0) + Cardinality(S)
    BY DEF Base, Pins, PinAt
  <2> HIDE DEF S, n, r, w, P
  <2>5. Cardinality(S) \in Nat /\ n = Cardinality(S) + (IF P THEN 1 ELSE 0)
    BY <2>1, <2>2, OneMore
  <2>6. r = w
    BY <2>3, <2>4, <2>5
  <2> QED BY <2>6 DEF r, w
<1>9. Base(t, p, l, ct, a, x, b, none, NoParent)
  BY <1>4, <1>5, <1>6, <1>7, <1>8 DEF Base
<1> QED BY <1>9 DEF l, none

\* A table that is the only holder of its blocks is freed: as many blocks are.
LEMMA FreedTable ==
  ASSUME NEW p, PoolOK(p), NEW table \in Table, \A e \in Block : Contains(table, e) => p.ref_cnt[e] = 1,
         NEW q, q = Free(p, table).pool
  PROVE  /\ Free(p, table).ok /\ PoolOK(q)
         /\ \A e \in Block : q.ref_cnt[e] = IF Contains(table, e) THEN 0 ELSE p.ref_cnt[e]
         /\ num_free(q) = num_free(p) + Len(table)
<1>1. \A e \in Block : Contains(table, e) => p.ref_cnt[e] >= 1
  OBVIOUS
<1>2. /\ Free(p, table).ok /\ PoolOK(q)
      /\ \A e \in Block : q.ref_cnt[e] = IF Contains(table, e) THEN p.ref_cnt[e] - 1 ELSE p.ref_cnt[e]
  BY <1>1, FreeTable
<1>3. \A e \in Block : q.ref_cnt[e] = IF Contains(table, e) THEN 0 ELSE p.ref_cnt[e]
  BY <1>2
<1>4. Unused(q) = Unused(p) \cup ToSet(table) /\ Unused(p) \cap ToSet(table) = {}
  <2>1. table \in Seq(Block)
    BY DEF Table
  <2>2. \A e : e \in ToSet(table) <=> Contains(table, e)
    BY <2>1, ToSetContains
  <2>3. \A e \in ToSet(table) : e \in Block
    BY <2>1 DEF ToSet
  <2> QED BY <1>3, <2>2, <2>3 DEF Unused
<1>5. IsFiniteSet(ToSet(table)) /\ Cardinality(ToSet(table)) = Len(table) /\ Len(table) \in Nat
  <2>1. table \in Seq(Block) /\ NoDuplicates(table)
    BY DEF Table
  <2> QED BY <2>1, ListCount
<1>6. /\ IsFiniteSet(Unused(p)) /\ num_free(p) = Cardinality(Unused(p)) /\ num_free(p) \in Nat
      /\ num_free(q) = Cardinality(Unused(q))
  BY <1>2, FreeCount
<1>7. num_free(q) = num_free(p) + Len(table)
  <2> DEFINE S == Unused(p)
             T == ToSet(table)
  <2>1. IsFiniteSet(S) /\ IsFiniteSet(T) /\ S \cap T = {}
    BY <1>4, <1>5, <1>6
  <2> HIDE DEF S, T
  <2>2. Cardinality(S \cup T) = Cardinality(S) + Cardinality(T) - Cardinality(S \cap T)
    BY <2>1, FS_Union
  <2>3. Cardinality(S \cap T) = 0
    BY <2>1, FS_EmptySet
  <2>4. Cardinality(S) = num_free(p) /\ Cardinality(T) = Len(table) /\ num_free(q) = Cardinality(S \cup T)
    BY <1>4, <1>5, <1>6 DEF S, T
  <2> QED BY <2>2, <2>3, <2>4, <1>5, <1>6
<1> QED BY <1>2, <1>3, <1>7

\* The blocks of a node nobody pins are in no table.
LEMMA Unheld ==
  ASSUME NEW t, NEW p, NEW cl, NEW ct, NEW a, NEW x, NEW b, NEW table, NEW y,
         Base(t, p, cl, ct, a, x, b, table, y), NEW n \in Nodes(t), NEW e \in Block, Contains(TableOf(t, n), e),
         \A c \in RunningIn(cl) : ~PinsAt(a, cl[c].node, n)
  PROVE  Holders(cl, e) = {}
<1> SUFFICES ASSUME NEW c \in Holders(cl, e) PROVE FALSE
  OBVIOUS
<1> DEFINE k == cl[c]
<1>1. c \in RunningIn(cl) /\ Contains(k.table, e)
  BY DEF Holders
<1>2. ClientOK(k, t, x, b) /\ ~PinsAt(a, k.node, n)
  BY <1>1 DEF Base, Placed
<1>3. Shape(t, a, x, b) /\ Separate(t) /\ InTree(t, e)
  BY DEF Base, Placed, InTree
<1> HIDE DEF k
<1>4. PICK i \in 1 .. Len(k.table) : k.table[i] = e
  BY <1>1 DEF Contains
<1>5. i \in Nat /\ i \in 1 .. k.matched /\ k.matched # 0
  <2>1. k.matched \in Nat /\ k.table \in Table /\ ~(i \in k.matched + 1 .. Len(k.table))
    BY <1>2, <1>3, <1>4 DEF ClientOK
  <2>2. Len(k.table) \in Nat
    BY <2>1 DEF Table
  <2> QED BY <2>1, <2>2, <1>4
<1>6. /\ k.node \in Nodes(t) /\ k.matched <= Len(b[k.node]) /\ k.table[i] = b[k.node][i]
      /\ k.matched \in Nat
  BY <1>2, <1>5 DEF ClientOK, Matches
<1>7. i \in 1 .. Len(b[k.node])
  <2>1. Len(b[k.node]) \in Nat
    BY <1>3, <1>6, Lengths
  <2> QED BY <2>1, <1>5, <1>6
<1>8. PICK d \in a[k.node] : Owns(t, b, d, i)
  BY <1>3, <1>6, <1>7, Owner
<1>9. d \in Nodes(t) /\ Contains(TableOf(t, d), b[k.node][i])
  BY <1>3, <1>5, <1>6, <1>8, OwnerFacts
<1>10. d = n
  BY <1>3, <1>4, <1>6, <1>9 DEF Separate
<1>11. k.node # NoParent
  BY <1>3, <1>6, NodesNatural
<1> QED BY <1>2, <1>8, <1>10, <1>11 DEF PinsAt

\* A node with a pin count of zero is pinned by nobody.
LEMMA Unpinned ==
  ASSUME NEW t, NEW p, NEW cl, NEW ct, NEW a, NEW x, NEW b, NEW table, NEW y,
         Base(t, p, cl, ct, a, x, b, table, y), NEW n \in Nodes(t), LockOf(t, n) = 0
  PROVE  (\A c \in RunningIn(cl) : ~PinsAt(a, cl[c].node, n)) /\ ~PinsAt(a, y, n) /\ n # Root
<1> DEFINE k == Cardinality(Pinners(cl, a, n))
<1>1. 0 = (IF n = Root THEN 1 ELSE 0) + (IF PinsAt(a, y, n) THEN 1 ELSE 0) + k
  BY DEF Base, Pins, PinAt
<1>2. k \in Nat /\ (k = 0 <=> Pinners(cl, a, n) = {})
  BY Counts DEF Base, Placed
<1> HIDE DEF k
<1>3. n # Root /\ ~PinsAt(a, y, n) /\ Pinners(cl, a, n) = {}
  BY <1>1, <1>2
<1> QED BY <1>3 DEF Pinners

\* A node nobody pins is the only holder of its blocks.
Loose(t, p) ==
  \A n \in Nodes(t) : LockOf(t, n) = 0 =>
    \A e \in Block : Contains(TableOf(t, n), e) => p.ref_cnt[e] = 1

\* With nothing in hand, an unpinned node is the only holder of its blocks.
LEMMA LooseBase ==
  ASSUME NEW t, NEW p, NEW cl, NEW ct, NEW a, NEW x, NEW b, NEW y, Base(t, p, cl, ct, a, x, b, <<>>, y)
  PROVE  Loose(t, p)
<1> DEFINE none == <<>>
<1>1. Base(t, p, cl, ct, a, x, b, none, y) /\ \A e : ~Contains(none, e)
  BY NoBlocks
<1> HIDE DEF none
<1> SUFFICES ASSUME NEW n \in Nodes(t), LockOf(t, n) = 0, NEW e \in Block, Contains(TableOf(t, n), e)
             PROVE  p.ref_cnt[e] = 1
  BY DEF Loose
<1>2. Holders(cl, e) = {}
  <2>1. \A c \in RunningIn(cl) : ~PinsAt(a, cl[c].node, n)
    BY <1>1, Unpinned
  <2> QED BY <1>1, <2>1, Unheld
<1>3. Cardinality(Holders(cl, e)) = 0
  BY <1>2, FS_EmptySet
<1>4. p.ref_cnt[e] = RefAt(t, cl, none, e) /\ InTree(t, e)
  BY <1>1 DEF Base, Refs, InTree
<1>5. RefAt(t, cl, none, e) = 1 + 0 + 0
  BY <1>1, <1>3, <1>4 DEF RefAt
<1> QED BY <1>4, <1>5

\* A map without one of its keys, and one confined to a domain.
Less(f, k) == [j \in DOMAIN f \ {k} |-> f[j]]

\* What taking leaf n off the tree changes.
Pruned(t, u, n) ==
  /\ Nodes(u) = Nodes(t) \ {n}
  /\ \A m \in Nodes(u) : /\ ParentOf(u, m) = ParentOf(t, m) /\ KeyOf(u, m) = KeyOf(t, m)
                         /\ TableOf(u, m) = TableOf(t, m) /\ LockOf(u, m) = LockOf(t, m)
                         /\ m # ParentOf(t, n) => KidsOf(u, m) = KidsOf(t, m)
  /\ KidsOf(u, ParentOf(t, n)) = Less(KidsOf(t, ParentOf(t, n)), FirstBlock(t, n))
PruneNode(t, n, up, kids) ==
  [m \in Nodes(t) \ {n} |-> IF m = up THEN [t.node[m] EXCEPT !.children = kids] ELSE t.node[m]]

\* The map of nodes after a leaf is deleted, node by node.
LEMMA PrunedNodes ==
  ASSUME NEW t, IsTree(t), NEW n \in Nodes(t) \ {Root}, ParentOf(t, n) \in Nodes(t) \ {n},
         NEW N, N = PruneNode(t, n, ParentOf(t, n), Less(KidsOf(t, ParentOf(t, n)), FirstBlock(t, n))),
         NEW u, u.node = N
  PROVE  NodeMap(N, Nodes(t) \ {n}) /\ Pruned(t, u, n)
<1> DEFINE D == Nodes(t)
           D2 == Nodes(t) \ {n}
           p == ParentOf(t, n)
           K == Less(KidsOf(t, p), FirstBlock(t, n))
           s == [t.node[p] EXCEPT !.children = K]
<1>1. NodeMap(t.node, D)
  BY TreeParts
<1>2. p \in D2 /\ IsNode(t.node[p])
  BY <1>1 DEF NodeMap
<1>3. /\ IsNode(s) /\ s.parent = ParentOf(t, p) /\ s.key = KeyOf(t, p) /\ s.table = TableOf(t, p)
      /\ s.lock = LockOf(t, p) /\ s.children = K
  <2> HIDE DEF K
  <2> QED BY <1>2, Rewired DEF ParentOf, KeyOf, TableOf, LockOf
<1>4. DOMAIN N = D2 /\ N = [m \in D2 |-> N[m]] /\ N[p] = s /\ \A m \in D2 : m # p => N[m] = t.node[m]
  <2> HIDE DEF K, p
  <2>1. N = [m \in D2 |-> IF m = p THEN [t.node[m] EXCEPT !.children = K] ELSE t.node[m]]
    BY DEF PruneNode, p, K
  <2> HIDE DEF D2
  <2> QED BY <2>1, <1>2
<1> HIDE DEF s
<1>5. Nodes(u) = D2
  BY <1>4, Zenon DEF Nodes
<1>6. \A m \in D2 : /\ ParentOf(u, m) = ParentOf(t, m) /\ KeyOf(u, m) = KeyOf(t, m)
                    /\ TableOf(u, m) = TableOf(t, m) /\ LockOf(u, m) = LockOf(t, m)
                    /\ m # p => KidsOf(u, m) = KidsOf(t, m)
  <2> SUFFICES ASSUME NEW m \in D2
               PROVE  /\ ParentOf(u, m) = ParentOf(t, m) /\ KeyOf(u, m) = KeyOf(t, m)
                      /\ TableOf(u, m) = TableOf(t, m) /\ LockOf(u, m) = LockOf(t, m)
                      /\ m # p => KidsOf(u, m) = KidsOf(t, m)
    OBVIOUS
  <2>1. CASE m = p
    <3>1. u.node[m] = s
      BY <2>1, <1>4, Zenon
    <3>2. ParentOf(u, m) = s.parent /\ KeyOf(u, m) = s.key /\ TableOf(u, m) = s.table /\ LockOf(u, m) = s.lock
      BY <3>1, Zenon DEF ParentOf, KeyOf, TableOf, LockOf
    <3> QED BY <3>2, <2>1, <1>3
  <2>2. CASE m # p
    <3>1. u.node[m] = t.node[m]
      BY <2>2, <1>4, Zenon
    <3> HIDE DEF p, D2
    <3> QED BY <3>1, Zenon DEF ParentOf, KeyOf, TableOf, KidsOf, LockOf
  <2> QED BY <2>1, <2>2
<1>7. KidsOf(u, p) = K
  <2>1. u.node[p] = s
    BY <1>4, Zenon
  <2>2. KidsOf(u, p) = s.children
    BY <2>1, Zenon DEF KidsOf
  <2> QED BY <2>2, <1>3
<1>8. NodeMap(N, D2)
  <2>1. IsFiniteSet(D2) /\ D2 \subseteq Nat
    BY <1>1, FS_Subset DEF NodeMap
  <2>2. \A m \in D2 : IsNode(N[m])
    <3>1. \A m \in D2 : IsNode(t.node[m])
      BY <1>1 DEF NodeMap
    <3> QED BY <3>1, <1>3, <1>4, Zenon
  <2>3. Root \in D2 /\ ParentOf(t, Root) = NoParent /\ KeyOf(t, Root) = <<>> /\ TableOf(t, Root) = <<>>
    BY DEF IsTree
  <2>4. ParentOf(u, Root) = NoParent /\ KeyOf(u, Root) = <<>> /\ TableOf(u, Root) = <<>>
    BY <2>3, <1>6, Zenon
  <2>5. N[Root].parent = NoParent /\ N[Root].key = <<>> /\ N[Root].table = <<>>
    BY <2>4 DEF ParentOf, KeyOf, TableOf
  <2> HIDE DEF D2
  <2> QED BY <2>1, <2>2, <2>3, <2>5, <1>4 DEF NodeMap
<1> HIDE DEF K, p, D2
<1>9. Pruned(t, u, n)
  BY <1>5, <1>6, <1>7 DEF Pruned, K, p, D2
<1> QED BY <1>8, <1>9 DEF D2

\* Nothing is below a node without children.
LEMMA NothingBelow ==
  ASSUME NEW t, NEW a, NEW x, NEW b, Shape(t, a, x, b), NEW n \in Nodes(t), DOMAIN KidsOf(t, n) = {}
  PROVE  /\ \A m \in Nodes(t) : m # n => n \notin a[m]
         /\ \A m \in Nodes(t) \ {Root} : ParentOf(t, m) # n
<1>1. \A m \in Nodes(t) \ {Root} : ParentOf(t, m) # n
  <2>1. LinksExact(t)
    BY DEF Shape
  <2> QED BY <2>1, LinkFacts
<1>2. \A m \in Nodes(t) : m # n => n \notin a[m]
  <2> SUFFICES ASSUME NEW m \in Nodes(t), m # n, n \in a[m] PROVE FALSE
    OBVIOUS
  <2>1. \E c \in Nodes(t) \ {Root} : c \in a[m] /\ ParentOf(t, c) = n
    BY ChildToward
  <2> QED BY <2>1, <1>1
<1> QED BY <1>1, <1>2

\* The shape without the leaf.
LEMMA PrunedShape ==
  ASSUME NEW t, NEW a, NEW x, NEW b, Shape(t, a, x, b), NEW n \in Nodes(t) \ {Root}, DOMAIN KidsOf(t, n) = {},
         NEW u, IsTree(u), Pruned(t, u, n)
  PROVE  Shape(u, Only(a, Nodes(u)), Only(x, Nodes(u)), Only(b, Nodes(u)))
<1> DEFINE D == Nodes(t)
           D2 == Nodes(u)
           p == ParentOf(t, n)
           f == FirstBlock(t, n)
           a2 == Only(a, D2)
           x2 == Only(x, D2)
           b2 == Only(b, D2)
<1>1. /\ IsTree(t) /\ SpanTypes(D, a, x, b)
      /\ \A m \in D : KidsLinked(t, m)
      /\ \A m \in D \ {Root} : Whole(t, m) /\ ChildLinked(t, m) /\ SpannedAt(t, a, x, b, m)
  BY ShapeByNode, Zenon
<1>2. D2 = D \ {n} /\ Root \in D2 /\ Root # n
  BY <1>1 DEF Pruned, IsTree
<1>3. /\ \A m \in D : m # n => n \notin a[m]
      /\ \A m \in D \ {Root} : ParentOf(t, m) # n
  BY NothingBelow
<1>4. \A m \in D2 : a2[m] = a[m] /\ x2[m] = x[m] /\ b2[m] = b[m]
  <2> HIDE DEF D2
  <2> QED BY DEF Only
<1>5. SpanTypes(D2, a2, x2, b2)
  <2>1. \A m \in D2 : a2[m] \in SUBSET D2 /\ x2[m] \in Seq(Int) /\ b2[m] \in Seq(Block)
    <3>1. \A m \in D2 : a[m] \in SUBSET D /\ x[m] \in Seq(Int) /\ b[m] \in Seq(Block)
      BY <1>1, <1>2 DEF SpanTypes
    <3> QED BY <3>1, <1>2, <1>3, <1>4
  <2>2. a2[Root] = {Root} /\ x2[Root] = <<>> /\ b2[Root] = <<>>
    BY <1>1, <1>2, <1>4 DEF SpanTypes
  <2>3. a2 = [m \in D2 |-> a2[m]] /\ x2 = [m \in D2 |-> x2[m]] /\ b2 = [m \in D2 |-> b2[m]]
    <3> HIDE DEF D2
    <3> QED BY DEF Only
  <2> DEFINE EA == SUBSET D2
             EX == Seq(Int)
             EB == Seq(Block)
  <2> HIDE DEF a2, x2, b2, D2, EA, EX, EB
  <2>4. a2 \in [D2 -> EA] /\ x2 \in [D2 -> EX] /\ b2 \in [D2 -> EB]
    <3>1. \A m \in D2 : a2[m] \in EA /\ x2[m] \in EX /\ b2[m] \in EB
      BY <2>1 DEF EA, EX, EB
    <3> QED BY <2>3, <3>1
  <2> QED BY <2>2, <2>4 DEF SpanTypes, EA, EX, EB
<1> HIDE DEF a2, x2, b2
<1>6. \A m \in D2 : /\ ParentOf(u, m) = ParentOf(t, m) /\ KeyOf(u, m) = KeyOf(t, m) /\ TableOf(u, m) = TableOf(t, m)
                    /\ FirstBlock(u, m) = FirstBlock(t, m)
                    /\ m # p => KidsOf(u, m) = KidsOf(t, m)
  BY DEF Pruned, FirstBlock
<1>7. p \in D2 /\ f \in DOMAIN KidsOf(t, p) /\ KidsOf(t, p)[f] = n
  <2>1. ChildLinked(t, n)
    BY <1>1
  <2>2. p # n
    BY <1>3
  <2> QED BY <2>1, <2>2, <1>2 DEF ChildLinked
<1>8. /\ \A g : g \in DOMAIN KidsOf(u, p) <=> g \in DOMAIN KidsOf(t, p) /\ g # f
      /\ \A g \in DOMAIN KidsOf(u, p) : KidsOf(u, p)[g] = KidsOf(t, p)[g]
  <2> DEFINE K == KidsOf(t, p)
             L == KidsOf(u, p)
  <2>1. L = Less(K, f)
    BY DEF Pruned
  <2> HIDE DEF K, L, f
  <2>2. (\A g : g \in DOMAIN L <=> g \in DOMAIN K /\ g # f) /\ \A g \in DOMAIN L : L[g] = K[g]
    BY <2>1 DEF Less
  <2> QED BY <2>2 DEF K, L
<1>9. ASSUME NEW m \in D2, NEW g \in DOMAIN KidsOf(u, m)
      PROVE  /\ g \in DOMAIN KidsOf(t, m) /\ KidsOf(u, m)[g] = KidsOf(t, m)[g]
             /\ KidsOf(t, m)[g] # n
  <2>1. CASE m = p
    <3>1. g \in DOMAIN KidsOf(t, p) /\ g # f /\ KidsOf(u, p)[g] = KidsOf(t, p)[g]
      BY <2>1, <1>8
    <3>2. FirstBlock(t, KidsOf(t, p)[g]) = g
      BY <3>1, <1>1, <1>2, <1>7 DEF KidsLinked
    <3> QED BY <2>1, <3>1, <3>2
  <2>2. CASE m # p
    <3>1. KidsOf(u, m) = KidsOf(t, m)
      BY <2>2, <1>6
    <3>2. ParentOf(t, KidsOf(t, m)[g]) = m
      BY <3>1, <1>1, <1>2 DEF KidsLinked
    <3> QED BY <2>2, <3>1, <3>2
  <2> QED BY <2>1, <2>2
<1>10. ASSUME NEW m \in D2 PROVE KidsLinked(u, m)
  <2> SUFFICES ASSUME NEW g \in DOMAIN KidsOf(u, m)
               PROVE  /\ KidsOf(u, m)[g] \in D2 /\ ParentOf(u, KidsOf(u, m)[g]) = m
                      /\ FirstBlock(u, KidsOf(u, m)[g]) = g
    BY DEF KidsLinked
  <2> DEFINE d == KidsOf(t, m)[g]
  <2>1. g \in DOMAIN KidsOf(t, m) /\ KidsOf(u, m)[g] = d /\ d # n
    BY <1>9
  <2>2. d \in D /\ ParentOf(t, d) = m /\ FirstBlock(t, d) = g
    BY <2>1, <1>1, <1>2 DEF KidsLinked
  <2> HIDE DEF d
  <2> QED BY <2>1, <2>2, <1>2, <1>6
<1>11. ASSUME NEW m \in D2 \ {Root} PROVE Whole(u, m) /\ ChildLinked(u, m) /\ SpannedAt(u, a2, x2, b2, m)
  <2> DEFINE r == ParentOf(t, m)
             g == FirstBlock(t, m)
  <2>1. r \in D2
    BY <1>1, <1>2, <1>3 DEF ChildLinked
  <2>2. Whole(t, m) /\ ChildLinked(t, m) /\ SpannedAt(t, a, x, b, m)
    BY <1>1, <1>2
  <2>3. ParentOf(u, m) = r /\ FirstBlock(u, m) = g /\ KeyOf(u, m) = KeyOf(t, m) /\ TableOf(u, m) = TableOf(t, m)
    BY <1>6
  <2>4. g \in DOMAIN KidsOf(t, r) /\ KidsOf(t, r)[g] = m
    BY <2>2 DEF ChildLinked
  <2>5. Whole(u, m)
    BY <2>2, <2>3 DEF Whole
  <2>6. SpannedAt(u, a2, x2, b2, m)
    <3>1. a[m] = a[r] \cup {m} /\ x[m] = x[r] \o KeyOf(t, m) /\ b[m] = b[r] \o TableOf(t, m)
      BY <2>2 DEF SpannedAt
    <3> HIDE DEF r
    <3> QED BY <3>1, <2>1, <2>3, <1>4 DEF SpannedAt
  <2> HIDE DEF r, g
  <2>7. g \in DOMAIN KidsOf(u, r) /\ KidsOf(u, r)[g] = m
    <3>1. CASE r = p
      <4>1. g # f
        BY <3>1, <2>4, <1>2, <1>7
      <4> QED BY <3>1, <4>1, <2>4, <1>8
    <3>2. CASE r # p
      BY <3>2, <2>1, <2>4, <1>6
    <3> QED BY <3>1, <3>2
  <2>8. ChildLinked(u, m)
    BY <2>1, <2>3, <2>7 DEF ChildLinked
  <2> QED BY <2>5, <2>6, <2>8
<1>12. Shape(u, a2, x2, b2)
  BY <1>5, <1>10, <1>11, ShapeByNode, Zenon DEF IsTree
<1> QED BY <1>12 DEF a2, x2, b2

\* The tree without the head of its list, before its parent may enter the list.
PrunedTree(t) ==
  LET n  == Head(t.lru)
      up == ParentOf(t, n)
  IN  [node      |-> PruneNode(t, n, up, Less(KidsOf(t, up), FirstBlock(t, n))),
       lru       |-> Tail(t.lru),
       evictable |-> t.evictable - Len(TableOf(t, n))]
Orphan(u, up) == up # Root /\ Childless(u, up) /\ u.node[up].lock = 0 /\ ~InLru(u, up)

\* evict's turn: a leaf goes, its blocks are freed, its parent may enter the list.
LEMMA EvictOneIs ==
  ASSUME NEW r, NEW t, t = r.tree
  PROVE  LET n  == Head(t.lru)
             up == ParentOf(t, n)
             v  == EvictOne(r)
         IN  /\ v.tree = IF Orphan(PrunedTree(t), up) THEN Enlist(PrunedTree(t), up) ELSE PrunedTree(t)
             /\ v.pool = Free(r.pool, TableOf(t, n)).pool
             /\ v.freed = r.freed + Len(TableOf(t, n))
             /\ v.ok = Free(r.pool, TableOf(t, n)).ok
BY DEF EvictOne, Orphan, PrunedTree, PruneNode, Less, ParentOf, KidsOf, FirstBlock, KeyOf, TableOf

\* The evicted leaf.
Evictee(t, n) == n = Head(t.lru) /\ t.lru # <<>>

\* The head of the list is an unpinned leaf, and not the root.
LEMMA EvicteeFacts ==
  ASSUME NEW t, NEW a, NEW x, NEW b, Shape(t, a, x, b), ListOK(t), NEW n, Evictee(t, n)
  PROVE  /\ n \in Nodes(t) \ {Root} /\ LockOf(t, n) = 0 /\ DOMAIN KidsOf(t, n) = {}
         /\ ParentOf(t, n) \in Nodes(t) \ {n} /\ n \in Listed(t)
<1>1. t.lru \in Seq(Nodes(t)) /\ NoDuplicates(t.lru) /\ ToSet(t.lru) = Listed(t)
  BY DEF Shape, IsTree, ListOK
<1>2. n \in ToSet(t.lru)
  <2>1. Sizes(t) \in [Nat -> Int] /\ Nodes(t) \subseteq Nat
    BY SizesFacts DEF Shape, IsTree
  <2> QED BY <1>1, <2>1, Beheaded DEF Evictee
<1>3. n \in Nodes(t) \ {Root} /\ LockOf(t, n) = 0 /\ DOMAIN KidsOf(t, n) = {}
  BY <1>1, <1>2 DEF Listed
<1>4. ParentOf(t, n) \in Nodes(t) /\ ParentOf(t, n) # n
  <2>1. ParentOf(t, n) \in Nodes(t)
    BY <1>3, ChildFacts
  <2> QED BY <2>1, <1>3, NothingBelow
<1> QED BY <1>1, <1>2, <1>3, <1>4

\* The tree without the leaf.
LEMMA PrunedTreeFacts ==
  ASSUME NEW t, NEW a, NEW x, NEW b, Shape(t, a, x, b), ListOK(t), NEW n, Evictee(t, n), NEW u, u = PrunedTree(t)
  PROVE  /\ IsTree(u) /\ Pruned(t, u, n)
         /\ NoDuplicates(u.lru) /\ ToSet(u.lru) = Listed(t) \ {n}
         /\ u.evictable = Total(Sizes(u), u.lru)
<1> DEFINE D == Nodes(t)
           D2 == Nodes(t) \ {n}
           N == PruneNode(t, n, ParentOf(t, n), Less(KidsOf(t, ParentOf(t, n)), FirstBlock(t, n)))
           l == Tail(t.lru)
           e == t.evictable - Len(TableOf(t, n))
<1>1. u = [node |-> N, lru |-> l, evictable |-> e]
  BY DEF PrunedTree, Evictee
<1>2. n \in D \ {Root} /\ ParentOf(t, n) \in D \ {n} /\ IsTree(t)
  BY EvicteeFacts DEF Shape
<1>3. u.node = N
  BY <1>1
<1> HIDE DEF N
<1>4. NodeMap(N, D2) /\ Pruned(t, u, n)
  BY <1>2, <1>3, PrunedNodes DEF N
<1>5. /\ NoDuplicates(l) /\ ToSet(l) = Listed(t) \ {n} /\ l \in Seq(D)
      /\ Total(Sizes(t), l) = Total(Sizes(t), t.lru) - Sizes(t)[n]
  <2> DEFINE G == Sizes(t)
             s == t.lru
  <2>1. G \in [Nat -> Int] /\ D \subseteq Nat /\ s \in Seq(D) /\ NoDuplicates(s) /\ s # <<>> /\ n = Head(s)
        /\ ToSet(s) = Listed(t)
    BY <1>2, SizesFacts DEF IsTree, ListOK, Evictee
  <2> HIDE DEF G, s, D
  <2>2. /\ Tail(s) \in Seq(D) /\ NoDuplicates(Tail(s)) /\ ToSet(Tail(s)) = ToSet(s) \ {Head(s)}
        /\ Total(G, Tail(s)) = Total(G, s) - G[Head(s)]
    BY <2>1, Beheaded
  <2> QED BY <2>1, <2>2 DEF G, s, D
<1>6. l \in Seq(D2)
  <2>1. \A m \in ToSet(l) : m \in D2
    BY <1>5 DEF Listed
  <2>2. \A i \in 1 .. Len(l) : l[i] \in ToSet(l)
    <3>1. DOMAIN l = 1 .. Len(l)
      BY <1>5
    <3> HIDE DEF l
    <3> QED BY <3>1, Zenon DEF ToSet
  <2>3. \A i \in 1 .. Len(l) : l[i] \in D2
    BY <2>1, <2>2, Zenon
  <2> HIDE DEF D, D2, l
  <2> QED BY <2>3, <1>5, SeqOver
<1>7. e \in Int /\ Sizes(t)[n] = Len(TableOf(t, n)) /\ t.evictable = Total(Sizes(t), t.lru)
  <2>1. t.evictable \in Int /\ Len(TableOf(t, n)) \in Nat
    BY <1>2, TreeFields DEF IsTree
  <2> QED BY <1>2, <2>1, SizesFacts DEF ListOK
<1> HIDE DEF l, e, D2
<1>8. IsTree(u) /\ Nodes(u) = D2 /\ u.lru = l /\ u.evictable = e
  BY <1>1, <1>4, <1>6, <1>7, MadeTree
<1>9. Total(Sizes(u), l) = Total(Sizes(t), l)
  <2>1. D2 \subseteq Nodes(t) /\ D2 \subseteq Nodes(u)
    BY <1>8 DEF D2
  <2>2. \A m \in D2 : TableOf(u, m) = TableOf(t, m)
    BY <1>4, <1>8 DEF Pruned
  <2> QED BY <1>2, <1>6, <1>8, <2>1, <2>2, SameSum
<1>10. u.evictable = Total(Sizes(u), u.lru)
  <2>1. e = Total(Sizes(t), l)
    BY <1>5, <1>7 DEF e
  <2> QED BY <2>1, <1>8, <1>9
<1> QED BY <1>4, <1>5, <1>8, <1>10

\* u is what is left of t: unpinned nodes have gone, the others are as they were.
Left(t, u) ==
  /\ Nodes(u) \subseteq Nodes(t)
  /\ \A n \in Nodes(t) \ Nodes(u) : LockOf(t, n) = 0
  /\ \A n \in Nodes(u) : /\ ParentOf(u, n) = ParentOf(t, n) /\ KeyOf(u, n) = KeyOf(t, n)
                         /\ TableOf(u, n) = TableOf(t, n) /\ LockOf(u, n) = LockOf(t, n)
ShapeLeft(u, a, x, b) == Shape(u, Only(a, Nodes(u)), Only(x, Nodes(u)), Only(b, Nodes(u)))

\* v is what is left of t without n.
TreeEvicted(t, v, a, x, b, n) ==
  ShapeLeft(v, a, x, b) /\ ListOK(v) /\ Left(t, v) /\ Nodes(v) = Nodes(t) \ {n}

\* One turn of evict, as to the tree.
LEMMA EvictedTree ==
  ASSUME NEW r, NEW t, t = r.tree, NEW a, NEW x, NEW b, Shape(t, a, x, b), ListOK(t), NEW n, Evictee(t, n),
         NEW v, v = EvictOne(r).tree
  PROVE  TreeEvicted(t, v, a, x, b, n)
<1> SUFFICES ShapeLeft(v, a, x, b) /\ ListOK(v) /\ Left(t, v) /\ Nodes(v) = Nodes(t) \ {n}
  BY DEF TreeEvicted
<1> DEFINE up == ParentOf(t, n)
           u == PrunedTree(t)
<1>1. v = IF Orphan(u, up) THEN Enlist(u, up) ELSE u
  BY EvictOneIs, Zenon DEF Evictee
<1>2. /\ n \in Nodes(t) \ {Root} /\ LockOf(t, n) = 0 /\ DOMAIN KidsOf(t, n) = {}
      /\ up \in Nodes(t) \ {n} /\ n \in Listed(t)
  BY EvicteeFacts
<1>3. /\ IsTree(u) /\ Pruned(t, u, n)
      /\ NoDuplicates(u.lru) /\ ToSet(u.lru) = Listed(t) \ {n}
      /\ u.evictable = Total(Sizes(u), u.lru)
  <2> HIDE DEF u
  <2>1. u = PrunedTree(t)
    BY DEF u
  <2> QED BY <2>1, PrunedTreeFacts
<1> HIDE DEF u
<1>4. Nodes(u) = Nodes(t) \ {n}
  BY <1>3 DEF Pruned
<1>5. ShapeLeft(u, a, x, b)
  BY <1>2, <1>3, PrunedShape DEF ShapeLeft
<1>6. up \notin Listed(t)
  <2>1. FirstBlock(t, n) \in DOMAIN KidsOf(t, up)
    <3>1. LinksExact(t)
      BY DEF Shape
    <3> QED BY <1>2, <3>1, LinkFacts
  <2> QED BY <2>1 DEF Listed
<1>7. up \notin ToSet(u.lru) /\ up \in Nodes(u)
  BY <1>2, <1>3, <1>4, <1>6
<1>8. Orphan(u, up) <=> up \in Listed(u)
  <2>1. ~InLru(u, up)
    <3>1. u.lru \in Seq(Nodes(u))
      BY <1>3 DEF IsTree
    <3> QED BY <3>1, <1>7, ToSetContains DEF InLru
  <2> HIDE DEF up
  <2> QED BY <2>1, <1>7 DEF Orphan, Listed, Childless, LockOf, KidsOf
<1>9. \A m \in Nodes(u) : m # up => (m \in Listed(u) <=> m \in Listed(t))
  <2> SUFFICES ASSUME NEW m \in Nodes(u), m # up PROVE m \in Listed(u) <=> m \in Listed(t)
    OBVIOUS
  <2>1. LockOf(u, m) = LockOf(t, m) /\ KidsOf(u, m) = KidsOf(t, m) /\ m \in Nodes(t)
    BY <1>3, <1>4 DEF Pruned
  <2> QED BY <2>1, Zenon DEF Listed
<1>10. Listed(u) = IF Orphan(u, up) THEN (Listed(t) \ {n}) \cup {up} ELSE Listed(t) \ {n}
  <2>1. Listed(u) \subseteq Nodes(u) /\ Listed(t) \subseteq Nodes(t)
    BY DEF Listed
  <2> HIDE DEF up
  <2> QED BY <2>1, <1>4, <1>6, <1>7, <1>8, <1>9
<1>11. Left(t, u)
  BY <1>2, <1>3, <1>4 DEF Left, Pruned
<1>12. CASE ~Orphan(u, up)
  <2>1. v = u
    BY <1>1, <1>12
  <2> QED BY <2>1, <1>3, <1>4, <1>5, <1>10, <1>11, <1>12 DEF ListOK
<1>13. CASE Orphan(u, up)
  <2>1. v = Enlist(u, up)
    BY <1>1, <1>13
  <2>2. /\ IsTree(v) /\ Alike(u, v)
        /\ NoDuplicates(v.lru) /\ ToSet(v.lru) = ToSet(u.lru) \cup {up}
        /\ v.evictable = Total(Sizes(v), v.lru)
        /\ \A m \in Nodes(u) : LockOf(v, m) = LockOf(u, m)
    BY <2>1, <1>3, <1>7, EnlistFacts
  <2>3. Nodes(v) = Nodes(u)
    BY <2>2 DEF Alike
  <2>4. Listed(v) = Listed(u)
    BY <2>2, Zenon DEF Alike, Listed
  <2>5. ListOK(v)
    BY <2>2, <2>4, <1>3, <1>10, <1>13 DEF ListOK
  <2>6. ShapeLeft(v, a, x, b)
    BY <2>2, <2>3, <1>5, AlikeShape DEF ShapeLeft
  <2>7. Left(t, v)
    <3>1. \A m \in Nodes(v) : /\ ParentOf(v, m) = ParentOf(t, m) /\ KeyOf(v, m) = KeyOf(t, m)
                              /\ TableOf(v, m) = TableOf(t, m) /\ LockOf(v, m) = LockOf(t, m)
      BY <2>2, <2>3, <1>11 DEF Left, Alike
    <3> QED BY <3>1, <2>3, <1>11 DEF Left
  <2> QED BY <2>3, <2>5, <2>6, <2>7, <1>4
<1> QED BY <1>12, <1>13

\* q is p after the blocks that left the tree were freed.
Emptied(t, p, u, q) ==
  /\ PoolOK(q)
  /\ \A e \in Block : q.ref_cnt[e] = IF InTree(t, e) /\ ~InTree(u, e) THEN 0 ELSE p.ref_cnt[e]

\* What eviction has done to tree t and pool p.
Evicted(t, p, a, x, b, u, q) ==
  /\ ShapeLeft(u, a, x, b) /\ ListOK(u) /\ Left(t, u)
  /\ Emptied(t, p, u, q) /\ Separate(u) /\ Loose(u, q)
EvictState(t, p, a, x, b, r) ==
  /\ r.ok /\ r.freed \in Nat /\ num_free(p) \in Nat /\ num_free(r.pool) = num_free(p) + r.freed
  /\ Evicted(t, p, a, x, b, r.tree, r.pool)

\* Two steps that only take nodes away make one.
LEMMA LeftTransitive ==
  ASSUME NEW t, NEW u, NEW v, Left(t, u), Left(u, v)
  PROVE  Left(t, v)
<1>1. Nodes(v) \subseteq Nodes(t)
  BY DEF Left
<1>2. ASSUME NEW n \in Nodes(t) \ Nodes(v) PROVE LockOf(t, n) = 0
  <2>1. CASE n \in Nodes(u)
    <3>1. LockOf(u, n) = 0 /\ LockOf(u, n) = LockOf(t, n)
      BY <2>1 DEF Left
    <3> QED BY <3>1
  <2>2. CASE n \notin Nodes(u)
    BY <2>2 DEF Left
  <2> QED BY <2>1, <2>2
<1>3. \A n \in Nodes(v) : /\ ParentOf(v, n) = ParentOf(t, n) /\ KeyOf(v, n) = KeyOf(t, n)
                          /\ TableOf(v, n) = TableOf(t, n) /\ LockOf(v, n) = LockOf(t, n)
  BY DEF Left
<1> QED BY <1>1, <1>2, <1>3 DEF Left

\* A tree with nodes taken away records no other blocks.
LEMMA LeftInTree ==
  ASSUME NEW t, NEW u, Left(t, u)
  PROVE  /\ \A e : InTree(u, e) => InTree(t, e)
         /\ Separate(t) => Separate(u)
<1>1. Nodes(u) \subseteq Nodes(t) /\ \A n \in Nodes(u) : TableOf(u, n) = TableOf(t, n)
  BY DEF Left
<1>2. \A e : InTree(u, e) => InTree(t, e)
  BY <1>1 DEF InTree
<1>3. ASSUME Separate(t), NEW n \in Nodes(u), NEW q \in Nodes(u), NEW e \in Block,
             Contains(TableOf(u, n), e), Contains(TableOf(u, q), e)
      PROVE  n = q
  <2>1. n \in Nodes(t) /\ q \in Nodes(t) /\ Contains(TableOf(t, n), e) /\ Contains(TableOf(t, q), e)
    BY <1>1, <1>3
  <2> QED BY <2>1, <1>3 DEF Separate
<1> QED BY <1>2, <1>3 DEF Separate

\* One eviction more.
LEMMA EvictGoesOn ==
  ASSUME NEW t, NEW p, NEW a, NEW x, NEW b, NEW r, EvictState(t, p, a, x, b, r), r.tree.lru # <<>>
  PROVE  EvictState(t, p, a, x, b, EvictOne(r))
<1> DEFINE t1 == r.tree
           q1 == r.pool
           n == Head(t1.lru)
           D == Nodes(t1)
           a1 == Only(a, D)
           x1 == Only(x, D)
           b1 == Only(b, D)
           table == TableOf(t1, n)
           w == EvictOne(r)
           v == w.tree
           q == w.pool
<1>1. /\ r.ok /\ r.freed \in Nat /\ num_free(p) \in Nat /\ num_free(q1) = num_free(p) + r.freed
      /\ Shape(t1, a1, x1, b1) /\ ListOK(t1) /\ Left(t, t1)
      /\ PoolOK(q1) /\ Separate(t1) /\ Loose(t1, q1)
      /\ \A e \in Block : q1.ref_cnt[e] = IF InTree(t, e) /\ ~InTree(t1, e) THEN 0 ELSE p.ref_cnt[e]
  BY Zenon DEF EvictState, Evicted, ShapeLeft, Emptied
<1>2. Evictee(t1, n)
  BY DEF Evictee
<1>3. q = Free(q1, table).pool /\ w.freed = r.freed + Len(table) /\ w.ok = Free(q1, table).ok
  BY EvictOneIs, Zenon
<1> HIDE DEF n, a1, x1, b1
<1>4. ShapeLeft(v, a1, x1, b1) /\ ListOK(v) /\ Left(t1, v) /\ Nodes(v) = D \ {n}
  <2> HIDE DEF v, t1
  <2>1. t1 = r.tree /\ v = EvictOne(r).tree
    BY DEF v, t1
  <2>2. TreeEvicted(t1, v, a1, x1, b1, n)
    BY <1>1, <1>2, <2>1, EvictedTree
  <2> QED BY <2>2 DEF D, TreeEvicted
<1>5. n \in D /\ LockOf(t1, n) = 0
  BY <1>1, <1>2, EvicteeFacts
<1>6. table \in Table
  BY <1>1, <1>5, NodeFacts
<1> HIDE DEF w, v, q, t1, q1, table, D
<1>7. \A e \in Block : Contains(table, e) => q1.ref_cnt[e] = 1
  BY <1>1, <1>5 DEF Loose, table, D
<1>8. /\ Free(q1, table).ok /\ PoolOK(q)
      /\ \A e \in Block : q.ref_cnt[e] = IF Contains(table, e) THEN 0 ELSE q1.ref_cnt[e]
      /\ num_free(q) = num_free(q1) + Len(table)
  BY <1>1, <1>3, <1>6, <1>7, FreedTable
<1>9. w.ok /\ w.freed \in Nat /\ num_free(p) \in Nat /\ num_free(q) = num_free(p) + w.freed
  <2>1. Len(table) \in Nat
    BY <1>6 DEF Table
  <2> QED BY <2>1, <1>1, <1>3, <1>8
<1>10. ShapeLeft(v, a, x, b)
  <2>1. Nodes(v) \subseteq D
    BY <1>4
  <2>2. Only(a1, Nodes(v)) = Only(a, Nodes(v)) /\ Only(x1, Nodes(v)) = Only(x, Nodes(v))
        /\ Only(b1, Nodes(v)) = Only(b, Nodes(v))
    BY <2>1, OnlyOnly DEF a1, x1, b1
  <2> QED BY <2>2, <1>4 DEF ShapeLeft
<1>11. Left(t, v)
  BY <1>1, <1>4, LeftTransitive
<1>12. ASSUME NEW e \in Block PROVE InTree(v, e) <=> InTree(t1, e) /\ ~Contains(table, e)
  <2>1. \A m \in Nodes(v) : m \in D /\ m # n /\ TableOf(v, m) = TableOf(t1, m)
    BY <1>4 DEF Left
  <2>2. ASSUME InTree(v, e) PROVE InTree(t1, e) /\ ~Contains(table, e)
    <3>1. PICK m \in Nodes(v) : Contains(TableOf(v, m), e)
      BY <2>2 DEF InTree
    <3>2. m \in D /\ m # n /\ Contains(TableOf(t1, m), e)
      BY <2>1, <3>1
    <3>3. ~Contains(table, e)
      BY <3>2, <1>1, <1>5 DEF Separate, table, D
    <3> QED BY <3>2, <3>3 DEF InTree, D
  <2>3. ASSUME InTree(t1, e), ~Contains(table, e) PROVE InTree(v, e)
    <3>1. PICK m \in D : Contains(TableOf(t1, m), e)
      BY <2>3 DEF InTree, D
    <3>2. m # n
      BY <3>1, <2>3 DEF table
    <3>3. m \in Nodes(v)
      BY <3>2, <1>4
    <3> QED BY <3>1, <3>3, <2>1 DEF InTree
  <2> QED BY <2>2, <2>3
<1>13. Emptied(t, p, v, q)
  <2>1. \A e : InTree(t1, e) => InTree(t, e)
    BY <1>1, LeftInTree
  <2>2. \A e : Contains(table, e) => InTree(t1, e)
    BY <1>5 DEF InTree, table, D
  <2>3. ASSUME NEW e \in Block PROVE q.ref_cnt[e] = IF InTree(t, e) /\ ~InTree(v, e) THEN 0 ELSE p.ref_cnt[e]
    <3>1. CASE Contains(table, e)
      BY <3>1, <1>8, <1>12, <2>1, <2>2
    <3>2. CASE ~Contains(table, e)
      BY <3>2, <1>1, <1>8, <1>12
    <3> QED BY <3>1, <3>2
  <2> QED BY <2>3, <1>8 DEF Emptied
<1>14. Separate(v)
  BY <1>1, <1>4, LeftInTree
<1>15. Loose(v, q)
  <2> SUFFICES ASSUME NEW m \in Nodes(v), LockOf(v, m) = 0, NEW e \in Block, Contains(TableOf(v, m), e)
               PROVE  q.ref_cnt[e] = 1
    BY DEF Loose
  <2>1. m \in D /\ LockOf(t1, m) = 0 /\ Contains(TableOf(t1, m), e) /\ InTree(v, e)
    BY <1>4 DEF Left, InTree
  <2>2. q1.ref_cnt[e] = 1
    BY <2>1, <1>1 DEF Loose, D
  <2> QED BY <2>1, <2>2, <1>8, <1>12
<1>16. Evicted(t, p, a, x, b, v, q)
  BY <1>4, <1>10, <1>11, <1>13, <1>14, <1>15 DEF Evicted
<1> QED BY <1>9, <1>16, Zenon DEF EvictState, w, v, q

\* Before the first eviction.
LEMMA EvictStarts ==
  ASSUME NEW t, NEW p, NEW a, NEW x, NEW b, Shape(t, a, x, b), ListOK(t), PoolOK(p), Separate(t), Loose(t, p)
  PROVE  EvictState(t, p, a, x, b, EvictStart(t, p))
<1> DEFINE r == EvictStart(t, p)
<1>1. r.tree = t /\ r.pool = p /\ r.ok /\ r.freed = 0
  BY DEF EvictStart
<1> HIDE DEF r
<1>2. num_free(p) = num_free(p) + 0 /\ num_free(p) \in Nat
  <2>1. num_free(p) \in Nat
    BY FreeCount
  <2> QED BY <2>1
<1>3. Only(a, Nodes(t)) = a /\ Only(x, Nodes(t)) = x /\ Only(b, Nodes(t)) = b
  <2>1. SpanTypes(Nodes(t), a, x, b)
    BY ShapeByNode, Zenon
  <2> QED BY <2>1 DEF SpanTypes, Only
<1>4. ShapeLeft(t, a, x, b)
  BY <1>3 DEF ShapeLeft
<1>5. Left(t, t) /\ Emptied(t, p, t, p)
  BY DEF Left, Emptied
<1>6. Evicted(t, p, a, x, b, t, p)
  BY <1>4, <1>5 DEF Evicted
<1> QED BY <1>1, <1>2, <1>6 DEF EvictState, r

\* evict: as many blocks as it answers have become free, and what is left of
\* the tree is right.
LEMMA EvictFacts ==
  ASSUME NEW t, NEW p, NEW a, NEW x, NEW b, Shape(t, a, x, b), ListOK(t), PoolOK(p), Separate(t), Loose(t, p),
         NEW need
  PROVE  EvictState(t, p, a, x, b, Evict(t, need, p))
<1> DEFINE n == Cardinality(Nodes(t))
<1>1. n \in Nat
  BY FS_CardinalityType DEF Shape, IsTree
<1>2. \E f : /\ f[0] = EvictStart(t, p)
             /\ \A i \in 1 .. n : f[i] = EvictTurn(need, f[i - 1])
             /\ Evict(t, need, p) = f[n]
  BY <1>1, EvictRuns
<1> HIDE DEF n
<1>3. PICK f : /\ f[0] = EvictStart(t, p)
               /\ \A i \in 1 .. n : f[i] = EvictTurn(need, f[i - 1])
               /\ Evict(t, need, p) = f[n]
  BY <1>2
<1> DEFINE S == {i \in 0 .. n : EvictState(t, p, a, x, b, f[i])}
<1>4. 0 \in S
  BY <1>1, <1>3, EvictStarts
<1>5. ASSUME NEW i \in 0 .. n - 1, i \in S PROVE i + 1 \in S
  <2>1. i + 1 \in 1 .. n /\ (i + 1) - 1 = i /\ i + 1 \in 0 .. n
    BY <1>1
  <2>2. f[i + 1] = EvictTurn(need, f[i]) /\ EvictState(t, p, a, x, b, f[i])
    BY <1>3, <1>5, <2>1
  <2>3. CASE f[i].ok /\ f[i].freed < need /\ f[i].tree.lru # <<>>
    <3>1. EvictState(t, p, a, x, b, EvictOne(f[i]))
      BY <2>2, <2>3, EvictGoesOn
    <3> QED BY <2>1, <2>2, <2>3, <3>1 DEF EvictTurn
  <2>4. CASE ~(f[i].ok /\ f[i].freed < need /\ f[i].tree.lru # <<>>)
    BY <2>1, <2>2, <2>4 DEF EvictTurn
  <2> QED BY <2>3, <2>4
<1>6. \A i \in 0 .. n : i \in S
  <2> HIDE DEF S
  <2> QED BY <1>1, <1>4, <1>5, BoundedInduction
<1>7. n \in 0 .. n
  BY <1>1
<1> QED BY <1>3, <1>6, <1>7

\* A node somebody pins is still there after eviction, with its tokens and blocks.
LEMMA PinnedStays ==
  ASSUME NEW t, NEW p, NEW cl, NEW ct, NEW a, NEW x, NEW b, NEW y, Base(t, p, cl, ct, a, x, b, <<>>, y),
         NEW u, Left(t, u)
  PROVE  /\ y \in Nodes(u) \cup {NoParent}
         /\ \A c \in RunningIn(cl) : cl[c].node \in Nodes(t) => cl[c].node \in Nodes(u)
<1> DEFINE none == <<>>
<1>1. Base(t, p, cl, ct, a, x, b, none, y)
  OBVIOUS
<1> HIDE DEF none
<1>2. ASSUME NEW z \in Nodes(t), z \notin Nodes(u)
      PROVE  z # y /\ \A c \in RunningIn(cl) : cl[c].node # z
  <2>1. LockOf(t, z) = 0
    BY <1>2 DEF Left
  <2>2. (\A c \in RunningIn(cl) : ~PinsAt(a, cl[c].node, z)) /\ ~PinsAt(a, y, z)
    BY <1>1, <2>1, Unpinned
  <2>3. PinsAt(a, z, z)
    <3>1. Shape(t, a, x, b)
      BY <1>1 DEF Base
    <3>2. z # NoParent
      BY <3>1, NodesNatural
    <3>3. z \in a[z]
      BY <3>1, AboveFacts
    <3> QED BY <3>2, <3>3 DEF PinsAt
  <2> QED BY <2>2, <2>3
<1>3. y \in Nodes(t) \cup {NoParent}
  BY <1>1 DEF Base, InHand
<1> QED BY <1>2, <1>3

\* Evicting what nobody pins leaves a right state.
LEMMA ShrinkBase ==
  ASSUME NEW t, NEW p, NEW cl, NEW ct, NEW a, NEW x, NEW b, NEW y, Base(t, p, cl, ct, a, x, b, <<>>, y),
         NEW u, NEW q, Evicted(t, p, a, x, b, u, q)
  PROVE  Base(u, q, cl, ct, Only(a, Nodes(u)), Only(x, Nodes(u)), Only(b, Nodes(u)), <<>>, y)
<1> DEFINE none == <<>>
           a2 == Only(a, Nodes(u))
           x2 == Only(x, Nodes(u))
           b2 == Only(b, Nodes(u))
<1>1. Base(t, p, cl, ct, a, x, b, none, y)
  OBVIOUS
<1>2. \A e : ~Contains(none, e)
  BY NoBlocks
<1>3. /\ Shape(u, a2, x2, b2) /\ ListOK(u) /\ Left(t, u) /\ PoolOK(q) /\ Separate(u)
      /\ \A e \in Block : q.ref_cnt[e] = IF InTree(t, e) /\ ~InTree(u, e) THEN 0 ELSE p.ref_cnt[e]
  BY Zenon DEF Evicted, ShapeLeft, Emptied
<1>4. \A n \in Nodes(u) : a2[n] = a[n] /\ x2[n] = x[n] /\ b2[n] = b[n]
  BY DEF Only
<1>5. /\ Nodes(u) \subseteq Nodes(t)
      /\ \A n \in Nodes(u) : TableOf(u, n) = TableOf(t, n) /\ LockOf(u, n) = LockOf(t, n)
      /\ \A n \in Nodes(t) \ Nodes(u) : LockOf(t, n) = 0
  BY <1>3 DEF Left
<1>6. y \in Nodes(u) \cup {NoParent} /\ \A c \in RunningIn(cl) : cl[c].node \in Nodes(t) => cl[c].node \in Nodes(u)
  BY <1>3, PinnedStays
<1> HIDE DEF none, a2, x2, b2
<1>7. \A e : InTree(u, e) => InTree(t, e)
  BY <1>3, LeftInTree
<1>8. ASSUME NEW e \in Block, InTree(t, e), ~InTree(u, e) PROVE Holders(cl, e) = {}
  <2>1. PICK n \in Nodes(t) : Contains(TableOf(t, n), e)
    BY <1>8 DEF InTree
  <2>2. n \notin Nodes(u)
    BY <1>5, <1>8, <2>1 DEF InTree
  <2>3. LockOf(t, n) = 0
    BY <1>5, <2>2
  <2>4. \A c \in RunningIn(cl) : ~PinsAt(a, cl[c].node, n)
    BY <1>1, <2>3, Unpinned
  <2> QED BY <1>1, <2>1, <2>4, Unheld
<1>9. Placed(u, cl, x2, b2)
  <2>1. cl = [c \in Client |-> cl[c]] /\ IsFiniteSet(RunningIn(cl))
    BY <1>1, Zenon DEF Base, Placed
  <2>2. \A n \in Nodes(u) : Told(x2[n])
    BY <1>1, <1>4, <1>5 DEF Base, Placed
  <2>3. ASSUME NEW c \in RunningIn(cl) PROVE ClientOK(cl[c], u, x2, b2)
    <3> DEFINE k == cl[c]
    <3>1. ClientOK(k, t, x, b) /\ (k.node \in Nodes(t) => k.node \in Nodes(u))
      BY <1>1, <1>6 DEF Base, Placed
    <3> HIDE DEF k
    <3>2. Matches(k, u, x2, b2)
      <4>1. Matches(k, t, x, b)
        BY <3>1, Zenon DEF ClientOK
      <4>2. CASE k.matched = 0
        BY <4>1, <4>2 DEF Matches
      <4>3. CASE k.matched # 0
        <5>1. /\ k.node \in Nodes(t) \ {Root} /\ k.matched <= Len(b[k.node])
              /\ Agree(x[k.node], k.tokens, Span(k.matched))
              /\ \A i \in 1 .. k.matched : k.table[i] = b[k.node][i]
          BY <4>1, <4>3, Zenon DEF Matches
        <5>2. k.node \in Nodes(u) /\ x2[k.node] = x[k.node] /\ b2[k.node] = b[k.node]
          BY <5>1, <3>1, <1>4
        <5> QED BY <5>1, <5>2, <4>3, Zenon DEF Matches
      <4> QED BY <4>2, <4>3
    <3> QED BY <3>1, <3>2, <1>7 DEF ClientOK, k
  <2>4. ASSUME NEW c \in RunningIn(cl), NEW d \in RunningIn(cl), c # d PROVE Apart2(cl[c], cl[d], u)
    <3> SUFFICES ASSUME NEW e \in Block, Contains(cl[c].table, e), Contains(cl[d].table, e) PROVE InTree(u, e)
      BY DEF Apart2
    <3>1. InTree(t, e)
      BY <1>1, <2>4, Zenon DEF Base, Placed, Apart2
    <3>2. c \in Holders(cl, e)
      BY Zenon DEF Holders
    <3> QED BY <3>1, <3>2, <1>8
  <2> QED BY <1>3, <2>1, <2>2, <2>3, <2>4, Zenon DEF Placed
<1>10. Stored(u, cl, ct, x2, b2)
  <2>1. TreeStored(t, ct, x, b) /\ \A c \in RunningIn(cl) : ClientStored(cl[c], ct)
    BY <1>1 DEF Base, Stored
  <2>2. TreeStored(u, ct, x2, b2)
    <3> SUFFICES ASSUME NEW n \in Nodes(u), NEW i \in 1 .. Len(b2[n]) PROVE ct[b2[n][i]] = SubSeq(x2[n], 1, Span(i))
      BY DEF TreeStored
    <3>1. n \in Nodes(t) /\ x2[n] = x[n] /\ b2[n] = b[n]
      BY <1>4, <1>5
    <3>2. \A m \in Nodes(t) : \A j \in 1 .. Len(b[m]) : ct[b[m][j]] = SubSeq(x[m], 1, Span(j))
      BY <2>1, Zenon DEF TreeStored
    <3> QED BY <3>1, <3>2, Zenon
  <2> QED BY <2>1, <2>2 DEF Stored
<1>11. InHand(u, none, y)
  BY <1>1, <1>6 DEF Base, InHand
<1>12. Refs(u, q, cl, none)
  <2> SUFFICES ASSUME NEW e \in Block PROVE q.ref_cnt[e] = RefAt(u, cl, none, e)
    BY DEF Refs
  <2>1. p.ref_cnt[e] = RefAt(t, cl, none, e)
    BY <1>1 DEF Base, Refs
  <2>2. CASE InTree(t, e) /\ ~InTree(u, e)
    <3>1. Cardinality(Holders(cl, e)) = 0
      BY <1>8, <2>2, FS_EmptySet
    <3>2. RefAt(u, cl, none, e) = 0 + 0 + 0
      BY <1>2, <2>2, <3>1 DEF RefAt
    <3> QED BY <3>2, <2>2, <1>3
  <2>3. CASE ~(InTree(t, e) /\ ~InTree(u, e))
    <3>1. InTree(t, e) <=> InTree(u, e)
      BY <1>7, <2>3
    <3>2. RefAt(u, cl, none, e) = RefAt(t, cl, none, e)
      BY <3>1 DEF RefAt
    <3> QED BY <3>2, <2>1, <2>3, <1>3
  <2> QED BY <2>2, <2>3
<1>13. Pins(u, a2, cl, y)
  <2> SUFFICES ASSUME NEW n \in Nodes(u) PROVE LockOf(u, n) = PinAt(a2, cl, y, n)
    BY DEF Pins
  <2>1. LockOf(u, n) = PinAt(a, cl, y, n)
    BY <1>1, <1>5 DEF Base, Pins
  <2>2. ASSUME NEW z \in Nodes(u) \cup {NoParent} PROVE PinsAt(a2, z, n) <=> PinsAt(a, z, n)
    BY <1>4 DEF PinsAt
  <2>3. \A c \in RunningIn(cl) : cl[c].node \in Nodes(u) \cup {NoParent}
    <3>1. \A c \in RunningIn(cl) : cl[c].node \in Nodes(t) \cup {NoParent}
      BY <1>1, HandNode DEF Base, Placed
    <3> QED BY <3>1, <1>6
  <2>4. Pinners(cl, a2, n) = Pinners(cl, a, n)
    BY <2>2, <2>3 DEF Pinners
  <2>5. PinsAt(a2, y, n) <=> PinsAt(a, y, n)
    BY <2>2, <1>6
  <2> QED BY <2>1, <2>4, <2>5 DEF PinAt
<1>14. Base(u, q, cl, ct, a2, x2, b2, none, y)
  BY <1>3, <1>9, <1>10, <1>11, <1>12, <1>13 DEF Base
<1> QED BY <1>14 DEF none, a2, x2, b2

\* The blocks of a chain are distinct, when no block is in two nodes.
LEMMA ChainDistinct ==
  ASSUME NEW t, NEW a, NEW x, NEW b, Shape(t, a, x, b), Separate(t), NEW n \in Nodes(t)
  PROVE  b[n] \in Table
<1> DEFINE s == b[n]
<1>1. s \in Seq(Block)
  BY NodeFacts
<1>2. ASSUME NEW i \in 1 .. Len(s), NEW j \in 1 .. Len(s), s[i] = s[j] PROVE i = j
  <2>1. i \in Nat /\ j \in Nat
    OBVIOUS
  <2>2. \E d \in a[n] : Owns(t, b, d, i)
    BY Owner
  <2>3. \E d \in a[n] : Owns(t, b, d, j)
    BY Owner
  <2>4. PICK d \in a[n] : Owns(t, b, d, i)
    BY <2>2
  <2>5. PICK f \in a[n] : Owns(t, b, f, j)
    BY <2>3
  <2>6. d \in Nodes(t) /\ s[i] = b[d][i] /\ Contains(TableOf(t, d), s[i])
    BY <2>1, <2>4, OwnerFacts
  <2>7. f \in Nodes(t) /\ s[j] = b[f][j] /\ Contains(TableOf(t, f), s[j])
    BY <2>1, <2>5, OwnerFacts
  <2>8. d = f
    <3>1. s[i] \in Block
      BY <1>1
    <3> HIDE DEF s
    <3> QED BY <3>1, <1>2, <2>6, <2>7 DEF Separate
  <2> DEFINE r == LedOf(t, b, d)
             w == TableOf(t, d)
             v == b[d]
  <2>9. r \in Seq(Block) /\ Joined(v, r, w) /\ w \in Seq(Block) /\ NoDuplicates(w) /\ v \in Seq(Block)
    BY <2>6, Leads, NodeFacts
  <2>10. Len(r) < i /\ i <= Len(v) /\ Len(r) < j /\ j <= Len(v)
    BY <2>4, <2>5, <2>8 DEF Owns
  <2>11. v[i] = v[j]
    BY <1>2, <2>6, <2>7, <2>8
  <2> HIDE DEF r, w, v, s
  <2>12. Len(v) = Len(r) + Len(w) /\ \A k \in 1 .. Len(w) : v[Len(r) + k] = w[k]
    BY <2>9 DEF Joined
  <2>13. Len(r) \in Nat /\ Len(w) \in Nat
    BY <2>9
  <2> DEFINE p == i - Len(r)
             q == j - Len(r)
  <2>14. p \in 1 .. Len(w) /\ q \in 1 .. Len(w) /\ i = Len(r) + p /\ j = Len(r) + q
    BY <2>1, <2>10, <2>12, <2>13
  <2> HIDE DEF p, q
  <2>15. w[p] = w[q]
    BY <2>11, <2>12, <2>14
  <2>16. p = q
    BY <2>9, <2>14, <2>15 DEF NoDuplicates
  <2> QED BY <2>14, <2>16
<1> QED BY <1>1, <1>2 DEF Table, NoDuplicates

\* What a match of the tokens finds: the blocks r of the first of them, those
\* of node n and the ones above it, short of the last token.
Matched(t, x, b, tokens, n, r) ==
  /\ n \in Nodes(t) /\ r \in Table /\ Len(r) \in Nat /\ Len(r) <= Len(b[n])
  /\ \A i \in 1 .. Len(r) : r[i] = b[n][i]
  /\ Agree(x[n], tokens, Span(Len(r))) /\ Span(Len(r)) < Len(tokens)
  /\ r # <<>> => n # Root

\* The tokens but the last, which admission matches.
LEMMA FrontFacts ==
  ASSUME NEW tokens \in TokenSeqs
  PROVE  /\ tokens \in Seq(Int) /\ Len(tokens) \in Nat \ {0}
         /\ Front(tokens) \in Seq(Int) /\ Len(Front(tokens)) = Len(tokens) - 1
         /\ Begins(tokens, Front(tokens)) /\ Told(tokens) /\ Told(Front(tokens))
<1>1. tokens \in Seq(Int) /\ tokens # <<>>
  BY RadixCacheAssumption
<1>2. Len(tokens) \in Nat \ {0}
  BY <1>1
<1>3. /\ Front(tokens) \in Seq(Int) /\ Len(Front(tokens)) = Len(tokens) - 1
      /\ \A i \in 1 .. Len(tokens) - 1 : Front(tokens)[i] = tokens[i]
  <2> DEFINE n == Len(tokens) - 1
             s == SubSeq(tokens, 1, n)
  <2>1. n \in Nat /\ n <= Len(tokens)
    BY <1>2
  <2>2. Front(tokens) = s
    BY DEF Front
  <2> HIDE DEF n
  <2>3. s \in Seq(Int) /\ Len(s) = n /\ \A k \in 1 .. n : s[k] = tokens[k]
    BY <1>1, <2>1, Cut
  <2> QED BY <2>2, <2>3 DEF n
<1>4. Begins(tokens, Front(tokens)) /\ Begins(tokens, tokens)
  BY <1>2, <1>3 DEF Begins
<1> QED BY <1>1, <1>2, <1>3, <1>4 DEF Told

\* match_prefix of all the tokens but the last.
LEMMA MatchFacts ==
  ASSUME PartAtBlocks, NEW t, NEW a, NEW x, NEW b, Shape(t, a, x, b), ListOK(t), Separate(t),
         \A n \in Nodes(t) : Told(x[n]), NEW tokens \in TokenSeqs
  PROVE  LET m == MatchPrefix(t, Front(tokens))
         IN  /\ Kept(t, TRUE, m.tree) /\ Matched(t, x, b, tokens, m.node, m.blocks)
             /\ \E k, l : Ended(t, x, b, Front(tokens), m.node, k, l, m.blocks)
<1> DEFINE u == Front(tokens)
           w == Descend(t, u, TRUE)
           m == MatchPrefix(t, u)
           n == w.now
           k == w.length
           r == w.blocks
<1>1. m.tree = w.tree /\ m.node = n /\ m.blocks = r
  BY DEF MatchPrefix
<1>2. /\ tokens \in Seq(Int) /\ Len(tokens) \in Nat \ {0} /\ u \in Seq(Int) /\ Len(u) = Len(tokens) - 1
      /\ Begins(tokens, u) /\ Told(u)
  BY FrontFacts
<1> HIDE DEF m
<1> HIDE DEF u
<1>3. Kept(t, TRUE, w.tree) /\ Ended(t, x, b, u, n, k, w.m, r)
  <2> HIDE DEF w
  <2>1. w = Descend(t, u, TRUE)
    BY DEF w
  <2>2. TRUE \in BOOLEAN
    OBVIOUS
  <2> QED BY <1>2, <2>1, <2>2, DescendFacts
<1> HIDE DEF w, n, k, r
<1>4. /\ n \in Nodes(t) /\ k \in Nat /\ k = Span(Len(r)) /\ k <= Aligned(Len(u)) /\ k <= Len(x[n])
      /\ Agree(x[n], u, k)
      /\ r = SubSeq(b[n], 1, Len(r)) /\ Len(r) \in Nat /\ Len(r) <= Len(b[n])
  BY <1>3, Zenon DEF Ended
<1>5. Aligned(Len(u)) <= Len(u) /\ Aligned(Len(u)) \in Nat /\ Len(u) \in Nat
  <2>1. Len(u) \in Nat
    BY <1>2
  <2> QED BY <2>1, AlignedLength
<1>6. k <= Len(u) /\ k < Len(tokens)
  BY <1>2, <1>4, <1>5
<1>7. Agree(x[n], tokens, k)
  <2>1. \A j \in 1 .. k : j \in 1 .. Len(u)
    BY <1>4, <1>5, <1>6
  <2> QED BY <2>1, <1>2, <1>4 DEF Agree, Begins
<1>8. r \in Table /\ \A i \in 1 .. Len(r) : r[i] = b[n][i]
  <2>1. b[n] \in Table
    BY <1>4, ChainDistinct
  <2> DEFINE v == b[n]
             c == Len(r)
  <2>2. v \in Table /\ c \in Nat /\ c <= Len(v) /\ r = SubSeq(v, 1, c)
    BY <2>1, <1>4
  <2> HIDE DEF v, c
  <2>3. SubSeq(v, 1, c) \in Table
    BY <2>2, CutTable
  <2>4. \A i \in 1 .. c : SubSeq(v, 1, c)[i] = v[i]
    BY <2>2, Cut DEF Table
  <2> QED BY <2>2, <2>3, <2>4 DEF v, c
<1>9. r # <<>> => n # Root
  <2> SUFFICES ASSUME n = Root PROVE r = <<>>
    OBVIOUS
  <2>1. x[n] = <<>> /\ b[n] = <<>>
    BY DEF Shape, Spanned
  <2>2. Len(r) = 0
    BY <2>1, <1>4
  <2> QED BY <2>2, <1>8 DEF Table
<1>10. Matched(t, x, b, tokens, n, r)
  BY <1>4, <1>6, <1>7, <1>8, <1>9 DEF Matched
<1> QED BY <1>1, <1>3, <1>10 DEF m, u

\* What a request to be admitted has from its match: the blocks r of the first
\* of its tokens, and the pin y of the node they end in, if there are any.
PinOf(n, r) == IF r = <<>> THEN NoParent ELSE n
Lent(t, x, b, tokens, y, r) ==
  /\ tokens \in TokenSeqs /\ r \in Table /\ Len(r) \in Nat /\ Span(Len(r)) < Len(tokens)
  /\ r = <<>> => y = NoParent
  /\ r # <<>> => /\ y \in Nodes(t) \ {Root} /\ Len(r) <= Len(b[y])
                 /\ Agree(x[y], tokens, Span(Len(r)))
                 /\ \A i \in 1 .. Len(r) : r[i] = b[y][i]

\* A match lends its blocks.
LEMMA MatchedLent ==
  ASSUME NEW t, NEW x, NEW b, NEW tokens \in TokenSeqs, NEW n, NEW r, Matched(t, x, b, tokens, n, r)
  PROVE  Lent(t, x, b, tokens, PinOf(n, r), r)
BY Zenon DEF Matched, Lent, PinOf

\* What is lent stays while the node it is lent from stays.
LEMMA LentLeft ==
  ASSUME NEW t, NEW x, NEW b, NEW tokens, NEW y, NEW r, Lent(t, x, b, tokens, y, r),
         NEW u, Left(t, u), y \in Nodes(u) \cup {NoParent}, NoParent \notin Nodes(t)
  PROVE  Lent(u, Only(x, Nodes(u)), Only(b, Nodes(u)), tokens, y, r)
<1> DEFINE x2 == Only(x, Nodes(u))
           b2 == Only(b, Nodes(u))
<1>1. /\ tokens \in TokenSeqs /\ r \in Table /\ Len(r) \in Nat /\ Span(Len(r)) < Len(tokens)
      /\ r = <<>> => y = NoParent
  BY Zenon DEF Lent
<1>2. ASSUME r # <<>>
      PROVE  /\ y \in Nodes(u) \ {Root} /\ Len(r) <= Len(b2[y])
             /\ Agree(x2[y], tokens, Span(Len(r))) /\ \A i \in 1 .. Len(r) : r[i] = b2[y][i]
  <2>1. /\ y \in Nodes(t) \ {Root} /\ Len(r) <= Len(b[y])
        /\ Agree(x[y], tokens, Span(Len(r))) /\ \A i \in 1 .. Len(r) : r[i] = b[y][i]
    BY <1>2, Zenon DEF Lent
  <2>2. y \in Nodes(u) \ {Root}
    BY <2>1
  <2>3. x2[y] = x[y] /\ b2[y] = b[y]
    BY <2>2 DEF Only
  <2> HIDE DEF x2, b2
  <2> QED BY <2>1, <2>2, <2>3, Zenon
<1> HIDE DEF x2, b2
<1>3. Lent(u, x2, b2, tokens, y, r)
  BY <1>1, <1>2, Zenon DEF Lent
<1> QED BY <1>3 DEF x2, b2

\* What is lent stays in a tree of the same nodes.
LEMMA LentAlike ==
  ASSUME NEW t, NEW x, NEW b, NEW tokens, NEW y, NEW r, Lent(t, x, b, tokens, y, r), NEW u, Nodes(u) = Nodes(t)
  PROVE  Lent(u, x, b, tokens, y, r)
BY Zenon DEF Lent

\* The state of an admission that has its match pinned and has evicted.
Ready(t, p, cl, ct, a, x, b, tokens, y, r) ==
  Base(t, p, cl, ct, a, x, b, <<>>, y) /\ Lent(t, x, b, tokens, y, r)
ReadyState(t, p, cl, ct, tokens, y, r) == \E a, x, b : Ready(t, p, cl, ct, a, x, b, tokens, y, r)
BaseState(t, p, cl, ct) == \E a, x, b : Base(t, p, cl, ct, a, x, b, <<>>, NoParent)

\* The match and the pin.
LEMMA PinReady ==
  ASSUME PartAtBlocks, NEW a, NEW x, NEW b, Base(tree, pool, client, content, a, x, b, <<>>, NoParent),
         NEW tokens \in TokenSeqs
  PROVE  LET m == MatchPrefix(tree, Front(tokens))
         IN  /\ Base(m.tree, pool, client, content, a, x, b, <<>>, NoParent)
             /\ Ready(Pin(m), pool, client, content, a, x, b, tokens, PinOf(m.node, m.blocks), m.blocks)
             /\ SameBlocks(tree, m.tree) /\ SameBlocks(tree, Pin(m))
<1> DEFINE m == MatchPrefix(tree, Front(tokens))
           none == <<>>
           n == m.node
           r == m.blocks
           u == m.tree
           y == PinOf(n, r)
<1>1. Base(tree, pool, client, content, a, x, b, none, NoParent)
  OBVIOUS
<1>2. Kept(tree, TRUE, u) /\ Matched(tree, x, b, tokens, n, r)
  <2>1. Shape(tree, a, x, b) /\ ListOK(tree) /\ Separate(tree) /\ \A q \in Nodes(tree) : Told(x[q])
    BY <1>1, Zenon DEF Base, Placed
  <2> QED BY <2>1, MatchFacts
<1> HIDE DEF none
<1>3. Pin(m) = IF r = <<>> THEN u ELSE IncLockRef(u, n)
  BY DEF Pin
<1> DEFINE v == Pin(m)
<1> HIDE DEF u, n, r, m
<1>4. Base(u, pool, client, content, a, x, b, none, NoParent)
  BY <1>1, <1>2, KeptBase
<1>5. Nodes(u) = Nodes(tree)
  BY <1>2 DEF Kept, Nodes
<1>6. n \in Nodes(u)
  BY <1>2, <1>5 DEF Matched
<1>7. Base(v, pool, client, content, a, x, b, none, y) /\ Nodes(v) = Nodes(tree) /\ SameBlocks(u, v)
  <2>1. CASE r = <<>>
    BY <2>1, <1>3, <1>4, <1>5 DEF PinOf, SameBlocks
  <2>2. CASE r # <<>>
    <3>1. Base(IncLockRef(u, n), pool, client, content, a, x, b, none, n)
      BY <1>4, <1>6, PinBase
    <3>2. Nodes(IncLockRef(u, n)) = Nodes(u) /\ SameBlocks(u, IncLockRef(u, n))
      <4>1. Shape(u, a, x, b) /\ ListOK(u)
        BY <1>4 DEF Base
      <4>2. Alike(u, IncLockRef(u, n))
        BY <4>1, <1>6, IncFacts
      <4> QED BY <4>2, AlikeInTree DEF Alike, SameBlocks
    <3> QED BY <2>2, <3>1, <3>2, <1>3, <1>5 DEF PinOf
  <2> QED BY <2>1, <2>2
<1>8. Lent(tree, x, b, tokens, y, r)
  BY <1>2, MatchedLent
<1>9. Lent(v, x, b, tokens, y, r)
  BY <1>7, <1>8, LentAlike
<1>10. Ready(v, pool, client, content, a, x, b, tokens, y, r)
  BY <1>7, <1>9 DEF Ready, none
<1>11. SameBlocks(tree, u)
  BY <1>2 DEF SameBlocks, Kept, InTree, Nodes, TableOf
<1>12. SameBlocks(tree, v)
  BY <1>7, <1>11 DEF SameBlocks
<1> QED BY <1>4, <1>10, <1>11, <1>12 DEF none, n, r, u, m

\* What an admission has before it takes its blocks.
Prepared(tokens, m, e) ==
  /\ ReadyState(e.tree, e.pool, client, content, tokens, PinOf(m.node, m.blocks), m.blocks)
  /\ num_free(e.pool) = num_free(pool) + e.freed
  /\ FewerBlocks(Pin(m), e.tree)

\* The pin and the eviction.
LEMMA EvictReady ==
  ASSUME NEW need, NEW tokens, NEW m,
         NEW a, NEW x, NEW b, Ready(Pin(m), pool, client, content, a, x, b, tokens, PinOf(m.node, m.blocks), m.blocks)
  PROVE  Prepared(tokens, m, PinAndEvict(need, m))
<1> DEFINE y == PinOf(m.node, m.blocks)
           t == Pin(m)
           r == m.blocks
           e == PinAndEvict(need, m)
           none == <<>>
<1>1. Base(t, pool, client, content, a, x, b, none, y) /\ Lent(t, x, b, tokens, y, r)
  BY DEF Ready
<1>2. Shape(t, a, x, b) /\ ListOK(t) /\ PoolOK(pool) /\ Separate(t)
  <2> HIDE DEF t
  <2> QED BY <1>1, Zenon DEF Base, Placed
<1>3. num_free(pool) \in Nat
  BY <1>2, FreeCount
<1>4. CASE num_free(pool) < need
  <2> DEFINE w == Evict(t, need - num_free(pool), pool)
             u == w.tree
             q == w.pool
             a2 == Only(a, Nodes(u))
             x2 == Only(x, Nodes(u))
             b2 == Only(b, Nodes(u))
  <2>1. e = w
    BY <1>4 DEF PinAndEvict
  <2> HIDE DEF t, e
  <2>2. Loose(t, pool)
    BY <1>1, LooseBase DEF none
  <2>3. EvictState(t, pool, a, x, b, w)
    BY <1>2, <2>2, EvictFacts
  <2> HIDE DEF w, y
  <2>4. Evicted(t, pool, a, x, b, u, q) /\ num_free(q) = num_free(pool) + w.freed
    BY <2>3, Zenon DEF EvictState
  <2> HIDE DEF u, q
  <2>5. Base(u, q, client, content, a2, x2, b2, none, y)
    BY <1>1, <2>4, ShrinkBase DEF none
  <2>6. Left(t, u)
    BY <2>4, Zenon DEF Evicted
  <2>7. y \in Nodes(u) \cup {NoParent} /\ NoParent \notin Nodes(t)
    <3>1. y \in Nodes(u) \cup {NoParent}
      BY <2>5 DEF Base, InHand
    <3> QED BY <3>1, <1>2, NodesNatural
  <2>8. Lent(u, x2, b2, tokens, y, r)
    BY <1>1, <2>6, <2>7, LentLeft
  <2> HIDE DEF a2, x2, b2
  <2>9. ReadyState(u, q, client, content, tokens, y, r)
    BY <2>5, <2>8, Zenon DEF ReadyState, Ready, none
  <2>10. e.tree = u /\ e.pool = q /\ e.freed = w.freed
    BY <2>1 DEF u, q
  <2> HIDE DEF r, none
  <2>11. ReadyState(e.tree, e.pool, client, content, tokens, y, r) /\ num_free(e.pool) = num_free(pool) + e.freed
    BY <2>4, <2>9, <2>10
  <2>12. FewerBlocks(t, e.tree)
    BY <2>6, <2>10, LeftInTree DEF FewerBlocks
  <2> QED BY <2>11, <2>12 DEF Prepared, e, y, r, t
<1>5. CASE ~(num_free(pool) < need)
  <2>1. e.tree = t /\ e.pool = pool /\ e.freed = 0
    BY <1>5 DEF PinAndEvict
  <2> HIDE DEF t, e, y
  <2>2. ReadyState(t, pool, client, content, tokens, y, r)
    BY <1>1, Zenon DEF ReadyState, Ready, none
  <2>3. num_free(e.pool) = num_free(pool) + e.freed
    BY <1>3, <2>1
  <2>4. FewerBlocks(t, e.tree)
    BY <2>1 DEF FewerBlocks
  <2> QED BY <2>1, <2>2, <2>3, <2>4 DEF Prepared, e, y, t
<1> QED BY <1>4, <1>5

\* An eviction that falls short is followed by the unpin.
LEMMA RollBackState ==
  ASSUME NEW tokens, NEW m, NEW e, Prepared(tokens, m, e), RollBack(tokens, m, e)
  PROVE  BaseState(tree', pool', client', content') /\ FewerBlocks(Pin(m), tree')
<1> DEFINE y == PinOf(m.node, m.blocks)
           r == m.blocks
           t == e.tree
           p == e.pool
           none == <<>>
<1>1. /\ tree' = IF r = <<>> THEN t ELSE DecLockRef(t, m.node)
      /\ pool' = p /\ client' = client /\ content' = content
  BY DEF RollBack
<1>2. PICK a, x, b : Ready(t, p, client, content, a, x, b, tokens, y, r)
  BY Zenon DEF Prepared, ReadyState
<1> HIDE DEF t, p
<1>3. Base(t, p, client, content, a, x, b, none, y) /\ Lent(t, x, b, tokens, y, r)
  BY <1>2 DEF Ready
<1> HIDE DEF r
<1>4. Base(tree', p, client, content, a, x, b, none, NoParent) /\ SameBlocks(t, tree')
  <2>1. CASE r = <<>>
    <3>1. y = NoParent
      BY <2>1 DEF PinOf, r
    <3> QED BY <2>1, <3>1, <1>1, <1>3 DEF SameBlocks
  <2>2. CASE r # <<>>
    <3>1. y = m.node
      BY <2>2 DEF PinOf, r
    <3> HIDE DEF y, none
    <3>2. y \in Nodes(t)
      BY <2>2, <1>3, Zenon DEF Lent
    <3>3. Base(DecLockRef(t, y), p, client, content, a, x, b, none, NoParent) /\ SameBlocks(t, DecLockRef(t, y))
      BY <1>3, <3>2, UnpinBase
    <3> QED BY <2>2, <3>1, <3>3, <1>1
  <2> QED BY <2>1, <2>2
<1>5. FewerBlocks(Pin(m), tree')
  BY <1>4 DEF Prepared, FewerBlocks, SameBlocks, t
<1> QED BY <1>1, <1>4, <1>5, Zenon DEF BaseState, none

\* The blocks of a chain are blocks of the tree.
LEMMA ChainInTree ==
  ASSUME NEW t, NEW a, NEW x, NEW b, Shape(t, a, x, b)
  PROVE  \A n \in Nodes(t) : \A i \in 1 .. Len(b[n]) : b[n][i] \in Block /\ InTree(t, b[n][i])
<1> SUFFICES ASSUME NEW n \in Nodes(t), NEW i \in 1 .. Len(b[n]) PROVE b[n][i] \in Block /\ InTree(t, b[n][i])
  OBVIOUS
<1>1. \E d \in a[n] : Owns(t, b, d, i)
  BY Owner
<1>2. PICK d \in a[n] : Owns(t, b, d, i)
  BY <1>1
<1>3. d \in Nodes(t) /\ Contains(TableOf(t, d), b[n][i])
  BY <1>2, OwnerFacts
<1>4. b[n] \in Seq(Block)
  BY NodeFacts
<1> QED BY <1>3, <1>4 DEF InTree

\* A block without references is nobody's.
LEMMA Unreferenced ==
  ASSUME NEW t, NEW p, NEW cl, NEW ct, NEW a, NEW x, NEW b, NEW y, Base(t, p, cl, ct, a, x, b, <<>>, y),
         NEW e \in Block
  PROVE  /\ p.ref_cnt[e] = (IF InTree(t, e) THEN 1 ELSE 0) + Cardinality(Holders(cl, e))
         /\ Cardinality(Holders(cl, e)) \in Nat
         /\ p.ref_cnt[e] = 0 <=> ~InTree(t, e) /\ Holders(cl, e) = {}
<1> DEFINE k == Cardinality(Holders(cl, e))
           none == <<>>
           r == p.ref_cnt[e]
<1>1. k \in Nat /\ (k = 0 <=> Holders(cl, e) = {})
  BY Counts DEF Base, Placed
<1>2. ~Contains(none, e)
  BY NoBlocks
<1>3. r = RefAt(t, cl, none, e)
  BY DEF Base, Refs
<1> HIDE DEF none
<1>4. r = (IF InTree(t, e) THEN 1 ELSE 0) + 0 + k
  BY <1>2, <1>3 DEF RefAt
<1> HIDE DEF k, r
<1>5. r = (IF InTree(t, e) THEN 1 ELSE 0) + k /\ (r = 0 <=> ~InTree(t, e) /\ k = 0)
  BY <1>1, <1>4
<1> QED BY <1>1, <1>5 DEF k, r

\* The fork of a match and as many new blocks as there is room for.
Took(t, p, cl, r, need, got) ==
  /\ PoolOK(got.pool) /\ got.ids \in Table /\ Len(got.ids) = need
  /\ \A e \in Block : Contains(got.ids, e) => /\ ~Contains(r, e) /\ p.ref_cnt[e] = 0
                                              /\ ~InTree(t, e) /\ Holders(cl, e) = {}
  /\ \A e \in Block : Contains(r, e) => InTree(t, e)
  /\ \A e \in Block : got.pool.ref_cnt[e] = IF Contains(got.ids, e) THEN 1
                                            ELSE IF Contains(r, e) THEN p.ref_cnt[e] + 1 ELSE p.ref_cnt[e]

\* Fork and allocation give the client its table: shared blocks first, then new ones.
LEMMA TakeBlocks ==
  ASSUME NEW t, NEW p, NEW cl, NEW ct, NEW a, NEW x, NEW b, NEW y, NEW tokens, NEW r,
         Ready(t, p, cl, ct, a, x, b, tokens, y, r), NEW need \in Nat, num_free(p) >= need
  PROVE  Took(t, p, cl, r, need, Alloc(Fork(p, r).pool, need))
<1> DEFINE none == <<>>
           p1 == Fork(p, r).pool
           got == Alloc(p1, need)
<1>1. Base(t, p, cl, ct, a, x, b, none, y) /\ Lent(t, x, b, tokens, y, r)
  BY DEF Ready
<1>2. Shape(t, a, x, b) /\ PoolOK(p)
  BY <1>1 DEF Base
<1>3. r \in Table
  BY <1>1, Zenon DEF Lent
<1>4. ASSUME NEW e \in Block, Contains(r, e) PROVE InTree(t, e)
  <2>1. PICK i \in 1 .. Len(r) : r[i] = e
    BY <1>3, <1>4 DEF Contains, Table
  <2>2. r # <<>> /\ Len(r) \in Nat
    BY <1>3, <2>1 DEF Table
  <2>3. y \in Nodes(t) /\ Len(r) <= Len(b[y]) /\ \A j \in 1 .. Len(r) : r[j] = b[y][j]
    BY <1>1, <2>2, Zenon DEF Lent
  <2>4. Len(b[y]) \in Nat
    BY <1>2, <2>3, Lengths
  <2>5. i \in 1 .. Len(b[y])
    BY <2>2, <2>3, <2>4
  <2>6. InTree(t, b[y][i])
    BY <1>2, <2>3, <2>5, ChainInTree
  <2> QED BY <2>1, <2>3, <2>6
<1>5. \A e \in Block : /\ p.ref_cnt[e] \in Nat
                       /\ p.ref_cnt[e] = 0 <=> ~InTree(t, e) /\ Holders(cl, e) = {}
  <2>1. \A e \in Block : p.ref_cnt[e] \in Nat
    BY <1>2, FreeCount
  <2>2. \A e \in Block : p.ref_cnt[e] = 0 <=> ~InTree(t, e) /\ Holders(cl, e) = {}
    BY <1>1, Unreferenced DEF none
  <2> QED BY <2>1, <2>2
<1>6. \A e \in Block : Contains(r, e) => p.ref_cnt[e] >= 1
  BY <1>4, <1>5
<1>7. /\ p1 = Ref(p, r).pool /\ PoolOK(p1)
      /\ \A e \in Block : p1.ref_cnt[e] = IF Contains(r, e) THEN p.ref_cnt[e] + 1 ELSE p.ref_cnt[e]
  <2>1. p1 = Ref(p, r).pool
    BY <1>2, <1>3, <1>6, ForkTable
  <2> HIDE DEF p1
  <2> QED BY <2>1, <1>2, <1>3, <1>6, RefTable
<1> HIDE DEF p1
<1>8. \A e \in Block : p1.ref_cnt[e] = 0 <=> p.ref_cnt[e] = 0
  BY <1>5, <1>6, <1>7
<1>9. num_free(p1) = num_free(p) /\ num_free(p1) \in Nat
  <2>1. Unused(p1) = Unused(p)
    BY <1>8 DEF Unused
  <2>2. num_free(p) = Cardinality(Unused(p))
    BY <1>2, FreeCount
  <2>3. num_free(p1) = Cardinality(Unused(p1)) /\ num_free(p1) \in Nat
    BY <1>7, FreeCount
  <2> QED BY <2>1, <2>2, <2>3
<1>10. got.ok
  <2> DEFINE f == num_free(p1)
  <2>1. f \in Nat /\ f >= need
    BY <1>9
  <2> HIDE DEF f
  <2>2. ~(need < 0 \/ f < need)
    BY <2>1
  <2> QED BY <2>2 DEF Alloc, f
<1>11. /\ PoolOK(got.pool) /\ got.ids \in Table /\ Len(got.ids) = need
       /\ \A e \in Block : Contains(got.ids, e) => p1.ref_cnt[e] = 0
       /\ \A e \in Block : got.pool.ref_cnt[e] = IF Contains(got.ids, e) THEN 1 ELSE p1.ref_cnt[e]
  BY <1>7, <1>10, AllocTable
<1> HIDE DEF got
<1>12. \A e \in Block : Contains(got.ids, e) => /\ ~Contains(r, e) /\ p.ref_cnt[e] = 0
                                                /\ ~InTree(t, e) /\ Holders(cl, e) = {}
  <2> SUFFICES ASSUME NEW e \in Block, Contains(got.ids, e)
               PROVE  ~Contains(r, e) /\ p.ref_cnt[e] = 0 /\ ~InTree(t, e) /\ Holders(cl, e) = {}
    OBVIOUS
  <2>1. p.ref_cnt[e] = 0
    BY <1>8, <1>11
  <2> QED BY <2>1, <1>4, <1>5
<1>13. Took(t, p, cl, r, need, got)
  BY <1>4, <1>7, <1>11, <1>12, Zenon DEF Took
<1> QED BY <1>13 DEF got, p1

\* Prefill: the new blocks get the KV of their part of the tokens.
Prefilled(ct, ct2, tokens, table, ids) ==
  ct2 = [e \in Block |-> IF Contains(ids, e)
                         THEN PrefixTo(tokens, CHOOSE i \in 1 .. Len(table) : table[i] = e) ELSE ct[e]]

\* The new blocks of the table have it.
Newly(ct2, tokens, table, ids) ==
  \A i \in 1 .. Len(table) : Contains(ids, table[i]) => ct2[table[i]] = PrefixTo(tokens, i)

\* Prefill writes the new blocks and no others.
LEMMA PrefillFacts ==
  ASSUME NEW ct, NEW ct2, NEW tokens, NEW r, NEW ids \in Table, NEW table, Tabled(r, ids, table),
         Prefilled(ct, ct2, tokens, table, ids)
  PROVE  /\ \A e \in Block : ~Contains(ids, e) => ct2[e] = ct[e]
         /\ Newly(ct2, tokens, table, ids)
<1>1. \A e \in Block : ~Contains(ids, e) => ct2[e] = ct[e]
  BY DEF Prefilled
<1>2. ASSUME NEW i \in 1 .. Len(table), Contains(ids, table[i]) PROVE ct2[table[i]] = PrefixTo(tokens, i)
  <2> DEFINE j == CHOOSE k \in 1 .. Len(table) : table[k] = table[i]
  <2>1. table \in Seq(Block) /\ NoDuplicates(table)
    BY DEF Tabled, Table
  <2>2. j \in 1 .. Len(table) /\ table[j] = table[i]
    OBVIOUS
  <2> HIDE DEF j
  <2>3. j = i
    BY <2>1, <2>2 DEF NoDuplicates
  <2>4. table[i] \in Block
    BY <2>1
  <2>5. ct2[table[i]] = PrefixTo(tokens, j)
    BY <2>4, <1>2 DEF Prefilled, j
  <2> QED BY <2>3, <2>5
<1> QED BY <1>1, <1>2 DEF Newly

\* The tokens of whole blocks before the last token.
LEMMA WholePrefix ==
  ASSUME NEW tokens \in Seq(Int), NEW i \in Nat, Span(i) <= Len(tokens)
  PROVE  PrefixTo(tokens, i) = SubSeq(tokens, 1, Span(i))
<1> DEFINE s == Span(i)
           l == Len(tokens)
<1>1. s \in Nat /\ l \in Nat /\ s <= l
  BY SpanFacts
<1>2. PrefixTo(tokens, i) = SubSeq(tokens, 1, Min({s, l}))
  BY DEF PrefixTo, Span
<1> HIDE DEF s, l
<1>3. Min({s, l}) = s
  BY <1>1 DEF Min
<1> QED BY <1>2, <1>3 DEF s

\* What was stored stays when blocks are written that belong to nobody.
LEMMA StoredStays ==
  ASSUME NEW t, NEW p, NEW cl, NEW ct, NEW a, NEW x, NEW b, NEW y, Base(t, p, cl, ct, a, x, b, <<>>, y),
         NEW ids, \A e \in Block : Contains(ids, e) => ~InTree(t, e) /\ Holders(cl, e) = {},
         NEW ct2, \A e \in Block : ~Contains(ids, e) => ct2[e] = ct[e]
  PROVE  Stored(t, cl, ct2, x, b)
<1> DEFINE none == <<>>
<1>1. Base(t, p, cl, ct, a, x, b, none, y)
  OBVIOUS
<1> HIDE DEF none
<1>2. /\ Shape(t, a, x, b) /\ TreeStored(t, ct, x, b)
      /\ \A c \in RunningIn(cl) : ClientOK(cl[c], t, x, b) /\ ClientStored(cl[c], ct)
  BY <1>1 DEF Base, Placed, Stored
<1>3. TreeStored(t, ct2, x, b)
  <2> SUFFICES ASSUME NEW n \in Nodes(t), NEW i \in 1 .. Len(b[n]) PROVE ct2[b[n][i]] = SubSeq(x[n], 1, Span(i))
    BY DEF TreeStored
  <2>1. b[n][i] \in Block /\ InTree(t, b[n][i])
    BY <1>2, ChainInTree
  <2>2. ct2[b[n][i]] = ct[b[n][i]]
    BY <2>1
  <2>3. ct[b[n][i]] = SubSeq(x[n], 1, Span(i))
    BY <1>2 DEF TreeStored
  <2> QED BY <2>2, <2>3
<1>4. ASSUME NEW c \in RunningIn(cl) PROVE ClientStored(cl[c], ct2)
  <2> DEFINE table == cl[c].table
  <2>1. table \in Table
    BY <1>2 DEF ClientOK
  <2> SUFFICES ASSUME NEW i \in 1 .. Len(table) PROVE ct2[table[i]] = PrefixTo(cl[c].tokens, i)
    BY DEF ClientStored
  <2>2. table[i] \in Block /\ Contains(table, table[i])
    <3> HIDE DEF table
    <3> QED BY <2>1 DEF Table, Contains
  <2>3. c \in Holders(cl, table[i])
    BY <2>2, Zenon DEF Holders
  <2>4. ct2[table[i]] = ct[table[i]]
    BY <2>2, <2>3
  <2>5. ct[table[i]] = PrefixTo(cl[c].tokens, i)
    BY <1>2, Zenon DEF ClientStored
  <2> QED BY <2>4, <2>5
<1> QED BY <1>3, <1>4 DEF Stored

\* The entries a request relies on, and those of the blocks r.
HeldOf(k)            == {[prefix |-> PrefixTo(k.tokens, i), block |-> k.table[i]] : i \in 1 .. k.matched}
EntriesAt(tokens, r) == {[prefix |-> PrefixTo(tokens, i), block |-> r[i]] : i \in 1 .. Len(r)}

\* A request enters that relies on the blocks r.
Enters(cl, cl2, c, tokens, r) == \E k : k.running /\ cl2 = Joining(cl, c, k) /\ HeldOf(k) = EntriesAt(tokens, r)

\* Blocks may have left the tree, and those that stay keep what they hold.
Shrinks(t, ct, t2, ct2) == FewerBlocks(t, t2) /\ \A e \in Block : InTree(t2, e) => ct2[e] = ct[e]

\* The request that is admitted.
Admitted(k, tokens, table, r, y) ==
  /\ k.running /\ k.tokens = tokens /\ k.table = table /\ k.matched = Len(r) /\ k.node = y

\* How many blocks are missing.
Missing(tokens, r, need) == need \in Nat /\ Len(r) + need = BlocksNeeded(Len(tokens))

\* A matched request still needs a block, that of its last token.
LEMMA MissingSome ==
  ASSUME NEW t, NEW x, NEW b, NEW tokens, NEW y, NEW r, Lent(t, x, b, tokens, y, r)
  PROVE  Missing(tokens, r, BlocksNeeded(Len(tokens)) - Len(r))
<1> DEFINE l == Len(tokens)
           n == BlocksNeeded(l)
           c == Len(r)
<1>1. tokens \in TokenSeqs /\ c \in Nat /\ Span(c) < l
  BY Zenon DEF Lent
<1>2. l \in Nat
  BY <1>1, FrontFacts
<1>3. n \in Nat /\ l <= Span(n)
  BY <1>2, NeededBlocks
<1>4. Span(c) \in Nat /\ Span(n) \in Nat
  BY <1>1, <1>3, SpanFacts
<1> HIDE DEF l, n
<1>5. Span(c) < Span(n)
  BY <1>1, <1>2, <1>3, <1>4
<1>6. c < n
  BY <1>1, <1>3, <1>5, SpanFacts
<1> HIDE DEF c
<1>7. n - c \in Nat /\ c + (n - c) = n
  BY <1>1, <1>3, <1>6
<1> QED BY <1>7 DEF Missing, n, l, c

\* The admitted request has its blocks, with the KV of its tokens in them.
LEMMA AdmittedHand ==
  ASSUME NEW t, NEW p, NEW cl, NEW ct, NEW a, NEW x, NEW b, NEW tokens, NEW y, NEW r,
         Ready(t, p, cl, ct, a, x, b, tokens, y, r), NEW need, Missing(tokens, r, need),
         NEW got, Took(t, p, cl, r, need, got), NEW table, Tabled(r, got.ids, table),
         NEW ct2, Prefilled(ct, ct2, tokens, table, got.ids), NEW k, Admitted(k, tokens, table, r, y)
  PROVE  Hand(t, cl, ct2, x, b, k)
<1> DEFINE ids == got.ids
           none == <<>>
<1>1. Base(t, p, cl, ct, a, x, b, none, y) /\ Lent(t, x, b, tokens, y, r)
  BY DEF Ready
<1>2. /\ ids \in Table /\ Len(ids) = need
      /\ \A e \in Block : Contains(ids, e) => ~InTree(t, e) /\ Holders(cl, e) = {}
      /\ \A e \in Block : Contains(r, e) => InTree(t, e)
  BY Zenon DEF Took
<1>3. k.running /\ k.tokens = tokens /\ k.table = table /\ k.matched = Len(r) /\ k.node = y
  BY DEF Admitted
<1>4. Tabled(r, ids, table) /\ Prefilled(ct, ct2, tokens, table, ids)
  OBVIOUS
<1>5. Tabled(r, ids, table) /\ Prefilled(ct, ct2, tokens, table, ids) /\ ids \in Table
  BY DEF Took
<1> HIDE DEF ids, none
<1>6. /\ table \in Table /\ Len(r) \in Nat /\ Len(ids) \in Nat /\ Len(table) = Len(r) + Len(ids)
      /\ \A i \in 1 .. Len(r) : table[i] = r[i]
      /\ \A i \in 1 .. Len(ids) : table[Len(r) + i] = ids[i]
      /\ \A e \in Block : Contains(table, e) <=> Contains(r, e) \/ Contains(ids, e)
  BY <1>4, Zenon DEF Tabled
<1>7. /\ tokens \in TokenSeqs /\ r \in Table /\ Span(Len(r)) < Len(tokens)
      /\ r = <<>> => y = NoParent
      /\ r # <<>> => /\ y \in Nodes(t) \ {Root} /\ Len(r) <= Len(b[y])
                     /\ Agree(x[y], tokens, Span(Len(r)))
                     /\ \A i \in 1 .. Len(r) : r[i] = b[y][i]
  BY <1>1, Zenon DEF Lent
<1>8. r = <<>> <=> Len(r) = 0
  BY <1>7 DEF Table
<1>9. tokens \in Seq(Int) /\ Len(tokens) \in Nat
  BY <1>7, FrontFacts
<1>10. Matches(k, t, x, b)
  <2>1. CASE r = <<>>
    BY <2>1, <1>3, <1>7, <1>8 DEF Matches
  <2>2. CASE r # <<>>
    <3>1. /\ k.node \in Nodes(t) \ {Root} /\ k.matched <= Len(b[k.node])
          /\ Agree(x[k.node], k.tokens, Span(k.matched))
      BY <2>2, <1>3, <1>7
    <3>2. \A i \in 1 .. k.matched : k.table[i] = b[k.node][i]
      <4>1. \A i \in 1 .. Len(r) : table[i] = b[y][i]
        BY <2>2, <1>6, <1>7
      <4> QED BY <4>1, <1>3
    <3>3. k.matched # 0
      BY <2>2, <1>3, <1>8
    <3> QED BY <3>1, <3>2, <3>3, Zenon DEF Matches
  <2> QED BY <2>1, <2>2
<1>11. ASSUME NEW i \in Len(r) + 1 .. Len(table) PROVE ~InTree(t, table[i]) /\ Contains(ids, table[i])
  <2> DEFINE j == i - Len(r)
  <2>1. j \in 1 .. Len(ids) /\ i = Len(r) + j
    BY <1>6
  <2> HIDE DEF j
  <2>2. table[i] = ids[j]
    BY <2>1, <1>6
  <2>3. ids[j] \in Block /\ Contains(ids, ids[j])
    BY <2>1, <1>2 DEF Table, Contains
  <2> QED BY <2>2, <2>3, <1>2
<1>12. ClientOK(k, t, x, b)
  <2>1. Len(table) = BlocksNeeded(Len(tokens))
    BY <1>2, <1>6 DEF Missing
  <2>2. \A i \in k.matched + 1 .. Len(k.table) : ~InTree(t, k.table[i])
    BY <1>3, <1>11
  <2> QED BY <2>1, <2>2, <1>3, <1>6, <1>7, <1>10 DEF ClientOK
<1>13. ClientStored(k, ct2)
  <2> SUFFICES ASSUME NEW i \in 1 .. Len(table) PROVE ct2[table[i]] = PrefixTo(tokens, i)
    BY <1>3 DEF ClientStored
  <2>1. CASE i <= Len(r)
    <3>1. r # <<>> /\ i \in 1 .. Len(r) /\ i \in Nat
      BY <2>1, <1>6, <1>8
    <3>2. Shape(t, a, x, b) /\ TreeStored(t, ct2, x, b)
      <4>1. \A e \in Block : Contains(ids, e) => ~InTree(t, e) /\ Holders(cl, e) = {}
        BY <1>2
      <4>2. \A e \in Block : ~Contains(ids, e) => ct2[e] = ct[e]
        BY <1>5, PrefillFacts
      <4>3. Stored(t, cl, ct2, x, b)
        BY <1>1, <4>1, <4>2, StoredStays DEF none
      <4> QED BY <1>1, <4>3 DEF Base, Stored
    <3>3. y \in Nodes(t) /\ Len(r) <= Len(b[y]) /\ Agree(x[y], tokens, Span(Len(r))) /\ table[i] = b[y][i]
      BY <3>1, <1>6, <1>7
    <3>4. Len(b[y]) \in Nat /\ Len(x[y]) = Span(Len(b[y])) /\ x[y] \in Seq(Int)
      BY <3>2, <3>3, Lengths, NodeFacts, AboveFacts
    <3>5. i \in 1 .. Len(b[y])
      BY <3>1, <3>3, <3>4, <1>6
    <3>6. ct2[b[y][i]] = SubSeq(x[y], 1, Span(i))
      BY <3>2, <3>3, <3>5 DEF TreeStored
    <3>7. Span(i) \in Nat /\ Span(Len(r)) \in Nat /\ Span(i) <= Span(Len(r)) /\ Span(i) <= Len(x[y])
      <4> DEFINE c == Len(r)
                 d == Len(b[y])
      <4>1. i \in Nat /\ c \in Nat /\ d \in Nat /\ i \in Int /\ c \in Int /\ d \in Int /\ i <= c /\ i <= d
        BY <3>1, <3>4, <3>5, <1>6
      <4> HIDE DEF c, d
      <4>2. Span(i) \in Nat /\ Span(c) \in Nat /\ Span(i) <= Span(c) /\ Span(i) <= Span(d)
        BY <4>1, SpanFacts
      <4> QED BY <4>2, <3>4 DEF c, d
    <3>8. Span(i) <= Len(tokens)
      BY <3>7, <1>7, <1>9
    <3>9. SubSeq(x[y], 1, Span(i)) = SubSeq(tokens, 1, Span(i))
      <4> DEFINE l == Span(i)
                 c == Span(Len(r))
                 u == x[y]
      <4>1. l \in Nat /\ c \in Nat /\ l <= c /\ l <= Len(u) /\ l <= Len(tokens) /\ u \in Seq(Int) /\ Agree(u, tokens, c)
        BY <3>3, <3>4, <3>7, <3>8
      <4> HIDE DEF l, c, u
      <4>2. SubSeq(u, 1, l) = SubSeq(tokens, 1, l)
        BY <4>1, <1>9, AgreePrefix
      <4> QED BY <4>2 DEF l, u
    <3>10. PrefixTo(tokens, i) = SubSeq(tokens, 1, Span(i))
      BY <3>1, <3>8, <1>9, WholePrefix
    <3> QED BY <3>3, <3>6, <3>9, <3>10
  <2>2. CASE i > Len(r)
    <3>1. Contains(ids, table[i])
      BY <2>2, <1>6, <1>11
    <3>2. Newly(ct2, tokens, table, ids)
      BY <1>5, PrefillFacts
    <3> QED BY <3>1, <3>2, Zenon DEF Newly
  <2> QED BY <2>1, <2>2, <1>6
<1>14. ASSUME NEW d \in RunningIn(cl) PROVE Apart2(k, cl[d], t)
  <2> SUFFICES ASSUME NEW e \in Block, Contains(table, e), Contains(cl[d].table, e) PROVE InTree(t, e)
    BY <1>3 DEF Apart2
  <2>1. d \in Holders(cl, e)
    BY Zenon DEF Holders
  <2>2. ~Contains(ids, e)
    BY <2>1, <1>2
  <2> QED BY <2>2, <1>2, <1>6
<1> QED BY <1>12, <1>13, <1>14 DEF Hand

\* Forking the match and taking the rest gives the request its references.
LEMMA AdmittedBase ==
  ASSUME NEW t, NEW p, NEW cl, NEW ct, NEW a, NEW x, NEW b, NEW tokens, NEW y, NEW r,
         Ready(t, p, cl, ct, a, x, b, tokens, y, r), NEW need,
         NEW got, Took(t, p, cl, r, need, got), NEW table, Tabled(r, got.ids, table),
         NEW ct2, Prefilled(ct, ct2, tokens, table, got.ids)
  PROVE  Base(t, got.pool, cl, ct2, a, x, b, table, y)
<1> DEFINE ids == got.ids
           none == <<>>
           q == got.pool
<1>1. Base(t, p, cl, ct, a, x, b, none, y)
  BY DEF Ready
<1>2. /\ PoolOK(q) /\ ids \in Table
      /\ \A e \in Block : Contains(ids, e) => /\ ~Contains(r, e) /\ p.ref_cnt[e] = 0
                                              /\ ~InTree(t, e) /\ Holders(cl, e) = {}
      /\ \A e \in Block : Contains(r, e) => InTree(t, e)
      /\ \A e \in Block : q.ref_cnt[e] = IF Contains(ids, e) THEN 1
                                         ELSE IF Contains(r, e) THEN p.ref_cnt[e] + 1 ELSE p.ref_cnt[e]
  BY Zenon DEF Took
<1>3. Tabled(r, ids, table) /\ Prefilled(ct, ct2, tokens, table, ids)
  OBVIOUS
<1>4. Tabled(r, ids, table) /\ Prefilled(ct, ct2, tokens, table, ids) /\ ids \in Table
  BY DEF Took
<1> HIDE DEF ids, none, q
<1>5. table \in Table /\ \A e \in Block : Contains(table, e) <=> Contains(r, e) \/ Contains(ids, e)
  BY <1>3, Zenon DEF Tabled
<1>6. Stored(t, cl, ct2, x, b)
  <2>1. \A e \in Block : Contains(ids, e) => ~InTree(t, e) /\ Holders(cl, e) = {}
    BY <1>2
  <2>2. \A e \in Block : ~Contains(ids, e) => ct2[e] = ct[e]
    BY <1>4, PrefillFacts
  <2> QED BY <1>1, <2>1, <2>2, StoredStays DEF none
<1>7. Refs(t, q, cl, table)
  <2> SUFFICES ASSUME NEW e \in Block PROVE q.ref_cnt[e] = RefAt(t, cl, table, e)
    BY DEF Refs
  <2> DEFINE k == Cardinality(Holders(cl, e))
             v == p.ref_cnt[e]
             w == q.ref_cnt[e]
  <2>1. v = (IF InTree(t, e) THEN 1 ELSE 0) + k /\ k \in Nat /\ (v = 0 <=> ~InTree(t, e) /\ Holders(cl, e) = {})
    BY <1>1, Unreferenced DEF none
  <2>2. RefAt(t, cl, table, e) = (IF InTree(t, e) THEN 1 ELSE 0) + (IF Contains(table, e) THEN 1 ELSE 0) + k
    BY DEF RefAt
  <2>3. w = IF Contains(ids, e) THEN 1 ELSE IF Contains(r, e) THEN v + 1 ELSE v
    BY <1>2
  <2>4. /\ Contains(ids, e) => ~Contains(r, e) /\ v = 0 /\ ~InTree(t, e)
        /\ Contains(r, e) => InTree(t, e)
        /\ Contains(table, e) <=> Contains(r, e) \/ Contains(ids, e)
    BY <1>2, <1>5
  <2> HIDE DEF k, v, w
  <2>5. w = (IF InTree(t, e) THEN 1 ELSE 0) + (IF Contains(table, e) THEN 1 ELSE 0) + k
    <3>1. CASE Contains(ids, e)
      BY <3>1, <2>1, <2>3, <2>4
    <3>2. CASE ~Contains(ids, e)
      BY <3>2, <2>1, <2>3, <2>4
    <3> QED BY <3>1, <3>2
  <2> QED BY <2>2, <2>5 DEF w
<1>8. InHand(t, table, y)
  BY <1>1, <1>5 DEF Base, InHand
<1>9. Base(t, q, cl, ct2, a, x, b, table, y)
  BY <1>1, <1>2, <1>6, <1>7, <1>8 DEF Base
<1> QED BY <1>9 DEF q

\* The admission.
LEMMA AdmitState ==
  ASSUME NEW c \in Client, c \notin Running, NEW tokens, NEW m, NEW e, Prepared(tokens, m, e),
         Admit(c, tokens, m, e)
  PROVE  /\ BaseState(tree', pool', client', content')
         /\ Enters(client, client', c, tokens, m.blocks) /\ Shrinks(Pin(m), content, tree', content')
<1> DEFINE r == m.blocks
           y == PinOf(m.node, r)
           need == NeededNew(tokens, m)
           got == Alloc(Fork(e.pool, r).pool, need)
           table == r \o got.ids
           k == [running |-> TRUE, tokens |-> tokens, table |-> table, matched |-> Len(r),
                 node |-> IF r = <<>> THEN NoParent ELSE m.node]
           t == e.tree
           p == e.pool
<1>1. /\ num_free(pool) + e.freed >= need /\ tree' = t /\ pool' = got.pool
      /\ client' = Joining(client, c, k)
      /\ Prefilled(content, content', tokens, table, got.ids)
  BY DEF Admit, Joining, Prefilled
<1>2. Admitted(k, tokens, table, r, y)
  BY DEF Admitted, PinOf
<1>3. PICK a, x, b : Ready(t, p, client, content, a, x, b, tokens, y, r)
  BY Zenon DEF Prepared, ReadyState
<1>4. need = BlocksNeeded(Len(tokens)) - Len(r)
  BY DEF NeededNew
<1>5. num_free(p) = num_free(pool) + e.freed /\ FewerBlocks(Pin(m), t)
  BY DEF Prepared
<1> HIDE DEF k, t, y, r, need
<1>6. Missing(tokens, r, need)
  BY <1>3, <1>4, MissingSome DEF Ready
<1>7. Took(t, p, client, r, need, got)
  <2>1. need \in Nat
    BY <1>6 DEF Missing
  <2>2. num_free(p) >= need
    BY <1>1, <1>5
  <2> HIDE DEF p
  <2> QED BY <1>3, <2>1, <2>2, TakeBlocks DEF p
<1> HIDE DEF got, p
<1>8. Tabled(r, got.ids, table)
  <2>1. r \in Table
    BY <1>3, Zenon DEF Ready, Lent
  <2>2. got.ids \in Table /\ \A f \in Block : ~(Contains(r, f) /\ Contains(got.ids, f))
    BY <1>7 DEF Took
  <2> QED BY <2>1, <2>2, TableOfBoth
<1> HIDE DEF table
<1>9. Base(t, got.pool, client, content', a, x, b, table, y)
  BY <1>1, <1>3, <1>7, <1>8, AdmittedBase
<1>10. Hand(t, client, content', x, b, k)
  BY <1>1, <1>2, <1>3, <1>6, <1>7, <1>8, AdmittedHand
<1>11. k.running /\ k.table = table /\ k.node = y
  BY <1>2 DEF Admitted
<1>12. c \in Client \ RunningIn(client)
  BY DEF Running, RunningIn
<1>13. Base(t, got.pool, Joining(client, c, k), content', a, x, b, <<>>, NoParent)
  BY <1>9, <1>10, <1>11, <1>12, JoinBase
<1>14. Enters(client, client', c, tokens, r)
  <2>1. \A i \in 1 .. Len(r) : table[i] = r[i]
    BY <1>8 DEF Tabled
  <2>2. k.running /\ k.tokens = tokens /\ k.table = table /\ k.matched = Len(r)
    BY <1>2 DEF Admitted
  <2>3. HeldOf(k) = EntriesAt(tokens, r)
    BY <2>1, <2>2 DEF HeldOf, EntriesAt
  <2> QED BY <1>1, <2>2, <2>3 DEF Enters
<1>15. \A e2 \in Block : InTree(t, e2) => content'[e2] = content[e2]
  <2>1. got.ids \in Table /\ \A e2 \in Block : Contains(got.ids, e2) => ~InTree(t, e2)
    BY <1>7, Zenon DEF Took
  <2>2. \A e2 \in Block : ~Contains(got.ids, e2) => content'[e2] = content[e2]
    BY <1>1, <1>8, <2>1, PrefillFacts
  <2> QED BY <2>1, <2>2
<1>16. Shrinks(Pin(m), content, tree', content')
  BY <1>1, <1>5, <1>15 DEF Shrinks
<1>17. BaseState(tree', pool', client', content')
  BY <1>1, <1>13, Zenon DEF BaseState
<1> QED BY <1>14, <1>16, <1>17 DEF r

\* The blocks r are those of a walk along all the tokens but the last.
Lends(t, ct, tokens, r) == \E a, x, b : /\ Shape(t, a, x, b) /\ TreeStored(t, ct, x, b)
                                        /\ \E n, k, l : Ended(t, x, b, Front(tokens), n, k, l, r)

\* A request enters with what the tree lends it.
Admits(c, tokens) == \E r : Lends(tree, content, tokens, r) /\ Enters(client, client', c, tokens, r)

\* An admission, refused, rolled back or carried out, leaves a right state.
LEMMA TryAdmitState ==
  ASSUME PartAtBlocks, BaseState(tree, pool, client, content),
         NEW c \in Client, NEW tokens \in TokenSeqs, TryAdmit(c, tokens)
  PROVE  /\ BaseState(tree', pool', client', content') /\ c \notin Running
         /\ Shrinks(tree, content, tree', content') /\ (client' = client \/ Admits(c, tokens))
<1> DEFINE m == MatchPrefix(tree, Front(tokens))
           e == PinAndEvict(NeededNew(tokens, m), m)
<1>1. /\ c \notin Running
      /\ \/ Refuse(tokens, m)
         \/ RollBack(tokens, m, e) \/ Admit(c, tokens, m, e)
  BY Zenon DEF TryAdmit
<1>2. PICK a, x, b : Base(tree, pool, client, content, a, x, b, <<>>, NoParent)
  BY Zenon DEF BaseState
<1>3. /\ Base(m.tree, pool, client, content, a, x, b, <<>>, NoParent)
      /\ Ready(Pin(m), pool, client, content, a, x, b, tokens, PinOf(m.node, m.blocks), m.blocks)
      /\ SameBlocks(tree, m.tree) /\ SameBlocks(tree, Pin(m))
  BY <1>2, PinReady
<1>4. Lends(tree, content, tokens, m.blocks)
  <2>1. Shape(tree, a, x, b) /\ ListOK(tree) /\ TreeStored(tree, content, x, b) /\ Separate(tree)
        /\ \A n \in Nodes(tree) : Told(x[n])
    BY <1>2 DEF Base, Stored, Placed
  <2>2. \E k, l : Ended(tree, x, b, Front(tokens), m.node, k, l, m.blocks)
    BY <2>1, MatchFacts
  <2> HIDE DEF m
  <2> QED BY <2>1, <2>2 DEF Lends
<1> HIDE DEF m
<1>5. Prepared(tokens, m, e)
  BY <1>3, EvictReady
<1> HIDE DEF e
<1>6. CASE Refuse(tokens, m)
  <2>1. tree' = m.tree /\ pool' = pool /\ client' = client /\ content' = content
    BY <1>6 DEF Refuse
  <2>2. BaseState(tree', pool', client', content')
    BY <1>3, <2>1, Zenon DEF BaseState
  <2>3. Shrinks(tree, content, tree', content')
    BY <1>3, <2>1 DEF Shrinks, SameBlocks, FewerBlocks
  <2> QED BY <1>1, <2>1, <2>2, <2>3
<1>7. CASE RollBack(tokens, m, e)
  <2>1. BaseState(tree', pool', client', content') /\ FewerBlocks(Pin(m), tree')
    BY <1>5, <1>7, RollBackState
  <2>2. client' = client /\ content' = content
    BY <1>7 DEF RollBack
  <2>3. Shrinks(tree, content, tree', content')
    BY <1>3, <2>1, <2>2 DEF Shrinks, SameBlocks, FewerBlocks
  <2> QED BY <1>1, <2>1, <2>2, <2>3
<1>8. CASE Admit(c, tokens, m, e)
  <2>1. /\ BaseState(tree', pool', client', content')
        /\ Enters(client, client', c, tokens, m.blocks) /\ Shrinks(Pin(m), content, tree', content')
    BY <1>1, <1>5, <1>8, AdmitState
  <2>2. Shrinks(tree, content, tree', content')
    BY <1>3, <2>1 DEF Shrinks, SameBlocks, FewerBlocks
  <2>3. Admits(c, tokens)
    BY <1>4, <2>1 DEF Admits
  <2> QED BY <1>1, <2>1, <2>2, <2>3
<1> QED BY <1>1, <1>6, <1>7, <1>8

\* What a step has in hand is given back: the pin, then the references.
LEMMA ReleaseState ==
  ASSUME NEW t, NEW p, NEW cl, NEW ct, NEW a, NEW x, NEW b, NEW table, NEW y,
         Base(t, p, cl, ct, a, x, b, table, y)
  PROVE  /\ BaseState(IF y = NoParent THEN t ELSE DecLockRef(t, y), Free(p, table).pool, cl, ct)
         /\ SameBlocks(t, IF y = NoParent THEN t ELSE DecLockRef(t, y))
<1> DEFINE u == IF y = NoParent THEN t ELSE DecLockRef(t, y)
           q == Free(p, table).pool
<1>1. Base(u, p, cl, ct, a, x, b, table, NoParent) /\ SameBlocks(t, u)
  <2>1. CASE y = NoParent
    BY <2>1 DEF SameBlocks
  <2>2. CASE y # NoParent
    <3>1. y \in Nodes(t)
      BY <2>2 DEF Base, InHand
    <3>2. Base(DecLockRef(t, y), p, cl, ct, a, x, b, table, NoParent) /\ SameBlocks(t, DecLockRef(t, y))
      BY <3>1, UnpinBase
    <3> QED BY <2>2, <3>2
  <2> QED BY <2>1, <2>2
<1> HIDE DEF u
<1>2. Base(u, q, cl, ct, a, x, b, <<>>, NoParent)
  BY <1>1, FreeBase
<1>3. BaseState(u, q, cl, ct)
  BY <1>2, Zenon DEF BaseState
<1> QED BY <1>1, <1>3 DEF u

\* A request that is dropped gives back what it holds.
LEMMA DropState ==
  ASSUME BaseState(tree, pool, client, content), NEW c \in Client, Drop(c)
  PROVE  /\ BaseState(tree', pool', client', content') /\ c \in RunningIn(client)
         /\ SameBlocks(tree, tree') /\ client' = Without(client, c) /\ content' = content
<1> DEFINE y == client[c].node
           table == client[c].table
           cl == Without(client, c)
<1>1. /\ c \in RunningIn(client)
      /\ tree' = IF y = NoParent THEN tree ELSE DecLockRef(tree, y)
      /\ pool' = Free(pool, table).pool /\ client' = cl /\ content' = content
  BY DEF Drop, Running, RunningIn, Unpin, Without
<1>2. PICK a, x, b : Base(tree, pool, client, content, a, x, b, <<>>, NoParent)
  BY Zenon DEF BaseState
<1>3. Base(tree, pool, cl, content, a, x, b, table, y)
  BY <1>1, <1>2, LeaveBase
<1> HIDE DEF y, table, cl
<1>4. /\ BaseState(IF y = NoParent THEN tree ELSE DecLockRef(tree, y), Free(pool, table).pool, cl, content)
      /\ SameBlocks(tree, IF y = NoParent THEN tree ELSE DecLockRef(tree, y))
  BY <1>3, ReleaseState
<1> QED BY <1>1, <1>4 DEF cl

\* A tree with more nodes, the old ones standing for what they stood for.
Grows(t, u, x, b, x2, b2) ==
  Nodes(t) \subseteq Nodes(u) /\ \A n \in Nodes(t) : x2[n] = x[n] /\ b2[n] = b[n]

\* A client is as it was when the tree only grew.
LEMMA ClientGrown ==
  ASSUME NEW k, NEW t, NEW x, NEW b, ClientOK(k, t, x, b),
         NEW u, NEW x2, NEW b2, Grows(t, u, x, b, x2, b2),
         \A e \in Block : Contains(k.table, e) /\ InTree(u, e) => InTree(t, e)
  PROVE  ClientOK(k, u, x2, b2)
<1>1. Matches(k, u, x2, b2)
  <2>1. Matches(k, t, x, b)
    BY Zenon DEF ClientOK
  <2>2. CASE k.matched = 0
    BY <2>1, <2>2 DEF Matches
  <2>3. CASE k.matched # 0
    <3>1. /\ k.node \in Nodes(t) \ {Root} /\ k.matched <= Len(b[k.node])
          /\ Agree(x[k.node], k.tokens, Span(k.matched))
          /\ \A i \in 1 .. k.matched : k.table[i] = b[k.node][i]
      BY <2>1, <2>3, Zenon DEF Matches
    <3>2. k.node \in Nodes(u) /\ x2[k.node] = x[k.node] /\ b2[k.node] = b[k.node]
      BY <3>1 DEF Grows
    <3> QED BY <3>1, <3>2, <2>3, Zenon DEF Matches
  <2> QED BY <2>2, <2>3
<1>2. \A i \in k.matched + 1 .. Len(k.table) : ~InTree(u, k.table[i])
  <2> DEFINE s == k.table
             q == k.matched
  <2>1. s \in Table /\ q \in Nat /\ \A i \in q + 1 .. Len(s) : ~InTree(t, s[i])
    BY DEF ClientOK
  <2>2. \A e \in Block : Contains(s, e) /\ InTree(u, e) => InTree(t, e)
    OBVIOUS
  <2> HIDE DEF s, q
  <2>3. ASSUME NEW i \in q + 1 .. Len(s) PROVE ~InTree(u, s[i])
    <3>1. i \in 1 .. Len(s) /\ s[i] \in Block /\ Contains(s, s[i])
      BY <2>1 DEF Table, Contains
    <3> QED BY <2>1, <2>2, <3>1
  <2> QED BY <2>3 DEF s, q
<1> QED BY <1>1, <1>2 DEF ClientOK

\* The nodes above the old ones are the old ones above them.
AboveKept(t, a, a2) == \A z \in Nodes(t) : \A n \in Nodes(t) : n \in a2[z] <=> n \in a[z]

\* Pins are as they were when the tree only grew.
LEMMA PinsGrown ==
  ASSUME NEW t, NEW p, NEW cl, NEW ct, NEW a, NEW x, NEW b, NEW table, NEW y,
         Base(t, p, cl, ct, a, x, b, table, y), NEW a2, AboveKept(t, a, a2)
  PROVE  \A n \in Nodes(t) : PinAt(a2, cl, y, n) = LockOf(t, n)
<1> SUFFICES ASSUME NEW n \in Nodes(t) PROVE PinAt(a2, cl, y, n) = LockOf(t, n)
  OBVIOUS
<1>1. LockOf(t, n) = PinAt(a, cl, y, n)
  BY DEF Base, Pins
<1>2. \A z \in Nodes(t) \cup {NoParent} : PinsAt(a2, z, n) <=> PinsAt(a, z, n)
  BY DEF PinsAt, AboveKept
<1>3. y \in Nodes(t) \cup {NoParent} /\ \A c \in RunningIn(cl) : cl[c].node \in Nodes(t) \cup {NoParent}
  BY HandNode DEF Base, Placed, InHand
<1>4. Pinners(cl, a2, n) = Pinners(cl, a, n)
  BY <1>2, <1>3 DEF Pinners
<1>5. PinsAt(a2, y, n) <=> PinsAt(a, y, n)
  BY <1>2, <1>3
<1> QED BY <1>1, <1>4, <1>5 DEF PinAt

\* Splitting a node moves none of its blocks out of the tree.
LEMMA SplitInTree ==
  ASSUME NEW t, NEW a, NEW x, NEW b, Shape(t, a, x, b), NEW c, NEW j, Splittable(t, c, j),
         NEW upper, upper \notin Nodes(t), NEW u, Splits(t, u, c, upper, j)
  PROVE  /\ \A e : InTree(u, e) <=> InTree(t, e)
         /\ Separate(t) => Separate(u)
<1> DEFINE s == TableOf(t, c)
<1>1. c \in Nodes(t) /\ j \in Nat /\ j <= Len(s) /\ s \in Table
  <2>1. c \in Nodes(t) /\ j \in Nat /\ j < Len(s)
    BY DEF Splittable
  <2>2. s \in Table
    BY <2>1, NodeFacts
  <2> HIDE DEF s
  <2>3. Len(s) \in Nat
    BY <2>2 DEF Table
  <2> QED BY <2>1, <2>2, <2>3
<1>2. /\ Nodes(u) = Nodes(t) \cup {upper}
      /\ \A m \in Nodes(t) : m # c => TableOf(u, m) = TableOf(t, m)
      /\ TableOf(u, c) = LowerTable(t, c, j) /\ TableOf(u, upper) = UpperTable(t, c, j)
  BY Zenon DEF Splits
<1>3. /\ \A e : Contains(s, e) <=> Contains(UpperTable(t, c, j), e) \/ Contains(LowerTable(t, c, j), e)
      /\ \A e : ~(Contains(UpperTable(t, c, j), e) /\ Contains(LowerTable(t, c, j), e))
  <2> HIDE DEF s
  <2>1. /\ \A e : Contains(s, e) <=> Contains(SubSeq(s, 1, j), e) \/ Contains(SubSeq(s, j + 1, Len(s)), e)
        /\ \A e : ~(Contains(SubSeq(s, 1, j), e) /\ Contains(SubSeq(s, j + 1, Len(s)), e))
    BY <1>1, CutTable
  <2> QED BY <2>1 DEF s, UpperTable, LowerTable
<1> HIDE DEF s
<1>4. \A e : InTree(u, e) => InTree(t, e)
  <2> SUFFICES ASSUME NEW e, NEW m \in Nodes(u), Contains(TableOf(u, m), e) PROVE InTree(t, e)
    BY DEF InTree
  <2>1. CASE m = c \/ m = upper
    BY <2>1, <1>1, <1>2, <1>3 DEF InTree, s
  <2>2. CASE m # c /\ m # upper
    BY <2>2, <1>2 DEF InTree
  <2> QED BY <2>1, <2>2
<1>5. \A e : InTree(t, e) => InTree(u, e)
  <2> SUFFICES ASSUME NEW e, NEW m \in Nodes(t), Contains(TableOf(t, m), e) PROVE InTree(u, e)
    BY DEF InTree
  <2>1. CASE m = c
    BY <2>1, <1>1, <1>2, <1>3 DEF InTree, s
  <2>2. CASE m # c
    BY <2>2, <1>2 DEF InTree
  <2> QED BY <2>1, <2>2
<1>6. ASSUME Separate(t), NEW n \in Nodes(u), NEW q \in Nodes(u), NEW e \in Block,
             Contains(TableOf(u, n), e), Contains(TableOf(u, q), e)
      PROVE  n = q
  <2> DEFINE Home(m) == IF m = upper THEN c ELSE m
  <2>1. ASSUME NEW m \in Nodes(u), Contains(TableOf(u, m), e)
        PROVE  Home(m) \in Nodes(t) /\ Contains(TableOf(t, Home(m)), e)
    BY <2>1, <1>1, <1>2, <1>3 DEF s
  <2>2. Home(n) = Home(q)
    BY <2>1, <1>6 DEF Separate
  <2>3. CASE n = upper /\ q = c
    BY <2>3, <1>2, <1>3, <1>6
  <2>4. CASE n = c /\ q = upper
    BY <2>4, <1>2, <1>3, <1>6
  <2> QED BY <2>2, <2>3, <2>4
<1> QED BY <1>4, <1>5, <1>6 DEF Separate

\* What a step with a request k in hand has.
Held(t, p, cl, ct, a, x, b, table, y, k) ==
  Base(t, p, cl, ct, a, x, b, table, y) /\ Hand(t, cl, ct, x, b, k)

\* Beginnings of what is told are told.
LEMMA ToldBegins ==
  ASSUME NEW u \in Seq(Int), Told(u), NEW v \in Seq(Int), Begins(u, v)
  PROVE  Told(v)
<1>1. CASE u = <<>>
  <2>1. v = <<>>
    BY <1>1 DEF Begins
  <2> QED BY <2>1 DEF Told
<1>2. CASE u # <<>>
  <2>1. PICK s \in TokenSeqs : Begins(s, u)
    BY <1>2 DEF Told
  <2>2. s \in Seq(Int)
    BY RadixCacheAssumption
  <2> DEFINE E == Int
  <2>3. s \in Seq(E) /\ u \in Seq(E) /\ v \in Seq(E)
    BY <2>2
  <2> HIDE DEF E
  <2>4. Begins(s, v)
    BY <2>1, <2>3, BeginsTransitive
  <2> QED BY <2>4 DEF Told
<1> QED BY <1>1, <1>2

\* The KV of the tokens v is in the blocks r.
ChainStored(ct, v, r) == \A i \in 1 .. Len(r) : ct[r[i]] = SubSeq(v, 1, Span(i))

\* What is right of a chain is right of its beginnings.
LEMMA StoredBegins ==
  ASSUME NEW ct, NEW v \in Seq(Int), NEW r \in Seq(Block), Len(v) = Span(Len(r)), ChainStored(ct, v, r),
         NEW w \in Seq(Int), NEW s \in Seq(Block), Len(w) = Span(Len(s)), Begins(v, w), Begins(r, s)
  PROVE  ChainStored(ct, w, s)
<1> SUFFICES ASSUME NEW i \in 1 .. Len(s) PROVE ct[s[i]] = SubSeq(w, 1, Span(i))
  BY DEF ChainStored
<1>1. /\ Len(s) \in Nat /\ Len(r) \in Nat /\ Len(w) \in Nat /\ Len(v) \in Nat
      /\ Len(s) <= Len(r) /\ Len(w) <= Len(v) /\ s[i] = r[i] /\ \A k \in 1 .. Len(w) : w[k] = v[k]
  BY DEF Begins
<1> DEFINE l == Span(i)
           n == Len(w)
           m == Len(s)
<1>2. i \in Int /\ m \in Int /\ i <= m /\ i \in Nat
  BY <1>1
<1>3. l \in Nat /\ l <= Span(m)
  <2> HIDE DEF m
  <2> QED BY <1>2, SpanFacts
<1>4. l \in Nat /\ l <= n
  BY <1>3
<1>5. ct[r[i]] = SubSeq(v, 1, l)
  <2> HIDE DEF n, m
  <2>1. i \in 1 .. Len(r)
    BY <1>1
  <2> QED BY <2>1 DEF ChainStored
<1>6. Agree(w, v, n)
  BY <1>1 DEF Agree
<1> DEFINE E == Int
<1>7. v \in Seq(E) /\ w \in Seq(E) /\ n \in Nat /\ n <= Len(w) /\ l <= Len(w) /\ l <= Len(v)
  BY <1>1, <1>4
<1> HIDE DEF l, n, m, E
<1>8. SubSeq(w, 1, l) = SubSeq(v, 1, l)
  BY <1>4, <1>6, <1>7, AgreePrefix
<1> QED BY <1>1, <1>5, <1>8 DEF l

\* Splitting a node leaves a right state.
LEMMA SplitBase ==
  ASSUME NEW t, NEW p, NEW cl, NEW ct, NEW a, NEW x, NEW b, NEW table, NEW y, NEW k,
         Held(t, p, cl, ct, a, x, b, table, y, k), NEW c, NEW j, Splittable(t, c, j),
         NEW upper, upper = FreshNode(t), NEW u, IsTree(u), ListOK(u), Splits(t, u, c, upper, j),
         NEW a2, NEW x2, NEW b2, SplitSpan(t, a, x, b, a2, x2, b2, c, upper, j)
  PROVE  Held(u, p, cl, ct, a2, x2, b2, table, y, k)
<1>1. Base(t, p, cl, ct, a, x, b, table, y) /\ Hand(t, cl, ct, x, b, k)
  BY DEF Held
<1>2. Shape(t, a, x, b) /\ IsTree(t) /\ PoolOK(p) /\ Placed(t, cl, x, b) /\ Stored(t, cl, ct, x, b)
      /\ InHand(t, table, y) /\ Refs(t, p, cl, table) /\ Pins(t, a, cl, y)
  BY <1>1 DEF Base, Shape
<1>3. upper \notin Nodes(t) /\ upper \in Nat \ {0}
  BY <1>2, FreshNodeFacts
<1>4. Shape(u, a2, x2, b2)
  BY <1>2, <1>3, SplitShape
<1>5. (\A e : InTree(u, e) <=> InTree(t, e)) /\ Separate(u)
  <2>1. Separate(t)
    BY <1>2 DEF Placed
  <2> QED BY <2>1, <1>2, <1>3, SplitInTree
<1>6. Nodes(u) = Nodes(t) \cup {upper} /\ c \in Nodes(t) \ {Root} /\ ParentOf(t, c) \in Nodes(t)
  <2>1. c \in Nodes(t) \ {Root}
    BY DEF Splittable
  <2> QED BY <2>1, <1>2, ChildFacts DEF Splits
<1>7. /\ \A q \in Nodes(t) : x2[q] = x[q] /\ b2[q] = b[q]
      /\ \A q \in Nodes(t) : a2[q] = IF c \in a[q] THEN a[q] \cup {upper} ELSE a[q]
  BY <1>3 DEF SplitSpan
<1>8. Grows(t, u, x, b, x2, b2)
  BY <1>6, <1>7 DEF Grows
<1>9. \A q \in Nodes(t) : a[q] \subseteq Nodes(t) /\ q \in a[q]
  BY <1>2, NodeFacts, AboveFacts
<1>10. AboveKept(t, a, a2)
  BY <1>3, <1>7 DEF AboveKept
<1>11. /\ Begins(x[c], x2[upper]) /\ Begins(b[c], b2[upper])
       /\ Len(x2[upper]) = Span(Len(b2[upper])) /\ x2[upper] \in Seq(Int) /\ b2[upper] \in Seq(Block)
       /\ Len(x[c]) = Span(Len(b[c])) /\ x[c] \in Seq(Int) /\ b[c] \in Seq(Block)
  <2>1. c \in Nodes(u) /\ upper \in Nodes(u) /\ upper \in a2[c]
    BY <1>6, <1>7, <1>9
  <2>2. Above(u, a2, x2, b2, upper, c)
    BY <2>1, <1>4, AboveFacts
  <2>3. Begins(x2[c], x2[upper]) /\ Begins(b2[c], b2[upper])
    BY <2>2 DEF Above
  <2>4. Len(x2[upper]) = Span(Len(b2[upper]))
    BY <2>1, <1>4, AboveFacts
  <2>5. Len(x[c]) = Span(Len(b[c]))
    BY <1>2, <1>6, AboveFacts
  <2>6. x2[upper] \in Seq(Int) /\ b2[upper] \in Seq(Block)
    BY <2>1, <1>4, NodeFacts
  <2>7. x[c] \in Seq(Int) /\ b[c] \in Seq(Block)
    BY <1>2, <1>6, NodeFacts
  <2>8. x2[c] = x[c] /\ b2[c] = b[c]
    BY <1>6, <1>7
  <2> QED BY <2>3, <2>4, <2>5, <2>6, <2>7, <2>8
<1>12. Placed(u, cl, x2, b2)
  <2>1. cl = [d \in Client |-> cl[d]] /\ IsFiniteSet(RunningIn(cl))
    BY <1>2, Zenon DEF Placed
  <2>2. \A n \in Nodes(u) : Told(x2[n])
    <3>1. Told(x2[upper])
      <4>1. Told(x[c])
        BY <1>2, <1>6 DEF Placed
      <4> QED BY <4>1, <1>11, ToldBegins
    <3> QED BY <3>1, <1>2, <1>6, <1>7 DEF Placed
  <2>3. \A d \in RunningIn(cl) : ClientOK(cl[d], u, x2, b2)
    <3> SUFFICES ASSUME NEW d \in RunningIn(cl) PROVE ClientOK(cl[d], u, x2, b2)
      OBVIOUS
    <3> DEFINE l == cl[d]
    <3>1. ClientOK(l, t, x, b)
      BY <1>2 DEF Placed
    <3> HIDE DEF l
    <3>2. ClientOK(l, u, x2, b2)
      BY <3>1, <1>5, <1>8, ClientGrown
    <3> QED BY <3>2 DEF l
  <2>4. \A d, e \in RunningIn(cl) : d # e => Apart2(cl[d], cl[e], u)
    BY <1>2, <1>5 DEF Placed, Apart2
  <2> QED BY <1>5, <2>1, <2>2, <2>3, <2>4, Zenon DEF Placed
<1>13. TreeStored(u, ct, x2, b2)
  <2>1. \A n \in Nodes(t) : \A i \in 1 .. Len(b[n]) : ct[b[n][i]] = SubSeq(x[n], 1, Span(i))
    BY <1>2, Zenon DEF Stored, TreeStored
  <2>2. \A i \in 1 .. Len(b2[upper]) : ct[b2[upper][i]] = SubSeq(x2[upper], 1, Span(i))
    <3> DEFINE v == x[c]
               r == b[c]
               w == x2[upper]
               s == b2[upper]
    <3>1. \A i \in 1 .. Len(r) : ct[r[i]] = SubSeq(v, 1, Span(i))
      BY <2>1, <1>6
    <3>2. /\ Begins(v, w) /\ Begins(r, s) /\ Len(w) = Span(Len(s)) /\ w \in Seq(Int) /\ s \in Seq(Block)
          /\ Len(v) = Span(Len(r)) /\ v \in Seq(Int) /\ r \in Seq(Block)
      BY <1>11
    <3> HIDE DEF v, r, w, s
    <3>3. ChainStored(ct, v, r)
      BY <3>1, Zenon DEF ChainStored
    <3>4. ChainStored(ct, w, s)
      BY <3>2, <3>3, StoredBegins
    <3> QED BY <3>4 DEF ChainStored, w, s
  <2> SUFFICES ASSUME NEW n \in Nodes(u) PROVE \A i \in 1 .. Len(b2[n]) : ct[b2[n][i]] = SubSeq(x2[n], 1, Span(i))
    BY DEF TreeStored
  <2>3. CASE n = upper
    BY <2>2, <2>3
  <2>4. CASE n \in Nodes(t)
    BY <2>1, <2>4, <1>7
  <2> QED BY <2>3, <2>4, <1>6
<1>14. Stored(u, cl, ct, x2, b2)
  BY <1>2, <1>13 DEF Stored
<1>15. InHand(u, table, y)
  BY <1>2, <1>6 DEF InHand
<1>16. Refs(u, p, cl, table)
  <2>1. ASSUME NEW e \in Block PROVE RefAt(u, cl, table, e) = RefAt(t, cl, table, e)
    BY <1>5 DEF RefAt
  <2> QED BY <2>1, <1>2 DEF Refs
<1>17. Pins(u, a2, cl, y)
  <2> SUFFICES ASSUME NEW n \in Nodes(u) PROVE LockOf(u, n) = PinAt(a2, cl, y, n)
    BY DEF Pins
  <2>1. CASE n \in Nodes(t)
    <3>1. PinAt(a2, cl, y, n) = LockOf(t, n)
      BY <1>1, <1>10, <2>1, PinsGrown
    <3> QED BY <3>1, <2>1 DEF Splits
  <2>2. CASE n = upper
    <3>1. LockOf(u, upper) = LockOf(t, c) /\ LockOf(t, c) = PinAt(a, cl, y, c)
      BY <1>2, <1>6 DEF Splits, Pins
    <3>2. \A z \in Nodes(t) \cup {NoParent} : PinsAt(a2, z, upper) <=> PinsAt(a, z, c)
      BY <1>3, <1>7, <1>9 DEF PinsAt
    <3>3. y \in Nodes(t) \cup {NoParent} /\ \A d \in RunningIn(cl) : cl[d].node \in Nodes(t) \cup {NoParent}
      BY <1>2, HandNode DEF Placed, InHand
    <3>4. Pinners(cl, a2, upper) = Pinners(cl, a, c)
      BY <3>2, <3>3 DEF Pinners
    <3>5. PinsAt(a2, y, upper) <=> PinsAt(a, y, c)
      BY <3>2, <3>3
    <3>6. upper # Root /\ c # Root
      BY <1>3, <1>6 DEF Root
    <3>7. PinAt(a2, cl, y, upper) = PinAt(a, cl, y, c)
      BY <3>4, <3>5, <3>6 DEF PinAt
    <3> QED BY <3>1, <3>7, <2>2
  <2> QED BY <2>1, <2>2, <1>6
<1>18. Hand(u, cl, ct, x2, b2, k)
  <2>1. ClientOK(k, t, x, b) /\ ClientStored(k, ct) /\ \A d \in RunningIn(cl) : Apart2(k, cl[d], t)
    BY <1>1 DEF Hand
  <2>2. ClientOK(k, u, x2, b2)
    BY <2>1, <1>5, <1>8, ClientGrown
  <2>3. \A d \in RunningIn(cl) : Apart2(k, cl[d], u)
    BY <2>1, <1>5 DEF Apart2
  <2> QED BY <2>1, <2>2, <2>3 DEF Hand
<1>19. Base(u, p, cl, ct, a2, x2, b2, table, y)
  BY <1>2, <1>4, <1>12, <1>14, <1>15, <1>16, <1>17 DEF Base
<1> QED BY <1>18, <1>19 DEF Held

\* The blocks that are full of tokens.
FullBlocks(tokens) == Len(tokens) \div BlockSize

\* The part of the tokens and of the table that insert hangs as a leaf after g blocks.
LeafParts(tokens, table, g, key, blocks) ==
  /\ key \in Seq(Int) /\ blocks \in Table /\ blocks # <<>> /\ Len(blocks) \in Nat \ {0}
  /\ Len(key) = Span(Len(blocks)) /\ BlockSize <= Len(key)
  /\ g + Len(blocks) <= Len(table) /\ Span(g) + Len(key) <= Len(tokens)
  /\ \A i \in 1 .. Len(blocks) : blocks[i] = table[g + i]
  /\ \A i \in 1 .. Len(key) : key[i] = tokens[Span(g) + i]
  /\ g + Len(blocks) = FullBlocks(tokens)

\* The key and the blocks of a new leaf, cut off after g blocks.
LEMMA LeafCut ==
  ASSUME NEW tokens \in Seq(Int), NEW table \in Table, Len(table) = BlocksNeeded(Len(tokens)),
         NEW g \in Nat, Span(g) < Aligned(Len(tokens))
  PROVE  LeafParts(tokens, table, g, KeyAfter(tokens, Span(g)), BlocksAfter(tokens, table, Span(g)))
<1> DEFINE n == Len(tokens)
           h == n \div BlockSize
           key == SubSeq(tokens, Span(g) + 1, Span(h))
           blocks == SubSeq(table, g + 1, h)
           d == h - g
<1>1. n \in Nat
  OBVIOUS
<1>2. Aligned(n) = Span(h) /\ h \in Nat /\ Aligned(n) <= n /\ h <= BlocksNeeded(n)
  <2> HIDE DEF n
  <2> QED BY <1>1, AlignedLength, NeededBlocks DEF h
<1>3. KeyAfter(tokens, Span(g)) = key
  BY <1>2 DEF KeyAfter
<1>4. BlocksAfter(tokens, table, Span(g)) = blocks
  <2>1. Span(g) \div BlockSize = g
    BY BlocksIn
  <2> QED BY <2>1 DEF BlocksAfter
<1>5. Span(g) < Span(h) /\ Span(h) <= n /\ h <= Len(table)
  BY <1>2
<1> HIDE DEF n, h
<1>6. g < h /\ d \in Nat /\ d >= 1 /\ g + d = h
  <2>1. g < h
    <3>1. g \in Int /\ h \in Int
      BY <1>2
    <3> QED BY <3>1, <1>5, SpanFacts
  <2> QED BY <2>1, <1>2
<1> HIDE DEF d
<1>7. Span(h) = Span(g) + Span(d) /\ Span(d) \in Nat /\ BlockSize <= Span(d) /\ Span(g) \in Nat /\ Span(h) \in Nat
  <2>1. Span(g + d) = Span(g) + Span(d)
    <3>1. g \in Int /\ d \in Int
      BY <1>6
    <3> QED BY <3>1, SpanFacts
  <2>2. Span(d) \in Nat /\ Span(g) \in Nat /\ Span(h) \in Nat
    BY <1>2, <1>6, SpanFacts
  <2>3. BlockSize <= Span(d)
    <3>1. 1 \in Int /\ d \in Int /\ 1 <= d
      BY <1>6
    <3>2. Span(1) <= Span(d) /\ Span(1) = BlockSize
      BY <3>1, SpanFacts
    <3> QED BY <3>2
  <2> QED BY <2>1, <2>2, <2>3, <1>6
<1>8. /\ key \in Seq(Int) /\ Len(key) = Span(d)
      /\ \A i \in 1 .. Span(d) : key[i] = tokens[Span(g) + i]
  <2> DEFINE i == Span(g)
             j == Span(h)
             E == Int
  <2>1. i \in Nat /\ j \in Nat /\ i <= j /\ j <= Len(tokens) /\ tokens \in Seq(E)
    BY <1>5, <1>7 DEF n
  <2>2. j - i = Span(d)
    BY <1>7
  <2> HIDE DEF i, j, E
  <2>3. /\ SubSeq(tokens, i + 1, j) \in Seq(E) /\ Len(SubSeq(tokens, i + 1, j)) = j - i
        /\ \A k \in 1 .. j - i : SubSeq(tokens, i + 1, j)[k] = tokens[i + k]
    BY <2>1, SubSeqFacts
  <2> QED BY <2>2, <2>3 DEF i, j, E
<1>9. /\ blocks \in Seq(Block) /\ Len(blocks) = d
      /\ \A i \in 1 .. d : blocks[i] = table[g + i]
  <2> DEFINE E == Block
  <2>1. g \in Nat /\ h \in Nat /\ g <= h /\ h <= Len(table) /\ table \in Seq(E) /\ h - g = d
    BY <1>2, <1>5, <1>6 DEF Table
  <2> HIDE DEF E
  <2>2. /\ SubSeq(table, g + 1, h) \in Seq(E) /\ Len(SubSeq(table, g + 1, h)) = h - g
        /\ \A k \in 1 .. h - g : SubSeq(table, g + 1, h)[k] = table[g + k]
    BY <2>1, SubSeqFacts
  <2> QED BY <2>1, <2>2 DEF E
<1> HIDE DEF key, blocks
<1>10. blocks \in Table /\ blocks # <<>>
  <2>1. ASSUME NEW i \in 1 .. d, NEW j \in 1 .. d, blocks[i] = blocks[j] PROVE i = j
    <3>1. g + i \in 1 .. Len(table) /\ g + j \in 1 .. Len(table)
      BY <1>5, <1>6 DEF Table
    <3>2. table[g + i] = table[g + j]
      BY <2>1, <1>9
    <3>3. g + i = g + j
      BY <3>1, <3>2 DEF Table, NoDuplicates
    <3> QED BY <3>3
  <2>2. blocks # <<>>
    BY <1>6, <1>9
  <2> QED BY <2>1, <2>2, <1>9 DEF Table, NoDuplicates
<1>11. g + Len(blocks) <= Len(table) /\ Span(g) + Len(key) <= Len(tokens) /\ Len(blocks) \in Nat \ {0}
  <2>1. g + d <= Len(table)
    BY <1>5, <1>6
  <2>2. Span(g) + Span(d) <= Len(tokens)
    BY <1>5, <1>7 DEF n
  <2> QED BY <2>1, <2>2, <1>6, <1>8, <1>9
<1>12. g + Len(blocks) = FullBlocks(tokens)
  BY <1>6, <1>9 DEF h, n, FullBlocks
<1>13. LeafParts(tokens, table, g, key, blocks)
  BY <1>7, <1>8, <1>9, <1>10, <1>11, <1>12 DEF LeafParts
<1> QED BY <1>3, <1>4, <1>13

\* The leaf is filed under the tokens after the g blocks.
LEMMA LeafFirstBlock ==
  ASSUME NEW tokens, NEW table, NEW g \in Nat, NEW key, NEW blocks, LeafParts(tokens, table, g, key, blocks),
         tokens \in Seq(Int)
  PROVE  BlockAt(key, 0) = BlockAt(tokens, Span(g))
<1> DEFINE l == Span(g)
           n == Len(tokens)
           c == Len(key)
<1>1. l \in Nat /\ n \in Nat /\ c \in Nat /\ BlockSize \in Nat /\ BlockSize <= c /\ l + c <= n
      /\ \A i \in 1 .. c : key[i] = tokens[l + i]
  <2>1. l \in Nat /\ BlockSize \in Nat
    BY SpanFacts
  <2>2. /\ key \in Seq(Int) /\ BlockSize <= c /\ l + c <= n
        /\ \A i \in 1 .. c : key[i] = tokens[l + i]
    BY DEF LeafParts
  <2>3. n \in Nat /\ c \in Nat
    BY <2>2
  <2> QED BY <2>1, <2>2, <2>3
<1> HIDE DEF l, n, c
<1>2. ASSUME NEW i \in 1 .. BlockSize
      PROVE  (IF 0 + i <= c THEN key[0 + i] ELSE Junk) = (IF l + i <= n THEN tokens[l + i] ELSE Junk)
  <2>1. 0 + i <= c /\ 0 + i = i /\ l + i <= n /\ i \in 1 .. c
    BY <1>1
  <2> QED BY <2>1, <1>1
<1>3. BlockAt(key, 0) = [i \in 1 .. BlockSize |-> IF 0 + i <= c THEN key[0 + i] ELSE Junk]
  BY DEF BlockAt, c
<1>4. BlockAt(tokens, l) = [i \in 1 .. BlockSize |-> IF l + i <= n THEN tokens[l + i] ELSE Junk]
  BY DEF BlockAt, n
<1> QED BY <1>2, <1>3, <1>4 DEF l

\* The tokens of the leaf are the first of the tokens.
LEMMA LeafTokens ==
  ASSUME NEW tokens, NEW table, NEW g \in Nat, NEW key, NEW blocks, LeafParts(tokens, table, g, key, blocks),
         tokens \in Seq(Int), NEW v \in Seq(Int), Len(v) = Span(g), Agree(v, tokens, Span(g))
  PROVE  /\ v \o key \in Seq(Int) /\ Len(v \o key) = Span(g + Len(blocks))
         /\ Begins(tokens, v \o key)
<1> DEFINE l == Span(g)
           c == Len(key)
           w == v \o key
<1>1. /\ l \in Nat /\ c \in Nat /\ l + c <= Len(tokens) /\ Len(tokens) \in Nat /\ key \in Seq(Int)
      /\ \A i \in 1 .. c : key[i] = tokens[l + i]
  BY SpanFacts DEF LeafParts
<1>2. Span(g + Len(blocks)) = l + c
  <2> DEFINE d == Len(blocks)
  <2>1. d \in Int /\ g \in Int /\ c = Span(d)
    BY DEF LeafParts
  <2> HIDE DEF d
  <2>2. Span(g + d) = Span(g) + Span(d)
    BY <2>1, SpanFacts
  <2> QED BY <2>1, <2>2 DEF d
<1>3. /\ w \in Seq(Int) /\ Len(w) = l + c
      /\ \A i \in 1 .. l : w[i] = v[i]
      /\ \A i \in 1 .. c : w[l + i] = key[i]
  <2> DEFINE E == Int
  <2>1. v \in Seq(E) /\ key \in Seq(E) /\ Len(v) = l
    BY <1>1
  <2> HIDE DEF E, l, c
  <2>2. Joined(w, v, key)
    BY <2>1, JoinedConcat
  <2>3. w \in Seq(E)
    BY <2>1
  <2> HIDE DEF w
  <2>4. Len(w) = l + c /\ \A i \in 1 .. c : w[l + i] = key[i]
    BY <2>1, <2>2 DEF c, Joined
  <2>5. \A i \in 1 .. l : w[i] = v[i]
    BY <2>1, <2>2 DEF Joined, Begins
  <2> QED BY <2>3, <2>4, <2>5 DEF E
<1>4. \A i \in 1 .. l : v[i] = tokens[i]
  BY DEF Agree
<1> HIDE DEF l, c, w
<1>5. ASSUME NEW i \in 1 .. Len(w) PROVE w[i] = tokens[i]
  <2>1. CASE i <= l
    BY <2>1, <1>1, <1>3, <1>4
  <2>2. CASE i > l
    <3> DEFINE e == i - l
    <3>1. e \in 1 .. c /\ i = l + e
      BY <2>2, <1>1, <1>3
    <3> HIDE DEF e
    <3> QED BY <3>1, <1>1, <1>3
  <2> QED BY <2>1, <2>2, <1>1, <1>3
<1>6. Begins(tokens, w)
  BY <1>1, <1>3, <1>5 DEF Begins
<1> QED BY <1>2, <1>3, <1>6 DEF w

\* A node under which the leaf for the tokens after its g blocks is to hang.
LeafPlace(t, b, x, tokens, q, g) ==
  /\ q \in Nodes(t) /\ g \in Nat /\ Len(b[q]) = g
  /\ Span(g) < Aligned(Len(tokens)) /\ Agree(x[q], tokens, Span(g))
  /\ BlockAt(tokens, Span(g)) \notin DOMAIN KidsOf(t, q)

\* What the nodes stand for, with the leaf.
LeafSpan(a, x, b, a2, x2, b2, q, leaf, key, blocks) ==
  /\ a2 = Put(a, leaf, a[q] \cup {leaf})
  /\ x2 = Put(x, leaf, x[q] \o key)
  /\ b2 = Put(b, leaf, b[q] \o blocks)
LeafStands(t, a, x, b, a2, x2, b2, q, leaf, key, blocks) ==
  /\ \A n \in Nodes(t) : a2[n] = a[n] /\ x2[n] = x[n] /\ b2[n] = b[n]
  /\ x2[leaf] = x[q] \o key /\ b2[leaf] = b[q] \o blocks

\* The tokens and blocks down to the new leaf are those of its parent and then its own.
LEMMA LeafSpanFacts ==
  ASSUME NEW t, NEW a, NEW x, NEW b, Shape(t, a, x, b), NEW a2, NEW x2, NEW b2, NEW q \in Nodes(t),
         NEW leaf, leaf \notin Nodes(t), NEW key, NEW blocks,
         LeafSpan(a, x, b, a2, x2, b2, q, leaf, key, blocks)
  PROVE  LeafStands(t, a, x, b, a2, x2, b2, q, leaf, key, blocks)
<1>1. DOMAIN a = Nodes(t) /\ DOMAIN x = Nodes(t) /\ DOMAIN b = Nodes(t)
  BY DEF Shape, Spanned
<1>2. \A n \in Nodes(t) : a2[n] = a[n]
  <2>1. a2 = Put(a, leaf, a[q] \cup {leaf})
    BY DEF LeafSpan
  <2> QED BY <2>1, <1>1, PutFacts
<1>3. (\A n \in Nodes(t) : x2[n] = x[n]) /\ x2[leaf] = x[q] \o key
  <2> DEFINE v == x[q] \o key
  <2>1. x2 = Put(x, leaf, v)
    BY DEF LeafSpan
  <2> HIDE DEF v
  <2>2. (\A n \in Nodes(t) : x2[n] = x[n]) /\ x2[leaf] = v
    BY <2>1, <1>1, PutFacts
  <2> QED BY <2>2 DEF v
<1>4. (\A n \in Nodes(t) : b2[n] = b[n]) /\ b2[leaf] = b[q] \o blocks
  <2> DEFINE v == b[q] \o blocks
  <2>1. b2 = Put(b, leaf, v)
    BY DEF LeafSpan
  <2> HIDE DEF v
  <2>2. (\A n \in Nodes(t) : b2[n] = b[n]) /\ b2[leaf] = v
    BY <2>1, <1>1, PutFacts
  <2> QED BY <2>2 DEF v
<1> QED BY <1>2, <1>3, <1>4 DEF LeafStands

\* The tree with the leaf.
LEMMA LeafTree ==
  ASSUME NEW t, NEW a, NEW x, NEW b, Shape(t, a, x, b), ListOK(t), NEW tokens \in Seq(Int), NEW table,
         NEW q, NEW g, LeafPlace(t, b, x, tokens, q, g),
         NEW key, NEW blocks, LeafParts(tokens, table, g, key, blocks),
         NEW leaf, leaf = FreshNode(t), NEW u, u = HangLeaf(t, q, key, blocks),
         NEW a2, NEW x2, NEW b2, LeafSpan(a, x, b, a2, x2, b2, q, leaf, key, blocks)
  PROVE  Shape(u, a2, x2, b2) /\ ListOK(u) /\ Hung(t, u, q, leaf, key, blocks)
<1>1. /\ key \in Seq(Int) /\ blocks \in Table /\ blocks # <<>> /\ Len(key) = Span(Len(blocks))
  BY DEF LeafParts
<1>2. q \in Nodes(t) /\ g \in Nat /\ BlockAt(tokens, Span(g)) \notin DOMAIN KidsOf(t, q)
  BY DEF LeafPlace
<1>3. IsTree(t)
  BY DEF Shape
<1>4. IsTree(u) /\ ListOK(u) /\ Hung(t, u, q, leaf, key, blocks)
  BY <1>1, <1>2, <1>3, HangLeafFacts
<1>5. leaf \notin Nodes(t)
  BY <1>3, FreshNodeFacts
<1>6. BlockAt(key, 0) \notin DOMAIN KidsOf(t, q)
  BY <1>2, LeafFirstBlock
<1>7. Whole(u, leaf)
  BY <1>1, <1>4 DEF Hung, Whole
<1>8. Shape(u, a2, x2, b2)
  <2>1. a2 = Put(a, leaf, a[q] \cup {leaf}) /\ x2 = Put(x, leaf, x[q] \o key) /\ b2 = Put(b, leaf, b[q] \o blocks)
    BY DEF LeafSpan
  <2> QED BY <1>1, <1>2, <1>4, <1>5, <1>6, <1>7, <2>1, HungShape
<1> QED BY <1>4, <1>8

\* The blocks of the tree with the leaf.
LEMMA LeafInTree ==
  ASSUME NEW t, NEW u, NEW q \in Nodes(t), NEW leaf, leaf \notin Nodes(t), NEW key, NEW blocks,
         Hung(t, u, q, leaf, key, blocks)
  PROVE  /\ \A e : InTree(u, e) <=> InTree(t, e) \/ Contains(blocks, e)
         /\ Separate(t) /\ (\A e \in Block : Contains(blocks, e) => ~InTree(t, e)) => Separate(u)
<1>1. /\ Nodes(u) = Nodes(t) \cup {leaf} /\ TableOf(u, leaf) = blocks
      /\ \A m \in Nodes(t) : TableOf(u, m) = TableOf(t, m)
  BY DEF Hung
<1>2. \A e : InTree(u, e) <=> InTree(t, e) \/ Contains(blocks, e)
  BY <1>1 DEF InTree
<1>3. ASSUME Separate(t), \A e \in Block : Contains(blocks, e) => ~InTree(t, e),
             NEW n \in Nodes(u), NEW m \in Nodes(u), NEW e \in Block,
             Contains(TableOf(u, n), e), Contains(TableOf(u, m), e)
      PROVE  n = m
  <2>1. CASE n = leaf /\ m # leaf
    BY <2>1, <1>1, <1>3 DEF InTree
  <2>2. CASE n # leaf /\ m = leaf
    BY <2>2, <1>1, <1>3 DEF InTree
  <2>3. CASE n # leaf /\ m # leaf
    BY <2>3, <1>1, <1>3 DEF Separate
  <2> QED BY <2>1, <2>2, <2>3
<1> QED BY <1>2, <1>3 DEF Separate

\* The blocks of the leaf are the request's, and in no node.
LEMMA LeafBlocks ==
  ASSUME NEW t, NEW x, NEW b, NEW k, ClientOK(k, t, x, b), NEW tokens, NEW g \in Nat, k.matched <= g,
         NEW key, NEW blocks, LeafParts(tokens, k.table, g, key, blocks)
  PROVE  \A e \in Block : Contains(blocks, e) => Contains(k.table, e) /\ ~InTree(t, e)
<1> SUFFICES ASSUME NEW e \in Block, Contains(blocks, e) PROVE Contains(k.table, e) /\ ~InTree(t, e)
  OBVIOUS
<1> DEFINE s == k.table
           h == k.matched
<1>1. /\ s \in Table /\ h \in Nat /\ h <= g /\ \A i \in h + 1 .. Len(s) : ~InTree(t, s[i])
  BY DEF ClientOK
<1>2. /\ blocks \in Table /\ g + Len(blocks) <= Len(s) /\ \A i \in 1 .. Len(blocks) : blocks[i] = s[g + i]
  BY DEF LeafParts
<1> HIDE DEF s, h
<1>3. PICK i \in 1 .. Len(blocks) : blocks[i] = e
  BY <1>2 DEF Contains, Table
<1>4. Len(s) \in Nat /\ Len(blocks) \in Nat
  BY <1>1, <1>2 DEF Table
<1>5. g + i \in h + 1 .. Len(s) /\ g + i \in 1 .. Len(s)
  BY <1>1, <1>2, <1>3, <1>4
<1>6. s[g + i] = e
  BY <1>2, <1>3
<1>7. Contains(s, e)
  BY <1>1, <1>5, <1>6 DEF Contains, Table
<1> QED BY <1>1, <1>5, <1>6, <1>7 DEF s

\* The references on the leaf's blocks.
LEMMA LeafRefs ==
  ASSUME NEW t, NEW p, NEW cl, NEW ct, NEW a, NEW x, NEW b, NEW table, NEW y,
         Base(t, p, cl, ct, a, x, b, table, y), NEW blocks \in Table,
         \A e \in Block : Contains(blocks, e) => Contains(table, e) /\ ~InTree(t, e),
         NEW u, \A e : InTree(u, e) <=> InTree(t, e) \/ Contains(blocks, e)
  PROVE  Ref(p, blocks).ok /\ PoolOK(Ref(p, blocks).pool) /\ Refs(u, Ref(p, blocks).pool, cl, table)
<1>1. PoolOK(p) /\ Refs(t, p, cl, table)
  BY DEF Base
<1>2. ASSUME NEW e \in Block
      PROVE  /\ p.ref_cnt[e] = (IF InTree(t, e) THEN 1 ELSE 0) + (IF Contains(table, e) THEN 1 ELSE 0)
                               + Cardinality(Holders(cl, e))
             /\ Cardinality(Holders(cl, e)) \in Nat
  <2>1. Cardinality(Holders(cl, e)) \in Nat
    BY Counts DEF Base, Placed
  <2>2. p.ref_cnt[e] = RefAt(t, cl, table, e)
    BY <1>1 DEF Refs
  <2> QED BY <2>1, <2>2 DEF RefAt
<1>3. \A e \in Block : Contains(blocks, e) => p.ref_cnt[e] >= 1
  <2> SUFFICES ASSUME NEW e \in Block, Contains(blocks, e) PROVE p.ref_cnt[e] >= 1
    OBVIOUS
  <2> DEFINE v == p.ref_cnt[e]
             k == Cardinality(Holders(cl, e))
  <2>1. v = 0 + 1 + k /\ k \in Nat
    BY <1>2
  <2> HIDE DEF v, k
  <2>2. v >= 1
    BY <2>1
  <2> QED BY <2>2 DEF v
<1> DEFINE q == Ref(p, blocks).pool
<1>4. /\ Ref(p, blocks).ok /\ PoolOK(q)
      /\ \A e \in Block : q.ref_cnt[e] = IF Contains(blocks, e) THEN p.ref_cnt[e] + 1 ELSE p.ref_cnt[e]
  BY <1>1, <1>3, RefTable
<1> HIDE DEF q
<1>5. Refs(u, q, cl, table)
  <2> SUFFICES ASSUME NEW e \in Block PROVE q.ref_cnt[e] = RefAt(u, cl, table, e)
    BY DEF Refs
  <2> DEFINE v == p.ref_cnt[e]
             w == q.ref_cnt[e]
             k == Cardinality(Holders(cl, e))
  <2>1. /\ v = (IF InTree(t, e) THEN 1 ELSE 0) + (IF Contains(table, e) THEN 1 ELSE 0) + k /\ k \in Nat
        /\ w = IF Contains(blocks, e) THEN v + 1 ELSE v
    BY <1>2, <1>4
  <2>2. RefAt(u, cl, table, e) = (IF InTree(u, e) THEN 1 ELSE 0) + (IF Contains(table, e) THEN 1 ELSE 0) + k
    BY DEF RefAt
  <2>3. /\ InTree(u, e) <=> InTree(t, e) \/ Contains(blocks, e)
        /\ Contains(blocks, e) => Contains(table, e) /\ ~InTree(t, e)
    OBVIOUS
  <2> HIDE DEF v, w, k
  <2>4. w = (IF InTree(u, e) THEN 1 ELSE 0) + (IF Contains(table, e) THEN 1 ELSE 0) + k
    <3>1. CASE Contains(blocks, e)
      BY <3>1, <2>1, <2>3
    <3>2. CASE ~Contains(blocks, e)
      BY <3>2, <2>1, <2>3
    <3> QED BY <3>1, <3>2
  <2> QED BY <2>2, <2>4 DEF w
<1> QED BY <1>4, <1>5 DEF q

\* The KV of the leaf's tokens is in its blocks: up to the leaf because the
\* tree is right, in the leaf because the request is.
LEMMA LeafStored ==
  ASSUME NEW tokens \in Seq(Int), NEW table \in Table, NEW ct,
         \A i \in 1 .. Len(table) : ct[table[i]] = PrefixTo(tokens, i),
         NEW g \in Nat, NEW key, NEW blocks, LeafParts(tokens, table, g, key, blocks),
         NEW v \in Seq(Int), NEW r \in Seq(Block), Len(v) = Span(g), Len(r) = g,
         Agree(v, tokens, Span(g)), ChainStored(ct, v, r)
  PROVE  ChainStored(ct, v \o key, r \o blocks)
<1> DEFINE w == v \o key
           s == r \o blocks
<1>1. /\ key \in Seq(Int) /\ blocks \in Seq(Block) /\ Len(blocks) \in Nat /\ g + Len(blocks) <= Len(table)
      /\ \A i \in 1 .. Len(blocks) : blocks[i] = table[g + i]
  BY DEF LeafParts, Table
<1>2. w \in Seq(Int) /\ Len(w) = Span(g + Len(blocks)) /\ Begins(tokens, w)
  BY LeafTokens
<1>3. Begins(w, v)
  BY <1>1, BeginsConcat
<1>4. Joined(s, r, blocks)
  BY <1>1, JoinedConcat
<1> HIDE DEF w, s
<1>5. /\ Len(s) = g + Len(blocks)
      /\ \A i \in 1 .. g : s[i] = r[i]
      /\ \A i \in 1 .. Len(blocks) : s[g + i] = blocks[i]
  BY <1>4 DEF Joined, Begins
<1>6. ASSUME NEW i \in 1 .. Len(s)
      PROVE  /\ i \in Nat /\ i >= 1 /\ Span(i) \in Nat /\ Span(i) <= Len(w) /\ Span(i) <= Len(tokens)
             /\ Len(w) \in Nat /\ Len(tokens) \in Nat
  <2>1. Len(w) <= Len(tokens) /\ Len(w) \in Nat /\ Len(tokens) \in Nat
    BY <1>2 DEF Begins
  <2>2. i \in Nat /\ i >= 1 /\ g + Len(blocks) \in Nat /\ i <= g + Len(blocks)
    BY <1>1, <1>5
  <2>3. Span(i) \in Nat /\ Span(i) <= Span(g + Len(blocks))
    BY <2>2, SpanOrder, SpanFacts
  <2> QED BY <1>2, <2>1, <2>2, <2>3
<1>7. ASSUME NEW i \in 1 .. Len(s) PROVE ct[s[i]] = SubSeq(w, 1, Span(i))
  <2>1. CASE i <= g
    <3>1. i \in 1 .. Len(r) /\ s[i] = r[i] /\ Span(i) <= Span(g)
      BY <2>1, <1>5, <1>6, SpanOrder
    <3>2. ct[r[i]] = SubSeq(v, 1, Span(i))
      BY <3>1 DEF ChainStored
    <3>3. Agree(v, w, Span(i))
      BY <1>3, <1>6, <3>1 DEF Begins, Agree
    <3>4. SubSeq(v, 1, Span(i)) = SubSeq(w, 1, Span(i))
      <4> DEFINE l == Span(i)
      <4>1. l \in Nat /\ l <= Len(v) /\ l <= Len(w) /\ Agree(v, w, l) /\ w \in Seq(Int)
        BY <3>1, <3>3, <1>2, <1>6
      <4> HIDE DEF l
      <4>2. SubSeq(v, 1, l) = SubSeq(w, 1, l)
        BY <4>1, AgreePrefix
      <4> QED BY <4>2 DEF l
    <3> QED BY <3>1, <3>2, <3>4
  <2>2. CASE g < i
    <3> DEFINE d == i - g
    <3>1. d \in 1 .. Len(blocks) /\ g + d = i /\ i \in 1 .. Len(table)
      <4>1. Len(table) \in Nat
        BY DEF Table
      <4> QED BY <4>1, <2>2, <1>1, <1>5, <1>6
    <3> HIDE DEF d
    <3>2. s[i] = table[i]
      BY <3>1, <1>1, <1>5
    <3>3. PrefixTo(tokens, i) = SubSeq(tokens, 1, Span(i))
      BY <1>6, WholePrefix
    <3>4. Agree(tokens, w, Span(i))
      BY <1>2, <1>6 DEF Begins, Agree
    <3>5. SubSeq(tokens, 1, Span(i)) = SubSeq(w, 1, Span(i))
      <4> DEFINE l == Span(i)
      <4>1. l \in Nat /\ l <= Len(tokens) /\ l <= Len(w) /\ Agree(tokens, w, l)
            /\ tokens \in Seq(Int) /\ w \in Seq(Int)
        BY <3>4, <1>2, <1>6
      <4> HIDE DEF l
      <4>2. \A n \in Nat : n <= n
        OBVIOUS
      <4>3. SubSeq(tokens, 1, l) = SubSeq(w, 1, l)
        BY <4>1, <4>2, AgreePrefix, Zenon
      <4> QED BY <4>3 DEF l
    <3> QED BY <3>1, <3>2, <3>3, <3>5
  <2>3. i \in Nat /\ g \in Nat
    BY <1>6
  <2> QED BY <2>1, <2>2, <2>3
<1>8. ChainStored(ct, w, s)
  BY <1>7 DEF ChainStored
<1> QED BY <1>8 DEF w, s

\* The other requests with the leaf in the tree: no block of the leaf is theirs.
LEMMA LeafPlaced ==
  ASSUME NEW t, NEW cl, NEW ct, NEW x, NEW b, Placed(t, cl, x, b), NEW k, Hand(t, cl, ct, x, b, k),
         NEW blocks, \A e \in Block : Contains(blocks, e) => Contains(k.table, e) /\ ~InTree(t, e),
         NEW u, NEW leaf, Nodes(u) = Nodes(t) \cup {leaf}, Separate(u),
         \A e : InTree(u, e) <=> InTree(t, e) \/ Contains(blocks, e),
         NEW x2, NEW b2, Grows(t, u, x, b, x2, b2), Told(x2[leaf])
  PROVE  Placed(u, cl, x2, b2)
<1>1. cl = [d \in Client |-> cl[d]] /\ IsFiniteSet(RunningIn(cl))
  BY Zenon DEF Placed
<1>2. \A n \in Nodes(u) : Told(x2[n])
  BY DEF Placed, Grows
<1>3. ASSUME NEW d \in RunningIn(cl) PROVE ClientOK(cl[d], u, x2, b2)
  <2> DEFINE l == cl[d]
  <2>1. ClientOK(l, t, x, b)
    BY DEF Placed
  <2>2. Apart2(k, l, t)
    BY DEF Hand
  <2> HIDE DEF l
  <2>3. ASSUME NEW e \in Block, Contains(l.table, e), InTree(u, e) PROVE InTree(t, e)
    BY <2>2, <2>3 DEF Apart2
  <2>4. ClientOK(l, u, x2, b2)
    BY <2>1, <2>3, ClientGrown
  <2> QED BY <2>4 DEF l
<1>4. \A d, e \in RunningIn(cl) : d # e => Apart2(cl[d], cl[e], u)
  BY DEF Placed, Apart2
<1> QED BY <1>1, <1>2, <1>3, <1>4, Zenon DEF Placed

\* The pins with the leaf in the tree, which nobody has pinned yet.
LEMMA LeafPins ==
  ASSUME NEW t, NEW p, NEW cl, NEW ct, NEW a, NEW x, NEW b, NEW table, NEW y,
         Base(t, p, cl, ct, a, x, b, table, y), NEW q \in Nodes(t), NEW leaf, leaf \notin Nodes(t), leaf # NoParent,
         NEW key, NEW blocks, NEW u, Hung(t, u, q, leaf, key, blocks), NEW a2, \A n \in Nodes(t) : a2[n] = a[n]
  PROVE  Pins(u, a2, cl, y)
<1>1. Shape(t, a, x, b) /\ InHand(t, table, y) /\ IsFiniteSet(RunningIn(cl))
  BY DEF Base, Placed
<1>2. AboveKept(t, a, a2)
  BY DEF AboveKept
<1>3. \A n \in Nodes(t) : PinAt(a2, cl, y, n) = LockOf(t, n)
  BY <1>2, PinsGrown
<1>4. \A z \in Nodes(t) \cup {NoParent} : ~PinsAt(a2, z, leaf)
  <2>1. \A n \in Nodes(t) : a[n] \subseteq Nodes(t)
    BY <1>1, NodeFacts
  <2> QED BY <2>1 DEF PinsAt
<1>5. y \in Nodes(t) \cup {NoParent} /\ \A d \in RunningIn(cl) : cl[d].node \in Nodes(t) \cup {NoParent}
  BY HandNode DEF Base, Placed, InHand
<1>6. Pinners(cl, a2, leaf) = {} /\ ~PinsAt(a2, y, leaf)
  BY <1>4, <1>5 DEF Pinners
<1>7. Cardinality(Pinners(cl, a2, leaf)) = 0
  BY <1>1, <1>6, Counts
<1>8. leaf # Root
  BY <1>1 DEF Shape, IsTree
<1>9. PinAt(a2, cl, y, leaf) = 0
  BY <1>6, <1>7, <1>8 DEF PinAt
<1> QED BY <1>3, <1>9 DEF Pins, Hung

\* The tree u records, besides what t does, the table's blocks after the first g
\* that are full of tokens.
Adds(t, u, tokens, table, g) ==
  \A e : InTree(u, e) <=> InTree(t, e) \/ \E i \in g + 1 .. FullBlocks(tokens) : table[i] = e

\* The blocks of the leaf are those.
LEMMA LeafAdds ==
  ASSUME NEW t, NEW u, NEW tokens, NEW table, NEW g \in Nat, NEW key, NEW blocks,
         LeafParts(tokens, table, g, key, blocks),
         \A e : InTree(u, e) <=> InTree(t, e) \/ Contains(blocks, e)
  PROVE  Adds(t, u, tokens, table, g)
<1> DEFINE h == FullBlocks(tokens)
<1>1. /\ blocks \in Seq(Block) /\ Len(blocks) \in Nat /\ g + Len(blocks) = h
      /\ \A i \in 1 .. Len(blocks) : blocks[i] = table[g + i]
  BY DEF LeafParts, Table
<1> HIDE DEF h
<1>2. ASSUME NEW e PROVE Contains(blocks, e) <=> \E i \in g + 1 .. h : table[i] = e
  <2>1. Contains(blocks, e) <=> \E i \in 1 .. Len(blocks) : blocks[i] = e
    BY <1>1 DEF Contains
  <2>2. ASSUME NEW i \in 1 .. Len(blocks), blocks[i] = e PROVE \E j \in g + 1 .. h : table[j] = e
    <3>1. g + i \in g + 1 .. h /\ table[g + i] = e
      BY <1>1, <2>2
    <3> QED BY <3>1
  <2>3. ASSUME NEW j \in g + 1 .. h, table[j] = e PROVE \E i \in 1 .. Len(blocks) : blocks[i] = e
    <3>1. j - g \in 1 .. Len(blocks) /\ g + (j - g) = j
      BY <1>1
    <3>2. blocks[j - g] = e
      BY <1>1, <2>3, <3>1
    <3> QED BY <3>1, <3>2
  <2> QED BY <2>1, <2>2, <2>3
<1> QED BY <1>2 DEF Adds, h

\* Hanging the leaf for a request's tokens leaves a right state.
LEMMA LeafBase ==
  ASSUME NEW t, NEW p, NEW cl, NEW ct, NEW a, NEW x, NEW b, NEW y, NEW k, NEW table, NEW tokens,
         table = k.table, tokens = k.tokens,
         Held(t, p, cl, ct, a, x, b, table, y, k), NEW q, NEW g, LeafPlace(t, b, x, tokens, q, g), k.matched <= g,
         NEW key, NEW blocks, LeafParts(tokens, table, g, key, blocks),
         NEW leaf, leaf = FreshNode(t), NEW u, u = HangLeaf(t, q, key, blocks)
  PROVE  /\ Ref(p, blocks).ok /\ Adds(t, u, tokens, table, g)
         /\ \E a2, x2, b2 : Base(u, Ref(p, blocks).pool, cl, ct, a2, x2, b2, table, y)
<1>1. Base(t, p, cl, ct, a, x, b, table, y) /\ Hand(t, cl, ct, x, b, k)
  BY DEF Held
<1>2. Shape(t, a, x, b) /\ IsTree(t) /\ ListOK(t) /\ PoolOK(p) /\ Placed(t, cl, x, b) /\ Stored(t, cl, ct, x, b)
      /\ InHand(t, table, y) /\ Refs(t, p, cl, table) /\ Pins(t, a, cl, y)
  BY <1>1 DEF Base, Shape
<1>3. ClientOK(k, t, x, b) /\ ClientStored(k, ct)
  BY <1>1 DEF Hand
<1>4. tokens \in TokenSeqs /\ table \in Table /\ tokens \in Seq(Int) /\ Told(tokens)
  BY <1>3, FrontFacts DEF ClientOK
<1>5. q \in Nodes(t) /\ g \in Nat /\ Len(b[q]) = g /\ Agree(x[q], tokens, Span(g))
  BY DEF LeafPlace
<1>6. leaf \notin Nodes(t) /\ leaf \in Nat \ {0}
  BY <1>2, FreshNodeFacts
<1> DEFINE a2 == Put(a, leaf, a[q] \cup {leaf})
           x2 == Put(x, leaf, x[q] \o key)
           b2 == Put(b, leaf, b[q] \o blocks)
<1>7. LeafSpan(a, x, b, a2, x2, b2, q, leaf, key, blocks)
  BY DEF LeafSpan
<1> HIDE DEF a2, x2, b2
<1>8. /\ \A n \in Nodes(t) : a2[n] = a[n] /\ x2[n] = x[n] /\ b2[n] = b[n]
      /\ x2[leaf] = x[q] \o key /\ b2[leaf] = b[q] \o blocks
  <2>1. LeafStands(t, a, x, b, a2, x2, b2, q, leaf, key, blocks)
    BY <1>2, <1>5, <1>6, <1>7, LeafSpanFacts
  <2> QED BY <2>1 DEF LeafStands
<1>9. Shape(u, a2, x2, b2) /\ ListOK(u) /\ Hung(t, u, q, leaf, key, blocks)
  BY <1>2, <1>4, <1>7, LeafTree
<1>10. blocks \in Table
  BY DEF LeafParts
<1>11. \A e \in Block : Contains(blocks, e) => Contains(table, e) /\ ~InTree(t, e)
  BY <1>3, <1>5, LeafBlocks
<1>12. (\A e : InTree(u, e) <=> InTree(t, e) \/ Contains(blocks, e)) /\ Separate(u)
  <2>1. Separate(t)
    BY <1>2 DEF Placed
  <2> QED BY <2>1, <1>5, <1>6, <1>9, <1>11, LeafInTree
<1> DEFINE w == Ref(p, blocks)
<1>13. w.ok /\ PoolOK(w.pool) /\ Refs(u, w.pool, cl, table)
  BY <1>1, <1>10, <1>11, <1>12, LeafRefs
<1> HIDE DEF w
<1>14. Nodes(u) = Nodes(t) \cup {leaf}
  BY <1>9 DEF Hung
<1>15. Grows(t, u, x, b, x2, b2)
  BY <1>8, <1>14 DEF Grows
<1>16. x[q] \in Seq(Int) /\ b[q] \in Seq(Block) /\ Len(x[q]) = Span(g)
  BY <1>2, <1>5, NodeFacts, AboveFacts
<1>17. Told(x2[leaf])
  <2> DEFINE v == x[q]
             z == v \o key
  <2>1. v \in Seq(Int) /\ Len(v) = Span(g) /\ Agree(v, tokens, Span(g))
    BY <1>5, <1>16
  <2> HIDE DEF v
  <2>2. z \in Seq(Int) /\ Begins(tokens, z)
    BY <2>1, <1>4, <1>5, LeafTokens
  <2> HIDE DEF z
  <2>3. Told(z)
    BY <2>2, <1>4, ToldBegins
  <2> QED BY <2>3, <1>8 DEF z, v
<1>18. Placed(u, cl, x2, b2)
  BY <1>1, <1>2, <1>11, <1>12, <1>14, <1>15, <1>17, LeafPlaced
<1>19. TreeStored(u, ct, x2, b2)
  <2>1. \A n \in Nodes(t) : \A i \in 1 .. Len(b[n]) : ct[b[n][i]] = SubSeq(x[n], 1, Span(i))
    BY <1>2, Zenon DEF Stored, TreeStored
  <2>2. \A i \in 1 .. Len(b2[leaf]) : ct[b2[leaf][i]] = SubSeq(x2[leaf], 1, Span(i))
    <3> DEFINE v == x[q]
               r == b[q]
    <3>1. \A i \in 1 .. Len(r) : ct[r[i]] = SubSeq(v, 1, Span(i))
      BY <2>1, <1>5
    <3>2. /\ v \in Seq(Int) /\ r \in Seq(Block) /\ Len(v) = Span(g) /\ Len(r) = g /\ Agree(v, tokens, Span(g))
          /\ x2[leaf] = v \o key /\ b2[leaf] = r \o blocks
      BY <1>5, <1>8, <1>16
    <3> HIDE DEF v, r
    <3>3. ChainStored(ct, v, r)
      BY <3>1, Zenon DEF ChainStored
    <3>4. \A i \in 1 .. Len(table) : ct[table[i]] = PrefixTo(tokens, i)
      BY <1>3 DEF ClientStored
    <3>5. ChainStored(ct, v \o key, r \o blocks)
      BY <3>2, <3>3, <3>4, <1>4, <1>5, LeafStored
    <3>6. ChainStored(ct, x2[leaf], b2[leaf])
      BY <3>2, <3>5
    <3> QED BY <3>6 DEF ChainStored
  <2> SUFFICES ASSUME NEW n \in Nodes(u) PROVE \A i \in 1 .. Len(b2[n]) : ct[b2[n][i]] = SubSeq(x2[n], 1, Span(i))
    BY DEF TreeStored
  <2>3. CASE n = leaf
    BY <2>2, <2>3
  <2>4. CASE n \in Nodes(t)
    BY <2>1, <2>4, <1>8
  <2> QED BY <2>3, <2>4, <1>14
<1>20. Stored(u, cl, ct, x2, b2)
  BY <1>2, <1>19 DEF Stored
<1>21. InHand(u, table, y)
  BY <1>2, <1>14 DEF InHand
<1>22. Pins(u, a2, cl, y)
  <2>1. leaf # NoParent
    BY <1>6 DEF NoParent
  <2> QED BY <2>1, <1>1, <1>5, <1>6, <1>8, <1>9, LeafPins
<1>23. Base(u, w.pool, cl, ct, a2, x2, b2, table, y)
  BY <1>9, <1>13, <1>18, <1>20, <1>21, <1>22 DEF Base
<1>24. Adds(t, u, tokens, table, g)
  BY <1>5, <1>12, LeafAdds
<1> QED BY <1>13, <1>23, <1>24 DEF w

\* What insert leads to in tree t, of which it has matched g blocks, with the table
\* and the pin of the request in hand.
Inserted(r, t, tokens, g, cl, ct, table, y) ==
  r.ok /\ Adds(t, r.tree, tokens, table, g) /\ \E a, x, b : Base(r.tree, r.pool, cl, ct, a, x, b, table, y)

\* A leaf is added: its references are taken and it is hung.
LEMMA AddLeafBase ==
  ASSUME NEW t, NEW p, NEW cl, NEW ct, NEW a, NEW x, NEW b, NEW y, NEW k, NEW table, NEW tokens,
         table = k.table, tokens = k.tokens,
         Held(t, p, cl, ct, a, x, b, table, y, k), NEW q, NEW g, LeafPlace(t, b, x, tokens, q, g), k.matched <= g
  PROVE  Inserted(AddLeaf(t, p, q, tokens, table, Span(g)), t, tokens, g, cl, ct, table, y)
<1> DEFINE key    == KeyAfter(tokens, Span(g))
           blocks == BlocksAfter(tokens, table, Span(g))
           u      == HangLeaf(t, q, key, blocks)
           leaf   == FreshNode(t)
           r      == AddLeaf(t, p, q, tokens, table, Span(g))
<1>1. r = [ok |-> Ref(p, blocks).ok, pool |-> Ref(p, blocks).pool, tree |-> IF Ref(p, blocks).ok THEN u ELSE t]
  BY Zenon DEF AddLeaf
<1>2. tokens \in TokenSeqs /\ table \in Table /\ Len(table) = BlocksNeeded(Len(tokens))
  BY DEF Held, Hand, ClientOK
<1>3. tokens \in Seq(Int)
  BY <1>2, FrontFacts
<1>4. g \in Nat /\ Span(g) < Aligned(Len(tokens))
  BY DEF LeafPlace
<1>5. LeafParts(tokens, table, g, key, blocks)
  BY <1>2, <1>3, <1>4, LeafCut
<1> HIDE DEF key, blocks, r
<1>6. u = HangLeaf(t, q, key, blocks) /\ leaf = FreshNode(t)
  OBVIOUS
<1> HIDE DEF u, leaf
<1>7. Ref(p, blocks).ok /\ Adds(t, u, tokens, table, g)
      /\ \E a2, x2, b2 : Base(u, Ref(p, blocks).pool, cl, ct, a2, x2, b2, table, y)
  BY <1>5, <1>6, LeafBase
<1>8. r.ok /\ r.pool = Ref(p, blocks).pool /\ r.tree = u
  BY <1>1, <1>7
<1>9. Inserted(r, t, tokens, g, cl, ct, table, y)
  BY <1>7, <1>8 DEF Inserted
<1> QED BY <1>9 DEF r

\* Keys that differ in their first token are filed apart.
LEMMA FiledApart ==
  ASSUME NEW key \in Seq(Int), NEW tokens \in Seq(Int), NEW l \in Nat, 1 <= Len(key), l + 1 <= Len(tokens),
         key[1] # tokens[l + 1]
  PROVE  BlockAt(key, 0) # BlockAt(tokens, l)
<1>1. 1 \in 1 .. BlockSize
  BY SpanFacts
<1>2. BlockAt(key, 0)[1] = key[1]
  BY <1>1 DEF BlockAt
<1>3. BlockAt(tokens, l)[1] = tokens[l + 1]
  BY <1>1 DEF BlockAt
<1> QED BY <1>2, <1>3

\* The blocks of node n that a walk which collected the blocks r has agreed with.
Point(t, b, n, r, j) == j = Len(r) - Len(LedOf(t, b, n))

\* Where insert splits the node it ended in, in the middle of its key.
LEMMA SplitPoint ==
  ASSUME NEW t, NEW a, NEW x, NEW b, Shape(t, a, x, b), NEW tokens, NEW n, NEW k, NEW m, NEW r,
         Ended(t, x, b, tokens, n, k, m, r), m < Len(KeyOf(t, n)),
         NEW j, Point(t, b, n, r, j)
  PROVE  /\ Splittable(t, n, j) /\ m = Span(j) /\ Aligned(m) = Span(j)
         /\ Len(b[ParentOf(t, n)]) + j = Len(r) /\ SplitAllowed(t, n, Span(j))
         /\ k + 1 <= Len(x[n]) /\ x[n][k + 1] = KeyOf(t, n)[Span(j) + 1]
<1>1. /\ n \in Nodes(t) /\ k = Span(Len(r)) /\ m \in Nat /\ k = LeadOf(t, x, n) + m /\ Len(r) \in Nat
      /\ n # Root => BlockSize <= m
  BY DEF Ended
<1>2. n # Root
  <2>1. CASE n = Root
    <3>1. Len(KeyOf(t, Root)) = 0
      BY DEF Shape, IsTree
    <3> QED BY <3>1, <2>1, <1>1
  <2> QED BY <2>1
<1>3. /\ LeadOf(t, x, n) = Span(Len(LedOf(t, b, n))) /\ LedOf(t, b, n) \in Seq(Block)
      /\ Tailed(x[n], LeadOf(t, x, n), KeyOf(t, n)) /\ LeadOf(t, x, n) \in Nat
  BY <1>1, Leads
<1>4. KeyOf(t, n) \in Seq(Int) /\ TableOf(t, n) \in Seq(Block) /\ Len(KeyOf(t, n)) = Span(Len(TableOf(t, n)))
  BY <1>1, NodeFacts
<1> DEFINE h == Len(LedOf(t, b, n))
           g == Len(r)
           d == Len(TableOf(t, n))
           len == Len(KeyOf(t, n))
           lead == LeadOf(t, x, n)
<1>5. /\ h \in Nat /\ g \in Nat /\ d \in Nat /\ len = Span(d) /\ lead = Span(h) /\ k = Span(g)
      /\ k = lead + m /\ m < len /\ BlockSize <= m /\ m \in Nat /\ len \in Nat /\ lead \in Nat
      /\ Len(x[n]) = lead + len /\ \A i \in 1 .. len : x[n][lead + i] = KeyOf(t, n)[i]
  BY <1>1, <1>2, <1>3, <1>4 DEF Tailed
<1>6. j = g - h
  BY DEF Point
<1>7. h = Len(b[ParentOf(t, n)])
  BY <1>2 DEF LedOf
<1>8. Len(t.node[n].key) = len
  BY DEF KeyOf
<1> HIDE DEF h, g, d, len, lead
<1>9. j \in Int /\ m = Span(j)
  <2>1. g \in Int /\ h \in Int
    BY <1>5
  <2>2. j \in Int
    BY <1>6, <2>1
  <2>3. Span(g - h) = Span(g) - Span(h) /\ Span(g) \in Int /\ Span(h) \in Int
    BY <2>1, SpanFacts
  <2>4. Span(j) = Span(g) - Span(h)
    BY <1>6, <2>3
  <2>5. Span(g) = lead + m /\ Span(h) = lead
    BY <1>5
  <2> QED BY <1>5, <2>2, <2>3, <2>4, <2>5
<1>10. 1 <= j /\ j < d
  <2>1. Span(1) = BlockSize /\ BlockSize \in Nat
    BY SpanFacts
  <2>2. Span(1) <= Span(j) /\ Span(j) < Span(d)
    BY <1>5, <1>9, <2>1
  <2>3. (1 <= j <=> Span(1) <= Span(j)) /\ (j < d <=> Span(j) < Span(d))
    <3>1. j \in Int /\ d \in Int /\ 1 \in Int
      BY <1>5, <1>9
    <3> QED BY <3>1, SpanFacts
  <2> QED BY <2>2, <2>3
<1>11. j \in Nat
  BY <1>9, <1>10
<1>12. Splittable(t, n, j)
  BY <1>1, <1>2, <1>10, <1>11 DEF Splittable, d
<1>13. Aligned(m) = Span(j)
  BY <1>5, <1>9, <1>11, BlocksIn, AlignedLength
<1>14. SplitAllowed(t, n, Span(j))
  <2>1. Span(j) \in Nat /\ Span(j) > 0 /\ Span(j) + BlockSize <= Span(d) /\ BlockSize \in Nat
    <3>1. Span(j) + BlockSize <= Span(d)
      <4>1. j \in Int /\ d \in Int
        BY <1>5, <1>9
      <4> QED BY <4>1, <1>10, SpanFacts
    <3>2. BlockSize \in Nat \ {0}
      BY SpanFacts
    <3>3. BlockSize <= Span(j) /\ Span(j) \in Nat
      BY <1>5, <1>9
    <3> QED BY <3>1, <3>2, <3>3
  <2> DEFINE s == Span(j)
  <2>2. s \in Nat /\ s > 0 /\ s + BlockSize <= len /\ BlockSize \in Nat /\ len \in Nat
    BY <1>5, <2>1
  <2> HIDE DEF s
  <2>3. s > 0 /\ len - s >= BlockSize
    BY <2>2
  <2>4. SplitAllowed(t, n, s)
    BY <2>3, <1>8 DEF SplitAllowed
  <2> QED BY <2>4 DEF s
<1>15. h + j = g
  BY <1>5, <1>6
<1>16. k + 1 <= Len(x[n]) /\ x[n][k + 1] = KeyOf(t, n)[Span(j) + 1]
  <2>1. m + 1 \in 1 .. len /\ lead + (m + 1) = k + 1 /\ k + 1 <= lead + len
    BY <1>5
  <2>2. x[n][lead + (m + 1)] = KeyOf(t, n)[m + 1]
    BY <2>1, <1>5
  <2> QED BY <2>1, <2>2, <1>5, <1>9
<1> QED BY <1>7, <1>9, <1>12, <1>13, <1>14, <1>15, <1>16 DEF g

\* The upper node of the split is where the leaf for the rest of the tokens goes.
LEMMA SplitPlace ==
  ASSUME NEW t, NEW a, NEW x, NEW b, Shape(t, a, x, b), NEW tokens \in Seq(Int), NEW n, NEW k, NEW m, NEW r,
         Ended(t, x, b, tokens, n, k, m, r), m < Len(KeyOf(t, n)), k # Aligned(Len(tokens)),
         NEW j, Point(t, b, n, r, j), NEW upper, upper \notin Nodes(t),
         NEW u, Splits(t, u, n, upper, j), NEW a2, NEW x2, NEW b2, SplitSpan(t, a, x, b, a2, x2, b2, n, upper, j),
         Shape(u, a2, x2, b2)
  PROVE  LeafPlace(u, b2, x2, tokens, upper, Len(r))
<1>1. /\ n \in Nodes(t) /\ k \in Nat /\ k = Span(Len(r)) /\ k <= Aligned(Len(tokens)) /\ Agree(x[n], tokens, k)
      /\ Len(r) \in Nat
  BY DEF Ended
<1>2. /\ Splittable(t, n, j) /\ m = Span(j) /\ Len(b[ParentOf(t, n)]) + j = Len(r)
      /\ k + 1 <= Len(x[n]) /\ x[n][k + 1] = KeyOf(t, n)[Span(j) + 1]
  BY SplitPoint
<1>3. Aligned(Len(tokens)) \in Nat /\ Aligned(Len(tokens)) <= Len(tokens) /\ Len(tokens) \in Nat
  BY AlignedLength
<1>4. k < Aligned(Len(tokens)) /\ k + 1 <= Len(tokens)
  BY <1>1, <1>3
<1>5. x[n][k + 1] # tokens[k + 1]
  BY <1>4 DEF Ended
<1>6. n \in Nodes(t) \ {Root} /\ ParentOf(t, n) \in Nodes(t)
  <2>1. n \in Nodes(t) \ {Root}
    BY <1>2 DEF Splittable
  <2> QED BY <2>1, ChildFacts
<1>7. Nodes(u) = Nodes(t) \cup {upper}
  BY DEF Splits
<1>8. Len(b2[upper]) = Len(r)
  <2> DEFINE s == b[ParentOf(t, n)]
             z == UpperTable(t, n, j)
  <2>1. s \in Seq(Block) /\ z \in Seq(Block) /\ Len(z) = j
    <3>1. b[ParentOf(t, n)] \in Seq(Block)
      BY <1>6, NodeFacts
    <3>2. UpperTable(t, n, j) \in Seq(Block) /\ Len(UpperTable(t, n, j)) = j
      BY <1>2, SplitParts
    <3> QED BY <3>1, <3>2
  <2>2. b2[upper] = s \o z
    BY DEF SplitSpan
  <2>3. Len(s) + j = Len(r)
    BY <1>2
  <2> HIDE DEF s, z
  <2>4. Len(s \o z) = Len(s) + Len(z)
    BY <2>1, ConcatFacts
  <2> QED BY <2>1, <2>2, <2>3, <2>4
<1>9. Agree(x2[upper], tokens, k)
  <2>1. n \in Nodes(u) /\ upper \in Nodes(u) /\ upper \in a2[n]
    <3>1. n \in a[n]
      BY <1>1, AboveFacts
    <3>2. a2[n] = a[n] \cup {upper}
      BY <1>1, <3>1 DEF SplitSpan
    <3> QED BY <3>2, <1>1, <1>7
  <2>2. Above(u, a2, x2, b2, upper, n) /\ Len(x2[upper]) = Span(Len(b2[upper]))
    BY <2>1, AboveFacts
  <2>3. Begins(x2[n], x2[upper]) /\ x2[n] = x[n]
    <3>1. x2[n] = x[n]
      BY <1>1 DEF SplitSpan
    <3> QED BY <2>2, <3>1 DEF Above
  <2>4. Len(x2[upper]) = k
    BY <1>1, <1>8, <2>2
  <2> QED BY <1>1, <2>3, <2>4 DEF Agree, Begins
<1>10. BlockAt(tokens, Span(Len(r))) \notin DOMAIN KidsOf(u, upper)
  <2> DEFINE key == LowerKey(t, n, j)
  <2>1. KidsOf(u, upper) = Put(<<>>, BlockAt(key, 0), n)
    BY DEF Splits
  <2>2. key \in Seq(Int) /\ Len(key) = Span(Len(TableOf(t, n)) - j) /\ Len(TableOf(t, n)) \in Nat
    BY <1>2, SplitParts
  <2>3. Len(key) >= 1 /\ key[1] = KeyOf(t, n)[Span(j) + 1]
    <3>1. KeyOf(t, n) \in Seq(Int) /\ Len(KeyOf(t, n)) = Span(Len(TableOf(t, n)))
      BY <1>1, NodeFacts
    <3>2. j \in Nat /\ j < Len(TableOf(t, n))
      BY <1>2 DEF Splittable
    <3>3. Span(j) \in Nat /\ Span(j) < Len(KeyOf(t, n)) /\ Len(KeyOf(t, n)) \in Nat
      BY <2>2, <3>1, <3>2, SpanFacts
    <3> DEFINE f == KeyOf(t, n)
               h == Span(j)
    <3>4. f \in Seq(Int) /\ h \in Nat /\ h < Len(f) /\ key = SubSeq(f, h + 1, Len(f))
      BY <3>1, <3>3 DEF LowerKey
    <3> HIDE DEF f, h, key
    <3>5. Len(key) >= 1 /\ key[1] = f[h + 1]
      BY <3>4
    <3> QED BY <3>5 DEF f, h
  <2>4. key[1] # tokens[k + 1]
    BY <1>2, <1>5, <2>3
  <2> HIDE DEF key
  <2>5. BlockAt(key, 0) # BlockAt(tokens, k)
    BY <1>1, <1>4, <2>2, <2>3, <2>4, FiledApart
  <2> DEFINE none == <<>>
             f0 == BlockAt(key, 0)
  <2>6. DOMAIN none = {} /\ KidsOf(u, upper) = Put(none, f0, n) /\ f0 # BlockAt(tokens, Span(Len(r)))
    BY <1>1, <2>1, <2>5
  <2> HIDE DEF none, f0
  <2> QED BY <2>6, PutFacts
<1> QED BY <1>1, <1>4, <1>7, <1>8, <1>9, <1>10 DEF LeafPlace

\* What insert answers when its walk has ended as w: inside node w.now or at
\* the end of its key.
Unchanged(u, p) == [ok |-> TRUE, tree |-> u, pool |-> p]
InsertedAfter(t, tokens, table, p, w, len) ==
  IF w.m < Len(KeyOf(t, w.now))
  THEN IF ~SplitAllowed(t, w.now, len) THEN [ok |-> FALSE, tree |-> t, pool |-> p]
       ELSE IF w.length = Aligned(Len(tokens)) THEN Unchanged(SplitNode(t, w.now, len), p)
       ELSE AddLeaf(SplitNode(t, w.now, len), p, FreshNode(t), tokens, table, w.length)
  ELSE IF w.length = Aligned(Len(tokens)) THEN Unchanged(t, p)
  ELSE AddLeaf(t, p, w.now, tokens, table, w.length)

\* insert, case by case on where the walk ended.
LEMMA InsertIs ==
  ASSUME NEW t, NEW tokens, NEW table, NEW p, NEW w, w = Descend(t, tokens, FALSE)
  PROVE  Insert(t, tokens, table, p) = InsertedAfter(t, tokens, table, p, w, Aligned(w.m))
BY Zenon DEF Insert, InsertedAfter, Unchanged, KeyOf

\* The match of a request is part of what the walk agrees with.
LEMMA MatchWithin ==
  ASSUME NEW t, NEW a, NEW x, NEW b, Shape(t, a, x, b), NEW k, ClientOK(k, t, x, b),
         NEW n, NEW l, NEW m, NEW r, Ended(t, x, b, k.tokens, n, l, m, r)
  PROVE  k.matched <= Len(r)
<1> DEFINE h == k.matched
           tokens == k.tokens
           q == k.node
<1>1. tokens \in Seq(Int) /\ h \in Nat /\ Span(h) < Len(tokens) /\ Len(r) \in Nat /\ l = Span(Len(r))
  BY FrontFacts DEF ClientOK, Ended
<1>2. h # 0 => q \in Nodes(t) /\ h <= Len(b[q]) /\ Agree(x[q], tokens, Span(h))
  BY DEF ClientOK, Matches
<1>3. Ended(t, x, b, tokens, n, l, m, r)
  OBVIOUS
<1> HIDE DEF h, tokens, q
<1>4. ASSUME h = 0 PROVE h <= Len(r)
  BY <1>1, <1>4
<1>5. ASSUME h # 0 PROVE h <= Len(r)
  <2>1. q \in Nodes(t) /\ h <= Len(b[q]) /\ Agree(x[q], tokens, Span(h))
    BY <1>2, <1>5
  <2>2. Span(h) <= Len(x[q])
    <3>1. Len(x[q]) = Span(Len(b[q])) /\ Len(b[q]) \in Nat
      BY <2>1, AboveFacts, Lengths
    <3> QED BY <3>1, <2>1, <1>1, SpanOrder
  <2>3. Span(h) <= Aligned(Len(tokens))
    <3> DEFINE z == Len(tokens)
               d == z \div BlockSize
    <3>1. z \in Nat
      BY <1>1
    <3>2. Aligned(z) = Span(d) /\ d \in Nat /\ z < Aligned(z) + BlockSize
      BY <3>1, AlignedLength
    <3> HIDE DEF d
    <3>3. Span(h) < Span(d) + BlockSize
      <4>1. Span(h) \in Int /\ Span(h) < z /\ Span(d) \in Int /\ BlockSize \in Nat
        BY <1>1, <3>2, SpanFacts
      <4> HIDE DEF z
      <4> QED BY <4>1, <3>1, <3>2
    <3>4. Span(d + 1) = Span(d) + BlockSize /\ d + 1 \in Nat
      BY <3>2, SpanNext
    <3>5. h < d + 1
      BY <3>3, <3>4, <1>1, SpanOrder
    <3>6. h <= d
      BY <3>2, <3>5, <1>1
    <3>7. Span(h) <= Span(d)
      BY <3>6, <3>2, <1>1, SpanOrder
    <3> QED BY <3>2, <3>7
  <2>4. Span(h) <= l
    BY <1>1, <1>3, <2>1, <2>2, <2>3, Longest
  <2> QED BY <2>4, <1>1, SpanOrder
<1> QED BY <1>4, <1>5 DEF h

\* The tree t records a block for each of the first g blocks of the tokens.
Known(t, ct, tokens, g) ==
  /\ g \in Nat /\ g <= FullBlocks(tokens)
  /\ \A i \in 1 .. g : \E e : InTree(t, e) /\ ct[e] = SubSeq(tokens, 1, Span(i))

\* So it does for those a walk has agreed with.
LEMMA WalkKnows ==
  ASSUME NEW t, NEW ct, NEW a, NEW x, NEW b, Shape(t, a, x, b), TreeStored(t, ct, x, b),
         NEW tokens \in Seq(Int), NEW n, NEW k, NEW m, NEW r, Ended(t, x, b, tokens, n, k, m, r)
  PROVE  Known(t, ct, tokens, Len(r))
<1>1. /\ n \in Nodes(t) /\ k = Span(Len(r)) /\ k <= Aligned(Len(tokens)) /\ Agree(x[n], tokens, k)
      /\ Len(r) \in Nat /\ Len(r) <= Len(b[n])
  BY DEF Ended
<1> DEFINE h == FullBlocks(tokens)
<1>2. Len(tokens) \in Nat /\ Aligned(Len(tokens)) = Span(h) /\ h \in Nat /\ Aligned(Len(tokens)) <= Len(tokens)
  <2>1. Len(tokens) \in Nat
    OBVIOUS
  <2> DEFINE l == Len(tokens)
  <2>2. l \in Nat
    BY <2>1
  <2> HIDE DEF l
  <2>3. Aligned(l) = Span(l \div BlockSize) /\ l \div BlockSize \in Nat /\ Aligned(l) <= l
    BY <2>2, AlignedLength
  <2> QED BY <2>1, <2>3 DEF l, FullBlocks
<1>3. x[n] \in Seq(Int) /\ b[n] \in Seq(Block) /\ Len(x[n]) = Span(Len(b[n])) /\ Len(b[n]) \in Nat
  BY <1>1, NodeFacts, AboveFacts, Lengths
<1> HIDE DEF h
<1>4. Len(r) <= h
  BY <1>1, <1>2, SpanOrder
<1>5. ASSUME NEW i \in 1 .. Len(r) PROVE \E e : InTree(t, e) /\ ct[e] = SubSeq(tokens, 1, Span(i))
  <2> DEFINE v == x[n]
             l == Span(i)
  <2>1. i \in 1 .. Len(b[n])
    BY <1>1, <1>3
  <2>2. InTree(t, b[n][i])
    BY <1>1, <2>1, ChainInTree
  <2>3. ct[b[n][i]] = SubSeq(v, 1, l)
    BY <1>1, <2>1, Zenon DEF TreeStored
  <2>4. i \in Nat /\ Len(r) \in Nat /\ i <= Len(r) /\ i <= Len(b[n]) /\ i <= h
    BY <1>1, <1>2, <1>3, <1>4
  <2>5. Span(i) \in Nat /\ Span(i) <= Span(Len(r)) /\ Span(i) <= Span(h) /\ Span(i) <= Span(Len(b[n]))
    <3>1. Span(i) \in Nat
      BY <2>4, SpanFacts
    <3> QED BY <3>1, <2>4, <1>2, <1>3, SpanOrder
  <2>6. l \in Nat /\ l <= Len(v) /\ l <= Len(tokens)
    <3>1. Span(h) \in Nat /\ Span(h) <= Len(tokens)
      BY <1>2, SpanFacts
    <3> QED BY <3>1, <2>5, <1>2, <1>3
  <2>7. Agree(v, tokens, l)
    <3>1. \A j \in 1 .. Span(Len(r)) : v[j] = tokens[j]
      BY <1>1 DEF Agree
    <3>2. Span(Len(r)) \in Nat
      BY <1>1, SpanFacts
    <3>3. \A j \in 1 .. l : j \in 1 .. Span(Len(r))
      BY <2>5, <2>6, <3>2
    <3> QED BY <3>1, <3>3 DEF Agree
  <2>8. v \in Seq(Int) /\ \A q \in Nat : q <= q
    BY <1>3
  <2> HIDE DEF v, l
  <2>9. SubSeq(v, 1, l) = SubSeq(tokens, 1, l)
    BY <2>6, <2>7, <2>8, AgreePrefix, Zenon
  <2>10. ct[b[n][i]] = SubSeq(tokens, 1, l)
    BY <2>3, <2>9
  <2> QED BY <2>2, <2>10 DEF l
<1> QED BY <1>1, <1>4, <1>5 DEF Known, h

\* A tree that is left as it is or split where all the tokens are matched.
LEMMA NothingAdded ==
  ASSUME NEW t, NEW u, \A e : InTree(u, e) <=> InTree(t, e), NEW tokens \in Seq(Int), NEW table,
         NEW g \in Nat, Span(g) = Aligned(Len(tokens))
  PROVE  Adds(t, u, tokens, table, g)
<1> DEFINE l == Len(tokens)
           h == FullBlocks(tokens)
<1>1. l \in Nat
  OBVIOUS
<1>2. Aligned(l) = Span(h) /\ h \in Nat
  <2>1. Aligned(l) = Span(l \div BlockSize) /\ l \div BlockSize \in Nat
    <3> HIDE DEF l
    <3> QED BY <1>1, AlignedLength
  <2> QED BY <2>1 DEF FullBlocks
<1> HIDE DEF h
<1>3. g = h
  BY <1>2, SpanOrder
<1>4. ASSUME NEW i \in g + 1 .. h PROVE FALSE
  BY <1>2, <1>3
<1> QED BY <1>4 DEF Adds, h

\* insert: the tree is right, with the references it needs, and insert never throws.
LEMMA InsertBase ==
  ASSUME PartAtBlocks, NEW t, NEW p, NEW cl, NEW ct, NEW a, NEW x, NEW b, NEW y, NEW k, NEW table, NEW tokens,
         table = k.table, tokens = k.tokens, Held(t, p, cl, ct, a, x, b, table, y, k)
  PROVE  \E g : Known(t, ct, tokens, g) /\ Inserted(Insert(t, tokens, table, p), t, tokens, g, cl, ct, table, y)
<1>1. Base(t, p, cl, ct, a, x, b, table, y) /\ Hand(t, cl, ct, x, b, k)
  BY DEF Held
<1>2. Shape(t, a, x, b) /\ IsTree(t) /\ ListOK(t) /\ Placed(t, cl, x, b)
  BY <1>1 DEF Base, Shape
<1>3. ClientOK(k, t, x, b) /\ tokens \in TokenSeqs
  BY <1>1 DEF Hand, ClientOK
<1>4. tokens \in Seq(Int) /\ Told(tokens)
  BY <1>3, FrontFacts
<1> DEFINE w == Descend(t, tokens, FALSE)
           n == w.now
           l == w.length
           m == w.m
           r == w.blocks
<1>5. Kept(t, FALSE, w.tree) /\ Ended(t, x, b, tokens, n, l, m, r)
  <2>1. \A q \in Nodes(t) : Told(x[q])
    BY <1>2 DEF Placed
  <2>2. FALSE \in BOOLEAN
    OBVIOUS
  <2> QED BY <2>1, <2>2, <1>2, <1>4, DescendFacts
<1>6. Insert(t, tokens, table, p) = InsertedAfter(t, tokens, table, p, w, Aligned(m))
  BY InsertIs
<1> HIDE DEF w, n, l, m, r
<1>7. /\ n \in Nodes(t) /\ l = Span(Len(r)) /\ Len(r) \in Nat /\ l <= Aligned(Len(tokens)) /\ Agree(x[n], tokens, l)
      /\ m \in Nat /\ m <= Len(KeyOf(t, n))
  BY <1>5 DEF Ended
<1>8. k.matched <= Len(r)
  BY <1>2, <1>3, <1>5, MatchWithin
<1>9. Aligned(Len(tokens)) \in Nat /\ Len(KeyOf(t, n)) \in Nat
  <2>1. Len(tokens) \in Nat
    BY <1>4
  <2>2. Aligned(Len(tokens)) \in Nat
    BY <2>1, AlignedLength
  <2>3. KeyOf(t, n) \in Seq(Int)
    BY <1>2, <1>7, NodeFacts
  <2> QED BY <2>2, <2>3
<1> DEFINE v == InsertedAfter(t, tokens, table, p, w, Aligned(m))
           g == Len(r)
<1>10. Known(t, ct, tokens, g)
  <2>1. TreeStored(t, ct, x, b)
    BY <1>1, Zenon DEF Base, Stored
  <2> QED BY <2>1, <1>2, <1>4, <1>5, WalkKnows
<1>11. l = Aligned(Len(tokens)) => Span(g) = Aligned(Len(tokens)) /\ g \in Nat
  BY <1>7
<1> HIDE DEF g
<1> SUFFICES Inserted(v, t, tokens, g, cl, ct, table, y)
  BY <1>6, <1>10
<1>12. CASE m < Len(KeyOf(t, n))
  <2> DEFINE j == Len(r) - Len(LedOf(t, b, n))
             upper == FreshNode(t)
             u == SplitNode(t, n, Span(j))
  <2>1. Point(t, b, n, r, j)
    BY DEF Point
  <2>2. u = SplitNode(t, n, Span(j)) /\ upper = FreshNode(t)
    OBVIOUS
  <2> HIDE DEF j, upper, u
  <2>3. Splittable(t, n, j) /\ Aligned(m) = Span(j) /\ SplitAllowed(t, n, Span(j))
    BY <1>2, <1>5, <1>12, <2>1, SplitPoint
  <2>4. v = IF l = Aligned(Len(tokens)) THEN Unchanged(u, p) ELSE AddLeaf(u, p, upper, tokens, table, l)
    BY <1>12, <2>2, <2>3 DEF InsertedAfter, n, l, m
  <2>5. IsTree(u) /\ ListOK(u) /\ Splits(t, u, n, upper, j)
    BY <1>2, <2>2, <2>3, SplitFacts
  <2>6. upper \notin Nodes(t)
    BY <1>2, <2>2, FreshNodeFacts
  <2> DEFINE c  == ParentOf(t, n)
             D  == Nodes(t) \cup {upper}
             a2 == [q \in D |-> IF q = upper THEN a[c] \cup {upper}
                                ELSE IF n \in a[q] THEN a[q] \cup {upper} ELSE a[q]]
             x2 == [q \in D |-> IF q = upper THEN x[c] \o UpperKey(t, n, j) ELSE x[q]]
             b2 == [q \in D |-> IF q = upper THEN b[c] \o UpperTable(t, n, j) ELSE b[q]]
  <2>7. SplitSpan(t, a, x, b, a2, x2, b2, n, upper, j)
    BY DEF SplitSpan
  <2> HIDE DEF a2, x2, b2
  <2>8. Held(u, p, cl, ct, a2, x2, b2, table, y, k)
    BY <2>2, <2>3, <2>5, <2>7, SplitBase
  <2>9. CASE l = Aligned(Len(tokens))
    <3>1. v.ok /\ v.tree = u /\ v.pool = p
      BY <2>4, <2>9 DEF Unchanged
    <3>2. Base(u, p, cl, ct, a2, x2, b2, table, y)
      BY <2>8 DEF Held
    <3>3. \A e : InTree(u, e) <=> InTree(t, e)
      BY <1>2, <2>3, <2>5, <2>6, SplitInTree
    <3>4. Adds(t, u, tokens, table, g)
      BY <1>4, <1>11, <2>9, <3>3, NothingAdded
    <3> HIDE DEF v
    <3> QED BY <3>1, <3>2, <3>4 DEF Inserted
  <2>10. CASE l # Aligned(Len(tokens))
    <3>1. v = AddLeaf(u, p, upper, tokens, table, Span(Len(r)))
      BY <2>4, <2>10, <1>7
    <3>2. Shape(u, a2, x2, b2)
      BY <2>8 DEF Held, Base
    <3>3. LeafPlace(u, b2, x2, tokens, upper, Len(r))
      BY <1>2, <1>4, <1>5, <1>12, <2>1, <2>5, <2>6, <2>7, <2>10, <3>2, SplitPlace
    <3>4. Inserted(AddLeaf(u, p, upper, tokens, table, Span(Len(r))), u, tokens, Len(r), cl, ct, table, y)
      BY <2>8, <3>3, <1>8, AddLeafBase
    <3>5. Inserted(v, u, tokens, g, cl, ct, table, y)
      BY <3>1, <3>4 DEF g
    <3>6. \A e : InTree(u, e) <=> InTree(t, e)
      BY <1>2, <2>3, <2>5, <2>6, SplitInTree
    <3> HIDE DEF v
    <3> QED BY <3>5, <3>6 DEF Inserted, Adds
  <2> QED BY <2>9, <2>10
<1>13. CASE ~(m < Len(KeyOf(t, n)))
  <2>1. m = Len(KeyOf(t, n))
    BY <1>7, <1>9, <1>13
  <2>2. v = IF l = Aligned(Len(tokens)) THEN Unchanged(t, p) ELSE AddLeaf(t, p, n, tokens, table, l)
    BY <1>13 DEF InsertedAfter, n, l, m
  <2>3. CASE l = Aligned(Len(tokens))
    <3>1. v.ok /\ v.tree = t /\ v.pool = p
      BY <2>2, <2>3 DEF Unchanged
    <3>2. Adds(t, t, tokens, table, g)
      BY <1>4, <1>11, <2>3, NothingAdded
    <3> HIDE DEF v
    <3> QED BY <3>1, <3>2, <1>1 DEF Inserted
  <2>4. CASE l # Aligned(Len(tokens))
    <3>1. v = AddLeaf(t, p, n, tokens, table, Span(Len(r)))
      BY <2>2, <2>4, <1>7
    <3>2. l = Len(x[n]) /\ BlockAt(tokens, l) \notin DOMAIN KidsOf(t, n)
      BY <1>5, <1>9, <2>1, <2>4 DEF Ended
    <3>3. Len(b[n]) = Len(r)
      <4>1. Len(x[n]) = Span(Len(b[n])) /\ Len(b[n]) \in Nat
        BY <1>2, <1>7, AboveFacts, Lengths
      <4> QED BY <4>1, <3>2, <1>7, SpanOrder
    <3>4. LeafPlace(t, b, x, tokens, n, Len(r))
      <4>1. l < Aligned(Len(tokens))
        <5>1. l \in Nat
          BY <1>5 DEF Ended
        <5> QED BY <5>1, <1>7, <1>9, <2>4
      <4> QED BY <4>1, <3>2, <3>3, <1>7 DEF LeafPlace
    <3>5. Inserted(AddLeaf(t, p, n, tokens, table, Span(Len(r))), t, tokens, Len(r), cl, ct, table, y)
      BY <3>4, <1>8, AddLeafBase
    <3> QED BY <3>1, <3>5 DEF g
  <2> QED BY <2>3, <2>4
<1> QED BY <1>12, <1>13

\* The tree takes in those blocks of a request's tokens that it did not record.
Records(t, ct, t2, k) == \E g : Known(t, ct, k.tokens, g) /\ Adds(t, t2, k.tokens, k.table, g)

\* A request that finishes files its blocks and gives back what it holds.
LEMMA FinishState ==
  ASSUME PartAtBlocks, BaseState(tree, pool, client, content), NEW c \in Client, Finish(c)
  PROVE  /\ BaseState(tree', pool', client', content') /\ c \in RunningIn(client)
         /\ Records(tree, content, tree', client[c])
         /\ client' = Without(client, c) /\ content' = content
<1>1. PICK a, x, b : Base(tree, pool, client, content, a, x, b, <<>>, NoParent)
  BY DEF BaseState
<1>2. c \in RunningIn(client)
  BY DEF Finish, Running, RunningIn
<1> DEFINE k  == client[c]
           cl == Without(client, c)
           table == k.table
           tokens == k.tokens
           y == k.node
           r == Insert(tree, tokens, table, pool)
<1>3. Base(tree, pool, cl, content, a, x, b, table, y) /\ Hand(tree, cl, content, x, b, k)
  BY <1>1, <1>2, LeaveBase
<1>4. Held(tree, pool, cl, content, a, x, b, table, y, k)
  BY <1>3 DEF Held
<1>5. \E g : Known(tree, content, tokens, g) /\ Inserted(r, tree, tokens, g, cl, content, table, y)
  <2> HIDE DEF cl
  <2>1. table = k.table /\ tokens = k.tokens
    OBVIOUS
  <2> HIDE DEF k, table, tokens, y
  <2> QED BY <1>4, <2>1, InsertBase
<1>6. r.ok /\ \E g : Known(tree, content, tokens, g) /\ Adds(tree, r.tree, tokens, table, g)
  BY <1>5 DEF Inserted
<1>7. /\ tree' = IF y = NoParent THEN r.tree ELSE DecLockRef(r.tree, y)
      /\ pool' = Free(r.pool, table).pool /\ client' = cl /\ content' = content
  <2>1. /\ IF r.ok THEN /\ tree' = Unpin(r.tree, c) /\ pool' = Free(r.pool, table).pool
                        /\ client' = [client EXCEPT ![c] = NoClient]
                   ELSE tree' = r.tree /\ pool' = r.pool /\ UNCHANGED client
        /\ content' = content
    BY DEF Finish
  <2> HIDE DEF r
  <2>2. tree' = Unpin(r.tree, c) /\ pool' = Free(r.pool, table).pool /\ client' = [client EXCEPT ![c] = NoClient]
    BY <2>1, <1>6
  <2> QED BY <2>1, <2>2 DEF Unpin, Without
<1> HIDE DEF r, cl, table, y
<1>8. PICK a2, x2, b2 : Base(r.tree, r.pool, cl, content, a2, x2, b2, table, y)
  BY <1>5 DEF Inserted
<1> DEFINE u == r.tree
           q == r.pool
<1>9. Base(u, q, cl, content, a2, x2, b2, table, y)
  BY <1>8
<1>10. tree' = (IF y = NoParent THEN u ELSE DecLockRef(u, y)) /\ pool' = Free(q, table).pool
  BY <1>7
<1> HIDE DEF u, q
<1>11. /\ BaseState(IF y = NoParent THEN u ELSE DecLockRef(u, y), Free(q, table).pool, cl, content)
       /\ SameBlocks(u, IF y = NoParent THEN u ELSE DecLockRef(u, y))
  BY <1>9, ReleaseState
<1>12. BaseState(tree', pool', client', content') /\ SameBlocks(u, tree')
  BY <1>7, <1>10, <1>11
<1>13. \E g : Known(tree, content, tokens, g) /\ Adds(tree, tree', tokens, table, g)
  BY <1>6, <1>12 DEF Adds, SameBlocks, u
<1>14. Records(tree, content, tree', client[c])
  BY <1>13 DEF Records, table
<1> QED BY <1>2, <1>7, <1>12, <1>14 DEF cl

\* The empty tree.
LEMMA Tree0Facts ==
  /\ IsTree(Tree0) /\ Nodes(Tree0) = {Root} /\ ListOK(Tree0)
  /\ LockOf(Tree0, Root) = 1 /\ TableOf(Tree0, Root) = <<>> /\ DOMAIN KidsOf(Tree0, Root) = {}
<1> DEFINE r == [parent |-> NoParent, key |-> <<>>, table |-> <<>>, lock |-> 1, children |-> <<>>]
           N == [n \in {Root} |-> r]
<1>1. Tree0 = [node |-> N, lru |-> <<>>, evictable |-> 0]
  BY Zenon DEF Tree0
<1>2. IsNode(r)
  <2>1. NoParent \in Int /\ <<>> \in Seq(Int) /\ <<>> \in Table /\ 1 \in Nat
    BY NoBlocks DEF NoParent
  <2> QED BY <2>1 DEF IsNode
<1>3. r.parent = NoParent /\ r.key = <<>> /\ r.table = <<>> /\ r.lock = 1 /\ DOMAIN r.children = {}
  OBVIOUS
<1> HIDE DEF r
<1>4. NodeMap(N, {Root})
  <2>1. IsFiniteSet({Root})
    BY FS_Singleton
  <2>2. Root \in Nat
    BY DEF Root
  <2> QED BY <1>2, <1>3, <2>1, <2>2 DEF NodeMap
<1>5. N[Root] = r
  OBVIOUS
<1> HIDE DEF N
<1> DEFINE l == <<>>
           D == {Root}
           u == [node |-> N, lru |-> l, evictable |-> 0]
<1>6. l \in Seq(D) /\ 0 \in Int
  OBVIOUS
<1> HIDE DEF l
<1>7. IsTree(u) /\ Nodes(u) = D /\ u.node = N /\ u.lru = l /\ u.evictable = 0
  BY <1>4, <1>6, MadeTree
<1>8. Tree0 = u
  BY <1>1 DEF l
<1> HIDE DEF u
<1>9. LockOf(u, Root) = 1 /\ TableOf(u, Root) = <<>> /\ DOMAIN KidsOf(u, Root) = {}
  BY <1>3, <1>5, <1>7 DEF LockOf, TableOf, KidsOf
<1>10. ListOK(u)
  <2>1. NoDuplicates(u.lru) /\ ToSet(u.lru) = {}
    BY <1>7 DEF l, NoDuplicates, ToSet
  <2>2. Listed(u) = {}
    BY <1>7 DEF Listed
  <2>3. Total(Sizes(u), u.lru) = 0
    <3>1. Sizes(u) \in [Nat -> Int]
      BY <1>7, SizesFacts
    <3>2. Total(Sizes(u), <<>>) = 0
      BY <3>1, SumSteps
    <3> QED BY <3>2, <1>7 DEF l
  <2> QED BY <1>7, <2>1, <2>2, <2>3 DEF ListOK
<1> QED BY <1>7, <1>8, <1>9, <1>10

\* The shape of a tree that is a root alone.
LEMMA RootShape ==
  ASSUME NEW t, IsTree(t), Nodes(t) = {Root}, DOMAIN KidsOf(t, Root) = {},
         NEW a, NEW x, NEW b, a = [n \in {Root} |-> {Root}], x = [n \in {Root} |-> <<>>], b = [n \in {Root} |-> <<>>]
  PROVE  Shape(t, a, x, b)
<1>1. SpanTypes({Root}, a, x, b)
  <2>1. <<>> \in Seq(Int) /\ <<>> \in Seq(Block)
    OBVIOUS
  <2> QED BY <2>1 DEF SpanTypes
<1>2. \A n \in Nodes(t) : KidsLinked(t, n)
  BY DEF KidsLinked
<1> QED BY <1>1, <1>2, ShapeByNode

\* The initial state is right.
LEMMA InitState ==
  ASSUME Init
  PROVE  BaseState(tree, pool, client, content)
<1> DEFINE a == [n \in {Root} |-> {Root}]
           x == [n \in {Root} |-> <<>>]
           b == [n \in {Root} |-> <<>>]
           t == tree
           cl == client
           none == <<>>
<1>1. IsTree(t) /\ Nodes(t) = {Root} /\ ListOK(t) /\ LockOf(t, Root) = 1 /\ TableOf(t, Root) = <<>>
      /\ DOMAIN KidsOf(t, Root) = {}
  BY Tree0Facts DEF Init
<1>2. Shape(t, a, x, b)
  BY <1>1, RootShape
<1>3. a[Root] = {Root} /\ x[Root] = <<>> /\ Len(b[Root]) = 0
  OBVIOUS
<1>4. cl = [c \in Client |-> cl[c]] /\ RunningIn(cl) = {}
  BY DEF Init, RunningIn, NoClient
<1>5. PoolOK(pool) /\ \A e \in Block : pool.ref_cnt[e] = 0
  BY Pool0OK DEF Init, Pool0
<1> HIDE DEF a, x, b, t, cl
<1>6. \A e : ~InTree(t, e)
  BY <1>1, NoBlocks DEF InTree
<1>7. IsFiniteSet(RunningIn(cl))
  BY <1>4, FS_EmptySet
<1>8. /\ \A e : Cardinality(Holders(cl, e)) = 0
      /\ \A n : Cardinality(Pinners(cl, a, n)) = 0
  <2>1. \A e : Holders(cl, e) = {}
    BY <1>4 DEF Holders
  <2>2. \A n : Pinners(cl, a, n) = {}
    BY <1>4 DEF Pinners
  <2> QED BY <1>7, <2>1, <2>2, Counts
<1>9. Placed(t, cl, x, b)
  <2>1. Separate(t)
    BY <1>1 DEF Separate
  <2>2. \A n \in Nodes(t) : Told(x[n])
    BY <1>1, <1>3 DEF Told
  <2> QED BY <1>4, <1>7, <2>1, <2>2 DEF Placed
<1>10. Stored(t, cl, content, x, b)
  BY <1>1, <1>3, <1>4 DEF Stored, TreeStored
<1>11. none \in Table /\ \A e : ~Contains(none, e)
  BY NoBlocks
<1> HIDE DEF none
<1>12. InHand(t, none, NoParent)
  BY <1>11 DEF InHand
<1>13. Refs(t, pool, cl, none)
  BY <1>5, <1>6, <1>8, <1>11 DEF Refs, RefAt
<1>14. Pins(t, a, cl, NoParent)
  BY <1>1, <1>8 DEF Pins, PinAt, PinsAt
<1>15. Base(t, pool, cl, content, a, x, b, none, NoParent)
  BY <1>1, <1>2, <1>5, <1>9, <1>10, <1>12, <1>13, <1>14 DEF Base
<1> QED BY <1>15 DEF BaseState, t, cl, none

\* Every step leaves a right state.
LEMMA NextState ==
  ASSUME PartAtBlocks, BaseState(tree, pool, client, content), [Next]_vars
  PROVE  BaseState(tree', pool', client', content')
<1>1. ASSUME NEW c \in Client, NEW tokens \in TokenSeqs, TryAdmit(c, tokens)
      PROVE  BaseState(tree', pool', client', content')
  BY <1>1, TryAdmitState
<1>2. ASSUME NEW c \in Client, Finish(c) PROVE BaseState(tree', pool', client', content')
  BY <1>2, FinishState
<1>3. ASSUME NEW c \in Client, Drop(c) PROVE BaseState(tree', pool', client', content')
  BY <1>3, DropState
<1>4. ASSUME UNCHANGED vars PROVE BaseState(tree', pool', client', content')
  BY <1>4 DEF vars
<1> QED BY <1>1, <1>2, <1>3, <1>4 DEF Next

\* Right states only.
THEOREM StateRight ==
  ASSUME PartAtBlocks
  PROVE  Spec => []BaseState(tree, pool, client, content)
<1> DEFINE I == BaseState(tree, pool, client, content)
<1>1. Init => I
  BY InitState
<1>2. I /\ [Next]_vars => I'
  <2>1. I' <=> BaseState(tree', pool', client', content')
    BY DEF BaseState, Base, Shape, ListOK, PoolOK, Placed, Stored, InHand, Refs, Pins
  <2> QED BY <2>1, NextState
<1> QED BY <1>1, <1>2, PTL DEF Spec

\* The nodes that hold a block are one or none.
LEMMA HeldCount ==
  ASSUME NEW t, Separate(t), NEW e \in Block
  PROVE  Cardinality(HeldBlocks(t, e)) = IF InTree(t, e) THEN 1 ELSE 0
<1>1. HeldBlocks(t, e) = {n \in Nodes(t) : Contains(TableOf(t, n), e)}
  BY DEF HeldBlocks, TableOf
<1>2. CASE InTree(t, e)
  <2>1. PICK n \in Nodes(t) : Contains(TableOf(t, n), e)
    BY <1>2 DEF InTree
  <2>2. HeldBlocks(t, e) = {n}
    BY <1>1, <2>1 DEF Separate
  <2> QED BY <1>2, <2>2, FS_Singleton
<1>3. CASE ~InTree(t, e)
  <2>1. HeldBlocks(t, e) = {}
    BY <1>1, <1>3 DEF InTree
  <2> QED BY <1>3, <2>1, FS_EmptySet
<1> QED BY <1>2, <1>3

\* A right state has the types,
LEMMA BaseTypes ==
  ASSUME BaseState(tree, pool, client, content)
  PROVE  TypeOK
<1>1. PICK a, x, b : Base(tree, pool, client, content, a, x, b, <<>>, NoParent)
  BY DEF BaseState
<1>2. IsTree(tree) /\ ListOK(tree) /\ PoolOK(pool)
  BY <1>1 DEF Base, Shape
<1>3. pool \in PoolType
  <2>1. pool \in AnyPool /\ pool.num_allocated \in Nat
    BY <1>2, AllocatedCount DEF PoolOK
  <2> QED BY <2>1 DEF AnyPool, PoolType
<1>4. ASSUME NEW n \in Nodes(tree)
      PROVE  tree.node[n].lock \in Nat /\ ToSet(tree.node[n].table) \subseteq Block
  <2>1. LockOf(tree, n) \in Nat /\ TableOf(tree, n) \in Seq(Block)
    BY <1>2, TreeFields
  <2>2. ToSet(TableOf(tree, n)) \subseteq Block
    BY <2>1 DEF ToSet
  <2> QED BY <2>1, <2>2 DEF LockOf, TableOf
<1>5. tree.evictable \in Nat
  BY <1>2, SizesFacts, SumNatural DEF ListOK
<1> QED BY <1>3, <1>4, <1>5 DEF TypeOK

\* is well formed,
LEMMA BaseWellFormed ==
  ASSUME BaseState(tree, pool, client, content)
  PROVE  TreeWellFormed
<1>1. PICK a, x, b : Base(tree, pool, client, content, a, x, b, <<>>, NoParent)
  BY DEF BaseState
<1>2. IsTree(tree) /\ ListOK(tree) /\ WholeBlocks(tree) /\ LinksExact(tree)
  BY <1>1 DEF Base, Shape
<1> QED BY <1>2, BaseTypes, ListExact DEF TreeWellFormed

\* has exact counts,
LEMMA BaseCounts ==
  ASSUME BaseState(tree, pool, client, content)
  PROVE  CountsExact
<1>1. PICK a, x, b : Base(tree, pool, client, content, a, x, b, <<>>, NoParent)
  BY DEF BaseState
<1>2. Shape(tree, a, x, b) /\ Placed(tree, client, x, b) /\ Refs(tree, pool, client, <<>>)
      /\ Pins(tree, a, client, NoParent)
  BY <1>1 DEF Base
<1>3. Running = RunningIn(client) /\ IsFiniteSet(RunningIn(client)) /\ Separate(tree)
  BY <1>2 DEF Running, RunningIn, Placed
<1>4. \A c \in Running : client[c].node \in Nodes(tree) \cup {NoParent}
  BY <1>2, <1>3, HandNode DEF Placed
<1>5. PinsExact
  <2> SUFFICES ASSUME NEW n \in Nodes(tree)
               PROVE  tree.node[n].lock = (IF n = Root THEN 1 ELSE 0)
                        + Cardinality({c \in Running : client[c].node # NoParent
                                                       /\ Contains(PathUp(tree, client[c].node), n)})
    BY DEF PinsExact
  <2> DEFINE S == {c \in Running : client[c].node # NoParent /\ Contains(PathUp(tree, client[c].node), n)}
  <2>1. ASSUME NEW m \in Nodes(tree) PROVE Contains(PathUp(tree, m), n) <=> n \in a[m]
    <3>1. PathUp(tree, m) \in Seq(Nodes(tree)) /\ ToSet(PathUp(tree, m)) = a[m]
      BY <1>2, PathFacts DEF Climbs
    <3> QED BY <3>1, ToSetContains
  <2>2. S = Pinners(client, a, n)
    BY <1>3, <1>4, <2>1 DEF Pinners, PinsAt
  <2>3. LockOf(tree, n) = PinAt(a, client, NoParent, n)
    BY <1>2 DEF Pins
  <2>4. Cardinality(Pinners(client, a, n)) \in Nat
    BY <1>3, Counts
  <2> DEFINE v == Cardinality(Pinners(client, a, n))
  <2>5. LockOf(tree, n) = (IF n = Root THEN 1 ELSE 0) + 0 + v /\ v \in Nat
    BY <2>3, <2>4 DEF PinAt, PinsAt
  <2>6. Cardinality(S) = v /\ tree.node[n].lock = LockOf(tree, n)
    BY <2>2 DEF LockOf
  <2> HIDE DEF S, v
  <2>7. tree.node[n].lock = (IF n = Root THEN 1 ELSE 0) + Cardinality(S)
    BY <2>5, <2>6
  <2> QED BY <2>7 DEF S
<1>6. RefCntExact
  <2> SUFFICES ASSUME NEW e \in Block
               PROVE  /\ Cardinality(HeldBlocks(tree, e)) <= 1
                      /\ pool.ref_cnt[e] = Cardinality(HeldBlocks(tree, e))
                                           + Cardinality({c \in Running : Contains(client[c].table, e)})
    BY DEF RefCntExact
  <2>1. Cardinality(HeldBlocks(tree, e)) = IF InTree(tree, e) THEN 1 ELSE 0
    BY <1>3, HeldCount
  <2>2. {c \in Running : Contains(client[c].table, e)} = Holders(client, e)
    BY <1>3 DEF Holders
  <2>3. /\ pool.ref_cnt[e] = (IF InTree(tree, e) THEN 1 ELSE 0) + Cardinality(Holders(client, e))
        /\ Cardinality(Holders(client, e)) \in Nat
    BY <1>1, Unreferenced
  <2> DEFINE h == Cardinality(HeldBlocks(tree, e))
             k == Cardinality(Holders(client, e))
             v == pool.ref_cnt[e]
  <2>4. (h = IF InTree(tree, e) THEN 1 ELSE 0) /\ v = (IF InTree(tree, e) THEN 1 ELSE 0) + k /\ k \in Nat
    BY <2>1, <2>3
  <2>5. Cardinality({c \in Running : Contains(client[c].table, e)}) = k
    BY <2>2
  <2> HIDE DEF h, k, v
  <2>6. h <= 1 /\ v = h + k
    BY <2>4
  <2> QED BY <2>5, <2>6 DEF h, v
<1> QED BY <1>5, <1>6 DEF CountsExact

\* shares no block of an unpinned node,
LEMMA BaseUnshared ==
  ASSUME BaseState(tree, pool, client, content)
  PROVE  UnpinnedUnshared
<1>1. PICK a, x, b : Base(tree, pool, client, content, a, x, b, <<>>, NoParent)
  BY DEF BaseState
<1>2. IsTree(tree)
  BY <1>1 DEF Base, Shape
<1>3. Loose(tree, pool)
  BY <1>1, LooseBase
<1>4. ASSUME NEW n \in Nodes(tree), tree.node[n].lock = 0, NEW e \in ToSet(tree.node[n].table)
      PROVE  pool.ref_cnt[e] = 1
  <2>1. LockOf(tree, n) = 0 /\ e \in ToSet(TableOf(tree, n))
    BY <1>4 DEF LockOf, TableOf
  <2>2. TableOf(tree, n) \in Seq(Block)
    BY <1>2, TreeFields
  <2>3. Contains(TableOf(tree, n), e) /\ e \in Block
    <3>1. Contains(TableOf(tree, n), e)
      BY <2>1, <2>2, ToSetContains
    <3>2. ToSet(TableOf(tree, n)) \subseteq Block
      BY <2>2 DEF ToSet
    <3> QED BY <3>1, <3>2, <2>1
  <2> QED BY <2>1, <2>3, <1>3 DEF Loose
<1> QED BY <1>4 DEF UnpinnedUnshared

\* and has the KV where its tokens say.
LEMMA BaseContents ==
  ASSUME BaseState(tree, pool, client, content)
  PROVE  ContentsRight
<1>1. PICK a, x, b : Base(tree, pool, client, content, a, x, b, <<>>, NoParent)
  BY DEF BaseState
<1>2. Shape(tree, a, x, b) /\ Stored(tree, client, content, x, b)
  BY <1>1 DEF Base
<1>3. RunningReadsItsTokens
  BY <1>2 DEF RunningReadsItsTokens, Stored, ClientStored, Running, RunningIn
<1>4. CacheHoldsItsTokens
  <2> SUFFICES ASSUME NEW e \in CacheMap(tree) PROVE content[e.block] = e.prefix
    BY DEF CacheHoldsItsTokens
  <2>1. PICK n \in Nodes(tree) : \E i \in 1 .. Len(Chain(tree, n).blocks) :
          e = [prefix |-> SubSeq(Chain(tree, n).tokens, 1, i * BlockSize), block |-> Chain(tree, n).blocks[i]]
    BY DEF CacheMap
  <2>2. Chain(tree, n).tokens = x[n] /\ Chain(tree, n).blocks = b[n]
    BY <1>2, ChainFacts
  <2>3. PICK i \in 1 .. Len(b[n]) : e = [prefix |-> SubSeq(x[n], 1, i * BlockSize), block |-> b[n][i]]
    BY <2>1, <2>2
  <2>4. content[b[n][i]] = SubSeq(x[n], 1, Span(i))
    BY <1>2 DEF Stored, TreeStored
  <2> QED BY <2>3, <2>4 DEF Span
<1> QED BY <1>3, <1>4 DEF ContentsRight

-----------------------------------------------------------------------------
(* The invariants of the runs, for requests that part at block boundaries. *)
\* The tree is well formed in every state.
THEOREM TreeStaysWellFormed ==
  ASSUME PartAtBlocks
  PROVE  Spec => []TreeWellFormed
<1>1. BaseState(tree, pool, client, content) => TreeWellFormed
  BY BaseWellFormed
<1>2. Spec => []BaseState(tree, pool, client, content)
  BY StateRight
<1> QED BY <1>1, <1>2, PTL

\* Pins and references are exact in every state.
THEOREM CountsStayExact ==
  ASSUME PartAtBlocks
  PROVE  Spec => []CountsExact
<1>1. BaseState(tree, pool, client, content) => CountsExact
  BY BaseCounts
<1>2. Spec => []BaseState(tree, pool, client, content)
  BY StateRight
<1> QED BY <1>1, <1>2, PTL

\* A node nobody pins is the only holder of its blocks, in every state.
THEOREM UnpinnedStayUnshared ==
  ASSUME PartAtBlocks
  PROVE  Spec => []UnpinnedUnshared
<1>1. BaseState(tree, pool, client, content) => UnpinnedUnshared
  BY BaseUnshared
<1>2. Spec => []BaseState(tree, pool, client, content)
  BY StateRight
<1> QED BY <1>1, <1>2, PTL

\* What is read and what will be handed out is the KV of its tokens, in every state.
THEOREM ContentsStayRight ==
  ASSUME PartAtBlocks
  PROVE  Spec => []ContentsRight
<1>1. BaseState(tree, pool, client, content) => ContentsRight
  BY BaseContents
<1>2. Spec => []BaseState(tree, pool, client, content)
  BY StateRight
<1> QED BY <1>1, <1>2, PTL

(* The cache as a map: what CacheMap collects, in terms of the blocks.      *)
\* Below every node there is one without children, or it is one itself.
LEMMA LeafBelow ==
  ASSUME NEW t, NEW a, NEW x, NEW b, Shape(t, a, x, b), NEW n \in Nodes(t)
  PROVE  \E m \in Nodes(t) : n \in a[m] /\ Childless(t, m)
<1> DEFINE S == {Cardinality(a[m]) : m \in {q \in Nodes(t) : n \in a[q]}}
           N == Cardinality(Nodes(t))
<1>1. \A m \in Nodes(t) : Cardinality(a[m]) \in Nat /\ Cardinality(a[m]) <= N
  BY AboveCount
<1>2. n \in a[n]
  BY AboveFacts
<1>3. N \in Nat
  BY FS_CardinalityType DEF Shape, IsTree
<1>4. S \in SUBSET (0 .. N) /\ S # {}
  BY <1>1, <1>2, <1>3
<1>5. Max(S) \in S /\ \A i \in S : i <= Max(S)
  <2> HIDE DEF S, N
  <2> QED BY <1>3, <1>4, MaxFromZero
<1>6. PICK m \in Nodes(t) : n \in a[m] /\ Cardinality(a[m]) = Max(S)
  BY <1>5
<1>7. Childless(t, m)
  <2> SUFFICES ASSUME ~Childless(t, m) PROVE FALSE
    OBVIOUS
  <2>1. PICK f : f \in DOMAIN KidsOf(t, m)
    BY DEF Childless, KidsOf
  <2> DEFINE c == KidsOf(t, m)[f]
  <2>2. c \in Nodes(t) /\ ParentOf(t, c) = m
    BY <2>1, LinkFacts DEF Shape
  <2> HIDE DEF c
  <2>3. c # Root
    BY <2>2, NodesNatural DEF Shape, IsTree
  <2>4. a[c] = a[m] \cup {c}
    BY <2>2, <2>3, ChildFacts
  <2>5. Cardinality(a[c]) = Cardinality(a[m]) + 1
    BY <2>2, <2>3, AboveCount
  <2>6. Cardinality(a[c]) \in S
    BY <1>6, <2>2, <2>4
  <2>7. Cardinality(a[c]) <= Cardinality(a[m]) /\ Cardinality(a[m]) \in Nat
    BY <1>1, <1>5, <1>6, <2>6
  <2> HIDE DEF S
  <2> QED BY <2>5, <2>7
<1> QED BY <1>6, <1>7

\* The entry of a block, and the entries of the blocks the tree records.
EntryOf(ct, e)   == [prefix |-> ct[e], block |-> e]
Recorded(t)      == {e \in Block : InTree(t, e)}
EntriesIn(t, ct) == {EntryOf(ct, e) : e \in Recorded(t)}

\* The place of a block of the tree: the i-th of a node's chain.
LEMMA BlockPlace ==
  ASSUME NEW t, NEW a, NEW x, NEW b, Shape(t, a, x, b), NEW e, InTree(t, e)
  PROVE  \E n \in Nodes(t) : \E i \in 1 .. Len(b[n]) : b[n][i] = e
<1>1. PICK n \in Nodes(t) : Contains(TableOf(t, n), e)
  BY DEF InTree
<1> QED BY <1>1, TableInChain

\* The cache holds the recorded blocks, each under the tokens whose KV is in it.
LEMMA CacheIs ==
  ASSUME NEW t, NEW ct, NEW a, NEW x, NEW b, Shape(t, a, x, b), TreeStored(t, ct, x, b)
  PROVE  CacheMap(t) = EntriesIn(t, ct)
<1>1. ASSUME NEW r \in CacheMap(t) PROVE r \in EntriesIn(t, ct)
  <2>1. PICK n \in Nodes(t) : \E i \in 1 .. Len(Chain(t, n).blocks) :
          r = [prefix |-> SubSeq(Chain(t, n).tokens, 1, i * BlockSize), block |-> Chain(t, n).blocks[i]]
    BY DEF CacheMap
  <2>2. Chain(t, n).tokens = x[n] /\ Chain(t, n).blocks = b[n]
    BY ChainFacts
  <2>3. PICK i \in 1 .. Len(b[n]) : r = [prefix |-> SubSeq(x[n], 1, i * BlockSize), block |-> b[n][i]]
    BY <2>1, <2>2
  <2>4. ct[b[n][i]] = SubSeq(x[n], 1, i * BlockSize)
    BY DEF TreeStored, Span
  <2>5. b[n][i] \in Recorded(t)
    BY ChainInTree DEF Recorded
  <2> QED BY <2>3, <2>4, <2>5 DEF EntriesIn, EntryOf
<1>2. ASSUME NEW r \in EntriesIn(t, ct) PROVE r \in CacheMap(t)
  <2>1. PICK e \in Block : InTree(t, e) /\ r = [prefix |-> ct[e], block |-> e]
    BY DEF EntriesIn, EntryOf, Recorded
  <2>2. PICK n \in Nodes(t) : \E i \in 1 .. Len(b[n]) : b[n][i] = e
    BY <2>1, BlockPlace
  <2>3. PICK i \in 1 .. Len(b[n]) : b[n][i] = e
    BY <2>2
  <2>4. PICK m \in Nodes(t) : n \in a[m] /\ Childless(t, m)
    BY LeafBelow
  <2>5. i \in 1 .. Len(b[m]) /\ b[m][i] = e
    <3>1. Begins(b[m], b[n])
      BY <2>4, AboveFacts DEF Above
    <3>2. Len(b[m]) \in Nat /\ Len(b[n]) \in Nat
      BY <2>4, Lengths
    <3> QED BY <2>3, <3>1, <3>2 DEF Begins
  <2>6. ct[e] = SubSeq(x[m], 1, i * BlockSize)
    BY <2>4, <2>5 DEF TreeStored, Span
  <2>7. Chain(t, m).tokens = x[m] /\ Chain(t, m).blocks = b[m]
    BY <2>4, ChainFacts
  <2> DEFINE ch == Chain(t, m)
  <2>8. r = [prefix |-> SubSeq(ch.tokens, 1, i * BlockSize), block |-> ch.blocks[i]] /\ i \in 1 .. Len(ch.blocks)
    BY <2>1, <2>5, <2>6, <2>7
  <2>9. ch \in {Chain(t, q) : q \in {o \in Nodes(t) : Childless(t, o)}}
    BY <2>4
  <2> HIDE DEF ch
  <2> DEFINE F(c) == {[prefix |-> SubSeq(c.tokens, 1, k * BlockSize), block |-> c.blocks[k]] :
                        k \in 1 .. Len(c.blocks)}
  <2>10. r \in F(ch)
    BY <2>8
  <2> HIDE DEF F
  <2>11. r \in UNION {F(c) : c \in {Chain(t, q) : q \in {o \in Nodes(t) : Childless(t, o)}}}
    BY <2>9, <2>10
  <2> QED BY <2>11 DEF CacheMap, F
<1> QED BY <1>1, <1>2

\* A block of the tree is filed under its own tokens: two under the same ones are one.
LEMMA EntriesDiffer ==
  ASSUME NEW t, NEW ct, NEW a, NEW x, NEW b, Shape(t, a, x, b), TreeStored(t, ct, x, b),
         NEW e \in Recorded(t), NEW f \in Recorded(t), ct[e] = ct[f]
  PROVE  e = f
<1>1. PICK n \in Nodes(t) : \E i \in 1 .. Len(b[n]) : b[n][i] = e
  BY BlockPlace DEF Recorded
<1>2. PICK i \in 1 .. Len(b[n]) : b[n][i] = e
  BY <1>1
<1>3. PICK m \in Nodes(t) : \E j \in 1 .. Len(b[m]) : b[m][j] = f
  BY BlockPlace DEF Recorded
<1>4. PICK j \in 1 .. Len(b[m]) : b[m][j] = f
  BY <1>3
<1>5. SubSeq(x[n], 1, Span(i)) = SubSeq(x[m], 1, Span(j))
  BY <1>2, <1>4 DEF TreeStored
<1> DEFINE u == x[n]
           v == x[m]
           k == Span(i)
           l == Span(j)
<1>6. /\ u \in Seq(Int) /\ v \in Seq(Int) /\ k \in Nat /\ l \in Nat /\ k <= Len(u) /\ l <= Len(v)
      /\ SubSeq(u, 1, k) = SubSeq(v, 1, l) /\ i \in Nat /\ j \in Nat
  <2>1. i \in Nat /\ j \in Nat /\ Len(b[n]) \in Nat /\ Len(b[m]) \in Nat /\ i <= Len(b[n]) /\ j <= Len(b[m])
    BY <1>2, <1>4, Lengths
  <2>2. Len(u) = Span(Len(b[n])) /\ Len(v) = Span(Len(b[m])) /\ u \in Seq(Int) /\ v \in Seq(Int)
    BY AboveFacts, NodeFacts
  <2>3. k \in Nat /\ l \in Nat
    BY <2>1, SpanFacts
  <2>4. k <= Span(Len(b[n])) /\ l <= Span(Len(b[m]))
    BY <2>1, SpanOrder
  <2> QED BY <1>5, <2>1, <2>2, <2>3, <2>4
<1> HIDE DEF u, v, k, l
<1>7. k = l /\ \A o \in 1 .. k : u[o] = v[o]
  <2>1. /\ Len(SubSeq(u, 1, k)) = k /\ \A o \in 1 .. k : SubSeq(u, 1, k)[o] = u[o]
        /\ Len(SubSeq(v, 1, l)) = l /\ \A o \in 1 .. l : SubSeq(v, 1, l)[o] = v[o]
    BY <1>6, Cut
  <2> QED BY <1>6, <2>1
<1>8. i = j
  BY <1>6, <1>7, SpanOrder DEF k, l
<1>9. Agree(x[n], x[m], Span(i))
  BY <1>7 DEF Agree, u, v, k
<1> QED BY <1>2, <1>4, <1>8, <1>9, Determined

\* What the i-th block of a node's chain is filed under: the node's first tokens.
LEMMA FiledUnder ==
  ASSUME NEW t, NEW ct, NEW a, NEW x, NEW b, Shape(t, a, x, b), TreeStored(t, ct, x, b),
         NEW n \in Nodes(t), NEW i \in 1 .. Len(b[n])
  PROVE  /\ b[n][i] \in Recorded(t) /\ EntryOf(ct, b[n][i]) \in EntriesIn(t, ct) /\ i \in Nat
         /\ Span(i) \in Nat /\ Span(i) <= Len(x[n]) /\ x[n] \in Seq(Int) /\ Len(x[n]) \in Nat
         /\ ct[b[n][i]] = SubSeq(x[n], 1, Span(i)) /\ ct[b[n][i]] \in Seq(Int) /\ Len(ct[b[n][i]]) = Span(i)
         /\ Agree(ct[b[n][i]], x[n], Span(i))
<1> DEFINE u == x[n]
           k == Span(i)
           e == b[n][i]
<1>1. e \in Recorded(t) /\ ct[e] = SubSeq(u, 1, k)
  BY ChainInTree DEF Recorded, TreeStored
<1>2. i \in Nat /\ u \in Seq(Int) /\ Len(u) \in Nat /\ k \in Nat /\ k <= Len(u)
  <2>1. i \in Nat /\ Len(b[n]) \in Nat /\ i <= Len(b[n])
    BY Lengths
  <2>2. Len(u) = Span(Len(b[n])) /\ u \in Seq(Int)
    BY AboveFacts, NodeFacts
  <2>3. k \in Nat /\ k <= Span(Len(b[n]))
    BY <2>1, SpanFacts, SpanOrder
  <2> QED BY <2>1, <2>2, <2>3
<1> HIDE DEF u, k, e
<1>3. ct[e] \in Seq(Int) /\ Len(ct[e]) = k /\ Agree(ct[e], u, k)
  <2>1. SubSeq(u, 1, k) \in Seq(Int) /\ Len(SubSeq(u, 1, k)) = k /\ \A o \in 1 .. k : SubSeq(u, 1, k)[o] = u[o]
    BY <1>2, Cut
  <2> QED BY <1>1, <2>1 DEF Agree
<1> QED BY <1>1, <1>2, <1>3 DEF u, k, e, EntriesIn

\* The prefixes of the entries.
LEMMA PrefixesIn ==
  ASSUME NEW t, NEW ct
  PROVE  Cache!Prefixes(EntriesIn(t, ct)) = {ct[e] : e \in Recorded(t)}
<1> DEFINE R == Recorded(t)
           C == EntriesIn(t, ct)
<1>1. C = {EntryOf(ct, e) : e \in R} /\ \A e : EntryOf(ct, e).prefix = ct[e]
  BY DEF EntriesIn, EntryOf
<1>2. Cache!Prefixes(C) = {r.prefix : r \in C}
  BY DEF Cache!Prefixes
<1> HIDE DEF C, R
<1>3. Cache!Prefixes(C) = {ct[e] : e \in R}
  BY <1>1, <1>2
<1> QED BY <1>3 DEF C, R

\* PrefixCache counts as FiniteSets does.
LEMMA SameCardinality ==
  ASSUME NEW S
  PROVE  Cache!Cardinality(S) = Cardinality(S)
<1> QED BY DEF Cache!Cardinality, Cardinality

\* The blocks the tree records and their entries are a map of prefixes, as the
\* cache promises: one block for a prefix, and none without the ones before it.
LEMMA EntriesAreCache ==
  ASSUME NEW t, NEW ct, NEW a, NEW x, NEW b, Shape(t, a, x, b), TreeStored(t, ct, x, b)
  PROVE  Cache!IsCache(EntriesIn(t, ct))
<1> DEFINE R == Recorded(t)
           C == EntriesIn(t, ct)
           P == {ct[e] : e \in R}
<1>1. Cache!Prefixes(C) = P
  BY PrefixesIn
<1>2. Cardinality(P) = Cardinality(C)
  <2>1. IsFiniteSet(R)
    <3>1. IsFiniteSet(Block) /\ R \in SUBSET Block
      BY NumBlocksAssumption, FS_Interval DEF Recorded, Block
    <3> QED BY <3>1, FS_Subset
  <2>2. ExistsBijection(R, P) /\ ExistsBijection(R, C)
    <3> DEFINE f == [e \in R |-> ct[e]]
               g == [e \in R |-> EntryOf(ct, e)]
    <3>1. \A d, e \in R : ct[d] = ct[e] => d = e
      BY EntriesDiffer
    <3>2. C = {EntryOf(ct, e) : e \in R} /\ \A d, e \in R : EntryOf(ct, d) = EntryOf(ct, e) => d = e
      BY DEF EntriesIn, EntryOf
    <3> HIDE DEF R, C
    <3>3. f \in Bijection(R, P)
      BY <3>1 DEF Bijection, Injection, Surjection, IsInjective
    <3>4. g \in Bijection(R, C)
      BY <3>2 DEF Bijection, Injection, Surjection, IsInjective
    <3> QED BY <3>3, <3>4 DEF ExistsBijection
  <2>3. Cardinality(P) = Cardinality(R) /\ Cardinality(C) = Cardinality(R)
    <3> HIDE DEF R, C, P
    <3> QED BY <2>1, <2>2, FS_Bijection
  <2> QED BY <2>3
<1>3. ASSUME NEW e \in R, Len(ct[e]) > BlockSize
      PROVE  SubSeq(ct[e], 1, Len(ct[e]) - BlockSize) \in P
  <2>1. PICK n \in Nodes(t) : \E i \in 1 .. Len(b[n]) : b[n][i] = e
    BY BlockPlace DEF Recorded
  <2>2. PICK i \in 1 .. Len(b[n]) : b[n][i] = e
    BY <2>1
  <2> DEFINE u == x[n]
             k == Span(i)
             l == Span(i - 1)
             h == i - 1
             d == b[n][h]
  <2>3. /\ i \in Nat /\ k \in Nat /\ k <= Len(u) /\ u \in Seq(Int) /\ Len(u) \in Nat
        /\ ct[e] \in Seq(Int) /\ Len(ct[e]) = k /\ Agree(ct[e], u, k)
    BY <2>2, FiledUnder
  <2>4. h \in 1 .. Len(b[n]) /\ l \in Nat /\ k = l + BlockSize /\ BlockSize \in Nat
    <3>1. i \in 1 .. Len(b[n]) /\ Len(b[n]) \in Nat
      BY Lengths
    <3>2. BlockSize \in Nat /\ Span(1) = BlockSize /\ k = l + BlockSize
      <4>1. i \in Int /\ i - 1 \in Int /\ (i - 1) + 1 = i
        BY <2>3
      <4>2. \A j \in Int : Span(j + 1) = Span(j) + BlockSize
        BY SpanFacts
      <4> QED BY <4>1, <4>2, SpanFacts
    <3>3. i # 1
      BY <1>3, <2>3, <3>2
    <3>4. h \in 1 .. Len(b[n]) /\ h \in Nat
      BY <3>1, <3>3
    <3>5. l \in Nat
      BY <3>4, SpanFacts
    <3> QED BY <3>2, <3>4, <3>5
  <2>5. d \in R /\ ct[d] = SubSeq(u, 1, l)
    BY <2>4, FiledUnder
  <2> HIDE DEF u, k, l, h, d
  <2>6. Len(ct[e]) - BlockSize = l /\ l <= k /\ l <= Len(ct[e]) /\ l <= Len(u)
    BY <2>3, <2>4
  <2>7. SubSeq(ct[e], 1, l) = SubSeq(u, 1, l)
    <3> DEFINE v == ct[e]
    <3>1. v \in Seq(Int) /\ Agree(v, u, k) /\ l <= Len(v)
      BY <2>3, <2>6
    <3> HIDE DEF v
    <3>2. SubSeq(v, 1, l) = SubSeq(u, 1, l)
      BY <2>3, <2>4, <2>6, <3>1, AgreePrefix
    <3> QED BY <3>2 DEF v
  <2> QED BY <2>5, <2>6, <2>7
<1> HIDE DEF P, R, C
<1>4. \A p \in P : Len(p) > BlockSize => SubSeq(p, 1, Len(p) - BlockSize) \in P
  BY <1>3 DEF P
<1>5. Cache!IsCache(C)
  BY <1>1, <1>2, <1>4, SameCardinality DEF Cache!IsCache
<1> QED BY <1>5 DEF C

\* What a request relies on is in the cache.
LEMMA HeldRecorded ==
  ASSUME NEW t, NEW ct, NEW a, NEW x, NEW b, Shape(t, a, x, b),
         NEW k, ClientOK(k, t, x, b), ClientStored(k, ct)
  PROVE  HeldOf(k) \subseteq EntriesIn(t, ct)
<1> DEFINE g == k.matched
           s == k.table
           u == k.tokens
<1>1. g \in Nat /\ Span(g) < Len(u) /\ Len(u) \in Nat /\ Len(s) = BlocksNeeded(Len(u))
  BY RadixCacheAssumption DEF ClientOK
<1>2. g < Len(s) /\ Len(s) \in Nat
  <2> DEFINE h == Len(u)
             w == BlocksNeeded(h)
  <2>1. h \in Nat /\ Span(g) < h
    BY <1>1
  <2> HIDE DEF h
  <2>2. w \in Nat /\ h <= Span(w)
    BY <2>1, NeededBlocks
  <2>3. Span(g) \in Nat /\ Span(w) \in Nat
    BY <1>1, <2>2, SpanFacts
  <2> HIDE DEF w
  <2>4. Span(g) < Span(w)
    BY <2>1, <2>2, <2>3
  <2>5. g < w
    BY <1>1, <2>2, <2>4, SpanOrder
  <2> QED BY <1>1, <2>2, <2>5 DEF w, h
<1>3. ASSUME NEW i \in 1 .. g PROVE s[i] \in Recorded(t) /\ ct[s[i]] = PrefixTo(u, i)
  <2>1. g # 0 /\ i \in 1 .. Len(s)
    BY <1>1, <1>2
  <2>2. k.node \in Nodes(t) /\ g <= Len(b[k.node]) /\ s[i] = b[k.node][i]
    BY <2>1 DEF ClientOK, Matches
  <2>3. i \in 1 .. Len(b[k.node])
    BY <1>1, <2>2, Lengths
  <2>4. s[i] \in Recorded(t)
    BY <2>2, <2>3, ChainInTree DEF Recorded
  <2> QED BY <2>1, <2>4 DEF ClientStored
<1>4. HeldOf(k) = {[prefix |-> PrefixTo(u, i), block |-> s[i]] : i \in 1 .. g}
  BY DEF HeldOf
<1> HIDE DEF g, s, u
<1> QED BY <1>3, <1>4 DEF EntriesIn, EntryOf

\* The blocks before n tokens are full.
LEMMA FullBefore ==
  ASSUME NEW n \in Nat, NEW j \in Nat, Span(j) <= n
  PROVE  Span(j) <= Aligned(n)
<1> DEFINE q == n \div BlockSize
<1>1. q \in Nat /\ n < Span(q) + BlockSize /\ Aligned(n) = Span(q)
  BY BlocksIn, AlignedLength
<1> HIDE DEF q
<1>2. Span(q + 1) = Span(q) + BlockSize /\ Span(q) \in Nat /\ BlockSize \in Nat /\ Span(j) \in Nat /\ q + 1 \in Nat
  BY <1>1, SpanNext, SpanFacts
<1>3. j < q + 1
  BY <1>1, <1>2, SpanOrder
<1> QED BY <1>1, <1>3, SpanOrder

\* What a match of all the tokens but the last hands out are the entries of
\* their whole-block prefixes, all of them.
LEMMA MatchEntries ==
  ASSUME NEW t, NEW ct, NEW a, NEW x, NEW b, Shape(t, a, x, b), TreeStored(t, ct, x, b), NEW tokens \in TokenSeqs,
         NEW n, NEW k, NEW m, NEW r, Ended(t, x, b, Front(tokens), n, k, m, r)
  PROVE  Cache!EntriesOf(EntriesIn(t, ct), tokens, Len(tokens) - 1)
           = {[prefix |-> PrefixTo(tokens, i), block |-> r[i]] : i \in 1 .. Len(r)}
<1> DEFINE u == Front(tokens)
           h == Len(u)
           g == Len(r)
<1>1. /\ tokens \in Seq(Int) /\ Len(tokens) \in Nat /\ u \in Seq(Int) /\ h = Len(tokens) - 1 /\ h \in Nat
      /\ \A i \in 1 .. h : tokens[i] = u[i]
  BY FrontFacts DEF Begins
<1> HIDE DEF u
<1>2. /\ n \in Nodes(t) /\ k = Span(g) /\ k \in Nat /\ k <= Aligned(h) /\ Agree(x[n], u, k)
      /\ g \in Nat /\ g <= Len(b[n]) /\ r = SubSeq(b[n], 1, g)
  BY DEF Ended, u
<1>3. b[n] \in Seq(Block) /\ Len(b[n]) \in Nat /\ x[n] \in Seq(Int)
  BY <1>2, NodeFacts, Lengths
<1>4. \A i \in 1 .. g : r[i] = b[n][i]
  <2> DEFINE v == b[n]
             E == Block
             c == g
  <2>1. v \in Seq(E) /\ c \in Nat /\ c <= Len(v) /\ r = SubSeq(v, 1, c)
    BY <1>2, <1>3
  <2> HIDE DEF v, E, c
  <2>2. \A i \in 1 .. c : r[i] = v[i]
    BY <2>1, Cut
  <2> QED BY <2>2 DEF v, c
<1> HIDE DEF h, g
<1>5. k <= h
  <2>1. Aligned(h) \in Nat /\ Aligned(h) <= h
    BY <1>1, AlignedLength
  <2> QED BY <1>1, <1>2, <2>1
<1>6. ASSUME NEW i \in 1 .. g
      PROVE  /\ i \in Nat /\ r[i] \in Recorded(t) /\ Span(i) \in Nat /\ Span(i) <= Len(tokens) - 1
             /\ Len(ct[r[i]]) = Span(i) /\ ct[r[i]] = SubSeq(tokens, 1, Span(i)) /\ ct[r[i]] = PrefixTo(tokens, i)
  <2> DEFINE l == Span(i)
             v == x[n]
  <2>1. i \in 1 .. Len(b[n]) /\ i <= g
    BY <1>2, <1>3
  <2>2. /\ r[i] \in Recorded(t) /\ i \in Nat /\ l \in Nat /\ l <= Len(v) /\ v \in Seq(Int)
        /\ ct[r[i]] = SubSeq(v, 1, l) /\ Len(ct[r[i]]) = l
    BY <1>2, <1>4, <2>1, FiledUnder
  <2>3. l <= k
    BY <1>2, <2>1, <2>2, SpanOrder
  <2>4. l <= Len(tokens) - 1 /\ l <= Len(tokens)
    <3>1. l \in Nat /\ k \in Nat /\ h \in Nat /\ l <= k /\ k <= h
      BY <1>1, <1>2, <1>5, <2>2, <2>3
    <3>2. h = Len(tokens) - 1 /\ Len(tokens) \in Nat
      BY <1>1
    <3> HIDE DEF l, v, h
    <3> QED BY <3>1, <3>2
  <2>5. PrefixTo(tokens, i) = SubSeq(tokens, 1, l)
    BY <1>1, <2>2, <2>4, WholePrefix
  <2>6. Agree(v, u, k)
    BY <1>2
  <2> HIDE DEF l, v
  <2>7. Agree(v, tokens, l)
    <3>1. l \in Nat /\ k \in Nat /\ h \in Nat /\ l <= k /\ k <= h
      BY <1>1, <1>2, <1>5, <2>2, <2>3
    <3>2. \A o \in 1 .. l : o \in 1 .. k /\ o \in 1 .. h
      BY <3>1
    <3> QED BY <1>1, <2>6, <3>2 DEF Agree
  <2>8. \A q \in Nat : q <= q
    OBVIOUS
  <2>9. SubSeq(v, 1, l) = SubSeq(tokens, 1, l)
    <3>1. l \in Nat /\ l <= Len(v) /\ l <= Len(tokens) /\ v \in Seq(Int) /\ tokens \in Seq(Int)
      BY <1>1, <2>2, <2>4
    <3> QED BY <2>7, <2>8, <3>1, AgreePrefix, Zenon
  <2> QED BY <2>2, <2>4, <2>5, <2>9 DEF l, v
<1>7. ASSUME NEW e \in Recorded(t), Len(ct[e]) <= Len(tokens) - 1, ct[e] = SubSeq(tokens, 1, Len(ct[e]))
      PROVE  \E i \in 1 .. g : e = r[i]
  <2>1. PICK q \in Nodes(t) : \E j \in 1 .. Len(b[q]) : b[q][j] = e
    BY BlockPlace DEF Recorded
  <2>2. PICK j \in 1 .. Len(b[q]) : b[q][j] = e
    BY <2>1
  <2> DEFINE l == Span(j)
             v == x[q]
             d == ct[e]
  <2>3. /\ j \in Nat /\ l \in Nat /\ l <= Len(v) /\ Len(d) = l /\ Agree(d, v, l)
    BY <2>2, FiledUnder
  <2>4. l <= h /\ l <= Len(tokens)
    BY <1>1, <1>7, <2>3
  <2>5. Agree(v, u, l)
    <3>1. d = SubSeq(tokens, 1, l)
      BY <1>7, <2>3
    <3> HIDE DEF l, v, d
    <3>2. \A o \in 1 .. l : SubSeq(tokens, 1, l)[o] = tokens[o]
      BY <1>1, <2>3, <2>4, Cut
    <3>3. \A o \in 1 .. l : o \in 1 .. h
      BY <1>1, <2>3, <2>4
    <3> QED BY <1>1, <2>3, <3>1, <3>2, <3>3 DEF Agree
  <2>6. l <= k
    <3>1. l <= Aligned(Len(u))
      BY <1>1, <2>3, <2>4, FullBefore DEF h
    <3>2. Ended(t, x, b, u, n, k, m, r)
      BY DEF u
    <3> QED BY <1>1, <2>3, <2>5, <3>1, <3>2, Longest
  <2>7. j <= g
    BY <1>2, <2>3, <2>6, SpanOrder
  <2>8. j \in 1 .. g /\ j \in 1 .. Len(b[n]) /\ j <= Len(b[q])
    BY <1>2, <1>3, <2>3, <2>7, Lengths
  <2>9. Agree(x[n], v, l)
    BY <1>2, <2>3, <2>5, <2>6 DEF Agree
  <2>10. b[n][j] = b[q][j]
    BY <1>2, <2>8, <2>9, Determined
  <2> QED BY <1>4, <2>2, <2>8, <2>10
<1> DEFINE C == EntriesIn(t, ct)
           L == Len(tokens)
           R == Recorded(t)
<1>8. Cache!EntriesOf(C, tokens, L - 1)
        = {z \in C : Len(z.prefix) <= L - 1 /\ z.prefix = SubSeq(tokens, 1, Len(z.prefix))}
  BY DEF Cache!EntriesOf
<1>9. C = {EntryOf(ct, e) : e \in R} /\ \A e : EntryOf(ct, e).prefix = ct[e]
  BY DEF EntriesIn, EntryOf
<1>10. \A i \in 1 .. g : [prefix |-> PrefixTo(tokens, i), block |-> r[i]] = EntryOf(ct, r[i])
  BY <1>6 DEF EntryOf
<1> HIDE DEF C, L, R
<1>11. ASSUME NEW z, z \in Cache!EntriesOf(C, tokens, L - 1) PROVE \E i \in 1 .. g : z = EntryOf(ct, r[i])
  <2>1. PICK e \in R : z = EntryOf(ct, e)
    BY <1>8, <1>9, <1>11
  <2>2. Len(ct[e]) <= L - 1 /\ ct[e] = SubSeq(tokens, 1, Len(ct[e]))
    BY <1>8, <1>9, <1>11, <2>1
  <2> QED BY <1>7, <2>1, <2>2 DEF L, R
<1>12. ASSUME NEW i \in 1 .. g PROVE EntryOf(ct, r[i]) \in Cache!EntriesOf(C, tokens, L - 1)
  <2>1. Len(ct[r[i]]) <= L - 1 /\ ct[r[i]] = SubSeq(tokens, 1, Len(ct[r[i]])) /\ r[i] \in R
    BY <1>6 DEF L, R
  <2> QED BY <1>8, <1>9, <2>1
<1>13. {[prefix |-> PrefixTo(tokens, i), block |-> r[i]] : i \in 1 .. g} = {EntryOf(ct, r[i]) : i \in 1 .. g}
  BY <1>10
<1> QED BY <1>11, <1>12, <1>13 DEF C, L, g

(* The steps as PrefixCache has them: what is cached and what is held.      *)
\* What clients hold, as the cache sees it, and all of it.
HeldBy(cl) == [c \in Client |-> IF c \in RunningIn(cl) THEN [holding |-> TRUE, entries |-> HeldOf(cl[c])]
                                                       ELSE [holding |-> FALSE]]
HeldIn(h)  == UNION {h[c].entries : c \in {d \in Client : h[d].holding}}

\* In a right state the cache is a map, and what is held is in it.
LEMMA StateCache ==
  ASSUME NEW t, NEW p, NEW cl, NEW ct, BaseState(t, p, cl, ct)
  PROVE  /\ CacheMap(t) = EntriesIn(t, ct) /\ Cache!IsCache(EntriesIn(t, ct))
         /\ HeldIn(HeldBy(cl)) \subseteq EntriesIn(t, ct)
<1>1. PICK a, x, b : Base(t, p, cl, ct, a, x, b, <<>>, NoParent)
  BY DEF BaseState
<1>2. Shape(t, a, x, b) /\ TreeStored(t, ct, x, b)
      /\ \A c \in RunningIn(cl) : ClientOK(cl[c], t, x, b) /\ ClientStored(cl[c], ct)
  BY <1>1 DEF Base, Placed, Stored
<1>3. CacheMap(t) = EntriesIn(t, ct) /\ Cache!IsCache(EntriesIn(t, ct))
  BY <1>2, CacheIs, EntriesAreCache
<1>4. \A c \in RunningIn(cl) : HeldOf(cl[c]) \subseteq EntriesIn(t, ct)
  BY <1>2, HeldRecorded
<1> DEFINE C == EntriesIn(t, ct)
           H == HeldBy(cl)
<1>5. ASSUME NEW c \in Client, H[c].holding PROVE H[c].entries \subseteq C
  <2>1. c \in RunningIn(cl)
    BY <1>5 DEF HeldBy
  <2>2. H[c].entries = HeldOf(cl[c])
    BY <2>1 DEF HeldBy
  <2> QED BY <1>4, <2>1, <2>2
<1> HIDE DEF C, H
<1>6. HeldIn(H) \subseteq C
  BY <1>5 DEF HeldIn
<1> QED BY <1>3, <1>6 DEF C, H

\* A request enters: it holds what it relies on.
LEMMA HeldEnters ==
  ASSUME NEW cl, cl = [d \in Client |-> cl[d]], NEW c \in Client, c \notin RunningIn(cl), NEW cl2, NEW tokens, NEW r,
         Enters(cl, cl2, c, tokens, r)
  PROVE  /\ ~HeldBy(cl)[c].holding
         /\ HeldBy(cl2) = [HeldBy(cl) EXCEPT ![c] = [holding |-> TRUE, entries |-> EntriesAt(tokens, r)]]
<1>1. PICK k : k.running /\ cl2 = Joining(cl, c, k) /\ HeldOf(k) = EntriesAt(tokens, r)
  BY DEF Enters
<1>2. cl2[c] = k /\ \A d \in Client : d # c => cl2[d] = cl[d]
  BY <1>1 DEF Joining
<1>3. \A d \in Client : d \in RunningIn(cl2) <=> (d = c \/ d \in RunningIn(cl))
  BY <1>1, <1>2 DEF RunningIn
<1> DEFINE v == [holding |-> TRUE, entries |-> EntriesAt(tokens, r)]
           none == [holding |-> FALSE]
           F(l) == [holding |-> TRUE, entries |-> HeldOf(l)]
           H == HeldBy(cl)
           H2 == HeldBy(cl2)
<1>4. H = [d \in Client |-> IF d \in RunningIn(cl) THEN F(cl[d]) ELSE none]
      /\ H2 = [d \in Client |-> IF d \in RunningIn(cl2) THEN F(cl2[d]) ELSE none]
  BY DEF HeldBy
<1>5. ~none.holding /\ F(k) = v
  BY <1>1
<1> HIDE DEF v, none, F, H, H2
<1>6. H2 = [H EXCEPT ![c] = v]
  BY <1>2, <1>3, <1>4, <1>5
<1>7. ~H[c].holding
  BY <1>4, <1>5
<1> QED BY <1>6, <1>7 DEF v, H, H2

\* A request leaves and holds nothing more.
LEMMA HeldLeaves ==
  ASSUME NEW cl, cl = [d \in Client |-> cl[d]], NEW c \in RunningIn(cl), NEW cl2, cl2 = Without(cl, c)
  PROVE  HeldBy(cl)[c].holding /\ HeldBy(cl2) = [HeldBy(cl) EXCEPT ![c] = [holding |-> FALSE]]
<1>1. c \in Client /\ RunningIn(cl2) = RunningIn(cl) \ {c} /\ \A d \in RunningIn(cl2) : cl2[d] = cl[d]
  BY WithoutFacts DEF RunningIn
<1> DEFINE none == [holding |-> FALSE]
           F(l) == [holding |-> TRUE, entries |-> HeldOf(l)]
           H == HeldBy(cl)
           H2 == HeldBy(cl2)
<1>2. H = [d \in Client |-> IF d \in RunningIn(cl) THEN F(cl[d]) ELSE none]
      /\ H2 = [d \in Client |-> IF d \in RunningIn(cl2) THEN F(cl2[d]) ELSE none]
  BY DEF HeldBy
<1>3. F(cl[c]).holding
  OBVIOUS
<1> HIDE DEF none, F, H, H2
<1>4. H2 = [H EXCEPT ![c] = none]
  BY <1>1, <1>2
<1>5. H[c].holding
  BY <1>1, <1>2, <1>3
<1> QED BY <1>4, <1>5 DEF none, H, H2

\* A tree that shrinks loses entries and gets none.
LEMMA ShrinksCache ==
  ASSUME NEW t, NEW ct, NEW t2, NEW ct2, Shrinks(t, ct, t2, ct2)
  PROVE  EntriesIn(t2, ct2) \subseteq EntriesIn(t, ct)
BY DEF Shrinks, FewerBlocks, EntriesIn, EntryOf, Recorded

\* The same blocks are the same entries.
LEMMA SameCache ==
  ASSUME NEW t, NEW ct, NEW t2, SameBlocks(t, t2)
  PROVE  EntriesIn(t2, ct) = EntriesIn(t, ct)
BY DEF SameBlocks, EntriesIn, EntryOf, Recorded

\* A tree that takes in the blocks of a request has the entries it had and those
\* of all the whole-block prefixes of its tokens.
LEMMA RecordsCache ==
  ASSUME NEW t, NEW ct, NEW a, NEW x, NEW b, Shape(t, a, x, b), NEW t2, NEW k, ClientOK(k, t, x, b),
         ClientStored(k, ct), Records(t, ct, t2, k)
  PROVE  /\ EntriesIn(t, ct) \subseteq EntriesIn(t2, ct)
         /\ Cache!Prefixes(EntriesIn(t2, ct)) = Cache!Prefixes(EntriesIn(t, ct)) \cup
              {SubSeq(k.tokens, 1, i * BlockSize) : i \in 1 .. (Len(k.tokens) \div BlockSize)}
<1> DEFINE u == k.tokens
           s == k.table
           h == FullBlocks(u)
           l == Len(u)
<1>1. PICK g : Known(t, ct, u, g) /\ Adds(t, t2, u, s, g)
  BY DEF Records
<1>2. u \in Seq(Int) /\ s \in Seq(Block) /\ Len(s) = BlocksNeeded(l) /\ \A i \in 1 .. Len(s) : ct[s[i]] = PrefixTo(u, i)
  BY RadixCacheAssumption DEF ClientOK, ClientStored, Table
<1>3. l \in Nat /\ h \in Nat /\ h <= Len(s) /\ Span(h) <= l /\ h = l \div BlockSize
  <2>1. l \in Nat /\ h = l \div BlockSize
    BY <1>2 DEF FullBlocks
  <2> HIDE DEF l, h
  <2>2. l \div BlockSize \in Nat /\ l \div BlockSize <= BlocksNeeded(l) /\ Span(l \div BlockSize) <= l
    BY <2>1, NeededBlocks, BlocksIn
  <2> QED BY <1>2, <2>1, <2>2
<1> HIDE DEF u, s, h, l
<1>4. g \in Nat /\ g <= h /\ \A i \in 1 .. g : \E e : InTree(t, e) /\ ct[e] = SubSeq(u, 1, Span(i))
  BY <1>1 DEF Known, h
<1>5. \A e : InTree(t2, e) <=> InTree(t, e) \/ \E i \in g + 1 .. h : s[i] = e
  BY <1>1 DEF Adds, h
<1>6. \A e : InTree(t, e) => e \in Block
  <2> SUFFICES ASSUME NEW e, InTree(t, e) PROVE e \in Block
    OBVIOUS
  <2>1. PICK n \in Nodes(t) : \E i \in 1 .. Len(b[n]) : b[n][i] = e
    BY BlockPlace
  <2> QED BY <2>1, ChainInTree
<1>7. ASSUME NEW i \in g + 1 .. h PROVE s[i] \in Block /\ ct[s[i]] = SubSeq(u, 1, Span(i)) /\ i \in 1 .. h
  <2>1. i \in 1 .. Len(s) /\ i \in Nat /\ i <= h /\ i \in 1 .. h
    BY <1>2, <1>3, <1>4
  <2>2. Span(i) <= l
    <3>1. Span(i) <= Span(h) /\ Span(i) \in Nat /\ Span(h) \in Nat
      BY <1>3, <2>1, SpanFacts, SpanOrder
    <3> QED BY <1>3, <3>1
  <2>3. PrefixTo(u, i) = SubSeq(u, 1, Span(i))
    BY <1>2, <2>1, <2>2, WholePrefix DEF l
  <2>4. ct[s[i]] = PrefixTo(u, i)
    BY <1>2, <2>1
  <2>5. s[i] \in Block
    BY <1>2, <2>1
  <2> QED BY <2>1, <2>3, <2>4, <2>5
<1> DEFINE R == Recorded(t)
           R2 == Recorded(t2)
           W == {SubSeq(u, 1, Span(i)) : i \in 1 .. h}
<1>8. R = {e \in Block : InTree(t, e)} /\ R2 = {e \in Block : InTree(t2, e)}
  BY DEF Recorded
<1>9. EntriesIn(t, ct) \subseteq EntriesIn(t2, ct)
  BY <1>5, <1>8 DEF EntriesIn
<1> HIDE DEF R, R2
<1>10. {ct[e] : e \in R2} = {ct[e] : e \in R} \cup W
  <2>1. ASSUME NEW e \in R2 PROVE e \in R \/ \E i \in 1 .. h : ct[e] = SubSeq(u, 1, Span(i))
    BY <1>5, <1>7, <1>8
  <2>2. R \subseteq R2
    BY <1>5, <1>8
  <2>3. ASSUME NEW i \in 1 .. h PROVE \E e \in R2 : ct[e] = SubSeq(u, 1, Span(i))
    <3>1. CASE i <= g
      <4>1. i \in 1 .. g
        BY <1>4, <3>1
      <4>2. PICK e : InTree(t, e) /\ ct[e] = SubSeq(u, 1, Span(i))
        BY <1>4, <4>1
      <4> QED BY <1>6, <1>8, <2>2, <4>2
    <3>2. CASE i > g
      <4>1. i \in g + 1 .. h
        BY <1>3, <1>4, <3>2
      <4>2. InTree(t2, s[i])
        BY <1>5, <4>1
      <4> QED BY <1>7, <1>8, <4>1, <4>2
    <3> QED BY <1>3, <1>4, <3>1, <3>2
  <2> QED BY <2>1, <2>2, <2>3
<1>11. W = {SubSeq(k.tokens, 1, i * BlockSize) : i \in 1 .. (Len(k.tokens) \div BlockSize)}
  BY <1>3 DEF u, l, Span
<1> QED BY <1>9, <1>10, <1>11, PrefixesIn DEF R, R2

\* What PrefixCache takes for held.
Seen == [c \in Client |-> IF c \in Running THEN [holding |-> TRUE, entries |-> HeldEntries(c)]
                                           ELSE [holding |-> FALSE]]

\* Now and next it is what the clients hold.
LEMMA SeenIs ==
  /\ Seen = HeldBy(client) /\ Seen' = HeldBy(client')
  /\ Cache!Held' = HeldIn(HeldBy(client'))
<1>1. Seen = HeldBy(client)
  BY DEF Seen, HeldBy, HeldOf, HeldEntries, Running, RunningIn
<1>2. Seen' = HeldBy(client')
  BY DEF Seen, HeldBy, HeldOf, HeldEntries, Running, RunningIn
<1>3. Cache!Held' = HeldIn(Seen')
  BY Zenon DEF Cache!Held, HeldIn, Seen
<1> QED BY <1>1, <1>2, <1>3

\* A client that starts, in these terms.
LEMMA StartSeen ==
  ASSUME NEW c, NEW tokens, ~Seen[c].holding,
         Seen' = [Seen EXCEPT ![c] = [holding |-> TRUE,
                                      entries |-> Cache!EntriesOf(CacheMap(tree), tokens, Len(tokens) - 1)]]
  PROVE  Cache!Start(c, tokens)
BY DEF Cache!Start, Seen

\* One that stops.
LEMMA StopSeen ==
  ASSUME NEW c, Seen[c].holding, Seen' = [Seen EXCEPT ![c] = [holding |-> FALSE]]
  PROVE  Cache!Stop(c)
BY DEF Cache!Stop, Cache!None, Seen

\* A tree that shrinks to a right state forgets.
LEMMA ForgetSeen ==
  ASSUME BaseState(tree, pool, client, content), BaseState(tree', pool', client', content'),
         Shrinks(tree, content, tree', content')
  PROVE  Cache!Forget
<1>1. /\ CacheMap(tree) = EntriesIn(tree, content) /\ CacheMap(tree') = EntriesIn(tree', content')
      /\ Cache!IsCache(EntriesIn(tree', content')) /\ HeldIn(HeldBy(client')) \subseteq EntriesIn(tree', content')
  BY StateCache
<1>2. EntriesIn(tree', content') \subseteq EntriesIn(tree, content)
  BY ShrinksCache
<1>3. CacheMap(tree)' = CacheMap(tree')
  OBVIOUS
<1> QED BY <1>1, <1>2, <1>3, SeenIs DEF Cache!Forget

\* An admission forgets, and what it admits starts.
LEMMA TryAdmitSeen ==
  ASSUME PartAtBlocks, BaseState(tree, pool, client, content),
         NEW c \in Client, NEW tokens \in TokenSeqs, TryAdmit(c, tokens)
  PROVE  Cache!Next
<1>1. /\ BaseState(tree', pool', client', content') /\ c \notin Running
      /\ Shrinks(tree, content, tree', content') /\ (client' = client \/ Admits(c, tokens))
  BY TryAdmitState
<1>2. Cache!Forget
  BY <1>1, ForgetSeen
<1>3. CASE client' = client
  <2>1. Seen' = Seen
    BY <1>3, SeenIs
  <2> QED BY <1>2, <2>1, Zenon DEF Cache!Next, Seen
<1>4. CASE Admits(c, tokens)
  <2>1. PICK r : Lends(tree, content, tokens, r) /\ Enters(client, client', c, tokens, r)
    BY <1>4 DEF Admits
  <2>2. PICK a, x, b : /\ Shape(tree, a, x, b) /\ TreeStored(tree, content, x, b)
                       /\ \E n, k, l : Ended(tree, x, b, Front(tokens), n, k, l, r)
    BY <2>1 DEF Lends
  <2>3. Cache!EntriesOf(EntriesIn(tree, content), tokens, Len(tokens) - 1) = EntriesAt(tokens, r)
    BY <2>2, MatchEntries DEF EntriesAt
  <2>4. CacheMap(tree) = EntriesIn(tree, content)
    BY StateCache
  <2>5. client = [d \in Client |-> client[d]]
    BY DEF BaseState, Base, Placed
  <2>6. c \notin RunningIn(client)
    BY <1>1 DEF Running, RunningIn
  <2>7. /\ ~HeldBy(client)[c].holding
        /\ HeldBy(client') = [HeldBy(client) EXCEPT ![c] = [holding |-> TRUE, entries |-> EntriesAt(tokens, r)]]
    BY <2>1, <2>5, <2>6, HeldEnters
  <2>8. Cache!Start(c, tokens)
    BY <2>3, <2>4, <2>7, SeenIs, StartSeen
  <2> QED BY <1>2, <2>8, Zenon DEF Cache!Next
<1> QED BY <1>1, <1>3, <1>4

\* A request that is dropped stops.
LEMMA DropSeen ==
  ASSUME BaseState(tree, pool, client, content), NEW c \in Client, Drop(c)
  PROVE  Cache!Next
<1>1. /\ BaseState(tree', pool', client', content') /\ c \in RunningIn(client)
      /\ SameBlocks(tree, tree') /\ client' = Without(client, c) /\ content' = content
  BY DropState
<1>2. CacheMap(tree)' = CacheMap(tree)
  <2>1. CacheMap(tree) = EntriesIn(tree, content) /\ CacheMap(tree') = EntriesIn(tree', content')
    BY <1>1, StateCache
  <2>2. EntriesIn(tree', content) = EntriesIn(tree, content)
    BY <1>1, SameCache
  <2> QED BY <1>1, <2>1, <2>2
<1>3. Cache!Stop(c)
  <2>1. client = [d \in Client |-> client[d]]
    BY DEF BaseState, Base, Placed
  <2>2. HeldBy(client)[c].holding /\ HeldBy(client') = [HeldBy(client) EXCEPT ![c] = [holding |-> FALSE]]
    BY <1>1, <2>1, HeldLeaves
  <2> QED BY <2>2, SeenIs, StopSeen
<1> QED BY <1>2, <1>3, Zenon DEF Cache!Next

\* A request that finishes stops and has its prefixes recorded.
LEMMA FinishSeen ==
  ASSUME PartAtBlocks, BaseState(tree, pool, client, content), NEW c \in Client, Finish(c)
  PROVE  Cache!Next
<1>1. /\ BaseState(tree', pool', client', content') /\ c \in RunningIn(client)
      /\ Records(tree, content, tree', client[c])
      /\ client' = Without(client, c) /\ content' = content
  BY FinishState
<1>2. PICK a, x, b : Base(tree, pool, client, content, a, x, b, <<>>, NoParent)
  BY DEF BaseState
<1>3. /\ client = [d \in Client |-> client[d]] /\ Shape(tree, a, x, b)
      /\ ClientOK(client[c], tree, x, b) /\ ClientStored(client[c], content)
  BY <1>1, <1>2 DEF Base, Placed, Stored
<1>4. Cache!Stop(c)
  <2>1. HeldBy(client)[c].holding /\ HeldBy(client') = [HeldBy(client) EXCEPT ![c] = [holding |-> FALSE]]
    BY <1>1, <1>3, HeldLeaves
  <2> QED BY <2>1, SeenIs, StopSeen
<1> DEFINE tokens == client[c].tokens
<1>5. tokens \in TokenSeqs
  BY <1>3 DEF ClientOK
<1>6. /\ CacheMap(tree) = EntriesIn(tree, content) /\ CacheMap(tree)' = EntriesIn(tree', content)
      /\ Cache!IsCache(EntriesIn(tree', content))
  BY <1>1, StateCache
<1>7. /\ EntriesIn(tree, content) \subseteq EntriesIn(tree', content)
      /\ Cache!Prefixes(EntriesIn(tree', content)) = Cache!Prefixes(EntriesIn(tree, content)) \cup
           {SubSeq(tokens, 1, i * BlockSize) : i \in 1 .. (Len(tokens) \div BlockSize)}
  BY <1>1, <1>3, RecordsCache
<1> HIDE DEF tokens
<1>8. Cache!Record(tokens)
  BY <1>6, <1>7, Zenon DEF Cache!Record
<1> QED BY <1>4, <1>5, <1>8, Zenon DEF Cache!Next

\* A cache starts empty, and nothing is held.
LEMMA InitSeen ==
  ASSUME Init
  PROVE  Cache!Init
<1>1. CacheMap(tree) = EntriesIn(tree, content)
  BY InitState, StateCache
<1>2. \A e : ~InTree(tree, e)
  BY Tree0Facts, NoBlocks DEF Init, InTree
<1>3. CacheMap(tree) = {}
  BY <1>1, <1>2 DEF EntriesIn, Recorded
<1>4. Running = {}
  BY DEF Init, Running, NoClient
<1> QED BY <1>3, <1>4 DEF Cache!Init, Cache!None

\* Tree, list, pool and clients together keep the promises of PrefixCache.
THEOREM ImplementsPrefixCache ==
  ASSUME PartAtBlocks
  PROVE  Spec => PrefixCacheSpec
<1> DEFINE I == BaseState(tree, pool, client, content)
<1>1. Init => Cache!Init
  BY InitSeen
<1>2. I /\ [Next]_vars => [Cache!Next]_<<CacheMap(tree), Seen>>
  <2> SUFFICES ASSUME I, [Next]_vars PROVE Cache!Next \/ UNCHANGED <<CacheMap(tree), Seen>>
    OBVIOUS
  <2>1. ASSUME NEW c \in Client, NEW tokens \in TokenSeqs, TryAdmit(c, tokens) PROVE Cache!Next
    BY <2>1, TryAdmitSeen
  <2>2. ASSUME NEW c \in Client, Finish(c) PROVE Cache!Next
    BY <2>2, FinishSeen
  <2>3. ASSUME NEW c \in Client, Drop(c) PROVE Cache!Next
    BY <2>3, DropSeen
  <2>4. CASE UNCHANGED vars
    <3>1. tree' = tree /\ client' = client
      BY <2>4 DEF vars
    <3>2. CacheMap(tree)' = CacheMap(tree) /\ Seen' = Seen
      BY <3>1, SeenIs
    <3> QED BY <3>2
  <2> QED BY <2>1, <2>2, <2>3, <2>4 DEF Next
<1>3. Spec => []I
  BY StateRight
<1> QED BY <1>1, <1>2, <1>3, PTL DEF Spec, PrefixCacheSpec, Cache!Spec, Seen
=============================================================================
