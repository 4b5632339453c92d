------------------------------ MODULE RadixTree ------------------------------
(***************************************************************************)
(* xstar_cpp's RadixTree, the prefix cache, as operators on a tree: one    *)
(* operator per method.  The module that owns a tree variable uses each as *)
(* one step, which is how the code runs them (all on the event loop's      *)
(* thread, none awaits).                                                   *)
(*                                                                         *)
(* A tree is [node, lru, evictable]: the live nodes by identity, the LRU   *)
(* list of node identities (head first, so that in_lru is membership) and  *)
(* evictable_blocks_.  A node is [parent, key, table, lock, children], its *)
(* children keyed by the tokens of their first block.  A node keeps its    *)
(* identity when it is split, which is what a held pointer relies on.      *)
(***************************************************************************)
EXTENDS Paging

Root     == 0
NoParent == -1

Tree0 == [node      |-> [n \in {Root} |-> [parent |-> NoParent, key |-> <<>>, table |-> <<>>,
                                           lock |-> 1, children |-> <<>>]],
          lru       |-> <<>>,
          evictable |-> 0]

\* The map f with k mapped to v, whether it was in f or not.
Put(f, k, v) == [j \in DOMAIN f \cup {k} |-> IF j = k THEN v ELSE f[j]]

Nodes(t)      == DOMAIN t.node
InLru(t, n)   == Contains(t.lru, n)
Childless(t, n) == DOMAIN t.node[n].children = {}
FreshNode(t)  == CHOOSE n \in 1 .. Cardinality(Nodes(t)) : n \notin Nodes(t)

\* The BlockSize tokens after the first k (short of them, the code reads past
\* the end).
BlockAt(s, k)   == [i \in 1 .. BlockSize |-> IF k + i <= Len(s) THEN s[k + i] ELSE Junk]

\* m_key: how far key agrees with the tokens after the first k, up to total.
Agreement(key, tokens, k, total) ==
  Max({m \in 0 .. Min({Len(key), total - k}) : \A i \in 1 .. m : key[i] = tokens[k + i]})

-----------------------------------------------------------------------------
(* The LRU list, tail = most recent.                                       *)

Touch(t, n)   == IF InLru(t, n) THEN [t EXCEPT !.lru = Append(RemoveFirst(@, n), n)] ELSE t

\* Mutant: a node enters the list without its blocks being counted.
EnlistUncounted(t, n) == [t EXCEPT !.lru = Append(@, n)]

Enlist(t, n)  == [t EXCEPT !.lru = Append(@, n), !.evictable = @ + Len(t.node[n].table)]

Delist(t, n)  == IF InLru(t, n)
                 THEN [t EXCEPT !.lru = RemoveFirst(@, n), !.evictable = @ - Len(t.node[n].table)]
                 ELSE t

-----------------------------------------------------------------------------
(* Descending the tree.  w is the walk: the tree as touched so far, the    *)
(* node reached, the tokens agreed with, m_key at the node, the blocks     *)
(* collected, and whether the walk is over.                                *)

Walk0(t) == [tree |-> t, now |-> Root, length |-> 0, m |-> 0, blocks |-> <<>>, over |-> FALSE]

\* One turn of the loop match_prefix and insert share: compare the key of
\* the node, then stop inside it, at the end of the tokens or for want of a
\* child, or go down.
WalkStep(w, tokens, total, refresh) ==
  IF w.over THEN w
  ELSE LET node   == w.tree.node[w.now]
           m      == Agreement(node.key, tokens, w.length, total)
           length == w.length + m
           fork   == BlockAt(tokens, length)
           stop   == \/ m < Len(node.key)
                     \/ length >= total
                     \/ refresh /\ total - length < BlockSize
                     \/ fork \notin DOMAIN node.children
       IN  [tree   |-> IF refresh THEN Touch(w.tree, w.now) ELSE w.tree,
            now    |-> IF stop THEN w.now ELSE node.children[fork],
            length |-> length,
            m      |-> m,
            blocks |-> w.blocks \o SubSeq(node.table, 1, m \div BlockSize),
            over   |-> stop]

Descend(t, tokens, refresh) ==
  Iterate(LAMBDA w : WalkStep(w, tokens, Aligned(Len(tokens)), refresh),
          Walk0(t), Cardinality(Nodes(t)))

\* The cached blocks of the longest cached prefix of tokens and the node the
\* match ended in; every listed node on the way becomes the most recent.
MatchPrefix(t, tokens) ==
  LET w == Descend(t, tokens, TRUE) IN [tree |-> w.tree, blocks |-> w.blocks, node |-> w.now]

-----------------------------------------------------------------------------
(* Pins.                                                                   *)

\* The node and its ancestors, upwards.
PathUp(t, n) ==
  Iterate(LAMBDA p : IF Last(p) = Root THEN p ELSE Append(p, t.node[Last(p)].parent),
          <<n>>, Cardinality(Nodes(t)))

\* The walk of inc_lock_ref and dec_lock_ref: each node's count changes, and
\* the node leaves the list when it becomes pinned and enters it when it
\* becomes an unpinned leaf.
LockNode(t, n) ==
  [(IF t.node[n].lock = 0 THEN Delist(t, n) ELSE t) EXCEPT !.node[n].lock = @ + 1]

UnlockNode(t, n) ==
  LET u == [t EXCEPT !.node[n].lock = @ - 1]
  IN  IF u.node[n].lock = 0 /\ ~InLru(u, n) /\ Childless(u, n) THEN Enlist(u, n) ELSE u

IncLockRef(t, n) ==
  LET path == PathUp(t, n)
  IN  Iterate(LAMBDA s : [tree |-> LockNode(s.tree, path[s.i]), i |-> s.i + 1],
              [tree |-> t, i |-> 1], Len(path)).tree

DecLockRef(t, n) ==
  LET path == PathUp(t, n)
  IN  Iterate(LAMBDA s : [tree |-> UnlockNode(s.tree, path[s.i]), i |-> s.i + 1],
              [tree |-> t, i |-> 1], Len(path)).tree

-----------------------------------------------------------------------------
(* insert.  It answers [ok, tree, pool].                                   *)

\* _split_node: a new node takes the first len tokens of child and its
\* place under the parent; child keeps the rest, its identity and its pins,
\* which the new node, its ancestor, shares.
SplitAllowed(t, child, len) ==
  len > 0 /\ Len(t.node[child].key) - len >= BlockSize

\* A split that gives the upper node these pins and takes this many blocks off
\* evictable_blocks_.
SplitInto(t, child, len, pins, moved) ==
  LET old   == t.node[child]
      upper == FreshNode(t)
      lower == [old EXCEPT !.key    = SubSeq(@, len + 1, Len(@)),
                           !.table  = SubSeq(@, len \div BlockSize + 1, Len(@)),
                           !.parent = upper]
      node  == [parent   |-> old.parent,
                key      |-> SubSeq(old.key, 1, len),
                table    |-> SubSeq(old.table, 1, len \div BlockSize),
                lock     |-> pins,
                children |-> Put(<<>>, BlockAt(lower.key, 0), child)]
  IN  [node      |-> Put([t.node EXCEPT ![child] = lower,
                                        ![old.parent].children = Put(@, BlockAt(node.key, 0), upper)],
                         upper, node),
       lru       |-> t.lru,
       evictable |-> t.evictable - moved]

\* A listed leaf's blocks that move above it are no longer evictable.
MovedUp(t, child, len) == IF InLru(t, child) THEN len \div BlockSize ELSE 0

\* Mutants: they stay counted; the upper node does not share the pins.
SplitNodeKeepsCount(t, child, len) == SplitInto(t, child, len, t.node[child].lock, 0)
SplitNodeUnpinned(t, child, len)   == SplitInto(t, child, len, 0, MovedUp(t, child, len))

SplitNode(t, child, len) ==
  SplitInto(t, child, len, t.node[child].lock, MovedUp(t, child, len))

\* A new leaf under node n, which, no longer a leaf, leaves the list.
HangLeaf(t, n, key, blocks) ==
  LET leaf == FreshNode(t)
      node == [parent |-> n, key |-> key, table |-> blocks, lock |-> 0, children |-> <<>>]
      kids == Put(t.node[n].children, BlockAt(key, 0), leaf)
      u    == Delist(t, n)
  IN  Enlist([u EXCEPT !.node = Put([t.node EXCEPT ![n].children = kids], leaf, node)], leaf)

KeyAfter(tokens, k)   == SubSeq(tokens, k + 1, Aligned(Len(tokens)))
BlocksAfter(tokens, table, k) ==
  SubSeq(table, k \div BlockSize + 1, Len(tokens) \div BlockSize)

\* Mutants: the tree takes no reference on the blocks it records; it records
\* the first blocks of the table instead of those after the matched tokens.
AddLeafUnreferenced(t, p, n, tokens, table, k) ==
  [ok |-> TRUE, pool |-> p,
   tree |-> HangLeaf(t, n, KeyAfter(tokens, k), BlocksAfter(tokens, table, k))]

AddLeafFirstBlocks(t, p, n, tokens, table, k) ==
  LET blocks == SubSeq(table, 1, Len(BlocksAfter(tokens, table, k)))
  IN  [ok |-> TRUE, pool |-> Ref(p, blocks).pool,
       tree |-> HangLeaf(t, n, KeyAfter(tokens, k), blocks)]

\* The leaf for the tokens after the first k, with a reference on each block.
AddLeaf(t, p, n, tokens, table, k) ==
  LET blocks == BlocksAfter(tokens, table, k)
      r      == Ref(p, blocks)
  IN  [ok   |-> r.ok,
       pool |-> r.pool,
       tree |-> IF r.ok THEN HangLeaf(t, n, KeyAfter(tokens, k), blocks) ELSE t]

Insert(t, tokens, table, p) ==
  LET w     == Descend(t, tokens, FALSE)
      total == Aligned(Len(tokens))
      len   == Aligned(w.m)
      Same(u) == [ok |-> TRUE, tree |-> u, pool |-> p]
  IN  IF w.m < Len(t.node[w.now].key)
      THEN IF ~SplitAllowed(t, w.now, len)
           THEN [ok |-> FALSE, tree |-> t, pool |-> p]
           ELSE LET u == SplitNode(t, w.now, len)
                IN  IF w.length = total THEN Same(u)
                    ELSE AddLeaf(u, p, FreshNode(t), tokens, table, w.length)
      ELSE IF w.length = total THEN Same(t)
      ELSE AddLeaf(t, p, w.now, tokens, table, w.length)

-----------------------------------------------------------------------------
(* evict.                                                                  *)

\* _delete_leaf on the popped head, then its parent becomes a leaf to evict
\* when nothing is left below it and nobody pins it.
EvictOne(r) ==
  LET t      == r.tree
      n      == Head(t.lru)
      old    == t.node[n]
      up     == old.parent
      entry  == BlockAt(old.key, 0)
      kids   == [f \in DOMAIN t.node[up].children \ {entry} |-> t.node[up].children[f]]
      pruned == [node      |-> [m \in Nodes(t) \ {n} |->
                                 IF m = up THEN [t.node[m] EXCEPT !.children = kids] ELSE t.node[m]],
                 lru       |-> Tail(t.lru),
                 evictable |-> t.evictable - Len(old.table)]
      freed  == Free(r.pool, old.table)
      orphan == up # Root /\ Childless(pruned, up) /\ pruned.node[up].lock = 0 /\ ~InLru(pruned, up)
  IN  [tree  |-> IF orphan THEN Enlist(pruned, up) ELSE pruned,
       pool  |-> freed.pool,
       freed |-> r.freed + Len(old.table),
       ok    |-> freed.ok]

\* Answers [tree, pool, freed, ok].
Evict(t, need, p) ==
  Iterate(LAMBDA r : IF r.ok /\ r.freed < need /\ r.tree.lru # <<>> THEN EvictOne(r) ELSE r,
          [tree |-> t, pool |-> p, freed |-> 0, ok |-> TRUE], Cardinality(Nodes(t)))

-----------------------------------------------------------------------------
(* What the tree represents.                                               *)

\* The tokens from the root to the end of a node, and their blocks.
Chain(t, n) ==
  Iterate(LAMBDA s : [at     |-> t.node[s.at].parent,
                      tokens |-> t.node[s.at].key \o s.tokens,
                      blocks |-> t.node[s.at].table \o s.blocks],
          [at |-> n, tokens |-> <<>>, blocks |-> <<>>], Len(PathUp(t, n)))

\* The cache as a plain map: each cached whole-block prefix and its last block.
CacheMap(t) ==
  UNION {{[prefix |-> SubSeq(chain.tokens, 1, k * BlockSize), block |-> chain.blocks[k]] :
            k \in 1 .. Len(chain.blocks)} :
         chain \in {Chain(t, n) : n \in {m \in Nodes(t) : Childless(t, m)}}}

HeldBlocks(t, b) == {n \in Nodes(t) : Contains(t.node[n].table, b)}

-----------------------------------------------------------------------------
(* What a tree must always satisfy.                                        *)

\* radix_cache.h:19-20: a node other than the root holds whole blocks, and
\* its key is exactly their tokens.
WholeBlocks(t) ==
  \A n \in Nodes(t) \ {Root} :
     t.node[n].table # <<>> /\ Len(t.node[n].key) = Len(t.node[n].table) * BlockSize

\* children and parent are each other's inverse, and a child is filed under
\* the first block of its key, so that siblings differ in their first block.
LinksExact(t) ==
  /\ \A n \in Nodes(t) : \A f \in DOMAIN t.node[n].children :
        LET c == t.node[n].children[f]
        IN  c \in Nodes(t) /\ t.node[c].parent = n /\ BlockAt(t.node[c].key, 0) = f
  /\ \A c \in Nodes(t) \ {Root} : LET n == t.node[c].parent
        IN  n \in Nodes(t) /\ \E f \in DOMAIN t.node[n].children : t.node[n].children[f] = c

\* The list is exactly the nodes that may be evicted, each once, and the
\* cached count is the sum of their blocks.
LruExact(t) ==
  /\ NoDuplicates(t.lru)
  /\ ToSet(t.lru) = {n \in Nodes(t) \ {Root} : t.node[n].lock = 0 /\ Childless(t, n)}
  /\ t.evictable = FoldLeft(LAMBDA s, n : s + Len(t.node[n].table), 0, t.lru)
=============================================================================
