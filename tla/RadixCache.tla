----------------------------- MODULE RadixCache -----------------------------
(***************************************************************************)
(* RadixTree and BlockManager together, driven the way serve/scheduler.py  *)
(* drives them for one request: match, pin, evict, fork and allocate when  *)
(* it is admitted; insert, free and unpin when it finishes; unpin and free *)
(* when it is aborted or preempted.  Other requests do the same in any     *)
(* order in between.                                                       *)
(*                                                                         *)
(* Clients obey the contract of radix_cache.h:80: what they insert is      *)
(* prefilled.  Queues, decode and the await are in Scheduler.tla.          *)
(***************************************************************************)
EXTENDS RadixTree

CONSTANTS Client,         \* the requests
          TokenSeqs       \* the token sequences they bring

ASSUME RadixCacheAssumption == TokenSeqs \subseteq Seq(Int) /\ <<>> \notin TokenSeqs

\* Sequences that share the first token of a block share the block, as far as
\* both have it: then nodes part as radix_cache.h:20 says ("Split at block
\* boundary -> whole blocks only").  The code does not enforce it, and what
\* follows without it is the run radix_mid_block_read, so it is no ASSUME.
PartAtBlocks ==
  \A s, u \in TokenSeqs : \A i \in 0 .. Len(s) :
     /\ (i + 1) * BlockSize <= Len(s) /\ (i + 1) * BlockSize <= Len(u)
     /\ \A j \in 1 .. i * BlockSize + 1 : s[j] = u[j]
     => \A j \in 1 .. (i + 1) * BlockSize : s[j] = u[j]

VARIABLES tree,           \* the RadixTree
          pool,           \* the BlockManager
          client,         \* what each request holds
          content         \* history: the tokens whose KV each block holds, as the
                          \* whole prefix ending in the block

vars == <<tree, pool, client, content>>

NoClient == [running |-> FALSE]
Running  == {c \in Client : client[c].running}

\* The tokens up to the end of the i-th block, which may be a partial one.
PrefixTo(tokens, i)  == SubSeq(tokens, 1, Min({i * BlockSize, Len(tokens)}))

Init ==
  /\ tree    = Tree0
  /\ pool    = Pool0
  /\ client  = [c \in Client |-> NoClient]
  /\ content = [b \in Block |-> <<>>]

-----------------------------------------------------------------------------
(* Admission.  m is the match of all the tokens but the last.              *)

\* Mutant: the matched node is never pinned.
PinNothing(m) == m.tree

\* A request without a match pins nothing.
Pin(m) == IF m.blocks = <<>> THEN m.tree ELSE IncLockRef(m.tree, m.node)

NeededNew(tokens, m) == BlocksNeeded(Len(tokens)) - Len(m.blocks)

\* The gate counts free and evictable blocks, before the pin.
GatePasses(tokens, m) == num_free(pool) + m.tree.evictable >= NeededNew(tokens, m)

\* The pin, then the eviction of what is missing.
PinAndEvict(need, m) ==
  IF num_free(pool) < need
  THEN Evict(Pin(m), need - num_free(pool), pool)
  ELSE [tree |-> Pin(m), pool |-> pool, freed |-> 0, ok |-> TRUE]

\* Refused at the gate: only the LRU order has changed.
Refuse(tokens, m) ==
  /\ ~GatePasses(tokens, m)
  /\ tree' = m.tree
  /\ UNCHANGED <<pool, client, content>>

\* Eviction fell short, because pinning the match took blocks the gate had
\* counted as evictable: the pin is undone and the request keeps waiting.
RollBack(tokens, m, e) ==
  /\ num_free(pool) + e.freed < NeededNew(tokens, m)
  /\ tree' = IF m.blocks = <<>> THEN e.tree ELSE DecLockRef(e.tree, m.node)
  /\ pool' = e.pool
  /\ UNCHANGED <<client, content>>

\* Fork the match, allocate the rest and prefill it.
Admit(c, tokens, m, e) ==
  LET need  == NeededNew(tokens, m)
      got   == Alloc(Fork(e.pool, m.blocks).pool, need)
      table == m.blocks \o got.ids
  IN  /\ num_free(pool) + e.freed >= need
      /\ tree' = e.tree
      /\ pool' = got.pool
      /\ client' = [client EXCEPT ![c] =
           [running |-> TRUE, tokens |-> tokens, table |-> table, matched |-> Len(m.blocks),
            node |-> IF m.blocks = <<>> THEN NoParent ELSE m.node]]
      /\ content' = [b \in Block |->
           IF Contains(got.ids, b)
           THEN PrefixTo(tokens, CHOOSE i \in 1 .. Len(table) : table[i] = b) ELSE content[b]]

\* Mutant: the last token takes part in the match.
TryAdmitMatchAll(c, tokens) ==
  /\ c \notin Running
  /\ \E m \in {MatchPrefix(tree, tokens)} :
       \/ Refuse(tokens, m)
       \/ /\ GatePasses(tokens, m)
          /\ \E e \in {PinAndEvict(NeededNew(tokens, m), m)} :
               RollBack(tokens, m, e) \/ Admit(c, tokens, m, e)

TryAdmit(c, tokens) ==
  /\ c \notin Running
  /\ \E m \in {MatchPrefix(tree, Front(tokens))} :
       \/ Refuse(tokens, m)
       \/ /\ GatePasses(tokens, m)
          /\ \E e \in {PinAndEvict(NeededNew(tokens, m), m)} :
               RollBack(tokens, m, e) \/ Admit(c, tokens, m, e)

Unpin(t, c) == IF client[c].node = NoParent THEN t ELSE DecLockRef(t, client[c].node)

\* Finish: insert, free, unpin.  An insert that throws leaves the request as
\* it was, to be released like an aborted one.
Finish(c) ==
  /\ c \in Running
  /\ \E r \in {Insert(tree, client[c].tokens, client[c].table, pool)} :
         IF r.ok
         THEN /\ tree'   = Unpin(r.tree, c)
              /\ pool'   = Free(r.pool, client[c].table).pool
              /\ client' = [client EXCEPT ![c] = NoClient]
         ELSE tree' = r.tree /\ pool' = r.pool /\ UNCHANGED client
  /\ UNCHANGED content

\* _free_kv: unpin, free.
Drop(c) ==
  /\ c \in Running
  /\ tree'   = Unpin(tree, c)
  /\ pool'   = Free(pool, client[c].table).pool
  /\ client' = [client EXCEPT ![c] = NoClient]
  /\ UNCHANGED content

Next ==
  \E c \in Client :
    \/ \E tokens \in TokenSeqs : TryAdmit(c, tokens)
    \/ Finish(c)
    \/ Drop(c)

Spec == Init /\ [][Next]_vars

-----------------------------------------------------------------------------
(* Properties.                                                             *)

\* The state has its types.
TypeOK ==
  /\ pool \in PoolType
  /\ \A n \in Nodes(tree) : tree.node[n].lock \in Nat /\ ToSet(tree.node[n].table) \subseteq Block
  /\ tree.evictable \in Nat

\* Nodes hold whole blocks (radix_cache.h:19), links are consistent, and the
\* LRU list is exactly the evictable leaves, with evictable_blocks_ their sum.
TreeWellFormed == TypeOK /\ WholeBlocks(tree) /\ LinksExact(tree) /\ LruExact(tree)

\* Every pin is accounted for: lock_ref counts the running requests whose
\* match ended at the node or below it, through every split since.
PinsExact ==
  \A n \in Nodes(tree) :
    tree.node[n].lock = (IF n = Root THEN 1 ELSE 0)
      + Cardinality({c \in Running : client[c].node # NoParent /\ Contains(PathUp(tree, client[c].node), n)})

\* Every reference is accounted for: ref_cnt is the number of requests whose
\* table has the block plus one if the tree records it, and never twice there.
RefCntExact ==
  \A b \in Block :
    /\ Cardinality(HeldBlocks(tree, b)) <= 1
    /\ pool.ref_cnt[b] = Cardinality(HeldBlocks(tree, b))
                         + Cardinality({c \in Running : Contains(client[c].table, b)})

\* Pins and references are both exact, so that nothing leaks, is evicted under
\* a request, or is freed twice.
CountsExact == PinsExact /\ RefCntExact

\* A node nobody pins is the only holder of its blocks, so that evict, which
\* counts table entries, frees as many blocks as it answers.
UnpinnedUnshared ==
  \A n \in Nodes(tree) : tree.node[n].lock = 0 =>
    \A b \in ToSet(tree.node[n].table) : pool.ref_cnt[b] = 1

\* The KV in the blocks a request reads is the KV of its own tokens, whatever
\* was evicted, reallocated, split and inserted since it was admitted.
RunningReadsItsTokens ==
  \A c \in Running : \A i \in 1 .. Len(client[c].table) :
    content[client[c].table[i]] = PrefixTo(client[c].tokens, i)

\* The KV a match will hand out is that of the tokens it is filed under.
CacheHoldsItsTokens ==
  \A e \in CacheMap(tree) : content[e.block] = e.prefix

\* What is read and what will be handed out is the KV of its tokens.
ContentsRight == RunningReadsItsTokens /\ CacheHoldsItsTokens

\* The cache is a map of prefixes that keeps what running requests hold.
HeldEntries(c) == {[prefix |-> PrefixTo(client[c].tokens, i), block |-> client[c].table[i]] :
                     i \in 1 .. client[c].matched}
Cache == INSTANCE PrefixCache WITH
  cached <- CacheMap(tree),
  held   <- [c \in Client |-> IF c \in Running THEN [holding |-> TRUE, entries |-> HeldEntries(c)]
                                               ELSE [holding |-> FALSE]]
PrefixCacheSpec == Cache!Spec
=============================================================================
