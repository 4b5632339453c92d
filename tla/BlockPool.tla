----------------------------- MODULE BlockPool -----------------------------
(***************************************************************************)
(* The data of xstar_cpp's BlockManager and what one call does to it.      *)
(*                                                                         *)
(* A pool is a record of the three pieces of state the class keeps about   *)
(* its blocks: the reference counts, the LIFO free list (head first) and   *)
(* the cached number of allocated blocks.  The primitives PopFreeHead,     *)
(* PushFreeHead, FreeOne and RefOne are single loop iterations; Alloc,     *)
(* Free, Ref and WriteBlock are whole calls, which the modules that        *)
(* compose the pool with its callers use as one step.  BlockManager.tla    *)
(* runs the same calls one iteration at a time and is checked to agree.    *)
(*                                                                         *)
(* A call returns [ok, pool, ids]: ok is FALSE when it threw, and pool is  *)
(* then whatever the iterations before the throw left behind.              *)
(***************************************************************************)
EXTENDS Integers, Sequences, SequencesExt

CONSTANT NumBlocks        \* num_blocks_

\* block_manager.cpp:10 refuses a negative size; an empty pool is legal.
ASSUME NumBlocksAssumption == NumBlocks \in Nat

Block == 0 .. NumBlocks - 1

\* The constructor links the blocks 0, 1, ... in order, all of them free.
Pool0 == [ref_cnt       |-> [b \in Block |-> 0],
          free_list     |-> [i \in 1 .. NumBlocks |-> i - 1],
          num_allocated |-> 0]

PoolType == [ref_cnt : [Block -> Nat], free_list : Seq(Block), num_allocated : Nat]

num_free(p) == NumBlocks - p.num_allocated

\* Mutant: check_allocated is dropped, only the range of the id is checked.
AllocatedRangeOnly(p, b) == b \in Block

\* check_id and check_allocated: what free, ref and write_block demand of an id.
Allocated(p, b) == b \in Block /\ p.ref_cnt[b] >= 1

-----------------------------------------------------------------------------
(* One iteration of each loop.                                             *)

\* Mutant: the cached count is not incremented.
PopFreeHeadUncounted(p) ==
  [p EXCEPT !.ref_cnt[Head(p.free_list)] = 1, !.free_list = Tail(@)]

PopFreeHead(p) ==
  [ref_cnt       |-> [p.ref_cnt EXCEPT ![Head(p.free_list)] = 1],
   free_list     |-> Tail(p.free_list),
   num_allocated |-> p.num_allocated + 1]

\* Mutant: the cached count is not decremented.
PushFreeHeadUncounted(p, b) ==
  [p EXCEPT !.ref_cnt[b] = 0, !.free_list = <<b>> \o @]

PushFreeHead(p, b) ==
  [ref_cnt       |-> [p.ref_cnt EXCEPT ![b] = 0],
   free_list     |-> <<b>> \o p.free_list,
   num_allocated |-> p.num_allocated - 1]

FreeOne(p, b) ==
  IF p.ref_cnt[b] = 1 THEN PushFreeHead(p, b)
                      ELSE [p EXCEPT !.ref_cnt[b] = @ - 1]

RefOne(p, b) == [p EXCEPT !.ref_cnt[b] = @ + 1]

-----------------------------------------------------------------------------
(* Whole calls.                                                            *)

Thrown(p) == [ok |-> FALSE, pool |-> p, ids |-> <<>>]

Alloc(p, n) ==
  IF n < 0 \/ num_free(p) < n THEN Thrown(p)
  ELSE LET got == SubSeq(p.free_list, 1, n)
       IN  [ok   |-> TRUE,
            pool |-> [ref_cnt       |-> [b \in Block |-> IF Contains(got, b) THEN 1 ELSE p.ref_cnt[b]],
                      free_list     |-> SubSeq(p.free_list, n + 1, Len(p.free_list)),
                      num_allocated |-> p.num_allocated + n],
            ids  |-> got]

Begun(p) == [ok |-> TRUE, pool |-> p, ids |-> <<>>]

\* The iteration on id b, when doing it would leave the pool q: the first id
\* that is not allocated throws, and what was done before it stays done.
OneId(r, b, q) ==
  IF ~r.ok THEN r
  ELSE IF Allocated(r.pool, b) THEN [r EXCEPT !.pool = q] ELSE Thrown(r.pool)

Free(p, ids) == FoldLeft(LAMBDA r, b : OneId(r, b, FreeOne(r.pool, b)), Begun(p), ids)
Ref(p, ids)  == FoldLeft(LAMBDA r, b : OneId(r, b, RefOne(r.pool, b)), Begun(p), ids)

\* Mutant: the table is copied without taking references.
ForkUnreferenced(p, ids) == [Begun(p) EXCEPT !.ids = ids]

\* fork is ref, and hands the caller a copy of the table.
Fork(p, ids) == LET r == Ref(p, ids) IN IF r.ok THEN [r EXCEPT !.ids = ids] ELSE r

\* Copy-on-write: an unshared block is written in place, a shared one is
\* replaced by a fresh block and loses the caller's reference.
WriteBlock(p, b) ==
  IF ~Allocated(p, b) THEN Thrown(p)
  ELSE IF p.ref_cnt[b] = 1 THEN [ok |-> TRUE, pool |-> p, ids |-> <<b>>]
  ELSE IF num_free(p) < 1 THEN Thrown(p)
  ELSE [ok |-> TRUE, pool |-> [PopFreeHead(p) EXCEPT !.ref_cnt[b] = @ - 1],
        ids |-> <<Head(p.free_list)>>]

\* The device throws while it copies: the fresh block has been popped and the
\* reference dropped, and nobody learns the block's id.
Redirects(p, b)      == WriteBlock(p, b).ok /\ p.ref_cnt[b] > 1
WriteBlockLost(p, b) == Thrown(WriteBlock(p, b).pool)

-----------------------------------------------------------------------------
(* What a pool must always satisfy.                                        *)

NoDuplicates(s) == \A i, j \in 1 .. Len(s) : s[i] = s[j] => i = j

\* The free list holds exactly the blocks nobody references, each once.
FreeListExact(p) ==
  /\ NoDuplicates(p.free_list)
  /\ \A b \in Block : p.ref_cnt[b] = 0 <=> \E i \in 1 .. Len(p.free_list) : p.free_list[i] = b

\* block_manager.h:103: num_free() + num_allocated() == num_blocks, where
\* num_free() is the length of the list.
CountExact(p) == num_free(p) = Len(p.free_list)

\* block_manager.h:108: num_allocated() is the number of blocks with ref_cnt > 0.
AllocatedExact(p) == p.num_allocated = Cardinality({b \in Block : p.ref_cnt[b] > 0})
=============================================================================
