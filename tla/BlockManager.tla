---------------------------- MODULE BlockManager ----------------------------
(***************************************************************************)
(* xstar_cpp's BlockManager, the physical KV block pool, one loop          *)
(* iteration at a time.                                                    *)
(*                                                                         *)
(* A caller makes a call with any argument, the ones the class must reject *)
(* included (an id out of range, a block already free, more blocks than    *)
(* there are).  alloc, free, ref and fork then take one step per block and *)
(* may throw between two of them; write_block copies a shared block one    *)
(* layer per step (cow_copy), and the device may fail any of the copies.   *)
(***************************************************************************)
EXTENDS BlockPool

CONSTANTS NumLayers,      \* num_layers_
          CallIds,        \* the id sequences callers pass to free, ref and fork
          CallCounts,     \* the counts callers pass to alloc
          MaxRef          \* bound of the model: ref and fork stop here

ASSUME BlockManagerAssumption ==
  /\ NumLayers \in Nat \ {0}
  /\ CallIds \subseteq Seq(Int)
  /\ CallCounts \subseteq Int
  /\ MaxRef \in Nat

VARIABLES pool,           \* blocks_, the free list and num_allocated_
          call,           \* the call being executed
          ret,            \* the last call that ended, and how
          kv              \* kv_pool_: whose bytes each block of each layer holds, as
                          \* the id of the block that held them when the call began

vars == <<pool, call, ret, kv>>

Layer == 0 .. NumLayers - 1
Ops   == {"alloc", "free", "ref", "fork", "write_block"}

NoCall == [op |-> "none"]
Idle   == call.op = "none"
NoRet  == [op |-> "none", ok |-> TRUE, ids |-> <<>>]
OwnKv  == [l \in Layer |-> [b \in Block |-> b]]

\* A call in progress: its argument, what is left of it, what it has
\* collected, and the pool it started from.
Begin(op, arg, todo) ==
  call' = [op |-> op, arg |-> arg, todo |-> todo, got |-> <<>>, pre |-> pool]

End(ok, ids) ==
  /\ call' = NoCall
  /\ ret'  = [op |-> call.op, ok |-> ok, ids |-> ids]
  /\ kv'   = OwnKv

Init ==
  /\ pool = Pool0
  /\ call = NoCall
  /\ ret  = NoRet
  /\ kv   = OwnKv

-----------------------------------------------------------------------------
(* alloc                                                                   *)

CallAlloc(n) ==
  /\ Idle
  /\ Begin("alloc", <<n>>, n)
  /\ UNCHANGED <<pool, ret, kv>>

\* The two guards at the top of alloc.
AllocRefuse ==
  /\ call.op = "alloc" /\ call.got = <<>>
  /\ (call.todo < 0 \/ num_free(pool) < call.todo)
  /\ End(FALSE, <<>>)
  /\ UNCHANGED pool

\* Mutant: the count is not tested before the first pop.
AllocAdmittedUntested == call.op = "alloc" /\ call.todo >= 0

\* Past the guards: the condition is evaluated before the first pop only.
AllocAdmitted ==
  /\ call.op = "alloc"
  /\ \/ call.got # <<>>
     \/ 0 <= call.todo /\ call.todo <= num_free(pool)

\* pop_free_head throws if it finds the sentinel; the blocks popped so far
\* would then be lost.
AllocPop ==
  /\ AllocAdmitted /\ call.todo > 0
  /\ IF pool.free_list = <<>>
     THEN End(FALSE, call.got) /\ UNCHANGED pool
     ELSE /\ pool' = PopFreeHead(pool)
          /\ call' = [call EXCEPT !.todo = @ - 1, !.got = Append(@, Head(pool.free_list))]
          /\ UNCHANGED <<ret, kv>>

AllocReturn ==
  /\ AllocAdmitted /\ call.todo = 0
  /\ End(TRUE, call.got)
  /\ UNCHANGED pool

-----------------------------------------------------------------------------
(* free, ref and fork: one id per step, stopping at the first bad one.     *)

CallFree(ids) ==
  /\ Idle
  /\ Begin("free", ids, ids)
  /\ UNCHANGED <<pool, ret, kv>>

CallRef(op, ids) ==
  /\ Idle
  /\ op \in {"ref", "fork"}
  /\ \A b \in Block : pool.ref_cnt[b] < MaxRef
  /\ Begin(op, ids, ids)
  /\ UNCHANGED <<pool, ret, kv>>

FreeStep ==
  /\ call.op = "free" /\ call.todo # <<>>
  /\ Allocated(pool, Head(call.todo))
  /\ pool' = FreeOne(pool, Head(call.todo))
  /\ call' = [call EXCEPT !.todo = Tail(@)]
  /\ UNCHANGED <<ret, kv>>

RefStep ==
  /\ call.op \in {"ref", "fork"} /\ call.todo # <<>>
  /\ Allocated(pool, Head(call.todo))
  /\ pool' = RefOne(pool, Head(call.todo))
  /\ call' = [call EXCEPT !.todo = Tail(@)]
  /\ UNCHANGED <<ret, kv>>

\* check_id or check_allocated throws; nothing done before is undone.
IdThrow ==
  /\ call.op \in {"free", "ref", "fork"} /\ call.todo # <<>>
  /\ ~Allocated(pool, Head(call.todo))
  /\ End(FALSE, <<>>)
  /\ UNCHANGED pool

IdReturn ==
  /\ call.op \in {"free", "ref", "fork"} /\ call.todo = <<>>
  /\ End(TRUE, IF call.op = "fork" THEN call.arg ELSE <<>>)
  /\ UNCHANGED pool

-----------------------------------------------------------------------------
(* write_block.  Its todo is the layer cow_copy copies next.               *)

CallWrite(b) ==
  /\ Idle
  /\ Begin("write_block", <<b>>, 0)
  /\ UNCHANGED <<pool, ret, kv>>

WriteTarget == call.arg[1]
Copying     == call.op = "write_block" /\ call.got # <<>>
WriteStart  == call.op = "write_block" /\ call.got = <<>>

WriteThrow ==
  /\ WriteStart
  /\ Allocated(pool, WriteTarget) => pool.ref_cnt[WriteTarget] > 1 /\ num_free(pool) < 1
  /\ End(FALSE, <<>>)
  /\ UNCHANGED pool

WriteInPlace ==
  /\ WriteStart
  /\ Allocated(pool, WriteTarget) /\ pool.ref_cnt[WriteTarget] = 1
  /\ End(TRUE, <<WriteTarget>>)
  /\ UNCHANGED pool

\* Mutant: the shared block keeps the caller's reference.
WriteRedirectKeepsRef ==
  /\ WriteStart
  /\ Allocated(pool, WriteTarget) /\ pool.ref_cnt[WriteTarget] > 1 /\ num_free(pool) >= 1
  /\ pool' = PopFreeHead(pool)
  /\ call' = [call EXCEPT !.got = <<Head(pool.free_list)>>]
  /\ UNCHANGED <<ret, kv>>

\* pop_free_head, then the shared block loses this caller's reference.
WriteRedirect ==
  /\ WriteStart
  /\ Allocated(pool, WriteTarget) /\ pool.ref_cnt[WriteTarget] > 1 /\ num_free(pool) >= 1
  /\ pool' = [PopFreeHead(pool) EXCEPT !.ref_cnt[WriteTarget] = @ - 1]
  /\ call' = [call EXCEPT !.got = <<Head(pool.free_list)>>]
  /\ UNCHANGED <<ret, kv>>

CopyLayer ==
  /\ Copying /\ call.todo < NumLayers
  /\ kv'   = [kv EXCEPT ![call.todo][call.got[1]] = kv[call.todo][WriteTarget]]
  /\ call' = [call EXCEPT !.todo = @ + 1]
  /\ UNCHANGED <<pool, ret>>

\* Mutant: the block to be written gets its reference back.
CopyFailsRestoring ==
  /\ Copying /\ call.todo < NumLayers
  /\ End(FALSE, <<>>)
  /\ pool' = RefOne(pool, WriteTarget)

\* cuda_memcpy_d2d throws: nothing gives back the block that was popped, or
\* the reference that was dropped.
CopyFails ==
  /\ Copying /\ call.todo < NumLayers
  /\ End(FALSE, <<>>)
  /\ UNCHANGED pool

\* Mutant: the copy loop ends one layer early.
WriteReturnEarly ==
  /\ Copying /\ call.todo = NumLayers - 1
  /\ End(TRUE, call.got)
  /\ UNCHANGED pool

WriteReturn ==
  /\ Copying /\ call.todo = NumLayers
  /\ End(TRUE, call.got)
  /\ UNCHANGED pool

-----------------------------------------------------------------------------
CallAny ==
  \/ \E n \in CallCounts : CallAlloc(n)
  \/ \E ids \in CallIds  : CallFree(ids) \/ CallRef("ref", ids) \/ CallRef("fork", ids)
  \/ \E b \in -1 .. NumBlocks : CallWrite(b)

Step ==
  \/ AllocRefuse \/ AllocPop \/ AllocReturn
  \/ FreeStep \/ RefStep \/ IdThrow \/ IdReturn
  \/ WriteThrow \/ WriteInPlace \/ WriteRedirect
  \/ CopyLayer \/ CopyFails \/ WriteReturn

Next == CallAny \/ Step

Spec == Init /\ [][Next]_vars

-----------------------------------------------------------------------------
(* Properties.                                                             *)

\* The state has its types.
TypeOK ==
  /\ pool.ref_cnt \in [Block -> Nat]
  /\ pool.free_list \in Seq(Block)
  /\ pool.num_allocated \in Nat
  /\ call = NoCall \/ call.op \in Ops
  /\ kv \in [Layer -> [Block -> Block]]

\* Between any two iterations of any call, whatever its arguments were and
\* whether or not an earlier call threw half-way: the free list holds exactly
\* the unreferenced blocks, each once, and the cached count is both what is
\* missing from the list and the number of referenced blocks.
PoolConsistent == TypeOK /\ FreeListExact(pool) /\ CountExact(pool) /\ AllocatedExact(pool)

\* alloc tests num_free() once and then pops in a loop; pop_free_head's own
\* "free list empty" throw is never reached from there.
AllocNeverRunsDry == AllocAdmitted => call.todo <= Len(pool.free_list)

\* An alloc that throws takes nothing, and neither does a write_block that the
\* pool refuses.  One that throws because the device failed a copy costs exactly
\* the block it had popped, which keeps a reference nobody owns, and the one
\* reference it had dropped.
FailedTakeAccounted ==
  [][(call.op \in {"alloc", "write_block"} /\ Idle' /\ ~ret'.ok) =>
       IF Copying
       THEN /\ pool'.ref_cnt = [call.pre.ref_cnt EXCEPT ![WriteTarget] = @ - 1, ![Head(call.pre.free_list)] = 1]
            /\ pool'.free_list = Tail(call.pre.free_list)
       ELSE pool' = call.pre]_vars

\* When write_block returns, the block it answers holds the bytes of the one
\* it was asked to write, in every layer, and every other block its own.
RedirectIsFullCopy ==
  [][(call.op = "write_block" /\ Idle' /\ ret'.ok)
       => \A l \in Layer : kv[l] = [OwnKv[l] EXCEPT ![ret'.ids[1]] = WriteTarget]]_vars

\* The calls, run an iteration at a time, do what the one-step calls of
\* BlockPool do: while a call runs, the abstract pool is still the one it found.
Atomic == INSTANCE BlockPoolSpec WITH pool <- IF Idle THEN pool ELSE call.pre
AtomicSpec == Atomic!Spec
=============================================================================
