------------------------- MODULE BlockManagerProofs -------------------------
(***************************************************************************)
(* Proofs about BlockManager, for every pool size, every number of layers  *)
(* and every set of calls.                                                 *)
(***************************************************************************)
EXTENDS BlockManager, BlockPoolProofs

-----------------------------------------------------------------------------
(* The state machine.                                                      *)

CallType == [op : Ops, arg : Seq(Int), todo : Int \cup Seq(Int), got : Seq(Block), pre : AnyPool]

(* What is known of the call in progress.  Until alloc or write_block has     *)
(* popped a block the pool is the one the call found; once alloc has popped   *)
(* one, what it still wants is on the list, because num_free(), which it      *)
(* tested, is the length of the list (CountExact).                            *)
CallOK ==
  \/ call = NoCall
  \/ /\ call \in CallType
     /\ call.op = "alloc" => /\ call.todo \in Int
                             /\ call.got # <<>> => 0 <= call.todo /\ call.todo <= Len(pool.free_list)
     /\ call.op \in {"free", "ref", "fork"} => call.todo \in Seq(Int)
     /\ call.op = "write_block" => /\ call.todo \in Nat
                                   /\ call.got # <<>> => /\ WriteTarget \in Block
                                                         /\ call.got[1] \in Block
     /\ call.op \in {"alloc", "write_block"} /\ call.got = <<>> => pool = call.pre

IInv ==
  /\ PoolOK(pool)
  /\ CallOK
  /\ kv \in [Layer -> [Block -> Block]]

\* The constructor establishes the invariant.
LEMMA InitInv == Init => IInv
<1> SUFFICES ASSUME Init PROVE IInv
  OBVIOUS
<1>1. kv \in [Layer -> [Block -> Block]]
  BY DEF Init, OwnKv
<1> QED BY <1>1, Pool0OK DEF Init, IInv, CallOK

\* A call that ends leaves no call behind, and the labels of kv are renewed.
LEMMA EndInv ==
  ASSUME NEW ok, NEW ids, PoolOK(pool'), End(ok, ids)
  PROVE  IInv'
<1>1. kv' \in [Layer -> [Block -> Block]]
  BY DEF End, OwnKv
<1> QED BY <1>1 DEF IInv, CallOK, End

\* Every step keeps it.
LEMMA NextInv == IInv /\ [Next]_vars => IInv'
<1> SUFFICES ASSUME IInv, [Next]_vars PROVE IInv'
  OBVIOUS
<1> USE DEF IInv
<1>1. ASSUME NEW n \in CallCounts, CallAlloc(n)
      PROVE  IInv'
  <2>1. n \in Int /\ <<n>> \in Seq(Int)
    BY BlockManagerAssumption
  <2>2. call' \in CallType
    BY <1>1, <2>1 DEF CallAlloc, Begin, CallType, Ops, PoolOK, AnyPool
  <2> QED BY <1>1, <2>1, <2>2 DEF CallAlloc, Begin, CallOK
<1>2. ASSUME NEW ids \in CallIds, CallFree(ids)
      PROVE  IInv'
  <2>1. ids \in Seq(Int)
    BY BlockManagerAssumption
  <2>2. call' \in CallType
    BY <1>2, <2>1 DEF CallFree, Begin, CallType, Ops, PoolOK, AnyPool
  <2> QED BY <1>2, <2>1, <2>2 DEF CallFree, Begin, CallOK
<1>3. ASSUME NEW ids \in CallIds, NEW op \in {"ref", "fork"}, CallRef(op, ids)
      PROVE  IInv'
  <2>1. ids \in Seq(Int)
    BY BlockManagerAssumption
  <2>2. call' \in CallType
    BY <1>3, <2>1 DEF CallRef, Begin, CallType, Ops, PoolOK, AnyPool
  <2> QED BY <1>3, <2>1, <2>2 DEF CallRef, Begin, CallOK
<1>4. ASSUME NEW b \in -1 .. NumBlocks, CallWrite(b)
      PROVE  IInv'
  <2>1. b \in Int /\ <<b>> \in Seq(Int)
    BY NumBlocksAssumption
  <2>2. call' \in CallType
    BY <1>4, <2>1 DEF CallWrite, Begin, CallType, Ops, PoolOK, AnyPool
  <2> QED BY <1>4, <2>1, <2>2 DEF CallWrite, Begin, CallOK
<1>5. CASE AllocRefuse
  BY <1>5, EndInv DEF AllocRefuse
<1>6. CASE AllocPop
  <2>1. call \in CallType /\ call.op = "alloc" /\ call.todo \in Int /\ call.todo > 0
        /\ call.todo <= Len(pool.free_list)
    BY <1>6, NumBlocksAssumption
    DEF AllocPop, AllocAdmitted, CallOK, NoCall, CountExact, num_free, PoolOK, AnyPool
  <2>2. pool.free_list # <<>>
    BY <2>1
  <2>3. /\ pool' = PopFreeHead(pool)
        /\ call' = [call EXCEPT !.todo = call.todo - 1, !.got = Append(call.got, Head(pool.free_list))]
        /\ kv' = kv
    BY <1>6, <2>2 DEF AllocPop
  <2>4. PoolOK(pool') /\ Head(pool.free_list) \in Block /\ Len(pool'.free_list) = Len(pool.free_list) - 1
    BY <2>2, <2>3, PopFreeHeadOK
  <2>5. Append(call.got, Head(pool.free_list)) \in Seq(Block)
        /\ Append(call.got, Head(pool.free_list)) # <<>>
    BY <2>1, <2>4, AppendProperties DEF CallType
  <2>6. call' \in CallType /\ call'.op = "alloc" /\ call'.todo = call.todo - 1 /\ call'.got # <<>>
    <3>1. call.todo - 1 \in Int
      BY <2>1
    <3> HIDE DEF IInv
    <3> QED BY <2>1, <2>3, <2>5, <3>1 DEF CallType
  <2>7. 0 <= call'.todo /\ call'.todo <= Len(pool'.free_list)
    BY <2>1, <2>4, <2>6, LenProperties DEF PoolOK, AnyPool
  <2> QED BY <2>1, <2>3, <2>4, <2>6, <2>7 DEF CallOK
<1>7. CASE AllocReturn
  BY <1>7, EndInv DEF AllocReturn
<1>8. CASE FreeStep
  <2>1. call \in CallType /\ call.op = "free" /\ call.todo \in Seq(Int) /\ Tail(call.todo) \in Seq(Int)
    BY <1>8, HeadTailProperties DEF FreeStep, CallOK, NoCall
  <2>2. call' = [call EXCEPT !.todo = Tail(call.todo)] /\ kv' = kv
    BY <1>8 DEF FreeStep
  <2>3. PoolOK(pool')
    BY <1>8, FreeOneOK DEF FreeStep
  <2>4. call' \in CallType /\ call'.op = "free" /\ call'.todo \in Seq(Int)
    BY <2>1, <2>2 DEF CallType
  <2> QED BY <2>2, <2>3, <2>4 DEF CallOK
<1>9. CASE RefStep
  <2>1. call \in CallType /\ call.op \in {"ref", "fork"} /\ call.todo \in Seq(Int) /\ Tail(call.todo) \in Seq(Int)
    BY <1>9, HeadTailProperties DEF RefStep, CallOK, NoCall
  <2>2. call' = [call EXCEPT !.todo = Tail(call.todo)] /\ kv' = kv
    BY <1>9 DEF RefStep
  <2>3. PoolOK(pool')
    BY <1>9, RefOneOK DEF RefStep
  <2>4. call' \in CallType /\ call'.op = call.op /\ call'.todo \in Seq(Int)
    BY <2>1, <2>2 DEF CallType
  <2> QED BY <2>1, <2>2, <2>3, <2>4 DEF CallOK
<1>10. CASE IdThrow
  BY <1>10, EndInv DEF IdThrow
<1>11. CASE IdReturn
  BY <1>11, EndInv DEF IdReturn
<1>12. CASE WriteThrow
  BY <1>12, EndInv DEF WriteThrow
<1>13. CASE WriteInPlace
  BY <1>13, EndInv DEF WriteInPlace
<1>14. CASE WriteRedirect
  <2> DEFINE t == WriteTarget
             h == Head(pool.free_list)
  <2>1. call \in CallType /\ call.op = "write_block" /\ t \in Block
        /\ pool.ref_cnt[t] \in Nat /\ pool.ref_cnt[t] > 1
    BY <1>14 DEF WriteRedirect, WriteStart, CallOK, NoCall, Allocated, PoolOK, AnyPool
  <2>2. pool.free_list # <<>>
    BY <1>14 DEF WriteRedirect, CountExact, PoolOK, AnyPool
  <2>3. PoolOK(PopFreeHead(pool)) /\ h \in Block /\ pool.ref_cnt[h] = 0
        /\ PopFreeHead(pool).ref_cnt = [pool.ref_cnt EXCEPT ![h] = 1]
    BY <2>2, PopFreeHeadOK
  <2>4. PopFreeHead(pool).ref_cnt[t] = pool.ref_cnt[t]
    BY <2>1, <2>3 DEF PoolOK, AnyPool
  <2>5. pool' = [PopFreeHead(pool) EXCEPT !.ref_cnt[t] = pool.ref_cnt[t] - 1]
    BY <1>14, <2>4 DEF WriteRedirect
  <2>6. PoolOK(pool')
    <3>1. pool.ref_cnt[t] - 1 \in Nat \ {0} /\ PopFreeHead(pool).ref_cnt[t] # 0
      BY <2>1, <2>4
    <3> QED BY <2>1, <2>3, <2>5, <3>1, RecountOK
  <2>7. call' = [call EXCEPT !.got = <<h>>] /\ kv' = kv
    BY <1>14 DEF WriteRedirect
  <2>8. call' \in CallType /\ call'.op = "write_block" /\ call'.got = <<h>> /\ call'.arg = call.arg
        /\ call'.todo = call.todo
    <3>1. <<h>> \in Seq(Block)
      BY <2>3
    <3> HIDE DEF IInv, t, h
    <3> QED BY <2>1, <2>7, <3>1 DEF CallType
  <2>9. call.todo \in Nat
    BY <2>1 DEF CallOK, NoCall
  <2>10. WriteTarget' \in Block /\ call'.got[1] \in Block /\ call'.got # <<>>
    BY <2>1, <2>3, <2>8 DEF WriteTarget
  <2> QED BY <2>6, <2>7, <2>8, <2>9, <2>10 DEF CallOK
<1>15. CASE CopyLayer
  <2>1. call \in CallType /\ call.op = "write_block" /\ call.got # <<>>
        /\ call.todo \in Nat /\ WriteTarget \in Block /\ call.got[1] \in Block
    BY <1>15 DEF CopyLayer, Copying, CallOK, NoCall
  <2>2. call' = [call EXCEPT !.todo = call.todo + 1] /\ pool' = pool
        /\ kv' = [kv EXCEPT ![call.todo][call.got[1]] = kv[call.todo][WriteTarget]]
    BY <1>15 DEF CopyLayer
  <2>3. kv' \in [Layer -> [Block -> Block]]
    <3>1. call.todo \in Layer
      BY <1>15, <2>1, BlockManagerAssumption DEF CopyLayer, Layer
    <3> QED BY <2>1, <2>2, <3>1
  <2>4. call' \in CallType /\ call'.op = "write_block" /\ call'.todo \in Nat
        /\ call'.got = call.got /\ call'.arg = call.arg
    <3>1. call.todo + 1 \in Nat /\ call.todo + 1 \in Int \cup Seq(Int)
      BY <2>1
    <3>2. call' \in CallType
      BY <2>1, <2>2, <3>1 DEF CallType
    <3>3. /\ call'.op = call.op /\ call'.todo = call.todo + 1
          /\ call'.got = call.got /\ call'.arg = call.arg
      BY <2>1, <2>2 DEF CallType
    <3> QED BY <2>1, <3>1, <3>2, <3>3
  <2> QED BY <2>1, <2>2, <2>3, <2>4 DEF CallOK, WriteTarget
<1>16. CASE WriteReturn
  BY <1>16, EndInv DEF WriteReturn
<1>17. CASE CopyFails
  BY <1>17, EndInv DEF CopyFails
<1>18. CASE UNCHANGED vars
  BY <1>18 DEF vars, CallOK, WriteTarget
<1> QED
  BY <1>1, <1>2, <1>3, <1>4, <1>5, <1>6, <1>7, <1>8, <1>9, <1>10, <1>11, <1>12,
     <1>13, <1>14, <1>15, <1>16, <1>17, <1>18 DEF Next, CallAny, Step

-----------------------------------------------------------------------------
(* The results.                                                            *)

\* It holds in every state.
LEMMA InvAlways == Spec => []IInv
<1> QED BY InitInv, NextInv, PTL DEF Spec

\* The type invariant.
THEOREM TypeCorrect == Spec => []TypeOK
<1>1. IInv => TypeOK
  BY AllocatedCount DEF IInv, PoolOK, AnyPool, CallOK, CallType, TypeOK
<1> QED BY <1>1, InvAlways, PTL

\* After any calls, thrown ones included, and between any two iterations, the
\* free list holds exactly the unreferenced blocks, each once, and num_free()
\* is its length, and num_allocated() the number of referenced ones.
THEOREM PoolAlwaysConsistent == Spec => []PoolConsistent
<1>1. TypeOK /\ IInv => PoolConsistent
  BY AllocatedCount DEF IInv, PoolOK, AnyPool, PoolConsistent
<1> QED BY <1>1, InvAlways, TypeCorrect, PTL

\* The "free list empty" throw of pop_free_head is dead code under alloc.
THEOREM AllocAlwaysFinds == Spec => []AllocNeverRunsDry
<1>1. IInv => AllocNeverRunsDry
  BY NumBlocksAssumption
  DEF IInv, CallOK, NoCall, AllocNeverRunsDry, AllocAdmitted, PoolOK, AnyPool, CountExact, num_free
<1> QED BY <1>1, InvAlways, PTL

-----------------------------------------------------------------------------
(* What a call has done so far, in terms of the one-step calls of BlockPool. *)

\* free, ref and fork have done the ids they have consumed, as whole calls on
\* the pool they found.
FreedSoFar ==
  call.op = "free" =>
    /\ call.arg \in CallIds
    /\ \E k \in 0 .. Len(call.arg) :
         /\ call.todo = SubSeq(call.arg, k + 1, Len(call.arg))
         /\ Free(call.pre, SubSeq(call.arg, 1, k)) = Begun(pool)

RefdSoFar ==
  call.op \in {"ref", "fork"} =>
    /\ call.arg \in CallIds
    /\ \E k \in 0 .. Len(call.arg) :
         /\ call.todo = SubSeq(call.arg, k + 1, Len(call.arg))
         /\ Ref(call.pre, SubSeq(call.arg, 1, k)) = Begun(pool)

\* alloc has taken as many blocks as an alloc of the blocks it has popped.
AllocSoFar ==
  call.op = "alloc" =>
    /\ call.arg = <<call.arg[1]>> /\ call.arg[1] \in CallCounts
    /\ call.todo + Len(call.got) = call.arg[1]
    /\ Alloc(call.pre, Len(call.got)) = [ok |-> TRUE, pool |-> pool, ids |-> call.got]

\* write_block has redirected the write before it copies a layer, to a block
\* that is not the one it copies.
WriteSoFar ==
  call.op = "write_block" =>
    /\ call.arg = <<call.arg[1]>> /\ call.arg[1] \in -1 .. NumBlocks
    /\ call.got = <<>> => call.todo = 0
    /\ call.got # <<>> =>
         /\ WriteBlock(call.pre, WriteTarget) = [ok |-> TRUE, pool |-> pool, ids |-> call.got]
         /\ call.got[1] # WriteTarget

\* The layers before todo have been copied, the others not yet.
CopiedSoFar ==
  IF Copying
  THEN /\ call.todo \in 0 .. NumLayers
       /\ kv = [l \in Layer |-> IF l < call.todo
                                THEN [OwnKv[l] EXCEPT ![call.got[1]] = WriteTarget] ELSE OwnKv[l]]
  ELSE kv = OwnKv

SoFar ==
  /\ ~Idle => PoolOK(call.pre)
  /\ FreedSoFar /\ RefdSoFar /\ AllocSoFar /\ WriteSoFar /\ CopiedSoFar

\* No call is under way at first.
LEMMA InitSoFar == Init => SoFar
<1> SUFFICES ASSUME Init PROVE SoFar
  OBVIOUS
<1>1. call.op = "none" /\ kv = OwnKv
  BY DEF Init, NoCall
<1> QED
  BY <1>1 DEF SoFar, Idle, FreedSoFar, RefdSoFar, AllocSoFar, WriteSoFar, CopiedSoFar, Copying

\* A call that ends leaves nothing to say of it.
LEMMA EndSoFar ==
  ASSUME NEW ok, NEW ids, End(ok, ids)
  PROVE  SoFar'
<1>1. call'.op = "none" /\ kv' = OwnKv
  BY DEF End, NoCall
<1> QED
  BY <1>1 DEF SoFar, Idle, FreedSoFar, RefdSoFar, AllocSoFar, WriteSoFar, CopiedSoFar, Copying

\* The ids of a call, of which k are done.
LEMMA IdsSplit ==
  ASSUME NEW s \in Seq(Int), NEW k \in 0 .. Len(s)
  PROVE  /\ SubSeq(s, 1, 0) = <<>> /\ SubSeq(s, 1, Len(s)) = s
         /\ SubSeq(s, 1, k) \in Seq(Int) /\ SubSeq(s, k + 1, Len(s)) \in Seq(Int)
         /\ s = SubSeq(s, 1, k) \o SubSeq(s, k + 1, Len(s))
         /\ SubSeq(s, k + 1, Len(s)) = <<>> => k = Len(s)
         /\ SubSeq(s, k + 1, Len(s)) # <<>> =>
              /\ k + 1 \in 0 .. Len(s) /\ s[k + 1] \in Int
              /\ Head(SubSeq(s, k + 1, Len(s))) = s[k + 1]
              /\ Tail(SubSeq(s, k + 1, Len(s))) = SubSeq(s, (k + 1) + 1, Len(s))
              /\ SubSeq(s, 1, k + 1) = Append(SubSeq(s, 1, k), s[k + 1])
<1> DEFINE r == SubSeq(s, k + 1, Len(s))
<1>1. r \in Seq(Int) /\ Len(r) = Len(s) - k
  OBVIOUS
<1>2. r = <<>> => k = Len(s)
  <2> HIDE DEF r
  <2> QED BY <1>1
<1>3. r # <<>> => k + 1 \in 1 .. Len(s)
  <2> HIDE DEF r
  <2> QED BY <1>1
<1>4. ASSUME r # <<>>
      PROVE  /\ k + 1 \in 0 .. Len(s) /\ s[k + 1] \in Int
             /\ SubSeq(s, 1, k + 1) = Append(SubSeq(s, 1, k), s[k + 1])
             /\ Tail(r) = SubSeq(s, (k + 1) + 1, Len(s))
             /\ Head(r) = s[k + 1]
  <2>1. k + 1 \in 1 .. Len(s)
    BY <1>3, <1>4
  <2>2. SubSeq(s, 1, k + 1) = Append(SubSeq(s, 1, k), s[k + 1])
    BY <2>1
  <2>3. Tail(r) = SubSeq(s, (k + 1) + 1, Len(s))
    BY <2>1
  <2>4. Head(r) = r[1] /\ r[1] = s[k + 1]
    BY <2>1
  <2> QED BY <2>1, <2>2, <2>3, <2>4
<1>5. s = SubSeq(s, 1, k) \o r
  <2>1. 1 \in 1 .. Len(s) + 1 /\ k \in 1 - 1 .. Len(s) /\ Len(s) \in k .. Len(s)
    OBVIOUS
  <2>2. SubSeq(s, 1, k) \o SubSeq(s, k + 1, Len(s)) = SubSeq(s, 1, Len(s))
    BY <2>1, ConcatAdjacentSubSeq
  <2> QED BY <2>2, SubSeqFull
<1>6. SubSeq(s, 1, 0) = <<>> /\ SubSeq(s, 1, Len(s)) = s /\ SubSeq(s, 1, k) \in Seq(Int)
  OBVIOUS
<1> QED BY <1>1, <1>2, <1>4, <1>5, <1>6

\* Every iteration of a call does as much more of the whole call.
LEMMA NextSoFar == IInv /\ SoFar /\ [Next]_vars => SoFar'
<1> SUFFICES ASSUME IInv, SoFar, [Next]_vars PROVE SoFar'
  OBVIOUS
<1>1. PoolOK(pool) /\ pool \in AnyPool
  BY DEF IInv, PoolOK
<1>2. ASSUME NEW n \in CallCounts, CallAlloc(n) PROVE SoFar'
  <2>1. /\ call' = [op |-> "alloc", arg |-> <<n>>, todo |-> n, got |-> <<>>, pre |-> pool]
        /\ pool' = pool /\ kv' = kv /\ Idle
    BY <1>2 DEF CallAlloc, Begin
  <2>2. n + Len(<<>>) = n
    BY BlockManagerAssumption
  <2>3. Alloc(pool, Len(<<>>)) = [ok |-> TRUE, pool |-> pool, ids |-> <<>>]
    BY <1>1, AllocNone DEF Begun
  <2>4. kv = OwnKv
    BY <2>1 DEF SoFar, CopiedSoFar, Copying, Idle
  <2> QED BY <1>1, <2>1, <2>2, <2>3, <2>4
          DEF SoFar, FreedSoFar, RefdSoFar, AllocSoFar, WriteSoFar, CopiedSoFar, Copying
<1>3. ASSUME NEW ids \in CallIds, CallFree(ids) PROVE SoFar'
  <2>1. /\ call' = [op |-> "free", arg |-> ids, todo |-> ids, got |-> <<>>, pre |-> pool]
        /\ pool' = pool /\ kv' = kv /\ Idle
    BY <1>3 DEF CallFree, Begin
  <2>2. ids \in Seq(Int) /\ 0 \in 0 .. Len(ids)
    BY BlockManagerAssumption
  <2>3. ids = SubSeq(ids, 0 + 1, Len(ids)) /\ SubSeq(ids, 1, 0) = <<>>
    BY <2>2, IdsSplit
  <2>4. Free(pool, SubSeq(ids, 1, 0)) = Begun(pool)
    BY <1>1, <2>3, FreeSteps
  <2>5. kv = OwnKv
    BY <2>1 DEF SoFar, CopiedSoFar, Copying, Idle
  <2> QED BY <1>1, <2>1, <2>2, <2>3, <2>4, <2>5
          DEF SoFar, FreedSoFar, RefdSoFar, AllocSoFar, WriteSoFar, CopiedSoFar, Copying
<1>4. ASSUME NEW ids \in CallIds, NEW op \in {"ref", "fork"}, CallRef(op, ids) PROVE SoFar'
  <2>1. /\ call' = [op |-> op, arg |-> ids, todo |-> ids, got |-> <<>>, pre |-> pool]
        /\ pool' = pool /\ kv' = kv /\ Idle
    BY <1>4 DEF CallRef, Begin
  <2>2. ids \in Seq(Int) /\ 0 \in 0 .. Len(ids)
    BY BlockManagerAssumption
  <2>3. ids = SubSeq(ids, 0 + 1, Len(ids)) /\ SubSeq(ids, 1, 0) = <<>>
    BY <2>2, IdsSplit
  <2>4. Ref(pool, SubSeq(ids, 1, 0)) = Begun(pool)
    BY <1>1, <2>3, RefSteps
  <2>5. kv = OwnKv
    BY <2>1 DEF SoFar, CopiedSoFar, Copying, Idle
  <2> QED BY <1>1, <2>1, <2>2, <2>3, <2>4, <2>5
          DEF SoFar, FreedSoFar, RefdSoFar, AllocSoFar, WriteSoFar, CopiedSoFar, Copying
<1>5. ASSUME NEW b \in -1 .. NumBlocks, CallWrite(b) PROVE SoFar'
  <2>1. /\ call' = [op |-> "write_block", arg |-> <<b>>, todo |-> 0, got |-> <<>>, pre |-> pool]
        /\ pool' = pool /\ kv' = kv /\ Idle
    BY <1>5 DEF CallWrite, Begin
  <2>2. kv = OwnKv
    BY <2>1 DEF SoFar, CopiedSoFar, Copying, Idle
  <2> QED BY <1>1, <2>1, <2>2
          DEF SoFar, FreedSoFar, RefdSoFar, AllocSoFar, WriteSoFar, CopiedSoFar, Copying
<1>6. CASE AllocPop
  <2> DEFINE h == Head(pool.free_list)
             n == Len(call.got)
  <2>1. call \in CallType /\ call.op = "alloc" /\ PoolOK(call.pre) /\ call.got \in Seq(Block)
        /\ n \in Nat /\ call.todo \in Int /\ AllocAdmitted
    BY <1>6 DEF AllocPop, AllocAdmitted, IInv, CallOK, CallType, NoCall, SoFar, Idle
  <2>2. pool.free_list # <<>>
    <3>1. CallOK /\ PoolOK(pool) /\ call # NoCall
      BY <1>6 DEF AllocPop, AllocAdmitted, IInv, NoCall
    <3>2. num_free(pool) = Len(pool.free_list)
      BY <3>1 DEF PoolOK, CountExact
    <3>3. call.todo > 0 /\ (call.got # <<>> \/ call.todo <= num_free(pool))
      BY <1>6, <2>1 DEF AllocPop, AllocAdmitted
    <3>4. call.got # <<>> => call.todo <= Len(pool.free_list)
      BY <2>1, <3>1 DEF CallOK
    <3>5. Len(pool.free_list) > 0
      BY <2>1, <3>2, <3>3, <3>4
    <3> QED BY <3>5
  <2>3. /\ pool' = PopFreeHead(pool) /\ kv' = kv
        /\ call' = [call EXCEPT !.todo = call.todo - 1, !.got = Append(call.got, h)]
    BY <1>6, <2>2 DEF AllocPop
  <2>4. /\ call.arg = <<call.arg[1]>> /\ call.arg[1] \in CallCounts
        /\ call.todo + n = call.arg[1]
        /\ Alloc(call.pre, n) = [ok |-> TRUE, pool |-> pool, ids |-> call.got]
    BY <2>1 DEF SoFar, AllocSoFar
  <2>5. n < Len(call.pre.free_list)
    <3>1. Len(call.pre.free_list) \in Nat /\ num_free(call.pre) = Len(call.pre.free_list)
      BY <2>1 DEF PoolOK, AnyPool, CountExact
    <3>2. n <= Len(call.pre.free_list)
      <4>1. ~(num_free(call.pre) < n)
        <5> HIDE DEF n
        <5> QED BY <2>4 DEF Alloc, Thrown
      <4> HIDE DEF n
      <4> QED BY <2>1, <3>1, <4>1
    <3>3. pool = Taken(call.pre, n)
      <4> HIDE DEF n
      <4>1. Alloc(call.pre, n) = [ok |-> TRUE, pool |-> Taken(call.pre, n), ids |-> SubSeq(call.pre.free_list, 1, n)]
        BY <2>1, <3>2, AllocTakes
      <4> QED BY <2>4, <4>1
    <3>4. n # Len(call.pre.free_list)
      <4>1. pool.free_list = SubSeq(call.pre.free_list, n + 1, Len(call.pre.free_list))
        BY <3>3 DEF Taken
      <4>2. call.pre.free_list \in Seq(Block)
        BY <2>1 DEF PoolOK, AnyPool
      <4> HIDE DEF n
      <4> QED BY <2>1, <2>2, <4>1, <4>2
    <3> HIDE DEF n
    <3> QED BY <2>1, <3>1, <3>2, <3>4
  <2>6. Alloc(call.pre, n + 1) = [ok |-> TRUE, pool |-> pool', ids |-> Append(call.got, h)]
    <3>1. Alloc(call.pre, n).pool = pool /\ Alloc(call.pre, n).ids = call.got
      BY <2>4
    <3> HIDE DEF n
    <3> QED BY <2>1, <2>3, <2>5, <3>1, AllocMore
  <2>7. /\ call'.op = "alloc" /\ call'.arg = call.arg /\ call'.todo = call.todo - 1
        /\ call'.got = Append(call.got, h) /\ call'.pre = call.pre
    <3> HIDE DEF h, n
    <3> QED BY <2>1, <2>3 DEF CallType
  <2>8. Len(Append(call.got, h)) = n + 1
    BY <2>1
  <2>9. call.todo - 1 + (n + 1) = call.arg[1]
    <3> HIDE DEF n
    <3> QED BY <2>1, <2>4
  <2>10. AllocSoFar'
    <3> HIDE DEF h, n
    <3> QED BY <2>4, <2>6, <2>7, <2>8, <2>9 DEF AllocSoFar
  <2>11. kv' = OwnKv
    BY <2>1, <2>3 DEF SoFar, CopiedSoFar, Copying
  <2> QED BY <2>1, <2>7, <2>10, <2>11
          DEF SoFar, FreedSoFar, RefdSoFar, WriteSoFar, CopiedSoFar, Copying
<1>7. CASE FreeStep
  <2> DEFINE b == Head(call.todo)
  <2>1. call \in CallType /\ call.op = "free" /\ PoolOK(call.pre) /\ call.pre \in AnyPool
        /\ call.todo # <<>> /\ Allocated(pool, b) /\ pool' = FreeOne(pool, b)
        /\ call' = [call EXCEPT !.todo = Tail(call.todo)] /\ kv' = kv
    BY <1>7 DEF FreeStep, IInv, CallOK, NoCall, SoFar, Idle, PoolOK
  <2>2. call.arg \in CallIds /\ call.arg \in Seq(Int)
    BY <2>1, BlockManagerAssumption DEF SoFar, FreedSoFar
  <2>3. PICK k \in 0 .. Len(call.arg) :
          /\ call.todo = SubSeq(call.arg, k + 1, Len(call.arg))
          /\ Free(call.pre, SubSeq(call.arg, 1, k)) = Begun(pool)
    BY <2>1 DEF SoFar, FreedSoFar
  <2> DEFINE done == SubSeq(call.arg, 1, k)
  <2>4. /\ k + 1 \in 0 .. Len(call.arg) /\ b = call.arg[k + 1] /\ b \in Int
        /\ Tail(call.todo) = SubSeq(call.arg, (k + 1) + 1, Len(call.arg))
        /\ SubSeq(call.arg, 1, k + 1) = Append(done, b) /\ done \in Seq(Int)
    <3>1. SubSeq(call.arg, k + 1, Len(call.arg)) # <<>>
      BY <2>1, <2>3
    <3>2. call.arg \in Seq(Int)
      BY <2>2
    <3>3. /\ k + 1 \in 0 .. Len(call.arg) /\ call.arg[k + 1] \in Int /\ done \in Seq(Int)
          /\ Head(SubSeq(call.arg, k + 1, Len(call.arg))) = call.arg[k + 1]
          /\ Tail(SubSeq(call.arg, k + 1, Len(call.arg))) = SubSeq(call.arg, (k + 1) + 1, Len(call.arg))
          /\ SubSeq(call.arg, 1, k + 1) = Append(done, call.arg[k + 1])
      BY <3>1, <3>2, IdsSplit
    <3> HIDE DEF done
    <3> QED BY <2>3, <3>3
  <2>5. Free(call.pre, Append(done, b)) = Begun(pool')
    <3>1. Free(call.pre, done) = Begun(pool)
      BY <2>3
    <3>2. Free(call.pre, Append(done, b)) = OneId(Free(call.pre, done), b, FreeOne(Free(call.pre, done).pool, b))
      <4> HIDE DEF done, b
      <4> QED BY <2>1, <2>4, FreeSteps
    <3>3. Begun(pool).pool = pool
      BY DEF Begun
    <3> HIDE DEF done, b
    <3> QED BY <2>1, <3>1, <3>2, <3>3, OneIdBegun
  <2>6. /\ call'.op = "free" /\ call'.arg = call.arg /\ call'.pre = call.pre
        /\ call'.todo = Tail(call.todo)
    BY <2>1 DEF CallType
  <2>7. FreedSoFar'
    <3> HIDE DEF done, b
    <3> QED BY <2>2, <2>4, <2>5, <2>6 DEF FreedSoFar
  <2>8. kv' = OwnKv
    BY <2>1 DEF SoFar, CopiedSoFar, Copying
  <2> QED BY <2>1, <2>6, <2>7, <2>8
          DEF SoFar, RefdSoFar, AllocSoFar, WriteSoFar, CopiedSoFar, Copying
<1>8. CASE RefStep
  <2> DEFINE b == Head(call.todo)
  <2>1. call \in CallType /\ call.op \in {"ref", "fork"} /\ PoolOK(call.pre) /\ call.pre \in AnyPool
        /\ call.todo # <<>> /\ Allocated(pool, b) /\ pool' = RefOne(pool, b)
        /\ call' = [call EXCEPT !.todo = Tail(call.todo)] /\ kv' = kv
    BY <1>8 DEF RefStep, IInv, CallOK, NoCall, SoFar, Idle, PoolOK
  <2>2. call.arg \in CallIds /\ call.arg \in Seq(Int)
    BY <2>1, BlockManagerAssumption DEF SoFar, RefdSoFar
  <2>3. PICK k \in 0 .. Len(call.arg) :
          /\ call.todo = SubSeq(call.arg, k + 1, Len(call.arg))
          /\ Ref(call.pre, SubSeq(call.arg, 1, k)) = Begun(pool)
    BY <2>1 DEF SoFar, RefdSoFar
  <2> DEFINE done == SubSeq(call.arg, 1, k)
  <2>4. /\ k + 1 \in 0 .. Len(call.arg) /\ b = call.arg[k + 1] /\ b \in Int
        /\ Tail(call.todo) = SubSeq(call.arg, (k + 1) + 1, Len(call.arg))
        /\ SubSeq(call.arg, 1, k + 1) = Append(done, b) /\ done \in Seq(Int)
    <3>1. SubSeq(call.arg, k + 1, Len(call.arg)) # <<>>
      BY <2>1, <2>3
    <3>2. call.arg \in Seq(Int)
      BY <2>2
    <3>3. /\ k + 1 \in 0 .. Len(call.arg) /\ call.arg[k + 1] \in Int /\ done \in Seq(Int)
          /\ Head(SubSeq(call.arg, k + 1, Len(call.arg))) = call.arg[k + 1]
          /\ Tail(SubSeq(call.arg, k + 1, Len(call.arg))) = SubSeq(call.arg, (k + 1) + 1, Len(call.arg))
          /\ SubSeq(call.arg, 1, k + 1) = Append(done, call.arg[k + 1])
      BY <3>1, <3>2, IdsSplit
    <3> HIDE DEF done
    <3> QED BY <2>3, <3>3
  <2>5. Ref(call.pre, Append(done, b)) = Begun(pool')
    <3>1. Ref(call.pre, done) = Begun(pool)
      BY <2>3
    <3>2. Ref(call.pre, Append(done, b)) = OneId(Ref(call.pre, done), b, RefOne(Ref(call.pre, done).pool, b))
      <4> HIDE DEF done, b
      <4> QED BY <2>1, <2>4, RefSteps
    <3>3. Begun(pool).pool = pool
      BY DEF Begun
    <3> HIDE DEF done, b
    <3> QED BY <2>1, <3>1, <3>2, <3>3, OneIdBegun
  <2>6. /\ call'.op = call.op /\ call'.arg = call.arg /\ call'.pre = call.pre
        /\ call'.todo = Tail(call.todo)
    BY <2>1 DEF CallType
  <2>7. RefdSoFar'
    <3> HIDE DEF done, b
    <3> QED BY <2>2, <2>4, <2>5, <2>6 DEF RefdSoFar
  <2>8. kv' = OwnKv
    BY <2>1 DEF SoFar, CopiedSoFar, Copying
  <2> QED BY <2>1, <2>6, <2>7, <2>8
          DEF SoFar, FreedSoFar, AllocSoFar, WriteSoFar, CopiedSoFar, Copying
<1>9. CASE WriteRedirect
  <2> DEFINE h == Head(pool.free_list)
  <2>1. /\ call \in CallType /\ call.op = "write_block" /\ call.got = <<>> /\ PoolOK(call.pre)
        /\ call.pre = pool /\ call.todo \in Nat
        /\ Allocated(pool, WriteTarget) /\ pool.ref_cnt[WriteTarget] > 1 /\ num_free(pool) >= 1
        /\ pool' = [PopFreeHead(pool) EXCEPT !.ref_cnt[WriteTarget] = @ - 1]
        /\ call' = [call EXCEPT !.got = <<h>>] /\ kv' = kv
    BY <1>9 DEF WriteRedirect, WriteStart, IInv, CallOK, NoCall, SoFar, Idle
  <2>2. call.arg = <<call.arg[1]>> /\ call.arg[1] \in -1 .. NumBlocks
    BY <2>1 DEF SoFar, WriteSoFar
  <2>3. WriteTarget \in Block /\ pool.ref_cnt[WriteTarget] \in Nat
    BY <1>1, <2>1 DEF Allocated, AnyPool
  <2>4. WriteBlock(pool, WriteTarget) = [ok |-> TRUE, pool |-> pool', ids |-> <<h>>]
    <3>1. num_free(pool) \in Int
      BY <1>1, NumBlocksAssumption DEF num_free, AnyPool
    <3>2. pool.ref_cnt[WriteTarget] # 1 /\ ~(num_free(pool) < 1)
      BY <2>1, <2>3, <3>1
    <3> QED BY <2>1, <3>2 DEF WriteBlock
  <2>5. h # WriteTarget
    <3>1. pool.free_list # <<>>
      BY <1>1, <2>1 DEF PoolOK, CountExact
    <3>2. pool.ref_cnt[h] = 0
      BY <1>1, <3>1, PopFreeHeadOK
    <3> QED BY <2>1, <3>2
  <2>6. /\ call'.op = "write_block" /\ call'.arg = call.arg /\ call'.pre = pool
        /\ call'.got = <<h>> /\ call'.todo = call.todo
    <3> HIDE DEF h
    <3> QED BY <2>1 DEF CallType
  <2>7. WriteSoFar'
    <3> HIDE DEF h
    <3> QED BY <2>2, <2>4, <2>5, <2>6 DEF WriteSoFar, WriteTarget
  <2>8. kv' = OwnKv
    BY <2>1 DEF SoFar, CopiedSoFar, Copying
  <2>9. call.todo = 0
    BY <2>1 DEF SoFar, WriteSoFar
  <2>10. CopiedSoFar'
    <3>1. \A l \in Layer : ~(l < 0)
      BY BlockManagerAssumption DEF Layer
    <3>2. OwnKv = [l \in Layer |-> OwnKv[l]]
      BY DEF OwnKv
    <3> QED BY <2>6, <2>8, <2>9, <3>1, <3>2, BlockManagerAssumption DEF CopiedSoFar, Copying
  <2> QED BY <2>1, <2>6, <2>7, <2>10
          DEF SoFar, FreedSoFar, RefdSoFar, AllocSoFar
<1>10. CASE CopyLayer
  <2>1. /\ call \in CallType /\ call.op = "write_block" /\ call.got # <<>> /\ PoolOK(call.pre)
        /\ WriteTarget \in Block /\ call.got[1] \in Block
        /\ call.todo \in 0 .. NumLayers /\ call.todo < NumLayers
        /\ kv' = [kv EXCEPT ![call.todo][call.got[1]] = kv[call.todo][WriteTarget]]
        /\ call' = [call EXCEPT !.todo = call.todo + 1] /\ pool' = pool
        /\ kv = [l \in Layer |-> IF l < call.todo
                                 THEN [OwnKv[l] EXCEPT ![call.got[1]] = WriteTarget] ELSE OwnKv[l]]
    BY <1>10 DEF CopyLayer, Copying, IInv, CallOK, NoCall, SoFar, CopiedSoFar, Idle
  <2>2. /\ call'.op = "write_block" /\ call'.arg = call.arg /\ call'.pre = call.pre
        /\ call'.got = call.got /\ call'.todo = call.todo + 1
    BY <2>1 DEF CallType
  <2>3. WriteSoFar' /\ WriteTarget' = WriteTarget
    BY <2>1, <2>2 DEF SoFar, WriteSoFar, WriteTarget
  <2>4. call.todo \in Layer /\ call.todo + 1 \in 0 .. NumLayers
    BY <2>1, BlockManagerAssumption DEF Layer
  <2>5. kv[call.todo] = OwnKv[call.todo] /\ OwnKv[call.todo][WriteTarget] = WriteTarget
    <3>1. ~(call.todo < call.todo)
      BY <2>1
    <3>2. kv[call.todo] = OwnKv[call.todo]
      BY <2>1, <2>4, <3>1
    <3>3. OwnKv[call.todo] = [b \in Block |-> b]
      BY <2>4 DEF OwnKv
    <3> QED BY <2>1, <3>2, <3>3
  <2>6. kv' = [l \in Layer |-> IF l < call.todo + 1
                               THEN [OwnKv[l] EXCEPT ![call.got[1]] = WriteTarget] ELSE OwnKv[l]]
    <3>1. kv' = [l \in Layer |-> IF l = call.todo THEN [OwnKv[l] EXCEPT ![call.got[1]] = WriteTarget]
                                                  ELSE kv[l]]
      BY <2>1, <2>4, <2>5
    <3>2. \A l \in Layer : l < call.todo + 1 <=> l < call.todo \/ l = call.todo
      BY <2>1, BlockManagerAssumption DEF Layer
    <3> QED BY <2>1, <3>1, <3>2
  <2>7. CopiedSoFar'
    BY <2>1, <2>2, <2>3, <2>4, <2>6 DEF CopiedSoFar, Copying
  <2> QED BY <2>1, <2>2, <2>3, <2>7
          DEF SoFar, FreedSoFar, RefdSoFar, AllocSoFar
<1>11. CASE AllocRefuse \/ AllocReturn \/ IdThrow \/ IdReturn \/ WriteThrow \/ WriteInPlace \/ WriteReturn \/ CopyFails
  BY <1>11, EndSoFar
  DEF AllocRefuse, AllocReturn, IdThrow, IdReturn, WriteThrow, WriteInPlace, WriteReturn, CopyFails
<1>12. CASE UNCHANGED vars
  BY <1>12 DEF vars, SoFar, Idle, FreedSoFar, RefdSoFar, AllocSoFar, WriteSoFar, CopiedSoFar, Copying, WriteTarget
<1> QED
  BY <1>2, <1>3, <1>4, <1>5, <1>6, <1>7, <1>8, <1>9, <1>10, <1>11, <1>12 DEF Next, CallAny, Step

\* What a call has done so far is known in every state.
LEMMA SoFarAlways == Spec => [](IInv /\ SoFar)
<1> QED BY InitInv, NextInv, InitSoFar, NextSoFar, PTL DEF Spec

\* When write_block returns, every layer of the block it answers has the bytes
\* of the block it was asked to write, and no other block has changed.
THEOREM RedirectAlwaysFull == Spec => RedirectIsFullCopy
<1>1. ASSUME IInv, SoFar, [Next]_vars
      PROVE  [(call.op = "write_block" /\ Idle' /\ ret'.ok)
               => \A l \in Layer : kv[l] = [OwnKv[l] EXCEPT ![ret'.ids[1]] = WriteTarget]]_vars
  <2> SUFFICES ASSUME Next, call.op = "write_block", Idle', ret'.ok, NEW l \in Layer
               PROVE  kv[l] = [OwnKv[l] EXCEPT ![ret'.ids[1]] = WriteTarget]
    BY <1>1
  <2>1. call \in CallType
    BY <1>1 DEF IInv, CallOK, NoCall
  <2>2. CASE WriteInPlace
    <3>1. ret'.ids[1] = WriteTarget /\ WriteTarget \in Block
      BY <2>2 DEF WriteInPlace, End, Allocated
    <3>2. kv = OwnKv
      BY <1>1, <2>2 DEF WriteInPlace, WriteStart, SoFar, CopiedSoFar, Copying
    <3>3. OwnKv[l] = [b \in Block |-> b]
      BY DEF OwnKv
    <3> QED BY <3>1, <3>2, <3>3
  <2>3. CASE WriteReturn
    <3>1. ret'.ids = call.got
      BY <2>3 DEF WriteReturn, End
    <3>2. l < call.todo
      BY <2>3, BlockManagerAssumption DEF WriteReturn, Layer
    <3>3. kv = [m \in Layer |-> IF m < call.todo
                                THEN [OwnKv[m] EXCEPT ![call.got[1]] = WriteTarget] ELSE OwnKv[m]]
      BY <1>1, <2>3 DEF WriteReturn, SoFar, CopiedSoFar
    <3> QED BY <3>1, <3>2, <3>3
  <2>4. ~CallAny
    BY DEF CallAny, CallAlloc, CallFree, CallRef, CallWrite, Idle
  <2>5. ~AllocRefuse /\ ~AllocPop /\ ~AllocReturn
    BY DEF AllocRefuse, AllocPop, AllocReturn, AllocAdmitted
  <2>6. ~FreeStep /\ ~RefStep /\ ~IdThrow /\ ~IdReturn
    BY DEF FreeStep, RefStep, IdThrow, IdReturn
  <2>7. ~WriteThrow /\ ~CopyFails
    BY DEF WriteThrow, CopyFails, End
  <2>8. ~WriteRedirect /\ ~CopyLayer
    BY <2>1 DEF WriteRedirect, CopyLayer, WriteStart, Copying, Idle, CallType
  <2> QED BY <2>2, <2>3, <2>4, <2>5, <2>6, <2>7, <2>8 DEF Next, Step
<1> QED BY <1>1, SoFarAlways, PTL DEF Spec, RedirectIsFullCopy

\* A write_block that was redirected: its target was shared, and a block was popped.
LEMMA RedirectIs ==
  ASSUME NEW p, PoolOK(p), NEW b, WriteBlock(p, b).ok, WriteBlock(p, b).ids[1] # b
  PROVE  /\ Redirects(p, b)
         /\ WriteBlock(p, b).pool.ref_cnt = [p.ref_cnt EXCEPT ![b] = @ - 1, ![Head(p.free_list)] = 1]
         /\ WriteBlock(p, b).pool.free_list = Tail(p.free_list)
<1> DEFINE r == WriteBlock(p, b)
           q == [PopFreeHead(p) EXCEPT !.ref_cnt[b] = @ - 1]
           h == Head(p.free_list)
<1>1. Allocated(p, b) /\ p.ref_cnt[b] # 1 /\ ~(num_free(p) < 1)
  BY DEF WriteBlock, Thrown
<1>2. p \in AnyPool /\ b \in Block /\ p.ref_cnt[b] \in Nat /\ p.ref_cnt[b] >= 1
  BY <1>1 DEF PoolOK, AnyPool, Allocated
<1>3. p.ref_cnt[b] > 1
  BY <1>1, <1>2
<1>4. p.free_list # <<>>
  BY <1>1 DEF PoolOK, CountExact
<1>5. h \in Block /\ h # b
  <2>1. h \in Block /\ p.ref_cnt[h] = 0
    BY <1>4, PopFreeHeadOK
  <2> QED BY <1>3, <2>1
<1>6. r.pool = q
  BY <1>1 DEF WriteBlock
<1>7. q.ref_cnt = [p.ref_cnt EXCEPT ![b] = @ - 1, ![h] = 1] /\ q.free_list = Tail(p.free_list)
  BY <1>2, <1>5 DEF PopFreeHead, AnyPool
<1> QED BY <1>3, <1>6, <1>7 DEF Redirects

\* An alloc that throws leaves the pool as it found it, and so does a write_block
\* the pool refuses; one whose copy the device fails costs the block it had
\* popped and one reference of its target, and nothing else.
THEOREM FailedTakeAlwaysAccounted == Spec => FailedTakeAccounted
<1> DEFINE Accounted ==
             IF Copying
             THEN /\ pool'.ref_cnt = [call.pre.ref_cnt EXCEPT ![WriteTarget] = @ - 1,
                                                              ![Head(call.pre.free_list)] = 1]
                  /\ pool'.free_list = Tail(call.pre.free_list)
             ELSE pool' = call.pre
<1>1. ASSUME IInv, SoFar, [Next]_vars
      PROVE  [(call.op \in {"alloc", "write_block"} /\ Idle' /\ ~ret'.ok) => Accounted]_vars
  <2> SUFFICES ASSUME Next, call.op \in {"alloc", "write_block"}, Idle', ~ret'.ok
               PROVE  Accounted
    BY <1>1
  <2>1. call \in CallType /\ ~Idle
    BY <1>1 DEF IInv, CallOK, NoCall, Idle
  <2>2. CASE AllocRefuse
    <3>1. pool' = call.pre /\ ~Copying
      BY <1>1, <2>1, <2>2 DEF AllocRefuse, Copying, IInv, CallOK, NoCall
    <3> QED BY <3>1
  <2>3. CASE WriteThrow
    <3>1. pool' = call.pre /\ ~Copying
      BY <1>1, <2>1, <2>3 DEF WriteThrow, WriteStart, Copying, IInv, CallOK, NoCall
    <3> QED BY <3>1
  <2>4. CASE CopyFails
    <3>1. Copying /\ call.op = "write_block" /\ call.got # <<>> /\ pool' = pool /\ PoolOK(call.pre)
      BY <1>1, <2>1, <2>4 DEF CopyFails, Copying, SoFar
    <3>2. /\ WriteBlock(call.pre, WriteTarget) = [ok |-> TRUE, pool |-> pool, ids |-> call.got]
          /\ call.got[1] # WriteTarget
      BY <1>1, <3>1 DEF SoFar, WriteSoFar
    <3>3. WriteBlock(call.pre, WriteTarget).ok /\ WriteBlock(call.pre, WriteTarget).ids[1] # WriteTarget
          /\ WriteBlock(call.pre, WriteTarget).pool = pool
      BY <3>2
    <3> QED BY <3>1, <3>3, RedirectIs
  <2>5. ~AllocPop
    <3>1. SUFFICES ASSUME AllocPop PROVE FALSE
      OBVIOUS
    <3>2. pool.free_list # <<>>
      BY <1>1, <3>1, NumBlocksAssumption
      DEF AllocPop, AllocAdmitted, IInv, CallOK, NoCall, PoolOK, AnyPool, CountExact, num_free
    <3>3. call'.op = "alloc"
      BY <3>1, <3>2, <2>1 DEF AllocPop, AllocAdmitted, CallType
    <3> QED BY <3>3 DEF Idle
  <2>6. ~CallAny
    BY DEF CallAny, CallAlloc, CallFree, CallRef, CallWrite, Idle
  <2>7. ~AllocReturn /\ ~WriteReturn /\ ~WriteInPlace
    BY DEF AllocReturn, WriteReturn, WriteInPlace, End
  <2>8. ~FreeStep /\ ~RefStep /\ ~IdThrow /\ ~IdReturn
    BY DEF FreeStep, RefStep, IdThrow, IdReturn
  <2>9. ~WriteRedirect /\ ~CopyLayer
    BY <2>1 DEF WriteRedirect, CopyLayer, WriteStart, Copying, Idle, CallType
  <2> QED BY <2>2, <2>3, <2>4, <2>5, <2>6, <2>7, <2>8, <2>9 DEF Next, Step
<1> QED BY <1>1, SoFarAlways, PTL DEF Spec, FailedTakeAccounted

-----------------------------------------------------------------------------
(* Refinement: run one iteration at a time, each call does what BlockPool   *)
(* says it does in one step.                                               *)

\* The operators of BlockPoolSpec's copy of BlockPool are BlockPool's.
LEMMA SamePool0 == Atomic!Pool0 = Pool0
<1> QED BY DEF Atomic!Pool0, Pool0, Atomic!Block, Block

\* alloc is the same operator in both copies of BlockPool.
LEMMA SameAlloc ==
  ASSUME NEW p, NEW n
  PROVE  Atomic!Alloc(p, n) = Alloc(p, n)
<1> QED
  BY DEF Atomic!Alloc, Alloc, Atomic!num_free, num_free, Atomic!Thrown, Thrown,
         Atomic!Contains, Contains, Atomic!Block, Block

\* So is free.
LEMMA SameFree ==
  ASSUME NEW p, NEW ids
  PROVE  Atomic!Free(p, ids) = Free(p, ids)
<1> QED
  BY DEF Atomic!Free, Free, Atomic!FoldLeft, FoldLeft, Atomic!MapThenFoldSet, MapThenFoldSet,
         Atomic!Max, Max, Atomic!OneId, OneId, Atomic!FreeOne, FreeOne, Atomic!PushFreeHead, PushFreeHead,
         Atomic!Begun, Begun, Atomic!Thrown, Thrown, Atomic!Allocated, Allocated, Atomic!Block, Block

\* So is ref.
LEMMA SameRef ==
  ASSUME NEW p, NEW ids
  PROVE  Atomic!Ref(p, ids) = Ref(p, ids)
<1> QED
  BY DEF Atomic!Ref, Ref, Atomic!FoldLeft, FoldLeft, Atomic!MapThenFoldSet, MapThenFoldSet,
         Atomic!Max, Max, Atomic!OneId, OneId, Atomic!RefOne, RefOne,
         Atomic!Begun, Begun, Atomic!Thrown, Thrown, Atomic!Allocated, Allocated, Atomic!Block, Block

\* So is fork.
LEMMA SameFork ==
  ASSUME NEW p, NEW ids
  PROVE  Atomic!Fork(p, ids) = Fork(p, ids)
<1> QED BY SameRef DEF Atomic!Fork, Fork

\* So is write_block.
LEMMA SameWriteBlock ==
  ASSUME NEW p, NEW b
  PROVE  Atomic!WriteBlock(p, b) = WriteBlock(p, b)
<1> QED
  BY DEF Atomic!WriteBlock, WriteBlock, Atomic!Allocated, Allocated, Atomic!Block, Block,
         Atomic!Thrown, Thrown, Atomic!num_free, num_free, Atomic!PopFreeHead, PopFreeHead

\* So is a write_block that loses its block.
LEMMA SameWriteBlockLost ==
  ASSUME NEW p, NEW b
  PROVE  Atomic!WriteBlockLost(p, b) = WriteBlockLost(p, b) /\ (Atomic!Redirects(p, b) <=> Redirects(p, b))
<1> QED
  BY SameWriteBlock DEF Atomic!WriteBlockLost, WriteBlockLost, Atomic!Redirects, Redirects, Atomic!Thrown, Thrown

\* The pool as the callers see it.
SeenPool == IF Idle THEN pool ELSE call.pre

\* A step that ends a call, with what the whole call answers.
LEMMA AnswerStep ==
  ASSUME NEW r, NEW ok, NEW ids, ~Idle, End(ok, ids), r = [ok |-> ok, pool |-> pool', ids |-> ids]
  PROVE  Atomic!Answer(call.op, r)
<1>1. Idle' /\ ret' = [op |-> call.op, ok |-> ok, ids |-> ids]
  BY DEF End, NoCall, Idle
<1> QED BY <1>1 DEF Atomic!Answer, Idle

\* The steps that end alloc.
LEMMA AllocEnds ==
  ASSUME IInv, SoFar, AllocRefuse \/ AllocReturn
  PROVE  \E n \in CallCounts : Atomic!Answer("alloc", Atomic!Alloc(call.pre, n))
<1> DEFINE n == call.arg[1]
<1>1. /\ ~Idle /\ call.op = "alloc" /\ PoolOK(call.pre) /\ n \in CallCounts /\ n \in Int
      /\ call.todo + Len(call.got) = n /\ call.todo \in Int /\ call.got \in Seq(Block)
      /\ Alloc(call.pre, Len(call.got)) = [ok |-> TRUE, pool |-> pool, ids |-> call.got]
  <2>1. ~Idle /\ call.op = "alloc"
    BY DEF AllocRefuse, AllocReturn, AllocAdmitted, Idle
  <2>2. /\ PoolOK(call.pre) /\ n \in CallCounts
        /\ call.todo + Len(call.got) = n
        /\ Alloc(call.pre, Len(call.got)) = [ok |-> TRUE, pool |-> pool, ids |-> call.got]
    BY <2>1 DEF SoFar, AllocSoFar
  <2>3. call.todo \in Int /\ call.got \in Seq(Block)
    BY <2>1 DEF IInv, CallOK, CallType, NoCall
  <2> QED BY <2>1, <2>2, <2>3, BlockManagerAssumption
<1>2. CASE AllocRefuse
  <2>1. /\ call.got = <<>> /\ pool = call.pre /\ pool' = pool /\ End(FALSE, <<>>)
        /\ (call.todo < 0 \/ num_free(pool) < call.todo)
    <3>1. /\ call.got = <<>> /\ pool' = pool /\ End(FALSE, <<>>)
          /\ (call.todo < 0 \/ num_free(pool) < call.todo)
      BY <1>2 DEF AllocRefuse
    <3>2. pool = call.pre
      BY <1>1, <3>1 DEF IInv, CallOK, NoCall
    <3> QED BY <3>1, <3>2
  <2>2. call.todo = n
    BY <1>1, <2>1
  <2>3. Alloc(call.pre, n) = [ok |-> FALSE, pool |-> pool', ids |-> <<>>]
    BY <2>1, <2>2 DEF Alloc, Thrown
  <2>4. Atomic!Answer(call.op, Alloc(call.pre, n))
    <3> HIDE DEF n
    <3> QED BY <1>1, <2>1, <2>3, AnswerStep
  <2> HIDE DEF n
  <2> QED BY <1>1, <2>4, SameAlloc
<1>3. CASE AllocReturn
  <2>1. call.todo = 0 /\ pool' = pool /\ End(TRUE, call.got)
    BY <1>3 DEF AllocReturn
  <2>2. Len(call.got) = n
    BY <1>1, <2>1
  <2>3. Alloc(call.pre, n) = [ok |-> TRUE, pool |-> pool', ids |-> call.got]
    BY <1>1, <2>1, <2>2
  <2>4. Atomic!Answer(call.op, Alloc(call.pre, n))
    <3> HIDE DEF n
    <3> QED BY <1>1, <2>1, <2>3, AnswerStep
  <2> HIDE DEF n
  <2> QED BY <1>1, <2>4, SameAlloc
<1> QED BY <1>2, <1>3

\* The steps that end free.
LEMMA FreeEnds ==
  ASSUME IInv, SoFar, IdThrow \/ IdReturn, call.op = "free"
  PROVE  \E ids \in CallIds : Atomic!Answer("free", Atomic!Free(call.pre, ids))
<1> DEFINE s == call.arg
<1>1. ~Idle /\ call.pre \in AnyPool /\ s \in CallIds /\ s \in Seq(Int) /\ pool' = pool
  BY BlockManagerAssumption DEF Idle, SoFar, FreedSoFar, PoolOK, IdThrow, IdReturn
<1>2. PICK k \in 0 .. Len(s) :
        /\ call.todo = SubSeq(s, k + 1, Len(s))
        /\ Free(call.pre, SubSeq(s, 1, k)) = Begun(pool)
  BY DEF SoFar, FreedSoFar
<1> HIDE DEF s
<1>3. CASE IdThrow
  <2> DEFINE b    == s[k + 1]
             done == SubSeq(s, 1, k)
             rest == SubSeq(s, (k + 1) + 1, Len(s))
  <2>1. SubSeq(s, k + 1, Len(s)) # <<>> /\ ~Allocated(pool, Head(call.todo)) /\ End(FALSE, <<>>)
    BY <1>2, <1>3 DEF IdThrow
  <2>2. k + 1 \in 0 .. Len(s) /\ b \in Int /\ done \in Seq(Int) /\ Head(call.todo) = b
        /\ SubSeq(s, 1, k + 1) = Append(done, b)
    <3>1. s \in Seq(Int) /\ k \in 0 .. Len(s) /\ call.todo = SubSeq(s, k + 1, Len(s))
      BY <1>1, <1>2
    <3>2. done \in Seq(Int)
      BY <3>1, IdsSplit
    <3>3. /\ k + 1 \in 0 .. Len(s) /\ b \in Int
          /\ Head(SubSeq(s, k + 1, Len(s))) = b
          /\ SubSeq(s, 1, k + 1) = Append(done, b)
      BY <3>1, <2>1, IdsSplit
    <3> HIDE DEF b, done
    <3> QED BY <3>1, <3>2, <3>3
  <2>3. s = SubSeq(s, 1, k + 1) \o rest /\ rest \in Seq(Int)
    BY <1>1, <2>2, IdsSplit
  <2>4. Free(call.pre, Append(done, b)) = OneId(Free(call.pre, done), b, FreeOne(Free(call.pre, done).pool, b))
    <3> HIDE DEF done, b
    <3> QED BY <1>1, <2>2, FreeSteps
  <2>5. Free(call.pre, done) = Begun(pool) /\ Begun(pool).pool = pool
    BY <1>2 DEF Begun
  <2>6. Free(call.pre, Append(done, b)) = Thrown(pool)
    <3> HIDE DEF done, b
    <3> QED BY <2>1, <2>2, <2>4, <2>5, OneIdBegun
  <2>7. Append(done, b) \in Seq(Int)
    BY <2>2
  <2>8. Free(call.pre, s) = Thrown(pool)
    <3> DEFINE failed == Append(done, b)
    <3>1. failed \in Seq(Int) /\ s = failed \o rest
      BY <2>2, <2>3, <2>7
    <3>2. rest \in Seq(Int)
      BY <2>3
    <3>3. Free(call.pre, failed) = Thrown(pool)
      BY <2>6
    <3>4. ~Free(call.pre, failed).ok
      BY <2>6 DEF Thrown
    <3>5. failed \in Seq(Int)
      BY <2>7
    <3>6. call.pre \in AnyPool
      BY <1>1
    <3> HIDE DEF failed, rest
    <3>7. Free(call.pre, failed \o rest) = Free(call.pre, failed)
      BY <3>2, <3>4, <3>5, <3>6, FreeThrown
    <3> QED BY <3>1, <3>3, <3>7
  <2>9. Atomic!Answer(call.op, Free(call.pre, s))
    <3>1. Free(call.pre, s) = [ok |-> FALSE, pool |-> pool', ids |-> <<>>]
      BY <1>1, <2>8 DEF Thrown
    <3> QED BY <1>1, <2>1, <3>1, AnswerStep
  <2> QED BY <1>1, <2>9, SameFree
<1>4. CASE IdReturn
  <2>1. SubSeq(s, k + 1, Len(s)) = <<>> /\ End(TRUE, <<>>)
    BY <1>2, <1>4 DEF IdReturn
  <2>2. SubSeq(s, 1, k) = s
    BY <1>1, <2>1, IdsSplit
  <2>3. Free(call.pre, s) = [ok |-> TRUE, pool |-> pool', ids |-> <<>>]
    BY <1>1, <1>2, <2>2 DEF Begun
  <2>4. Atomic!Answer(call.op, Free(call.pre, s))
    BY <1>1, <2>1, <2>3, AnswerStep
  <2> QED BY <1>1, <2>4, SameFree
<1> QED BY <1>3, <1>4

\* The steps that end ref or fork, which takes the same references.
LEMMA RefEnds ==
  ASSUME IInv, SoFar, IdThrow \/ IdReturn, call.op \in {"ref", "fork"}
  PROVE  \/ \E ids \in CallIds : Atomic!Answer("ref", Atomic!Ref(call.pre, ids))
         \/ \E ids \in CallIds : Atomic!Answer("fork", Atomic!Fork(call.pre, ids))
<1> DEFINE s == call.arg
           r == Ref(call.pre, s)
<1>1. ~Idle /\ call.pre \in AnyPool /\ s \in CallIds /\ s \in Seq(Int) /\ pool' = pool
  BY BlockManagerAssumption DEF Idle, SoFar, RefdSoFar, PoolOK, IdThrow, IdReturn
<1>2. PICK k \in 0 .. Len(s) :
        /\ call.todo = SubSeq(s, k + 1, Len(s))
        /\ Ref(call.pre, SubSeq(s, 1, k)) = Begun(pool)
  BY DEF SoFar, RefdSoFar
<1> HIDE DEF s
<1>3. CASE IdThrow
  <2> DEFINE b    == s[k + 1]
             done == SubSeq(s, 1, k)
             rest == SubSeq(s, (k + 1) + 1, Len(s))
             failed == Append(done, b)
  <2>1. SubSeq(s, k + 1, Len(s)) # <<>> /\ ~Allocated(pool, Head(call.todo)) /\ End(FALSE, <<>>)
    BY <1>2, <1>3 DEF IdThrow
  <2>2. k + 1 \in 0 .. Len(s) /\ b \in Int /\ done \in Seq(Int) /\ Head(call.todo) = b
        /\ SubSeq(s, 1, k + 1) = Append(done, b)
    <3>1. s \in Seq(Int) /\ k \in 0 .. Len(s) /\ call.todo = SubSeq(s, k + 1, Len(s))
      BY <1>1, <1>2
    <3>2. done \in Seq(Int)
      BY <3>1, IdsSplit
    <3>3. /\ k + 1 \in 0 .. Len(s) /\ b \in Int
          /\ Head(SubSeq(s, k + 1, Len(s))) = b
          /\ SubSeq(s, 1, k + 1) = Append(done, b)
      BY <3>1, <2>1, IdsSplit
    <3> HIDE DEF b, done
    <3> QED BY <3>1, <3>2, <3>3
  <2>3. s = SubSeq(s, 1, k + 1) \o rest /\ rest \in Seq(Int)
    BY <1>1, <2>2, IdsSplit
  <2>4. Ref(call.pre, Append(done, b)) = OneId(Ref(call.pre, done), b, RefOne(Ref(call.pre, done).pool, b))
    <3> HIDE DEF done, b
    <3> QED BY <1>1, <2>2, RefSteps
  <2>5. Ref(call.pre, done) = Begun(pool) /\ Begun(pool).pool = pool
    BY <1>2 DEF Begun
  <2>6. Ref(call.pre, Append(done, b)) = Thrown(pool)
    <3> HIDE DEF done, b
    <3> QED BY <2>1, <2>2, <2>4, <2>5, OneIdBegun
  <2>7. failed \in Seq(Int)
    BY <2>2
  <2>8. r = Thrown(pool)
    <3>1. s = failed \o rest
      BY <2>2, <2>3
    <3>2. rest \in Seq(Int)
      BY <2>3
    <3>3. Ref(call.pre, failed) = Thrown(pool)
      BY <2>6
    <3>4. ~Ref(call.pre, failed).ok
      BY <2>6 DEF Thrown
    <3>5. call.pre \in AnyPool
      BY <1>1
    <3> HIDE DEF failed, rest
    <3>6. Ref(call.pre, failed \o rest) = Ref(call.pre, failed)
      BY <2>7, <3>2, <3>4, <3>5, RefThrown
    <3> QED BY <3>1, <3>3, <3>6
  <2>9. r = [ok |-> FALSE, pool |-> pool', ids |-> <<>>]
    BY <1>1, <2>8 DEF Thrown
  <2> HIDE DEF r, failed, rest, done, b
  <2>10. Fork(call.pre, s) = r
    BY <2>9 DEF Fork, r
  <2>11. Atomic!Answer(call.op, r)
    BY <1>1, <2>1, <2>9, AnswerStep
  <2> QED BY <1>1, <2>10, <2>11, SameRef, SameFork DEF r
<1>4. CASE IdReturn
  <2>1. SubSeq(s, k + 1, Len(s)) = <<>> /\ End(TRUE, IF call.op = "fork" THEN s ELSE <<>>)
    BY <1>2, <1>4 DEF IdReturn, s
  <2>2. SubSeq(s, 1, k) = s
    BY <1>1, <2>1, IdsSplit
  <2>3. r = [ok |-> TRUE, pool |-> pool', ids |-> <<>>]
    BY <1>1, <1>2, <2>2 DEF Begun
  <2> HIDE DEF r
  <2>4. CASE call.op = "ref"
    <3>1. Atomic!Answer(call.op, r)
      BY <1>1, <2>1, <2>3, <2>4, AnswerStep
    <3> QED BY <1>1, <2>4, <3>1, SameRef DEF r
  <2>5. CASE call.op = "fork"
    <3>1. Fork(call.pre, s) = [ok |-> TRUE, pool |-> pool', ids |-> s]
      <4>1. r.ok
        BY <2>3
      <4>2. [r EXCEPT !.ids = s] = [ok |-> TRUE, pool |-> pool', ids |-> s]
        <5>1. PICK i : i = <<>>
          OBVIOUS
        <5>2. PICK o : o = TRUE
          OBVIOUS
        <5>3. r = [ok |-> o, pool |-> pool', ids |-> i]
              /\ [ok |-> TRUE, pool |-> pool', ids |-> s] = [ok |-> o, pool |-> pool', ids |-> s]
          BY <2>3, <5>1, <5>2, Zenon
        <5> QED BY ONLY <5>3
      <4> QED BY <4>1, <4>2 DEF Fork, r
    <3>2. End(TRUE, s)
      BY <2>1, <2>5
    <3>3. Atomic!Answer(call.op, Fork(call.pre, s))
      BY <1>1, <3>1, <3>2, AnswerStep
    <3> QED BY <1>1, <2>5, <3>3, SameFork
  <2> QED BY <2>4, <2>5
<1> QED BY <1>3, <1>4

\* The steps that end write_block.
LEMMA WriteEnds ==
  ASSUME IInv, SoFar, WriteThrow \/ WriteInPlace \/ WriteReturn
  PROVE  \E b \in -1 .. NumBlocks : Atomic!Answer("write_block", Atomic!WriteBlock(call.pre, b))
<1>1. call.op = "write_block" /\ ~Idle /\ pool' = pool
  BY DEF WriteThrow, WriteInPlace, WriteReturn, WriteStart, Copying, Idle
<1>2. WriteTarget \in -1 .. NumBlocks /\ pool \in AnyPool
  BY <1>1 DEF SoFar, WriteSoFar, WriteTarget, IInv, PoolOK
<1>3. CASE WriteThrow
  <2>1. call.got = <<>> /\ End(FALSE, <<>>)
        /\ (Allocated(pool, WriteTarget) => pool.ref_cnt[WriteTarget] > 1 /\ num_free(pool) < 1)
    BY <1>3 DEF WriteThrow, WriteStart
  <2>2. call.pre = pool
    BY <1>1, <2>1 DEF IInv, CallOK, NoCall
  <2>3. WriteBlock(call.pre, WriteTarget) = Thrown(pool)
    <3>1. Allocated(pool, WriteTarget) => pool.ref_cnt[WriteTarget] # 1
      <4>1. Allocated(pool, WriteTarget) => pool.ref_cnt[WriteTarget] \in Nat
        BY <1>2 DEF Allocated, AnyPool
      <4> QED BY <2>1, <4>1
    <3> QED BY <2>1, <2>2, <3>1 DEF WriteBlock
  <2>4. WriteBlock(call.pre, WriteTarget) = [ok |-> FALSE, pool |-> pool', ids |-> <<>>]
    BY <1>1, <2>3 DEF Thrown
  <2>5. Atomic!Answer(call.op, WriteBlock(call.pre, WriteTarget))
    BY <1>1, <2>1, <2>4, AnswerStep
  <2> QED BY <1>1, <1>2, <2>5, SameWriteBlock
<1>4. CASE WriteInPlace
  <2>1. call.got = <<>> /\ End(TRUE, <<WriteTarget>>)
        /\ Allocated(pool, WriteTarget) /\ pool.ref_cnt[WriteTarget] = 1
    BY <1>4 DEF WriteInPlace, WriteStart
  <2>2. call.pre = pool
    BY <1>1, <2>1 DEF IInv, CallOK, NoCall
  <2>3. WriteBlock(call.pre, WriteTarget) = [ok |-> TRUE, pool |-> pool', ids |-> <<WriteTarget>>]
    BY <1>1, <2>1, <2>2 DEF WriteBlock
  <2>4. Atomic!Answer(call.op, WriteBlock(call.pre, WriteTarget))
    BY <1>1, <2>1, <2>3, AnswerStep
  <2> QED BY <1>1, <1>2, <2>4, SameWriteBlock
<1>5. CASE WriteReturn
  <2>1. call.got # <<>> /\ End(TRUE, call.got)
    BY <1>5 DEF WriteReturn, Copying
  <2>2. WriteBlock(call.pre, WriteTarget) = [ok |-> TRUE, pool |-> pool', ids |-> call.got]
    BY <1>1, <2>1 DEF SoFar, WriteSoFar
  <2>3. Atomic!Answer(call.op, WriteBlock(call.pre, WriteTarget))
    BY <1>1, <2>1, <2>2, AnswerStep
  <2> QED BY <1>1, <1>2, <2>3, SameWriteBlock
<1> QED BY <1>3, <1>4, <1>5

\* The step that loses a block.
LEMMA CopyEnds ==
  ASSUME IInv, SoFar, CopyFails
  PROVE  \E b \in -1 .. NumBlocks :
           Atomic!Redirects(call.pre, b) /\ Atomic!Answer("write_block", Atomic!WriteBlockLost(call.pre, b))
<1>1. call.op = "write_block" /\ ~Idle /\ pool' = pool /\ call.got # <<>> /\ End(FALSE, <<>>)
  BY DEF CopyFails, Copying, Idle
<1>2. /\ WriteTarget \in -1 .. NumBlocks /\ PoolOK(call.pre)
      /\ WriteBlock(call.pre, WriteTarget) = [ok |-> TRUE, pool |-> pool, ids |-> call.got]
      /\ call.got[1] # WriteTarget
  BY <1>1 DEF SoFar, WriteSoFar, WriteTarget
<1>3. Redirects(call.pre, WriteTarget)
  <2>1. WriteBlock(call.pre, WriteTarget).ok /\ WriteBlock(call.pre, WriteTarget).ids[1] # WriteTarget
    BY <1>2
  <2> QED BY <1>2, <2>1, RedirectIs
<1>4. WriteBlockLost(call.pre, WriteTarget) = [ok |-> FALSE, pool |-> pool', ids |-> <<>>]
  BY <1>1, <1>2 DEF WriteBlockLost, Thrown
<1>5. Atomic!Answer(call.op, WriteBlockLost(call.pre, WriteTarget))
  BY <1>1, <1>4, AnswerStep
<1> QED BY <1>1, <1>2, <1>3, <1>5, SameWriteBlockLost

\* The steps in the middle of a call are not seen: the pool the callers see is
\* still the one the call found, and nothing is answered.
LEMMA MiddleSteps ==
  ASSUME IInv, SoFar,
         CallAny \/ AllocPop \/ FreeStep \/ RefStep \/ WriteRedirect \/ CopyLayer
  PROVE  SeenPool' = SeenPool /\ ret' = ret
<1>1. CASE CallAny
  <2>1. Idle /\ pool' = pool /\ ret' = ret /\ ~Idle' /\ call'.pre = pool
    BY <1>1 DEF CallAny, CallAlloc, CallFree, CallRef, CallWrite, Begin, Idle
  <2> QED BY <2>1 DEF SeenPool
<1>2. CASE AllocPop
  <2>1. call \in CallType /\ call.op = "alloc"
    BY <1>2 DEF AllocPop, AllocAdmitted, IInv, CallOK, NoCall
  <2>2. pool.free_list # <<>>
    BY <1>2, <2>1, NumBlocksAssumption
    DEF AllocPop, AllocAdmitted, IInv, CallOK, NoCall, PoolOK, AnyPool, CountExact, num_free
  <2>3. call' = [call EXCEPT !.todo = call.todo - 1, !.got = Append(call.got, Head(pool.free_list))]
        /\ ret' = ret
    BY <1>2, <2>2 DEF AllocPop
  <2>4. call'.op = call.op /\ call'.pre = call.pre
    BY <2>1, <2>3 DEF CallType
  <2> QED BY <2>1, <2>3, <2>4 DEF SeenPool, Idle
<1>3. CASE FreeStep \/ RefStep \/ CopyLayer \/ WriteRedirect
  <2>1. call \in CallType /\ ~Idle
    BY <1>3 DEF FreeStep, RefStep, CopyLayer, WriteRedirect, WriteStart, Copying, IInv, CallOK, NoCall, Idle
  <2>2. call'.op = call.op /\ call'.pre = call.pre /\ ret' = ret
    BY <1>3, <2>1 DEF FreeStep, RefStep, CopyLayer, WriteRedirect, CallType
  <2> QED BY <2>1, <2>2 DEF SeenPool, Idle
<1> QED BY <1>1, <1>2, <1>3

\* BlockManager, one loop iteration at a time, implements BlockPoolSpec, in
\* which each call is one step, thrown calls included, and one whose copy the
\* device failed, which costs a block and a reference.
THEOREM ImplementsAtomic == Spec => AtomicSpec
<1>1. Init => Atomic!Init
  BY SamePool0 DEF Init, Atomic!Init, NoRet, Idle, NoCall
<1>2. ASSUME IInv, SoFar, [Next]_vars
      PROVE  [Atomic!Next]_<<IF Idle THEN pool ELSE call.pre, ret>>
  <2>1. CASE UNCHANGED vars
    BY <2>1 DEF vars, Idle
  <2>2. CASE CallAny \/ AllocPop \/ FreeStep \/ RefStep \/ WriteRedirect \/ CopyLayer
    BY <1>2, <2>2, MiddleSteps DEF SeenPool
  <2>3. ASSUME ~Idle PROVE (IF Idle THEN pool ELSE call.pre) = call.pre
    BY <2>3
  <2>4. CASE AllocRefuse \/ AllocReturn
    <3>1. ~Idle
      BY <2>4 DEF AllocRefuse, AllocReturn, AllocAdmitted, Idle
    <3> QED BY <1>2, <2>3, <2>4, <3>1, AllocEnds DEF Atomic!Next
  <2>5. CASE IdThrow \/ IdReturn
    <3>1. ~Idle /\ call.op \in {"free", "ref", "fork"}
      BY <2>5 DEF IdThrow, IdReturn, Idle
    <3>2. call.op = "free" => \E ids \in CallIds : Atomic!Answer("free", Atomic!Free(call.pre, ids))
      BY <1>2, <2>5, FreeEnds
    <3>3. call.op \in {"ref", "fork"} =>
            \/ \E ids \in CallIds : Atomic!Answer("ref", Atomic!Ref(call.pre, ids))
            \/ \E ids \in CallIds : Atomic!Answer("fork", Atomic!Fork(call.pre, ids))
      BY <1>2, <2>5, RefEnds
    <3> QED BY <2>3, <3>1, <3>2, <3>3 DEF Atomic!Next
  <2>6. CASE WriteThrow \/ WriteInPlace \/ WriteReturn
    <3>1. ~Idle
      BY <2>6 DEF WriteThrow, WriteInPlace, WriteReturn, WriteStart, Copying, Idle
    <3> QED BY <1>2, <2>3, <2>6, <3>1, WriteEnds DEF Atomic!Next
  <2>7. CASE CopyFails
    <3>1. ~Idle
      BY <2>7 DEF CopyFails, Copying, Idle
    <3> QED BY <1>2, <2>3, <2>7, <3>1, CopyEnds DEF Atomic!Next
  <2> QED BY <1>2, <2>1, <2>2, <2>4, <2>5, <2>6, <2>7 DEF Next, Step
<1> QED BY <1>1, <1>2, SoFarAlways, PTL DEF Spec, AtomicSpec, Atomic!Spec
=============================================================================
