---------------------------- MODULE BlockPoolSpec ----------------------------
(***************************************************************************)
(* What xstar_cpp's BlockManager promises its callers: each call is one    *)
(* step on the pool, as the operators of BlockPool define it.  A           *)
(* write_block whose copy the device fails is a step too, and costs a      *)
(* block.                                                                  *)
(***************************************************************************)
EXTENDS BlockPool

CONSTANTS CallIds, CallCounts

VARIABLES pool, ret

Init == pool = Pool0 /\ ret = [op |-> "none", ok |-> TRUE, ids |-> <<>>]

\* The call took effect and answered its caller.
Answer(op, r) ==
  /\ pool' = r.pool
  /\ ret'  = [op |-> op, ok |-> r.ok, ids |-> r.ids]

Next ==
  \/ \E n \in CallCounts : Answer("alloc", Alloc(pool, n))
  \/ \E ids \in CallIds  : \/ Answer("free", Free(pool, ids))
                           \/ Answer("ref", Ref(pool, ids))
                           \/ Answer("fork", Fork(pool, ids))
  \/ \E b \in -1 .. NumBlocks :
       \/ Answer("write_block", WriteBlock(pool, b))
       \/ Redirects(pool, b) /\ Answer("write_block", WriteBlockLost(pool, b))

Spec == Init /\ [][Next]_<<pool, ret>>
=============================================================================
