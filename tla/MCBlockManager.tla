--------------------------- MODULE MCBlockManager ---------------------------
(* BlockManager with a pool of three blocks and two layers.  Callers pass    *)
(* every table of up to two ids, the id one past the pool among them.        *)
EXTENDS BlockManager

MCCallIds    == BoundedSeq(0 .. NumBlocks, 2)
MCCallCounts == -1 .. NumBlocks + 1
=============================================================================
