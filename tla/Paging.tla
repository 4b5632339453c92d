------------------------------- MODULE Paging -------------------------------
(***************************************************************************)
(* What the prefix tree, the per-request caches and the scheduler share:   *)
(* the token capacity of a block and the arithmetic on it.                 *)
(***************************************************************************)
EXTENDS BlockPool, Loops

CONSTANTS BlockSize,      \* block_size_: tokens per block
          Junk            \* what a read of memory nobody wrote finds

\* block_manager.cpp:12 refuses a block size of zero or less.
ASSUME BlockSizeAssumption == BlockSize \in Nat \ {0}

\* The blocks n tokens need, and the tokens in whole blocks among n.
BlocksNeeded(n) == (n + BlockSize - 1) \div BlockSize
Aligned(n)      == (n \div BlockSize) * BlockSize
=============================================================================
