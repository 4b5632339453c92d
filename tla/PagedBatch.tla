----------------------------- MODULE PagedBatch -----------------------------
(***************************************************************************)
(* What the multi-request transformer block hands to the attention         *)
(* kernels: the keys and values it writes to the block pool, and the block *)
(* tables and cumulated lengths through which they are read back.          *)
(*                                                                         *)
(* A cell of the pool is one token's K or V row of one head: the head      *)
(* dimension is left out.  Requests are numbered from 0 as in the code;    *)
(* tables, q and k are the block table, the tokens of the pass and the     *)
(* cursor after prepare_meta, by request.                                  *)
(***************************************************************************)
EXTENDS Integers, Sequences, FiniteSets, FiniteSetsExt, Functions, Loops

CONSTANTS BlockSize, NumBlocks, NumLayers, NumKVHeads,
          Junk            \* what a read of memory nobody wrote finds

ASSUME ShapeAssumption ==
  /\ BlockSize \in Nat \ {0} /\ NumBlocks \in Nat \ {0}
  /\ NumLayers \in Nat \ {0} /\ NumKVHeads \in Nat \ {0}

KVHead == 0 .. NumKVHeads - 1

BlockElems  == 2 * NumKVHeads * BlockSize
LayerStride == NumBlocks * BlockElems

\* The K rows of all heads come before the V rows in a block.
KCell(layer, block, head, slot) ==
  layer * LayerStride + block * BlockElems + head * BlockSize + slot
VCell(layer, block, head, slot) == KCell(layer, block, head, slot) + NumKVHeads * BlockSize

PoolCells == 0 .. NumLayers * LayerStride - 1

Cell(side, head, token) == [side |-> side, head |-> head, token |-> token]

\* One warp for each token writes the K and V rows of every head to its slot.
PagedWrite(pool, layer, tokens, slot_mapping) ==
  LET At(cell(_, _, _, _), i, h) ==
        cell(layer, slot_mapping[i] \div BlockSize, h, slot_mapping[i] % BlockSize)
      writes == {[at |-> At(KCell, i, h), is |-> Cell("K", h, tokens[i])] :
                   i \in DOMAIN tokens, h \in KVHead}
                \cup {[at |-> At(VCell, i, h), is |-> Cell("V", h, tokens[i])] :
                   i \in DOMAIN tokens, h \in KVHead}
      written == {w.at : w \in writes}
  IN  [c \in PoolCells |->
         IF c \in written THEN (CHOOSE w \in writes : w.at = c).is ELSE pool[c]]

\* [0] and the running sums of lens; maximum of lens.
CuSeqlens(lens) ==
  [s \in 0 .. Len(lens) |-> MapThenSumSet(LAMBDA i : lens[i], 1 .. s)]
MaxOf(lens) == Max({0} \cup Range(lens))

\* The request a row of the batch belongs to, and its place among its rows.
RequestOf(cu, row) == CHOOSE s \in 0 .. Max(DOMAIN cu) - 1 : row \in cu[s] .. cu[s + 1] - 1

SlotOf(table, pos) == table[pos \div BlockSize + 1] * BlockSize + (pos % BlockSize)

\* Mutant: the rows of a prefill are laid from position 0, adopted prefix or not.
SlotMappingFromStart(tables, q, k, is_decode) ==
  LET cu == CuSeqlens(q)
  IN  [row \in 0 .. cu[Len(q)] - 1 |->
         LET s == RequestOf(cu, row) IN SlotOf(tables[s + 1], row - cu[s])]

\* The slot of each row: the last position for a decode, the last q[s] for a
\* prefill.
SlotMapping(tables, q, k, is_decode) ==
  LET cu == CuSeqlens(q)
  IN  [row \in 0 .. cu[Len(q)] - 1 |->
         LET s == RequestOf(cu, row)
         IN  IF is_decode THEN SlotOf(tables[s + 1], k[s + 1] - 1)
             ELSE SlotOf(tables[s + 1], k[s + 1] - q[s + 1] + (row - cu[s]))]

MaxBlocks(tables) == MaxOf([s \in DOMAIN tables |-> Len(tables[s])])

\* Row-major, one row for each request, filled up with block 0.
BlockTable2D(tables) ==
  LET width == MaxBlocks(tables)
  IN  [i \in 0 .. Len(tables) * width - 1 |->
         LET table == tables[i \div width + 1]
             b     == i % width
         IN  IF b < Len(table) THEN table[b + 1] ELSE 0]
=============================================================================
