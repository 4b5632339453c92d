------------------------------ MODULE PagedKV ------------------------------
(***************************************************************************)
(* The state of one xstar_cpp PagedKVCache and what its methods do to it.  *)
(*                                                                         *)
(* A cache is [cursor, table, device, adopted]: the live tokens, the       *)
(* block_table_, its copy in device memory (empty before d_block_table_ is *)
(* allocated, d_block_table_cap_ entries long after) and adopted_.  A call *)
(* answers [ok, kv, pool]: ok is FALSE when it threw, kv and pool are what *)
(* it left behind.  A call that copies new blocks to the device may also   *)
(* throw there, which is CopyBroken and BlockLost.  The data checks        *)
(* (device, dtype, shapes) are left out.                                   *)
(***************************************************************************)
EXTENDS Paging

CONSTANT MaxSeqLen        \* max_seq_len_

ASSUME MaxSeqLenAssumption == MaxSeqLen \in Nat \ {0}

FreshKV == [cursor |-> 0, table |-> <<>>, device |-> <<>>, adopted |-> FALSE]

\* reset() restores every field the constructor set.
Reset == FreshKV

HasDevice(kv) == kv.device # <<>>

Stored(kv, p)  == [ok |-> TRUE,  kv |-> kv, pool |-> p]
Refused(kv, p) == [ok |-> FALSE, kv |-> kv, pool |-> p]

\* cuda_memcpy_h2d to the entries after the first n: what falls beyond the
\* end of the copy is somebody else's memory.
CopyTo(device, n, blocks) ==
  [i \in DOMAIN device |-> IF i \in n + 1 .. n + Len(blocks) THEN blocks[i - n] ELSE device[i]]

NewDevice(blocks) == CopyTo([i \in 1 .. BlocksNeeded(MaxSeqLen) |-> Junk], 0, blocks)

\* Mutant: new blocks are copied over the start of the device table.
GrowOverStart(kv, blocks) ==
  [kv EXCEPT !.table = @ \o blocks, !.device = CopyTo(@, 0, blocks)]

Grow(kv, blocks) ==
  [kv EXCEPT !.table = @ \o blocks, !.device = CopyTo(@, Len(kv.table), blocks)]

\* Mutant: the new block is taken when the old one fills, one token early.
DecodeSlotEarly(kv, p) ==
  LET got == Alloc(p, 1)
      k   == [kv EXCEPT !.cursor = @ + 1]
  IN  IF k.cursor % BlockSize # 0 THEN Stored(k, p)
      ELSE IF got.ok THEN Stored(Grow(k, got.ids), got.pool) ELSE Refused(k, p)

\* One more token; the first of a block takes a block.  The cursor has moved
\* when alloc throws.
DecodeSlot(kv, p) ==
  LET got == Alloc(p, 1)
      k   == [kv EXCEPT !.cursor = @ + 1]
  IN  IF k.cursor % BlockSize # 1 THEN Stored(k, p)
      ELSE IF got.ok THEN Stored(Grow(k, got.ids), got.pool) ELSE Refused(k, p)

\* Mutant: an extend prefill takes blocks for the adopted tokens as well.
PrefillSlotsWhole(kv, p, len) ==
  LET got == Alloc(p, BlocksNeeded(kv.cursor + len))
  IN  IF (kv.cursor > 0 /\ ~kv.adopted) \/ ~got.ok THEN Refused(kv, p)
      ELSE Stored([kv EXCEPT !.cursor = @ + len, !.table = @ \o got.ids,
                             !.device = NewDevice(kv.table \o got.ids)], got.pool)

\* A prefill, once, on a fresh cache or after adopt_prefix.
PrefillSlots(kv, p, len) ==
  LET got == Alloc(p, BlocksNeeded(len))
  IN  IF (kv.cursor > 0 /\ ~kv.adopted) \/ ~got.ok THEN Refused(kv, p)
      ELSE IF kv.cursor > 0
           THEN Stored([Grow(kv, got.ids) EXCEPT !.cursor = @ + len], got.pool)
           ELSE Stored([kv EXCEPT !.cursor = len, !.table = got.ids, !.device = NewDevice(got.ids)],
                       got.pool)

\* Mutant: a decode does not test the cursor against max_seq_len_.
PrepareMetaUnbounded(kv, p, len, is_decode) ==
  IF ~is_decode THEN PrefillSlots(kv, p, len) ELSE DecodeSlot(kv, p)

\* prepare_meta at layer 0; at other layers it returns at once.
PrepareMeta(kv, p, len, is_decode) ==
  IF len >= MaxSeqLen THEN Refused(kv, p)
  ELSE IF ~is_decode THEN PrefillSlots(kv, p, len)
  ELSE IF ~HasDevice(kv) \/ kv.cursor >= MaxSeqLen THEN Refused(kv, p)
  ELSE DecodeSlot(kv, p)

\* The bookkeeping of write(): every layer tests the cursor, layer 0 moves it.
Write(kv, p, layer, len, is_decode) ==
  IF kv.cursor + len >= MaxSeqLen \/ (is_decode /\ ~HasDevice(kv)) THEN Refused(kv, p)
  ELSE IF layer # 0 THEN Stored(kv, p)
  ELSE IF is_decode THEN DecodeSlot(kv, p) ELSE PrefillSlots(kv, p, len)

\* The call that would have answered s copies blocks to the device.  When
\* cuda_alloc or cuda_memcpy_h2d throws there, the cursor has moved and the
\* blocks are taken: a prefill has put them in its table, a decode has not yet,
\* and nobody knows the block it took.  What was copied goes with reset().
CopiesTable(kv, s) == s.ok /\ s.kv.table # kv.table

CopyBroken(kv, s, is_decode) ==
  [s.kv EXCEPT !.table = IF is_decode THEN kv.table ELSE @, !.device = kv.device]

\* Mutant: the block is thought to be in the table already.
BlockLostNever(s, is_decode) == {}

BlockLost(s, is_decode) == IF is_decode THEN {Last(s.kv.table)} ELSE {}

\* Mutant: the cursor stops one token short of the adopted blocks.
AdoptPrefixShort(kv, p, blocks) ==
  Stored([cursor |-> Len(blocks) * BlockSize - 1, table |-> blocks,
          device |-> NewDevice(blocks), adopted |-> TRUE], p)

\* The caller has forked the blocks.
AdoptPrefix(kv, p, blocks) ==
  IF kv.cursor # 0 \/ kv.table # <<>> \/ HasDevice(kv) \/ blocks = <<>>
     \/ Len(blocks) * BlockSize >= MaxSeqLen
  THEN Refused(kv, p)
  ELSE Stored([cursor |-> Len(blocks) * BlockSize, table |-> blocks,
               device |-> NewDevice(blocks), adopted |-> TRUE], p)

\* The pool slot of a position (from 0), which attention reads and the
\* slot_mapping writes.
HasSlot(kv, pos) == pos \div BlockSize < Len(kv.table)
Slot(kv, pos)    == kv.table[pos \div BlockSize + 1] * BlockSize + (pos % BlockSize)

\* The positions the last len tokens of a cache occupy.
LastPositions(kv, len) == kv.cursor - len .. kv.cursor - 1

-----------------------------------------------------------------------------
(* What a cache must always satisfy.                                       *)

\* paged_kv_cache.h:15-16: ceil(cursor / BS) blocks.
TableCoversCursor(kv) == Len(kv.table) = BlocksNeeded(kv.cursor)

\* paged_kv_cache.h:17-18: the kernel reads a copy of the table.
DeviceCopyExact(kv) ==
  Len(kv.table) <= Len(kv.device) /\ SubSeq(kv.device, 1, Len(kv.table)) = kv.table
=============================================================================
