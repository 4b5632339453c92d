-------------------------- MODULE AttentionKernels --------------------------
(***************************************************************************)
(* One attention of a layer on the device: the paged write, the choice of  *)
(* the kernel and its grid, and the thread blocks with their warps.        *)
(*                                                                         *)
(* Thread blocks share nothing they write but out and the split buffers,   *)
(* each its own rows, so they run here one at a time, in any order; the    *)
(* warps of a block interleave.  A warp is in lockstep.  It has one query  *)
(* row: in the tiled kernels one of its eight quads stands for all.        *)
(***************************************************************************)
EXTENDS OnlineSoftmax, PagedBatch

CONSTANTS Calls,          \* the arguments attention may be called with
          NumHeads,
          Warps,          \* NUM_WRAPS, and Br: one row for each warp
          ColPerThread,   \* COL_PER_THREAD of the tiled kernels
          DecodeBc,       \* Bc of the decode kernels
          SplitThreshold, SplitChunk, MaxSplits  \* SPLIT_KV_*

ASSUME KernelAssumption ==
  /\ NumHeads \in Nat \ {0} /\ NumHeads % NumKVHeads = 0
  /\ Warps \in Nat \ {0} /\ ColPerThread \in Nat \ {0} /\ DecodeBc \in Nat \ {0}
  /\ SplitThreshold \in Nat /\ SplitChunk \in Nat \ {0} /\ MaxSplits \in Nat \ {0}

VARIABLES
  call,     \* the arguments
  step,     \* what the host does next
  pool,     \* the block pool
  kernel,   \* the kernel that runs
  grid,     \* its thread blocks yet to run
  block,    \* the one that runs
  smem,     \* its tile in shared memory: Ks and Vs
  warp,     \* its warps: where each is, its tile, its m, l and O
  mid,      \* mid_lse and mid_o, by split and request
  out       \* the result, by row

vars == <<call, step, pool, kernel, grid, block, smem, warp, mid, out>>

Warp == 0 .. Warps - 1
Br == Warps
Bc == 4 * ColPerThread

NoBlock  == [x |-> -1, y |-> -1]
ZeroRow  == [head |-> -1, token |-> <<-1, -1>>]
JunkRow  == [head |-> -2, token |-> <<-2, -2>>]
NoMask   == <<>>
Unset    == [kind |-> "unset"]
Empty    == [kind |-> "empty"]

Ceil(a, b) == (a + b - 1) \div b

NumSeqs == Len(call.q)
CuQ     == CuSeqlens(call.q)
SumQ    == CuQ[NumSeqs]
KvHead  == call.head \div (NumHeads \div NumKVHeads)

\* The tokens of request s, of which the first call.shared are request 0's.
Token(s, pos) == <<IF pos < call.shared THEN 0 ELSE s, pos>>

\* What row of the batch is asked: its request, and its place in it.
SeqOf(row)   == RequestOf(CuQ, row)
LocalOf(row) == row - CuQ[SeqOf(row)]

\* Q . K * scalar, by row and key.
Score(row, content) ==
  IF content \in {ZeroRow, JunkRow} THEN 0
  ELSE (call.score.a * content.token[2] + call.score.b * row) % call.score.n

-----------------------------------------------------------------------------
(* Reading keys and values.                                                *)

\* A K row and a V row read together are of use if they are one token's.
RowFrom(c, v) ==
  IF Junk \notin {c, v} /\ c.side = "K" /\ v.side = "V" /\ c.token = v.token /\ c.head = v.head
  THEN [head |-> c.head, token |-> c.token] ELSE JunkRow

PoolRow(b, slot) ==
  RowFrom(pool[KCell(call.layer, b, KvHead, slot)], pool[VCell(call.layer, b, KvHead, slot)])

\* Through the 2D table, in the multi-request kernels.
PagedRow(s, key) ==
  LET width == MaxBlocks(call.tables)
  IN  PoolRow(BlockTable2D(call.tables)[s * width + key \div BlockSize], key % BlockSize)

\* Through the request's own table, in the single-request kernel.
SingleRow(key) == PoolRow(call.tables[1][key \div BlockSize + 1], key % BlockSize)

\* From the contiguous K and V of attention_fa2.
Fa2Row(key) == [head |-> KvHead, token |-> Token(0, key)]

-----------------------------------------------------------------------------
(* The tiled kernels: prefill, single and fa2.  Keys are absolute, queries *)
(* local to their request's rows in this pass.                             *)

TileSeq == IF kernel = "prefill" THEN block.y ELSE 0
SeqQ == call.q[TileSeq + 1]
SeqK == call.k[TileSeq + 1]
FirstQuery == block.x * Br
Offset == IF kernel = "fa2" THEN 0 ELSE SeqK - SeqQ
IsDecode == \/ kernel = "single" /\ call.is_decode
            \/ kernel = "fa2" /\ SeqQ = 1

TileRow(key) ==
  IF key >= SeqK THEN ZeroRow
  ELSE CASE kernel = "prefill" -> PagedRow(TileSeq, key)
         [] kernel = "single"  -> SingleRow(key)
         [] kernel = "fa2"     -> Fa2Row(key)

\* Mutant: the diagonal of an extend prefill is taken from key 0.
FutureTileLocal(i) == ~IsDecode /\ call.mask = NoMask /\ i >= FirstQuery + Br

\* A tile no query of the block may see, which the block skips.
FutureTile(i) == ~IsDecode /\ call.mask = NoMask /\ i >= Offset + FirstQuery + Br

\* A tile every query of the block sees whole.
FullPastTile(i) == i + Bc - 1 <= Offset + FirstQuery

\* The score of a query for the key at a place of the tile that starts at i.
TileScore(query, i, j, s) ==
  LET key == i + j
  IN  IF query >= SeqQ \/ key >= SeqK THEN -FLT_MAX
      ELSE IF call.mask # NoMask /\ ~IsDecode THEN s + call.mask[query][key]
      ELSE IF IsDecode \/ FullPastTile(i) \/ query + Offset >= key THEN s
      ELSE -FLT_MAX

NextTile(i) ==
  Min({j \in i .. i + SeqK + Bc : (j - i) % Bc = 0 /\ (j >= SeqK \/ ~FutureTile(j))})

AtTile(wr, i) == [wr EXCEPT !.pc = IF i < SeqK THEN "load" ELSE "store", !.i = i]

\* A warp brings its share of the tile to shared memory.
Load(w) ==
  /\ warp[w].pc = "load"
  /\ smem' = [r \in DOMAIN smem |-> IF r % Warps = w THEN TileRow(warp[w].i + r) ELSE smem[r]]
  /\ warp' = [warp EXCEPT ![w].pc = "loaded"]
  /\ UNCHANGED <<call, step, pool, kernel, grid, block, mid, out>>

\* __syncthreads: the warps that have not left the loop wait for one another.
AllAt(pc) ==
  /\ \E w \in Warp : warp[w].pc = pc
  /\ \A w \in Warp : warp[w].pc \in {pc, "store", "exit"}

TileLoaded ==
  /\ AllAt("loaded")
  /\ warp' = [w \in Warp |-> IF warp[w].pc = "loaded" THEN [warp[w] EXCEPT !.pc = "compute"] ELSE warp[w]]
  /\ UNCHANGED <<call, step, pool, kernel, grid, block, smem, mid, out>>

\* Mutant: no barrier, a warp that is done goes on to the next tile.
TileUsedFree ==
  /\ \E w \in Warp :
       /\ warp[w].pc = "computed"
       /\ warp' = [warp EXCEPT ![w] = AtTile(@, NextTile(@.i + Bc))]
  /\ UNCHANGED <<call, step, pool, kernel, grid, block, smem, mid, out>>

TileUsed ==
  /\ AllAt("computed")
  /\ warp' = [w \in Warp |-> IF warp[w].pc = "computed"
                             THEN AtTile(warp[w], NextTile(warp[w].i + Bc)) ELSE warp[w]]
  /\ UNCHANGED <<call, step, pool, kernel, grid, block, smem, mid, out>>

\* The four lanes of the row score their keys of the tile, agree on the new
\* maximum and sum, and add the values up.
Compute(w) ==
  /\ warp[w].pc = "compute"
  /\ LET query == FirstQuery + w
         score(j) == TileScore(query, warp[w].i, j, Score(CuQ[TileSeq] + query, smem[j]))
         lanes == [l \in Lane |-> AbsorbAll(warp[w].acc.m,
                     [t \in 1 .. ColPerThread |-> score(l * ColPerThread + t - 1)])]
     IN  \E new \in {QuadReduce(lanes)[0]} :
           warp' = [warp EXCEPT ![w].pc = "computed",
                      ![w].acc = TakeTile(@, new, [j \in 1 .. Bc |-> score(j - 1)],
                                          [j \in 1 .. Bc |-> smem[j - 1]], ZeroRow)]
  /\ UNCHANGED <<call, step, pool, kernel, grid, block, smem, mid, out>>

Answer(O, l) == [kind |-> "set", O |-> O, l |-> l]

\* Mutant: rows beyond the request's own are stored as well.
StoreAll(w) ==
  /\ warp[w].pc = "store" /\ kernel \in {"prefill", "single", "fa2"}
  /\ out' = [out EXCEPT ![CuQ[TileSeq] + FirstQuery + w] = Answer(warp[w].acc.O, warp[w].acc.l)]
  /\ warp' = [warp EXCEPT ![w].pc = "exit"]
  /\ UNCHANGED <<call, step, pool, kernel, grid, block, smem, mid>>

Store(w) ==
  /\ warp[w].pc = "store" /\ kernel \in {"prefill", "single", "fa2"}
  /\ out' = IF FirstQuery + w < SeqQ
            THEN [out EXCEPT ![CuQ[TileSeq] + FirstQuery + w] = Answer(warp[w].acc.O, warp[w].acc.l)]
            ELSE out
  /\ warp' = [warp EXCEPT ![w].pc = "exit"]
  /\ UNCHANGED <<call, step, pool, kernel, grid, block, smem, mid>>

-----------------------------------------------------------------------------
(* The decode kernels: a warp for each request, no shared memory.  The 32  *)
(* lanes hold two dimensions each and add their parts of a score up, which *)
(* takes a masked one beyond -FLT_MAX.                                     *)

Query(w) == block.x * Warps + w
KeysOf(w) == IF Query(w) < NumSeqs THEN call.k[Query(w) + 1] ELSE 0

\* The keys of a split are whole tiles.
KeysPerSplit(seq_k, splits) == Ceil(Ceil(seq_k, splits), DecodeBc) * DecodeBc

\* paged_attention.cpp:51-54: a forced count, or one by the longest request.
SplitCount ==
  LET longest == MaxOf(call.k)
  IN  IF call.num_splits > 0 THEN call.num_splits
      ELSE IF longest > SplitThreshold THEN Min({MaxSplits, Max({2, longest \div SplitChunk})})
      ELSE 1

SplitStart(w) == block.y * KeysPerSplit(KeysOf(w), SplitCount)
SplitEnd(w)   == Min({SplitStart(w) + KeysPerSplit(KeysOf(w), SplitCount), KeysOf(w)})

KeyEnd(w) == IF kernel = "split" THEN SplitEnd(w) ELSE KeysOf(w)

\* One tile of the warp's keys.
DecodeTile(w) ==
  /\ warp[w].pc = "tile"
  /\ LET key(j) == warp[w].i + j - 1
         rows   == [j \in 1 .. DecodeBc |->
                      IF key(j) < KeyEnd(w) THEN PagedRow(Query(w), key(j)) ELSE ZeroRow]
         scores == [j \in 1 .. DecodeBc |->
                      IF key(j) < KeyEnd(w) THEN Score(Query(w), rows[j]) ELSE -Infinity]
         next   == warp[w].i + DecodeBc
     IN  \E new \in {AbsorbAll(warp[w].acc.m, scores)} :
           warp' = [warp EXCEPT ![w].pc  = IF next < KeyEnd(w) THEN "tile" ELSE "store",
                                ![w].i   = next,
                                ![w].acc = TakeTile(@, new, scores, rows, ZeroRow)]
  /\ UNCHANGED <<call, step, pool, kernel, grid, block, smem, mid, out>>

DecodeStore(w) ==
  /\ warp[w].pc = "store" /\ kernel = "decode"
  /\ out' = IF Query(w) < NumSeqs
            THEN [out EXCEPT ![Query(w)] = Answer(warp[w].acc.O, warp[w].acc.l)] ELSE out
  /\ warp' = [warp EXCEPT ![w].pc = "exit"]
  /\ UNCHANGED <<call, step, pool, kernel, grid, block, smem, mid>>

\* mid_o = O / l and mid_lse = m + log l.
SplitStore(w) ==
  /\ warp[w].pc = "store" /\ kernel = "split"
  /\ mid' = [mid EXCEPT ![block.y, Query(w)] =
               [kind |-> "part", m |-> warp[w].acc.m, l |-> warp[w].acc.l, O |-> warp[w].acc.O]]
  /\ warp' = [warp EXCEPT ![w].pc = "exit"]
  /\ UNCHANGED <<call, step, pool, kernel, grid, block, smem, out>>

\* Mutant: a split without keys returns and writes nothing.
SplitEmptySilent(w) ==
  /\ warp[w].pc = "empty"
  /\ warp' = [warp EXCEPT ![w].pc = "exit"]
  /\ UNCHANGED <<call, step, pool, kernel, grid, block, smem, mid, out>>

\* A split that starts beyond the keys: mid_lse = -FLT_MAX.
SplitEmpty(w) ==
  /\ warp[w].pc = "empty"
  /\ mid' = IF Query(w) < NumSeqs THEN [mid EXCEPT ![block.y, Query(w)] = Empty] ELSE mid
  /\ warp' = [warp EXCEPT ![w].pc = "exit"]
  /\ UNCHANGED <<call, step, pool, kernel, grid, block, smem, out>>

\* The merge of the splits, with exp(e_max) as e and acc, e_sum over the
\* denominator D: exp(lse) is l * exp(m), and its powers divide one another
\* as exp of the differences.
MergeSplit(a, part) ==
  LET lse   == part.l * 2 ^ part.m
      n_max == Fmax(lse, a.e)
      old   == a.e * part.l       \* old_scale, over n_max * part.l
  IN  IF part = Empty THEN a
      ELSE [e |-> n_max, D |-> a.D * n_max * part.l,
            e_sum |-> a.e_sum * old + a.D * lse * part.l,
            acc |-> [v \in DOMAIN a.acc |-> a.acc[v] * old]
                    (+) [v \in DOMAIN part.O |-> a.D * lse * part.O[v]]]

Reduce(w) ==
  /\ warp[w].pc = "reduce"
  /\ LET Turn(t) == [s |-> t.s + 1, a |-> MergeSplit(t.a, mid[t.s, Query(w)])]
         start   == [s |-> 0, a |-> [e |-> 0, D |-> 1, e_sum |-> 0, acc |-> EmptyBag]]
     IN  \E a \in {Iterate(Turn, start, SplitCount).a} :
           out' = [out EXCEPT ![Query(w)] = Answer(a.acc, a.e_sum)]
  /\ warp' = [warp EXCEPT ![w].pc = "exit"]
  /\ UNCHANGED <<call, step, pool, kernel, grid, block, smem, mid>>

-----------------------------------------------------------------------------
(* Thread blocks and the host.                                             *)

RunBlock(b) ==
  /\ step = "run" /\ block = NoBlock /\ b \in grid
  /\ block' = b
  /\ grid' = grid \ {b}
  /\ smem' = [r \in 0 .. Bc - 1 |-> JunkRow]
  /\ warp' = [w \in Warp |-> [pc |-> "start", i |-> 0, acc |-> Nothing]]
  /\ UNCHANGED <<call, step, pool, kernel, mid, out>>

\* What a warp finds to do: nothing in a block or a row beyond the request's.
Begin(w) ==
  /\ warp[w].pc = "start"
  /\ warp' = [warp EXCEPT ![w] =
       CASE kernel = "decode"  -> [@ EXCEPT !.pc = IF KeysOf(w) > 0 THEN "tile" ELSE "store"]
         [] kernel = "split"   -> [@ EXCEPT !.pc = IF SplitStart(w) >= KeysOf(w) THEN "empty" ELSE "tile",
                                            !.i  = SplitStart(w)]
         [] kernel = "reduce"  -> [@ EXCEPT !.pc = IF Query(w) < NumSeqs THEN "reduce" ELSE "exit"]
         [] kernel = "prefill" /\ FirstQuery >= SeqQ -> [@ EXCEPT !.pc = "exit"]
         [] OTHER -> AtTile(@, NextTile(0))]
  /\ UNCHANGED <<call, step, pool, kernel, grid, block, smem, mid, out>>

BlockDone ==
  /\ block # NoBlock /\ \A w \in Warp : warp[w].pc = "exit"
  /\ block' = NoBlock
  /\ UNCHANGED <<call, step, pool, kernel, grid, smem, warp, mid, out>>

\* blockPerGrid: x counts the blocks of query rows, y the requests or splits.
Blocks(rows, ys) == [x : 0 .. Ceil(rows, Warps) - 1, y : 0 .. ys - 1]

\* attention_fa2, and the launches for one request.
OneRequestGrid == Blocks(call.q[1], 1)

PrefillGrid == Blocks(MaxOf(call.q), NumSeqs)
DecodeGrid  == Blocks(NumSeqs, 1)
SplitGrid   == Blocks(NumSeqs, SplitCount)

\* The positions written before this pass are in the pool.
PoolBefore(c) ==
  LET old(s) == 0 .. c.k[s] - c.q[s] - 1
      token(s, pos) == <<IF pos < c.shared THEN 0 ELSE s - 1, pos>>
      cells == [a \in PoolCells |-> Junk]
      writes == {<<s, pos>> \in (DOMAIN c.q) \X (0 .. MaxOf(c.k)) : pos \in old(s)}
      Fill(w, p) == PagedWrite(p, c.layer, [i \in {0} |-> token(w[1], w[2])],
                               [i \in {0} |-> SlotOf(c.tables[w[1]], w[2])])
  IN  IF c.op = "fa2" THEN cells ELSE FoldSet(Fill, cells, writes)

Init ==
  /\ call \in Calls
  /\ step = "write" /\ kernel = "none" /\ grid = {} /\ block = NoBlock
  /\ pool = PoolBefore(call)
  /\ smem = [r \in 0 .. Bc - 1 |-> JunkRow]
  /\ warp = [w \in Warp |-> [pc |-> "exit", i |-> 0, acc |-> Nothing]]
  /\ mid = <<>>
  /\ out = [row \in 0 .. SumQ - 1 |-> Unset]

\* The keys and values of the pass, which attention_fa2 gets as they are.
WriteCache ==
  /\ step = "write"
  /\ step' = "launch"
  /\ pool' = IF call.op = "fa2" THEN pool
             ELSE PagedWrite(pool, call.layer,
                             [row \in 0 .. SumQ - 1 |->
                                Token(SeqOf(row), call.k[SeqOf(row) + 1] - call.q[SeqOf(row) + 1] + LocalOf(row))],
                             SlotMapping(call.tables, call.q, call.k, call.is_decode))
  /\ UNCHANGED <<call, kernel, grid, block, smem, warp, mid, out>>

\* Every launch refuses a head dimension other than 64.
LaunchRefused ==
  /\ step = "launch" /\ call.head_dim # 64
  /\ step' = "thrown"
  /\ UNCHANGED <<call, pool, kernel, grid, block, smem, warp, mid, out>>

LaunchOneRequest ==
  /\ step = "launch" /\ call.op \in {"fa2", "single"} /\ call.head_dim = 64
  /\ step' = "run" /\ kernel' = call.op /\ grid' = OneRequestGrid
  /\ UNCHANGED <<call, pool, block, smem, warp, mid, out>>

LaunchPrefill ==
  /\ step = "launch" /\ call.op = "batched" /\ ~call.is_decode /\ call.head_dim = 64
  /\ step' = "run" /\ kernel' = "prefill" /\ grid' = PrefillGrid
  /\ UNCHANGED <<call, pool, block, smem, warp, mid, out>>

LaunchDecode ==
  /\ step = "launch" /\ call.op = "batched" /\ call.is_decode /\ SplitCount = 1 /\ call.head_dim = 64
  /\ step' = "run" /\ kernel' = "decode" /\ grid' = DecodeGrid
  /\ UNCHANGED <<call, pool, block, smem, warp, mid, out>>

\* The buffers are fresh device memory.
LaunchSplit ==
  /\ step = "launch" /\ call.op = "batched" /\ call.is_decode /\ SplitCount > 1 /\ call.head_dim = 64
  /\ step' = "run" /\ kernel' = "split" /\ grid' = SplitGrid
  /\ mid' = [part \in (0 .. SplitCount - 1) \X (0 .. NumSeqs - 1) |-> Unset]
  /\ UNCHANGED <<call, pool, block, smem, warp, out>>

\* cudaDeviceSynchronize, then the merge, then the end.
LaunchReduce ==
  /\ step = "run" /\ kernel = "split" /\ grid = {} /\ block = NoBlock
  /\ kernel' = "reduce" /\ grid' = DecodeGrid
  /\ UNCHANGED <<call, step, pool, block, smem, warp, mid, out>>

Return ==
  /\ step = "run" /\ kernel # "split" /\ grid = {} /\ block = NoBlock
  /\ step' = "done" /\ mid' = <<>>
  /\ UNCHANGED <<call, pool, kernel, grid, block, smem, warp, out>>

Ended == step \in {"done", "thrown"} /\ UNCHANGED vars

Next ==
  \/ WriteCache \/ LaunchRefused \/ LaunchOneRequest \/ LaunchPrefill
  \/ LaunchDecode \/ LaunchSplit \/ LaunchReduce \/ Return \/ Ended
  \/ \E b \in grid : RunBlock(b)
  \/ BlockDone \/ TileLoaded \/ TileUsed
  \/ \E w \in Warp :
       \/ Begin(w) \/ Load(w) \/ Compute(w) \/ Store(w)
       \/ DecodeTile(w) \/ DecodeStore(w)
       \/ SplitEmpty(w) \/ SplitStore(w) \/ Reduce(w)

Spec == Init /\ [][Next]_vars

-----------------------------------------------------------------------------
(* Properties.                                                             *)

\* Type invariant.  The maximum of a row is a number from the start: two
\* infinities have no difference to take the exponential of.
TypeOK ==
  /\ call \in Calls
  /\ step \in {"write", "launch", "run", "done", "thrown"}
  /\ kernel \in {"none", "prefill", "single", "fa2", "decode", "split", "reduce"}
  /\ \A w \in Warp : /\ warp[w].pc \in {"start", "load", "loaded", "compute", "computed", "tile",
                                        "store", "empty", "reduce", "exit"}
                     /\ warp[w].i \in Nat /\ warp[w].acc.l \in Nat /\ IsABag(warp[w].acc.O)
                     /\ warp[w].acc.m \in {-FLT_MAX} \cup 0 .. MaxScore
  /\ \A row \in DOMAIN out : out[row].kind \in {"unset", "set"}

\* The keys a row attends to: all of its request's in a decode, those the
\* mask leaves with a mask, those up to its own position otherwise.
Attended(row) ==
  LET s == SeqOf(row)
      q == LocalOf(row)
  IN  {pos \in 0 .. call.k[s + 1] - 1 :
         IF call.is_decode THEN TRUE
         ELSE IF call.mask # NoMask THEN call.mask[q][pos] = 0
         ELSE pos <= call.k[s + 1] - call.q[s + 1] + q}

Content(row, pos) == [head |-> KvHead, token |-> Token(SeqOf(row), pos)]

\* The answer is the softmax of the row's scores over the keys it attends
\* to, applied to their values.
IsSoftmax(row, answer) ==
  LET weight(pos) == 2 ^ Score(row, Content(row, pos))
      total       == MapThenSumSet(weight, Attended(row))
  IN  /\ answer.l > 0
      /\ DOMAIN answer.O = {Content(row, pos) : pos \in Attended(row)}
      /\ \A pos \in Attended(row) : answer.O[Content(row, pos)] * total = weight(pos) * answer.l

\* Whatever the kernel, the tiles, the splits, the order of the thread
\* blocks and the pace of the warps, a row that is written holds the softmax
\* of that row, and all rows are written when attention returns.
OutputIsSoftmax ==
  /\ \A row \in DOMAIN out : out[row] # Unset => IsSoftmax(row, out[row])
  /\ step = "done" => \A row \in DOMAIN out : out[row] # Unset

\* A warp that computes has the whole of its own tile before it: no warp is
\* still bringing rows of it, none has begun on the next.
TileIsWhole ==
  \A w \in Warp : warp[w].pc = "compute" =>
    \A r \in 0 .. Bc - 1 : smem[r] = TileRow(warp[w].i + r)

\* At any point between barriers a row's running maximum is a number, never an
\* infinity whose difference with itself has no exp, and a warp that computes
\* has its whole tile before it.
WarpsExact == TypeOK /\ TileIsWhole

\* The merge reads only what the splits of this call wrote, and each key of
\* a request counts in exactly one of them.
SplitsPartitionKeys ==
  kernel = "reduce" /\ step = "run" =>
    /\ \A part \in DOMAIN mid : mid[part] # Unset
    /\ \A s \in 0 .. NumSeqs - 1 : \A pos \in 0 .. call.k[s + 1] - 1 :
         Cardinality({z \in 0 .. SplitCount - 1 :
                        /\ mid[z, s] # Empty
                        /\ Content(s, pos) \in DOMAIN mid[z, s].O}) = 1

\* Once the pass is written, the pool holds at the place the block tables
\* give for it every token of every request, adopted ones included.
PoolHoldsRequests ==
  step # "write" /\ call.op # "fa2" =>
    \A s \in 0 .. NumSeqs - 1 : \A pos \in 0 .. call.k[s + 1] - 1 :
      LET table == call.tables[s + 1]
      IN  PoolRow(table[pos \div BlockSize + 1], pos % BlockSize)
            = [head |-> KvHead, token |-> Token(s, pos)]

\* No row is written twice: the blocks of a short request keep off the rows
\* of the next.
RowWrittenOnce ==
  [][\A row \in DOMAIN out : out[row] # Unset => out'[row] = out[row]]_vars
=============================================================================
