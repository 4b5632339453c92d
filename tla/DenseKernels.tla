---------------------------- MODULE DenseKernels ----------------------------
(***************************************************************************)
(* The dense operators on the device: the launches an operator makes, and  *)
(* the thread blocks of the tiled gemm, the fused gate/up gemm, the mask,  *)
(* and the block reductions of softmax and rmsnorm.                        *)
(*                                                                         *)
(* The threads of a block interleave: between two __syncthreads a thread   *)
(* runs one segment of its kernel, in one step, and does not begin a       *)
(* segment before every thread has ended the one before.  No two threads   *)
(* are taken to be in lockstep but the lanes of a shuffle.  Blocks write   *)
(* no cell of one another and run in order.                                *)
(***************************************************************************)
EXTENDS HostOps

CONSTANTS Calls,      \* the operators called, with their shapes
          Dim,        \* THREADPERBLOCKDIM of the gemms
          Vec,        \* TM, TN and VEC, which are equal
          Threads,    \* THREADPERBLOCK of the reductions
          WarpSize,
          MaskDim     \* THREADPERBLOCKDIM of scale_mask

ASSUME DenseAssumption ==
  /\ {Dim, Vec, Threads, WarpSize, MaskDim} \subseteq Nat \ {0}
  /\ Threads % WarpSize = 0

VARIABLES
  call,     \* the operator and its arguments
  mem,      \* the device's buffers
  todo,     \* the launches yet to end, from the one under way
  block,    \* its block that runs, or NoBlock between launches
  smem,     \* shared memory of the block
  th,       \* its threads: how many segments each has done, and its registers
  stored,   \* the cells the launch has stored
  fault,    \* history: a vector load was none, or a store went astray
  step      \* "run", "done" or "thrown"

vars == <<call, mem, todo, block, smem, th, stored, fault, step>>

Tile    == Dim * Vec       \* BM, BN and BK
NoBlock == -1
Square  == (0 .. Tile - 1) \X (0 .. Tile - 1)
PerThread == (0 .. Vec - 1) \X (0 .. Vec - 1)

Buffer(name, n) == [a \in 0 .. n - 1 |-> <<name, a>>]
Fresh(n)        == [a \in 0 .. n - 1 |-> Junk]
Ptr(buf, off)   == [buf |-> buf, off |-> off]

-----------------------------------------------------------------------------
(* What an operator launches.                                              *)

GemmLaunch(C, A, B, bias, m, k, n, transB, lda, ldb, ldc) ==
  [kernel |-> "gemm", C |-> C, A |-> A, B |-> B, bias |-> bias, m |-> m, k |-> k, n |-> n,
   transB |-> transB, lda |-> lda, ldb |-> ldb, ldc |-> ldc]

\* linear, and gemm on tensors.
LinearLaunch(y, x, w, bias, m, k, n) ==
  GemmLaunch(Ptr(y, 0), Ptr(x, 0), Ptr(w, 0), bias, m, k, n, TRUE, k, k, n)

TensorGemm(c) ==
  GemmLaunch(Ptr("out", 0), Ptr("A", 0), Ptr("B", 0), FALSE, c.m, c.k, c.n, c.transB,
             c.k, IF c.transB THEN c.k ELSE c.n, c.n)

\* Mutant: query heads are dealt out to the KV heads in turn.
KvHeadInTurn(h, c) == h % c.kv_heads

KvHead(h, c) == h \div (c.heads \div c.kv_heads)

\* A gemm for each head, the mask, the softmax, and a gemm for each head into
\* its columns of the result.
AttentionLaunches(c) ==
  LET sq == c.seq * c.seq
      hd == c.head_dim
      scores(h) == GemmLaunch(Ptr("qk", h * sq), Ptr("Q", h * c.seq * hd),
                              Ptr("K", KvHead(h, c) * c.seq * hd), FALSE,
                              c.seq, hd, c.seq, TRUE, hd, hd, c.seq)
      values(h) == GemmLaunch(Ptr("out", h * hd), Ptr("weights", h * sq),
                              Ptr("V", KvHead(h, c) * c.seq * hd), FALSE,
                              c.seq, c.seq, hd, FALSE, c.seq, hd, c.heads * hd)
      each(f(_)) == [n \in 1 .. c.heads |-> f(n - 1)]
  IN  each(scores)
      \o <<[kernel |-> "scale_mask"],
           [kernel |-> "softmax", x |-> "qk", out |-> "weights",
            outer |-> c.heads * c.seq, size |-> c.seq, inner |-> 1]>>
      \o each(values)

\* softmax: the axes before and after the one it runs along become one each.
SoftmaxLaunch(c) ==
  LET axis == AxisOf(c.dim, c.shape)
  IN  [kernel |-> "softmax", x |-> "x", out |-> "out", size |-> c.shape[axis],
       outer |-> ProductOf(SubSeq(c.shape, 1, axis - 1)), inner |-> Stride(c.shape, axis)]

LaunchesOf(c) ==
  CASE c.op = "gemm"      -> <<TensorGemm(c)>>
    [] c.op = "linear"    -> <<LinearLaunch("out", "x", "w", c.bias, c.m, c.k, c.n)>>
    [] c.op = "mlp"       -> <<[kernel |-> "silu", m |-> c.m, k |-> c.k, n |-> c.d],
                               LinearLaunch("out", "act", "down", FALSE, c.m, c.d, c.k)>>
    [] c.op = "attention" -> AttentionLaunches(c)
    [] c.op = "softmax"   -> <<SoftmaxLaunch(c)>>
    [] c.op = "rmsnorm"   -> <<[kernel |-> "rmsnorm", x |-> "x", out |-> "out",
                                outer |-> c.rows, size |-> c.hidden, inner |-> 1]>>

\* The buffers of an operator; what it allocates holds anything.
BuffersOf(c) ==
  CASE c.op = "gemm" ->
         [A |-> Buffer("A", c.m * c.k), B |-> Buffer("B", c.k * c.n), out |-> Fresh(c.m * c.n)]
    [] c.op = "linear" ->
         [x |-> Buffer("x", c.m * c.k), w |-> Buffer("w", c.n * c.k), bias |-> Buffer("bias", c.n),
          out |-> Fresh(c.m * c.n)]
    [] c.op = "mlp" ->
         [x |-> Buffer("x", c.m * c.k), gate_up |-> Buffer("gate_up", 2 * c.d * c.k),
          down |-> Buffer("down", c.k * c.d), act |-> Fresh(c.m * c.d), out |-> Fresh(c.m * c.k)]
    [] c.op = "attention" ->
         [Q |-> Buffer("Q", c.heads * c.seq * c.head_dim),
          K |-> Buffer("K", c.kv_heads * c.seq * c.head_dim),
          V |-> Buffer("V", c.kv_heads * c.seq * c.head_dim),
          qk |-> Fresh(c.heads * c.seq * c.seq), weights |-> Fresh(c.heads * c.seq * c.seq),
          out |-> Fresh(c.seq * c.heads * c.head_dim)]
    [] c.op = "softmax" ->
         [x |-> [a \in 0 .. ProductOf(c.shape) - 1 |-> Score(c.values[(a % Len(c.values)) + 1])],
          out |-> Fresh(ProductOf(c.shape))]
    [] c.op = "rmsnorm" ->
         [x |-> Buffer("x", c.rows * c.hidden), w |-> Buffer("w", c.hidden),
          out |-> Fresh(c.rows * c.hidden)]

Now == Head(todo)

\* blockPerGrid, as a number of blocks; x runs fastest.
GridX == IF Now.kernel \in {"gemm", "silu"} THEN Ceil(Now.n, Tile) ELSE Now.outer * Now.inner
GridSize == IF Now.kernel \in {"gemm", "silu"} THEN GridX * Ceil(Now.m, Tile) ELSE GridX

Row0 == (block \div GridX) * Tile
Col0 == (block % GridX) * Tile

-----------------------------------------------------------------------------
(* The segments of a kernel between its barriers.                          *)

\* Mutant: the last round of the tree is left to the warp.
TreeWidthsAboveWarp ==
  LET f[i \in 0 .. Threads] == IF i <= WarpSize THEN <<>> ELSE <<i>> \o f[i \div 2]
  IN  f[Threads \div 2]

\* The widths of the tree: halves of the block, down to a warp.
TreeWidths ==
  LET f[i \in 0 .. Threads] == IF i < WarpSize THEN <<>> ELSE <<i>> \o f[i \div 2]
  IN  f[Threads \div 2]

Tiles(k) == Ceil(k, Tile)

GemmSegments(launch) ==
  [n \in 1 .. 2 * Tiles(launch.k) |->
     [do |-> IF n % 2 = 1 THEN "load" ELSE "compute", kk |-> ((n - 1) \div 2) * Tile]]
  \o (IF launch.kernel = "gemm" /\ launch.bias THEN <<[do |-> "bias"]>> ELSE <<>>)
  \o <<[do |-> "store"]>>

ReduceSegments ==
  <<[do |-> "fold"]>> \o [n \in DOMAIN TreeWidths |-> [do |-> "tree", width |-> TreeWidths[n]]]
  \o <<[do |-> "shuffle"], [do |-> "write"]>>

Segments == IF Now.kernel \in {"gemm", "silu"} THEN GemmSegments(Now) ELSE ReduceSegments

\* Mutant: no barrier before a round of the tree.
PassesInTree(t) ==
  LET behind == IF Segments[th[t].done + 1].do = "tree" THEN 1 ELSE 0
  IN  \A u \in DOMAIN th : th[u].done >= th[t].done - behind

\* __syncthreads: a thread passes when all have come as far.
Passes(t) == \A u \in DOMAIN th : th[u].done >= th[t].done

\* Thread t is about to run a segment of a kernel.
Ready(t, kernels, what) ==
  /\ step = "run" /\ block # NoBlock /\ Now.kernel \in kernels
  /\ th[t].done < Len(Segments) /\ Segments[th[t].done + 1].do = what
  /\ Passes(t)

Segment(t) == Segments[th[t].done + 1]
Done(t)    == [th EXCEPT ![t].done = @ + 1]

-----------------------------------------------------------------------------
(* The tiled gemm.  Thread <<x, y>> loads Vec cells in a row at a time.    *)

\* Mutant: only the index is looked at, not the address it is added to.
AlignedByIndex(ptr, idx) == idx % Vec = 0

\* The alignment of the address loaded: buffers start aligned.
Aligned(ptr, idx) == (ptr.off + idx) % Vec = 0

Cell(ptr, idx) == At(mem[ptr.buf], ptr.off + idx)

\* Mutant: the load of A stops at m only.
InsideRowsOnly(r, rows, c, cols) == r < rows

Inside(r, rows, c, cols) == r < rows /\ c < cols

\* The share of a tile a thread loads, by rows that are Dim apart from `first`
\* and a vector of columns: what is out of bounds is zero.
LoadTile(old, first, vector, ptr, r0, c0, rows, cols, ld) ==
  [rc \in Square |->
     IF rc[1] % Dim = first /\ rc[2] \div Vec = vector
     THEN IF Inside(r0 + rc[1], rows, c0 + rc[2], cols)
          THEN Cell(ptr, (r0 + rc[1]) * ld + c0 + rc[2]) ELSE Zero
     ELSE old[rc]]

\* What the device can load at once: vectors laid out from the start of a buffer.
Vectors(buf) == {[v \in 0 .. Vec - 1 |-> Vec * q + v] : q \in 0 .. Cardinality(DOMAIN mem[buf]) \div Vec}

\* A load the guard lets through as a vector is none, or runs out of its buffer.
BadVectorLoad(first, vector, ptr, r0, c0, rows, cols, ld) ==
  \E i \in 0 .. Vec - 1 :
    LET r == r0 + i * Dim + first
        c == c0 + vector * Vec
        cells == [v \in 0 .. Vec - 1 |-> ptr.off + r * ld + c + v]
    IN  /\ r < rows /\ c + Vec <= cols /\ Aligned(ptr, r * ld + c)
        /\ \/ cells \notin Vectors(ptr.buf)
           \/ ~(\A v \in DOMAIN cells : cells[v] \in DOMAIN mem[ptr.buf])

\* Both tiles of one step along k.
GemmLoad(t) ==
  /\ Ready(t, {"gemm"}, "load")
  /\ LET x  == t[1]
         y  == t[2]
         kk == Segment(t).kk
     IN  /\ smem' = [smem EXCEPT
              !.A = LoadTile(@, y, x, Now.A, Row0, kk, Now.m, Now.k, Now.lda),
              !.B = IF Now.transB
                    THEN LoadTile(@, x, y, Now.B, Col0, kk, Now.n, Now.k, Now.ldb)
                    ELSE LoadTile(@, y, x, Now.B, kk, Col0, Now.k, Now.n, Now.ldb)]
         /\ fault' = \/ fault
                     \/ BadVectorLoad(y, x, Now.A, Row0, kk, Now.m, Now.k, Now.lda)
                     \/ IF Now.transB
                        THEN BadVectorLoad(x, y, Now.B, Col0, kk, Now.n, Now.k, Now.ldb)
                        ELSE BadVectorLoad(y, x, Now.B, kk, Col0, Now.k, Now.n, Now.ldb)
  /\ th' = Done(t)
  /\ UNCHANGED <<call, mem, todo, block, stored, step>>

\* The row and the column of the tile that a thread's i and j stand for.
TileRow(t, i) == i * Dim + t[2]
TileCol(t, j) == j * Dim + t[1]

\* regA and a row or a column of B, along the whole tile.
Dot(a, b) == Products([q \in 1 .. Tile |-> <<a[q - 1], b[q - 1]>>])

GemmCompute(t) ==
  /\ Ready(t, {"gemm"}, "compute")
  /\ LET a(i) == [q \in 0 .. Tile - 1 |-> smem.A[TileRow(t, i), q]]
         b(j) == [q \in 0 .. Tile - 1 |->
                    IF Now.transB THEN smem.B[TileCol(t, j), q] ELSE smem.B[q, TileCol(t, j)]]
     IN  th' = [Done(t) EXCEPT ![t].acc =
                  [ij \in PerThread |-> @[ij] \o Dot(a(ij[1]), b(ij[2]))]]
  /\ UNCHANGED <<call, mem, todo, block, smem, stored, fault, step>>

\* The bias of the tile's columns, dealt out to the threads one by one.
BiasLoad(t) ==
  /\ Ready(t, {"gemm"}, "bias")
  /\ smem' = [smem EXCEPT !.bias = [c \in 0 .. Tile - 1 |->
                IF c % (Dim * Dim) = t[2] * Dim + t[1]
                THEN IF Col0 + c < Now.n THEN mem.bias[Col0 + c] ELSE Zero
                ELSE @[c]]]
  /\ th' = Done(t)
  /\ UNCHANGED <<call, mem, todo, block, stored, fault, step>>

\* Mutant: the columns are not clipped.
StoresAllColumns(t) == {ij \in PerThread : Row0 + TileRow(t, ij[1]) < Now.m}

\* The cells of its tile a thread may store.
Stores(t) == {ij \in PerThread : Row0 + TileRow(t, ij[1]) < Now.m /\ Col0 + TileCol(t, ij[2]) < Now.n}

\* A thread stores cells of a buffer: astray if it has no such cell, or the
\* launch has stored it.
Store(buf, cells) ==
  /\ mem' = [mem EXCEPT ![buf] = [a \in DOMAIN @ |-> IF a \in DOMAIN cells THEN cells[a] ELSE @[a]]]
  /\ stored' = stored \cup DOMAIN cells
  /\ fault' = (fault \/ DOMAIN cells \cap stored # {} \/ ~(DOMAIN cells \subseteq DOMAIN mem[buf]))

\* The cells thread t stores, each with what value(ij) says, rows ldc apart.
StoreTile(t, ptr, ldc, value(_)) ==
  LET cell(ij) == ptr.off + (Row0 + TileRow(t, ij[1])) * ldc + Col0 + TileCol(t, ij[2])
  IN  Store(ptr.buf, [a \in {cell(ij) : ij \in Stores(t)} |->
                        value(CHOOSE ij \in Stores(t) : cell(ij) = a)])

GemmStore(t) ==
  /\ Ready(t, {"gemm"}, "store")
  /\ LET value(ij) == LET sum == <<"sum", th[t].acc[ij]>>
                      IN  IF Now.bias THEN <<"plus", sum, smem.bias[TileCol(t, ij[2])]>> ELSE sum
     IN  StoreTile(t, Now.C, Now.ldc, value)
  /\ th' = Done(t)
  /\ UNCHANGED <<call, todo, block, smem, step>>

-----------------------------------------------------------------------------
(* The fused gate/up gemm of the MLP: up is `intermediate` rows further    *)
(* down W.  It looks at no address, and its launch wants rows that start   *)
(* aligned.                                                                *)

SiluLoad(t) ==
  /\ Ready(t, {"silu"}, "load")
  /\ LET x  == t[1]
         y  == t[2]
         kk == Segment(t).kk
         W  == Ptr("gate_up", 0)
         Up == Ptr("gate_up", Now.n * Now.k)
         unaligned(r0, first, vector, rows, last) ==
           \E i \in 0 .. Vec - 1 :
             /\ r0 + i * Dim + first < rows
             /\ kk + vector * Vec + Vec <= last
             /\ ((r0 + i * Dim + first) * Now.k + kk + vector * Vec) % Vec # 0
     IN  /\ smem' = [smem EXCEPT
              !.A  = LoadTile(@, y, x, Ptr("x", 0), Row0, kk, Now.m, Now.k, Now.k),
              !.B  = LoadTile(@, x, y, W, Col0, kk, Now.n, Now.k, Now.k),
              !.up = LoadTile(@, x, y, Up, Col0, kk, Now.n, Now.k, Now.k)]
         /\ fault' = (fault \/ unaligned(Row0, y, x, Now.m, Now.k - 1)
                             \/ unaligned(Col0, x, y, Now.n, Now.k))
  /\ th' = Done(t)
  /\ UNCHANGED <<call, mem, todo, block, stored, step>>

SiluCompute(t) ==
  /\ Ready(t, {"silu"}, "compute")
  /\ LET a(i)    == [q \in 0 .. Tile - 1 |-> smem.A[TileRow(t, i), q]]
         gate(j) == [q \in 0 .. Tile - 1 |-> smem.B[TileCol(t, j), q]]
         up(j)   == [q \in 0 .. Tile - 1 |-> smem.up[TileCol(t, j), q]]
     IN  th' = [Done(t) EXCEPT
                  ![t].acc = [ij \in PerThread |-> @[ij] \o Dot(a(ij[1]), gate(ij[2]))],
                  ![t].up  = [ij \in PerThread |-> @[ij] \o Dot(a(ij[1]), up(ij[2]))]]
  /\ UNCHANGED <<call, mem, todo, block, smem, stored, fault, step>>

SiluStore(t) ==
  /\ Ready(t, {"silu"}, "store")
  /\ LET value(ij) == SiluAndMul(<<"sum", th[t].acc[ij]>>, <<"sum", th[t].up[ij]>>)
     IN  StoreTile(t, Ptr("act", 0), Now.n, value)
  /\ th' = Done(t)
  /\ UNCHANGED <<call, todo, block, smem, step>>

-----------------------------------------------------------------------------
(* The scores are scaled and masked in place, a thread to a score.  A later *)
(* key gets (T)(-FLT_MAX), which is an infinity in bf16.                   *)

Hidden == IF call.dtype = "bf16" THEN -Infinity ELSE -FLT_MAX

ScaleMask ==
  /\ step = "run" /\ block = NoBlock /\ todo # <<>> /\ Now.kernel = "scale_mask"
  /\ LET seq == call.seq
         rows == {r \in 0 .. Ceil(call.heads * seq, MaskDim) * MaskDim - 1 : r < call.heads * seq}
         cols == {c \in 0 .. Ceil(seq, MaskDim) * MaskDim - 1 : c < seq}
         value(r, c) == Masked(RawScore(mem.qk[r * seq + c], call.head_dim, call.pattern),
                               call.mask, r % seq, c, seq, Hidden)
     IN  mem' = [mem EXCEPT !.qk = [a \in DOMAIN @ |->
                   IF a \div seq \in rows /\ a % seq \in cols THEN value(a \div seq, a % seq) ELSE @[a]]]
  /\ todo' = Tail(todo)
  /\ UNCHANGED <<call, block, smem, th, stored, fault, step>>

-----------------------------------------------------------------------------
(* A row on one block: softmax's maximum and sum, rmsnorm's sum of squares. *)

\* Where element i of the block's row is: the three sizes of the tensor.
Place(i) ==
  (block \div Now.inner) * Now.size * Now.inner + i * Now.inner + (block % Now.inner)

ElementAt(i) == ValueOf(mem[Now.x][Place(i)])

\* What a thread without an element of a softmax row starts with; rmsnorm sets
\* partial to zero.
NoElement == IF Now.kernel = "softmax" THEN [m |-> -FLT_MAX, l |-> 0] ELSE [m |-> 0, l |-> EmptyBag]

OneElement(i) == IF Now.kernel = "softmax" THEN [m |-> ElementAt(i), l |-> One]
           ELSE [m |-> 0, l |-> SetToBag({mem[Now.x][Place(i)]})]

\* Two partial results become one; a tie keeps the first maximum.
Joined(a, b) ==
  IF Now.kernel = "rmsnorm" THEN [m |-> 0, l |-> a.l (+) b.l]
  ELSE IF a.m >= b.m THEN [m |-> a.m, l |-> Plus(a.l, TimesExpOf(b.l, b.m, a.m))]
  ELSE [m |-> b.m, l |-> Plus(TimesExpOf(a.l, a.m, b.m), b.l)]

\* One turn of the loop over a thread's further elements.
TakeElement(a, i) ==
  IF Now.kernel = "rmsnorm" THEN Joined(a, OneElement(i))
  ELSE LET m == Fmax(a.m, ElementAt(i))
       IN  [m |-> m, l |-> Plus(TimesExpOf(a.l, a.m, m), TimesExpOf(One, ElementAt(i), m))]

Share(t) == {i \in 0 .. Now.size - 1 : i % Threads = t}

\* Each thread takes every Threads-th element of the row.
Fold(t) ==
  /\ Ready(t, {"softmax", "rmsnorm"}, "fold")
  /\ LET start == IF t < Now.size THEN OneElement(t) ELSE NoElement
         Turn(s) == [i |-> s.i + Threads, a |-> TakeElement(s.a, s.i)]
         turns == Cardinality(Share(t) \ {t})
     IN  smem' = [smem EXCEPT ![t] = Iterate(Turn, [i |-> t + Threads, a |-> start], turns).a]
  /\ th' = Done(t)
  /\ UNCHANGED <<call, mem, todo, block, stored, fault, step>>

\* A round of the tree: the lower half of the slots takes the upper in.
Tree(t) ==
  /\ Ready(t, {"softmax", "rmsnorm"}, "tree")
  /\ LET width == Segment(t).width
     IN  smem' = IF t < width THEN [smem EXCEPT ![t] = Joined(@, smem[t + width])] ELSE smem
  /\ th' = Done(t)
  /\ UNCHANGED <<call, mem, todo, block, stored, fault, step>>

\* The lanes of the first warp shuffle down, together; a lane beyond the last
\* gets its own value.  Lane 0 writes the result.
Shuffle(t) ==
  /\ Ready(t, {"softmax", "rmsnorm"}, "shuffle")
  /\ LET Turn(s) == [off |-> s.off \div 2,
                     r |-> [i \in 0 .. WarpSize - 1 |->
                              Joined(s.r[i], s.r[IF i + s.off < WarpSize THEN i + s.off ELSE i])]]
         lanes == [i \in 0 .. WarpSize - 1 |-> smem[i]]
         rounds == Cardinality({n \in 1 .. WarpSize : 2 ^ n <= WarpSize})
     IN  smem' = IF t = 0
                 THEN [smem EXCEPT ![0] = Iterate(Turn, [off |-> WarpSize \div 2, r |-> lanes], rounds).r[0]]
                 ELSE smem
  /\ th' = Done(t)
  /\ UNCHANGED <<call, mem, todo, block, stored, fault, step>>

\* Every thread reads the result and writes its elements.
Write(t) ==
  /\ Ready(t, {"softmax", "rmsnorm"}, "write")
  /\ LET value(i) == IF Now.kernel = "softmax" THEN Probability(ElementAt(i), smem[0].m, smem[0].l)
                     ELSE <<"norm", mem[Now.x][Place(i)], smem[0].l, mem.w[i]>>
     IN  Store(Now.out, [a \in {Place(i) : i \in Share(t)} |->
                           value(CHOOSE i \in Share(t) : Place(i) = a)])
  /\ th' = Done(t)
  /\ UNCHANGED <<call, todo, block, smem, step>>

-----------------------------------------------------------------------------
(* Thread blocks and the host, which waits for every launch.               *)

GemmThread   == (0 .. Dim - 1) \X (0 .. Dim - 1)
ReduceThread == 0 .. Threads - 1

JunkSquare == [rc \in Square |-> Junk]
NoSums     == [ij \in PerThread |-> <<>>]

FreshShared(launch) ==
  IF launch.kernel \in {"gemm", "silu"}
  THEN [A |-> JunkSquare, B |-> JunkSquare, up |-> JunkSquare, bias |-> [c \in 0 .. Tile - 1 |-> Junk]]
  ELSE [t \in ReduceThread |-> [m |-> Infinity, l |-> IF launch.kernel = "softmax" THEN 0 ELSE SetToBag({Junk})]]

FreshThreads(launch) ==
  IF launch.kernel \in {"gemm", "silu"}
  THEN [t \in GemmThread |-> [done |-> 0, acc |-> NoSums, up |-> NoSums]]
  ELSE [t \in ReduceThread |-> [done |-> 0]]

\* The fused kernel's launch refuses rows that do not start aligned.
Refused(launch) == launch.kernel = "silu" /\ launch.k % Vec # 0

Init ==
  /\ call \in Calls
  /\ mem = BuffersOf(call)
  /\ todo = LaunchesOf(call) /\ block = NoBlock /\ step = "run"
  /\ smem = <<>> /\ th = <<>> /\ stored = {} /\ fault = FALSE

Launch ==
  /\ step = "run" /\ block = NoBlock /\ todo # <<>>
  /\ Now.kernel # "scale_mask" /\ ~Refused(Now)
  /\ block' = 0 /\ stored' = {}
  /\ smem' = FreshShared(Now) /\ th' = FreshThreads(Now)
  /\ UNCHANGED <<call, mem, todo, fault, step>>

LaunchRefused ==
  /\ step = "run" /\ block = NoBlock /\ todo # <<>> /\ Refused(Now)
  /\ step' = "thrown"
  /\ UNCHANGED <<call, mem, todo, block, smem, th, stored, fault>>

\* The next block, or cudaDeviceSynchronize returns.
BlockDone ==
  /\ block # NoBlock /\ \A t \in DOMAIN th : th[t].done = Len(Segments)
  /\ IF block + 1 < GridSize
     THEN /\ block' = block + 1 /\ smem' = FreshShared(Now) /\ th' = FreshThreads(Now)
          /\ UNCHANGED todo
     ELSE block' = NoBlock /\ todo' = Tail(todo) /\ smem' = <<>> /\ th' = <<>>
  /\ UNCHANGED <<call, mem, stored, fault, step>>

Return ==
  /\ step = "run" /\ todo = <<>>
  /\ step' = "done"
  /\ UNCHANGED <<call, mem, todo, block, smem, th, stored, fault>>

Ended == step \in {"done", "thrown"} /\ UNCHANGED vars

Next ==
  \/ Launch \/ LaunchRefused \/ ScaleMask \/ BlockDone \/ Return \/ Ended
  \/ \E t \in DOMAIN th :
       \/ GemmLoad(t) \/ GemmCompute(t) \/ BiasLoad(t) \/ GemmStore(t)
       \/ SiluLoad(t) \/ SiluCompute(t) \/ SiluStore(t)
       \/ Fold(t) \/ Tree(t) \/ Shuffle(t) \/ Write(t)

Spec == Init /\ [][Next]_vars

-----------------------------------------------------------------------------
(* Properties.                                                             *)

\* What the CPU branch of the operator returns.
HostResult ==
  CASE call.op = "gemm"   -> Gemm(mem.A, mem.B, call.m, call.k, call.n, call.transB)
    [] call.op = "linear" -> Linear(mem.x, mem.w, IF call.bias THEN mem.bias ELSE <<>>,
                                    call.m, call.k, call.n)
    [] call.op = "mlp"    -> Mlp(mem.x, mem.gate_up, mem.down, call.m, call.k, call.d)
    [] call.op = "attention" -> Attention(mem.Q, mem.K, mem.V, call.heads, call.kv_heads, call.seq,
                                          call.head_dim, call.mask, call.pattern)
    [] call.op = "softmax" -> Softmax(mem.x, call.shape, call.dim)
    [] call.op = "rmsnorm" -> RmsNorm(mem.x, mem.w, call.rows, call.hidden)

\* An operator returns on the device what it returns on the CPU: every element
\* takes in exactly its own products, whatever the edges of the tiles, the
\* strides and heads, and whichever thread runs ahead (gemm.h:98-99,
\* attention.h:65, softmax.h:53).
DeviceAgreesWithHost == step = "done" => mem.out = HostResult

\* Every vector load takes a vector of the device and stays in its buffer,
\* from strided and offset bases too, for which the guard of gemm.cu:65 is
\* there; and a launch stores each cell once, inside its buffer: the heads of
\* an attention share the rows of one result (gemm.h:133-145).
LaunchesAreClean == ~fault

\* The slots of shared memory that still count: those below the width of the
\* round, and above it those not taken in yet.
Reducing == block # NoBlock /\ Now.kernel \in {"softmax", "rmsnorm"}
Level == Min({th[t].done : t \in ReduceThread})
Live ==
  IF Level = Len(Segments) THEN {0}
  ELSE LET segment == Segments[Level + 1]
       IN  CASE segment.do = "tree" ->
                  (0 .. segment.width - 1)
                  \cup {t + segment.width : t \in {u \in 0 .. segment.width - 1 : th[u].done = Level}}
             [] segment.do = "shuffle" -> IF th[0].done = Level THEN 0 .. WarpSize - 1 ELSE {0}
             [] OTHER -> {0}

WholeRow == LET Turn(s) == [i |-> s.i + 1, a |-> TakeElement(s.a, s.i)]
            IN  Iterate(Turn, [i |-> 0, a |-> NoElement], Now.size).a

\* However far each thread is in a reduction, the slots that still count add up
\* to the row: no element is lost or taken twice, threads without an element
\* among them (softmax.cu:26-30, and the round of width 32 at softmax.cu:44).
NothingLostInTree ==
  Reducing /\ Level > 0 =>
    FoldSet(LAMBDA t, a : Joined(a, smem[t]), NoElement, Live) = WholeRow

\* "Attention's causal mask always leaves the diagonal visible, so the attention
\* path never hits this" (softmax.h:36): no probability of a causal attention
\* is the NaN of a fully masked slice.
CausalRowsAreNumbers ==
  call.op = "attention" /\ call.mask = NoMask =>
    \A a \in DOMAIN mem.weights : mem.weights[a] # <<"nan">>
=============================================================================
