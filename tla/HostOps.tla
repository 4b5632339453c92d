------------------------------- MODULE HostOps -------------------------------
(***************************************************************************)
(* The CPU branches of gemm, linear, mlp, attention, softmax and rmsnorm,  *)
(* which the repository trusts and tests its device kernels against.       *)
(*                                                                         *)
(* A tensor is a function from flat addresses to cells.  A cell of an      *)
(* input is its own name and address, and any other says how it was        *)
(* computed: a sum names its products in order, without the zero ones, so  *)
(* that cells are equal only when the same was computed from the same.     *)
(* Rounding, and so the type of the elements, is left out, but for what    *)
(* becomes of -FLT_MAX.                                                    *)
(***************************************************************************)
EXTENDS OnlineSoftmax

Zero == <<"zero">>
Junk == <<"junk">>
NaN  == -1                 \* among the weights, which are not negative

Ceil(a, b) == (a + b - 1) \div b

\* What a buffer holds at an address; anything lies beyond its end.
At(buffer, a) == IF a \in DOMAIN buffer THEN buffer[a] ELSE Junk

Nonzero(pair) == Zero \notin {pair[1], pair[2]}
Products(pairs) == SelectSeq(pairs, Nonzero)

\* gemm_cpu: the element of C at row i and column j.
Product(A, a0, B, b0, i, j, k, transB, lda, ldb) ==
  <<"sum", Products([q \in 1 .. k |->
     <<At(A, a0 + i * lda + q - 1),
       At(B, b0 + (IF transB THEN (q - 1) + j * ldb ELSE (q - 1) * ldb + j))>>])>>

\* gemm, into an (m, n) result.
Gemm(A, B, m, k, n, transB) ==
  [a \in 0 .. m * n - 1 |->
     Product(A, 0, B, 0, a \div n, a % n, k, transB, k, IF transB THEN k ELSE n)]

\* linear: x . weight^T, and the bias on every row if there is one.
Biased(sum, bias, j) == IF bias = <<>> THEN sum ELSE <<"plus", sum, bias[j]>>

Linear(x, weight, bias, m, k, n) ==
  LET c == Gemm(x, weight, m, k, n, TRUE)
  IN  [a \in DOMAIN c |-> Biased(c[a], bias, a % n)]

\* helper of mlp.cpp: silu(gate) * up, from the two halves of a row.
SiluAndMul(gate, up) == <<"act", gate, up>>

Mlp(x, gate_up_weight, down_weight, m, hidden, intermediate) ==
  LET gate_up == Linear(x, gate_up_weight, <<>>, m, hidden, 2 * intermediate)
      act == [a \in 0 .. m * intermediate - 1 |->
                LET i == a \div intermediate
                    j == a % intermediate
                IN  SiluAndMul(gate_up[i * 2 * intermediate + j],
                               gate_up[i * 2 * intermediate + j + intermediate])]
  IN  Linear(act, down_weight, <<>>, m, intermediate, hidden)

-----------------------------------------------------------------------------
(* softmax along an axis.                                                  *)

Score(s)    == <<"score", s>>
ValueOf(c)  == IF c[1] = "score" THEN c[2] ELSE Infinity

\* x * expf(a - b): the difference of two infinities is not a number.
TimesExpOf(x, a, b) ==
  IF x = NaN \/ (a = b /\ a \in {-Infinity, Infinity}) THEN NaN ELSE TimesExp(x, a - b)
Plus(a, b) == IF NaN \in {a, b} THEN NaN ELSE a + b

\* expf(x - m) / l.
Probability(x, m, l) ==
  LET w == TimesExpOf(One, x, m)
  IN  IF NaN \in {w, l} THEN <<"nan">> ELSE IF w = 0 THEN Zero ELSE <<"p", w, l>>

ProductOf(lengths) == LET f[i \in 0 .. Len(lengths)] == IF i = 0 THEN 1 ELSE f[i - 1] * lengths[i]
                      IN  f[Len(lengths)]
Stride(shape, axis) == ProductOf(SubSeq(shape, axis + 1, Len(shape)))

\* row_start: where a row along an axis (from 1) begins, by its number.
RowStart(row, axis, shape) ==
  LET Turn(t) ==
        IF t.i = axis THEN [t EXCEPT !.i = @ - 1]
        ELSE [i |-> t.i - 1, rest |-> t.rest \div shape[t.i],
              at |-> t.at + (t.rest % shape[t.i]) * Stride(shape, t.i)]
  IN  Iterate(Turn, [i |-> Len(shape), rest |-> row, at |-> 0], Len(shape)).at

\* A negative dim counts from the last axis.
AxisOf(dim, shape) == (IF dim < 0 THEN dim + Len(shape) ELSE dim) + 1

\* The three loops: the maximum from minus infinity, the sum, the quotient.
SoftmaxRow(values) ==
  LET m == Max({values[j] : j \in DOMAIN values} \cup {-Infinity})
      Turn(t) == [j |-> t.j + 1, l |-> Plus(t.l, TimesExpOf(One, values[t.j], m))]
      l == Iterate(Turn, [j |-> 1, l |-> 0], Len(values)).l
  IN  [j \in DOMAIN values |-> Probability(values[j], m, l)]

Softmax(x, shape, dim) ==
  LET axis  == AxisOf(dim, shape)
      size  == shape[axis]
      place(row, j) == RowStart(row, axis, shape) + j * Stride(shape, axis)
      rows  == 0 .. ProductOf(shape) \div size - 1
      done  == [row \in rows |-> SoftmaxRow([j \in 1 .. size |-> ValueOf(x[place(row, j - 1)])])]
  IN  [a \in DOMAIN x |->
         LET at == CHOOSE at \in rows \X (0 .. size - 1) : place(at[1], at[2]) = a
         IN  done[at[1]][at[2] + 1]]

-----------------------------------------------------------------------------
(* rmsnorm: the sum of the squares of a row is the bag of their addresses. *)

RmsNorm(x, weight, rows, hidden) ==
  [a \in 0 .. rows * hidden - 1 |->
     LET start == (a \div hidden) * hidden
     IN  <<"norm", x[a], SetToBag({x[start + j] : j \in 0 .. hidden - 1}), weight[a % hidden]>>]

-----------------------------------------------------------------------------
(* attention.                                                              *)

\* q . k of a whole query row and a whole key row is a score, whose value is
\* any function of the two; no other sum of products is one.
RawScore(cell, head_dim, pattern) ==
  LET pairs == cell[2]
      q0 == pairs[1][1][2]
      k0 == pairs[1][2][2]
  IN  IF /\ cell[1] = "sum" /\ Len(pairs) = head_dim
         /\ q0 % head_dim = 0 /\ k0 % head_dim = 0
         /\ \A d \in 1 .. head_dim : pairs[d] = <<<<"Q", q0 + d - 1>>, <<"K", k0 + d - 1>>>>
      THEN (pattern.a * (k0 \div head_dim) + pattern.b * (q0 \div head_dim)) % pattern.n
      ELSE Infinity

\* score + mask: what is added to a number as large as -FLT_MAX is lost.
PlusMask(s, m) == IF m <= -FLT_MAX THEN m ELSE s + m

NoMask == <<>>

\* An external mask replaces the causal one; hidden is what hides a later key.
Masked(s, mask, i, j, seq, hidden) ==
  IF mask # NoMask THEN Score(PlusMask(s, mask[i * seq + j]))
  ELSE IF i < j THEN Score(hidden)
  ELSE Score(s)

Attention(Q, K, V, heads, kv_heads, seq, head_dim, mask, pattern) ==
  LET rep == heads \div kv_heads
      raw(h, i, j) == Product(Q, h * seq * head_dim, K, (h \div rep) * seq * head_dim,
                              i, j, head_dim, TRUE, head_dim, head_dim)
      qk == [a \in 0 .. heads * seq * seq - 1 |->
               LET h == a \div (seq * seq)
                   i == (a \div seq) % seq
                   j == a % seq
               IN  Masked(RawScore(raw(h, i, j), head_dim, pattern), mask, i, j, seq, -Infinity)]
      Use(weights) ==
        [a \in 0 .. seq * heads * head_dim - 1 |->
           LET i == a \div (heads * head_dim)
               h == (a \div head_dim) % heads
           IN  Product(weights, h * seq * seq, V, (h \div rep) * seq * head_dim,
                       i, a % head_dim, seq, FALSE, seq, head_dim)]
  IN  With(Softmax(qk, <<heads, seq, seq>>, -1), Use)
=============================================================================
