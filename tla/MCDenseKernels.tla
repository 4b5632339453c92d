--------------------------- MODULE MCDenseKernels ---------------------------
(* DenseKernels with tiles of four by four on two by two threads, and rows  *)
(* on eight threads of two-lane warps.                                      *)
EXTENDS DenseKernels

Pattern == [a |-> 1, b |-> 2, n |-> 3]

\* Shapes that end inside a tile, inside a vector, and at an edge.
MCGemms ==
  {[op |-> "gemm", m |-> 5, k |-> 6, n |-> 3, transB |-> t] : t \in BOOLEAN}
  \cup {[op |-> "linear", m |-> 3, k |-> 5, n |-> 6, bias |-> b] : b \in BOOLEAN}
  \cup {[op |-> "mlp", m |-> 2, k |-> k, d |-> 5] : k \in {5, 6}}

Causal == [op |-> "attention", dtype |-> "f32", heads |-> 2, kv_heads |-> 1, seq |-> 5,
           head_dim |-> 6, mask |-> NoMask, pattern |-> Pattern]

\* A mask that hides earlier keys and shows later ones.
MCMask == [a \in 0 .. 8 |-> IF a \in {1, 3, 8} THEN -FLT_MAX ELSE 0]

MCAttentions ==
  {Causal, [Causal EXCEPT !.dtype = "bf16"],
   [Causal EXCEPT !.heads = 4, !.kv_heads = 2, !.seq = 3, !.mask = MCMask]}

MCRows ==
  {[op |-> "softmax", shape |-> s, dim |-> d, values |-> <<1, 0, 2, 2, 1>>] :
     s \in {<<2, 3, 2>>}, d \in {-2, 2}}
  \cup {[op |-> "softmax", shape |-> <<10>>, dim |-> 0, values |-> <<0, 2, 1, -FLT_MAX>>]}
  \cup {[op |-> "rmsnorm", rows |-> 2, hidden |-> h] : h \in {3, 11}}

MCCalls == MCGemms \cup MCAttentions \cup MCRows

\* A bf16 prompt longer than half a block.
MCLongCausal == {[Causal EXCEPT !.dtype = "bf16", !.heads = 1, !.seq = 6, !.head_dim = 2]}
=============================================================================
