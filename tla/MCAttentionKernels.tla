------------------------- MODULE MCAttentionKernels -------------------------
(* AttentionKernels with tiles of four keys by two queries, decode tiles of  *)
(* two keys, two warps, blocks of two tokens.                                *)
EXTENDS AttentionKernels

Base == [op |-> "batched", is_decode |-> FALSE, q |-> <<1>>, k |-> <<1>>, tables |-> <<<<0>>>>,
         shared |-> 0, num_splits |-> 0, head |-> 2, layer |-> 1, head_dim |-> 64,
         score |-> [a |-> 1, b |-> 1, n |-> 3], mask |-> NoMask]

Patterns == {[a |-> 1, b |-> 0, n |-> 3], [a |-> 2, b |-> 1, n |-> 3], [a |-> 0, b |-> 1, n |-> 2]}
TwoScores == {[a |-> 1, b |-> 0, n |-> 2], [a |-> 1, b |-> 1, n |-> 2]}

\* Requests of five keys and three, then of one, three and seven.
MCDecodes ==
  {[Base EXCEPT !.is_decode = TRUE, !.q = <<1, 1>>, !.k = <<5, 3>>, !.num_splits = n,
                !.tables = <<<<3, 0, 5>>, <<3, 1>>>>, !.shared = 2, !.score = p] :
     n \in 0 .. 4, p \in TwoScores}
  \cup
  {[Base EXCEPT !.is_decode = TRUE, !.q = <<1, 1, 1>>, !.k = <<1, 3, 7>>, !.num_splits = n,
                !.tables = <<<<6>>, <<4, 1>>, <<0, 5, 2, 3>>>>, !.score = p] :
     n \in {0, 1, 3}, p \in TwoScores}

\* A short and a long request, fresh and behind a prefix they share.
MCPrefills ==
  {[Base EXCEPT !.q = <<3, 5>>, !.k = <<3, 5>>, !.tables = <<<<2, 4>>, <<1, 5, 0>>>>, !.score = p] :
     p \in Patterns}
  \cup
  {[Base EXCEPT !.q = <<1, 3>>, !.k = <<3, 7>>, !.tables = <<<<6, 1>>, <<6, 5, 2, 0>>>>,
                !.shared = 2, !.head = 1, !.score = p] : p \in Patterns}

MCSingles ==
  {[Base EXCEPT !.op = "single", !.q = <<q>>, !.k = <<k>>, !.tables = <<<<2, 4, 0>>>>, !.score = p] :
     q \in {3}, k \in {3, 5}, p \in Patterns}
  \cup
  {[Base EXCEPT !.op = "single", !.is_decode = TRUE, !.k = <<5>>, !.tables = <<<<2, 4, 0>>>>,
                !.layer = 0, !.score = p] : p \in Patterns}

\* A mask that lets a query see later keys and hides earlier ones.
Hidden == -Infinity
MCMask == [q \in 0 .. 4 |-> [k \in 0 .. 4 |-> IF (q + k) % 5 \in {0, 4} THEN 0 ELSE Hidden]]

MCFa2s ==
  {[Base EXCEPT !.op = "fa2", !.q = <<5>>, !.k = <<5>>, !.mask = m, !.score = p] :
     m \in {MCMask}, p \in Patterns}
  \cup {[Base EXCEPT !.op = "fa2", !.q = <<q>>, !.k = <<q>>, !.score = p] : q \in {3, 5}, p \in Patterns}
  \cup {[Base EXCEPT !.op = "fa2", !.is_decode = TRUE, !.k = <<5>>, !.score = p] : p \in Patterns}

MCRefused == {[Base EXCEPT !.head_dim = 128]}

MCCalls == MCDecodes \cup MCPrefills \cup MCSingles \cup MCFa2s \cup MCRefused
=============================================================================
