---------------------------- MODULE ContinuousKV ----------------------------
(***************************************************************************)
(* kv_cache.cpp under the forward pass of one sequence: the contiguous     *)
(* cache, written layer by layer in flat memory and compacted for reading, *)
(* against the forward pass without a cache.                               *)
(*                                                                         *)
(* A tensor is a function from flat addresses to rows of head_dim values,  *)
(* and a row says what was computed: the token at its root, and all that   *)
(* was attended to on the way.  Two rows are equal only when the program   *)
(* computes the same from the same.                                        *)
(***************************************************************************)
EXTENDS Naturals, Sequences, FiniteSets

CONSTANTS Token,              \* the vocabulary
          NumLayers,          \* num_hidden_layers
          NumHeads,           \* num_attention_heads
          NumKVHeads,         \* num_key_value_heads
          MaxSeqLen,          \* max_seq_len of the cache
          Setups,             \* the devices, with the positions rope_cache has
          Prompts,            \* the texts prefilled
          Junk,               \* what was never written
          Lost                \* not a text

ASSUME SequenceAssumption ==
  /\ NumLayers \in Nat \ {0} /\ NumKVHeads \in Nat \ {0}
  /\ NumHeads \in Nat \ {0} /\ NumHeads % NumKVHeads = 0
  /\ MaxSeqLen \in Nat \ {0} /\ Setups \subseteq [device : {"CPU", "CUDA"}, rope_len : Nat]
  /\ Prompts \subseteq Seq(Token)

VARIABLES setup,              \* the device, and the positions rope_cache has
          k, v,               \* k_cache_, v_cache_ of each layer
          cursor,             \* cursor_
          pass,               \* the forward pass under way
          logits,             \* what the last pass returned
          text,               \* history: the tokens of the passes that returned
          broken              \* history: a pass threw after it had written

vars  == <<setup, k, v, cursor, pass, logits, text, broken>>
cache == <<k, v, cursor>>

Layer == 0 .. NumLayers - 1
Rep   == NumHeads \div NumKVHeads
NoPass == [at |-> "none"]

-----------------------------------------------------------------------------
(* The operators of a block, by the rows they read and write.              *)

\* embedding: one hidden row for each token.
Embedding(tokens) == [s \in 0 .. Len(tokens) - 1 |-> [tok |-> tokens[s + 1], past |-> <<>>]]

\* linear: (seq, heads), row by row.
Linear(x, w, heads) ==
  [i \in 0 .. Cardinality(DOMAIN x) * heads - 1 |-> [w |-> w, head |-> i % heads, of |-> x[i \div heads]]]

\* Mutant: the split reads its input as if it were split already.
HeadSplitFlat(t, heads, seq) == [i \in 0 .. heads * seq - 1 |-> t[i]]

\* head_split: (seq, heads) to (heads, seq).
HeadSplit(t, heads, seq) == [i \in 0 .. heads * seq - 1 |-> t[(i % seq) * heads + i \div seq]]

\* rope turns each row by its position; it refuses positions it has no row for.
RopeRefuses(positions) == \E s \in DOMAIN positions : positions[s] >= setup.rope_len
Rope(t, positions, seq) ==
  [i \in DOMAIN t |-> [row |-> t[i], pos |-> positions[i % seq]]]

\* The keys and values one row of one head attends to: all of them for a lone
\* query, those up to its own otherwise.
Attended(K, V, h, s, seq_q, seq_k) ==
  [j \in 0 .. (IF seq_q = 1 THEN seq_k - 1 ELSE s) |->
     <<K[(h \div Rep) * seq_k + j], V[(h \div Rep) * seq_k + j]>>]

\* attention and attention_fa2 are one function of their rows; (seq_q, heads).
Attention(Q, K, V, seq_q, seq_k) ==
  [i \in 0 .. seq_q * NumHeads - 1 |->
     LET s == i \div NumHeads
         h == i % NumHeads
     IN  <<Q[h * seq_q + s], Attended(K, V, h, s, seq_q, seq_k)>>]

\* The CPU's composite attention wants as many queries as keys, attention_fa2
\* takes a lone query as well.
AttentionRefuses(seq_q, seq_k) == seq_q # seq_k /\ (setup.device = "CPU" \/ seq_q # 1)

\* The rest of the block: o_proj, the residual and the MLP, row by row.
Residual(x, att) ==
  [s \in DOMAIN x |-> [tok |-> x[s].tok,
                       past |-> <<x[s].past, [h \in 0 .. NumHeads - 1 |-> att[s * NumHeads + h]]>>]]

\* The three projections of a block, split and turned.
Queries(x, positions, seq) == Rope(HeadSplit(Linear(x, "q", NumHeads), NumHeads, seq), positions, seq)
Keys(x, positions, seq)    == Rope(HeadSplit(Linear(x, "k", NumKVHeads), NumKVHeads, seq), positions, seq)
Values(x, seq)             == HeadSplit(Linear(x, "v", NumKVHeads), NumKVHeads, seq)

-----------------------------------------------------------------------------
(* The cache.                                                              *)

Buffer0 == [a \in 0 .. NumKVHeads * MaxSeqLen - 1 |-> Junk]

\* Mutant: the test for a full cache is repeated at each layer.
WriteRefusesEach(layer, seq, is_decode) ==
  seq >= MaxSeqLen \/ (is_decode /\ cursor >= MaxSeqLen)

\* write refuses a prefill without room for one more, and a decode when full.
WriteRefuses(layer, seq, is_decode) ==
  seq >= MaxSeqLen \/ (is_decode /\ layer = 0 /\ cursor >= MaxSeqLen)

\* Mutant: every layer advances the cursor.
AdvancedEach(layer, seq, is_decode) == IF is_decode THEN cursor + 1 ELSE seq

\* A decode moves the cursor at layer 0 only, a prefill sets it at each.
Advanced(layer, seq, is_decode) ==
  IF ~is_decode THEN seq ELSE IF layer = 0 THEN cursor + 1 ELSE cursor

\* Mutant: the heads are taken to be cursor rows apart.
CopiedCompact(buffer, rows, seq, is_decode, end) ==
  [a \in DOMAIN buffer |->
     LET i == a \div end
         s == a % end
     IN  IF i >= NumKVHeads THEN buffer[a]
         ELSE IF is_decode /\ s = end - 1 THEN rows[i * seq]
         ELSE IF ~is_decode /\ s < seq THEN rows[i * seq + s] ELSE buffer[a]]

\* A decode copies one row for each head, to the last place before the cursor;
\* a prefill copies each head's rows to the start of the head.
Copied(buffer, rows, seq, is_decode, end) ==
  [a \in DOMAIN buffer |->
     LET i == a \div MaxSeqLen
         s == a % MaxSeqLen
     IN  IF is_decode /\ s = end - 1 THEN rows[i * seq]
         ELSE IF ~is_decode /\ s < seq THEN rows[i * seq + s] ELSE buffer[a]]

\* Mutant: the view keeps the stride of the buffer.
ViewStrided(buffer) == [a \in 0 .. NumKVHeads * cursor - 1 |-> buffer[a]]

\* k_view, v_view: the live rows of each head, one head after the other.
View(buffer) ==
  [a \in 0 .. NumKVHeads * cursor - 1 |-> buffer[(a \div cursor) * MaxSeqLen + (a % cursor)]]

-----------------------------------------------------------------------------
(* The forward pass.                                                       *)

Init ==
  /\ setup \in Setups
  /\ k = [l \in Layer |-> Buffer0] /\ v = [l \in Layer |-> Buffer0]
  /\ cursor = 0
  /\ pass = NoPass /\ logits = <<>>
  /\ text = <<>> /\ broken = FALSE

\* Mutant: a decode's position is that of the last token written.
PositionsLate(tokens, is_decode) ==
  [s \in 0 .. Len(tokens) - 1 |->
     IF is_decode THEN (IF cursor = 0 THEN 0 ELSE cursor - 1) ELSE s]

\* The binding numbers a prefill from 0 and a decode from the cursor.
Positions(tokens, is_decode) ==
  [s \in 0 .. Len(tokens) - 1 |-> IF is_decode THEN cursor ELSE s]

Begin(tokens, is_decode) ==
  /\ pass = NoPass
  /\ pass' = [at |-> "write", layer |-> 0, is_decode |-> is_decode, tokens |-> tokens,
              positions |-> Positions(tokens, is_decode), x |-> Embedding(tokens)]
  /\ logits' = <<>>
  /\ UNCHANGED <<setup, cache, text, broken>>

Prefill == \E tokens \in Prompts : Begin(tokens, FALSE)

\* The caller goes on only from a cache whose last pass returned.
Decode == ~broken /\ \E t \in Token : Begin(<<t>>, TRUE)

\* What a throw leaves: the pass is over, and its writes stay.
Thrown ==
  /\ pass' = NoPass
  /\ broken' = (broken \/ pass.layer > 0 \/ pass.at = "attend")
  /\ UNCHANGED <<setup, cache, logits, text>>

Seq_q == Len(pass.tokens)

\* A layer up to kv_cache.write.
Write ==
  /\ pass.at = "write"
  /\ ~RopeRefuses(pass.positions) /\ ~WriteRefuses(pass.layer, Seq_q, pass.is_decode)
  /\ LET end == Advanced(pass.layer, Seq_q, pass.is_decode)
         l   == pass.layer
     IN  /\ cursor' = end
         /\ k' = [k EXCEPT ![l] = Copied(@, Keys(pass.x, pass.positions, Seq_q), Seq_q, pass.is_decode, end)]
         /\ v' = [v EXCEPT ![l] = Copied(@, Values(pass.x, Seq_q), Seq_q, pass.is_decode, end)]
  /\ pass' = [pass EXCEPT !.at = "attend"]
  /\ UNCHANGED <<setup, logits, text, broken>>

RefusedWrite ==
  /\ pass.at = "write"
  /\ RopeRefuses(pass.positions) \/ WriteRefuses(pass.layer, Seq_q, pass.is_decode)
  /\ Thrown

\* The rest of the layer: a prefill attends to the rows it has just computed,
\* a decode to the views.
BlockOut ==
  LET l == pass.layer
      Q == Queries(pass.x, pass.positions, Seq_q)
      att == IF pass.is_decode
             THEN Attention(Q, View(k[l]), View(v[l]), Seq_q, cursor)
             ELSE Attention(Q, Keys(pass.x, pass.positions, Seq_q), Values(pass.x, Seq_q), Seq_q, Seq_q)
  IN  Residual(pass.x, att)

Seq_k == IF pass.is_decode THEN cursor ELSE Seq_q

Attend ==
  /\ pass.at = "attend" /\ ~AttentionRefuses(Seq_q, Seq_k)
  /\ IF pass.layer < NumLayers - 1
     THEN /\ pass' = [pass EXCEPT !.at = "write", !.layer = @ + 1, !.x = BlockOut]
          /\ UNCHANGED <<logits, text, broken>>
     ELSE /\ pass' = NoPass
          /\ logits' = BlockOut
          /\ text' = IF pass.is_decode THEN text \o pass.tokens ELSE pass.tokens
          /\ broken' = FALSE
  /\ UNCHANGED <<setup, cache>>

RefusedAttend ==
  /\ pass.at = "attend" /\ AttentionRefuses(Seq_q, Seq_k)
  /\ Thrown

\* Any tensor of the pass may find no memory.
OutOfMemory == pass # NoPass /\ Thrown

Next == Prefill \/ Decode \/ Write \/ RefusedWrite \/ Attend \/ RefusedAttend \/ OutOfMemory

Spec == Init /\ [][Next]_vars

-----------------------------------------------------------------------------
(* Properties.                                                             *)

\* qwen2_forward without a cache: one block on the hidden rows of all tokens.
WholeBlock(x, seq) ==
  LET positions == [s \in 0 .. seq - 1 |-> s]
  IN  Residual(x, Attention(Queries(x, positions, seq), Keys(x, positions, seq), Values(x, seq), seq, seq))

Whole(tokens) ==
  LET after[l \in 0 .. NumLayers] ==
        IF l = 0 THEN Embedding(tokens) ELSE WholeBlock(after[l - 1], Len(tokens))
  IN  after[NumLayers]

\* A pass that returns has computed, for its tokens, what the pass without a
\* cache computes for the whole text (tests/models/test_cpp_cuda_qwen2_kv_cache.py),
\* whatever prefills, refusals and failures came before.
IncrementalIsWhole ==
  logits # <<>> =>
    LET whole == Whole(text)
        first == Len(text) - Cardinality(DOMAIN logits)
    IN  \A s \in DOMAIN logits : logits[s] = whole[first + s]

\* The text in the cache: what all layers and heads agree to hold.
Held(p) == {r[l][i * MaxSeqLen + p - 1] : r \in {k}, l \in Layer, i \in 0 .. NumKVHeads - 1}
StoredText ==
  [p \in 1 .. cursor |->
     IF \E t \in Token : \A row \in Held(p) : row # Junk /\ row.pos = p - 1 /\ row.row.of.tok = t
     THEN CHOOSE t \in Token : \A row \in Held(p) : row.row.of.tok = t ELSE Junk]

\* The cache is a text: a prefill replaces it, a decode adds its token, and a
\* pass that is refused at its first layer changes nothing.
Sequence ==
  INSTANCE SequenceCache WITH
    text <- IF broken THEN Lost ELSE IF pass = NoPass THEN StoredText ELSE text
SequenceSpec == Sequence!Spec

\* On the device for which decoding is written, a pass the cache or rope
\* refuses is refused before it has touched the cache.
RefusedAtOnce ==
  [][(RefusedWrite \/ RefusedAttend) /\ setup.device = "CUDA" =>
       pass.layer = 0 /\ pass.at = "write"]_vars
=============================================================================
