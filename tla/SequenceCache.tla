--------------------------- MODULE SequenceCache ---------------------------
(***************************************************************************)
(* What the cache of one sequence promises (kv_cache.h): it stands for a   *)
(* text.  A prefill replaces the text, a decode adds one token, and there  *)
(* is room for MaxSeqLen.  A pass that fails half-way loses the text; only *)
(* a prefill brings the cache back.                                        *)
(***************************************************************************)
EXTENDS Naturals, Sequences

CONSTANTS Token,              \* the vocabulary
          MaxSeqLen,          \* max_seq_len
          Lost                \* not a text

VARIABLE text

Init == text = <<>>

Prefill == \E n \in 0 .. MaxSeqLen - 1 : text' \in [1 .. n -> Token]

Decode ==
  /\ text # Lost /\ Len(text) < MaxSeqLen
  /\ \E t \in Token : text' = Append(text, t)

Lose == text' = Lost

Spec == Init /\ [][Prefill \/ Decode \/ Lose]_text
=============================================================================
