--------------------------- MODULE MCContinuousKV ---------------------------
(* A cache for three tokens and a vocabulary of two.                        *)
EXTENDS ContinuousKV

MCSetups  == {[device |-> "CPU", rope_len |-> 4], [device |-> "CUDA", rope_len |-> 4],
              [device |-> "CUDA", rope_len |-> 2]}
MCPrompts == UNION {[1 .. n -> Token] : n \in 1 .. MaxSeqLen}
=============================================================================
