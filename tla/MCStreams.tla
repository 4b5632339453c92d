----------------------------- MODULE MCStreams -----------------------------
(* Streams over the plain scheduler: two clients, blocks of two tokens, and  *)
(* a pool that is too small for both answers at their full length.          *)
EXTENDS Streams

MCEos == 0
MCNextTokens(seq) == IF Len(seq) % BlockSize = 0 THEN {0, 1} ELSE {9}
MCPrompt    == [r \in Request |-> IF r = 1 THEN <<1, 9, 1>> ELSE <<1, 9>>]
MCMaxTokens == [r \in Request |-> 2]
=============================================================================
