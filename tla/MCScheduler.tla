---------------------------- MODULE MCScheduler ----------------------------
(* Scheduler with blocks of two tokens.  Only the first token of a block    *)
(* varies, so that sequences part at block boundaries.                      *)
EXTENDS Scheduler

MCEos    == 0
MCNextTokens(seq) == IF Len(seq) % BlockSize = 0 THEN {0, 1} ELSE {9}
MCNextPlain(seq)  == IF Len(seq) % BlockSize = 0 THEN {1} ELSE {9}

\* Requests 1 and 2 share their first block, 3 shares it with nobody.
MCPrompt    == [r \in Request |-> CASE r = 1 -> <<1, 9, 1>> [] r = 2 -> <<1, 9, 2>> [] OTHER -> <<2>>]
\* Sequences that end with a full block; ones that grow a block for each token.
MCPromptFull    == [r \in Request |-> IF r = 1 THEN <<1, 9, 1>> ELSE <<1, 9, 1, 9, 1>>]
MCMaxTokensFull == [r \in Request |-> 1]
MCPromptExact    == [r \in Request |-> <<1, 9, 9>>]
MCMaxTokensExact == [r \in Request |-> 3]
MCMaxTokens == [r \in Request |-> IF r = 3 THEN 2 ELSE 4]
=============================================================================
