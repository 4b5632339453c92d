---------------------------- MODULE MCRadixCache ----------------------------
(* RadixCache with blocks of two tokens.  Aligned: sequences that part at the *)
(* first token of a block.  Crooked: two that part inside one.                *)
EXTENDS RadixCache

A == <<1, 9>>
B == <<2, 9>>
MCAligned == {A \o <<1>>, A \o A, A \o B, A \o B \o <<1>>, B \o A \o A}
MCCrooked == {<<1, 1, 1, 1>>, <<1, 1, 1, 2, 1, 1>>, <<1, 1, 2, 1, 2, 2>>}

ASSUME AlignedPart == TokenSeqs = MCAligned => PartAtBlocks

Perms == Permutations(Client)
=============================================================================
