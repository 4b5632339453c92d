--------------------------- MODULE MCPagedKVCache ---------------------------
(* PagedKVCache with interchangeable caches. *)
EXTENDS PagedKVCache

Perms == Permutations(Cache)
=============================================================================
