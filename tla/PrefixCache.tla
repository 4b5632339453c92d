----------------------------- MODULE PrefixCache -----------------------------
(***************************************************************************)
(* What the prefix cache promises the scheduler, without tree, LRU list or *)
(* reference counts: a map from cached whole-block prefixes to blocks.     *)
(*                                                                         *)
(* A client holds the longest cached prefix of its tokens while it runs,   *)
(* and nothing it holds leaves the cache.  Only prefixes nobody holds and  *)
(* nothing extends may be forgotten, a finished client's prefixes are all  *)
(* cached, and a cached prefix keeps its block.                            *)
(***************************************************************************)
EXTENDS Integers, Sequences, FiniteSets

CONSTANTS Client, BlockSize, TokenSeqs

VARIABLES cached,         \* set of [prefix, block]
          held            \* per client, the cached entries it relies on, or None

None == [holding |-> FALSE]

Prefixes(c) == {e.prefix : e \in c}

\* A map, and no prefix without the ones it extends.
IsCache(c) ==
  /\ Cardinality(Prefixes(c)) = Cardinality(c)
  /\ \A p \in Prefixes(c) :
        Len(p) > BlockSize => SubSeq(p, 1, Len(p) - BlockSize) \in Prefixes(c)

\* The entries of c for the whole-block prefixes of tokens, up to length n.
EntriesOf(c, tokens, n) ==
  {e \in c : Len(e.prefix) <= n /\ e.prefix = SubSeq(tokens, 1, Len(e.prefix))}

Held == UNION {held[k].entries : k \in {j \in Client : held[j].holding}}

Init == cached = {} /\ held = [k \in Client |-> None]

\* A client starts.  The last token is kept out of the match: its logits have
\* to be computed.
Start(k, tokens) ==
  /\ ~held[k].holding
  /\ held' = [held EXCEPT ![k] = [holding |-> TRUE,
                                  entries |-> EntriesOf(cached, tokens, Len(tokens) - 1)]]

Stop(k) == held[k].holding /\ held' = [held EXCEPT ![k] = None]

\* Entries may go, to make room, as long as it stays a cache and keeps what is held.
Forget == \E c \in {cached'} : c \subseteq cached /\ IsCache(c) /\ Held' \subseteq c

\* All the whole-block prefixes of tokens are cached, the known ones as they were.
Record(tokens) ==
  \E c \in {cached'} :
    /\ cached \subseteq c /\ IsCache(c)
    /\ Prefixes(c) = Prefixes(cached) \cup
         {SubSeq(tokens, 1, i * BlockSize) : i \in 1 .. (Len(tokens) \div BlockSize)}

Next ==
  \/ UNCHANGED held /\ Forget
  \/ \E k \in Client :
       \/ Stop(k) /\ UNCHANGED cached
       \/ \E tokens \in TokenSeqs : Start(k, tokens) /\ Forget
       \/ \E tokens \in TokenSeqs : Stop(k) /\ Record(tokens)

Spec == Init /\ [][Next]_<<cached, held>>
=============================================================================
