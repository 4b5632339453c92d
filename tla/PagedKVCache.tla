---------------------------- MODULE PagedKVCache ----------------------------
(***************************************************************************)
(* Several PagedKVCaches on one BlockManager, driven by the forward pass:  *)
(* transformer_block calls write (one request) or prepare_meta and         *)
(* paged_write (a batch) once per layer, layer 0 first.  Caches share      *)
(* whole prefix blocks by adopting a fork of another cache's table, and    *)
(* are released by free and reset, also when a layer throws: for want of   *)
(* blocks, at max_seq_len, or because the device failed.                   *)
(*                                                                         *)
(* Callers obey paged_kv_cache.h's contract: one prefill of a cache, fresh *)
(* or just adopted, then decodes.                                          *)
(***************************************************************************)
EXTENDS PagedKV

CONSTANTS Cache,          \* the caches
          NumLayers,      \* num_layers()
          Apis,           \* subset of {"write", "prepare_meta"}
          PromptLimit,    \* tokens a cache holds after its prefill, at most
          TextLimit,      \* tokens a cache holds after any forward, at most
          MaxFailures     \* failures of the device in a run

ASSUME PagedKVCacheAssumption ==
  /\ IsFiniteSet(Cache)
  /\ NumLayers \in Nat \ {0}
  /\ Apis \subseteq {"write", "prepare_meta"}
  /\ PromptLimit \in Nat /\ TextLimit \in Nat /\ MaxFailures \in Nat

VARIABLES pool,           \* the BlockManager
          kv,             \* the caches
          prefilled,      \* the caches that have had their prefill
          job,            \* the forward pass under way
          text,           \* history: the tokens each cache stands for
          slots,          \* the K/V pool: per layer, what each slot holds
          lost,           \* history: the blocks taken that no table ever held
          failures        \* failures of the device so far

vars == <<pool, kv, prefilled, job, text, slots, lost, failures>>

Layer   == 0 .. NumLayers - 1
NoJob   == [members |-> <<>>]
InJob   == ToSet(job.members)
PoolSlot == 0 .. NumBlocks * BlockSize - 1

\* Slots of blocks nobody references may hold anything.
Reclaimed(p, s) ==
  [l \in Layer |-> [i \in PoolSlot |-> IF p.ref_cnt[i \div BlockSize] = 0 THEN Junk ELSE s[l][i]]]

Init ==
  /\ pool  = Pool0
  /\ kv    = [c \in Cache |-> FreshKV]
  /\ prefilled = {}
  /\ job   = NoJob
  /\ text  = [c \in Cache |-> <<>>]
  /\ slots = [l \in Layer |-> [i \in PoolSlot |-> Junk]]
  /\ lost  = {} /\ failures = 0

-----------------------------------------------------------------------------
(* Between forward passes.                                                 *)

\* The first n whole blocks of d's tokens become c's prefix.  (When the device
\* fails in there the table has the forked blocks, and free takes them back.)
Adopt(c, d, n) ==
  /\ job = NoJob /\ kv[c] = FreshKV
  /\ n * BlockSize <= kv[d].cursor /\ n * BlockSize < PromptLimit
  /\ LET f == Fork(pool, SubSeq(kv[d].table, 1, n))
         a == AdoptPrefix(kv[c], f.pool, f.ids)
     IN  /\ kv'   = [kv EXCEPT ![c] = a.kv]
         /\ pool' = a.pool
         /\ text' = [text EXCEPT ![c] = SubSeq(text[d], 1, n * BlockSize)]
  /\ UNCHANGED <<prefilled, job, slots, lost, failures>>

\* bm.free(block_table()) and reset(), for one cache or for a batch.
FreeAndReset(ms, p, caches) ==
  LET freed == Free(p, FlattenSeq([i \in DOMAIN ms |-> caches[ms[i]].table])).pool
  IN  /\ pool'  = freed
      /\ kv'    = [c \in Cache |-> IF c \in ToSet(ms) THEN Reset ELSE caches[c]]
      /\ text'  = [c \in Cache |-> IF c \in ToSet(ms) THEN <<>> ELSE text[c]]
      /\ slots' = Reclaimed(freed, slots)
      /\ prefilled' = prefilled \ ToSet(ms)

Release(c) ==
  /\ job = NoJob /\ kv[c].cursor > 0
  /\ FreeAndReset(<<c>>, pool, kv)
  /\ UNCHANGED <<job, lost, failures>>

-----------------------------------------------------------------------------
(* A forward pass.                                                         *)

\* write serves one request, prepare_meta a batch.
Start(api, ms, len, is_decode) ==
  /\ job = NoJob
  /\ api = "write" => Len(ms) = 1
  /\ \A c \in ToSet(ms) :
       IF is_decode THEN c \in prefilled /\ len[c] = 1 /\ Len(text[c]) < TextLimit
                    ELSE c \notin prefilled /\ Len(text[c]) + len[c] <= PromptLimit
  /\ job' = [members |-> ms, api |-> api, len |-> len, is_decode |-> is_decode, layer |-> 0]
  /\ UNCHANGED <<pool, kv, prefilled, text, slots, lost, failures>>

\* What the layer does to the bookkeeping of one cache ...
Call(k, p, c) ==
  IF job.api = "write"    THEN Write(k, p, job.layer, job.len[c], job.is_decode)
  ELSE IF job.layer = 0   THEN PrepareMeta(k, p, job.len[c], job.is_decode)
  ELSE Stored(k, p)

Turn(r, c) == IF ~r.ok THEN r
              ELSE LET s == Call(r.kv[c], r.pool, c)
                   IN  [ok |-> s.ok, kv |-> [r.kv EXCEPT ![c] = s.kv], pool |-> s.pool]

\* ... and of the caches of a batch, in its order.
MetaOf(ms) == FoldLeft(Turn, [ok |-> TRUE, kv |-> kv, pool |-> pool], ms)
LayerMeta  == MetaOf(job.members)

\* The tokens a cache stands for once layer 0 has taken the new ones.
Extended(c, k) ==
  IF c \in InJob /\ job.layer = 0
  THEN text[c] \o [i \in 1 .. job.len[c] |-> <<c, Len(text[c]) + i>>] ELSE text[c]

\* Mutant: the slot of a decoded token is computed from the cursor itself.
\* slot_mapping, for the caches k: which slot takes which token.
WrittenOffByOne(k, tokens) ==
  UNION {{[slot |-> Slot(k[c], pos), token |-> tokens[c][pos]] :
            pos \in {q + 1 : q \in {r \in LastPositions(k[c], job.len[c]) : HasSlot(k[c], r + 1)}}} :
         c \in InJob}

Written(k, tokens) ==
  UNION {{[slot |-> Slot(k[c], pos), token |-> tokens[c][pos + 1]] :
            pos \in {q \in LastPositions(k[c], job.len[c]) : HasSlot(k[c], q)}} : c \in InJob}

Forward ==
  /\ job # NoJob
  /\ \E r \in {LayerMeta} :
       IF ~r.ok
       THEN FreeAndReset(job.members, r.pool, r.kv) /\ job' = NoJob
       ELSE \E tokens \in {[c \in Cache |-> Extended(c, r.kv)]} :
            \E w \in {Written(r.kv, tokens)} :
              /\ pool'  = r.pool
              /\ kv'    = r.kv
              /\ prefilled' = prefilled \cup InJob
              /\ text'  = tokens
              /\ slots' = [slots EXCEPT ![job.layer] =
                   [i \in PoolSlot |-> IF \E x \in w : x.slot = i
                                       THEN (CHOOSE x \in w : x.slot = i).token ELSE @[i]]]
              /\ job'   = IF job.layer + 1 = NumLayers THEN NoJob
                                                       ELSE [job EXCEPT !.layer = @ + 1]
  /\ UNCHANGED <<lost, failures>>

\* The device throws in a layer: in a kernel before or after the members'
\* calls, or while it copies the new blocks of a member.
DeviceFails ==
  /\ job # NoJob /\ failures < MaxFailures
  /\ job' = NoJob /\ failures' = failures + 1
  /\ \E n \in 0 .. Len(job.members) : \E r \in {MetaOf(SubSeq(job.members, 1, n))} :
       /\ r.ok
       /\ \/ /\ n \in {0, Len(job.members)}
             /\ FreeAndReset(job.members, r.pool, r.kv)
             /\ UNCHANGED lost
          \/ /\ n < Len(job.members)
             /\ \E c \in {job.members[n + 1]} : \E s \in {Call(r.kv[c], r.pool, c)} :
                  /\ CopiesTable(r.kv[c], s)
                  /\ FreeAndReset(job.members, s.pool,
                       [r.kv EXCEPT ![c] = CopyBroken(r.kv[c], s, job.is_decode)])
                  /\ lost' = lost \cup BlockLost(s, job.is_decode)

\* The caches of a batch come in some order, each once.
Batches == {ms \in UNION {[1 .. n -> Cache] : n \in 1 .. Cardinality(Cache)} : IsInjective(ms)}

Next ==
  \/ \E c, d \in Cache, n \in 1 .. NumBlocks : Adopt(c, d, n)
  \/ \E c \in Cache : Release(c)
  \/ \E api \in Apis, ms \in Batches, is_decode \in BOOLEAN :
       \E len \in [ToSet(ms) -> IF is_decode THEN {1} ELSE 1 .. PromptLimit] :
         Start(api, ms, len, is_decode)
  \/ Forward
  \/ DeviceFails

Spec == Init /\ [][Next]_vars

-----------------------------------------------------------------------------
(* Properties.                                                             *)

\* The state has its types, and no cache holds more than max_seq_len tokens.
TypeOK ==
  /\ pool \in PoolType
  /\ \A c \in Cache : kv[c].cursor \in 0 .. MaxSeqLen /\ ToSet(kv[c].table) \subseteq Block
  /\ DOMAIN slots = Layer

\* Between two layers, each cache has exactly the blocks its tokens need
\* (paged_kv_cache.h:15-16).
TablesCoverCursors == \A c \in Cache : TableCoversCursor(kv[c])

\* The table the attention kernel reads on the device is the host's.
DeviceCopiesExact == \A c \in Cache : DeviceCopyExact(kv[c])

\* Blocks are reference counted exactly by the tables that hold them, but for
\* the block a decode had taken when the device failed to copy its id: that one
\* stays allocated, and each failure leaves at most one.
RefCntExact ==
  /\ \A b \in Block : pool.ref_cnt[b] = Cardinality({c \in Cache : Contains(kv[c].table, b)})
                                        + (IF b \in lost THEN 1 ELSE 0)
  /\ Cardinality(lost) <= failures

\* The tables hold what their tokens need, what the kernels read on the device
\* and what the pool has counted, also after a call that threw half-way.
TablesExact == TypeOK /\ TablesCoverCursors /\ DeviceCopiesExact /\ RefCntExact

\* The code never asks for copy-on-write: the tokens of a pass go to blocks
\* nobody else holds, though prefixes are shared.
WritesExclusive ==
  (job # NoJob /\ job.layer > 0) =>
    \A c \in InJob : \A pos \in LastPositions(kv[c], job.len[c]) :
      HasSlot(kv[c], pos) /\ pool.ref_cnt[Slot(kv[c], pos) \div BlockSize] = 1

\* Attention at any layer a pass has completed reads, at every position of
\* every cache, the K/V of the cache's own token.
ReadsOwnTokens ==
  \A c \in Cache, l \in Layer : \A pos \in 0 .. Len(text[c]) - 1 :
    (c \in InJob /\ job.layer > 0 /\ l >= job.layer /\ pos \in LastPositions(kv[c], job.len[c]))
    \/ (HasSlot(kv[c], pos) /\ slots[l][Slot(kv[c], pos)] = text[c][pos + 1])

\* The blocks the pass takes.
Demand(ms, len, is_decode) ==
  LET of(c) == IF is_decode THEN BlocksNeeded(kv[c].cursor + 1) - Len(kv[c].table)
                            ELSE BlocksNeeded(len[c])
  IN  FoldLeft(LAMBDA s, c : s + of(c), 0, ms)

\* What the contract asks of the caller of a pass (paged_kv_cache.h:58-65): enough
\* free blocks, and no cache beyond max_seq_len.
Granted ==
  job.layer = 0 => /\ Demand(job.members, job.len, job.is_decode) <= num_free(pool)
                   /\ \A c \in InJob : kv[c].cursor + job.len[c] <= MaxSeqLen

\* A pass so granted completes, unless the device fails: layer 0 advances each
\* cache by its tokens and no later layer moves, or refuses, any of them.
Completes(api) ==
  (job # NoJob /\ job.api = api /\ Granted /\ UNCHANGED failures) =>
    \A c \in InJob : kv'[c].cursor = kv[c].cursor + (IF job.layer = 0 THEN job.len[c] ELSE 0)

\* The batches that prepare_meta serves complete.
BatchesComplete == [][Completes("prepare_meta")]_vars

\* The same of write, which serves one request.  The code does not keep it: write
\* repeats its length test at layers whose tokens the cursor counts already
\* (paged_kv_cache.cpp:62).
WritesComplete == [][Completes("write")]_vars
=============================================================================
