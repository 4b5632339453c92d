----------------------------- MODULE Scheduler -----------------------------
(***************************************************************************)
(* serve/scheduler.py and serve/worker.py on top of the block pool, the    *)
(* prefix tree and the per-request caches: continuous batching with        *)
(* admission control, preemption and prefix reuse.                         *)
(*                                                                         *)
(* One coroutine runs the loop; its only await with effects is the forward *)
(* pass, which a pool thread executes.  Clients submit and abort on the    *)
(* event loop, so their calls fall between any two steps of the loop and   *)
(* during the forward pass, never inside a step.                           *)
(***************************************************************************)
EXTENDS RadixTree, PagedKV

CONSTANTS Request,            \* the requests clients bring, each once
          Prompt,             \* Prompt[r]: prompt_ids
          MaxTokens,          \* MaxTokens[r]: max_tokens
          Eos,                \* eos_token_id
          NextTokens(_),      \* the tokens the model may answer after a sequence
          UseRadix,           \* use_radix: RadixTree or NoRadixTree
          DecodeRatio,        \* decode_ratio, in percent
          DecodeCap,          \* decode_cap
          FailLimit,          \* the failures in a row that end the loop (5)
          MaxFailures,        \* bound: failures of the device
          MaxAborts           \* bound: clients that hang up

ASSUME SchedulerAssumption ==
  /\ \A r \in Request : Prompt[r] \in Seq(Int) /\ Prompt[r] # <<>> /\ MaxTokens[r] \in Nat \ {0}
  /\ UseRadix \in BOOLEAN
  /\ DecodeRatio \in 0 .. 100 /\ DecodeCap \in Nat
  /\ FailLimit \in Nat \ {0} /\ MaxFailures \in Nat /\ MaxAborts \in Nat

VARIABLES sched,              \* waiting, running, the tree, the pool, the requests
          aborted,            \* _aborted
          wake,               \* _wake is set
          pc,                 \* where the loop is
          batch,              \* the batch the forward pass is given
          streak,             \* fail_streak
          out,                \* token_queue of each request, all it was ever given
          content,            \* history: the tokens whose KV each block holds
          arrived,            \* history: the requests, as submitted
          hungup,             \* history: the clients that called abort
          failures,           \* history: failures of the device
          lost                \* history: the blocks taken that nobody knows of

vars == <<sched, aborted, wake, pc, batch, streak, out, content, arrived, hungup, failures, lost>>

NewRequest == [gen |-> <<>>, kv |-> FreshKV, node |-> NoParent, state |-> "WAITING"]
NoBatch    == [members |-> <<>>, is_decode |-> FALSE]

Init ==
  /\ sched = [waiting |-> <<>>, running |-> <<>>, tree |-> Tree0, pool |-> Pool0,
              req |-> [r \in Request |-> NewRequest]]
  /\ aborted = {} /\ wake = FALSE /\ pc = "loop" /\ batch = NoBatch /\ streak = 0
  /\ out = [r \in Request |-> <<>>]
  /\ content = [b \in Block |-> <<>>]
  /\ arrived = <<>> /\ hungup = {} /\ failures = 0 /\ lost = {}

Tokens(s, r)        == Prompt[r] \o s.req[r].gen
PrefixTo(tokens, i) == SubSeq(tokens, 1, Min({i * BlockSize, Len(tokens)}))

-----------------------------------------------------------------------------
(* Clients.                                                                *)

\* Mutant: submit does not wake the loop.
SubmitQuietly(r) ==
  /\ r \notin ToSet(arrived)
  /\ sched'   = [sched EXCEPT !.waiting = Append(@, r)]
  /\ arrived' = Append(arrived, r)
  /\ UNCHANGED <<aborted, wake, pc, batch, streak, out, content, hungup, failures, lost>>

Submit(r) ==
  /\ r \notin ToSet(arrived)
  /\ sched'   = [sched EXCEPT !.waiting = Append(@, r)]
  /\ wake'    = TRUE
  /\ arrived' = Append(arrived, r)
  /\ UNCHANGED <<aborted, pc, batch, streak, out, content, hungup, failures, lost>>

-----------------------------------------------------------------------------
(* Giving up what a request holds.                                         *)

\* Mutant: the pin on the prefix is not undone.
FreeKVKeepsPin(s, r) ==
  [s EXCEPT !.pool = Free(@, s.req[r].kv.table).pool,
            !.req[r].kv = Reset, !.req[r].node = NoParent]

\* Mutant: the cache is not reset after its blocks are freed.
FreeKVKeepsTable(s, r) ==
  [s EXCEPT !.pool = Free(@, s.req[r].kv.table).pool,
            !.tree = IF s.req[r].node = NoParent THEN @ ELSE DecLockRef(@, s.req[r].node),
            !.req[r].node = NoParent]

\* Mutant: the cache is reset without freeing its blocks.
FreeKVLeaks(s, r) ==
  [s EXCEPT !.tree = IF s.req[r].node = NoParent THEN @ ELSE DecLockRef(@, s.req[r].node),
            !.req[r].kv = Reset, !.req[r].node = NoParent]

\* _free_kv: the pin, the blocks, the cache.
FreeKV(s, r) ==
  [s EXCEPT !.pool = Free(@, s.req[r].kv.table).pool,
            !.tree = IF s.req[r].node = NoParent THEN @ ELSE DecLockRef(@, s.req[r].node),
            !.req[r].kv = Reset, !.req[r].node = NoParent]

\* list.remove and deque.remove, behind the test that r is there: the first r goes.
Without(q, r) ==
  LET at == {i \in 1 .. Len(q) : q[i] = r} IN IF at = {} THEN q ELSE RemoveAt(q, Min(at))

\* Mutant: a request that still waits is not taken out of the queue.
ReleaseRunning(s, r) ==
  [FreeKV(s, r) EXCEPT !.running = Without(@, r), !.req[r].state = "FINISHED"]

ReleaseRequest(s, r) ==
  [FreeKV(s, r) EXCEPT !.waiting = Without(@, r), !.running = Without(@, r),
                       !.req[r].state = "FINISHED"]

ReleaseAll(s, rs) ==
  Iterate(LAMBDA u : [s |-> ReleaseRequest(u.s, rs[u.i]), i |-> u.i + 1],
          [s |-> s, i |-> 1], Len(rs)).s

\* Mutant: abort releases at once instead of leaving it to the next tick.
AbortAtOnce(r) ==
  /\ r \in ToSet(arrived) \ hungup /\ Cardinality(hungup) < MaxAborts
  /\ sched'  = ReleaseRequest(sched, r)
  /\ wake'   = TRUE
  /\ hungup' = hungup \cup {r}
  /\ UNCHANGED <<aborted, pc, batch, streak, out, content, arrived, failures, lost>>

\* A client may hang up at any time, also when its answer is complete but for
\* the reading.
Abort(r) ==
  /\ r \in ToSet(arrived) \ hungup /\ Cardinality(hungup) < MaxAborts
  /\ aborted' = aborted \cup {r}
  /\ wake'    = TRUE
  /\ hungup'  = hungup \cup {r}
  /\ UNCHANGED <<sched, pc, batch, streak, out, content, arrived, failures, lost>>

\* Mutants: only running requests are told; the loop ends one failure late.
CrashTellsRunning(s, o) ==
  /\ sched'  = ReleaseAll(s, s.running \o s.waiting)
  /\ out'    = [r \in Request |-> IF r \in ToSet(s.running) THEN Append(o[r], "crash") ELSE o[r]]
  /\ streak' = streak + 1
  /\ pc'     = IF streak + 1 >= FailLimit THEN "dead" ELSE "loop"
  /\ batch'  = NoBatch

CrashOnceMore(s, o) ==
  LET inflight == s.running \o s.waiting
  IN  /\ sched'  = ReleaseAll(s, inflight)
      /\ out'    = [r \in Request |-> IF r \in ToSet(inflight) THEN Append(o[r], "crash") ELSE o[r]]
      /\ streak' = streak + 1
      /\ pc'     = IF streak + 1 > FailLimit THEN "dead" ELSE "loop"
      /\ batch'  = NoBatch

\* _loop's except: every request in flight is told and released; FailLimit
\* failures in a row end the loop.
Crash(s, o) ==
  LET inflight == s.running \o s.waiting
  IN  /\ sched'  = ReleaseAll(s, inflight)
      /\ out'    = [r \in Request |-> IF r \in ToSet(inflight) THEN Append(o[r], "crash") ELSE o[r]]
      /\ streak' = streak + 1
      /\ pc'     = IF streak + 1 >= FailLimit THEN "dead" ELSE "loop"
      /\ batch'  = NoBatch

-----------------------------------------------------------------------------
(* Admission: one turn per request at the head of the queue.  a is the     *)
(* state, the budget, the requests admitted, whether the loop is over and  *)
(* whether nothing threw.                                                  *)

CeilDiv(n, d) == (n + d - 1) \div d

\* The blocks set aside for what a request may still decode.
DecodeReserve(s, r) ==
  CeilDiv(Min({Max({0, MaxTokens[r] - Len(s.req[r].gen)}), DecodeCap}) * DecodeRatio, 100 * BlockSize)

Reserved(s, r) ==
  FoldLeft(LAMBDA n, q : n + DecodeReserve(s, q), DecodeReserve(s, r), s.running)

\* Pin what was matched, and evict what is missing.
PinAndEvict(a, m, need) ==
  LET pinned == IF m.blocks = <<>> THEN m.tree ELSE IncLockRef(m.tree, m.node)
  IN  IF a.budget < need THEN Evict(pinned, need - a.budget, a.s.pool)
                         ELSE [tree |-> pinned, pool |-> a.s.pool, freed |-> 0]

\* A request that hit the tree holds what it matched.
Adopted(kv, pool, blocks) ==
  IF blocks = <<>> THEN Stored(kv, pool)
  ELSE With(Fork(pool, blocks), LAMBDA fork : AdoptPrefix(kv, fork.pool, fork.ids))

\* The request runs, unless the adoption threw; it keeps the pin either way.
Granted(s, r, m, e, adopted) ==
  [s EXCEPT !.tree = e.tree, !.pool = adopted.pool, !.req[r].kv = adopted.kv,
            !.req[r].node = IF m.blocks = <<>> THEN @ ELSE m.node,
            !.running = IF adopted.ok THEN Append(@, r) ELSE @,
            !.waiting = IF adopted.ok THEN Tail(@) ELSE @]

\* After the eviction e: give up and unpin, or fork and adopt.
AdmitEvicted(a, r, m, need, e) ==
  IF a.budget + e.freed < need
  THEN [a EXCEPT !.s.tree = IF m.blocks = <<>> THEN e.tree ELSE DecLockRef(e.tree, m.node),
                 !.s.pool = e.pool, !.budget = @ + e.freed, !.over = TRUE]
  ELSE With(Adopted(a.s.req[r].kv, e.pool, m.blocks), LAMBDA adopted :
         [a EXCEPT !.s = Granted(a.s, r, m, e, adopted), !.budget = @ + e.freed - need,
                   !.over = ~adopted.ok, !.ok = adopted.ok, !.prefills = Append(@, r)])

\* The gate, then the admission of a request that matched m.
AdmitMatch(a, r, m) ==
  LET need == BlocksNeeded(Len(Tokens(a.s, r))) - Len(m.blocks)
  IN  IF a.budget + m.tree.evictable - Reserved(a.s, r) < need
      THEN [a EXCEPT !.s.tree = m.tree, !.over = TRUE]
      ELSE With(PinAndEvict(a, m, need), LAMBDA e : AdmitEvicted(a, r, m, need, e))

\* Mutant: the budget is not reduced by what an admitted request will take.
AdmitHeadFree(a) ==
  IF a.over \/ a.s.waiting = <<>> THEN a
  ELSE With(MatchPrefix(a.s.tree, Front(Tokens(a.s, Head(a.s.waiting)))),
            LAMBDA m : [AdmitMatch(a, Head(a.s.waiting), m) EXCEPT !.budget = a.budget])

\* The match leaves out the last token, so that there is one to compute.
AdmitHead(a) ==
  IF a.over \/ a.s.waiting = <<>> THEN a
  ELSE With(MatchPrefix(a.s.tree, Front(Tokens(a.s, Head(a.s.waiting)))),
            LAMBDA m : AdmitMatch(a, Head(a.s.waiting), m))

AdmitSome(s, k) ==
  Iterate(AdmitHead, [s |-> s, budget |-> num_free(s.pool), prefills |-> <<>>,
                      over |-> FALSE, ok |-> TRUE], k)

Admission(s) == AdmitSome(s, Len(s.waiting))

\* Mutant: the victim goes to the back of the queue.
PreemptToBack(s) ==
  Iterate(LAMBDA u : IF num_free(u.pool) >= Len(u.running) THEN u
                     ELSE [FreeKV(u, Last(u.running)) EXCEPT
                             !.running = Front(@), !.waiting = Append(@, Last(u.running)),
                             !.req[Last(u.running)].state = "WAITING"],
          s, Len(s.running))

\* The youngest requests make room until each that is left may take a block.
Preempt(s) ==
  Iterate(LAMBDA u : IF num_free(u.pool) >= Len(u.running) THEN u
                     ELSE [FreeKV(u, Last(u.running)) EXCEPT
                             !.running = Front(@), !.waiting = <<Last(u.running)>> \o @,
                             !.req[Last(u.running)].state = "WAITING"],
          s, Len(s.running))

-----------------------------------------------------------------------------
(* The loop.                                                               *)

Idle ==
  /\ pc = "loop" /\ sched.waiting = <<>> /\ sched.running = <<>>
  /\ pc' = "sleep"
  /\ UNCHANGED <<sched, aborted, wake, batch, streak, out, content, arrived, hungup, failures, lost>>

Wake ==
  /\ pc = "sleep" /\ wake
  /\ wake' = FALSE
  /\ pc' = "loop"
  /\ UNCHANGED <<sched, aborted, batch, streak, out, content, arrived, hungup, failures, lost>>

Launch(s, members, is_decode) ==
  /\ sched' = s
  /\ batch' = [members |-> members, is_decode |-> is_decode]
  /\ pc'    = "forward"
  /\ UNCHANGED <<streak, out>>

LaunchPrefill(a) == a.prefills # <<>> /\ Launch(a.s, a.prefills, FALSE)

LaunchDecode(a) ==
  /\ a.prefills = <<>> /\ a.s.running # <<>>
  /\ \E s \in {Preempt(a.s)} : Launch(s, s.running, TRUE)

\* The loop sleeps unless there was something to abort.
NothingToDo(a) ==
  /\ a.prefills = <<>> /\ a.s.running = <<>>
  /\ sched'  = a.s
  /\ pc'     = IF aborted = {} THEN "sleep" ELSE "loop"
  /\ streak' = 0
  /\ UNCHANGED <<out, batch>>

\* _tick up to its await: drain the aborts, in the order the set yields them,
\* admit, and launch a batch.
Tick ==
  /\ pc = "loop" /\ (sched.waiting # <<>> \/ sched.running # <<>>)
  /\ aborted' = {}
  /\ \E order \in SetToSeqs(aborted) :
       \E a \in {Admission(ReleaseAll(sched, order))} :
         IF a.ok THEN LaunchPrefill(a) \/ LaunchDecode(a) \/ NothingToDo(a)
                 ELSE Crash(a.s, out)
  /\ UNCHANGED <<wake, content, arrived, hungup, failures, lost>>

\* The device fails in the adopt_prefix of the request admitted last: the tick
\* ends there.  The request has its pin and its table, and is first of waiting
\* instead of last of running, which is the same place among those in flight.
AdoptFails ==
  /\ UseRadix /\ pc = "loop" /\ failures < MaxFailures
  /\ aborted' = {}
  /\ \E order \in SetToSeqs(aborted) : \E k \in 1 .. Len(sched.waiting) :
       \E a \in {AdmitSome(ReleaseAll(sched, order), k)} :
         /\ ~a.over /\ a.prefills # <<>> /\ a.s.req[Last(a.prefills)].kv.adopted
         /\ Crash(a.s, out)
  /\ failures' = failures + 1
  /\ UNCHANGED <<wake, content, arrived, hungup, lost>>

-----------------------------------------------------------------------------
(* The forward pass, in its thread: prepare_meta for each member in order, *)
(* then the K/V.                                                           *)

NewTokens(s, r) == IF batch.is_decode THEN 1 ELSE Len(Tokens(s, r)) - s.req[r].kv.cursor

\* prepare_meta of the first k members, up to the one that throws.
PrepareBatch(k) ==
  Iterate(LAMBDA u :
            LET r == batch.members[u.i]
                p == PrepareMeta(u.s.req[r].kv, u.s.pool, NewTokens(u.s, r), batch.is_decode)
            IN  IF ~u.ok THEN u
                ELSE [s |-> [u.s EXCEPT !.req[r].kv = p.kv, !.pool = p.pool],
                      i |-> u.i + 1, ok |-> p.ok],
          [s |-> sched, i |-> 1, ok |-> TRUE], k)

\* What block number i of r holds after the pass: the K/V of its tokens, if
\* the block held those of the tokens before them.
WrittenBlock(s, r, i) ==
  LET kv     == s.req[r].kv
      first  == sched.req[r].kv.cursor
      tokens == SubSeq(Tokens(s, r), 1, kv.cursor)
  IN  IF first <= (i - 1) * BlockSize \/ content[kv.table[i]] = SubSeq(tokens, 1, first)
      THEN PrefixTo(tokens, i) ELSE <<Junk>>

WrittenContent(s) ==
  LET new == {x \in ToSet(batch.members) \X (1 .. NumBlocks) :
                x[2] <= Len(s.req[x[1]].kv.table) /\ sched.req[x[1]].kv.cursor < x[2] * BlockSize}
  IN  [b \in Block |->
        IF \E x \in new : s.req[x[1]].kv.table[x[2]] = b
        THEN LET x == CHOOSE x \in new : s.req[x[1]].kv.table[x[2]] = b
             IN  WrittenBlock(s, x[1], x[2])
        ELSE content[b]]

\* A batch without members is not a valid call.
Forward ==
  /\ pc = "forward"
  /\ \E u \in {PrepareBatch(Len(batch.members))} :
       /\ sched' = u.s
       /\ IF u.ok /\ batch.members # <<>>
          THEN pc' = "returned" /\ content' = WrittenContent(u.s)
          ELSE pc' = "raised"   /\ UNCHANGED content
  /\ UNCHANGED <<aborted, wake, batch, streak, out, arrived, hungup, failures, lost>>

\* prepare_meta of r, up to the copy of the new blocks, which throws.
MetaBreaks(s, r) ==
  LET kv == s.req[r].kv
      p  == PrepareMeta(kv, s.pool, NewTokens(s, r), batch.is_decode)
  IN  /\ CopiesTable(kv, p)
      /\ sched' = [s EXCEPT !.req[r].kv = CopyBroken(kv, p, batch.is_decode), !.pool = p.pool]
      /\ lost'  = lost \cup BlockLost(p, batch.is_decode)

\* The device fails: after some prepare_meta, at an allocation, a copy or a
\* kernel, or inside the next one.
ForwardFails ==
  /\ pc = "forward" /\ failures < MaxFailures
  /\ failures' = failures + 1
  /\ \/ /\ \E k \in 0 .. Len(batch.members) : sched' = PrepareBatch(k).s
        /\ UNCHANGED lost
     \/ \E k \in 1 .. Len(batch.members) : \E u \in {PrepareBatch(k - 1)} :
          u.ok /\ MetaBreaks(u.s, batch.members[k])
  /\ pc' = "raised"
  /\ UNCHANGED <<aborted, wake, batch, streak, out, content, arrived, hungup>>

-----------------------------------------------------------------------------
(* Back in the loop.                                                       *)

Ends(s, r, token) == token = Eos \/ Len(s.req[r].gen) + 1 >= MaxTokens[r]

\* The tail of run_batch: each member takes its token.
TakeToken(s, r, token) ==
  [s.req[r] EXCEPT !.gen   = Append(@, token),
                   !.state = IF Ends(s, r, token) THEN "FINISHED"
                             ELSE IF batch.is_decode THEN @ ELSE "RUNNING"]

Answer(s, next) ==
  [s EXCEPT !.req = [r \in Request |->
     IF r \in ToSet(batch.members) THEN TakeToken(s, r, next[r]) ELSE s.req[r]]]

\* Mutant: the end mark is put before the last token.
AnsweredEndFirst(next) ==
  [r \in Request |->
     IF r \notin ToSet(batch.members) THEN out[r]
     ELSE out[r] \o IF Ends(sched, r, next[r]) THEN <<"end", "token">> ELSE <<"token">>]

Answered(next) ==
  [r \in Request |->
     IF r \notin ToSet(batch.members) THEN out[r]
     ELSE out[r] \o IF Ends(sched, r, next[r]) THEN <<"token", "end">> ELSE <<"token">>]

\* Mutant: a finished request stays in running.
FinishOneStays(u, r) ==
  LET s   == u.s
      ins == IF UseRadix THEN Insert(s.tree, Tokens(s, r), s.req[r].kv.table, s.pool)
                         ELSE [ok |-> TRUE, tree |-> s.tree, pool |-> s.pool]
  IN  IF ~u.ok \/ s.req[r].state # "FINISHED" THEN u
      ELSE [ok |-> ins.ok, s |-> FreeKV([s EXCEPT !.tree = ins.tree, !.pool = ins.pool], r)]

\* A finished request leaves its blocks to the tree, then gives up its own
\* hold on them and its pin.
FinishOne(u, r) ==
  LET s   == u.s
      ins == IF UseRadix THEN Insert(s.tree, Tokens(s, r), s.req[r].kv.table, s.pool)
                         ELSE [ok |-> TRUE, tree |-> s.tree, pool |-> s.pool]
      t   == [s EXCEPT !.tree = ins.tree, !.pool = ins.pool]
  IN  IF ~u.ok \/ s.req[r].state # "FINISHED" THEN u
      ELSE IF ins.ok THEN [ok |-> TRUE, s |-> [FreeKV(t, r) EXCEPT !.running = Without(@, r)]]
                     ELSE [ok |-> FALSE, s |-> t]

FinishAll(s) ==
  Iterate(LAMBDA v : [u |-> FinishOne(v.u, s.running[v.i]), i |-> v.i + 1],
          [u |-> [ok |-> TRUE, s |-> s], i |-> 1], Len(s.running)).u

Deliver ==
  /\ pc = "returned"
  /\ \E next \in [ToSet(batch.members) -> UNION {NextTokens(Tokens(sched, r)) : r \in ToSet(batch.members)}] :
       /\ \A r \in ToSet(batch.members) : next[r] \in NextTokens(Tokens(sched, r))
       /\ \E u \in {FinishAll(Answer(sched, next))} :
            IF u.ok THEN /\ sched' = u.s /\ out' = Answered(next) /\ streak' = 0
                         /\ pc' = "loop" /\ batch' = NoBatch
                    ELSE Crash(u.s, Answered(next))
  /\ UNCHANGED <<aborted, wake, content, arrived, hungup, failures, lost>>

Raised ==
  /\ pc = "raised"
  /\ Crash(sched, out)
  /\ UNCHANGED <<aborted, wake, content, arrived, hungup, failures, lost>>

Loop == Idle \/ Wake \/ Tick \/ Deliver \/ Raised

Next ==
  \/ \E r \in Request : Submit(r) \/ Abort(r)
  \/ Loop
  \/ AdoptFails
  \/ Forward
  \/ ForwardFails

\* The event loop keeps running the coroutine and the thread finishes.
Fairness == WF_vars(Loop) /\ WF_vars(Forward \/ ForwardFails)

Spec == Init /\ [][Next]_vars /\ Fairness

-----------------------------------------------------------------------------
(* Properties.                                                             *)

\* The state has its types, and the loop is dead from the last failure allowed.
TypeOK ==
  /\ sched.pool \in PoolType
  /\ \A r \in Request : sched.req[r].state \in {"WAITING", "RUNNING", "FINISHED"}
  /\ ToSet(sched.waiting) \cup ToSet(sched.running) \cup aborted \subseteq ToSet(arrived)
  /\ pc \in {"loop", "sleep", "forward", "returned", "raised", "dead"}
  /\ streak \in 0 .. FailLimit /\ (streak = FailLimit <=> pc = "dead")

\* Every pin is accounted for, whatever aborts, preemptions and failures came
\* between: lock_ref counts the requests pinning the node or one below it.
PinsExact ==
  \A n \in Nodes(sched.tree) :
    sched.tree.node[n].lock = (IF n = Root THEN 1 ELSE 0)
      + Cardinality({r \in Request : sched.req[r].node # NoParent
                                     /\ Contains(PathUp(sched.tree, sched.req[r].node), n)})

\* Every reference on a block is accounted for by a table or by the tree, so
\* none is freed twice, and no block leaks but the one a decode had taken when
\* the device failed: that one is in no table, and there are no more of them
\* than failures.
RefCntExact ==
  /\ Cardinality(lost) <= failures
  /\ \A b \in Block :
       sched.pool.ref_cnt[b] =
         Cardinality(HeldBlocks(sched.tree, b))
         + Cardinality({r \in Request : Contains(sched.req[r].kv.table, b)})
         + (IF b \in lost THEN 1 ELSE 0)

\* Pins and references are both exact, so that nothing is evicted under a
\* request, is freed twice, or leaks but as said above.
CountsExact == TypeOK /\ PinsExact /\ RefCntExact

\* Attention reads, in every block of every running request, the KV of the
\* request's own tokens, whatever was preempted, recomputed, evicted or shared.
RunningReadsItsTokens ==
  pc # "raised" =>
    \A r \in ToSet(sched.running) : LET kv == sched.req[r].kv IN
      \A i \in 1 .. Len(kv.table) :
        content[kv.table[i]] = PrefixTo(SubSeq(Tokens(sched, r), 1, kv.cursor), i)

\* The KV a match will hand out is that of the tokens it is filed under.
CacheHoldsItsTokens ==
  \A e \in CacheMap(sched.tree) : content[e.block] = e.prefix

\* What is read and what will be handed out is the KV of its tokens.
ContentsRight == RunningReadsItsTokens /\ CacheHoldsItsTokens

\* A batch is launched only with the free blocks it will take: alloc cannot
\* throw in the middle of a forward pass.
Demand(r) ==
  LET kv == sched.req[r].kv
  IN  BlocksNeeded(kv.cursor + NewTokens(sched, r)) - Len(kv.table)
BatchNeverRunsDry ==
  pc = "forward" => FoldLeft(LAMBDA n, r : n + Demand(r), 0, batch.members) <= num_free(sched.pool)

\* Only running requests hold blocks or pins: a waiting, preempted, aborted or
\* finished request has given everything back.
HoldersAreRunning ==
  \A r \in Request \ ToSet(sched.running) :
    sched.req[r].kv = FreshKV /\ sched.req[r].node = NoParent

\* scheduler.py:125-127: when the loop crashes, what the requests in flight
\* hold is freed; with no request left, only the tree holds blocks.  The code
\* keeps it but for a block a decode had taken when its copy failed, as
\* CountsExact says.
NothingLeftBehind ==
  sched.running \o sched.waiting = <<>> =>
    \A b \in Block : sched.pool.ref_cnt[b] = Cardinality(HeldBlocks(sched.tree, b))

\* r was submitted before q.
Came(r, q) == \E i, j \in 1 .. Len(arrived) : i < j /\ arrived[i] = r /\ arrived[j] = q

\* First come, first served: requests run and wait in the order they came, and
\* a preempted one returns to its place; none is lost or queued twice.
ArrivalOrder ==
  LET queue == sched.running \o sched.waiting
  IN  /\ ToSet(queue) = {r \in ToSet(arrived) : sched.req[r].state # "FINISHED"}
      /\ \A i, j \in 1 .. Len(queue) : i < j => Came(queue[i], queue[j])

\* A client gets one terminal mark, and nothing after it, also when the loop
\* fails with its answer complete.
OneTerminal ==
  \A r \in Request : \A i \in 1 .. Len(out[r]) - 1 : out[r][i] = "token"

\* While a forward pass is under way nobody touches the pool, the tree or the
\* caches it was given (scheduler.py:93: abort only registers the request).
InFlightUntouched ==
  [][pc = "forward" /\ pc' = "forward" =>
       UNCHANGED <<batch, content, sched.pool, sched.tree, sched.req>>]_vars

\* The loop never sleeps on requests that wait.
SleepsOnlyWhenIdle == (pc = "sleep" /\ ~wake) => sched.waiting = <<>>

\* bench/README.md:107: a preempted request is put back and computed again, so
\* that no request fails but for a failure of the device.
FailsOnlyWithTheDevice ==
  failures = 0 => \A r \in Request : ~Contains(out[r], "crash")
=============================================================================
