---------------------------- MODULE SchedulerProofs ----------------------------
(***************************************************************************)
(* What is proved of the scheduler for every set of requests.  First, who  *)
(* runs and waits, in which order, who holds blocks and what the clients   *)
(* are told: there pool and tree are left open, and nothing depends on     *)
(* what they answer.  Then, without the prefix tree, the counts of the     *)
(* pool, what attention reads, the blocks a batch takes, and that the loop *)
(* does not sleep on work.                                                 *)
(***************************************************************************)
EXTENDS Scheduler, BlockPoolProofs

-----------------------------------------------------------------------------
(* Queues.                                                                 *)

\* The members of two sequences together.
LEMMA SetOfConcat ==
  ASSUME NEW E, NEW p \in Seq(E), NEW q \in Seq(E)
  PROVE  ToSet(p \o q) = ToSet(p) \cup ToSet(q)
<1> DEFINE c == p \o q
<1>1. /\ Len(p) \in Nat /\ Len(q) \in Nat /\ Len(c) = Len(p) + Len(q) /\ c \in Seq(E)
      /\ \A i \in 1 .. Len(c) : c[i] = IF i <= Len(p) THEN p[i] ELSE q[i - Len(p)]
  OBVIOUS
<1>2. DOMAIN p = 1 .. Len(p) /\ DOMAIN q = 1 .. Len(q) /\ DOMAIN c = 1 .. Len(c)
  BY <1>1
<1> HIDE DEF c
<1>3. ASSUME NEW i \in 1 .. Len(c) PROVE c[i] \in ToSet(p) \cup ToSet(q)
  <2>1. CASE i <= Len(p)
    <3>1. i \in 1 .. Len(p) /\ c[i] = p[i]
      BY <1>1, <2>1
    <3> QED BY <1>2, <3>1 DEF ToSet
  <2>2. CASE ~(i <= Len(p))
    <3>1. i - Len(p) \in 1 .. Len(q) /\ c[i] = q[i - Len(p)]
      BY <1>1, <2>2
    <3> QED BY <1>2, <3>1 DEF ToSet
  <2> QED BY <2>1, <2>2
<1>4. ASSUME NEW i \in 1 .. Len(p) PROVE p[i] \in ToSet(c)
  <2>1. i \in 1 .. Len(c) /\ c[i] = p[i]
    BY <1>1
  <2> QED BY <1>2, <2>1 DEF ToSet
<1>5. ASSUME NEW i \in 1 .. Len(q) PROVE q[i] \in ToSet(c)
  <2>1. Len(p) + i \in 1 .. Len(c) /\ ~(Len(p) + i <= Len(p)) /\ (Len(p) + i) - Len(p) = i
    BY <1>1
  <2>2. c[Len(p) + i] = q[i]
    BY <1>1, <2>1
  <2> QED BY <1>2, <2>1, <2>2 DEF ToSet
<1> QED BY <1>2, <1>3, <1>4, <1>5 DEF ToSet, c

\* Min is a member of a set of naturals with something in it, and no member is less.
LEMMA MinOK ==
  ASSUME NEW T \in SUBSET Nat, T # {}
  PROVE  Min(T) \in T /\ \A m \in T : Min(T) <= m
<1>1. \E n \in T : \A m \in T : n <= m
  BY SmallestElement
<1> QED BY <1>1 DEF Min

\* Without takes one element out, or none, and leaves the rest in order: each of
\* what is left is further back by one, or by none.
LEMMA WithoutIs ==
  ASSUME NEW E, NEW q \in Seq(E), NEW r
  PROVE  /\ Without(q, r) \in Seq(E)
         /\ \/ Without(q, r) = q /\ r \notin ToSet(q)
            \/ \E k \in 1 .. Len(q) :
                 /\ q[k] = r /\ Len(Without(q, r)) = Len(q) - 1
                 /\ \A i \in 1 .. Len(q) - 1 : Without(q, r)[i] = q[IF i < k THEN i ELSE i + 1]
<1> DEFINE at == {i \in 1 .. Len(q) : q[i] = r}
           n  == Len(q)
<1>1. n \in Nat /\ DOMAIN q = 1 .. n
  OBVIOUS
<1>2. CASE at = {}
  BY <1>1, <1>2 DEF Without, ToSet
<1>3. CASE at # {}
  <2> DEFINE k == Min(at)
             head == SubSeq(q, 1, k - 1)
             tail == SubSeq(q, k + 1, n)
             w == head \o tail
  <2>1. k \in 1 .. n /\ q[k] = r
    <3>1. at \in SUBSET Nat
      OBVIOUS
    <3>2. k \in at
      <4> HIDE DEF at
      <4> QED BY <1>3, <3>1, MinOK
    <3> QED BY <3>2
  <2>2. Without(q, r) = w
    BY <1>3 DEF Without, RemoveAt
  <2> HIDE DEF k
  <2>3. \A i \in 1 .. n : q[i] \in E
    OBVIOUS
  <2>4. /\ head \in Seq(E) /\ Len(head) = k - 1
        /\ \A i \in 1 .. k - 1 : head[i] = q[i]
    <3>1. \A i \in 1 .. k - 1 : q[i] \in E
      BY <1>1, <2>1, <2>3
    <3>2. /\ head \in Seq(E) /\ Len(head) = IF 1 <= k - 1 THEN k - 1 - 1 + 1 ELSE 0
          /\ \A i \in 1 .. k - 1 - 1 + 1 : head[i] = q[1 + i - 1]
      BY <2>1, <3>1, SubSeqProperties
    <3> HIDE DEF head
    <3> QED BY <2>1, <3>2
  <2>5. /\ tail \in Seq(E) /\ Len(tail) = n - k
        /\ \A i \in 1 .. n - k : tail[i] = q[k + i]
    <3>1. \A i \in k + 1 .. n : q[i] \in E
      BY <1>1, <2>1, <2>3
    <3>2. /\ tail \in Seq(E) /\ Len(tail) = IF k + 1 <= n THEN n - (k + 1) + 1 ELSE 0
          /\ \A i \in 1 .. n - (k + 1) + 1 : tail[i] = q[k + 1 + i - 1]
      BY <1>1, <2>1, <3>1, SubSeqProperties
    <3> HIDE DEF tail
    <3>3. ASSUME NEW i \in 1 .. n - k PROVE tail[i] = q[k + i]
      <4>1. i \in 1 .. n - (k + 1) + 1 /\ k + 1 + i - 1 = k + i
        BY <1>1, <2>1
      <4> QED BY <3>2, <4>1
    <3>4. Len(tail) = n - k
      <4> HIDE DEF n
      <4> QED BY <1>1, <2>1, <3>2
    <3> QED BY <3>2, <3>3, <3>4
  <2> HIDE DEF head, tail
  <2>6. /\ w \in Seq(E) /\ Len(w) = (k - 1) + (n - k)
        /\ \A i \in 1 .. Len(w) : w[i] = IF i <= k - 1 THEN head[i] ELSE tail[i - (k - 1)]
    BY <2>4, <2>5, ConcatProperties
  <2>7. Len(w) = n - 1
    <3> HIDE DEF w
    <3> QED BY <1>1, <2>1, <2>6
  <2>8. ASSUME NEW i \in 1 .. n - 1 PROVE w[i] = q[IF i < k THEN i ELSE i + 1]
    <3> HIDE DEF w
    <3>1. CASE i < k
      <4>1. i <= k - 1 /\ i \in 1 .. k - 1 /\ i \in 1 .. Len(w)
        BY <2>1, <2>7, <3>1
      <4> QED BY <2>4, <2>6, <3>1, <4>1
    <3>2. CASE ~(i < k)
      <4>1. ~(i <= k - 1) /\ i - (k - 1) \in 1 .. n - k /\ k + (i - (k - 1)) = i + 1
            /\ i \in 1 .. Len(w)
        BY <1>1, <2>1, <2>7, <3>2
      <4>2. w[i] = tail[i - (k - 1)]
        BY <2>6, <4>1
      <4>3. tail[i - (k - 1)] = q[k + (i - (k - 1))]
        BY <2>5, <4>1
      <4> QED BY <3>2, <4>1, <4>2, <4>3
    <3> QED BY <3>1, <3>2
  <2> HIDE DEF w
  <2> QED BY <2>1, <2>2, <2>6, <2>7, <2>8
<1> QED BY <1>2, <1>3

\* r is before x among those that came.
CameIn(arr, r, x) == \E i, j \in 1 .. Len(arr) : i < j /\ arr[i] = r /\ arr[j] = x

\* Nobody came twice.
Once(arr) == arr \in Seq(Request) /\ NoDuplicates(arr)

\* The queue is in the order of arrival.
Lined(arr, q) == \A i, j \in 1 .. Len(q) : i < j => CameIn(arr, q[i], q[j])

\* Nobody came before himself.
LEMMA NotBeforeItself ==
  ASSUME NEW arr, Once(arr), NEW r
  PROVE  ~CameIn(arr, r, r)
BY DEF Once, NoDuplicates, CameIn

\* A queue in order has nobody twice, and stays in order when one leaves it.
LEMMA WithoutLined ==
  ASSUME NEW arr, Once(arr), NEW q \in Seq(Request), Lined(arr, q), NEW r
  PROVE  /\ Without(q, r) \in Seq(Request)
         /\ Lined(arr, Without(q, r))
         /\ ToSet(Without(q, r)) = ToSet(q) \ {r}
<1> DEFINE w == Without(q, r)
           n == Len(q)
<1>1. n \in Nat /\ DOMAIN q = 1 .. n
  OBVIOUS
<1>2. w \in Seq(Request)
  BY WithoutIs
<1>3. CASE w = q /\ r \notin ToSet(q)
  BY <1>2, <1>3
<1>4. ASSUME NEW k \in 1 .. n, q[k] = r, Len(w) = n - 1,
             \A i \in 1 .. n - 1 : w[i] = q[IF i < k THEN i ELSE i + 1]
      PROVE  Lined(arr, w) /\ ToSet(w) = ToSet(q) \ {r}
  <2> HIDE DEF w
  <2>1. DOMAIN w = 1 .. n - 1
    BY <1>2, <1>4
  <2>2. \A i \in 1 .. n : i # k => q[i] # r
    <3>1. ASSUME NEW i \in 1 .. n, i # k, q[i] = r PROVE FALSE
      <4>1. CameIn(arr, r, r)
        BY <1>4, <3>1 DEF Lined
      <4> QED BY <4>1, NotBeforeItself
    <3> QED BY <3>1
  <2>3. Lined(arr, w)
    <3>1. ASSUME NEW i \in 1 .. n - 1, NEW j \in 1 .. n - 1, i < j
          PROVE  CameIn(arr, w[i], w[j])
      <4> DEFINE a == IF i < k THEN i ELSE i + 1
                 b == IF j < k THEN j ELSE j + 1
      <4>1. a \in 1 .. n /\ b \in 1 .. n /\ a < b
        BY <1>1, <3>1
      <4>2. w[i] = q[a] /\ w[j] = q[b]
        BY <1>4
      <4> HIDE DEF a, b
      <4> QED BY <4>1, <4>2 DEF Lined
    <3> QED BY <1>4, <3>1 DEF Lined
  <2>4. ASSUME NEW i \in 1 .. n - 1 PROVE w[i] \in ToSet(q) \ {r}
    <3> DEFINE a == IF i < k THEN i ELSE i + 1
    <3>1. a \in 1 .. n /\ a # k /\ w[i] = q[a]
      BY <1>1, <1>4
    <3> HIDE DEF a
    <3> QED BY <1>1, <2>2, <3>1 DEF ToSet
  <2>5. ASSUME NEW i \in 1 .. n, q[i] # r PROVE q[i] \in ToSet(w)
    <3>1. i # k
      BY <1>4, <2>5
    <3> DEFINE a == IF i < k THEN i ELSE i - 1
    <3>2. a \in 1 .. n - 1 /\ (IF a < k THEN a ELSE a + 1) = i
      BY <1>1, <3>1
    <3> HIDE DEF a
    <3>3. w[a] = q[i]
      BY <1>4, <3>2
    <3> QED BY <2>1, <3>2, <3>3 DEF ToSet
  <2> QED BY <1>1, <2>1, <2>3, <2>4, <2>5 DEF ToSet
<1>5. \/ w = q /\ r \notin ToSet(q)
      \/ \E k \in 1 .. n : /\ q[k] = r /\ Len(w) = n - 1
                           /\ \A i \in 1 .. n - 1 : w[i] = q[IF i < k THEN i ELSE i + 1]
  BY WithoutIs
<1> HIDE DEF w
<1>6. Lined(arr, w) /\ ToSet(w) = ToSet(q) \ {r}
  BY <1>3, <1>4, <1>5
<1> QED BY <1>2, <1>6 DEF w

\* Two queues, one behind the other, are in order when each is and all of the
\* first came before all of the second.
LEMMA LinedConcat ==
  ASSUME NEW arr, NEW p \in Seq(Request), NEW q \in Seq(Request)
  PROVE  Lined(arr, p \o q) <=> /\ Lined(arr, p) /\ Lined(arr, q)
                                /\ \A x \in ToSet(p), y \in ToSet(q) : CameIn(arr, x, y)
<1> DEFINE c == p \o q
           m == Len(p)
           n == Len(q)
<1>1. /\ m \in Nat /\ n \in Nat /\ Len(c) = m + n
      /\ \A i \in 1 .. m : c[i] = p[i]
      /\ \A i \in 1 .. n : c[m + i] = q[i]
  OBVIOUS
<1>2. DOMAIN p = 1 .. m /\ DOMAIN q = 1 .. n
  OBVIOUS
<1> HIDE DEF c
<1>3. ASSUME Lined(arr, c)
      PROVE  /\ Lined(arr, p) /\ Lined(arr, q)
             /\ \A x \in ToSet(p), y \in ToSet(q) : CameIn(arr, x, y)
  <2>1. ASSUME NEW i \in 1 .. m, NEW j \in 1 .. m, i < j PROVE CameIn(arr, p[i], p[j])
    <3>1. i \in 1 .. m + n /\ j \in 1 .. m + n
      BY <1>1
    <3> QED BY <1>1, <1>3, <2>1, <3>1 DEF Lined
  <2>2. ASSUME NEW i \in 1 .. n, NEW j \in 1 .. n, i < j PROVE CameIn(arr, q[i], q[j])
    <3>1. m + i \in 1 .. m + n /\ m + j \in 1 .. m + n /\ m + i < m + j
      BY <1>1, <2>2
    <3>2. CameIn(arr, c[m + i], c[m + j])
      BY <1>1, <1>3, <3>1 DEF Lined
    <3> QED BY <1>1, <3>2
  <2>3. ASSUME NEW i \in 1 .. m, NEW j \in 1 .. n PROVE CameIn(arr, p[i], q[j])
    <3>1. i \in 1 .. m + n /\ m + j \in 1 .. m + n /\ i < m + j
      BY <1>1
    <3>2. CameIn(arr, c[i], c[m + j])
      BY <1>1, <1>3, <3>1 DEF Lined
    <3> QED BY <1>1, <3>2
  <2> QED BY <1>2, <2>1, <2>2, <2>3 DEF Lined, ToSet
<1>4. ASSUME Lined(arr, p), Lined(arr, q),
             \A x \in ToSet(p), y \in ToSet(q) : CameIn(arr, x, y)
      PROVE  Lined(arr, c)
  <2>1. ASSUME NEW i \in 1 .. m + n, NEW j \in 1 .. m + n, i < j PROVE CameIn(arr, c[i], c[j])
    <3>1. CASE j <= m
      <4>1. i \in 1 .. m /\ j \in 1 .. m
        BY <1>1, <2>1, <3>1
      <4> QED BY <1>1, <1>4, <2>1, <4>1 DEF Lined
    <3>2. CASE i <= m /\ ~(j <= m)
      <4>1. i \in 1 .. m /\ j - m \in 1 .. n /\ m + (j - m) = j
        BY <1>1, <3>2
      <4>2. c[i] \in ToSet(p) /\ c[j] \in ToSet(q)
        BY <1>1, <1>2, <4>1 DEF ToSet
      <4> QED BY <1>4, <4>2
    <3>3. CASE ~(i <= m)
      <4>1. /\ i - m \in 1 .. n /\ m + (i - m) = i /\ j - m \in 1 .. n /\ m + (j - m) = j
            /\ i - m < j - m
        BY <1>1, <2>1, <3>3
      <4>2. c[i] = q[i - m] /\ c[j] = q[j - m]
        BY <1>1, <4>1
      <4> QED BY <1>4, <4>1, <4>2 DEF Lined
    <3> QED BY <3>1, <3>2, <3>3
  <2> QED BY <1>1, <2>1 DEF Lined
<1> QED BY <1>3, <1>4 DEF c
-----------------------------------------------------------------------------
(* The scheduler's data, and what its methods do to it.                    *)

\* A request, and the scheduler's data, have these fields, whatever is in them.
Entry(x) == x = [gen |-> x.gen, kv |-> x.kv, node |-> x.node, state |-> x.state]

Shell(s) ==
  /\ s = [waiting |-> s.waiting, running |-> s.running, tree |-> s.tree, pool |-> s.pool,
          req |-> s.req]
  /\ s.waiting \in Seq(Request) /\ s.running \in Seq(Request)
  /\ s.req = [r \in Request |-> s.req[r]] /\ \A r \in Request : Entry(s.req[r])

Queue(s) == s.running \o s.waiting
Empty(x) == x.kv = FreshKV /\ x.node = NoParent

\* What holds of the data whenever the loop may throw: the queue is in order,
\* all who are not finished are in it, and only they hold anything.
Weak(s, arr) ==
  /\ Shell(s)
  /\ Lined(arr, Queue(s)) /\ ToSet(Queue(s)) \subseteq ToSet(arr)
  /\ \A r \in ToSet(arr) \ ToSet(Queue(s)) : s.req[r].state = "FINISHED"
  /\ \A r \in Request \ ToSet(arr) : s.req[r].state # "FINISHED"
  /\ \A r \in Request \ ToSet(Queue(s)) : Empty(s.req[r])

\* Only running requests hold anything.
Holders(s) == \A r \in Request \ ToSet(s.running) : Empty(s.req[r])

\* Nobody in the queue is finished.
Unfinished(s) == \A r \in ToSet(Queue(s)) : s.req[r].state # "FINISHED"

\* What holds at every await.
Strong(s, arr) == Weak(s, arr) /\ Holders(s) /\ Unfinished(s)

\* A request that gave all back, and one that ended as well.
FreedEntry(x) == [gen |-> x.gen, kv |-> FreshKV, node |-> NoParent, state |-> x.state]
EndedEntry(x) == [gen |-> x.gen, kv |-> FreshKV, node |-> NoParent, state |-> "FINISHED"]

\* _free_kv empties the request and leaves the queues.
LEMMA FreeKVIs ==
  ASSUME NEW s, Shell(s), NEW r \in Request
  PROVE  /\ Shell(FreeKV(s, r))
         /\ FreeKV(s, r).waiting = s.waiting /\ FreeKV(s, r).running = s.running
         /\ FreeKV(s, r).req = [q \in Request |-> IF q = r THEN FreedEntry(s.req[r]) ELSE s.req[q]]
<1> DEFINE p == Free(s.pool, s.req[r].kv.table).pool
           t == IF s.req[r].node = NoParent THEN s.tree ELSE DecLockRef(s.tree, s.req[r].node)
           f == FreeKV(s, r)
<1>1. f = [s EXCEPT !.pool = p, !.tree = t, !.req[r].kv = FreshKV, !.req[r].node = NoParent]
  BY DEF FreeKV, Reset
<1> HIDE DEF p, t, f
<1>2. Entry(s.req[r]) /\ s.req = [q \in Request |-> s.req[q]]
  BY DEF Shell
<1>3. f.req = [q \in Request |-> IF q = r THEN FreedEntry(s.req[r]) ELSE s.req[q]]
  BY <1>1, <1>2 DEF Shell, Entry, FreedEntry
<1>4. f = [waiting |-> s.waiting, running |-> s.running, tree |-> t, pool |-> p, req |-> f.req]
  BY <1>1 DEF Shell
<1>5. \A q \in Request : Entry(f.req[q])
  BY <1>3 DEF Shell, Entry, FreedEntry
<1> QED BY <1>3, <1>4, <1>5 DEF Shell, f

\* _release empties the request, finishes it and takes it out of the queues.
LEMMA ReleaseIs ==
  ASSUME NEW s, Shell(s), NEW r \in Request
  PROVE  /\ Shell(ReleaseRequest(s, r))
         /\ ReleaseRequest(s, r).waiting = Without(s.waiting, r)
         /\ ReleaseRequest(s, r).running = Without(s.running, r)
         /\ ReleaseRequest(s, r).req =
              [q \in Request |-> IF q = r THEN EndedEntry(s.req[r]) ELSE s.req[q]]
<1> DEFINE f == FreeKV(s, r)
           g == ReleaseRequest(s, r)
<1>1. /\ Shell(f) /\ f.waiting = s.waiting /\ f.running = s.running
      /\ f.req = [q \in Request |-> IF q = r THEN FreedEntry(s.req[r]) ELSE s.req[q]]
  BY FreeKVIs
<1>2. g = [f EXCEPT !.waiting = Without(f.waiting, r), !.running = Without(f.running, r),
                    !.req[r].state = "FINISHED"]
  BY DEF ReleaseRequest
<1> HIDE DEF f, g
<1>3. g.waiting = Without(s.waiting, r) /\ g.running = Without(s.running, r)
  BY <1>1, <1>2 DEF Shell
<1>4. g.req = [q \in Request |-> IF q = r THEN EndedEntry(s.req[r]) ELSE s.req[q]]
  <2>1. g.req = [f.req EXCEPT ![r].state = "FINISHED"]
    BY <1>1, <1>2 DEF Shell
  <2>2. g.req = [q \in Request |-> IF q = r THEN [f.req[r] EXCEPT !.state = "FINISHED"] ELSE f.req[q]]
    BY <1>1, <2>1
  <2>3. [f.req[r] EXCEPT !.state = "FINISHED"] = EndedEntry(s.req[r])
    BY <1>1 DEF FreedEntry, EndedEntry
  <2> QED BY <1>1, <2>2, <2>3
<1>5. g = [waiting |-> g.waiting, running |-> g.running, tree |-> f.tree, pool |-> f.pool,
           req |-> g.req]
  BY <1>1, <1>2 DEF Shell
<1>6. \A q \in Request : Entry(g.req[q])
  BY <1>4 DEF Shell, Entry, EndedEntry
<1>7. g.waiting \in Seq(Request) /\ g.running \in Seq(Request)
  BY <1>3, WithoutIs DEF Shell
<1>8. Shell(g)
  BY <1>4, <1>5, <1>6, <1>7 DEF Shell
<1> QED BY <1>3, <1>4, <1>8 DEF g

\* The queue's members, and its order, by its two parts.
LEMMA QueueIs ==
  ASSUME NEW s, Shell(s)
  PROVE  /\ Queue(s) \in Seq(Request) /\ ToSet(Queue(s)) = ToSet(s.running) \cup ToSet(s.waiting)
         /\ \A arr : Lined(arr, Queue(s)) <=>
              /\ Lined(arr, s.running) /\ Lined(arr, s.waiting)
              /\ \A x \in ToSet(s.running), y \in ToSet(s.waiting) : CameIn(arr, x, y)
BY SetOfConcat, LinedConcat DEF Shell, Queue

\* A release keeps what holds of the data.
LEMMA ReleaseKeeps ==
  ASSUME NEW arr, Once(arr), NEW s, Weak(s, arr), NEW r \in ToSet(arr), r \in Request
  PROVE  /\ Weak(ReleaseRequest(s, r), arr)
         /\ ToSet(Queue(ReleaseRequest(s, r))) = ToSet(Queue(s)) \ {r}
         /\ Strong(s, arr) => Strong(ReleaseRequest(s, r), arr)
<1> DEFINE g == ReleaseRequest(s, r)
           run == s.running
           wait == s.waiting
<1>1. /\ Shell(s) /\ Shell(g) /\ g.waiting = Without(wait, r) /\ g.running = Without(run, r)
      /\ g.req = [q \in Request |-> IF q = r THEN EndedEntry(s.req[r]) ELSE s.req[q]]
  BY ReleaseIs DEF Weak
<1> HIDE DEF g
<1>2. /\ Lined(arr, run) /\ Lined(arr, wait)
      /\ \A x \in ToSet(run), y \in ToSet(wait) : CameIn(arr, x, y)
  BY <1>1, QueueIs DEF Weak
<1>3. /\ Lined(arr, g.running) /\ ToSet(g.running) = ToSet(run) \ {r}
      /\ Lined(arr, g.waiting) /\ ToSet(g.waiting) = ToSet(wait) \ {r}
  BY <1>1, <1>2, WithoutLined DEF Shell
<1>4. ToSet(Queue(g)) = ToSet(Queue(s)) \ {r}
  BY <1>1, <1>3, QueueIs
<1>5. Lined(arr, Queue(g))
  BY <1>1, <1>2, <1>3, QueueIs
<1>6. /\ \A q \in Request : q # r => g.req[q] = s.req[q]
      /\ Empty(g.req[r]) /\ g.req[r].state = "FINISHED"
  BY <1>1 DEF EndedEntry, Empty
<1>7. Weak(g, arr)
  <2>1. ToSet(arr) \subseteq Request
    BY DEF Once, ToSet
  <2> QED BY <1>1, <1>4, <1>5, <1>6, <2>1 DEF Weak
<1>8. ASSUME Strong(s, arr) PROVE Strong(g, arr)
  <2>1. Holders(g)
    BY <1>3, <1>6, <1>8 DEF Strong, Holders
  <2>2. Unfinished(g)
    <3>1. ToSet(Queue(s)) \subseteq Request
      BY <1>1, QueueIs DEF ToSet
    <3> QED BY <1>4, <1>6, <1>8, <3>1 DEF Strong, Unfinished
  <2> QED BY <1>7, <2>1, <2>2 DEF Strong
<1> QED BY <1>4, <1>7, <1>8 DEF g
-----------------------------------------------------------------------------
(* Loops: the states they go through, from the first to the last.          *)

ReleaseTurn(u, rs) == [s |-> ReleaseRequest(u.s, rs[u.i]), i |-> u.i + 1]
FinishTurn(v, rs)  == [u |-> FinishOne(v.u, rs[v.i]), i |-> v.i + 1]
PreemptTurn(u) ==
  IF num_free(u.pool) >= Len(u.running) THEN u
  ELSE [FreeKV(u, Last(u.running)) EXCEPT
          !.running = Front(@), !.waiting = <<Last(u.running)>> \o @,
          !.req[Last(u.running)].state = "WAITING"]
PrepareTurn(u) ==
  LET r == batch.members[u.i]
      p == PrepareMeta(u.s.req[r].kv, u.s.pool, NewTokens(u.s, r), batch.is_decode)
  IN  IF ~u.ok THEN u
      ELSE [s |-> [u.s EXCEPT !.req[r].kv = p.kv, !.pool = p.pool], i |-> u.i + 1, ok |-> p.ok]
Admission0(s) == [s |-> s, budget |-> num_free(s.pool), prefills |-> <<>>, over |-> FALSE, ok |-> TRUE]

\* The loops over requests to release.
LEMMA ReleaseRuns ==
  ASSUME NEW s, NEW rs, NEW n \in Nat, n = Len(rs)
  PROVE  \E f : /\ f[0] = [s |-> s, i |-> 1]
                /\ \A i \in 1 .. n : f[i] = ReleaseTurn(f[i - 1], rs)
                /\ ReleaseAll(s, rs) = f[n].s
<1> DEFINE Runs(f, k) == f = [i \in 0 .. k |->
              IF i = 0 THEN [s |-> s, i |-> 1]
              ELSE CHOOSE u \in {ReleaseTurn(r, rs) : r \in {f[i - 1]}} : TRUE]
           S == {k \in Nat : \E f : Runs(f, k)}
<1>1. 0 \in S
  <2>1. Runs([i \in 0 .. 0 |-> [s |-> s, i |-> 1]], 0)
    OBVIOUS
  <2> QED BY <2>1
<1>2. ASSUME NEW k \in Nat, k \in S PROVE k + 1 \in S
  <2>1. PICK f : Runs(f, k)
    BY <1>2
  <2> DEFINE g == [i \in 0 .. k + 1 |-> IF i = k + 1 THEN ReleaseTurn(f[k], rs) ELSE f[i]]
  <2>2. ASSUME NEW i \in 0 .. k + 1
        PROVE  g[i] = IF i = 0 THEN [s |-> s, i |-> 1]
                      ELSE CHOOSE u \in {ReleaseTurn(r, rs) : r \in {g[i - 1]}} : TRUE
    <3>1. CASE i = k + 1
      <4>1. g[i] = ReleaseTurn(f[k], rs) /\ g[i - 1] = f[k] /\ i # 0
        BY <3>1
      <4> QED BY <4>1
    <3>2. CASE i \in 0 .. k
      <4>1. g[i] = f[i] /\ (i # 0 => g[i - 1] = f[i - 1])
        BY <3>2
      <4>2. f[i] = IF i = 0 THEN [s |-> s, i |-> 1]
                   ELSE CHOOSE u \in {ReleaseTurn(r, rs) : r \in {f[i - 1]}} : TRUE
        BY <2>1, <3>2
      <4> HIDE DEF g
      <4> QED BY <4>1, <4>2
    <3> QED BY <3>1, <3>2
  <2>3. Runs(g, k + 1)
    BY <2>2
  <2> HIDE DEF Runs, g
  <2> QED BY <2>3
<1>3. n \in S
  <2> HIDE DEF S
  <2> QED BY <1>1, <1>2, SetInduction
<1> DEFINE h == CHOOSE f : Runs(f, n)
<1>4. Runs(h, n)
  BY <1>3
<1>5. ReleaseAll(s, rs) = h[n].s
  BY DEF ReleaseAll, Iterate, ReleaseTurn
<1>6. h[0] = [s |-> s, i |-> 1] /\ \A i \in 1 .. n : h[i] = ReleaseTurn(h[i - 1], rs)
  <2> HIDE DEF h
  <2> DEFINE first == [s |-> s, i |-> 1]
  <2>3. h = [i \in 0 .. n |-> IF i = 0 THEN first
                              ELSE CHOOSE u \in {ReleaseTurn(r, rs) : r \in {h[i - 1]}} : TRUE]
    BY <1>4
  <2> HIDE DEF first
  <2>1. h[0] = first
    BY <2>3
  <2>2. ASSUME NEW i \in 1 .. n PROVE h[i] = ReleaseTurn(h[i - 1], rs)
    <3>0. i \in 0 .. n /\ i # 0
      OBVIOUS
    <3>1. h[i] = IF i = 0 THEN first
                           ELSE CHOOSE u \in {ReleaseTurn(r, rs) : r \in {h[i - 1]}} : TRUE
      BY <2>3, <3>0
    <3>2. (CHOOSE u \in {ReleaseTurn(r, rs) : r \in {h[i - 1]}} : TRUE) = ReleaseTurn(h[i - 1], rs)
      OBVIOUS
    <3> QED BY <3>0, <3>1, <3>2
  <2> QED BY <2>1, <2>2 DEF first
<1> HIDE DEF h
<1> QED BY <1>5, <1>6

\* The loop over the running requests after a pass.
LEMMA FinishRuns ==
  ASSUME NEW s, NEW n \in Nat, n = Len(s.running)
  PROVE  \E f : /\ f[0] = [u |-> [ok |-> TRUE, s |-> s], i |-> 1]
                /\ \A i \in 1 .. n : f[i] = FinishTurn(f[i - 1], s.running)
                /\ FinishAll(s) = f[n].u
<1> DEFINE Runs(f, k) == f = [i \in 0 .. k |->
              IF i = 0 THEN [u |-> [ok |-> TRUE, s |-> s], i |-> 1]
              ELSE CHOOSE u \in {FinishTurn(r, s.running) : r \in {f[i - 1]}} : TRUE]
           S == {k \in Nat : \E f : Runs(f, k)}
<1>1. 0 \in S
  <2>1. Runs([i \in 0 .. 0 |-> [u |-> [ok |-> TRUE, s |-> s], i |-> 1]], 0)
    OBVIOUS
  <2> QED BY <2>1
<1>2. ASSUME NEW k \in Nat, k \in S PROVE k + 1 \in S
  <2>1. PICK f : Runs(f, k)
    BY <1>2
  <2> DEFINE g == [i \in 0 .. k + 1 |-> IF i = k + 1 THEN FinishTurn(f[k], s.running) ELSE f[i]]
  <2>2. ASSUME NEW i \in 0 .. k + 1
        PROVE  g[i] = IF i = 0 THEN [u |-> [ok |-> TRUE, s |-> s], i |-> 1]
                      ELSE CHOOSE u \in {FinishTurn(r, s.running) : r \in {g[i - 1]}} : TRUE
    <3>1. CASE i = k + 1
      <4>1. g[i] = FinishTurn(f[k], s.running) /\ g[i - 1] = f[k] /\ i # 0
        BY <3>1
      <4> QED BY <4>1
    <3>2. CASE i \in 0 .. k
      <4>1. g[i] = f[i] /\ (i # 0 => g[i - 1] = f[i - 1])
        BY <3>2
      <4>2. f[i] = IF i = 0 THEN [u |-> [ok |-> TRUE, s |-> s], i |-> 1]
                   ELSE CHOOSE u \in {FinishTurn(r, s.running) : r \in {f[i - 1]}} : TRUE
        BY <2>1, <3>2
      <4> HIDE DEF g
      <4> QED BY <4>1, <4>2
    <3> QED BY <3>1, <3>2
  <2>3. Runs(g, k + 1)
    BY <2>2
  <2> HIDE DEF Runs, g
  <2> QED BY <2>3
<1>3. n \in S
  <2> HIDE DEF S
  <2> QED BY <1>1, <1>2, SetInduction
<1> DEFINE h == CHOOSE f : Runs(f, n)
<1>4. Runs(h, n)
  BY <1>3
<1>5. FinishAll(s) = h[n].u
  BY DEF FinishAll, Iterate, FinishTurn
<1>6. h[0] = [u |-> [ok |-> TRUE, s |-> s], i |-> 1] /\ \A i \in 1 .. n : h[i] = FinishTurn(h[i - 1], s.running)
  <2> HIDE DEF h
  <2> DEFINE first == [u |-> [ok |-> TRUE, s |-> s], i |-> 1]
  <2>3. h = [i \in 0 .. n |-> IF i = 0 THEN first
                              ELSE CHOOSE u \in {FinishTurn(r, s.running) : r \in {h[i - 1]}} : TRUE]
    BY <1>4
  <2> HIDE DEF first
  <2>1. h[0] = first
    BY <2>3
  <2>2. ASSUME NEW i \in 1 .. n PROVE h[i] = FinishTurn(h[i - 1], s.running)
    <3>0. i \in 0 .. n /\ i # 0
      OBVIOUS
    <3>1. h[i] = IF i = 0 THEN first
                           ELSE CHOOSE u \in {FinishTurn(r, s.running) : r \in {h[i - 1]}} : TRUE
      BY <2>3, <3>0
    <3>2. (CHOOSE u \in {FinishTurn(r, s.running) : r \in {h[i - 1]}} : TRUE) = FinishTurn(h[i - 1], s.running)
      OBVIOUS
    <3> QED BY <3>0, <3>1, <3>2
  <2> QED BY <2>1, <2>2 DEF first
<1> HIDE DEF h
<1> QED BY <1>5, <1>6

\* The loop that makes room for a decode.
LEMMA PreemptRuns ==
  ASSUME NEW s, NEW n \in Nat, n = Len(s.running)
  PROVE  \E f : /\ f[0] = s
                /\ \A i \in 1 .. n : f[i] = PreemptTurn(f[i - 1])
                /\ Preempt(s) = f[n]
<1> DEFINE Runs(f, k) == f = [i \in 0 .. k |->
              IF i = 0 THEN s
              ELSE CHOOSE u \in {PreemptTurn(r) : r \in {f[i - 1]}} : TRUE]
           S == {k \in Nat : \E f : Runs(f, k)}
<1>1. 0 \in S
  <2>1. Runs([i \in 0 .. 0 |-> s], 0)
    OBVIOUS
  <2> QED BY <2>1
<1>2. ASSUME NEW k \in Nat, k \in S PROVE k + 1 \in S
  <2>1. PICK f : Runs(f, k)
    BY <1>2
  <2> DEFINE g == [i \in 0 .. k + 1 |-> IF i = k + 1 THEN PreemptTurn(f[k]) ELSE f[i]]
  <2>2. ASSUME NEW i \in 0 .. k + 1
        PROVE  g[i] = IF i = 0 THEN s
                      ELSE CHOOSE u \in {PreemptTurn(r) : r \in {g[i - 1]}} : TRUE
    <3>1. CASE i = k + 1
      <4>1. g[i] = PreemptTurn(f[k]) /\ g[i - 1] = f[k] /\ i # 0
        BY <3>1
      <4> QED BY <4>1
    <3>2. CASE i \in 0 .. k
      <4>1. g[i] = f[i] /\ (i # 0 => g[i - 1] = f[i - 1])
        BY <3>2
      <4>2. f[i] = IF i = 0 THEN s
                   ELSE CHOOSE u \in {PreemptTurn(r) : r \in {f[i - 1]}} : TRUE
        BY <2>1, <3>2
      <4> HIDE DEF g
      <4> QED BY <4>1, <4>2
    <3> QED BY <3>1, <3>2
  <2>3. Runs(g, k + 1)
    BY <2>2
  <2> HIDE DEF Runs, g
  <2> QED BY <2>3
<1>3. n \in S
  <2> HIDE DEF S
  <2> QED BY <1>1, <1>2, SetInduction
<1> DEFINE h == CHOOSE f : Runs(f, n)
<1>4. Runs(h, n)
  BY <1>3
<1>5. Preempt(s) = h[n]
  BY DEF Preempt, Iterate, PreemptTurn
<1>6. h[0] = s /\ \A i \in 1 .. n : h[i] = PreemptTurn(h[i - 1])
  <2> HIDE DEF h
  <2> DEFINE first == s
  <2>3. h = [i \in 0 .. n |-> IF i = 0 THEN first
                              ELSE CHOOSE u \in {PreemptTurn(r) : r \in {h[i - 1]}} : TRUE]
    BY <1>4
  <2> HIDE DEF first
  <2>1. h[0] = first
    BY <2>3
  <2>2. ASSUME NEW i \in 1 .. n PROVE h[i] = PreemptTurn(h[i - 1])
    <3>0. i \in 0 .. n /\ i # 0
      OBVIOUS
    <3>1. h[i] = IF i = 0 THEN first
                           ELSE CHOOSE u \in {PreemptTurn(r) : r \in {h[i - 1]}} : TRUE
      BY <2>3, <3>0
    <3>2. (CHOOSE u \in {PreemptTurn(r) : r \in {h[i - 1]}} : TRUE) = PreemptTurn(h[i - 1])
      OBVIOUS
    <3> QED BY <3>0, <3>1, <3>2
  <2> QED BY <2>1, <2>2 DEF first
<1> HIDE DEF h
<1> QED BY <1>5, <1>6

\* The loop over the members of a batch.
LEMMA PrepareRuns ==
  ASSUME NEW n \in Nat
  PROVE  \E f : /\ f[0] = [s |-> sched, i |-> 1, ok |-> TRUE]
                /\ \A i \in 1 .. n : f[i] = PrepareTurn(f[i - 1])
                /\ PrepareBatch(n) = f[n]
<1> DEFINE Runs(f, k) == f = [i \in 0 .. k |->
              IF i = 0 THEN [s |-> sched, i |-> 1, ok |-> TRUE]
              ELSE CHOOSE u \in {PrepareTurn(r) : r \in {f[i - 1]}} : TRUE]
           S == {k \in Nat : \E f : Runs(f, k)}
<1>1. 0 \in S
  <2>1. Runs([i \in 0 .. 0 |-> [s |-> sched, i |-> 1, ok |-> TRUE]], 0)
    OBVIOUS
  <2> QED BY <2>1
<1>2. ASSUME NEW k \in Nat, k \in S PROVE k + 1 \in S
  <2>1. PICK f : Runs(f, k)
    BY <1>2
  <2> DEFINE g == [i \in 0 .. k + 1 |-> IF i = k + 1 THEN PrepareTurn(f[k]) ELSE f[i]]
  <2>2. ASSUME NEW i \in 0 .. k + 1
        PROVE  g[i] = IF i = 0 THEN [s |-> sched, i |-> 1, ok |-> TRUE]
                      ELSE CHOOSE u \in {PrepareTurn(r) : r \in {g[i - 1]}} : TRUE
    <3>1. CASE i = k + 1
      <4>1. g[i] = PrepareTurn(f[k]) /\ g[i - 1] = f[k] /\ i # 0
        BY <3>1
      <4> QED BY <4>1
    <3>2. CASE i \in 0 .. k
      <4>1. g[i] = f[i] /\ (i # 0 => g[i - 1] = f[i - 1])
        BY <3>2
      <4>2. f[i] = IF i = 0 THEN [s |-> sched, i |-> 1, ok |-> TRUE]
                   ELSE CHOOSE u \in {PrepareTurn(r) : r \in {f[i - 1]}} : TRUE
        BY <2>1, <3>2
      <4> HIDE DEF g
      <4> QED BY <4>1, <4>2
    <3> QED BY <3>1, <3>2
  <2>3. Runs(g, k + 1)
    BY <2>2
  <2> HIDE DEF Runs, g
  <2> QED BY <2>3
<1>3. n \in S
  <2> HIDE DEF S
  <2> QED BY <1>1, <1>2, SetInduction
<1> DEFINE h == CHOOSE f : Runs(f, n)
<1>4. Runs(h, n)
  BY <1>3
<1>5. PrepareBatch(n) = h[n]
  BY DEF PrepareBatch, Iterate, PrepareTurn
<1>6. h[0] = [s |-> sched, i |-> 1, ok |-> TRUE] /\ \A i \in 1 .. n : h[i] = PrepareTurn(h[i - 1])
  <2> HIDE DEF h
  <2> DEFINE first == [s |-> sched, i |-> 1, ok |-> TRUE]
  <2>3. h = [i \in 0 .. n |-> IF i = 0 THEN first
                              ELSE CHOOSE u \in {PrepareTurn(r) : r \in {h[i - 1]}} : TRUE]
    BY <1>4
  <2> HIDE DEF first
  <2>1. h[0] = first
    BY <2>3
  <2>2. ASSUME NEW i \in 1 .. n PROVE h[i] = PrepareTurn(h[i - 1])
    <3>0. i \in 0 .. n /\ i # 0
      OBVIOUS
    <3>1. h[i] = IF i = 0 THEN first
                           ELSE CHOOSE u \in {PrepareTurn(r) : r \in {h[i - 1]}} : TRUE
      BY <2>3, <3>0
    <3>2. (CHOOSE u \in {PrepareTurn(r) : r \in {h[i - 1]}} : TRUE) = PrepareTurn(h[i - 1])
      OBVIOUS
    <3> QED BY <3>0, <3>1, <3>2
  <2> QED BY <2>1, <2>2 DEF first
<1> HIDE DEF h
<1> QED BY <1>5, <1>6

\* The admission loop, or the first turns of it.
LEMMA AdmissionRuns ==
  ASSUME NEW s, NEW n \in Nat
  PROVE  \E f : /\ f[0] = Admission0(s)
                /\ \A i \in 1 .. n : f[i] = AdmitHead(f[i - 1])
                /\ AdmitSome(s, n) = f[n]
<1> DEFINE Runs(f, k) == f = [i \in 0 .. k |->
              IF i = 0 THEN Admission0(s)
              ELSE CHOOSE u \in {AdmitHead(r) : r \in {f[i - 1]}} : TRUE]
           S == {k \in Nat : \E f : Runs(f, k)}
<1>1. 0 \in S
  <2>1. Runs([i \in 0 .. 0 |-> Admission0(s)], 0)
    OBVIOUS
  <2> QED BY <2>1
<1>2. ASSUME NEW k \in Nat, k \in S PROVE k + 1 \in S
  <2>1. PICK f : Runs(f, k)
    BY <1>2
  <2> DEFINE g == [i \in 0 .. k + 1 |-> IF i = k + 1 THEN AdmitHead(f[k]) ELSE f[i]]
  <2>2. ASSUME NEW i \in 0 .. k + 1
        PROVE  g[i] = IF i = 0 THEN Admission0(s)
                      ELSE CHOOSE u \in {AdmitHead(r) : r \in {g[i - 1]}} : TRUE
    <3>1. CASE i = k + 1
      <4>1. g[i] = AdmitHead(f[k]) /\ g[i - 1] = f[k] /\ i # 0
        BY <3>1
      <4> QED BY <4>1
    <3>2. CASE i \in 0 .. k
      <4>1. g[i] = f[i] /\ (i # 0 => g[i - 1] = f[i - 1])
        BY <3>2
      <4>2. f[i] = IF i = 0 THEN Admission0(s)
                   ELSE CHOOSE u \in {AdmitHead(r) : r \in {f[i - 1]}} : TRUE
        BY <2>1, <3>2
      <4> HIDE DEF g
      <4> QED BY <4>1, <4>2
    <3> QED BY <3>1, <3>2
  <2>3. Runs(g, k + 1)
    BY <2>2
  <2> HIDE DEF Runs, g
  <2> QED BY <2>3
<1>3. n \in S
  <2> HIDE DEF S
  <2> QED BY <1>1, <1>2, SetInduction
<1> DEFINE h == CHOOSE f : Runs(f, n)
<1>4. Runs(h, n)
  BY <1>3
<1>5. AdmitSome(s, n) = h[n]
  BY DEF AdmitSome, Iterate, Admission0
<1>6. h[0] = Admission0(s) /\ \A i \in 1 .. n : h[i] = AdmitHead(h[i - 1])
  <2> HIDE DEF h
  <2> DEFINE first == Admission0(s)
  <2>3. h = [i \in 0 .. n |-> IF i = 0 THEN first
                              ELSE CHOOSE u \in {AdmitHead(r) : r \in {h[i - 1]}} : TRUE]
    BY <1>4
  <2> HIDE DEF first
  <2>1. h[0] = first
    BY <2>3
  <2>2. ASSUME NEW i \in 1 .. n PROVE h[i] = AdmitHead(h[i - 1])
    <3>0. i \in 0 .. n /\ i # 0
      OBVIOUS
    <3>1. h[i] = IF i = 0 THEN first
                           ELSE CHOOSE u \in {AdmitHead(r) : r \in {h[i - 1]}} : TRUE
      BY <2>3, <3>0
    <3>2. (CHOOSE u \in {AdmitHead(r) : r \in {h[i - 1]}} : TRUE) = AdmitHead(h[i - 1])
      OBVIOUS
    <3> QED BY <3>0, <3>1, <3>2
  <2> QED BY <2>1, <2>2 DEF first
<1> HIDE DEF h
<1> QED BY <1>5, <1>6
-----------------------------------------------------------------------------
(* What the loops keep.                                                    *)

\* Releasing a list of requests takes them out of the queue and keeps the rest.
LEMMA ReleaseAllKeeps ==
  ASSUME NEW arr, Once(arr), NEW s, Weak(s, arr), NEW rs \in Seq(Request),
         ToSet(rs) \subseteq ToSet(arr)
  PROVE  /\ Weak(ReleaseAll(s, rs), arr)
         /\ ToSet(Queue(ReleaseAll(s, rs))) = ToSet(Queue(s)) \ ToSet(rs)
         /\ Strong(s, arr) => Strong(ReleaseAll(s, rs), arr)
<1> DEFINE n == Len(rs)
<1>1. n \in Nat /\ DOMAIN rs = 1 .. n /\ n = Len(rs)
  OBVIOUS
<1> HIDE DEF n
<1>2. PICK f : /\ f[0] = [s |-> s, i |-> 1]
               /\ \A i \in 1 .. n : f[i] = ReleaseTurn(f[i - 1], rs)
               /\ ReleaseAll(s, rs) = f[n].s
  BY <1>1, ReleaseRuns
<1> DEFINE OK(k) == /\ f[k].i = k + 1 /\ Weak(f[k].s, arr)
                    /\ ToSet(Queue(f[k].s)) = ToSet(Queue(s)) \ {rs[j] : j \in 1 .. k}
                    /\ Strong(s, arr) => Strong(f[k].s, arr)
           S == {k \in Nat : k <= n => OK(k)}
<1>3. 0 \in S
  <2>1. OK(0)
    BY <1>2
  <2> QED BY <2>1
<1>4. ASSUME NEW k \in 0 .. n - 1, k \in S PROVE k + 1 \in S
  <2>1. k \in Nat /\ k <= n /\ k + 1 \in 1 .. n /\ (k + 1) - 1 = k
    BY <1>1
  <2>2. OK(k)
    BY <1>4, <2>1
  <2> DEFINE u == f[k]
             r == rs[k + 1]
  <2>3. f[k + 1] = ReleaseTurn(u, rs)
    BY <1>2, <2>1
  <2>4. f[k + 1].s = ReleaseRequest(u.s, r) /\ f[k + 1].i = k + 1 + 1
    BY <2>2, <2>3 DEF ReleaseTurn
  <2>5. r \in ToSet(arr) /\ r \in Request
    <3>1. k + 1 \in DOMAIN rs
      BY <1>1, <2>1
    <3>2. r \in ToSet(rs) /\ r \in Request
      BY <3>1 DEF ToSet
    <3> QED BY <3>2
  <2>6. /\ Weak(ReleaseRequest(u.s, r), arr)
        /\ ToSet(Queue(ReleaseRequest(u.s, r))) = ToSet(Queue(u.s)) \ {r}
        /\ Strong(u.s, arr) => Strong(ReleaseRequest(u.s, r), arr)
    <3> HIDE DEF u, r
    <3>1. Weak(u.s, arr)
      BY <2>2 DEF u
    <3> QED BY <2>5, <3>1, ReleaseKeeps
  <2>7. {rs[j] : j \in 1 .. k + 1} = {rs[j] : j \in 1 .. k} \cup {r}
    <3>1. 1 .. k + 1 = (1 .. k) \cup {k + 1}
      BY <2>1
    <3> QED BY <3>1
  <2>8. OK(k + 1)
    BY <2>2, <2>4, <2>6, <2>7
  <2> QED BY <2>1, <2>8
<1>5. \A k \in 0 .. n : k \in S
  <2> HIDE DEF S
  <2> QED BY <1>1, <1>3, <1>4, BoundedInduction
<1>6. OK(n)
  <2> HIDE DEF OK
  <2> QED BY <1>1, <1>5
<1>7. {rs[j] : j \in 1 .. n} = ToSet(rs)
  BY <1>1 DEF ToSet
<1> QED BY <1>2, <1>6, <1>7

\* A failure empties the queue, and then everything is in order.
LEMMA CrashKeeps ==
  ASSUME Once(arrived), NEW s, Weak(s, arrived), NEW o, Crash(s, o)
  PROVE  Strong(sched', arrived) /\ ToSet(Queue(sched')) = {} /\ pc' \in {"dead", "loop"}
<1> DEFINE g == ReleaseAll(s, Queue(s))
<1>1. sched' = g /\ pc' \in {"dead", "loop"}
  BY DEF Crash, Queue
<1>2. Queue(s) \in Seq(Request) /\ ToSet(Queue(s)) \subseteq ToSet(arrived)
  BY QueueIs DEF Weak
<1>3. Weak(g, arrived) /\ ToSet(Queue(g)) = {}
  BY <1>2, ReleaseAllKeeps
<1> HIDE DEF g
<1>4. ToSet(g.running) = {}
  BY <1>3, QueueIs DEF Weak
<1>5. Holders(g) /\ Unfinished(g)
  BY <1>3, <1>4 DEF Weak, Holders, Unfinished
<1> QED BY <1>1, <1>3, <1>5 DEF Strong

\* Who runs does not wait.
LEMMA RunningDoNotWait ==
  ASSUME NEW arr, Once(arr), NEW s, Weak(s, arr)
  PROVE  \A r \in ToSet(s.running) : r \notin ToSet(s.waiting)
<1>1. \A x \in ToSet(s.running), y \in ToSet(s.waiting) : CameIn(arr, x, y)
  BY QueueIs DEF Weak
<1> QED BY <1>1, NotBeforeItself

\* A sequence that is not empty is its front and its last.
LEMMA FrontAndLast ==
  ASSUME NEW E, NEW q \in Seq(E), q # <<>>
  PROVE  /\ Front(q) \in Seq(E) /\ Last(q) \in E /\ Len(Front(q)) = Len(q) - 1
         /\ ToSet(q) = ToSet(Front(q)) \cup {Last(q)}
         /\ \A w \in Seq(E) : Front(q) \o (<<Last(q)>> \o w) = q \o w
<1> DEFINE n == Len(q)
           f == Front(q)
<1>1. n \in Nat /\ n # 0 /\ DOMAIN q = 1 .. n
  OBVIOUS
<1>2. /\ f \in Seq(E) /\ Len(f) = n - 1 /\ \A i \in 1 .. n - 1 : f[i] = q[i]
  <2>1. \A i \in 1 .. n - 1 : q[i] \in E
    BY <1>1
  <2>2. /\ f \in Seq(E) /\ Len(f) = IF 1 <= n - 1 THEN n - 1 - 1 + 1 ELSE 0
        /\ \A i \in 1 .. n - 1 - 1 + 1 : f[i] = q[1 + i - 1]
    BY <1>1, <2>1, SubSeqProperties DEF Front
  <2> HIDE DEF f, n
  <2> QED BY <1>1, <2>2
<1>3. Last(q) = q[n] /\ Last(q) \in E
  BY <1>1 DEF Last
<1> HIDE DEF f
<1>4. DOMAIN f = 1 .. n - 1
  BY <1>2
<1>5. ToSet(q) = ToSet(f) \cup {Last(q)}
  <2>1. 1 .. n = (1 .. n - 1) \cup {n}
    BY <1>1
  <2> QED BY <1>1, <1>2, <1>3, <1>4, <2>1 DEF ToSet
<1>6. f \o <<Last(q)>> = q
  <2> HIDE DEF n
  <2>1. q \in Seq(E) /\ Len(q) = n
    BY DEF n
  <2> QED BY <1>1, <1>2, <1>3, <2>1
<1>7. ASSUME NEW w \in Seq(E) PROVE f \o (<<Last(q)>> \o w) = q \o w
  <2>1. <<Last(q)>> \in Seq(E)
    BY <1>3
  <2>2. f \o (<<Last(q)>> \o w) = (f \o <<Last(q)>>) \o w
    BY <1>2, <2>1, ConcatAssociative
  <2> QED BY <1>6, <2>2
<1> QED BY <1>2, <1>3, <1>5, <1>7 DEF f
-----------------------------------------------------------------------------
(* Preemption.                                                             *)

\* The victim goes back to the head of the queue: the queue is the same.
LEMMA PreemptOne ==
  ASSUME NEW arr, Once(arr), NEW u, Strong(u, arr), u.running # <<>>
  PROVE  /\ Strong(PreemptTurn(u), arr) /\ Queue(PreemptTurn(u)) = Queue(u)
         /\ Len(PreemptTurn(u).running) >= Len(u.running) - 1
<1> DEFINE l == Last(u.running)
           f == FreeKV(u, l)
           v == [f EXCEPT !.running = Front(f.running), !.waiting = <<l>> \o f.waiting,
                          !.req[l].state = "WAITING"]
<1>1. CASE num_free(u.pool) >= Len(u.running)
  <2>1. PreemptTurn(u) = u /\ Len(u.running) \in Nat
    BY <1>1 DEF PreemptTurn, Strong, Weak, Shell
  <2> QED BY <2>1
<1>2. CASE ~(num_free(u.pool) >= Len(u.running))
  <2>1. PreemptTurn(u) = v
    BY <1>2 DEF PreemptTurn
  <2>2. Shell(u) /\ Weak(u, arr) /\ Holders(u) /\ Unfinished(u)
    BY DEF Strong, Weak
  <2>3. /\ Front(u.running) \in Seq(Request) /\ l \in Request
        /\ Len(Front(u.running)) = Len(u.running) - 1
        /\ ToSet(u.running) = ToSet(Front(u.running)) \cup {l}
        /\ Front(u.running) \o (<<l>> \o u.waiting) = u.running \o u.waiting
    BY <2>2, FrontAndLast DEF Shell
  <2>4. /\ Shell(f) /\ f.waiting = u.waiting /\ f.running = u.running
        /\ f.req = [q \in Request |-> IF q = l THEN FreedEntry(u.req[l]) ELSE u.req[q]]
    BY <2>2, <2>3, FreeKVIs
  <2> HIDE DEF f
  <2>5. v.running = Front(u.running) /\ v.waiting = <<l>> \o u.waiting
    BY <2>4 DEF Shell
  <2>6. v.req = [f.req EXCEPT ![l].state = "WAITING"]
    BY <2>4 DEF Shell
  <2>7. v = [waiting |-> v.waiting, running |-> v.running, tree |-> f.tree, pool |-> f.pool,
             req |-> v.req]
    <3>1. v = [f EXCEPT !.running = Front(f.running), !.waiting = <<l>> \o f.waiting,
                        !.req[l].state = "WAITING"]
      OBVIOUS
    <3> HIDE DEF v, l
    <3> QED BY <2>4, <3>1 DEF Shell
  <2> HIDE DEF v
  <2>8. \A q \in Request : v.req[q] = IF q = l THEN [f.req[l] EXCEPT !.state = "WAITING"] ELSE u.req[q]
    BY <2>3, <2>4, <2>6
  <2>9. [f.req[l] EXCEPT !.state = "WAITING"]
          = [gen |-> u.req[l].gen, kv |-> FreshKV, node |-> NoParent, state |-> "WAITING"]
    BY <2>3, <2>4 DEF FreedEntry
  <2>10. Shell(v)
    <3>1. v.req = [q \in Request |-> v.req[q]]
      BY <2>4, <2>6
    <3>2. \A q \in Request : Entry(v.req[q])
      BY <2>2, <2>8, <2>9 DEF Shell, Entry
    <3>3. v.waiting \in Seq(Request) /\ v.running \in Seq(Request)
      BY <2>2, <2>3, <2>5 DEF Shell
    <3> QED BY <2>7, <3>1, <3>2, <3>3 DEF Shell
  <2>11. Queue(v) = Queue(u)
    BY <2>3, <2>5 DEF Queue
  <2>12. /\ Empty(v.req[l]) /\ v.req[l].state = "WAITING"
         /\ \A q \in Request : q # l => v.req[q] = u.req[q]
    BY <2>3, <2>8, <2>9 DEF Empty
  <2>13. l \in ToSet(Queue(u)) /\ ToSet(Queue(u)) \subseteq ToSet(arr) /\ ToSet(arr) \subseteq Request
    <3>1. ToSet(Queue(u)) = ToSet(u.running) \cup ToSet(u.waiting)
      BY <2>2, QueueIs
    <3>2. ToSet(arr) \subseteq Request
      BY DEF Once, ToSet
    <3> QED BY <2>2, <2>3, <3>1, <3>2 DEF Weak
  <2>14. Weak(v, arr)
    BY <2>2, <2>10, <2>11, <2>12, <2>13 DEF Weak
  <2>15. Holders(v)
    BY <2>2, <2>3, <2>5, <2>12 DEF Holders
  <2>16. Unfinished(v)
    BY <2>2, <2>11, <2>12, <2>13 DEF Unfinished
  <2>17. Len(v.running) >= Len(u.running) - 1
    BY <2>2, <2>3, <2>5 DEF Shell
  <2> QED BY <2>1, <2>11, <2>14, <2>15, <2>16, <2>17 DEF Strong
<1> QED BY <1>1, <1>2

\* Preemption changes who runs, and neither the queue nor what holds of it.
LEMMA PreemptKeeps ==
  ASSUME NEW arr, Once(arr), NEW s, Strong(s, arr)
  PROVE  Strong(Preempt(s), arr) /\ Queue(Preempt(s)) = Queue(s)
<1> DEFINE n == Len(s.running)
<1>1. n \in Nat /\ n = Len(s.running)
  BY DEF Strong, Weak, Shell
<1> HIDE DEF n
<1>2. PICK f : /\ f[0] = s /\ \A i \in 1 .. n : f[i] = PreemptTurn(f[i - 1])
               /\ Preempt(s) = f[n]
  BY <1>1, PreemptRuns
<1> DEFINE OK(k) == /\ Strong(f[k], arr) /\ Queue(f[k]) = Queue(s)
                    /\ Len(f[k].running) >= n - k
           S == {k \in Nat : k <= n => OK(k)}
<1>3. 0 \in S
  <2>1. OK(0)
    BY <1>1, <1>2
  <2> QED BY <2>1
<1>4. ASSUME NEW k \in 0 .. n - 1, k \in S PROVE k + 1 \in S
  <2>1. k \in Nat /\ k <= n /\ k + 1 \in 1 .. n /\ (k + 1) - 1 = k
    BY <1>1
  <2>2. OK(k)
    BY <1>4, <2>1
  <2> DEFINE u == f[k]
  <2>3. f[k + 1] = PreemptTurn(u)
    BY <1>2, <2>1
  <2>4. u.running \in Seq(Request) /\ Len(u.running) >= n - k /\ n - k > 0
    BY <1>1, <2>1, <2>2 DEF Strong, Weak, Shell
  <2>5. u.running # <<>> /\ Len(u.running) \in Nat
    <3> HIDE DEF u
    <3> QED BY <1>1, <2>1, <2>4
  <2>6. /\ Strong(PreemptTurn(u), arr) /\ Queue(PreemptTurn(u)) = Queue(u)
        /\ Len(PreemptTurn(u).running) >= Len(u.running) - 1
    <3> HIDE DEF u
    <3>1. Strong(u, arr)
      BY <2>2 DEF u
    <3> QED BY <2>5, <3>1, PreemptOne
  <2>7. Len(PreemptTurn(u).running) \in Nat
    BY <2>6 DEF Strong, Weak, Shell
  <2>8. OK(k + 1)
    <3>1. Strong(f[k + 1], arr) /\ Queue(f[k + 1]) = Queue(s)
      BY <2>2, <2>3, <2>6
    <3>2. Len(f[k + 1].running) >= n - (k + 1)
      <4> DEFINE a == Len(u.running)
                 b == Len(PreemptTurn(u).running)
      <4>1. a \in Nat /\ b \in Nat /\ a >= n - k /\ b >= a - 1
        BY <2>4, <2>5, <2>6, <2>7
      <4>2. Len(f[k + 1].running) = b
        BY <2>3
      <4> HIDE DEF a, b
      <4> QED BY <1>1, <2>1, <4>1, <4>2
    <3> QED BY <3>1, <3>2
  <2> QED BY <2>1, <2>8
<1>5. \A k \in 0 .. n : k \in S
  <2> HIDE DEF S
  <2> QED BY <1>1, <1>3, <1>4, BoundedInduction
<1>6. OK(n)
  <2> HIDE DEF OK
  <2> QED BY <1>1, <1>5
<1> QED BY <1>2, <1>6
-----------------------------------------------------------------------------
(* Admission.                                                              *)

\* The data with other contents of tree, pool, queues or requests.
Data(s, run, wait, t, p, req) ==
  [waiting |-> wait, running |-> run, tree |-> t, pool |-> p, req |-> req]

Turn5(s, b, rs, over, ok) == [s |-> s, budget |-> b, prefills |-> rs, over |-> over, ok |-> ok]
Shape(a) == a = Turn5(a.s, a.budget, a.prefills, a.over, a.ok)

\* A request with another cache and pin.
Given(x, kv, node) == [gen |-> x.gen, kv |-> kv, node |-> node, state |-> x.state]
GivenTo(s, r, kv, node) == [q \in Request |-> IF q = r THEN Given(s.req[r], kv, node) ELSE s.req[q]]

\* The three ways in which a turn of the admission loop ends.
Kept(a, x) == Turn5(Data(a.s, a.s.running, a.s.waiting, x.tree, x.pool, a.s.req),
                    x.budget, a.prefills, TRUE, a.ok)
Entered(a, r, x) ==
  Turn5(Data(a.s, Append(a.s.running, r), Tail(a.s.waiting), x.tree, x.pool, GivenTo(a.s, r, x.kv, x.node)),
        x.budget, Append(a.prefills, r), FALSE, TRUE)
Failed(a, r, x) ==
  Turn5(Data(a.s, a.s.running, a.s.waiting, x.tree, x.pool, GivenTo(a.s, r, x.kv, x.node)),
        x.budget, Append(a.prefills, r), TRUE, FALSE)

\* The adoption answers whether it threw.
LEMMA AdoptedOK ==
  ASSUME NEW kv, NEW pool, NEW blocks
  PROVE  Adopted(kv, pool, blocks).ok \in BOOLEAN
<1>1. \A p : Stored(kv, p).ok = TRUE
  BY DEF Stored
<1>2. \A p, ids : AdoptPrefix(kv, p, ids).ok \in BOOLEAN
  BY DEF AdoptPrefix, Refused, Stored
<1>3. CASE blocks = <<>>
  BY <1>1, <1>3 DEF Adopted
<1>4. CASE blocks # <<>>
  <2> DEFINE fork == Fork(pool, blocks)
  <2>1. Adopted(kv, pool, blocks) = AdoptPrefix(kv, fork.pool, fork.ids)
    BY <1>4 DEF Adopted, With
  <2> QED BY <1>2, <2>1
<1> QED BY <1>3, <1>4

\* A turn for a request whose prefix was matched.
LEMMA AdmitMatchIs ==
  ASSUME NEW a, Shape(a), Shell(a.s), NEW r \in Request, NEW m
  PROVE  \E x : AdmitMatch(a, r, m) \in {Kept(a, x), Entered(a, r, x), Failed(a, r, x)}
<1> DEFINE need == BlocksNeeded(Len(Tokens(a.s, r))) - Len(m.blocks)
           e    == PinAndEvict(a, m, need)
           s    == a.s
<1>1. s = Data(s, s.running, s.waiting, s.tree, s.pool, s.req)
  BY DEF Shell, Data
<1>2. CASE a.budget + m.tree.evictable - Reserved(a.s, r) < need
  <2> DEFINE x == [tree |-> m.tree, pool |-> s.pool, budget |-> a.budget]
             z == AdmitMatch(a, r, m)
             y == z.s
  <2>1. z = [a EXCEPT !.s.tree = m.tree, !.over = TRUE]
    BY <1>2 DEF AdmitMatch
  <2> HIDE DEF z
  <2>2. z = Turn5(z.s, a.budget, a.prefills, TRUE, a.ok) /\ z.s = [s EXCEPT !.tree = m.tree]
    BY <2>1 DEF Shape, Turn5
  <2>3. y = [s EXCEPT !.tree = m.tree]
    BY <2>2
  <2> HIDE DEF y
  <2>4. y = Data(s, s.running, s.waiting, m.tree, s.pool, s.req)
    BY <1>1, <2>3 DEF Data
  <2>5. z = Kept(a, x)
    BY <2>2, <2>4 DEF Kept, y
  <2> QED BY <2>5 DEF z
<1>3. CASE ~(a.budget + m.tree.evictable - Reserved(a.s, r) < need)
  <2> DEFINE z == AdmitMatch(a, r, m)
             y == z.s
  <2>1. z = AdmitEvicted(a, r, m, need, e)
    BY <1>3 DEF AdmitMatch, With
  <2> HIDE DEF e, need, z
  <2>2. CASE a.budget + e.freed < need
    <3> DEFINE t == IF m.blocks = <<>> THEN e.tree ELSE DecLockRef(e.tree, m.node)
               x == [tree |-> t, pool |-> e.pool, budget |-> a.budget + e.freed]
    <3>1. z = [a EXCEPT !.s.tree = t, !.s.pool = e.pool, !.budget = a.budget + e.freed, !.over = TRUE]
      BY <2>1, <2>2 DEF AdmitEvicted
    <3> HIDE DEF t
    <3>2. /\ z = Turn5(z.s, a.budget + e.freed, a.prefills, TRUE, a.ok)
          /\ z.s = [s EXCEPT !.tree = t, !.pool = e.pool]
      BY <3>1 DEF Shape, Turn5
    <3>3. y = [s EXCEPT !.tree = t, !.pool = e.pool]
      BY <3>2
    <3> HIDE DEF y
    <3>4. y = Data(s, s.running, s.waiting, t, e.pool, s.req)
      BY <1>1, <3>3 DEF Data
    <3>5. z = Kept(a, x)
      BY <3>2, <3>4 DEF Kept, y
    <3> QED BY <3>5 DEF z
  <2>3. CASE ~(a.budget + e.freed < need)
    <3> DEFINE g    == Adopted(s.req[r].kv, e.pool, m.blocks)
               node == IF m.blocks = <<>> THEN s.req[r].node ELSE m.node
               b    == a.budget + e.freed - need
               u    == Granted(s, r, m, e, g)
               x    == [tree |-> e.tree, pool |-> g.pool, budget |-> b, kv |-> g.kv, node |-> node]
    <3>1. z = [a EXCEPT !.s = u, !.budget = @ + e.freed - need, !.over = ~g.ok, !.ok = g.ok,
                        !.prefills = Append(@, r)]
      <4> DEFINE Z(v) == [a EXCEPT !.s = Granted(s, r, m, e, v), !.budget = @ + e.freed - need,
                                   !.over = ~v.ok, !.ok = v.ok, !.prefills = Append(@, r)]
      <4>1. z = CHOOSE w \in {Z(v) : v \in {g}} : TRUE
        BY <2>1, <2>3 DEF AdmitEvicted, With
      <4> HIDE DEF Z, g
      <4>2. z = Z(g)
        BY <4>1
      <4> QED BY <4>2 DEF Z
    <3>2. g.ok \in BOOLEAN
      BY AdoptedOK
    <3> HIDE DEF g
    <3>3. u = Data(s, IF g.ok THEN Append(s.running, r) ELSE s.running,
                      IF g.ok THEN Tail(s.waiting) ELSE s.waiting, e.tree, g.pool,
                      GivenTo(s, r, g.kv, node))
      <4> DEFINE old == s.req[r]
                 new == u.req[r]
      <4>1. u = [s EXCEPT !.tree = e.tree, !.pool = g.pool, !.req[r].kv = g.kv,
                          !.req[r].node = node,
                          !.running = IF g.ok THEN Append(@, r) ELSE @,
                          !.waiting = IF g.ok THEN Tail(@) ELSE @]
        BY DEF Granted
      <4> HIDE DEF u, node
      <4>2. /\ u.req = [q \in Request |-> IF q = r THEN new ELSE s.req[q]]
            /\ new = [old EXCEPT !.kv = g.kv, !.node = node]
        BY <4>1 DEF Shell
      <4>3. old = [gen |-> old.gen, kv |-> old.kv, node |-> old.node, state |-> old.state]
        BY DEF Shell, Entry
      <4>4. /\ u = [waiting |-> u.waiting, running |-> u.running, tree |-> e.tree, pool |-> g.pool,
                    req |-> u.req]
            /\ u.running = IF g.ok THEN Append(s.running, r) ELSE s.running
            /\ u.waiting = IF g.ok THEN Tail(s.waiting) ELSE s.waiting
        BY <4>1 DEF Shell
      <4> HIDE DEF old, new
      <4>5. new = Given(old, g.kv, node)
        BY <4>2, <4>3 DEF Given
      <4>6. u.req = GivenTo(s, r, g.kv, node)
        BY <4>2, <4>5 DEF GivenTo, old
      <4> QED BY <4>4, <4>6 DEF Data
    <3> HIDE DEF u
    <3>4. z = Turn5(u, b, Append(a.prefills, r), ~g.ok, g.ok)
      BY <3>1 DEF Shape, Turn5
    <3>5. CASE g.ok
      <4>1. z = Entered(a, r, x)
        BY <3>2, <3>3, <3>4, <3>5 DEF Entered
      <4> QED BY <4>1 DEF z
    <3>6. CASE ~g.ok
      <4>1. z = Failed(a, r, x)
        BY <3>2, <3>3, <3>4, <3>6 DEF Failed
      <4> QED BY <4>1 DEF z
    <3> QED BY <3>5, <3>6
  <2> QED BY <2>2, <2>3
<1> QED BY <1>2, <1>3

\* The head of a sequence may move to the end of the one before it.
LEMMA HeadAndTail ==
  ASSUME NEW E, NEW p \in Seq(E), NEW q \in Seq(E), q # <<>>
  PROVE  /\ Head(q) \in E /\ Head(q) \in ToSet(q) /\ Tail(q) \in Seq(E)
         /\ Append(p, Head(q)) \in Seq(E)
         /\ Append(p, Head(q)) \o Tail(q) = p \o q
<1> DEFINE h == Head(q)
           t == Tail(q)
<1>1. h \in E /\ t \in Seq(E) /\ <<h>> \o t = q
  OBVIOUS
<1>2. Append(p, h) \in Seq(E) /\ Append(p, h) = p \o <<h>> /\ <<h>> \in Seq(E)
  BY <1>1
<1>3. h \in ToSet(q)
  <2>1. 1 \in DOMAIN q /\ h = q[1]
    OBVIOUS
  <2> QED BY <2>1 DEF ToSet
<1> HIDE DEF h, t
<1>4. (p \o <<h>>) \o t = p \o (<<h>> \o t)
  BY <1>1, <1>2, ConcatAssociative
<1>5. Append(p, h) \o t = p \o q
  BY <1>1, <1>2, <1>4
<1> QED BY <1>1, <1>2, <1>3, <1>5 DEF h, t

\* One more at the end.
LEMMA SetOfAppend ==
  ASSUME NEW E, NEW q \in Seq(E), NEW x \in E
  PROVE  Append(q, x) \in Seq(E) /\ ToSet(Append(q, x)) = ToSet(q) \cup {x}
<1>1. /\ <<x>> \in Seq(E) /\ Append(q, x) = q \o <<x>> /\ Append(q, x) \in Seq(E)
      /\ ToSet(<<x>>) = {x}
  BY DEF ToSet
<1>2. ToSet(q \o <<x>>) = ToSet(q) \cup ToSet(<<x>>)
  <2> DEFINE y == <<x>>
  <2>1. y \in Seq(E)
    OBVIOUS
  <2> HIDE DEF y
  <2>2. ToSet(q \o y) = ToSet(q) \cup ToSet(y)
    BY <2>1, SetOfConcat
  <2> QED BY <2>2 DEF y
<1> QED BY <1>1, <1>2

\* What holds between two turns of the admission loop: as long as nothing threw,
\* who was admitted runs and nobody else holds anything.
Admitting(a, arr) ==
  /\ Shape(a) /\ Weak(a.s, arr) /\ Unfinished(a.s)
  /\ a.prefills \in Seq(Request) /\ a.over \in BOOLEAN /\ a.ok \in BOOLEAN
  /\ a.ok => Holders(a.s) /\ ToSet(a.prefills) \subseteq ToSet(a.s.running)
  /\ ~a.ok => a.over

\* What a turn of the admission loop keeps, whatever it does.
Keeps(d, s, arr) == Weak(d, arr) /\ Unfinished(d) /\ Queue(d) = Queue(s)

\* A change of tree, pool, cache and pin of a request in the queue, and of who
\* of the queue runs, keeps what holds when the loop may throw.
LEMMA DataKeeps ==
  ASSUME NEW arr, Once(arr), NEW s, Weak(s, arr), Unfinished(s), NEW r \in ToSet(Queue(s)),
         NEW run \in Seq(Request), NEW wait \in Seq(Request), run \o wait = Queue(s),
         NEW t, NEW p, NEW kv, NEW node
  PROVE  Keeps(Data(s, run, wait, t, p, GivenTo(s, r, kv, node)), s, arr)
<1> DEFINE req == GivenTo(s, r, kv, node)
           d   == Data(s, run, wait, t, p, req)
<1>1. d.waiting = wait /\ d.running = run /\ d.req = req
  BY DEF Data
<1>2. d = [waiting |-> d.waiting, running |-> d.running, tree |-> d.tree, pool |-> d.pool,
           req |-> d.req]
  BY DEF Data
<1>3. Queue(d) = Queue(s)
  BY <1>1 DEF Queue
<1>4. /\ req = [q \in Request |-> req[q]]
      /\ \A q \in Request : req[q] = IF q = r THEN Given(s.req[r], kv, node) ELSE s.req[q]
  BY DEF GivenTo
<1> HIDE DEF req, d
<1>5. \A q \in Request : q # r => req[q] = s.req[q]
  BY <1>4
<1>6. ToSet(Queue(s)) \subseteq Request
  BY QueueIs DEF Weak, ToSet
<1>7. req[r] = Given(s.req[r], kv, node)
  BY <1>4, <1>6
<1>8. req[r].state = s.req[r].state /\ Entry(req[r])
  BY <1>7 DEF Given, Entry
<1>9. Shell(d)
  <2>1. \A q \in Request : Entry(req[q])
    BY <1>5, <1>8 DEF Weak, Shell
  <2> QED BY <1>1, <1>2, <1>4, <2>1 DEF Shell
<1>10. Weak(d, arr)
  <2>1. /\ Lined(arr, Queue(d)) /\ ToSet(Queue(d)) \subseteq ToSet(arr)
        /\ r \in ToSet(Queue(d)) /\ r \in ToSet(arr) /\ r \in Request
    BY <1>3, <1>6 DEF Weak
  <2>2. \A q \in ToSet(arr) \ ToSet(Queue(d)) : d.req[q].state = "FINISHED"
    <3>1. ToSet(arr) \subseteq Request
      BY DEF Once, ToSet
    <3> QED BY <1>1, <1>3, <1>5, <2>1, <3>1 DEF Weak
  <2>3. \A q \in Request \ ToSet(arr) : d.req[q].state # "FINISHED"
    BY <1>1, <1>5, <2>1 DEF Weak
  <2>4. \A q \in Request \ ToSet(Queue(d)) : Empty(d.req[q])
    BY <1>1, <1>3, <1>5, <2>1 DEF Weak
  <2> QED BY <1>9, <2>1, <2>2, <2>3, <2>4 DEF Weak
<1>11. Unfinished(d)
  BY <1>1, <1>3, <1>5, <1>6, <1>8 DEF Unfinished
<1> QED BY <1>3, <1>10, <1>11 DEF d, req, Keeps

\* A turn of the admission loop.
LEMMA AdmitOne ==
  ASSUME NEW arr, Once(arr), NEW a, Admitting(a, arr)
  PROVE  Admitting(AdmitHead(a), arr) /\ Queue(AdmitHead(a).s) = Queue(a.s)
<1> DEFINE s == a.s
           r == Head(s.waiting)
<1>1. CASE a.over \/ s.waiting = <<>>
  <2>1. AdmitHead(a) = a
    BY <1>1 DEF AdmitHead
  <2> QED BY <2>1
<1>2. CASE ~(a.over \/ s.waiting = <<>>)
  <2>1. Shape(a) /\ Weak(s, arr) /\ Unfinished(s) /\ Shell(s)
    BY DEF Admitting, Weak
  <2>2. a.ok /\ Holders(s) /\ ToSet(a.prefills) \subseteq ToSet(s.running) /\ a.prefills \in Seq(Request)
    BY <1>2 DEF Admitting
  <2>3. s.waiting \in Seq(Request) /\ s.running \in Seq(Request) /\ s.waiting # <<>>
    BY <1>2, <2>1 DEF Shell
  <2>4. /\ r \in Request /\ r \in ToSet(s.waiting) /\ Tail(s.waiting) \in Seq(Request)
        /\ Append(s.running, r) \in Seq(Request)
        /\ Append(s.running, r) \o Tail(s.waiting) = Queue(s)
    BY <2>3, HeadAndTail DEF Queue
  <2>5. PICK m : AdmitHead(a) = AdmitMatch(a, r, m)
    <3> DEFINE g    == MatchPrefix(s.tree, Front(Tokens(s, r)))
               Z(m) == AdmitMatch(a, r, m)
    <3>1. AdmitHead(a) = CHOOSE w \in {Z(m) : m \in {g}} : TRUE
      BY <1>2 DEF AdmitHead, With
    <3> HIDE DEF Z, g
    <3>2. AdmitHead(a) = Z(g)
      BY <3>1
    <3> QED BY <3>2 DEF Z
  <2> DEFINE z == AdmitHead(a)
  <2>6. PICK x : z \in {Kept(a, x), Entered(a, r, x), Failed(a, r, x)}
    BY <2>1, <2>4, <2>5, AdmitMatchIs
  <2>7. r \in ToSet(Queue(s)) /\ Queue(s) = s.running \o s.waiting
    BY <2>1, <2>4, QueueIs DEF Queue
  <2>8. Append(a.prefills, r) \in Seq(Request) /\ ToSet(Append(a.prefills, r)) = ToSet(a.prefills) \cup {r}
        /\ ToSet(Append(s.running, r)) = ToSet(s.running) \cup {r}
    BY <2>2, <2>3, <2>4, SetOfAppend
  <2> HIDE DEF z, s, r
  <2>9. CASE z = Kept(a, x)
    <3> DEFINE d == Data(s, s.running, s.waiting, x.tree, x.pool, s.req)
    <3>1. z = Turn5(d, x.budget, a.prefills, TRUE, a.ok)
      BY <2>9 DEF Kept, s
    <3>2. /\ z.s = d /\ z.prefills = a.prefills /\ z.over = TRUE /\ z.ok = a.ok /\ Shape(z)
      BY <3>1 DEF Turn5, Shape
    <3>3. /\ d.waiting = s.waiting /\ d.running = s.running /\ d.req = s.req
          /\ d = [waiting |-> d.waiting, running |-> d.running, tree |-> d.tree, pool |-> d.pool,
                  req |-> d.req]
      BY DEF Data
    <3> HIDE DEF d
    <3>4. Shell(d) /\ Queue(d) = Queue(s)
      BY <2>1, <3>3 DEF Shell, Queue
    <3>5. Weak(d, arr) /\ Unfinished(d) /\ Holders(d)
      BY <2>1, <2>2, <3>3, <3>4 DEF Weak, Unfinished, Holders
    <3> QED BY <2>2, <3>2, <3>3, <3>4, <3>5 DEF Admitting, s, z
  <2>10. CASE z = Entered(a, r, x)
    <3> DEFINE d == Data(s, Append(s.running, r), Tail(s.waiting), x.tree, x.pool,
                         GivenTo(s, r, x.kv, x.node))
    <3>1. z = Turn5(d, x.budget, Append(a.prefills, r), FALSE, TRUE)
      BY <2>10 DEF Entered, s
    <3>2. Weak(d, arr) /\ Unfinished(d) /\ Queue(d) = Queue(s)
      <4> DEFINE run  == Append(s.running, r)
                 wait == Tail(s.waiting)
      <4>1. run \in Seq(Request) /\ wait \in Seq(Request) /\ run \o wait = Queue(s)
        BY <2>4
      <4> HIDE DEF run, wait
      <4>2. Keeps(Data(s, run, wait, x.tree, x.pool, GivenTo(s, r, x.kv, x.node)), s, arr)
        BY <2>1, <2>7, <4>1, DataKeeps
      <4> QED BY <4>2 DEF run, wait, Keeps
    <3>3. d.running = Append(s.running, r) /\ d.req = GivenTo(s, r, x.kv, x.node)
      BY DEF Data
    <3> HIDE DEF d
    <3>4. /\ z.s = d /\ z.prefills = Append(a.prefills, r) /\ z.over = FALSE /\ z.ok = TRUE /\ Shape(z)
      BY <3>1 DEF Turn5, Shape
    <3>5. Holders(d)
      <4>1. \A q \in Request : q # r => d.req[q] = s.req[q]
        BY <3>3 DEF GivenTo
      <4> QED BY <2>2, <2>8, <3>3, <4>1 DEF Holders
    <3>6. ToSet(z.prefills) \subseteq ToSet(d.running)
      BY <2>2, <2>8, <3>3, <3>4
    <3> QED BY <2>8, <3>2, <3>4, <3>5, <3>6 DEF Admitting, s, z
  <2>11. CASE z = Failed(a, r, x)
    <3> DEFINE d == Data(s, s.running, s.waiting, x.tree, x.pool, GivenTo(s, r, x.kv, x.node))
    <3>1. z = Turn5(d, x.budget, Append(a.prefills, r), TRUE, FALSE)
      BY <2>11 DEF Failed, s
    <3>2. Weak(d, arr) /\ Unfinished(d) /\ Queue(d) = Queue(s)
      <4> DEFINE run  == s.running
                 wait == s.waiting
      <4>1. run \in Seq(Request) /\ wait \in Seq(Request) /\ run \o wait = Queue(s)
        BY <2>3, <2>7
      <4> HIDE DEF run, wait
      <4>2. Keeps(Data(s, run, wait, x.tree, x.pool, GivenTo(s, r, x.kv, x.node)), s, arr)
        BY <2>1, <2>7, <4>1, DataKeeps
      <4> QED BY <4>2 DEF run, wait, Keeps
    <3> HIDE DEF d
    <3>3. /\ z.s = d /\ z.prefills = Append(a.prefills, r) /\ z.over = TRUE /\ z.ok = FALSE /\ Shape(z)
      BY <3>1 DEF Turn5, Shape
    <3> QED BY <2>8, <3>2, <3>3 DEF Admitting, s, z
  <2> QED BY <2>6, <2>9, <2>10, <2>11
<1> QED BY <1>1, <1>2

\* Admission lets requests of the queue run, and if it throws the queue is as
\* it was before the request at which it did.
LEMMA AdmissionKeeps ==
  ASSUME NEW arr, Once(arr), NEW s, Strong(s, arr), NEW n \in Nat
  PROVE  Admitting(AdmitSome(s, n), arr) /\ Queue(AdmitSome(s, n).s) = Queue(s)
<1>1. n \in Nat
  OBVIOUS
<1>2. PICK f : /\ f[0] = Admission0(s) /\ \A i \in 1 .. n : f[i] = AdmitHead(f[i - 1])
               /\ AdmitSome(s, n) = f[n]
  BY AdmissionRuns
<1> DEFINE OK(k) == Admitting(f[k], arr) /\ Queue(f[k].s) = Queue(s)
           S == {k \in Nat : k <= n => OK(k)}
<1>3. 0 \in S
  <2> DEFINE a == Admission0(s)
  <2>1. /\ Shape(a) /\ a.s = s /\ a.prefills = <<>> /\ a.over = FALSE /\ a.ok = TRUE
    BY DEF Admission0, Shape, Turn5
  <2> HIDE DEF a
  <2>2. a.prefills \in Seq(Request) /\ ToSet(a.prefills) = {}
    BY <2>1 DEF ToSet
  <2>3. Admitting(a, arr)
    BY <2>1, <2>2 DEF Admitting, Strong
  <2>4. OK(0)
    BY <1>2, <2>1, <2>3 DEF a
  <2> QED BY <2>4
<1>4. ASSUME NEW k \in 0 .. n - 1, k \in S PROVE k + 1 \in S
  <2>1. k \in Nat /\ k <= n /\ k + 1 \in 1 .. n /\ (k + 1) - 1 = k
    BY <1>1
  <2>2. OK(k)
    BY <1>4, <2>1
  <2>3. f[k + 1] = AdmitHead(f[k])
    BY <1>2, <2>1
  <2>4. Admitting(AdmitHead(f[k]), arr) /\ Queue(AdmitHead(f[k]).s) = Queue(f[k].s)
    BY <2>2, AdmitOne
  <2>5. OK(k + 1)
    BY <2>2, <2>3, <2>4
  <2> QED BY <2>1, <2>5
<1>5. \A k \in 0 .. n : k \in S
  <2> HIDE DEF S
  <2> QED BY <1>1, <1>3, <1>4, BoundedInduction
<1>6. OK(n)
  <2> HIDE DEF OK
  <2> QED BY <1>1, <1>5
<1> QED BY <1>2, <1>6
-----------------------------------------------------------------------------
(* The forward pass.                                                       *)

\* d is s with another cache and pool for r, which runs.
Recached(s, r, d) == \E kv, pl : d = [s EXCEPT !.req[r].kv = kv, !.pool = pl]

LEMMA OtherCache ==
  ASSUME NEW arr, Once(arr), NEW s, Strong(s, arr), NEW r \in ToSet(s.running),
         NEW d, Recached(s, r, d)
  PROVE  Strong(d, arr) /\ d.running = s.running /\ d.waiting = s.waiting
<1>0. PICK kv, pl : d = [s EXCEPT !.req[r].kv = kv, !.pool = pl]
  BY DEF Recached
<1>1. /\ Weak(s, arr) /\ Holders(s) /\ Unfinished(s) /\ Shell(s)
  BY DEF Strong, Weak
<1>2. r \in ToSet(Queue(s)) /\ ToSet(Queue(s)) \subseteq Request
  <2>1. Queue(s) \in Seq(Request) /\ ToSet(Queue(s)) = ToSet(s.running) \cup ToSet(s.waiting)
    BY <1>1, QueueIs
  <2>2. ToSet(Queue(s)) \subseteq Request
    BY <2>1 DEF ToSet
  <2> QED BY <2>1, <2>2
<1> DEFINE old == s.req[r]
           new == d.req[r]
<1>3. /\ d.req = [q \in Request |-> IF q = r THEN new ELSE s.req[q]]
      /\ new = [old EXCEPT !.kv = kv]
  BY <1>0, <1>1, <1>2 DEF Shell
<1>4. old = [gen |-> old.gen, kv |-> old.kv, node |-> old.node, state |-> old.state]
  BY <1>1, <1>2 DEF Shell, Entry
<1>5. /\ d = [waiting |-> s.waiting, running |-> s.running, tree |-> s.tree, pool |-> pl,
              req |-> d.req]
      /\ d.waiting = s.waiting /\ d.running = s.running
  BY <1>0, <1>1 DEF Shell
<1> HIDE DEF old, new
<1>6. new = Given(old, kv, old.node)
  BY <1>3, <1>4 DEF Given
<1>7. d.req = GivenTo(s, r, kv, old.node)
  BY <1>3, <1>6 DEF GivenTo, old
<1>8. d = Data(s, s.running, s.waiting, s.tree, pl, GivenTo(s, r, kv, old.node))
  BY <1>5, <1>7 DEF Data
<1>9. Weak(d, arr) /\ Unfinished(d)
  <2> DEFINE run  == s.running
             wait == s.waiting
  <2>1. run \in Seq(Request) /\ wait \in Seq(Request) /\ run \o wait = Queue(s)
    BY <1>1 DEF Shell, Queue
  <2> HIDE DEF run, wait
  <2>2. Keeps(Data(s, run, wait, s.tree, pl, GivenTo(s, r, kv, old.node)), s, arr)
    BY <1>1, <1>2, <2>1, DataKeeps
  <2> QED BY <1>8, <2>2 DEF run, wait, Keeps
<1>10. Holders(d)
  <2>1. \A q \in Request : q # r => d.req[q] = s.req[q]
    BY <1>3
  <2> QED BY <1>1, <1>5, <2>1 DEF Holders
<1> QED BY <1>5, <1>9, <1>10 DEF Strong

\* prepare_meta changes the caches of the batch's members, which run.
LEMMA PrepareOne ==
  ASSUME NEW arr, Once(arr), NEW u, u = [s |-> u.s, i |-> u.i, ok |-> u.ok], Strong(u.s, arr),
         NEW r \in ToSet(u.s.running), r = batch.members[u.i]
  PROVE  /\ PrepareTurn(u) = [s |-> PrepareTurn(u).s, i |-> PrepareTurn(u).i, ok |-> PrepareTurn(u).ok]
         /\ PrepareTurn(u).i \in {u.i, u.i + 1}
         /\ Strong(PrepareTurn(u).s, arr)
         /\ PrepareTurn(u).s.running = u.s.running /\ PrepareTurn(u).s.waiting = u.s.waiting
<1> DEFINE p == PrepareMeta(u.s.req[r].kv, u.s.pool, NewTokens(u.s, r), batch.is_decode)
           s == u.s
           d == [s EXCEPT !.req[r].kv = p.kv, !.pool = p.pool]
           z == PrepareTurn(u)
<1>1. CASE ~u.ok
  <2>1. z = u
    BY <1>1 DEF PrepareTurn
  <2> QED BY <2>1
<1>2. CASE u.ok
  <2>1. z = [s |-> d, i |-> u.i + 1, ok |-> p.ok]
    BY <1>2 DEF PrepareTurn
  <2>2. d = [s EXCEPT !.req[r].kv = p.kv, !.pool = p.pool]
    OBVIOUS
  <2> HIDE DEF d, p, z
  <2>3. z = [s |-> z.s, i |-> z.i, ok |-> z.ok] /\ z.i = u.i + 1 /\ z.s = d
    BY <2>1
  <2>4. Strong(s, arr) /\ r \in ToSet(s.running)
    OBVIOUS
  <2> HIDE DEF s
  <2>5. Recached(s, r, d)
    BY <2>2 DEF Recached
  <2>6. Strong(d, arr) /\ d.running = s.running /\ d.waiting = s.waiting
    BY <2>4, <2>5, OtherCache
  <2> QED BY <2>3, <2>6 DEF z, s
<1> QED BY <1>1, <1>2

\* The members of a batch run.
Members(b, s) == b.members \in Seq(Request) /\ ToSet(b.members) \subseteq ToSet(s.running)

\* However far prepare_meta came.
LEMMA PrepareKeeps ==
  ASSUME NEW arr, Once(arr), Strong(sched, arr), Members(batch, sched), NEW n \in 0 .. Len(batch.members)
  PROVE  /\ Strong(PrepareBatch(n).s, arr)
         /\ PrepareBatch(n).s.running = sched.running /\ PrepareBatch(n).s.waiting = sched.waiting
<1>1. n \in Nat /\ Len(batch.members) \in Nat /\ n <= Len(batch.members)
  BY DEF Members
<1>2. PICK f : /\ f[0] = [s |-> sched, i |-> 1, ok |-> TRUE]
               /\ \A i \in 1 .. n : f[i] = PrepareTurn(f[i - 1])
               /\ PrepareBatch(n) = f[n]
  BY <1>1, PrepareRuns
<1> DEFINE OK(k) == /\ f[k] = [s |-> f[k].s, i |-> f[k].i, ok |-> f[k].ok]
                    /\ f[k].i \in 1 .. k + 1
                    /\ Strong(f[k].s, arr)
                    /\ f[k].s.running = sched.running /\ f[k].s.waiting = sched.waiting
           S == {k \in Nat : k <= n => OK(k)}
<1>3. 0 \in S
  <2>1. OK(0)
    BY <1>2
  <2> QED BY <2>1
<1>4. ASSUME NEW k \in 0 .. n - 1, k \in S PROVE k + 1 \in S
  <2>1. k \in Nat /\ k <= n /\ k + 1 \in 1 .. n /\ (k + 1) - 1 = k
    BY <1>1
  <2>2. OK(k)
    BY <1>4, <2>1
  <2> DEFINE u == f[k]
             r == batch.members[u.i]
  <2>3. f[k + 1] = PrepareTurn(u)
    BY <1>2, <2>1
  <2>4. r \in ToSet(u.s.running)
    <3>1. u.i \in 1 .. Len(batch.members)
      BY <1>1, <2>1, <2>2
    <3>2. r \in ToSet(batch.members)
      BY <3>1 DEF Members, ToSet
    <3> QED BY <2>2, <3>2 DEF Members
  <2>5. /\ u = [s |-> u.s, i |-> u.i, ok |-> u.ok] /\ Strong(u.s, arr) /\ r = batch.members[u.i]
        /\ u.i \in 1 .. k + 1 /\ u.s.running = sched.running /\ u.s.waiting = sched.waiting
    BY <2>2
  <2> HIDE DEF u, r
  <2>6. /\ PrepareTurn(u) = [s |-> PrepareTurn(u).s, i |-> PrepareTurn(u).i, ok |-> PrepareTurn(u).ok]
        /\ PrepareTurn(u).i \in {u.i, u.i + 1}
        /\ Strong(PrepareTurn(u).s, arr)
        /\ PrepareTurn(u).s.running = u.s.running /\ PrepareTurn(u).s.waiting = u.s.waiting
    BY <2>4, <2>5, PrepareOne
  <2>7. PrepareTurn(u).i \in 1 .. (k + 1) + 1
    BY <2>1, <2>5, <2>6
  <2>8. OK(k + 1)
    BY <2>3, <2>5, <2>6, <2>7
  <2> QED BY <2>1, <2>8
<1>5. \A k \in 0 .. n : k \in S
  <2> HIDE DEF S
  <2> QED BY <1>1, <1>3, <1>4, BoundedInduction
<1>6. OK(n)
  <2> HIDE DEF OK
  <2> QED BY <1>1, <1>5
<1> QED BY <1>2, <1>6
-----------------------------------------------------------------------------
(* After the pass.                                                         *)

\* Nobody who waits is finished.
WaitersUnfinished(s) == \A r \in ToSet(s.waiting) : s.req[r].state # "FINISHED"

\* The members take their tokens, and some end.
LEMMA AnswerKeeps ==
  ASSUME NEW arr, Once(arr), NEW s, Strong(s, arr), Members(batch, s), NEW next
  PROVE  /\ Weak(Answer(s, next), arr) /\ Holders(Answer(s, next))
         /\ WaitersUnfinished(Answer(s, next))
         /\ Answer(s, next).running = s.running /\ Answer(s, next).waiting = s.waiting
         /\ \A r \in ToSet(batch.members) :
              Ends(s, r, next[r]) => Answer(s, next).req[r].state = "FINISHED"
<1> DEFINE g == Answer(s, next)
           in == ToSet(batch.members)
<1>1. g = [s EXCEPT !.req = [r \in Request |-> IF r \in in THEN TakeToken(s, r, next[r]) ELSE s.req[r]]]
  BY DEF Answer
<1> HIDE DEF g, in
<1>2. Weak(s, arr) /\ Holders(s) /\ Unfinished(s) /\ Shell(s)
  BY DEF Strong, Weak
<1>3. /\ g = [waiting |-> s.waiting, running |-> s.running, tree |-> s.tree, pool |-> s.pool,
              req |-> g.req]
      /\ g.req = [r \in Request |-> IF r \in in THEN TakeToken(s, r, next[r]) ELSE s.req[r]]
  BY <1>1, <1>2 DEF Shell
<1>4. g.waiting = s.waiting /\ g.running = s.running /\ Queue(g) = Queue(s)
  <2>1. g.waiting = s.waiting /\ g.running = s.running
    BY <1>3
  <2> QED BY <2>1 DEF Queue
<1>5. ASSUME NEW r \in Request
      PROVE  /\ Entry(g.req[r]) /\ g.req[r].kv = s.req[r].kv /\ g.req[r].node = s.req[r].node
             /\ r \notin in => g.req[r] = s.req[r]
             /\ r \in in /\ Ends(s, r, next[r]) => g.req[r].state = "FINISHED"
  <2>1. CASE r \notin in
    BY <1>2, <1>3, <2>1 DEF Shell
  <2>2. CASE r \in in
    <3> DEFINE old == s.req[r]
               new == g.req[r]
               st  == IF Ends(s, r, next[r]) THEN "FINISHED"
                      ELSE IF batch.is_decode THEN old.state ELSE "RUNNING"
               gen == Append(old.gen, next[r])
    <3>1. new = [old EXCEPT !.gen = gen, !.state = st]
      BY <1>3, <2>2 DEF TakeToken
    <3>2. old = [gen |-> old.gen, kv |-> old.kv, node |-> old.node, state |-> old.state]
      BY <1>2 DEF Shell, Entry
    <3>3. Ends(s, r, next[r]) => st = "FINISHED"
      OBVIOUS
    <3> HIDE DEF old, new, st, gen
    <3>4. new = [gen |-> gen, kv |-> old.kv, node |-> old.node, state |-> st]
      BY <3>1, <3>2
    <3>5. Entry(new) /\ new.kv = old.kv /\ new.node = old.node /\ new.state = st
      BY <3>4 DEF Entry
    <3> QED BY <2>2, <3>3, <3>5 DEF old, new
  <2> QED BY <2>1, <2>2
<1>6. Shell(g)
  BY <1>2, <1>3, <1>5 DEF Shell
<1>7. /\ in \subseteq ToSet(s.running) /\ ToSet(s.running) \subseteq ToSet(Queue(s))
      /\ ToSet(Queue(s)) \subseteq ToSet(arr) /\ ToSet(arr) \subseteq Request
      /\ ToSet(s.waiting) \subseteq ToSet(Queue(s))
  <2>1. ToSet(Queue(s)) = ToSet(s.running) \cup ToSet(s.waiting)
    BY <1>2, QueueIs
  <2>2. in \subseteq ToSet(s.running)
    BY DEF Members, in
  <2>3. ToSet(arr) \subseteq Request
    BY DEF Once, ToSet
  <2> QED BY <1>2, <2>1, <2>2, <2>3 DEF Weak
<1>8. Weak(g, arr)
  BY <1>2, <1>4, <1>5, <1>6, <1>7 DEF Weak, Empty
<1>9. Holders(g)
  BY <1>2, <1>4, <1>5 DEF Holders, Empty
<1>10. WaitersUnfinished(g)
  <2>1. \A r \in ToSet(s.waiting) : r \notin ToSet(s.running)
    BY <1>2, RunningDoNotWait
  <2> QED BY <1>2, <1>4, <1>5, <1>7, <2>1 DEF WaitersUnfinished, Unfinished
<1>11. \A r \in in : Ends(s, r, next[r]) => g.req[r].state = "FINISHED"
  BY <1>5, <1>7
<1> QED BY <1>4, <1>8, <1>9, <1>10, <1>11 DEF g, in

\* What holds between two turns of the loop that ends the finished ones, when
\* it began at s0 and has looked at the first k of s0.running.
Finishing(u, s0, k, arr) ==
  /\ u = [ok |-> u.ok, s |-> u.s] /\ u.ok \in BOOLEAN
  /\ Weak(u.s, arr) /\ Holders(u.s)
  /\ u.s.waiting = s0.waiting /\ ToSet(u.s.running) \subseteq ToSet(s0.running)
  /\ \A r \in Request : u.s.req[r].state = s0.req[r].state
  /\ u.ok => \A j \in 1 .. k : s0.req[s0.running[j]].state = "FINISHED"
                                 => s0.running[j] \notin ToSet(u.s.running)

\* A finished request leaves, or the tree refuses its blocks and the loop throws.
LEMMA FinishOneKeeps ==
  ASSUME NEW arr, Once(arr), NEW u, NEW s0, NEW k \in Nat, Finishing(u, s0, k, arr),
         NEW r \in Request, r \in ToSet(arr), r = s0.running[k + 1]
  PROVE  Finishing(FinishOne(u, r), s0, k + 1, arr)
<1> DEFINE s   == u.s
           ins == IF UseRadix THEN Insert(s.tree, Tokens(s, r), s.req[r].kv.table, s.pool)
                              ELSE [ok |-> TRUE, tree |-> s.tree, pool |-> s.pool]
           t   == [s EXCEPT !.tree = ins.tree, !.pool = ins.pool]
           f   == FreeKV(t, r)
           e   == [f EXCEPT !.running = Without(f.running, r)]
           z   == FinishOne(u, r)
<1>1. z = IF ~u.ok \/ s.req[r].state # "FINISHED" THEN u
          ELSE IF ins.ok THEN [ok |-> TRUE, s |-> e] ELSE [ok |-> FALSE, s |-> t]
  BY DEF FinishOne
<1>2. t = [s EXCEPT !.tree = ins.tree, !.pool = ins.pool]
  OBVIOUS
<1> HIDE DEF z, ins, t
<1>3. /\ u = [ok |-> u.ok, s |-> s] /\ u.ok \in BOOLEAN /\ Weak(s, arr) /\ Holders(s) /\ Shell(s)
      /\ s.waiting = s0.waiting /\ ToSet(s.running) \subseteq ToSet(s0.running)
      /\ \A q \in Request : s.req[q].state = s0.req[q].state
  BY DEF Finishing, Weak
<1>4. \A j \in 1 .. k + 1 : j \in 1 .. k \/ s0.running[j] = r
  OBVIOUS
<1>5. CASE ~u.ok \/ s.req[r].state # "FINISHED"
  <2>1. z = u
    BY <1>1, <1>5
  <2>2. u.ok => \A j \in 1 .. k + 1 : s0.req[s0.running[j]].state = "FINISHED"
                                        => s0.running[j] \notin ToSet(u.s.running)
    BY <1>3, <1>4, <1>5 DEF Finishing
  <2> QED BY <1>3, <2>1, <2>2 DEF Finishing, z
<1>6. CASE ~(~u.ok \/ s.req[r].state # "FINISHED")
  <2> HIDE DEF s
  <2>1. /\ t = [waiting |-> s.waiting, running |-> s.running, tree |-> ins.tree, pool |-> ins.pool,
                req |-> s.req]
        /\ t.waiting = s.waiting /\ t.running = s.running /\ t.req = s.req
    BY <1>2, <1>3 DEF Shell
  <2>2. Shell(t) /\ Queue(t) = Queue(s)
    <3>1. t = [waiting |-> t.waiting, running |-> t.running, tree |-> t.tree, pool |-> t.pool,
               req |-> t.req]
      BY <2>1
    <3> QED BY <1>3, <2>1, <3>1 DEF Shell, Queue
  <2>3. CASE ~ins.ok
    <3>1. z = [ok |-> FALSE, s |-> t]
      BY <1>1, <1>6, <2>3
    <3>2. Weak(t, arr) /\ Holders(t)
      BY <1>3, <2>1, <2>2 DEF Weak, Holders
    <3>3. z = [ok |-> z.ok, s |-> z.s] /\ z.ok = FALSE /\ z.s = t
      BY <3>1
    <3> QED BY <1>3, <2>1, <3>2, <3>3 DEF Finishing, z
  <2>4. CASE ins.ok
    <3>1. z = [ok |-> TRUE, s |-> e]
      BY <1>1, <1>6, <2>4
    <3>2. /\ Shell(f) /\ f.waiting = s.waiting /\ f.running = s.running
          /\ f.req = [q \in Request |-> IF q = r THEN FreedEntry(s.req[r]) ELSE s.req[q]]
      BY <2>1, <2>2, FreeKVIs
    <3>3. e = [f EXCEPT !.running = Without(f.running, r)]
      OBVIOUS
    <3> HIDE DEF e, f
    <3>4. /\ e = [waiting |-> e.waiting, running |-> e.running, tree |-> f.tree, pool |-> f.pool,
                  req |-> f.req]
          /\ e.waiting = s.waiting /\ e.running = Without(s.running, r) /\ e.req = f.req
      BY <3>2, <3>3 DEF Shell
    <3>5. /\ Lined(arr, s.running) /\ Lined(arr, s.waiting)
          /\ \A x \in ToSet(s.running), y \in ToSet(s.waiting) : CameIn(arr, x, y)
          /\ s.running \in Seq(Request)
      <4>1. s.running \in Seq(Request)
        BY <1>3 DEF Shell
      <4> QED BY <1>3, <4>1, QueueIs DEF Weak
    <3>6. /\ e.running \in Seq(Request) /\ Lined(arr, e.running)
          /\ ToSet(e.running) = ToSet(s.running) \ {r}
      BY <3>4, <3>5, WithoutLined
    <3>7. Shell(e)
      <4>1. e = [waiting |-> e.waiting, running |-> e.running, tree |-> e.tree, pool |-> e.pool,
                 req |-> e.req]
        BY <3>4
      <4>2. e.waiting \in Seq(Request)
        BY <1>3, <3>4 DEF Shell
      <4> QED BY <3>2, <3>4, <3>6, <4>1, <4>2 DEF Shell
    <3>8. Lined(arr, Queue(e)) /\ ToSet(Queue(e)) = ToSet(e.running) \cup ToSet(s.waiting)
      BY <3>4, <3>5, <3>6, <3>7, QueueIs
    <3>9. /\ \A q \in Request : q # r => e.req[q] = s.req[q]
          /\ Empty(e.req[r]) /\ e.req[r].state = s.req[r].state /\ s.req[r].state = "FINISHED"
      <4>1. e.req[r] = FreedEntry(s.req[r]) /\ \A q \in Request : q # r => e.req[q] = s.req[q]
        BY <3>2, <3>4
      <4>2. Empty(e.req[r]) /\ e.req[r].state = s.req[r].state
        BY <4>1 DEF FreedEntry, Empty
      <4> QED BY <1>3, <1>6, <4>1, <4>2
    <3>10. ToSet(Queue(s)) = ToSet(s.running) \cup ToSet(s.waiting) /\ ToSet(arr) \subseteq Request
      <4>1. ToSet(arr) \subseteq Request
        BY DEF Once, ToSet
      <4> QED BY <1>3, <4>1, QueueIs
    <3>11. Weak(e, arr)
      <4>1. ToSet(Queue(e)) \subseteq ToSet(Queue(s)) /\ ToSet(Queue(s)) \subseteq ToSet(Queue(e)) \cup {r}
        BY <3>6, <3>8, <3>10
      <4>2. \A q \in ToSet(arr) \ ToSet(Queue(e)) : e.req[q].state = "FINISHED"
        BY <1>3, <3>9, <3>10, <4>1 DEF Weak
      <4>3. \A q \in Request \ ToSet(arr) : e.req[q].state # "FINISHED"
        BY <1>3, <3>9 DEF Weak
      <4>4. \A q \in Request \ ToSet(Queue(e)) : Empty(e.req[q])
        BY <1>3, <3>9, <4>1 DEF Weak
      <4>5. ToSet(Queue(e)) \subseteq ToSet(arr)
        BY <1>3, <4>1 DEF Weak
      <4> QED BY <3>7, <3>8, <4>2, <4>3, <4>4, <4>5 DEF Weak
    <3>12. Holders(e)
      BY <1>3, <3>6, <3>9 DEF Holders
    <3>13. \A j \in 1 .. k + 1 : s0.req[s0.running[j]].state = "FINISHED"
                                   => s0.running[j] \notin ToSet(e.running)
      BY <1>4, <1>6, <3>6 DEF Finishing, s
    <3>14. z = [ok |-> z.ok, s |-> z.s] /\ z.ok = TRUE /\ z.s = e
      BY <3>1
    <3>15. /\ e.waiting = s0.waiting /\ ToSet(e.running) \subseteq ToSet(s0.running)
           /\ \A q \in Request : e.req[q].state = s0.req[q].state
      BY <1>3, <3>4, <3>6, <3>9
    <3> QED BY <3>11, <3>12, <3>13, <3>14, <3>15 DEF Finishing, z
  <2> QED BY <2>3, <2>4
<1> QED BY <1>5, <1>6

\* When nothing threw, all who finished have left.
LEMMA FinishAllKeeps ==
  ASSUME NEW arr, Once(arr), NEW s, Weak(s, arr), Holders(s), WaitersUnfinished(s)
  PROVE  /\ FinishAll(s).ok \in BOOLEAN /\ Weak(FinishAll(s).s, arr)
         /\ FinishAll(s).ok => Strong(FinishAll(s).s, arr)
         /\ \A r \in Request : FinishAll(s).s.req[r].state = s.req[r].state
<1> DEFINE n == Len(s.running)
<1>1. n \in Nat /\ n = Len(s.running) /\ s.running \in Seq(Request)
  BY DEF Weak, Shell
<1> HIDE DEF n
<1>2. PICK f : /\ f[0] = [u |-> [ok |-> TRUE, s |-> s], i |-> 1]
               /\ \A i \in 1 .. n : f[i] = FinishTurn(f[i - 1], s.running)
               /\ FinishAll(s) = f[n].u
  BY <1>1, FinishRuns
<1> DEFINE OK(k) == f[k].i = k + 1 /\ Finishing(f[k].u, s, k, arr)
           S == {k \in Nat : k <= n => OK(k)}
<1>3. 0 \in S
  <2> DEFINE u == [ok |-> TRUE, s |-> s]
  <2>1. u = [ok |-> u.ok, s |-> u.s] /\ u.s = s /\ u.ok = TRUE /\ f[0].u = u /\ f[0].i = 1
    BY <1>2
  <2> HIDE DEF u
  <2>2. Finishing(u, s, 0, arr)
    <3>1. \A j \in 1 .. 0 : s.running[j] \notin ToSet(u.s.running)
      OBVIOUS
    <3> QED BY <2>1, <3>1 DEF Finishing
  <2>3. OK(0)
    BY <2>1, <2>2
  <2> QED BY <2>3
<1>4. ASSUME NEW k \in 0 .. n - 1, k \in S PROVE k + 1 \in S
  <2>1. k \in Nat /\ k <= n /\ k + 1 \in 1 .. n /\ (k + 1) - 1 = k
    BY <1>1
  <2>2. OK(k)
    BY <1>4, <2>1
  <2> DEFINE r == s.running[k + 1]
             u == f[k].u
  <2>3. f[k + 1] = FinishTurn(f[k], s.running)
    BY <1>2, <2>1
  <2>4. f[k + 1].u = FinishOne(u, r) /\ f[k + 1].i = (k + 1) + 1
    BY <2>2, <2>3 DEF FinishTurn
  <2>5. r \in Request /\ r \in ToSet(arr)
    <3>1. k + 1 \in DOMAIN s.running
      BY <1>1, <2>1
    <3>2. r \in Request /\ r \in ToSet(s.running)
      BY <1>1, <3>1 DEF ToSet
    <3>3. ToSet(s.running) \subseteq ToSet(Queue(s))
      BY QueueIs DEF Weak
    <3> QED BY <3>2, <3>3 DEF Weak
  <2>6. Finishing(FinishOne(u, r), s, k + 1, arr)
    <3>1. Finishing(u, s, k, arr) /\ r = s.running[k + 1]
      BY <2>2
    <3> HIDE DEF u, r
    <3> QED BY <2>1, <2>5, <3>1, FinishOneKeeps
  <2>7. OK(k + 1)
    BY <2>4, <2>6
  <2> QED BY <2>1, <2>7
<1>5. \A k \in 0 .. n : k \in S
  <2> HIDE DEF S
  <2> QED BY <1>1, <1>3, <1>4, BoundedInduction
<1>6. OK(n)
  <2> HIDE DEF OK
  <2> QED BY <1>1, <1>5
<1> DEFINE z == FinishAll(s)
<1>7. Finishing(z, s, n, arr)
  BY <1>2, <1>6
<1> HIDE DEF z
<1>8. ASSUME z.ok PROVE Unfinished(z.s)
  <2>1. /\ Shell(z.s) /\ z.s.waiting = s.waiting /\ ToSet(z.s.running) \subseteq ToSet(s.running)
        /\ \A r \in Request : z.s.req[r].state = s.req[r].state
        /\ \A j \in 1 .. n : s.req[s.running[j]].state = "FINISHED"
                               => s.running[j] \notin ToSet(z.s.running)
    BY <1>7, <1>8 DEF Finishing, Weak
  <2>2. ToSet(Queue(z.s)) = ToSet(z.s.running) \cup ToSet(s.waiting) /\ ToSet(Queue(z.s)) \subseteq Request
    <3>1. Queue(z.s) \in Seq(Request) /\ ToSet(Queue(z.s)) = ToSet(z.s.running) \cup ToSet(s.waiting)
      BY <2>1, QueueIs
    <3>2. ToSet(Queue(z.s)) \subseteq Request
      BY <3>1 DEF ToSet
    <3> QED BY <3>1, <3>2
  <2>3. ASSUME NEW r \in ToSet(z.s.running) PROVE s.req[r].state # "FINISHED"
    <3>1. PICK j \in 1 .. n : s.running[j] = r
      <4>1. r \in ToSet(s.running) /\ DOMAIN s.running = 1 .. n
        BY <1>1, <2>1, <2>3
      <4> QED BY <4>1 DEF ToSet
    <3> QED BY <2>1, <2>3, <3>1
  <2> QED BY <2>1, <2>2, <2>3 DEF Unfinished, WaitersUnfinished
<1>9. /\ z.ok \in BOOLEAN /\ Weak(z.s, arr) /\ Holders(z.s)
      /\ \A r \in Request : z.s.req[r].state = s.req[r].state
  BY <1>7 DEF Finishing
<1> QED BY <1>8, <1>9 DEF Strong, z
-----------------------------------------------------------------------------
(* The loop's steps.                                                       *)

\* The members of a sequence are finitely many.
LEMMA FiniteRange ==
  ASSUME NEW E, NEW q \in Seq(E), NEW T \in SUBSET ToSet(q)
  PROVE  IsFiniteSet(T)
<1>1. Len(q) \in Nat /\ DOMAIN q = 1 .. Len(q)
  OBVIOUS
<1>2. IsFiniteSet(1 .. Len(q))
  BY <1>1, FS_Interval
<1> DEFINE f == [i \in 1 .. Len(q) |-> q[i]]
<1>3. f \in Surjection(1 .. Len(q), ToSet(q))
  BY <1>1 DEF Surjection, ToSet
<1>4. IsFiniteSet(ToSet(q))
  <2> HIDE DEF f
  <2> QED BY <1>2, <1>3, FS_Surjection
<1> QED BY <1>4, FS_Subset

\* An order of the requests to abort is a sequence of them.
LEMMA OrderIs ==
  ASSUME Once(arrived), aborted \subseteq ToSet(arrived), NEW order \in SetToSeqs(aborted)
  PROVE  order \in Seq(Request) /\ ToSet(order) \subseteq aborted
<1>1. ToSet(arrived) \subseteq Request /\ arrived \in Seq(Request)
  BY DEF Once, ToSet
<1>2. IsFiniteSet(aborted)
  BY <1>1, FiniteRange
<1> DEFINE n == Cardinality(aborted)
<1>3. n \in Nat
  BY <1>2, FS_CardinalityType
<1>4. order \in [1 .. n -> aborted]
  BY DEF SetToSeqs
<1> HIDE DEF n
<1>5. order \in Seq(aborted)
  BY <1>3, <1>4
<1>6. order \in Seq(Request)
  <2>1. aborted \subseteq Request
    BY <1>1
  <2> QED BY <1>5, <2>1
<1>7. ToSet(order) \subseteq aborted
  BY <1>5 DEF ToSet
<1> QED BY <1>6, <1>7

\* The inductive invariant.
IInv ==
  /\ Once(arrived) /\ aborted \subseteq ToSet(arrived)
  /\ Strong(sched, arrived)
  /\ pc \in {"forward", "returned"} => Members(batch, sched)

\* s is what the loop has made of the data: fewer are in the queue.
Reached(s) == Weak(s, arrived) /\ ToSet(Queue(s)) \subseteq ToSet(Queue(sched))

\* A tick crashes at data that hold what they must, or leaves all in order.
LEMMA TickIs ==
  ASSUME IInv, Tick
  PROVE  \/ \E s : Reached(s) /\ Crash(s, out)
         \/ /\ Strong(sched', arrived) /\ ToSet(Queue(sched')) \subseteq ToSet(Queue(sched))
            /\ pc' \in {"forward", "sleep", "loop"} /\ out' = out
            /\ pc' = "forward" => Members(batch', sched')
<1>1. Once(arrived) /\ Strong(sched, arrived) /\ aborted \subseteq ToSet(arrived)
  BY DEF IInv
<1>2. PICK order \in SetToSeqs(aborted) :
        \E a \in {Admission(ReleaseAll(sched, order))} :
          IF a.ok THEN LaunchPrefill(a) \/ LaunchDecode(a) \/ NothingToDo(a) ELSE Crash(a.s, out)
  BY DEF Tick
<1>3. order \in Seq(Request) /\ ToSet(order) \subseteq ToSet(arrived)
  BY <1>1, OrderIs
<1> DEFINE z == ReleaseAll(sched, order)
           a == Admission(z)
<1>4. Strong(z, arrived) /\ ToSet(Queue(z)) \subseteq ToSet(Queue(sched))
  <2>1. Weak(sched, arrived)
    BY <1>1 DEF Strong
  <2> QED BY <1>1, <1>3, <2>1, ReleaseAllKeeps
<1>5. IF a.ok THEN LaunchPrefill(a) \/ LaunchDecode(a) \/ NothingToDo(a) ELSE Crash(a.s, out)
  BY <1>2
<1> HIDE DEF z
<1>6. Admitting(a, arrived) /\ Queue(a.s) = Queue(z)
  <2>1. Len(z.waiting) \in Nat
    BY <1>4 DEF Strong, Weak, Shell
  <2> QED BY <1>1, <1>4, <2>1, AdmissionKeeps DEF Admission
<1> HIDE DEF a
<1>7. /\ Weak(a.s, arrived) /\ Unfinished(a.s) /\ a.prefills \in Seq(Request) /\ a.ok \in BOOLEAN
      /\ a.ok => Holders(a.s) /\ ToSet(a.prefills) \subseteq ToSet(a.s.running)
      /\ ToSet(Queue(a.s)) \subseteq ToSet(Queue(sched))
  BY <1>4, <1>6 DEF Admitting
<1>8. CASE ~a.ok
  BY <1>5, <1>7, <1>8 DEF Reached
<1>9. CASE a.ok
  <2>1. Strong(a.s, arrived) /\ ToSet(a.prefills) \subseteq ToSet(a.s.running)
    BY <1>7, <1>9 DEF Strong
  <2>2. CASE LaunchPrefill(a)
    <3>1. sched' = a.s /\ batch' = [members |-> a.prefills, is_decode |-> FALSE] /\ pc' = "forward"
          /\ out' = out
      BY <2>2 DEF LaunchPrefill, Launch
    <3>2. Members(batch', sched')
      BY <1>7, <2>1, <3>1 DEF Members
    <3> QED BY <1>7, <2>1, <3>1, <3>2
  <2>3. CASE LaunchDecode(a)
    <3> DEFINE s == Preempt(a.s)
    <3>1. sched' = s /\ batch' = [members |-> s.running, is_decode |-> TRUE] /\ pc' = "forward"
          /\ out' = out
      BY <2>3 DEF LaunchDecode, Launch
    <3>2. Strong(s, arrived) /\ Queue(s) = Queue(a.s)
      BY <1>1, <2>1, PreemptKeeps
    <3> HIDE DEF s
    <3>3. Members(batch', sched')
      BY <3>1, <3>2 DEF Members, Strong, Weak, Shell
    <3> QED BY <1>7, <3>1, <3>2, <3>3
  <2>4. CASE NothingToDo(a)
    <3>1. sched' = a.s /\ pc' \in {"sleep", "loop"} /\ out' = out
      BY <2>4 DEF NothingToDo
    <3> QED BY <1>7, <2>1, <3>1
  <2> QED BY <1>5, <1>9, <2>2, <2>3, <2>4
<1> QED BY <1>7, <1>8, <1>9

\* So does a tick that ends in the middle of the admission.
LEMMA AdoptIs ==
  ASSUME IInv, AdoptFails
  PROVE  \E s : Reached(s) /\ Crash(s, out)
<1>1. Once(arrived) /\ Strong(sched, arrived) /\ aborted \subseteq ToSet(arrived)
  BY DEF IInv
<1>2. PICK order \in SetToSeqs(aborted) :
        \E k \in 1 .. Len(sched.waiting) : Crash(AdmitSome(ReleaseAll(sched, order), k).s, out)
  BY DEF AdoptFails
<1>3. PICK k \in 1 .. Len(sched.waiting) : Crash(AdmitSome(ReleaseAll(sched, order), k).s, out)
  BY <1>2
<1>4. order \in Seq(Request) /\ ToSet(order) \subseteq ToSet(arrived)
  BY <1>1, OrderIs
<1> DEFINE z == ReleaseAll(sched, order)
<1>5. Strong(z, arrived) /\ ToSet(Queue(z)) \subseteq ToSet(Queue(sched))
  <2>1. Weak(sched, arrived)
    BY <1>1 DEF Strong
  <2> QED BY <1>1, <1>4, <2>1, ReleaseAllKeeps
<1> DEFINE a == AdmitSome(z, k)
<1>6. Crash(a.s, out)
  BY <1>3
<1> HIDE DEF z
<1>7. Admitting(a, arrived) /\ Queue(a.s) = Queue(z)
  BY <1>1, <1>5, AdmissionKeeps
<1> HIDE DEF a
<1>8. Reached(a.s)
  BY <1>5, <1>7 DEF Admitting, Reached
<1> QED BY <1>6, <1>8

\* The answers the pass may have given.
Outcomes == [ToSet(batch.members) -> UNION {NextTokens(Tokens(sched, r)) : r \in ToSet(batch.members)}]

\* So does the delivery of the tokens of a pass; who ends leaves the queue.
LEMMA DeliverIs ==
  ASSUME IInv, Deliver
  PROVE  \E next \in Outcomes : \E s :
           /\ s = FinishAll(Answer(sched, next)).s
           /\ \/ /\ ~FinishAll(Answer(sched, next)).ok
                 /\ Weak(s, arrived) /\ Crash(s, Answered(next))
              \/ /\ Strong(s, arrived) /\ sched' = s /\ out' = Answered(next) /\ pc' = "loop"
                 /\ ToSet(Queue(s)) \subseteq ToSet(Queue(sched))
                 /\ \A r \in ToSet(batch.members) :
                      r \in ToSet(Queue(sched)) /\ (Ends(sched, r, next[r]) => r \notin ToSet(Queue(s)))
<1>1. Once(arrived) /\ Strong(sched, arrived) /\ Members(batch, sched)
  BY DEF IInv, Deliver
<1>2. PICK next \in Outcomes : \E u \in {FinishAll(Answer(sched, next))} :
            IF u.ok THEN /\ sched' = u.s /\ out' = Answered(next) /\ streak' = 0
                         /\ pc' = "loop" /\ batch' = NoBatch
                    ELSE Crash(u.s, Answered(next))
  BY DEF Deliver, Outcomes
<1> DEFINE z == Answer(sched, next)
           u == FinishAll(z)
<1>3. IF u.ok THEN /\ sched' = u.s /\ out' = Answered(next) /\ streak' = 0
                   /\ pc' = "loop" /\ batch' = NoBatch
              ELSE Crash(u.s, Answered(next))
  BY <1>2
<1>4. /\ Weak(z, arrived) /\ Holders(z) /\ WaitersUnfinished(z)
      /\ z.running = sched.running /\ z.waiting = sched.waiting
      /\ \A r \in ToSet(batch.members) : Ends(sched, r, next[r]) => z.req[r].state = "FINISHED"
  BY <1>1, AnswerKeeps
<1> HIDE DEF z
<1>5. /\ u.ok \in BOOLEAN /\ Weak(u.s, arrived)
      /\ u.ok => Strong(u.s, arrived)
      /\ \A r \in Request : u.s.req[r].state = z.req[r].state
  BY <1>1, <1>4, FinishAllKeeps
<1> HIDE DEF u
<1>6. CASE ~u.ok
  BY <1>3, <1>5, <1>6 DEF u, z
<1>7. CASE u.ok
  <2>1. Strong(u.s, arrived) /\ Weak(u.s, arrived) /\ Unfinished(u.s) /\ Shell(u.s)
    BY <1>5, <1>7 DEF Strong, Weak
  <2>2. /\ ToSet(batch.members) \subseteq ToSet(sched.running)
        /\ ToSet(sched.running) \subseteq ToSet(Queue(sched)) /\ ToSet(Queue(sched)) \subseteq Request
        /\ Queue(z) = Queue(sched)
    <3>1. Shell(sched)
      BY <1>1 DEF Strong, Weak
    <3>2. Queue(sched) \in Seq(Request)
          /\ ToSet(Queue(sched)) = ToSet(sched.running) \cup ToSet(sched.waiting)
      BY <3>1, QueueIs
    <3>3. ToSet(Queue(sched)) \subseteq Request
      BY <3>2 DEF ToSet
    <3>4. Queue(z) = Queue(sched)
      BY <1>4 DEF Queue
    <3>5. ToSet(batch.members) \subseteq ToSet(sched.running)
      BY <1>1 DEF Members
    <3> QED BY <3>2, <3>3, <3>4, <3>5
  <2>3. ToSet(Queue(u.s)) \subseteq ToSet(arrived) /\ ToSet(arrived) \subseteq Request
    <3>1. ToSet(arrived) \subseteq Request
      BY <1>1 DEF Once, ToSet
    <3> QED BY <2>1, <3>1 DEF Weak
  <2>4. ToSet(Queue(u.s)) \subseteq ToSet(Queue(sched))
    <3>1. ASSUME NEW r \in ToSet(Queue(u.s)), r \notin ToSet(Queue(z)) PROVE FALSE
      <4>1. z.req[r].state = "FINISHED"
        BY <1>4, <2>3, <3>1 DEF Weak
      <4> QED BY <1>5, <2>1, <2>3, <3>1, <4>1 DEF Unfinished
    <3> QED BY <2>2, <3>1
  <2>5. \A r \in ToSet(batch.members) :
          r \in ToSet(Queue(sched)) /\ (Ends(sched, r, next[r]) => r \notin ToSet(Queue(u.s)))
    <3>1. ASSUME NEW r \in ToSet(batch.members), Ends(sched, r, next[r]) PROVE r \notin ToSet(Queue(u.s))
      <4>1. z.req[r].state = "FINISHED" /\ r \in Request
        BY <1>4, <2>2, <3>1
      <4> QED BY <1>5, <2>1, <4>1 DEF Unfinished
    <3> QED BY <2>2, <3>1
  <2>6. sched' = u.s /\ out' = Answered(next) /\ pc' = "loop"
    BY <1>3, <1>7
  <2> QED BY <2>1, <2>4, <2>5, <2>6 DEF u, z
<1> QED BY <1>5, <1>6, <1>7

\* A request that arrives comes after all who came before, and is first in line
\* with none of them.
LEMMA ArrivalGrows ==
  ASSUME NEW arr, Once(arr), NEW r \in Request, r \notin ToSet(arr),
         NEW q \in Seq(Request), Lined(arr, q), ToSet(q) \subseteq ToSet(arr)
  PROVE  /\ Once(Append(arr, r)) /\ ToSet(Append(arr, r)) = ToSet(arr) \cup {r}
         /\ Lined(Append(arr, r), Append(q, r))
<1> DEFINE n   == Len(arr)
           m   == Len(q)
           new == Append(arr, r)
           c   == Append(q, r)
<1>1. arr \in Seq(Request) /\ n \in Nat /\ m \in Nat /\ DOMAIN arr = 1 .. n /\ DOMAIN q = 1 .. m
  BY DEF Once
<1>2. /\ new \in Seq(Request) /\ Len(new) = n + 1 /\ new[n + 1] = r
      /\ \A i \in 1 .. n : new[i] = arr[i]
  BY <1>1
<1>3. /\ Len(c) = m + 1 /\ c[m + 1] = r /\ \A i \in 1 .. m : c[i] = q[i]
  BY <1>1
<1>4. ToSet(new) = ToSet(arr) \cup {r}
  BY <1>1, SetOfAppend
<1> HIDE DEF n, m, new, c
<1>5. Once(new)
  <2>1. ASSUME NEW i \in 1 .. n + 1, NEW j \in 1 .. n + 1, new[i] = new[j] PROVE i = j
    <3>1. \A k \in 1 .. n : arr[k] # r
      BY <1>1 DEF ToSet
    <3>2. (i = n + 1 \/ i \in 1 .. n) /\ (j = n + 1 \/ j \in 1 .. n)
      BY <1>1
    <3>3. \A k, l \in 1 .. n : arr[k] = arr[l] => k = l
      BY DEF Once, NoDuplicates, n
    <3> QED BY <1>2, <2>1, <3>1, <3>2, <3>3
  <2> QED BY <1>2, <2>1 DEF Once, NoDuplicates
<1>6. \A x, y : CameIn(arr, x, y) => CameIn(new, x, y)
  <2>1. ASSUME NEW x, NEW y, NEW i \in 1 .. n, NEW j \in 1 .. n, i < j, arr[i] = x, arr[j] = y
        PROVE  CameIn(new, x, y)
    <3>1. i \in 1 .. Len(new) /\ j \in 1 .. Len(new) /\ new[i] = x /\ new[j] = y
      BY <1>1, <1>2, <2>1
    <3> QED BY <2>1, <3>1 DEF CameIn
  <2> QED BY <2>1 DEF CameIn, n
<1>7. \A x \in ToSet(arr) : CameIn(new, x, r)
  <2>1. ASSUME NEW i \in 1 .. n PROVE CameIn(new, arr[i], r)
    <3>1. i \in 1 .. Len(new) /\ n + 1 \in 1 .. Len(new) /\ i < n + 1 /\ new[i] = arr[i]
          /\ new[n + 1] = r
      BY <1>1, <1>2
    <3> QED BY <3>1 DEF CameIn
  <2> QED BY <1>1, <2>1 DEF ToSet
<1>8. Lined(new, c)
  <2>1. ASSUME NEW i \in 1 .. m + 1, NEW j \in 1 .. m + 1, i < j PROVE CameIn(new, c[i], c[j])
    <3>1. i \in 1 .. m
      BY <1>1, <2>1
    <3>2. CASE j = m + 1
      <4>1. q[i] \in ToSet(q)
        BY <1>1, <3>1 DEF ToSet
      <4> QED BY <1>3, <1>7, <3>1, <3>2, <4>1
    <3>3. CASE j # m + 1
      <4>1. j \in 1 .. m
        BY <1>1, <3>3
      <4>2. CameIn(arr, q[i], q[j])
        BY <2>1, <3>1, <4>1 DEF Lined, m
      <4> QED BY <1>3, <1>6, <3>1, <4>1, <4>2
    <3> QED BY <3>2, <3>3
  <2> QED BY <1>3, <2>1 DEF Lined
<1> QED BY <1>4, <1>5, <1>8 DEF new, c

\* submit puts the request at the end of the queue.
LEMMA SubmitIs ==
  ASSUME IInv, NEW r \in Request, Submit(r)
  PROVE  /\ Once(arrived') /\ ToSet(arrived') = ToSet(arrived) \cup {r} /\ r \notin ToSet(arrived)
         /\ Strong(sched', arrived')
         /\ ToSet(Queue(sched')) = ToSet(Queue(sched)) \cup {r}
         /\ sched'.running = sched.running /\ sched'.req = sched.req
         /\ sched'.tree = sched.tree /\ sched'.pool = sched.pool
<1>1. /\ Once(arrived) /\ Strong(sched, arrived) /\ Weak(sched, arrived) /\ Holders(sched)
      /\ Unfinished(sched) /\ Shell(sched)
  BY DEF IInv, Strong, Weak
<1>2. /\ r \notin ToSet(arrived) /\ sched' = [sched EXCEPT !.waiting = Append(@, r)]
      /\ arrived' = Append(arrived, r)
  BY DEF Submit
<1> DEFINE s == sched
           d == sched'
<1>3. /\ d = [waiting |-> Append(s.waiting, r), running |-> s.running, tree |-> s.tree,
              pool |-> s.pool, req |-> s.req]
      /\ s.waiting \in Seq(Request) /\ s.running \in Seq(Request)
  BY <1>1, <1>2 DEF Shell
<1> HIDE DEF d, s
<1>4. /\ d.waiting = Append(s.waiting, r) /\ d.running = s.running /\ d.req = s.req
      /\ d.tree = s.tree /\ d.pool = s.pool
  BY <1>3
<1>5. Shell(d)
  <2>1. d = [waiting |-> d.waiting, running |-> d.running, tree |-> d.tree, pool |-> d.pool,
             req |-> d.req]
    BY <1>3
  <2> QED BY <1>1, <1>3, <1>4, <2>1 DEF Shell, s
<1>6. /\ Queue(s) \in Seq(Request) /\ Lined(arrived, Queue(s))
      /\ ToSet(Queue(s)) \subseteq ToSet(arrived)
  BY <1>1, QueueIs DEF Weak, s
<1>7. Queue(d) = Append(Queue(s), r)
  <2> DEFINE run  == s.running
             wait == s.waiting
             one  == <<r>>
             all  == run \o wait
  <2>1. /\ run \in Seq(Request) /\ wait \in Seq(Request) /\ one \in Seq(Request)
        /\ Append(wait, r) = wait \o one
    BY <1>3
  <2>2. all \in Seq(Request)
    BY <2>1
  <2> HIDE DEF run, wait, all
  <2>3. Append(all, r) = all \o one
    BY <2>2
  <2> HIDE DEF one
  <2>4. run \o (wait \o one) = all \o one
    BY <2>1, ConcatAssociative DEF all
  <2> QED BY <1>4, <2>1, <2>3, <2>4 DEF Queue, run, wait, all
<1>8. /\ Once(arrived') /\ ToSet(arrived') = ToSet(arrived) \cup {r}
      /\ Lined(arrived', Queue(d))
  BY <1>1, <1>2, <1>6, <1>7, ArrivalGrows
<1>9. ToSet(Queue(d)) = ToSet(Queue(s)) \cup {r}
  BY <1>6, <1>7, SetOfAppend
<1>10. Weak(d, arrived')
  <2>1. \A q \in ToSet(arrived') \ ToSet(Queue(d)) : d.req[q].state = "FINISHED"
    BY <1>1, <1>4, <1>8, <1>9 DEF Weak, s
  <2>2. \A q \in Request \ ToSet(arrived') : d.req[q].state # "FINISHED"
    BY <1>1, <1>4, <1>8 DEF Weak, s
  <2>3. \A q \in Request \ ToSet(Queue(d)) : Empty(d.req[q])
    BY <1>1, <1>4, <1>9 DEF Weak, s
  <2>4. ToSet(Queue(d)) \subseteq ToSet(arrived')
    BY <1>6, <1>8, <1>9
  <2> QED BY <1>5, <1>8, <2>1, <2>2, <2>3, <2>4 DEF Weak
<1>11. Holders(d)
  BY <1>1, <1>4 DEF Holders, s
<1>12. Unfinished(d)
  <2>1. s.req[r].state # "FINISHED"
    BY <1>1, <1>2 DEF Weak, s
  <2> QED BY <1>1, <1>4, <1>9, <2>1 DEF Unfinished, s
<1> QED BY <1>2, <1>4, <1>8, <1>9, <1>10, <1>11, <1>12 DEF Strong, d, s

\* The steps of the thread change the caches of those who run.
LEMMA ForwardIs ==
  ASSUME IInv, Forward \/ ForwardFails
  PROVE  /\ Strong(sched', arrived) /\ Queue(sched') = Queue(sched) /\ pc' \in {"returned", "raised"}
         /\ sched'.running = sched.running
<1>1. Once(arrived) /\ Strong(sched, arrived) /\ Members(batch, sched)
  BY DEF IInv, Forward, ForwardFails
<1>2. Len(batch.members) \in Nat
  BY <1>1 DEF Members
<1>3. pc' \in {"returned", "raised"}
  BY DEF Forward, ForwardFails
<1>4. /\ Strong(sched', arrived) /\ sched'.running = sched.running /\ sched'.waiting = sched.waiting
  <2>1. ASSUME NEW k \in 0 .. Len(batch.members), sched' = PrepareBatch(k).s
        PROVE  /\ Strong(sched', arrived)
               /\ sched'.running = sched.running /\ sched'.waiting = sched.waiting
    BY <1>1, <2>1, PrepareKeeps
  <2>2. CASE Forward
    BY <1>2, <2>1, <2>2 DEF Forward
  <2>3. ASSUME NEW k \in 1 .. Len(batch.members), MetaBreaks(PrepareBatch(k - 1).s, batch.members[k])
        PROVE  /\ Strong(sched', arrived)
               /\ sched'.running = sched.running /\ sched'.waiting = sched.waiting
    <3> DEFINE s == PrepareBatch(k - 1).s
               r == batch.members[k]
    <3>1. k - 1 \in 0 .. Len(batch.members)
      BY <1>2
    <3>2. Strong(s, arrived) /\ s.running = sched.running /\ s.waiting = sched.waiting
      BY <1>1, <3>1, PrepareKeeps
    <3>3. r \in ToSet(sched.running)
      <4>1. r \in ToSet(batch.members)
        BY <1>1 DEF Members, ToSet
      <4> QED BY <1>1, <4>1 DEF Members
    <3>4. \E kv, pl : sched' = [s EXCEPT !.req[r].kv = kv, !.pool = pl]
      BY <2>3 DEF MetaBreaks
    <3>5. Recached(s, r, sched')
      BY <3>4 DEF Recached
    <3> HIDE DEF s, r
    <3> QED BY <1>1, <3>2, <3>3, <3>5, OtherCache
  <2>4. CASE ForwardFails
    BY <2>1, <2>3, <2>4 DEF ForwardFails
  <2> QED BY <2>2, <2>4
<1>5. Queue(sched') = Queue(sched)
  BY <1>4 DEF Queue
<1> QED BY <1>3, <1>4, <1>5

\* At first nobody has come.
LEMMA InitOK ==
  ASSUME Init
  PROVE  IInv
<1>1. /\ sched = [waiting |-> <<>>, running |-> <<>>, tree |-> Tree0, pool |-> Pool0,
                  req |-> [r \in Request |-> NewRequest]]
      /\ arrived = <<>> /\ aborted = {} /\ pc = "loop"
  BY DEF Init
<1>2. /\ sched.waiting = <<>> /\ sched.running = <<>>
      /\ sched.req = [r \in Request |-> NewRequest]
      /\ sched = [waiting |-> sched.waiting, running |-> sched.running, tree |-> sched.tree,
                  pool |-> sched.pool, req |-> sched.req]
  BY <1>1
<1>3. \A r \in Request : sched.req[r] = NewRequest
  BY <1>2
<1>4. Entry(NewRequest) /\ Empty(NewRequest) /\ NewRequest.state = "WAITING"
  BY DEF NewRequest, Entry, Empty
<1>5. Shell(sched)
  BY <1>2, <1>3, <1>4 DEF Shell
<1>6. Queue(sched) = <<>> /\ ToSet(Queue(sched)) = {} /\ ToSet(arrived) = {}
  BY <1>1, <1>2 DEF Queue, ToSet
<1>7. Lined(arrived, Queue(sched)) /\ Once(arrived)
  BY <1>1, <1>6 DEF Lined, Once, NoDuplicates
<1>8. Weak(sched, arrived) /\ Holders(sched) /\ Unfinished(sched)
  BY <1>3, <1>4, <1>5, <1>6, <1>7 DEF Weak, Holders, Unfinished
<1> QED BY <1>1, <1>6, <1>7, <1>8 DEF IInv, Strong

\* Every step keeps it.
LEMMA StepOK ==
  ASSUME IInv, [Next]_vars
  PROVE  IInv'
<1>1. /\ Once(arrived) /\ aborted \subseteq ToSet(arrived) /\ Strong(sched, arrived)
      /\ pc \in {"forward", "returned"} => Members(batch, sched)
  BY DEF IInv
<1>2. ASSUME NEW r \in Request, Submit(r) PROVE IInv'
  <2>1. /\ aborted' = aborted /\ pc' = pc /\ batch' = batch
    BY <1>2 DEF Submit
  <2>2. /\ Once(arrived') /\ ToSet(arrived') = ToSet(arrived) \cup {r} /\ Strong(sched', arrived')
        /\ sched'.running = sched.running
    BY <1>2, SubmitIs
  <2> QED BY <1>1, <2>1, <2>2 DEF IInv, Members
<1>3. ASSUME NEW r \in Request, Abort(r) PROVE IInv'
  <2>1. /\ aborted' = aborted \cup {r} /\ r \in ToSet(arrived)
        /\ UNCHANGED <<pc, batch, sched, arrived>>
    BY <1>3 DEF Abort
  <2> QED BY <1>1, <2>1 DEF IInv, Members
<1>4. CASE Idle \/ Wake
  <2>1. UNCHANGED <<sched, aborted, arrived>> /\ pc' \in {"sleep", "loop"}
    BY <1>4 DEF Idle, Wake
  <2> QED BY <1>1, <2>1 DEF IInv
<1>5. CASE Tick
  <2>1. arrived' = arrived /\ aborted' = {}
    BY <1>5 DEF Tick
  <2>2. CASE \E s : Reached(s) /\ Crash(s, out)
    <3>1. Strong(sched', arrived) /\ pc' \in {"dead", "loop"}
      BY <1>1, <2>2, CrashKeeps DEF Reached
    <3> QED BY <1>1, <2>1, <3>1 DEF IInv
  <2>3. CASE ~ \E s : Reached(s) /\ Crash(s, out)
    <3>1. /\ Strong(sched', arrived) /\ pc' \in {"forward", "sleep", "loop"}
          /\ pc' = "forward" => Members(batch', sched')
      BY <1>5, <2>3, TickIs
    <3> QED BY <1>1, <2>1, <3>1 DEF IInv, Members
  <2> QED BY <2>2, <2>3
<1>6. CASE Deliver
  <2>1. arrived' = arrived /\ aborted' = aborted
    BY <1>6 DEF Deliver
  <2>2. PICK next, s : \/ Weak(s, arrived) /\ Crash(s, Answered(next))
                       \/ Strong(s, arrived) /\ sched' = s /\ pc' = "loop"
    BY <1>6, DeliverIs
  <2>3. Strong(sched', arrived) /\ pc' \in {"dead", "loop"}
    BY <1>1, <2>2, CrashKeeps
  <2> QED BY <1>1, <2>1, <2>3 DEF IInv
<1>7. CASE Raised
  <2>1. arrived' = arrived /\ aborted' = aborted /\ Crash(sched, out)
    BY <1>7 DEF Raised
  <2>2. Weak(sched, arrived)
    BY <1>1 DEF Strong
  <2>3. Strong(sched', arrived) /\ pc' \in {"dead", "loop"}
    BY <1>1, <2>1, <2>2, CrashKeeps
  <2> QED BY <1>1, <2>1, <2>3 DEF IInv
<1>8. CASE Forward \/ ForwardFails
  <2>1. UNCHANGED <<aborted, arrived, batch>>
    BY <1>8 DEF Forward, ForwardFails
  <2>2. /\ Strong(sched', arrived) /\ pc' \in {"returned", "raised"}
        /\ sched'.running = sched.running
    BY <1>8, ForwardIs
  <2>3. Members(batch, sched)
    BY <1>1, <1>8 DEF Forward, ForwardFails
  <2> QED BY <1>1, <2>1, <2>2, <2>3 DEF IInv, Members
<1>9. CASE UNCHANGED vars
  BY <1>1, <1>9 DEF IInv, Members, vars
<1>10. CASE AdoptFails
  <2>1. arrived' = arrived /\ aborted' = {}
    BY <1>10 DEF AdoptFails
  <2>2. Strong(sched', arrived) /\ pc' \in {"dead", "loop"}
    BY <1>1, <1>10, AdoptIs, CrashKeeps DEF Reached
  <2> QED BY <1>1, <2>1, <2>2 DEF IInv
<1> QED BY <1>2, <1>3, <1>4, <1>5, <1>6, <1>7, <1>8, <1>9, <1>10 DEF Next, Loop
-----------------------------------------------------------------------------
(* The theorems.                                                           *)

\* scheduler.py:116-127, 274: at every await of the loop only running requests
\* hold blocks or a pin: whoever waits, was preempted, aborted or ended has
\* given everything back, whatever the pool and the tree answered.
THEOREM HoldersAlwaysRunning == Spec => []HoldersAreRunning
<1>1. IInv => HoldersAreRunning
  BY DEF IInv, Strong, Holders, Empty, HoldersAreRunning
<1> QED BY <1>1, InitOK, StepOK, PTL DEF Spec

\* scheduler.py:56-60, 265-280: who runs and who waits are, in this order, the
\* unfinished requests in the order they came, whatever was admitted, preempted
\* and aborted between: nobody overtakes, is lost or is queued twice.
THEOREM ArrivalAlwaysOrdered == Spec => []ArrivalOrder
<1>1. ASSUME IInv PROVE ArrivalOrder
  <2>1. /\ Weak(sched, arrived) /\ Unfinished(sched) /\ Once(arrived)
    BY <1>1 DEF IInv, Strong
  <2> DEFINE queue == sched.running \o sched.waiting
  <2>2. queue = Queue(sched)
    BY DEF Queue
  <2> HIDE DEF queue
  <2>3. ToSet(queue) = {r \in ToSet(arrived) : sched.req[r].state # "FINISHED"}
    BY <2>1, <2>2 DEF Weak, Unfinished
  <2>4. \A i, j \in 1 .. Len(queue) : i < j => Came(queue[i], queue[j])
    BY <2>1, <2>2 DEF Weak, Lined, CameIn, Came
  <2> QED BY <2>3, <2>4 DEF ArrivalOrder, queue
<1> QED BY <1>1, InitOK, StepOK, PTL DEF Spec

\* scheduler.py:93: while a forward pass is under way, a submit or an abort
\* touches neither the batch nor the pool, the tree and the caches it was given.
THEOREM InFlightAlwaysUntouched == Spec => InFlightUntouched
<1> DEFINE Still == pc = "forward" /\ pc' = "forward" =>
                      UNCHANGED <<batch, content, sched.pool, sched.tree, sched.req>>
<1>1. ASSUME IInv, [Next]_vars PROVE [Still]_vars
  <2>1. ASSUME NEW r \in Request, Submit(r) PROVE Still
    <3>1. sched'.req = sched.req /\ sched'.tree = sched.tree /\ sched'.pool = sched.pool
      BY <1>1, <2>1, SubmitIs
    <3>2. batch' = batch /\ content' = content
      BY <2>1 DEF Submit
    <3> QED BY <3>1, <3>2
  <2>2. ASSUME NEW r \in Request, Abort(r) PROVE Still
    BY <2>2 DEF Abort
  <2>3. CASE Loop
    BY <2>3 DEF Loop, Idle, Wake, Tick, Deliver, Raised
  <2>4. CASE Forward \/ ForwardFails
    BY <2>4 DEF Forward, ForwardFails
  <2>5. CASE AdoptFails
    BY <2>5 DEF AdoptFails
  <2> QED BY <1>1, <2>1, <2>2, <2>3, <2>4, <2>5 DEF Next
<1> QED BY <1>1, InitOK, StepOK, PTL DEF Spec, InFlightUntouched
-----------------------------------------------------------------------------
(* What the clients are told.                                              *)

Mark == {"token", "end", "crash"}

\* Only tokens so far.
Open(o) == \A i \in 1 .. Len(o) : o[i] = "token"

\* Whoever is in the queue, or has not come, has been told tokens only, and
\* nobody was told anything after another mark.
Told(o, q, arr) ==
  \A r \in Request :
    /\ o[r] \in Seq(Mark) /\ \A i \in 1 .. Len(o[r]) - 1 : o[r][i] = "token"
    /\ r \in q \/ r \notin arr => Open(o[r])

\* One more mark after tokens.
LEMMA MarkOnce ==
  ASSUME NEW o \in Seq(Mark), Open(o), NEW x \in Mark
  PROVE  /\ Append(o, x) \in Seq(Mark) /\ \A i \in 1 .. Len(Append(o, x)) - 1 : Append(o, x)[i] = "token"
         /\ x = "token" => Open(Append(o, x))
<1> DEFINE c == Append(o, x)
           n == Len(o)
<1>1. n \in Nat /\ c \in Seq(Mark) /\ Len(c) = n + 1 /\ c[n + 1] = x /\ \A i \in 1 .. n : c[i] = o[i]
  OBVIOUS
<1>2. \A i \in 1 .. n : o[i] = "token"
  BY DEF Open
<1> HIDE DEF c, n
<1>3. \A i \in 1 .. n + 1 : i = n + 1 \/ i \in 1 .. n
  BY <1>1
<1>4. /\ c \in Seq(Mark) /\ \A i \in 1 .. Len(c) - 1 : c[i] = "token"
      /\ x = "token" => Open(c)
  BY <1>1, <1>2, <1>3 DEF Open
<1> QED BY <1>4 DEF c

\* What is put in a queue when its request takes a token.
LEMMA MarkAnswer ==
  ASSUME NEW o \in Seq(Mark), Open(o)
  PROVE  /\ o \o <<"token">> = Append(o, "token")
         /\ o \o <<"token", "end">> = Append(Append(o, "token"), "end")
  OBVIOUS

\* Fewer in the queue, and the same told.
LEMMA ToldLess ==
  ASSUME NEW o, NEW q, NEW p \in SUBSET q, NEW arr, Told(o, q, arr)
  PROVE  Told(o, p, arr)
BY DEF Told

\* A crash tells those still in the queue, who leave it.
LEMMA CrashTold ==
  ASSUME Once(arrived), NEW s, Weak(s, arrived), NEW o, Crash(s, o),
         NEW q, ToSet(Queue(s)) \subseteq q, q \subseteq ToSet(arrived), Told(o, q, ToSet(arrived))
  PROVE  Told(out', ToSet(Queue(sched')), ToSet(arrived))
<1>1. out' = [r \in Request |-> IF r \in ToSet(Queue(s)) THEN Append(o[r], "crash") ELSE o[r]]
  BY DEF Crash, Queue
<1>2. ToSet(Queue(sched')) = {}
  BY CrashKeeps
<1>3. ASSUME NEW r \in Request
      PROVE  /\ out'[r] \in Seq(Mark) /\ \A i \in 1 .. Len(out'[r]) - 1 : out'[r][i] = "token"
             /\ r \notin ToSet(arrived) => Open(out'[r])
  <2>1. CASE r \in ToSet(Queue(s))
    <3>1. out'[r] = Append(o[r], "crash") /\ o[r] \in Seq(Mark) /\ Open(o[r]) /\ r \in ToSet(arrived)
      BY <1>1, <2>1 DEF Told
    <3>2. "crash" \in Mark
      BY DEF Mark
    <3> QED BY <3>1, <3>2, MarkOnce
  <2>2. CASE r \notin ToSet(Queue(s))
    BY <1>1, <2>2 DEF Told
  <2> QED BY <2>1, <2>2
<1> QED BY <1>2, <1>3 DEF Told

\* Without the tree no finished request is refused.
LEMMA FinishAllOK ==
  ASSUME ~UseRadix, NEW s, s.running \in Seq(Request)
  PROVE  FinishAll(s).ok = TRUE
<1> DEFINE n == Len(s.running)
<1>1. n \in Nat /\ n = Len(s.running)
  OBVIOUS
<1> HIDE DEF n
<1>2. PICK f : /\ f[0] = [u |-> [ok |-> TRUE, s |-> s], i |-> 1]
               /\ \A i \in 1 .. n : f[i] = FinishTurn(f[i - 1], s.running)
               /\ FinishAll(s) = f[n].u
  BY <1>1, FinishRuns
<1> DEFINE S == {k \in Nat : k <= n => f[k].u.ok = TRUE}
<1>3. 0 \in S
  BY <1>2
<1>4. ASSUME NEW k \in 0 .. n - 1, k \in S PROVE k + 1 \in S
  <2>1. k \in Nat /\ k <= n /\ k + 1 \in 1 .. n /\ (k + 1) - 1 = k
    BY <1>1
  <2>2. f[k].u.ok = TRUE /\ f[k + 1] = FinishTurn(f[k], s.running)
    BY <1>2, <1>4, <2>1
  <2> DEFINE u == f[k].u
             r == s.running[f[k].i]
  <2>3. f[k + 1].u = FinishOne(u, r)
    BY <2>2 DEF FinishTurn
  <2>4. u.ok = TRUE
    BY <2>2
  <2> HIDE DEF u, r
  <2>5. FinishOne(u, r).ok = TRUE
    <3>1. CASE u.s.req[r].state # "FINISHED"
      BY <2>4, <3>1 DEF FinishOne
    <3>2. CASE u.s.req[r].state = "FINISHED"
      <4> DEFINE t == [u.s EXCEPT !.tree = u.s.tree, !.pool = u.s.pool]
      <4>1. FinishOne(u, r) = [ok |-> TRUE, s |-> [FreeKV(t, r) EXCEPT !.running = Without(@, r)]]
        BY <2>4, <3>2 DEF FinishOne
      <4> QED BY <4>1
    <3> QED BY <3>1, <3>2
  <2>6. f[k + 1].u.ok = TRUE
    BY <2>3, <2>5
  <2> QED BY <2>1, <2>6
<1>5. \A k \in 0 .. n : k \in S
  <2> HIDE DEF S
  <2> QED BY <1>1, <1>3, <1>4, BoundedInduction
<1>6. f[n].u.ok = TRUE
  BY <1>1, <1>5
<1> QED BY <1>2, <1>6

\* The tree takes the blocks of every request that ends, or there is no tree.
NeverRefused == pc = "returned" => \A next \in Outcomes : FinishAll(Answer(sched, next)).ok

\* Without the tree that is so.
LEMMA NoTreeRefusesNone ==
  ASSUME ~UseRadix, IInv
  PROVE  NeverRefused
<1> SUFFICES ASSUME pc = "returned", NEW next \in Outcomes PROVE FinishAll(Answer(sched, next)).ok
  BY DEF NeverRefused
<1> DEFINE z == Answer(sched, next)
<1>1. Once(arrived) /\ Strong(sched, arrived) /\ Members(batch, sched)
  BY DEF IInv
<1>2. Weak(z, arrived)
  BY <1>1, AnswerKeeps
<1> HIDE DEF z
<1>3. z.running \in Seq(Request)
  BY <1>2 DEF Weak, Shell
<1>4. FinishAll(z).ok = TRUE
  BY <1>3, FinishAllOK
<1> QED BY <1>4 DEF z

\* As long as it is, every step keeps what the clients were told in order.
LEMMA ToldStep ==
  ASSUME NeverRefused, IInv, Told(out, ToSet(Queue(sched)), ToSet(arrived)), [Next]_vars
  PROVE  Told(out', ToSet(Queue(sched')), ToSet(arrived'))
<1> DEFINE q   == ToSet(Queue(sched))
           arr == ToSet(arrived)
<1>1. /\ Once(arrived) /\ Strong(sched, arrived) /\ Weak(sched, arrived)
      /\ q \subseteq arr /\ Told(out, q, arr)
  BY DEF IInv, Strong, Weak
<1>2. ASSUME NEW r \in Request, Submit(r) PROVE Told(out', ToSet(Queue(sched')), ToSet(arrived'))
  <2>1. /\ ToSet(arrived') = arr \cup {r} /\ r \notin arr /\ ToSet(Queue(sched')) = q \cup {r}
    BY <1>2, SubmitIs
  <2>2. out' = out
    BY <1>2 DEF Submit
  <2> HIDE DEF q, arr
  <2> QED BY <1>1, <2>1, <2>2 DEF Told
<1>3. ASSUME UNCHANGED <<sched, out, arrived>> PROVE Told(out', ToSet(Queue(sched')), ToSet(arrived'))
  BY <1>1, <1>3
<1>4. CASE Tick
  <2>1. arrived' = arrived
    BY <1>4 DEF Tick
  <2>2. CASE \E s : Reached(s) /\ Crash(s, out)
    BY <1>1, <2>1, <2>2, CrashTold DEF Reached
  <2>3. CASE ~ \E s : Reached(s) /\ Crash(s, out)
    <3>1. ToSet(Queue(sched')) \subseteq q /\ out' = out
      BY <1>4, <2>3, TickIs
    <3> QED BY <1>1, <2>1, <3>1, ToldLess
  <2> QED BY <2>2, <2>3
<1>5. CASE Deliver
  <2>1. arrived' = arrived
    BY <1>5 DEF Deliver
  <2>2. PICK next \in Outcomes : \E s :
           /\ s = FinishAll(Answer(sched, next)).s
           /\ \/ ~FinishAll(Answer(sched, next)).ok
              \/ /\ sched' = s /\ out' = Answered(next)
                 /\ ToSet(Queue(s)) \subseteq q
                 /\ \A r \in ToSet(batch.members) :
                      r \in q /\ (Ends(sched, r, next[r]) => r \notin ToSet(Queue(s)))
    BY <1>5, DeliverIs
  <2>3. FinishAll(Answer(sched, next)).ok
    BY <1>5, <2>2 DEF Deliver, NeverRefused
  <2> DEFINE p == ToSet(Queue(sched'))
  <2>4. /\ out' = Answered(next) /\ p \subseteq q
        /\ \A r \in ToSet(batch.members) : r \in q /\ (Ends(sched, r, next[r]) => r \notin p)
    BY <2>2, <2>3
  <2> HIDE DEF q, arr, p
  <2>5. ASSUME NEW r \in Request
        PROVE  /\ out'[r] \in Seq(Mark) /\ \A i \in 1 .. Len(out'[r]) - 1 : out'[r][i] = "token"
               /\ r \in p \/ r \notin arr => Open(out'[r])
    <3> DEFINE o == out[r]
    <3>1. /\ o \in Seq(Mark) /\ \A i \in 1 .. Len(o) - 1 : o[i] = "token"
          /\ r \in q \/ r \notin arr => Open(o)
      BY <1>1 DEF Told
    <3>2. CASE r \notin ToSet(batch.members)
      <4>1. out'[r] = o
        BY <2>4, <3>2 DEF Answered
      <4> QED BY <2>4, <3>1, <4>1
    <3>3. CASE r \in ToSet(batch.members)
      <4>1. Open(o) /\ r \in arr
        BY <1>1, <2>4, <3>1, <3>3
      <4> DEFINE a == Append(o, "token")
                 b == Append(a, "end")
      <4>2. out'[r] = o \o IF Ends(sched, r, next[r]) THEN <<"token", "end">> ELSE <<"token">>
        BY <2>4, <3>3 DEF Answered
      <4> HIDE DEF o
      <4>3. /\ a \in Seq(Mark) /\ \A i \in 1 .. Len(a) - 1 : a[i] = "token"
            /\ Open(a)
        <5>1. "token" \in Mark
          BY DEF Mark
        <5> QED BY <3>1, <4>1, <5>1, MarkOnce
      <4>4. /\ o \o <<"token">> = a /\ o \o <<"token", "end">> = b
        BY <3>1, <4>1, MarkAnswer
      <4> HIDE DEF a
      <4>5. /\ b \in Seq(Mark) /\ \A i \in 1 .. Len(b) - 1 : b[i] = "token"
        <5>1. "end" \in Mark
          BY DEF Mark
        <5> QED BY <4>3, <5>1, MarkOnce
      <4> HIDE DEF b
      <4>6. CASE Ends(sched, r, next[r])
        <5>1. out'[r] = b /\ r \notin p
          BY <2>4, <3>3, <4>2, <4>4, <4>6
        <5> QED BY <4>1, <4>5, <5>1
      <4>7. CASE ~Ends(sched, r, next[r])
        <5>1. out'[r] = a
          BY <4>2, <4>4, <4>7
        <5> QED BY <4>3, <5>1
      <4> QED BY <4>6, <4>7
    <3> QED BY <3>2, <3>3
  <2> QED BY <2>1, <2>5 DEF Told, p, arr
<1>6. CASE Raised
  <2>1. arrived' = arrived /\ Crash(sched, out)
    BY <1>6 DEF Raised
  <2> QED BY <1>1, <2>1, CrashTold
<1>7. CASE Forward \/ ForwardFails
  <2>1. UNCHANGED <<arrived, out>>
    BY <1>7 DEF Forward, ForwardFails
  <2>2. Queue(sched') = Queue(sched)
    BY <1>7, ForwardIs
  <2> QED BY <1>1, <2>1, <2>2
<1>8. CASE Idle \/ Wake \/ \E r \in Request : Abort(r)
  BY <1>3, <1>8 DEF Idle, Wake, Abort
<1>9. CASE UNCHANGED vars
  BY <1>3, <1>9 DEF vars
<1>10. CASE AdoptFails
  <2>1. arrived' = arrived
    BY <1>10 DEF AdoptFails
  <2> QED BY <1>1, <1>10, <2>1, AdoptIs, CrashTold DEF Reached
<1> QED BY <1>2, <1>4, <1>5, <1>6, <1>7, <1>8, <1>9, <1>10 DEF Next, Loop

\* At first nobody was told anything.
LEMMA ToldInit ==
  ASSUME Init
  PROVE  Told(out, ToSet(Queue(sched)), ToSet(arrived))
<1>1. out = [r \in Request |-> <<>>]
  BY DEF Init
<1> DEFINE o == <<>>
<1>2. o \in Seq(Mark) /\ Len(o) = 0
  OBVIOUS
<1>3. \A r \in Request : out[r] = o
  BY <1>1
<1> HIDE DEF o
<1>4. Open(o) /\ \A i \in 1 .. Len(o) - 1 : o[i] = "token"
  BY <1>2 DEF Open
<1> QED BY <1>2, <1>3, <1>4 DEF Told

\* What the clients were told, and who is in the queue.
TellInv == IInv /\ Told(out, ToSet(Queue(sched)), ToSet(arrived))

\* Every step keeps it, as long as nobody who ends is refused.
LEMMA TellStep ==
  ASSUME NeverRefused, TellInv, [Next]_vars
  PROVE  TellInv'
<1>1. IInv'
  BY StepOK DEF TellInv
<1>2. Told(out', ToSet(Queue(sched')), ToSet(arrived'))
  BY ToldStep DEF TellInv
<1>3. Told(out, ToSet(Queue(sched)), ToSet(arrived))'
  BY <1>2 DEF Told, Queue, Open
<1> QED BY <1>1, <1>3 DEF TellInv

\* worker.py:71-83, scheduler.py:125-132, 262-275: as long as the tree refuses
\* the blocks of nobody who ends, a client gets at most one terminal mark and
\* nothing after it, though a failure tells everyone who is in flight.
THEOREM OneTerminalUnlessRefused == Spec /\ []NeverRefused => []OneTerminal
<1>1. Init => TellInv
  BY InitOK, ToldInit DEF TellInv
<1>2. TellInv => OneTerminal
  BY DEF TellInv, Told, OneTerminal
<1> QED BY <1>1, <1>2, TellStep, PTL DEF Spec

\* The same without condition for a scheduler without the prefix tree
\* (scheduler.py:80-82), whose insert does nothing.
THEOREM OneTerminalAlways == ASSUME ~UseRadix PROVE Spec => []OneTerminal
<1>1. IInv => NeverRefused
  BY NoTreeRefusesNone
<1> QED BY <1>1, InitOK, StepOK, OneTerminalUnlessRefused, PTL DEF Spec

-----------------------------------------------------------------------------
(* Without the prefix tree every block is some request's, or nobody's.     *)

\* A cache that was not adopted.
Bare(k) ==
  /\ k = [cursor |-> k.cursor, table |-> k.table, device |-> k.device, adopted |-> FALSE]
  /\ k.cursor \in Nat /\ k.table \in Table
  /\ k.cursor = 0 => k.table = <<>>

\* T is the requests' tables and L the lost blocks: no block is in two tables
\* or in a table and lost, and those in one or lost are referenced once.
Shared(T)    == \A r, q \in Request : r # q => \A b \in Block : ~(Contains(T[r], b) /\ Contains(T[q], b))
Nobodys(T, L) == L \subseteq Block /\ \A b \in L, r \in Request : ~Contains(T[r], b)
Counted(p, T, L) ==
  \A b \in Block : p.ref_cnt[b] = IF b \in L \/ \E r \in Request : Contains(T[r], b) THEN 1 ELSE 0
Owned(p, T, L) ==
  /\ PoolOK(p) /\ T = [r \in Request |-> T[r]] /\ \A r \in Request : T[r] \in Table
  /\ Shared(T) /\ Nobodys(T, L) /\ Counted(p, T, L)

\* The tables with another one for r.
Retabled(T, r, t) == [q \in Request |-> IF q = r THEN t ELSE T[q]]

\* Giving the blocks of a table back.
LEMMA OwnedFreed ==
  ASSUME NEW p, NEW T, NEW L, Owned(p, T, L), NEW r \in Request
  PROVE  Owned(Free(p, T[r]).pool, Retabled(T, r, <<>>), L)
<1> DEFINE U == Retabled(T, r, <<>>)
           z == Free(p, T[r]).pool
<1>1. \A b \in Block : Contains(T[r], b) => p.ref_cnt[b] = 1
  BY DEF Owned, Counted
<1>2. PoolOK(p) /\ T[r] \in Table
  BY DEF Owned
<1>3. \A b \in Block : Contains(T[r], b) => p.ref_cnt[b] >= 1
  BY <1>1
<1>4. /\ PoolOK(z)
      /\ \A b \in Block : z.ref_cnt[b] = IF Contains(T[r], b) THEN p.ref_cnt[b] - 1 ELSE p.ref_cnt[b]
  BY <1>2, <1>3, FreeTable
<1>5. /\ U = [q \in Request |-> U[q]] /\ U[r] = <<>>
      /\ \A q \in Request : q # r => U[q] = T[q]
  BY DEF Retabled
<1> HIDE DEF U, z
<1>6. \A q \in Request : U[q] \in Table
  BY <1>5, NoBlocks DEF Owned
<1>7. \A b : ~Contains(U[r], b)
  BY <1>5, NoBlocks
<1>8. Shared(U)
  BY <1>5, <1>7 DEF Shared, Owned
<1>10. Nobodys(U, L)
  BY <1>5, <1>7 DEF Nobodys, Owned
<1>9. ASSUME NEW b \in Block
      PROVE  z.ref_cnt[b] = IF b \in L \/ \E q \in Request : Contains(U[q], b) THEN 1 ELSE 0
  <2>1. CASE Contains(T[r], b)
    <3>1. \A q \in Request : q # r => ~Contains(U[q], b)
      BY <1>5, <2>1 DEF Owned, Shared
    <3>2. ~ \E q \in Request : Contains(U[q], b)
      BY <1>7, <3>1
    <3>3. b \notin L
      BY <2>1 DEF Owned, Nobodys
    <3> QED BY <1>1, <1>4, <2>1, <3>2, <3>3
  <2>2. CASE ~Contains(T[r], b)
    <3>1. (\E q \in Request : Contains(U[q], b)) <=> (\E q \in Request : Contains(T[q], b))
      BY <1>5, <1>7, <2>2
    <3> QED BY <1>4, <2>2, <3>1 DEF Owned, Counted
  <2> QED BY <2>1, <2>2
<1> QED BY <1>4, <1>5, <1>6, <1>8, <1>9, <1>10 DEF Owned, Counted, U, z

\* Taking blocks for a table.
LEMMA OwnedTaken ==
  ASSUME NEW p, NEW T, NEW L, Owned(p, T, L), NEW r \in Request, NEW n \in Nat, Alloc(p, n).ok
  PROVE  LET got == Alloc(p, n) IN
         /\ Owned(got.pool, Retabled(T, r, T[r] \o got.ids), L) /\ T[r] \o got.ids \in Table
         /\ got.ids \in Table /\ Len(got.ids) = n
<1> DEFINE z   == Alloc(p, n).pool
           ids == Alloc(p, n).ids
           t   == T[r] \o ids
           U   == Retabled(T, r, t)
<1>1. PoolOK(p) /\ T[r] \in Table
  BY DEF Owned
<1>2. /\ PoolOK(z) /\ ids \in Table /\ Len(ids) = n
      /\ \A b \in Block : Contains(ids, b) => p.ref_cnt[b] = 0
      /\ \A b \in Block : z.ref_cnt[b] = IF Contains(ids, b) THEN 1 ELSE p.ref_cnt[b]
  BY <1>1, AllocTable
<1> HIDE DEF z, ids
<1>3. \A b \in Block : Contains(ids, b) => b \notin L /\ \A q \in Request : ~Contains(T[q], b)
  BY <1>2 DEF Owned, Counted
<1>4. t \in Table /\ \A b \in Block : Contains(t, b) <=> Contains(T[r], b) \/ Contains(ids, b)
  BY <1>1, <1>2, <1>3, ConcatTable
<1> HIDE DEF t
<1>5. /\ U = [q \in Request |-> U[q]] /\ U[r] = t
      /\ \A q \in Request : q # r => U[q] = T[q]
  BY DEF Retabled
<1> HIDE DEF U
<1>6. \A q \in Request : U[q] \in Table
  BY <1>4, <1>5 DEF Owned
<1>7. \A q \in Request, b \in Block : Contains(U[q], b) <=> Contains(T[q], b) \/ (q = r /\ Contains(ids, b))
  BY <1>4, <1>5
<1>8. Shared(U)
  BY <1>3, <1>7 DEF Shared, Owned
<1>9. Counted(z, U, L)
  BY <1>2, <1>3, <1>7 DEF Counted, Owned
<1>10. Nobodys(U, L)
  BY <1>3, <1>7 DEF Nobodys, Owned
<1> QED BY <1>2, <1>4, <1>5, <1>6, <1>8, <1>9, <1>10 DEF Owned, U, z, t, ids

\* Taking a block for nobody.
LEMMA OwnedLost ==
  ASSUME NEW p, NEW T, NEW L, Owned(p, T, L), Alloc(p, 1).ok
  PROVE  LET got == Alloc(p, 1) IN
         /\ got.ids \in Table /\ Len(got.ids) = 1
         /\ got.ids[1] \in Block /\ got.ids[1] \notin L /\ Owned(got.pool, T, L \cup {got.ids[1]})
<1> DEFINE z   == Alloc(p, 1).pool
           ids == Alloc(p, 1).ids
           x   == ids[1]
           M   == L \cup {x}
<1>1. PoolOK(p) /\ L \subseteq Block
  BY DEF Owned, Nobodys
<1>2. /\ PoolOK(z) /\ ids \in Table /\ Len(ids) = 1
      /\ \A b \in Block : Contains(ids, b) => p.ref_cnt[b] = 0
      /\ \A b \in Block : z.ref_cnt[b] = IF Contains(ids, b) THEN 1 ELSE p.ref_cnt[b]
  <2>1. ASSUME NEW n \in Nat, Alloc(p, n).ok
        PROVE  /\ PoolOK(Alloc(p, n).pool) /\ Alloc(p, n).ids \in Table /\ Len(Alloc(p, n).ids) = n
               /\ \A b \in Block : Contains(Alloc(p, n).ids, b) => p.ref_cnt[b] = 0
               /\ \A b \in Block : Alloc(p, n).pool.ref_cnt[b]
                                    = IF Contains(Alloc(p, n).ids, b) THEN 1 ELSE p.ref_cnt[b]
    BY <1>1, <2>1, AllocTable
  <2>2. 1 \in Nat
    OBVIOUS
  <2> QED BY <2>1, <2>2
<1> HIDE DEF z, ids
<1>3. x \in Block /\ \A b \in Block : Contains(ids, b) <=> b = x
  <2>1. ids \in Seq(Block)
    BY <1>2 DEF Table
  <2>2. 1 \in 1 .. Len(ids) /\ \A i \in 1 .. Len(ids) : i = 1
    BY <1>2
  <2>3. ids[1] \in Block
    <3>1. ASSUME NEW e \in Seq(Block), NEW i \in 1 .. Len(e) PROVE e[i] \in Block
      OBVIOUS
    <3> QED BY <2>1, <2>2, <3>1
  <2>4. DOMAIN ids = 1 .. Len(ids)
    BY <2>1
  <2> QED BY <2>2, <2>3, <2>4 DEF Contains
<1> HIDE DEF x
<1>4. p.ref_cnt[x] = 0
  BY <1>2, <1>3
<1>5. x \notin L /\ \A q \in Request : ~Contains(T[q], x)
  BY <1>3, <1>4 DEF Owned, Counted
<1>6. Nobodys(T, M)
  BY <1>1, <1>3, <1>5 DEF Owned, Nobodys
<1>7. Counted(z, T, M)
  BY <1>2, <1>3, <1>5 DEF Owned, Counted
<1> QED BY <1>2, <1>3, <1>5, <1>6, <1>7 DEF Owned, z, ids, x

\* Tables that did not change.
LEMMA OwnedSame ==
  ASSUME NEW p, NEW T, NEW L, Owned(p, T, L), NEW r \in Request
  PROVE  Retabled(T, r, T[r]) = T
<1> DEFINE U == Retabled(T, r, T[r])
<1>1. U = [q \in Request |-> T[q]]
  BY DEF Retabled
<1> QED BY <1>1 DEF Owned

Tables(s) == [r \in Request |-> s.req[r].kv.table]
Sequence(g) == \E E : g \in Seq(E)
Stage == {"WAITING", "RUNNING", "FINISHED"}

\* What holds of the data when there is no prefix tree: nothing is pinned or
\* adopted, and the blocks are those of the requests, or lost.
Plain(s, L) ==
  /\ s.tree = Tree0 /\ Owned(s.pool, Tables(s), L)
  /\ \A r \in Request : /\ s.req[r].node = NoParent /\ Bare(s.req[r].kv)
                        /\ Sequence(s.req[r].gen) /\ s.req[r].state \in Stage

\* What a request holds and has generated is the same.
SameHold(x, y) == x.kv = y.kv /\ x.node = y.node /\ x.gen = y.gen

\* It depends on nothing else.
LEMMA PlainAlike ==
  ASSUME NEW s, NEW L, Plain(s, L), NEW t, t.tree = s.tree, t.pool = s.pool,
         \A q \in Request : SameHold(t.req[q], s.req[q]), \A q \in Request : t.req[q].state \in Stage
  PROVE  Plain(t, L) /\ Tables(t) = Tables(s)
<1>1. Tables(t) = Tables(s)
  BY DEF Tables, SameHold
<1>2. \A q \in Request : /\ t.req[q].node = NoParent /\ Bare(t.req[q].kv)
                        /\ Sequence(t.req[q].gen) /\ t.req[q].state \in Stage
  BY DEF Plain, SameHold
<1> QED BY <1>1, <1>2 DEF Plain

\* Another cache for one request.
LEMMA PlainGiven ==
  ASSUME NEW s, NEW L, NEW M, Plain(s, L), NEW t, t.tree = s.tree, NEW r \in Request,
         \A q \in Request : q # r => SameHold(t.req[q], s.req[q]),
         Bare(t.req[r].kv), t.req[r].node = NoParent, t.req[r].gen = s.req[r].gen,
         \A q \in Request : t.req[q].state \in Stage,
         Owned(t.pool, Retabled(Tables(s), r, t.req[r].kv.table), M)
  PROVE  Plain(t, M)
<1>1. Tables(t) = Retabled(Tables(s), r, t.req[r].kv.table)
  BY DEF Tables, Retabled, SameHold
<1>2. \A q \in Request : /\ t.req[q].node = NoParent /\ Bare(t.req[q].kv)
                        /\ Sequence(t.req[q].gen) /\ t.req[q].state \in Stage
  BY DEF Plain, SameHold
<1> QED BY <1>1, <1>2 DEF Plain

\* The empty cache.
LEMMA FreshBare == Bare(FreshKV) /\ FreshKV.table = <<>> /\ FreshKV.cursor = 0
BY NoBlocks DEF Bare, FreshKV

\* _free_kv gives the blocks back, and there is no pin.
LEMMA FreeKVPlain ==
  ASSUME NEW s, Plain(s, lost), Shell(s), NEW r \in Request
  PROVE  Plain(FreeKV(s, r), lost)
<1> DEFINE f == FreeKV(s, r)
           p == Free(s.pool, s.req[r].kv.table).pool
           t == IF s.req[r].node = NoParent THEN s.tree ELSE DecLockRef(s.tree, s.req[r].node)
<1>1. f = [s EXCEPT !.pool = p, !.tree = t, !.req[r].kv = FreshKV, !.req[r].node = NoParent]
  BY DEF FreeKV, Reset
<1>2. f.req = [q \in Request |-> IF q = r THEN FreedEntry(s.req[r]) ELSE s.req[q]]
  BY FreeKVIs
<1>3. t = s.tree
  BY DEF Plain
<1> HIDE DEF p, t, f
<1>4. f.tree = s.tree /\ f.pool = p
  BY <1>1, <1>3 DEF Shell
<1>5. /\ f.req[r].kv = FreshKV /\ f.req[r].node = NoParent /\ f.req[r].gen = s.req[r].gen
      /\ \A q \in Request : q # r => SameHold(f.req[q], s.req[q])
  BY <1>2 DEF FreedEntry, SameHold
<1>6. Tables(s)[r] = s.req[r].kv.table
  BY DEF Tables
<1>7. Owned(p, Retabled(Tables(s), r, <<>>), lost)
  BY <1>6, OwnedFreed DEF Plain, p
<1>8. \A q \in Request : f.req[q].state \in Stage
  BY <1>2 DEF FreedEntry, Plain
<1> QED BY <1>4, <1>5, <1>7, <1>8, FreshBare, PlainGiven DEF f

\* _release does nothing else to the blocks.
LEMMA ReleasePlain ==
  ASSUME NEW s, Plain(s, lost), Shell(s), NEW r \in Request
  PROVE  Plain(ReleaseRequest(s, r), lost)
<1> DEFINE f == FreeKV(s, r)
           g == ReleaseRequest(s, r)
<1>1. Shell(f) /\ Plain(f, lost)
  BY FreeKVIs, FreeKVPlain
<1>2. /\ f.req = [q \in Request |-> IF q = r THEN FreedEntry(s.req[r]) ELSE s.req[q]]
      /\ g.req = [q \in Request |-> IF q = r THEN EndedEntry(s.req[r]) ELSE s.req[q]]
  BY FreeKVIs, ReleaseIs
<1>3. g = [f EXCEPT !.waiting = Without(@, r), !.running = Without(@, r), !.req[r].state = "FINISHED"]
  BY DEF ReleaseRequest
<1> HIDE DEF f, g
<1>4. g.tree = f.tree /\ g.pool = f.pool
  BY <1>1, <1>3 DEF Shell
<1>5. \A q \in Request : SameHold(g.req[q], f.req[q])
  BY <1>2 DEF FreedEntry, EndedEntry, SameHold
<1>6. \A q \in Request : g.req[q].state \in Stage
  BY <1>2 DEF EndedEntry, Plain, Stage
<1> QED BY <1>1, <1>4, <1>5, <1>6, PlainAlike DEF g

\* In t some requests of s have given their blocks back and do not run.
Freer(s, t) ==
  /\ ToSet(t.running) \subseteq ToSet(s.running)
  /\ \A r \in Request : /\ t.req[r].gen = s.req[r].gen
                        /\ t.req[r].kv = s.req[r].kv \/ (t.req[r].kv = FreshKV /\ r \notin ToSet(t.running))

\* One change after another.
LEMMA FreerChain ==
  ASSUME NEW s, NEW t, NEW u, Freer(s, t), Freer(t, u)
  PROVE  Freer(s, u)
BY DEF Freer

\* A release is one.
LEMMA ReleaseFreer ==
  ASSUME NEW arr, Once(arr), NEW s, Weak(s, arr), NEW r \in Request
  PROVE  Freer(s, ReleaseRequest(s, r))
<1> DEFINE g == ReleaseRequest(s, r)
<1>1. Shell(s) /\ s.running \in Seq(Request)
  BY DEF Weak, Shell
<1>2. Lined(arr, s.running)
  BY <1>1, QueueIs DEF Weak
<1>3. /\ g.running = Without(s.running, r)
      /\ g.req = [q \in Request |-> IF q = r THEN EndedEntry(s.req[r]) ELSE s.req[q]]
  BY <1>1, ReleaseIs
<1>4. ToSet(g.running) = ToSet(s.running) \ {r}
  BY <1>1, <1>2, <1>3, WithoutLined
<1> HIDE DEF g
<1> QED BY <1>3, <1>4 DEF Freer, EndedEntry, g

\* Releasing a list of requests.
LEMMA ReleaseAllPlain ==
  ASSUME NEW arr, Once(arr), NEW s, Weak(s, arr), Plain(s, lost), NEW rs \in Seq(Request),
         ToSet(rs) \subseteq ToSet(arr)
  PROVE  Plain(ReleaseAll(s, rs), lost) /\ Freer(s, ReleaseAll(s, rs))
<1> DEFINE n == Len(rs)
<1>1. n \in Nat /\ DOMAIN rs = 1 .. n /\ n = Len(rs)
  OBVIOUS
<1> HIDE DEF n
<1>2. PICK f : /\ f[0] = [s |-> s, i |-> 1]
               /\ \A i \in 1 .. n : f[i] = ReleaseTurn(f[i - 1], rs)
               /\ ReleaseAll(s, rs) = f[n].s
  BY <1>1, ReleaseRuns
<1> DEFINE OK(k) == f[k].i = k + 1 /\ Plain(f[k].s, lost) /\ Weak(f[k].s, arr) /\ Freer(s, f[k].s)
           S == {k \in Nat : k <= n => OK(k)}
<1>3. 0 \in S
  <2>1. f[0].i = 1 /\ f[0].s = s
    BY <1>2
  <2>2. OK(0)
    BY <2>1 DEF Freer
  <2> QED BY <2>2
<1>4. ASSUME NEW k \in 0 .. n - 1, k \in S PROVE k + 1 \in S
  <2>1. k \in Nat /\ k <= n /\ k + 1 \in 1 .. n /\ (k + 1) - 1 = k
    BY <1>1
  <2>2. OK(k)
    BY <1>4, <2>1
  <2> DEFINE u == f[k].s
             r == rs[k + 1]
  <2>3. f[k + 1] = ReleaseTurn(f[k], rs)
    BY <1>2, <2>1
  <2>4. f[k + 1].s = ReleaseRequest(u, r) /\ f[k + 1].i = k + 1 + 1
    BY <2>2, <2>3 DEF ReleaseTurn
  <2>5. r \in Request /\ r \in ToSet(arr)
    <3>1. k + 1 \in DOMAIN rs
      BY <1>1, <2>1
    <3>2. rs[k + 1] \in ToSet(rs) /\ rs[k + 1] \in Request
      <4> HIDE DEF u, r, OK, S
      <4> QED BY <3>1 DEF ToSet
    <3> HIDE DEF u, OK, S
    <3> QED BY <3>2
  <2>6. /\ Plain(ReleaseRequest(u, r), lost) /\ Weak(ReleaseRequest(u, r), arr)
        /\ Freer(s, ReleaseRequest(u, r))
    <3>1. Plain(u, lost) /\ Weak(u, arr) /\ Freer(s, u)
      BY <2>2
    <3> HIDE DEF u, r
    <3>2. Shell(u)
      BY <3>1 DEF Weak
    <3>3. Freer(u, ReleaseRequest(u, r))
      BY <2>5, <3>1, ReleaseFreer
    <3> QED BY <2>5, <3>1, <3>2, <3>3, ReleasePlain, ReleaseKeeps, FreerChain
  <2>7. OK(k + 1)
    BY <2>4, <2>6
  <2> QED BY <2>1, <2>7
<1>5. \A k \in 0 .. n : k \in S
  <2> HIDE DEF S
  <2> QED BY <1>1, <1>3, <1>4, BoundedInduction
<1>6. OK(n)
  <2> HIDE DEF OK
  <2> QED BY <1>1, <1>5
<1> QED BY <1>2, <1>6

\* A failure gives everything back.
LEMMA CrashPlain ==
  ASSUME Once(arrived), NEW s, Weak(s, arrived), Plain(s, lost), NEW o, Crash(s, o)
  PROVE  Plain(sched', lost) /\ Freer(s, sched')
<1> DEFINE inflight == Queue(s)
<1>1. sched' = ReleaseAll(s, inflight)
  BY DEF Crash, Queue
<1>2. inflight \in Seq(Request) /\ ToSet(inflight) \subseteq ToSet(arrived)
  BY QueueIs DEF Weak
<1> QED BY <1>1, <1>2, ReleaseAllPlain

\* A request that is put back gives its blocks back.
LEMMA PreemptPlainOne ==
  ASSUME NEW arr, Once(arr), NEW u, Strong(u, arr), Plain(u, lost), u.running # <<>>
  PROVE  /\ Plain(PreemptTurn(u), lost) /\ Freer(u, PreemptTurn(u))
         /\ \/ PreemptTurn(u) = u /\ num_free(u.pool) >= Len(u.running)
            \/ Len(PreemptTurn(u).running) = Len(u.running) - 1
<1> DEFINE r == Last(u.running)
           f == FreeKV(u, r)
           g == PreemptTurn(u)
<1>1. CASE num_free(u.pool) >= Len(u.running)
  <2>1. g = u
    BY <1>1 DEF PreemptTurn
  <2> QED BY <1>1, <2>1 DEF Freer
<1>2. CASE ~(num_free(u.pool) >= Len(u.running))
  <2>1. /\ Shell(u) /\ u.running \in Seq(Request) /\ Lined(arr, u.running)
    <3>1. Shell(u) /\ Weak(u, arr) /\ u.running \in Seq(Request)
      BY DEF Strong, Weak, Shell
    <3> QED BY <3>1, QueueIs DEF Weak
  <2>2. /\ Front(u.running) \in Seq(Request) /\ r \in Request /\ Len(Front(u.running)) = Len(u.running) - 1
        /\ ToSet(u.running) = ToSet(Front(u.running)) \cup {r}
    BY <2>1, FrontAndLast
  <2>3. r \notin ToSet(Front(u.running))
    <3> DEFINE q == u.running
               m == Len(q)
    <3>1. m \in Nat \ {0} /\ Front(q) = [i \in 1 .. m - 1 |-> q[i]] /\ r = q[m]
      BY <2>1 DEF Front, Last
    <3>2. ASSUME NEW i \in 1 .. m - 1 PROVE q[i] # r
      <4>1. CameIn(arr, q[i], q[m])
        BY <2>1, <3>1, <3>2 DEF Lined
      <4> QED BY <3>1, <4>1, NotBeforeItself
    <3> HIDE DEF m
    <3>3. DOMAIN Front(q) = 1 .. m - 1
      BY <3>1
    <3> QED BY <3>1, <3>2, <3>3 DEF ToSet
  <2>4. g = [f EXCEPT !.running = Front(@), !.waiting = <<r>> \o @, !.req[r].state = "WAITING"]
    BY <1>2 DEF PreemptTurn
  <2>5. /\ Shell(f) /\ f.running = u.running /\ Plain(f, lost)
        /\ f.req = [q \in Request |-> IF q = r THEN FreedEntry(u.req[r]) ELSE u.req[q]]
    BY <2>1, <2>2, FreeKVIs, FreeKVPlain
  <2> HIDE DEF f, g, r
  <2>6. /\ g.tree = f.tree /\ g.pool = f.pool /\ g.running = Front(u.running)
        /\ g.req = [f.req EXCEPT ![r].state = "WAITING"]
    BY <2>4, <2>5 DEF Shell
  <2>7. \A q \in Request : SameHold(g.req[q], f.req[q]) /\ g.req[q].state \in Stage
    <3>1. \A q \in Request : Entry(f.req[q])
      BY <2>5 DEF Shell
    <3>2. g.req[r] = [f.req[r] EXCEPT !.state = "WAITING"]
      BY <2>2, <2>5, <2>6
    <3>3. SameHold(g.req[r], f.req[r]) /\ g.req[r].state = "WAITING"
      <4> DEFINE old == f.req[r]
                 new == g.req[r]
      <4> HIDE DEF old, new
      <4>1. Entry(old) /\ new = [old EXCEPT !.state = "WAITING"]
        BY <2>2, <3>1, <3>2 DEF old, new
      <4>2. new = [gen |-> old.gen, kv |-> old.kv, node |-> old.node, state |-> "WAITING"]
        BY <4>1 DEF Entry
      <4> QED BY <4>2 DEF SameHold, old, new
    <3>4. \A q \in Request : q # r => g.req[q] = f.req[q]
      BY <2>5, <2>6
    <3>5. \A q \in Request : f.req[q].state \in Stage
      BY <2>5 DEF Plain
    <3> QED BY <3>3, <3>4, <3>5 DEF SameHold, Stage
  <2>8. Plain(g, lost)
    BY <2>5, <2>6, <2>7, PlainAlike
  <2>9. Freer(u, g)
    <3>1. ToSet(g.running) \subseteq ToSet(u.running) /\ r \notin ToSet(g.running)
      BY <2>2, <2>3, <2>6
    <3>2. \A q \in Request : g.req[q].gen = f.req[q].gen /\ g.req[q].kv = f.req[q].kv
      BY <2>7 DEF SameHold
    <3> QED BY <2>5, <3>1, <3>2 DEF Freer, FreedEntry
  <2>10. Len(g.running) = Len(u.running) - 1
    BY <2>2, <2>6
  <2> QED BY <2>8, <2>9, <2>10 DEF g
<1> QED BY <1>1, <1>2

\* There is a free block for each request that is left to decode.
Room(s) == num_free(s.pool) >= Len(s.running) \/ s.running = <<>>

\* After preemption there is.
LEMMA PreemptPlain ==
  ASSUME NEW arr, Once(arr), NEW s, Strong(s, arr), Plain(s, lost)
  PROVE  Plain(Preempt(s), lost) /\ Freer(s, Preempt(s)) /\ Room(Preempt(s))
<1> DEFINE n == Len(s.running)
<1>1. n \in Nat /\ n = Len(s.running)
  BY DEF Strong, Weak, Shell
<1> HIDE DEF n
<1>2. PICK f : /\ f[0] = s /\ \A i \in 1 .. n : f[i] = PreemptTurn(f[i - 1])
               /\ Preempt(s) = f[n]
  BY <1>1, PreemptRuns
<1> DEFINE Done(u, k) == num_free(u.pool) >= Len(u.running) \/ Len(u.running) = n - k
           OK(k) == /\ Strong(f[k], arr) /\ Plain(f[k], lost) /\ Freer(s, f[k])
                    /\ Len(f[k].running) >= n - k /\ Done(f[k], k)
           S == {k \in Nat : k <= n => OK(k)}
<1>3. 0 \in S
  <2>1. OK(0)
    BY <1>1, <1>2 DEF Freer
  <2> QED BY <2>1
<1>4. ASSUME NEW k \in 0 .. n - 1, k \in S PROVE k + 1 \in S
  <2>1. k \in Nat /\ k <= n /\ k + 1 \in 1 .. n /\ (k + 1) - 1 = k /\ n - k > 0
    BY <1>1
  <2>2. OK(k)
    BY <1>4, <2>1
  <2> DEFINE u == f[k]
             v == f[k + 1]
  <2>3. v = PreemptTurn(u)
    BY <1>2, <2>1
  <2>4. Strong(u, arr) /\ Plain(u, lost) /\ Freer(s, u) /\ Len(u.running) >= n - k /\ Done(u, k)
    BY <2>2
  <2> HIDE DEF u, v
  <2>5. u.running \in Seq(Request) /\ Len(u.running) \in Nat /\ u.running # <<>>
    <3>1. u.running \in Seq(Request)
      BY <2>4 DEF Strong, Weak, Shell
    <3> QED BY <1>1, <2>1, <2>4, <3>1
  <2>6. /\ Strong(v, arr) /\ Len(v.running) >= Len(u.running) - 1
        /\ Plain(v, lost) /\ Freer(u, v)
        /\ \/ v = u /\ num_free(u.pool) >= Len(u.running)
           \/ Len(v.running) = Len(u.running) - 1
    BY <2>3, <2>4, <2>5, PreemptOne, PreemptPlainOne
  <2>7. Freer(s, v)
    BY <2>4, <2>6, FreerChain
  <2>8. Len(v.running) \in Nat
    BY <2>6 DEF Strong, Weak, Shell
  <2>9. Len(v.running) >= n - (k + 1)
    BY <1>1, <2>1, <2>4, <2>5, <2>6, <2>8
  <2>10. Done(v, k + 1)
    <3>1. CASE v = u /\ num_free(u.pool) >= Len(u.running)
      BY <3>1
    <3>2. CASE ~(num_free(u.pool) >= Len(u.running))
      <4>1. Len(v.running) = Len(u.running) - 1 /\ Len(u.running) = n - k
        BY <2>4, <2>6, <3>2
      <4> QED BY <1>1, <2>1, <4>1
    <3>3. CASE v # u /\ num_free(u.pool) >= Len(u.running)
      <4>1. v = u
        BY <2>3, <3>3 DEF PreemptTurn
      <4> QED BY <3>3, <4>1
    <3> QED BY <3>1, <3>2, <3>3
  <2>11. OK(k + 1)
    BY <2>6, <2>7, <2>9, <2>10 DEF v
  <2> QED BY <2>1, <2>11
<1>5. \A k \in 0 .. n : k \in S
  <2> HIDE DEF S
  <2> QED BY <1>1, <1>3, <1>4, BoundedInduction
<1>6. OK(n)
  <2> HIDE DEF OK
  <2> QED BY <1>1, <1>5
<1> DEFINE z == Preempt(s)
<1>7. Strong(z, arr) /\ Plain(z, lost) /\ Freer(s, z) /\ Done(z, n)
  BY <1>2, <1>6
<1> HIDE DEF z
<1>8. z.running \in Seq(Request)
  BY <1>7 DEF Strong, Weak, Shell
<1>9. Len(z.running) = n - n => z.running = <<>>
  BY <1>1, <1>8
<1> QED BY <1>7, <1>9 DEF Room, z
-----------------------------------------------------------------------------
(* The tree of a scheduler without one.                                    *)

\* A sequence of numbers from which Max chooses one.
LEMMA OnlyZero ==
  /\ \A n \in Nat : Min({0, n}) = 0
  /\ Max({0}) = 0
<1>1. ASSUME NEW n \in Nat PROVE Min({0, n}) = 0
  <2>1. Min({0, n}) \in {0, n} /\ \A m \in {0, n} : Min({0, n}) <= m
    BY MinOK
  <2> QED BY <2>1
<1>2. Max({0}) = 0
  BY MaxFromZero
<1> QED BY <1>1, <1>2

\* It has a root and nothing to evict.
LEMMA RootOnly ==
  /\ Nodes(Tree0) = {Root} /\ Cardinality(Nodes(Tree0)) = 1 /\ Tree0.lru = <<>> /\ Tree0.evictable = 0
  /\ Tree0.node[Root] = [parent |-> NoParent, key |-> <<>>, table |-> <<>>, lock |-> 1, children |-> <<>>]
<1>1. /\ Nodes(Tree0) = {Root} /\ Tree0.lru = <<>> /\ Tree0.evictable = 0
      /\ Tree0.node[Root] = [parent |-> NoParent, key |-> <<>>, table |-> <<>>, lock |-> 1, children |-> <<>>]
  BY DEF Tree0, Nodes
<1>2. Cardinality({Root}) = 1
  BY FS_Singleton
<1> QED BY <1>1, <1>2

\* The whole tokens in the blocks.
LEMMA AlignedNat ==
  ASSUME NEW n \in Nat
  PROVE  Aligned(n) \in Nat
<1> DEFINE q == n \div BlockSize
<1>1. q \in Nat
  BY BlockSizeAssumption
<1> HIDE DEF q
<1>2. q * BlockSize \in Nat
  BY <1>1, BlockSizeAssumption
<1> QED BY <1>2 DEF Aligned, q

\* The walk ends where it begins.
LEMMA RootStep ==
  ASSUME NEW tokens, NEW total \in Nat
  PROVE  WalkStep(Walk0(Tree0), tokens, total, TRUE)
         = [tree |-> Tree0, now |-> Root, length |-> 0, m |-> 0, blocks |-> <<>>, over |-> TRUE]
<1> DEFINE w    == Walk0(Tree0)
           node == w.tree.node[w.now]
           m    == Agreement(node.key, tokens, w.length, total)
           fork == BlockAt(tokens, w.length + m)
<1>1. w.tree = Tree0 /\ w.now = Root /\ w.length = 0 /\ w.blocks = <<>> /\ w.over = FALSE
  BY DEF Walk0
<1>2. node.key = <<>> /\ node.table = <<>> /\ node.children = <<>>
  BY <1>1, RootOnly
<1>3. m = 0
  <2>1. Len(node.key) = 0 /\ total - w.length = total
    BY <1>1, <1>2
  <2>2. m = Max({j \in 0 .. 0 : \A i \in 1 .. j : node.key[i] = tokens[w.length + i]})
    BY <2>1, OnlyZero DEF Agreement
  <2>3. {j \in 0 .. 0 : \A i \in 1 .. j : node.key[i] = tokens[w.length + i]} = {0}
    OBVIOUS
  <2> QED BY <2>2, <2>3, OnlyZero
<1>4. Touch(w.tree, w.now) = Tree0
  <2>1. ~InLru(Tree0, Root)
    BY RootOnly, NoBlocks DEF InLru
  <2> QED BY <1>1, <2>1 DEF Touch
<1>5. fork \notin DOMAIN node.children
  BY <1>2
<1>6. w.blocks \o SubSeq(node.table, 1, m \div BlockSize) = <<>>
  <2>1. m \div BlockSize = 0
    BY <1>3, BlockSizeAssumption
  <2> QED BY <1>1, <1>2, <2>1
<1>7. w.length + m = 0
  BY <1>1, <1>3
<1> DEFINE stop == \/ m < Len(node.key) \/ w.length + m >= total
                   \/ (TRUE /\ total - (w.length + m) < BlockSize) \/ fork \notin DOMAIN node.children
<1>8. stop = TRUE
  BY <1>5
<1>9. WalkStep(w, tokens, total, TRUE)
      = [tree |-> Touch(w.tree, w.now), now |-> IF stop THEN w.now ELSE node.children[fork],
         length |-> w.length + m, m |-> m,
         blocks |-> w.blocks \o SubSeq(node.table, 1, m \div BlockSize), over |-> stop]
  BY <1>1 DEF WalkStep
<1> HIDE DEF w, node, m, fork, stop
<1> QED BY <1>1, <1>3, <1>4, <1>6, <1>7, <1>8, <1>9 DEF w

\* Nothing matches.
LEMMA NothingMatches ==
  ASSUME NEW tokens, Len(tokens) \in Nat
  PROVE  MatchPrefix(Tree0, tokens) = [tree |-> Tree0, blocks |-> <<>>, node |-> Root]
<1> DEFINE Turn(w)    == WalkStep(w, tokens, Aligned(Len(tokens)), TRUE)
           first      == Walk0(Tree0)
           Runs(f, n) == f = [i \in 0 .. n |-> IF i = 0 THEN first
                                               ELSE CHOOSE u \in {Turn(r) : r \in {f[i - 1]}} : TRUE]
           g          == [i \in 0 .. 1 |-> IF i = 0 THEN first ELSE Turn(first)]
           h          == CHOOSE f : Runs(f, 1)
<1>1. Descend(Tree0, tokens, TRUE) = h[1]
  BY RootOnly DEF Descend, Iterate
<1>2. Turn(first) = [tree |-> Tree0, now |-> Root, length |-> 0, m |-> 0, blocks |-> <<>>, over |-> TRUE]
  BY RootStep, AlignedNat
<1> HIDE DEF Turn, first
<1>3. Runs(g, 1)
  <2>1. g[0] = first /\ g[1] = Turn(first)
    OBVIOUS
  <2>2. \A i \in 0 .. 1 : i = 0 \/ (i = 1 /\ i - 1 = 0)
    OBVIOUS
  <2>3. ASSUME NEW i \in 0 .. 1
        PROVE  g[i] = IF i = 0 THEN first ELSE CHOOSE u \in {Turn(r) : r \in {g[i - 1]}} : TRUE
    <3> HIDE DEF g
    <3>1. CASE i = 0
      BY <2>1, <3>1
    <3>2. CASE i = 1
      <4>1. (CHOOSE u \in {Turn(r) : r \in {g[0]}} : TRUE) = Turn(g[0])
        OBVIOUS
      <4>2. i - 1 = 0
        BY <3>2
      <4> QED BY <2>1, <3>2, <4>1, <4>2
    <3> QED BY <2>2, <3>1, <3>2
  <2>4. g = [i \in 0 .. 1 |-> g[i]]
    OBVIOUS
  <2> HIDE DEF g
  <2> QED BY <2>3, <2>4
<1>4. Runs(h, 1)
  BY <1>3
<1> HIDE DEF h, g
<1>5. h[0] = first /\ h[1] = CHOOSE u \in {Turn(r) : r \in {h[0]}} : TRUE
  <2>1. 0 \in 0 .. 1 /\ 1 \in 0 .. 1 /\ 1 # 0 /\ 1 - 1 = 0
    OBVIOUS
  <2> QED BY <1>4, <2>1
<1>6. (CHOOSE u \in {Turn(r) : r \in {h[0]}} : TRUE) = Turn(h[0])
  OBVIOUS
<1>7. h[1] = Turn(first)
  BY <1>5, <1>6
<1> DEFINE w == Descend(Tree0, tokens, TRUE)
<1>8. w = [tree |-> Tree0, now |-> Root, length |-> 0, m |-> 0, blocks |-> <<>>, over |-> TRUE]
  BY <1>1, <1>2, <1>7
<1>9. MatchPrefix(Tree0, tokens) = [tree |-> w.tree, blocks |-> w.blocks, node |-> w.now]
  BY DEF MatchPrefix
<1> HIDE DEF w
<1> QED BY <1>8, <1>9

\* Nothing is evicted.
LEMMA NothingEvicted ==
  ASSUME NEW need, NEW p
  PROVE  Evict(Tree0, need, p) = [tree |-> Tree0, pool |-> p, freed |-> 0, ok |-> TRUE]
<1> DEFINE Turn(r)    == IF r.ok /\ r.freed < need /\ r.tree.lru # <<>> THEN EvictOne(r) ELSE r
           first      == [tree |-> Tree0, pool |-> p, freed |-> 0, ok |-> TRUE]
           Runs(f, n) == f = [i \in 0 .. n |-> IF i = 0 THEN first
                                               ELSE CHOOSE u \in {Turn(r) : r \in {f[i - 1]}} : TRUE]
           g          == [i \in 0 .. 1 |-> first]
           h          == CHOOSE f : Runs(f, 1)
<1>1. Evict(Tree0, need, p) = h[1]
  BY RootOnly DEF Evict, Iterate
<1>2. Turn(first) = first
  BY RootOnly
<1> HIDE DEF Turn, first
<1>3. Runs(g, 1)
  <2>1. \A i \in 0 .. 1 : i = 0 \/ i - 1 \in 0 .. 1
    OBVIOUS
  <2>2. ASSUME NEW i \in 0 .. 1
        PROVE  g[i] = IF i = 0 THEN first ELSE CHOOSE u \in {Turn(r) : r \in {g[i - 1]}} : TRUE
    <3>1. CASE i = 0
      BY <3>1
    <3>2. CASE i # 0
      <4>1. g[i - 1] = first /\ g[i] = first
        BY <2>1, <3>2
      <4>2. (CHOOSE u \in {Turn(r) : r \in {first}} : TRUE) = Turn(first)
        OBVIOUS
      <4> HIDE DEF g
      <4> QED BY <1>2, <3>2, <4>1, <4>2
    <3> QED BY <3>1, <3>2
  <2>3. g = [i \in 0 .. 1 |-> g[i]]
    OBVIOUS
  <2> HIDE DEF g
  <2> QED BY <2>2, <2>3
<1>4. Runs(h, 1)
  BY <1>3
<1> HIDE DEF h, g
<1>5. h[0] = first /\ h[1] = CHOOSE u \in {Turn(r) : r \in {h[0]}} : TRUE
  <2>1. 0 \in 0 .. 1 /\ 1 \in 0 .. 1 /\ 1 # 0 /\ 1 - 1 = 0
    OBVIOUS
  <2> QED BY <1>4, <2>1
<1>6. (CHOOSE u \in {Turn(r) : r \in {h[0]}} : TRUE) = Turn(h[0])
  OBVIOUS
<1> QED BY <1>1, <1>2, <1>5, <1>6 DEF first
-----------------------------------------------------------------------------
(* Admission without the prefix tree.                                      *)

\* The blocks a number of tokens needs.
LEMMA NeededNat ==
  ASSUME NEW n \in Nat
  PROVE  BlocksNeeded(n) \in Nat
<1>1. n + BlockSize - 1 \in Nat /\ BlockSize \in Nat \ {0}
  BY BlockSizeAssumption
<1> QED BY <1>1 DEF BlocksNeeded

\* What a request has asked and been answered is a sequence with something in it.
LEMMA TokensAre ==
  ASSUME NEW s, NEW r \in Request, Sequence(s.req[r].gen)
  PROVE  /\ Sequence(Tokens(s, r)) /\ Len(Tokens(s, r)) \in Nat \ {0}
         /\ Len(Tokens(s, r)) = Len(Prompt[r]) + Len(s.req[r].gen)
<1>1. PICK E : s.req[r].gen \in Seq(E)
  BY DEF Sequence
<1> DEFINE p == Prompt[r]
           g == s.req[r].gen
<1>2. p \in Seq(E \cup Int) /\ g \in Seq(E \cup Int) /\ Len(p) \in Nat \ {0}
  <2>1. p \in Seq(Int) /\ p # <<>>
    BY SchedulerAssumption
  <2> HIDE DEF p
  <2> QED BY <1>1, <2>1
<1> HIDE DEF p, g
<1>3. p \o g \in Seq(E \cup Int) /\ Len(p \o g) = Len(p) + Len(g) /\ Len(g) \in Nat
  BY <1>2
<1>4. Tokens(s, r) = p \o g
  BY DEF Tokens, p, g
<1>5. Sequence(p \o g)
  BY <1>3 DEF Sequence
<1> DEFINE t == p \o g
<1>6. Len(t) \in Nat \ {0} /\ Len(t) = Len(p) + Len(g)
  BY <1>2, <1>3
<1> HIDE DEF t
<1> QED BY <1>4, <1>5, <1>6 DEF p, g, t

\* The requests of a list, and what each adds.
SumTurn(D)   == [x \in Int \X Request |-> x[1] + D[x[2]]]
Sum(D, list) == FoldOf(SumTurn(D), 0, list)

\* The blocks each request will need for its tokens.
Needs(s) == [r \in Request |-> BlocksNeeded(Len(Tokens(s, r)))]

\* What admission, begun at s, has come to: those it admitted run, in the order
\* they waited, and the budget is what their tokens leave of the free blocks.
Moved(a, s) ==
  /\ a.s = Data(s, s.running \o a.prefills, a.s.waiting, s.tree, s.pool, s.req)
  /\ a.s.waiting \in Seq(Request) /\ a.prefills \in Seq(Request)
  /\ a.prefills \o a.s.waiting = s.waiting
Budgeted(a, s) ==
  /\ a.budget \in Nat /\ a.budget + Sum(Needs(s), a.prefills) = num_free(s.pool)
Admits(a, s) == Shape(a) /\ a.ok = TRUE /\ a.over \in BOOLEAN /\ Moved(a, s) /\ Budgeted(a, s)

\* Where nothing matches a turn of the loop stops, or the request runs.
Admitted(a, r, need) ==
  Turn5(Data(a.s, Append(a.s.running, r), Tail(a.s.waiting), a.s.tree, a.s.pool, a.s.req),
        a.budget - need, Append(a.prefills, r), FALSE, TRUE)

\* Whether the budget refuses r what it needs and what is set aside.
Denied(s, budget, r) ==
  LET need == BlocksNeeded(Len(Tokens(s, r)))
  IN  budget + Tree0.evictable - Reserved(s, r) < need \/ budget < need

LEMMA AdmitPlain ==
  ASSUME NEW a, Shape(a), Shell(a.s), a.s.tree = Tree0, a.budget \in Nat, NEW r \in Request,
         NEW need \in Nat, need = BlocksNeeded(Len(Tokens(a.s, r))),
         NEW m, m = [tree |-> Tree0, blocks |-> <<>>, node |-> Root]
  PROVE  \/ /\ AdmitMatch(a, r, m) = Turn5(a.s, a.budget, a.prefills, TRUE, a.ok)
            /\ Denied(a.s, a.budget, r)
         \/ a.budget >= need /\ AdmitMatch(a, r, m) = Admitted(a, r, need)
<1> DEFINE s == a.s
           z == AdmitMatch(a, r, m)
<1>1. /\ s = Data(s, s.running, s.waiting, s.tree, s.pool, s.req)
      /\ \A q \in Request : Entry(s.req[q])
      /\ s.req = [q \in Request |-> s.req[q]]
  BY DEF Shell, Data
<1>2. BlocksNeeded(Len(Tokens(a.s, r))) - Len(m.blocks) = need /\ m.tree = s.tree /\ m.blocks = <<>>
      /\ s.tree = Tree0
  OBVIOUS
<1>3. CASE a.budget + m.tree.evictable - Reserved(a.s, r) < need
  <2>1. z = [a EXCEPT !.s.tree = m.tree, !.over = TRUE]
    BY <1>2, <1>3 DEF AdmitMatch
  <2> DEFINE y == z.s
  <2> HIDE DEF z
  <2>2. z = Turn5(z.s, a.budget, a.prefills, TRUE, a.ok) /\ z.s = [s EXCEPT !.tree = m.tree]
    BY <2>1 DEF Shape, Turn5
  <2>3. y = [s EXCEPT !.tree = s.tree]
    BY <1>2, <2>2
  <2> HIDE DEF y, s
  <2>4. y = s
    BY <1>1, <2>3 DEF Data
  <2>5. Denied(s, a.budget, r)
    <3>1. m.tree = Tree0
      OBVIOUS
    <3> QED BY <1>3, <3>1 DEF Denied, s
  <2> QED BY <2>2, <2>4, <2>5 DEF z, y, s
<1>4. CASE ~(a.budget + m.tree.evictable - Reserved(a.s, r) < need)
  <2> DEFINE e == PinAndEvict(a, m, need)
  <2>1. z = AdmitEvicted(a, r, m, need, e)
    BY <1>2, <1>4 DEF AdmitMatch, With
  <2>2. e.tree = s.tree /\ e.pool = s.pool /\ e.freed = 0
    <3>1. Evict(Tree0, need - a.budget, s.pool) = [tree |-> Tree0, pool |-> s.pool, freed |-> 0, ok |-> TRUE]
      BY NothingEvicted
    <3> DEFINE ev == Evict(Tree0, need - a.budget, s.pool)
    <3>2. e = IF a.budget < need THEN ev ELSE [tree |-> Tree0, pool |-> s.pool, freed |-> 0]
      BY <1>2 DEF PinAndEvict
    <3> HIDE DEF ev, e
    <3> QED BY <1>2, <3>1, <3>2 DEF ev
  <2> HIDE DEF e, z
  <2>3. CASE a.budget + e.freed < need
    <3> DEFINE t == IF m.blocks = <<>> THEN e.tree ELSE DecLockRef(e.tree, m.node)
               y == z.s
    <3>1. z = [a EXCEPT !.s.tree = t, !.s.pool = e.pool, !.budget = a.budget + e.freed, !.over = TRUE]
      BY <2>1, <2>3 DEF AdmitEvicted
    <3>2. t = s.tree /\ a.budget + e.freed = a.budget
      BY <1>2, <2>2
    <3> HIDE DEF t
    <3>3. /\ z = Turn5(z.s, a.budget + e.freed, a.prefills, TRUE, a.ok)
          /\ z.s = [s EXCEPT !.tree = t, !.pool = e.pool]
      BY <3>1 DEF Shape, Turn5
    <3>4. y = [s EXCEPT !.tree = s.tree, !.pool = s.pool]
      BY <2>2, <3>2, <3>3
    <3> HIDE DEF y, s
    <3>5. y = s
      BY <1>1, <3>4 DEF Data
    <3>6. Denied(s, a.budget, r)
      <4>1. a.budget < need
        BY <2>3, <3>2
      <4> QED BY <4>1 DEF Denied, s
    <3> QED BY <3>2, <3>3, <3>5, <3>6 DEF z, y, s
  <2>4. CASE ~(a.budget + e.freed < need)
    <3> DEFINE g == Stored(s.req[r].kv, s.pool)
               u == Granted(s, r, m, e, g)
    <3>1. g = Adopted(s.req[r].kv, e.pool, m.blocks) /\ g.ok = TRUE /\ g.kv = s.req[r].kv /\ g.pool = s.pool
      BY <1>2, <2>2 DEF Adopted, Stored
    <3>2. z = [a EXCEPT !.s = u, !.budget = @ + e.freed - need, !.over = ~g.ok, !.ok = g.ok,
                        !.prefills = Append(@, r)]
      <4> DEFINE Z(v) == [a EXCEPT !.s = Granted(s, r, m, e, v), !.budget = @ + e.freed - need,
                                   !.over = ~v.ok, !.ok = v.ok, !.prefills = Append(@, r)]
                 w == Adopted(s.req[r].kv, e.pool, m.blocks)
      <4>1. z = CHOOSE x \in {Z(v) : v \in {w}} : TRUE
        BY <2>1, <2>4 DEF AdmitEvicted, With
      <4> HIDE DEF Z, g, w
      <4>2. z = Z(w)
        BY <4>1
      <4>3. w = g
        BY <3>1 DEF w
      <4> QED BY <4>2, <4>3 DEF Z
    <3> HIDE DEF g
    <3>3. u = Data(s, Append(s.running, r), Tail(s.waiting), s.tree, s.pool, s.req)
      <4>1. u = [s EXCEPT !.tree = s.tree, !.pool = s.pool, !.req[r].kv = s.req[r].kv,
                          !.req[r].node = IF m.blocks = <<>> THEN @ ELSE m.node,
                          !.running = Append(@, r), !.waiting = Tail(@)]
        BY <2>2, <3>1 DEF Granted
      <4> DEFINE old == s.req[r]
                 new == u.req[r]
      <4> HIDE DEF u
      <4>2. /\ u.req = [q \in Request |-> IF q = r THEN new ELSE s.req[q]]
            /\ new = [old EXCEPT !.kv = old.kv, !.node = old.node]
        BY <1>2, <4>1 DEF Shell
      <4>3. old = [gen |-> old.gen, kv |-> old.kv, node |-> old.node, state |-> old.state]
        BY <1>1 DEF Entry
      <4>4. /\ u = [waiting |-> u.waiting, running |-> u.running, tree |-> s.tree, pool |-> s.pool,
                    req |-> u.req]
            /\ u.running = Append(s.running, r) /\ u.waiting = Tail(s.waiting)
        BY <4>1 DEF Shell
      <4> HIDE DEF old, new
      <4>5. new = old
        BY <4>2, <4>3
      <4>6. u.req = s.req
        BY <1>1, <4>2, <4>5 DEF old
      <4> QED BY <4>4, <4>6 DEF Data
    <3> HIDE DEF u
    <3>4. z = Turn5(u, a.budget - need, Append(a.prefills, r), FALSE, TRUE)
      <4>1. a.budget + e.freed - need = a.budget - need
        BY <2>2
      <4> QED BY <3>1, <3>2, <4>1 DEF Shape, Turn5
    <3>5. a.budget >= need
      BY <2>2, <2>4
    <3> QED BY <3>3, <3>4, <3>5 DEF Admitted, z
  <2> QED BY <2>3, <2>4
<1> QED BY <1>3, <1>4

\* The sum over a list, a request at a time.
LEMMA SumGrows ==
  ASSUME NEW D \in [Request -> Int]
  PROVE  /\ Sum(D, <<>>) = 0
         /\ \A list \in Seq(Request) : Sum(D, list) \in Int
         /\ \A list \in Seq(Request), r \in Request : Sum(D, Append(list, r)) = Sum(D, list) + D[r]
<1> DEFINE F == SumTurn(D)
<1>1. Turns(F, Int, Request) /\ \A n \in Int, r \in Request : F[<<n, r>>] = n + D[r]
  BY DEF SumTurn, Turns
<1>0. \A list : Sum(D, list) = FoldOf(F, 0, list)
  BY DEF Sum
<1> HIDE DEF F
<1>2. \A list \in Seq(Request) : Sum(D, list) \in Int
  <2>1. ASSUME NEW list \in Seq(Request) PROVE FoldOf(F, 0, list) \in Int
    BY <1>1, FoldType
  <2> QED BY <1>0, <2>1
<1>3. Sum(D, <<>>) = 0
  <2>1. FoldOf(F, 0, <<>>) = 0
    <3> DEFINE X == Int
    <3>1. 0 \in X /\ Turns(F, X, Request)
      BY <1>1
    <3> HIDE DEF X
    <3> QED BY <3>1, FoldEmpty
  <2> QED BY <1>0, <2>1
<1>4. ASSUME NEW list \in Seq(Request), NEW r \in Request
      PROVE  Sum(D, Append(list, r)) = Sum(D, list) + D[r]
  <2>1. FoldOf(F, 0, Append(list, r)) = F[<<FoldOf(F, 0, list), r>>]
    <3> DEFINE X == Int
    <3>1. 0 \in X /\ Turns(F, X, Request)
      BY <1>1
    <3> HIDE DEF X
    <3> QED BY <3>1, FoldAppend
  <2>2. FoldOf(F, 0, list) \in Int
    BY <1>0, <1>2
  <2> QED BY <1>0, <1>1, <2>1, <2>2
<1> QED BY <1>2, <1>3, <1>4

\* The blocks the requests need.
LEMMA NeedsAre ==
  ASSUME NEW s, Plain(s, lost)
  PROVE  /\ Needs(s) \in [Request -> Nat] /\ Needs(s) \in [Request -> Int]
         /\ \A r \in Request : Needs(s)[r] = BlocksNeeded(Len(Tokens(s, r)))
<1>1. \A r \in Request : BlocksNeeded(Len(Tokens(s, r))) \in Nat
  BY TokensAre, NeededNat DEF Plain
<1> QED BY <1>1 DEF Needs

\* The last element left out.
LEMMA FrontLength ==
  ASSUME NEW q, Sequence(q), Len(q) \in Nat \ {0}
  PROVE  Len(Front(q)) \in Nat
<1>1. PICK E : q \in Seq(E)
  BY DEF Sequence
<1>2. q # <<>>
  BY <1>1
<1> QED BY <1>1, <1>2, FrontAndLast

\* A turn of the admission loop admits who is first, unless it is refused.
Stopped(a) == a.over \/ a.s.waiting = <<>> \/ Denied(a.s, a.budget, Head(a.s.waiting))

LEMMA AdmitHeadPlain ==
  ASSUME NEW s, Plain(s, lost), Shell(s), NEW a, Admits(a, s)
  PROVE  /\ Admits(AdmitHead(a), s)
         /\ AdmitHead(a).prefills = <<>> => a.prefills = <<>> /\ Stopped(a)
<1> DEFINE d == a.s
           r == Head(d.waiting)
           m == [tree |-> Tree0, blocks |-> <<>>, node |-> Root]
           z == AdmitHead(a)
<1>1. /\ Shape(a) /\ a.ok = TRUE /\ a.over \in BOOLEAN /\ a.budget \in Nat
      /\ d.waiting \in Seq(Request) /\ a.prefills \in Seq(Request) /\ a.prefills \o d.waiting = s.waiting
      /\ a.budget + Sum(Needs(s), a.prefills) = num_free(s.pool)
      /\ d = Data(s, s.running \o a.prefills, d.waiting, s.tree, s.pool, s.req)
  BY DEF Admits, Moved, Budgeted
<1>2. /\ d.running = s.running \o a.prefills /\ d.tree = s.tree /\ d.pool = s.pool /\ d.req = s.req
      /\ d = [waiting |-> d.waiting, running |-> d.running, tree |-> d.tree, pool |-> d.pool, req |-> d.req]
  <2> DEFINE run == s.running \o a.prefills
  <2> HIDE DEF run, d
  <2>1. d = Data(s, run, d.waiting, s.tree, s.pool, s.req)
    BY <1>1 DEF run
  <2>2. /\ d.running = run /\ d.tree = s.tree /\ d.pool = s.pool /\ d.req = s.req
        /\ d = [waiting |-> d.waiting, running |-> d.running, tree |-> d.tree, pool |-> d.pool, req |-> d.req]
    BY <2>1 DEF Data
  <2> QED BY <2>2 DEF run, d
<1>3. CASE a.over \/ d.waiting = <<>>
  <2>1. z = a
    BY <1>3 DEF AdmitHead
  <2> QED BY <1>3, <2>1 DEF Stopped
<1>4. CASE ~(a.over \/ d.waiting = <<>>)
  <2>1. /\ r \in Request /\ Tail(d.waiting) \in Seq(Request) /\ Append(a.prefills, r) \in Seq(Request)
        /\ Append(a.prefills, r) \o Tail(d.waiting) = s.waiting
    <3> DEFINE p == a.prefills
               q == d.waiting
    <3>1. p \in Seq(Request) /\ q \in Seq(Request) /\ q # <<>> /\ p \o q = s.waiting
      BY <1>1, <1>4
    <3> HIDE DEF p, q
    <3>2. /\ Head(q) \in Request /\ Tail(q) \in Seq(Request) /\ Append(p, Head(q)) \in Seq(Request)
          /\ Append(p, Head(q)) \o Tail(q) = p \o q
      BY <3>1, HeadAndTail
    <3> QED BY <3>1, <3>2 DEF p, q
  <2>2. s.running \in Seq(Request) /\ d.running \in Seq(Request)
        /\ Append(d.running, r) = s.running \o Append(a.prefills, r)
    <3>1. s.running \in Seq(Request)
      BY DEF Shell
    <3> DEFINE p == a.prefills
               q == s.running
    <3>2. p \in Seq(Request) /\ q \in Seq(Request)
      BY <1>1, <3>1
    <3> HIDE DEF p, q, r
    <3>3. Append(q \o p, r) = q \o Append(p, r) /\ q \o p \in Seq(Request)
      <4>1. q \o p \in Seq(Request) /\ Append(p, r) = p \o <<r>> /\ <<r>> \in Seq(Request)
        BY <2>1, <3>2
      <4>2. (q \o p) \o <<r>> = q \o (p \o <<r>>)
        BY <3>2, <4>1, ConcatAssociative
      <4> DEFINE all == q \o p
      <4>3. Append(all, r) = all \o <<r>>
        <5> HIDE DEF all
        <5>1. all \in Seq(Request)
          BY <4>1 DEF all
        <5> QED BY <2>1, <5>1
      <4> QED BY <4>1, <4>2, <4>3
    <3> QED BY <1>2, <3>1, <3>3 DEF p, q
  <2>3. Shell(d)
    <3> HIDE DEF d
    <3> QED BY <1>1, <1>2, <2>2 DEF Shell
  <2>4. d.tree = Tree0
    BY <1>2 DEF Plain
  <2>5. Tokens(d, r) = Tokens(s, r) /\ Sequence(Tokens(d, r)) /\ Len(Tokens(d, r)) \in Nat \ {0}
    <3>1. Tokens(d, r) = Tokens(s, r)
      BY <1>2 DEF Tokens
    <3> QED BY <2>1, <3>1, TokensAre DEF Plain
  <2>6. MatchPrefix(d.tree, Front(Tokens(d, r))) = m
    BY <2>4, <2>5, FrontLength, NothingMatches
  <2>7. z = AdmitMatch(a, r, m)
    <3> DEFINE g    == MatchPrefix(d.tree, Front(Tokens(d, r)))
               Z(v) == AdmitMatch(a, r, v)
    <3>1. z = CHOOSE w \in {Z(v) : v \in {g}} : TRUE
      BY <1>4 DEF AdmitHead, With
    <3>2. g = m
      BY <2>6
    <3> HIDE DEF Z, g, z
    <3>3. z = Z(g)
      BY <3>1
    <3> QED BY <3>2, <3>3 DEF Z
  <2> DEFINE need == Needs(s)[r]
  <2>8. need \in Nat /\ need = BlocksNeeded(Len(Tokens(d, r)))
    BY <2>1, <2>5, NeedsAre
  <2> HIDE DEF need, r, d, z
  <2>9. \/ z = Turn5(d, a.budget, a.prefills, TRUE, a.ok) /\ Denied(d, a.budget, r)
        \/ a.budget >= need /\ z = Admitted(a, r, need)
    BY <1>1, <2>1, <2>3, <2>4, <2>7, <2>8, AdmitPlain DEF d
  <2>10. CASE z = Turn5(d, a.budget, a.prefills, TRUE, a.ok) /\ Denied(d, a.budget, r)
    <3>1. Shape(z) /\ z.s = d /\ z.budget = a.budget /\ z.prefills = a.prefills /\ z.over = TRUE /\ z.ok = a.ok
      BY <2>10 DEF Turn5, Shape
    <3>2. Stopped(a)
      BY <2>10 DEF Stopped, d, r
    <3> QED BY <1>1, <3>1, <3>2 DEF Admits, Moved, Budgeted, d, z
  <2>11. CASE a.budget >= need /\ z = Admitted(a, r, need)
    <3> DEFINE e == Data(d, Append(d.running, r), Tail(d.waiting), d.tree, d.pool, d.req)
               b == a.budget - need
               p == Append(a.prefills, r)
    <3>1. z = Turn5(e, b, p, FALSE, TRUE)
      BY <2>11 DEF Admitted, d
    <3>2. e = Data(s, s.running \o p, Tail(d.waiting), s.tree, s.pool, s.req) /\ e.waiting = Tail(d.waiting)
      BY <1>2, <2>2 DEF Data
    <3>3. b \in Nat /\ b + Sum(Needs(s), p) = num_free(s.pool)
      <4>1. /\ Sum(Needs(s), a.prefills) \in Int
            /\ Sum(Needs(s), p) = Sum(Needs(s), a.prefills) + need
        BY <1>1, <2>1, NeedsAre, SumGrows DEF need
      <4> QED BY <1>1, <2>8, <2>11, <4>1
    <3> HIDE DEF e, b, p
    <3>4. Shape(z) /\ z.s = e /\ z.budget = b /\ z.prefills = p /\ z.over = FALSE /\ z.ok = TRUE
      BY <3>1 DEF Turn5, Shape
    <3>5. p # <<>>
      <4> DEFINE q == a.prefills
      <4>1. q \in Seq(Request) /\ r \in Request
        BY <1>1, <2>1
      <4> HIDE DEF q
      <4>2. Append(q, r) \in Seq(Request) /\ Len(Append(q, r)) = Len(q) + 1 /\ Len(q) \in Nat
        BY <4>1
      <4>3. p = Append(q, r)
        BY DEF p, q
      <4> HIDE DEF p
      <4>4. p \in Seq(Request) /\ Len(p) # 0
        BY <4>2, <4>3
      <4> QED BY <4>4, EmptySeq
    <3> QED BY <2>1, <3>2, <3>3, <3>4, <3>5 DEF Admits, Moved, Budgeted, z, p
  <2> QED BY <2>9, <2>10, <2>11
<1> QED BY <1>3, <1>4

\* Admission without the prefix tree: no adoption fails, nothing but the queues
\* changes, and somebody is admitted unless who is first is refused.
Turned(s) == s.waiting = <<>> \/ Denied(s, num_free(s.pool), Head(s.waiting))

LEMMA AdmissionPlain ==
  ASSUME NEW s, Plain(s, lost), Shell(s)
  PROVE  Admits(Admission(s), s) /\ (Admission(s).prefills = <<>> => Turned(s))
<1> DEFINE n == Len(s.waiting)
<1>1. n \in Nat /\ n = Len(s.waiting)
  BY DEF Shell
<1> HIDE DEF n
<1>2. PICK f : /\ f[0] = Admission0(s) /\ \A i \in 1 .. n : f[i] = AdmitHead(f[i - 1])
               /\ AdmitSome(s, n) = f[n]
  BY <1>1, AdmissionRuns
<1> DEFINE OK(k) == Admits(f[k], s) /\ (k > 0 /\ f[k].prefills = <<>> => Turned(s))
           S == {k \in Nat : k <= n => OK(k)}
<1>3. 0 \in S
  <2> DEFINE a == Admission0(s)
             p == <<>>
  <2>1. /\ Shape(a) /\ a.s = s /\ a.prefills = p /\ a.over = FALSE /\ a.ok = TRUE
        /\ a.budget = num_free(s.pool)
    BY DEF Admission0, Shape, Turn5
  <2>2. s.running \in Seq(Request) /\ s.waiting \in Seq(Request)
    BY DEF Shell
  <2>3. p \in Seq(Request) /\ s.running \o p = s.running /\ p \o s.waiting = s.waiting
    <3> DEFINE q == s.running
               w == s.waiting
    <3> HIDE DEF q, w
    <3>1. q \in Seq(Request) /\ w \in Seq(Request)
      BY <2>2 DEF q, w
    <3>2. q \o <<>> = q /\ <<>> \o w = w
      BY <3>1
    <3> QED BY <3>2 DEF q, w
  <2>4. s = Data(s, s.running, s.waiting, s.tree, s.pool, s.req)
    BY DEF Shell, Data
  <2>5. num_free(s.pool) \in Nat
    BY FreeCount DEF Plain, Owned
  <2>6. Sum(Needs(s), p) = 0
    BY NeedsAre, SumGrows
  <2> HIDE DEF a, p
  <2>7. Admits(a, s)
    <3>1. Budgeted(a, s)
      BY <2>1, <2>5, <2>6 DEF Budgeted
    <3>2. s.running \o a.prefills = s.running /\ a.prefills \o s.waiting = s.waiting
      BY <2>1, <2>3
    <3> DEFINE run == s.running \o a.prefills
    <3> HIDE DEF run
    <3>3. a.s = Data(s, run, a.s.waiting, s.tree, s.pool, s.req)
      BY <2>1, <2>4, <3>2 DEF run
    <3>4. Moved(a, s)
      BY <2>1, <2>2, <2>3, <3>2, <3>3 DEF Moved, run
    <3> QED BY <2>1, <3>1, <3>4 DEF Admits
  <2> QED BY <1>2, <2>7 DEF a
<1>4. ASSUME NEW k \in 0 .. n - 1, k \in S PROVE k + 1 \in S
  <2>1. k \in Nat /\ k <= n /\ k + 1 \in 1 .. n /\ (k + 1) - 1 = k
    BY <1>1
  <2>2. OK(k) /\ f[k + 1] = AdmitHead(f[k])
    BY <1>2, <1>4, <2>1
  <2>3. Admits(f[k + 1], s) /\ (f[k + 1].prefills = <<>> => f[k].prefills = <<>> /\ Stopped(f[k]))
    BY <2>2, AdmitHeadPlain
  <2>4. ASSUME f[k + 1].prefills = <<>> PROVE Turned(s)
    <3>1. CASE k = 0
      <4>1. f[k] = Admission0(s) /\ Stopped(f[k])
        BY <1>2, <2>3, <2>4, <3>1
      <4>2. Admission0(s).over = FALSE /\ Admission0(s).s = s /\ Admission0(s).budget = num_free(s.pool)
        BY DEF Admission0, Turn5
      <4> QED BY <4>1, <4>2 DEF Stopped, Turned
    <3>2. CASE k > 0
      BY <2>2, <2>3, <2>4, <3>2
    <3> QED BY <2>1, <3>1, <3>2
  <2>5. OK(k + 1)
    BY <2>3, <2>4
  <2> QED BY <2>1, <2>5
<1>5. \A k \in 0 .. n : k \in S
  <2> HIDE DEF S
  <2> QED BY <1>1, <1>3, <1>4, BoundedInduction
<1>6. OK(n)
  <2> HIDE DEF OK
  <2> QED BY <1>1, <1>5
<1>7. n = 0 => Turned(s)
  <2>1. s.waiting \in Seq(Request)
    BY DEF Shell
  <2>2. n = 0 => s.waiting = <<>>
    BY <1>1, <2>1, EmptySeq
  <2> QED BY <2>2 DEF Turned
<1>8. n = 0 \/ n > 0
  BY <1>1
<1>9. Admits(f[n], s) /\ (f[n].prefills = <<>> => Turned(s))
  BY <1>6, <1>7, <1>8
<1>10. Admission(s) = f[n]
  BY <1>1, <1>2 DEF Admission
<1> QED BY <1>9, <1>10

-----------------------------------------------------------------------------
(* The arithmetic of blocks.                                               *)

\* BlocksNeeded rounds up.
LEMMA Ceil ==
  ASSUME NEW n \in Nat
  PROVE  /\ BlocksNeeded(n) \in Nat
         /\ n <= BlocksNeeded(n) * BlockSize
         /\ BlocksNeeded(n) * BlockSize < n + BlockSize
         /\ \A q \in Int : n <= q * BlockSize /\ q * BlockSize < n + BlockSize
                           => q = BlocksNeeded(n)
<1>1. BlockSize \in Nat /\ BlockSize >= 1
  BY BlockSizeAssumption
<1> DEFINE m == n + BlockSize - 1
<1>2. m \in Nat
  BY <1>1
<1>3. /\ m \div BlockSize \in Nat
      /\ (m \div BlockSize) * BlockSize <= m
      /\ m < (m \div BlockSize) * BlockSize + BlockSize
  <2> HIDE DEF m
  <2> QED BY <1>1, <1>2
<1>4. ASSUME NEW q \in Int, q * BlockSize <= m, m < q * BlockSize + BlockSize
      PROVE  q = m \div BlockSize
  <2> HIDE DEF m
  <2> QED BY <1>1, <1>2, <1>4
<1>5. \A q \in Int : q * BlockSize \in Int
  BY <1>1
<1>6. BlocksNeeded(n) = m \div BlockSize
  BY DEF BlocksNeeded
<1>7. /\ n <= BlocksNeeded(n) * BlockSize
      /\ BlocksNeeded(n) * BlockSize < n + BlockSize
  <2> DEFINE d == BlocksNeeded(n) * BlockSize
  <2>1. d \in Int /\ d <= m /\ m < d + BlockSize
    BY <1>1, <1>3, <1>6
  <2> HIDE DEF d
  <2> QED BY <1>1, <2>1 DEF d
<1>8. ASSUME NEW q \in Int, n <= q * BlockSize, q * BlockSize < n + BlockSize
      PROVE  q = BlocksNeeded(n)
  <2> DEFINE d == q * BlockSize
  <2>1. d \in Int /\ n <= d /\ d < n + BlockSize
    BY <1>5, <1>8
  <2> HIDE DEF d
  <2>2. d <= m /\ m < d + BlockSize
    BY <1>1, <2>1
  <2> QED BY <1>4, <1>6, <2>2 DEF d
<1> QED BY <1>3, <1>6, <1>7, <1>8

\* Multiples of BlockSize are apart by at least that much.
LEMMA Apart ==
  ASSUME NEW a \in Int, NEW b \in Int
  PROVE  /\ a * BlockSize \in Int
         /\ (a + b) * BlockSize = a * BlockSize + b * BlockSize
         /\ a < b => a * BlockSize + BlockSize <= b * BlockSize
BY BlockSizeAssumption

\* No tokens, no blocks; more tokens, no fewer blocks.
LEMMA CeilMonotone ==
  /\ BlocksNeeded(0) = 0
  /\ \A m, n \in Nat : m <= n => BlocksNeeded(m) <= BlocksNeeded(n)
  /\ \A n \in Nat \ {0} : BlocksNeeded(n) >= 1
<1>0. BlockSize \in Nat /\ BlockSize >= 1
  BY BlockSizeAssumption
<1>1. BlocksNeeded(0) = 0
  <2>1. 0 * BlockSize = 0
    BY <1>0
  <2> QED BY <1>0, <2>1, Ceil
<1>2. ASSUME NEW m \in Nat, NEW n \in Nat, m <= n PROVE BlocksNeeded(m) <= BlocksNeeded(n)
  <2> DEFINE a == BlocksNeeded(m)
             b == BlocksNeeded(n)
  <2>1. a \in Nat /\ b \in Nat /\ a * BlockSize < m + BlockSize /\ n <= b * BlockSize
    BY Ceil
  <2> HIDE DEF a, b
  <2>2. a * BlockSize \in Int /\ b * BlockSize \in Int
        /\ (b < a => b * BlockSize + BlockSize <= a * BlockSize)
    BY <2>1, Apart
  <2> QED BY <1>0, <1>2, <2>1, <2>2 DEF a, b
<1>3. ASSUME NEW n \in Nat \ {0} PROVE BlocksNeeded(n) >= 1
  <2>1. BlocksNeeded(n) \in Nat /\ n <= BlocksNeeded(n) * BlockSize
    BY Ceil
  <2>2. 0 * BlockSize = 0
    BY <1>0
  <2> QED BY <2>1, <2>2
<1> QED BY <1>1, <1>2, <1>3

\* The blocks of whole blocks and some more tokens.
\* One token more needs a block more when it is the first of a block, for which
\* the code tests that the cursor is one past a multiple of the block size.
LEMMA CeilNext ==
  ASSUME NEW n \in Nat, BlockSize > 1
  PROVE  BlocksNeeded(n + 1) = IF (n + 1) % BlockSize = 1 THEN BlocksNeeded(n) + 1 ELSE BlocksNeeded(n)
<1> DEFINE b == BlocksNeeded(n)
           d == b * BlockSize
           q == (n + 1) \div BlockSize
           e == q * BlockSize
<1>0. BlockSize \in Nat /\ BlockSize >= 1 /\ n + 1 \in Nat
  BY BlockSizeAssumption
<1>1. b \in Nat /\ d \in Int /\ n <= d /\ d < n + BlockSize
  <2>1. b \in Nat /\ n <= d /\ d < n + BlockSize
    BY Ceil
  <2> HIDE DEF b
  <2> QED BY <1>0, <2>1
<1>2. q \in Nat /\ e \in Int /\ e <= n + 1 /\ n + 1 < e + BlockSize
  <2>1. \A m \in Nat : m \div BlockSize \in Nat /\ (m \div BlockSize) * BlockSize <= m
                       /\ m < (m \div BlockSize) * BlockSize + BlockSize
                       /\ (m \div BlockSize) * BlockSize \in Int
    BY <1>0
  <2> QED BY <1>0, <2>1
<1>3. (n + 1) % BlockSize = (n + 1) - e
  <2>1. \A m \in Nat : (m % BlockSize) = m - ((m \div BlockSize) * BlockSize)
    BY <1>0
  <2> QED BY <1>0, <2>1
<1>4. (b + 1) * BlockSize = d + BlockSize
  BY <1>0, <1>1
<1>5. /\ b < q => d + BlockSize <= e
      /\ q < b => e + BlockSize <= d
      /\ q + 1 < b => (q + 1) * BlockSize + BlockSize <= d
      /\ (q + 1) * BlockSize = e + BlockSize
  BY <1>0, <1>1, <1>2, Apart
<1>6. b = q => d = e
  OBVIOUS
<1>7. \A c \in Int : n + 1 <= c * BlockSize /\ c * BlockSize < (n + 1) + BlockSize
                     => c = BlocksNeeded(n + 1)
  BY <1>0, Ceil
<1>8. b + 1 \in Int /\ b \in Int
  BY <1>1
<1> HIDE DEF b, d, q, e
<1>9. CASE n = d
  <2>1. b = q
    BY <1>0, <1>1, <1>2, <1>5, <1>9
  <2>2. (n + 1) % BlockSize = 1
    BY <1>0, <1>1, <1>3, <1>6, <1>9, <2>1
  <2>3. n + 1 <= (b + 1) * BlockSize /\ (b + 1) * BlockSize < (n + 1) + BlockSize
    BY <1>0, <1>1, <1>4, <1>9
  <2>4. b + 1 = BlocksNeeded(n + 1)
    BY <1>7, <1>8, <2>3
  <2> QED BY <2>2, <2>4 DEF b
<1>10. CASE n < d
  <2>1. n + 1 <= b * BlockSize /\ b * BlockSize < (n + 1) + BlockSize
    BY <1>0, <1>1, <1>10 DEF d
  <2>2. b = BlocksNeeded(n + 1)
    BY <1>7, <1>8, <2>1
  <2>3. (n + 1) - e # 1
    <3> SUFFICES ASSUME n = e PROVE FALSE
      BY <1>2
    <3>1. q < b
      BY <1>1, <1>2, <1>5, <1>6, <1>0, <1>10
    <3> QED BY <1>0, <1>1, <1>2, <1>5, <1>10, <3>1
  <2> QED BY <1>3, <2>2, <2>3 DEF b
<1> QED BY <1>1, <1>9, <1>10

-----------------------------------------------------------------------------
(* prepare_meta without the prefix tree.                                   *)

\* As many blocks as the tokens need, but for the block size of one token,
\* where a decode takes none.
Fits(k) == BlockSize > 1 => Len(k.table) = BlocksNeeded(k.cursor)

\* What prepare_meta makes of a cache, when it answers the cache g: the blocks
\* it had stay where they were, and the cursor is past the new tokens.
Stretched(k, g, more) ==
  /\ \E ids \in Table : g.table = k.table \o ids
  /\ g.cursor = k.cursor + more
  /\ BlockSize = 1 /\ k.cursor # 0 => g.table = k.table
  /\ Fits(k) => Fits(g)

\* The cache keeps its blocks, and they are the request's.
LEMMA KeptOwned ==
  ASSUME NEW p, NEW T, NEW L, Owned(p, T, L), NEW r \in Request, NEW g, g.table = T[r]
  PROVE  Owned(p, Retabled(T, r, g.table), L)
<1>1. Retabled(T, r, T[r]) = T
  BY OwnedSame
<1> QED BY <1>1

\* A decode: the cursor moves, and a block is taken for the first token of one.
LEMMA DecodePlain ==
  ASSUME NEW p, NEW T, NEW L, Owned(p, T, L), NEW r \in Request, NEW k, Bare(k), k.table = T[r]
  PROVE  LET g == DecodeSlot(k, p) IN
         /\ g.ok \in BOOLEAN /\ Bare(g.kv) /\ Owned(g.pool, Retabled(T, r, g.kv.table), L)
         /\ g.ok => Stretched(k, g.kv, 1)
<1> DEFINE a == Alloc(p, 1)
           m == [k EXCEPT !.cursor = @ + 1]
           h == Grow(m, a.ids)
           g == DecodeSlot(k, p)
<1>1. /\ k = [cursor |-> k.cursor, table |-> k.table, device |-> k.device, adopted |-> FALSE]
      /\ k.cursor \in Nat /\ k.table \in Table
  BY DEF Bare
<1>2. /\ m = [cursor |-> k.cursor + 1, table |-> k.table, device |-> k.device, adopted |-> FALSE]
      /\ k.cursor + 1 \in Nat /\ k.cursor + 1 # 0
  <2>1. k.cursor + 1 \in Nat /\ k.cursor + 1 # 0
    BY <1>1
  <2> DEFINE c == k.cursor
             t == k.table
             e == k.device
             x == [cursor |-> c, table |-> t, device |-> e, adopted |-> FALSE]
  <2>2. k = x
    BY <1>1
  <2>3. m = [x EXCEPT !.cursor = @ + 1]
    BY <2>2
  <2> HIDE DEF c, t, e, m
  <2>4. m = [cursor |-> c + 1, table |-> t, device |-> e, adopted |-> FALSE]
    BY <2>3
  <2> QED BY <2>1, <2>4 DEF c, t, e
<1>3. g = IF m.cursor % BlockSize # 1 THEN Stored(m, p)
          ELSE IF a.ok THEN Stored(h, a.pool) ELSE Refused(m, p)
  <2>1. a.ok \/ a.pool = p
    BY AllocRefused
  <2> QED BY <2>1 DEF DecodeSlot
<1>4. h = [m EXCEPT !.table = @ \o a.ids, !.device = CopyTo(@, Len(m.table), a.ids)]
  BY DEF Grow
<1> HIDE DEF g, h, m, a
<1>5. /\ Bare(m) /\ m.cursor = k.cursor + 1 /\ m.table = k.table
      /\ Owned(p, Retabled(T, r, m.table), L)
  <2>1. m.cursor = k.cursor + 1 /\ m.table = k.table
    BY <1>2
  <2>2. Bare(m)
    BY <1>1, <1>2, <2>1 DEF Bare
  <2> QED BY <2>1, <2>2, KeptOwned
<1>6. BlockSize > 1 =>
        BlocksNeeded(k.cursor + 1)
        = IF (k.cursor + 1) % BlockSize = 1 THEN BlocksNeeded(k.cursor) + 1 ELSE BlocksNeeded(k.cursor)
  BY <1>1, CeilNext
<1>7. k.table \in Seq(Block)
  BY <1>1 DEF Table
<1>8. CASE m.cursor % BlockSize # 1
  <2>1. g = Stored(m, p)
    BY <1>3, <1>8
  <2>2. g.ok = TRUE /\ g.kv = m /\ g.pool = p
    BY <2>1 DEF Stored
  <2>3. k.table = k.table \o <<>>
    BY <1>7
  <2>4. Fits(k) => Fits(m)
    BY <1>5, <1>6, <1>8 DEF Fits
  <2>5. Stretched(k, m, 1)
    BY <1>5, <2>3, <2>4, NoBlocks DEF Stretched
  <2> QED BY <1>5, <2>2, <2>5 DEF g
<1>9. CASE m.cursor % BlockSize = 1 /\ a.ok
  <2>1. g = Stored(h, a.pool)
    BY <1>3, <1>9
  <2>2. g.ok = TRUE /\ g.kv = h /\ g.pool = a.pool
    BY <2>1 DEF Stored
  <2>3. /\ Owned(a.pool, Retabled(T, r, k.table \o a.ids), L) /\ k.table \o a.ids \in Table
        /\ a.ids \in Table /\ Len(a.ids) = 1
    BY <1>9, OwnedTaken DEF a
  <2>4. /\ h = [cursor |-> h.cursor, table |-> h.table, device |-> h.device, adopted |-> FALSE]
        /\ h.cursor = k.cursor + 1 /\ h.table = k.table \o a.ids
    BY <1>2, <1>4
  <2>5. Bare(h)
    BY <1>2, <2>3, <2>4 DEF Bare
  <2>6. Len(k.table \o a.ids) = Len(k.table) + 1 /\ Len(k.table) \in Nat
    <3>1. a.ids \in Seq(Block)
      BY <2>3 DEF Table
    <3>2. Len(k.table \o a.ids) = Len(k.table) + Len(a.ids)
      BY <1>7, <3>1, ConcatProperties
    <3> QED BY <1>7, <2>3, <3>2
  <2>7. Fits(k) => Fits(h)
    BY <1>5, <1>6, <1>9, <2>4, <2>6 DEF Fits
  <2>10. BlockSize # 1
    <3> DEFINE c == m.cursor
    <3>1. c \in Nat /\ c % BlockSize = 1
      BY <1>2, <1>9
    <3> HIDE DEF c
    <3>2. c % 1 = 0
      BY <3>1
    <3> QED BY <3>1, <3>2
  <2>8. Stretched(k, h, 1)
    BY <2>3, <2>4, <2>7, <2>10 DEF Stretched
  <2>9. Owned(a.pool, Retabled(T, r, h.table), L)
    BY <2>3, <2>4
  <2> QED BY <2>2, <2>5, <2>8, <2>9 DEF g
<1>10. CASE m.cursor % BlockSize = 1 /\ ~a.ok
  <2>1. g = Refused(m, p)
    BY <1>3, <1>10
  <2>2. g.ok = FALSE /\ g.kv = m /\ g.pool = p
    BY <2>1 DEF Refused
  <2> QED BY <1>5, <2>2 DEF g
<1> QED BY <1>8, <1>9, <1>10

\* A prefill: the blocks of all the tokens, on a fresh cache.
LEMMA PrefillPlain ==
  ASSUME NEW p, NEW T, NEW L, Owned(p, T, L), NEW r \in Request, NEW k, Bare(k), k.table = T[r],
         NEW len, k.cursor = 0 => len \in Nat \ {0}
  PROVE  LET g == PrefillSlots(k, p, len) IN
         /\ g.ok \in BOOLEAN /\ Bare(g.kv) /\ Owned(g.pool, Retabled(T, r, g.kv.table), L)
         /\ g.ok => Stretched(k, g.kv, len)
<1> DEFINE n == BlocksNeeded(len)
           a == Alloc(p, n)
           f == [k EXCEPT !.cursor = len, !.table = a.ids, !.device = NewDevice(a.ids)]
           g == PrefillSlots(k, p, len)
<1>1. /\ k = [cursor |-> k.cursor, table |-> k.table, device |-> k.device, adopted |-> FALSE]
      /\ k.cursor \in Nat /\ k.table \in Table /\ (k.cursor = 0 => k.table = <<>>)
  BY DEF Bare
<1>2. k.adopted = FALSE
  BY <1>1
<1>3. CASE k.cursor > 0 \/ ~a.ok
  <2>1. g = Refused(k, p)
    BY <1>2, <1>3 DEF PrefillSlots
  <2> HIDE DEF g
  <2>2. g.ok = FALSE /\ g.kv = k /\ g.pool = p
    BY <2>1 DEF Refused
  <2> QED BY <2>2, KeptOwned DEF g
<1>4. CASE ~(k.cursor > 0 \/ ~a.ok)
  <2>1. k.cursor = 0 /\ a.ok /\ k.table = <<>> /\ len \in Nat \ {0}
    BY <1>1, <1>4
  <2>2. g = Stored(f, a.pool)
    BY <1>2, <2>1 DEF PrefillSlots
  <2>3. n \in Nat
    BY <2>1, Ceil
  <2> HIDE DEF n
  <2>4. Owned(a.pool, Retabled(T, r, k.table \o a.ids), L) /\ a.ids \in Table /\ Len(a.ids) = n
    BY <2>1, <2>3, OwnedTaken
  <2> HIDE DEF a
  <2>5. k.table \o a.ids = a.ids
    <3>1. a.ids \in Seq(Block)
      BY <2>4 DEF Table
    <3> QED BY <2>1, <3>1
  <2>6. /\ f = [cursor |-> f.cursor, table |-> f.table, device |-> f.device, adopted |-> FALSE]
        /\ f.cursor = len /\ f.table = a.ids
    <3> DEFINE c == k.cursor
               t == k.table
               e == k.device
               d == NewDevice(a.ids)
               x == [cursor |-> c, table |-> t, device |-> e, adopted |-> FALSE]
    <3>1. k = x
      BY <1>1
    <3>2. f = [x EXCEPT !.cursor = len, !.table = a.ids, !.device = d]
      BY <3>1
    <3> HIDE DEF c, t, e, d, f
    <3>3. f = [cursor |-> len, table |-> a.ids, device |-> d, adopted |-> FALSE]
      BY <3>2
    <3> QED BY <3>3
  <2> HIDE DEF f, g
  <2>7. g.ok = TRUE /\ g.kv = f /\ g.pool = a.pool
    BY <2>2 DEF Stored
  <2>8. Bare(f)
    BY <2>1, <2>4, <2>6 DEF Bare
  <2>9. Fits(f)
    BY <2>4, <2>6 DEF Fits, n
  <2>10. f.cursor = k.cursor + len
    BY <2>1, <2>6
  <2>11. Stretched(k, f, len)
    BY <2>1, <2>4, <2>5, <2>6, <2>9, <2>10 DEF Stretched
  <2>12. Owned(a.pool, Retabled(T, r, f.table), L)
    BY <2>4, <2>5, <2>6
  <2> QED BY <2>7, <2>8, <2>11, <2>12 DEF g
<1> QED BY <1>3, <1>4

\* prepare_meta at layer 0 of a forward pass.
LEMMA PrepareMetaPlain ==
  ASSUME NEW p, NEW T, NEW L, Owned(p, T, L), NEW r \in Request, NEW k, Bare(k), k.table = T[r],
         NEW len, NEW is_decode \in BOOLEAN, is_decode => len = 1,
         ~is_decode /\ k.cursor = 0 => len \in Nat \ {0}
  PROVE  LET g == PrepareMeta(k, p, len, is_decode) IN
         /\ g.ok \in BOOLEAN /\ Bare(g.kv) /\ Owned(g.pool, Retabled(T, r, g.kv.table), L)
         /\ g.ok => Stretched(k, g.kv, len)
<1> DEFINE g == PrepareMeta(k, p, len, is_decode)
           refuses == len >= MaxSeqLen \/ (is_decode /\ (~HasDevice(k) \/ k.cursor >= MaxSeqLen))
<1>1. g = IF refuses THEN Refused(k, p)
          ELSE IF is_decode THEN DecodeSlot(k, p) ELSE PrefillSlots(k, p, len)
  BY DEF PrepareMeta
<1> HIDE DEF refuses, g
<1>2. CASE refuses
  <2>1. g = Refused(k, p)
    BY <1>1, <1>2
  <2>2. g.ok = FALSE /\ g.kv = k /\ g.pool = p
    BY <2>1 DEF Refused
  <2> QED BY <2>2, KeptOwned DEF g
<1>3. CASE ~refuses /\ is_decode
  <2>1. g = DecodeSlot(k, p) /\ len = 1
    BY <1>1, <1>3
  <2> QED BY <2>1, DecodePlain DEF g
<1>4. CASE ~refuses /\ ~is_decode
  <2>1. g = PrefillSlots(k, p, len) /\ (k.cursor = 0 => len \in Nat \ {0})
    BY <1>1, <1>4
  <2> QED BY <2>1, PrefillPlain DEF g
<1> QED BY <1>2, <1>3, <1>4

\* M is L, or L with one more.
OneLost(L, M) == M = L \/ \E x : M = L \cup {x}

\* prepare_meta broken at its copy: the blocks of a prefill are the request's,
\* the block of a decode is nobody's.
LEMMA MetaBroken ==
  ASSUME NEW p, NEW T, NEW L, Owned(p, T, L), NEW r \in Request, NEW k, Bare(k), k.table = T[r],
         NEW len, NEW is_decode \in BOOLEAN, is_decode => len = 1,
         ~is_decode /\ k.cursor = 0 => len \in Nat \ {0},
         CopiesTable(k, PrepareMeta(k, p, len, is_decode))
  PROVE  LET g == PrepareMeta(k, p, len, is_decode)
             h == CopyBroken(k, g, is_decode)
             M == L \cup BlockLost(g, is_decode)
         IN  /\ Bare(h) /\ Owned(g.pool, Retabled(T, r, h.table), M)
             /\ OneLost(L, M)
<1> DEFINE g    == PrepareMeta(k, p, len, is_decode)
           h    == CopyBroken(k, g, is_decode)
           gone == BlockLost(g, is_decode)
           refuses == len >= MaxSeqLen \/ (is_decode /\ (~HasDevice(k) \/ k.cursor >= MaxSeqLen))
<1>1. g = IF refuses THEN Refused(k, p)
          ELSE IF is_decode THEN DecodeSlot(k, p) ELSE PrefillSlots(k, p, len)
  BY DEF PrepareMeta
<1>2. /\ g.ok \in BOOLEAN /\ Bare(g.kv) /\ Owned(g.pool, Retabled(T, r, g.kv.table), L)
      /\ g.ok /\ g.kv.table # k.table
  BY PrepareMetaPlain DEF CopiesTable
<1>3. /\ h = [g.kv EXCEPT !.table = IF is_decode THEN k.table ELSE @, !.device = k.device]
      /\ gone = IF is_decode THEN {Last(g.kv.table)} ELSE {}
  BY DEF CopyBroken, BlockLost
<1> HIDE DEF refuses, g, h, gone
<1>4. CASE ~is_decode
  <2> DEFINE c == g.kv.cursor
             t == g.kv.table
             e == g.kv.device
             x == [cursor |-> c, table |-> t, device |-> e, adopted |-> FALSE]
             y == k.device
  <2>1. g.kv = x /\ c \in Nat /\ t \in Table /\ (c = 0 => t = <<>>)
    BY <1>2 DEF Bare
  <2>2. h = [x EXCEPT !.table = IF is_decode THEN k.table ELSE @, !.device = y] /\ gone = {}
    BY <1>3, <1>4, <2>1
  <2> HIDE DEF c, t, e, y
  <2>3. h = [cursor |-> c, table |-> t, device |-> y, adopted |-> FALSE]
    BY <1>4, <2>2
  <2>4. Bare(h) /\ h.table = t
    BY <2>1, <2>3 DEF Bare
  <2>5. L \cup gone = L
    BY <2>2
  <2>6. Owned(g.pool, Retabled(T, r, h.table), L \cup gone)
    BY <1>2, <2>4, <2>5 DEF t
  <2> QED BY <2>4, <2>5, <2>6 DEF g, h, gone, OneLost
<1>5. CASE is_decode
  <2> DEFINE a == Alloc(p, 1)
             m == [k EXCEPT !.cursor = @ + 1]
  <2>1. g = DecodeSlot(k, p)
    <3>1. CASE refuses
      <4>1. g = Refused(k, p)
        BY <1>1, <3>1
      <4> QED BY <1>2, <4>1 DEF Refused
    <3> QED BY <1>1, <1>5, <3>1
  <2>2. g = IF m.cursor % BlockSize # 1 THEN Stored(m, p)
            ELSE IF a.ok THEN Stored(Grow(m, a.ids), a.pool) ELSE Refused(m, a.pool)
    <3>1. a.ok \/ a.pool = p
      BY AllocRefused
    <3> QED BY <2>1, <3>1 DEF DecodeSlot
  <2> DEFINE c == k.cursor
             t == k.table
             e == k.device
             x == [cursor |-> c, table |-> t, device |-> e, adopted |-> FALSE]
  <2>3. k = x /\ c \in Nat /\ t \in Table
    BY DEF Bare
  <2>4. m = [cursor |-> c + 1, table |-> t, device |-> e, adopted |-> FALSE]
    <3>1. m = [x EXCEPT !.cursor = @ + 1]
      BY <2>3
    <3> HIDE DEF c, t, e, m
    <3> QED BY <3>1
  <2> DEFINE w == CopyTo(e, Len(t), a.ids)
  <2>5. Grow(m, a.ids) = [m EXCEPT !.table = @ \o a.ids, !.device = CopyTo(@, Len(m.table), a.ids)]
    BY DEF Grow
  <2> HIDE DEF m, a, c, t, e
  <2>6. Grow(m, a.ids) = [cursor |-> c + 1, table |-> t \o a.ids, device |-> w, adopted |-> FALSE]
    BY <2>4, <2>5
  <2>7. a.ok /\ g = Stored(Grow(m, a.ids), a.pool)
    <3>1. CASE m.cursor % BlockSize # 1
      <4>1. g = Stored(m, p)
        BY <2>2, <3>1
      <4>2. g.kv.table = t
        BY <2>4, <4>1 DEF Stored
      <4> QED BY <1>2, <4>2 DEF t
    <3>2. CASE m.cursor % BlockSize = 1 /\ ~a.ok
      <4>1. g = Refused(m, a.pool)
        BY <2>2, <3>2
      <4> QED BY <1>2, <4>1 DEF Refused
    <3> QED BY <2>2, <3>1, <3>2
  <2> DEFINE y == a.ids[1]
             z == Grow(m, a.ids)
  <2>8. a.ids \in Table /\ Len(a.ids) = 1 /\ Owned(a.pool, T, L \cup {y})
    BY <2>7, OwnedLost DEF a
  <2> HIDE DEF w, z
  <2>9. g.kv = z /\ g.pool = a.pool
    BY <2>7 DEF Stored, z
  <2>10. z = [cursor |-> c + 1, table |-> t \o a.ids, device |-> w, adopted |-> FALSE]
    BY <2>6 DEF z
  <2>11. Last(z.table) = y
    <3>1. ASSUME NEW f \in Seq(Block), NEW q \in Seq(Block), Len(q) = 1
          PROVE  Last(f \o q) = q[1]
      <4>1. /\ Len(f \o q) = Len(f) + Len(q) /\ Len(f) \in Nat
            /\ \A i \in 1 .. Len(f) + Len(q) : (f \o q)[i] = IF i <= Len(f) THEN f[i] ELSE q[i - Len(f)]
        BY ConcatProperties
      <4> DEFINE n == Len(f)
      <4>2. n \in Nat /\ n + 1 \in 1 .. n + Len(q) /\ ~(n + 1 <= n) /\ (n + 1) - n = 1
        BY <3>1, <4>1
      <4> HIDE DEF n
      <4>3. Len(f \o q) = n + 1
        BY <3>1, <4>1 DEF n
      <4>4. (f \o q)[n + 1] = q[1]
        BY <4>1, <4>2 DEF n
      <4> QED BY <4>3, <4>4 DEF Last
    <3>2. t \in Seq(Block) /\ a.ids \in Seq(Block)
      BY <2>3, <2>8 DEF Table
    <3> QED BY <2>8, <2>10, <3>1, <3>2
  <2>12. gone = {y}
    BY <1>3, <1>5, <2>9, <2>11
  <2>13. h = [cursor |-> c + 1, table |-> t, device |-> e, adopted |-> FALSE]
    <3>1. h = [z EXCEPT !.table = IF is_decode THEN t ELSE @, !.device = e]
      BY <1>3, <2>9 DEF t, e
    <3> QED BY <1>5, <2>10, <3>1
  <2>14. Bare(h) /\ h.table = t
    <3>1. c + 1 \in Nat /\ c + 1 # 0
      BY <2>3
    <3> QED BY <2>3, <2>13, <3>1 DEF Bare
  <2>15. Owned(a.pool, Retabled(T, r, h.table), L \cup {y})
    BY <2>8, <2>14, KeptOwned DEF t
  <2> HIDE DEF y
  <2> QED BY <2>9, <2>12, <2>14, <2>15 DEF g, h, gone, OneLost
<1> QED BY <1>4, <1>5

\* A member of the batch, prepared.
LEMMA PreparePlainOne ==
  ASSUME NEW u, u = [s |-> u.s, i |-> u.i, ok |-> u.ok], u.ok \in BOOLEAN, Shell(u.s), Plain(u.s, lost),
         batch.is_decode \in BOOLEAN, NEW r \in Request, r = batch.members[u.i]
  PROVE  LET z == PrepareTurn(u) IN
         /\ z.ok \in BOOLEAN /\ Plain(z.s, lost) /\ (~u.ok => z = u)
         /\ \A q \in Request : q # r => SameHold(z.s.req[q], u.s.req[q])
         /\ z.s.req[r].gen = u.s.req[r].gen
         /\ z.ok => /\ u.ok /\ z.i = u.i + 1
                    /\ Stretched(u.s.req[r].kv, z.s.req[r].kv, NewTokens(u.s, r))
<1> DEFINE s   == u.s
           len == NewTokens(s, r)
           p   == PrepareMeta(s.req[r].kv, s.pool, len, batch.is_decode)
           d   == [s EXCEPT !.req[r].kv = p.kv, !.pool = p.pool]
           z   == PrepareTurn(u)
<1>1. CASE ~u.ok
  <2>1. z = u
    BY <1>1 DEF PrepareTurn
  <2> QED BY <1>1, <2>1 DEF SameHold
<1>2. CASE u.ok
  <2>1. z = [s |-> d, i |-> u.i + 1, ok |-> p.ok]
    BY <1>2 DEF PrepareTurn
  <2>2. d = [s EXCEPT !.req[r].kv = p.kv, !.pool = p.pool]
    OBVIOUS
  <2>3. /\ Owned(s.pool, Tables(s), lost) /\ s.req[r].kv.table = Tables(s)[r] /\ Bare(s.req[r].kv)
        /\ s.tree = Tree0 /\ s.req[r].node = NoParent /\ Sequence(s.req[r].gen)
        /\ \A q \in Request : s.req[q].state \in Stage
    BY DEF Plain, Tables
  <2>4. Len(Tokens(s, r)) \in Nat \ {0}
    BY <2>3, TokensAre
  <2>5. /\ batch.is_decode => len = 1
        /\ ~batch.is_decode /\ s.req[r].kv.cursor = 0 => len \in Nat \ {0}
    BY <2>4 DEF NewTokens
  <2> HIDE DEF s, len
  <2>6. /\ p.ok \in BOOLEAN /\ Bare(p.kv) /\ Owned(p.pool, Retabled(Tables(s), r, p.kv.table), lost)
        /\ p.ok => Stretched(s.req[r].kv, p.kv, len)
    <3> DEFINE T == Tables(s)
               k == s.req[r].kv
               l == s.pool
               dec == batch.is_decode
    <3>1. /\ Owned(l, T, lost) /\ k.table = T[r] /\ Bare(k) /\ dec \in BOOLEAN
          /\ dec => len = 1
          /\ ~dec /\ k.cursor = 0 => len \in Nat \ {0}
      BY <2>3, <2>5
    <3>2. p = PrepareMeta(k, l, len, dec)
      OBVIOUS
    <3> HIDE DEF T, k, l, dec, p
    <3>3. /\ p.ok \in BOOLEAN /\ Bare(p.kv) /\ Owned(p.pool, Retabled(T, r, p.kv.table), lost)
          /\ p.ok => Stretched(k, p.kv, len)
      BY <3>1, <3>2, PrepareMetaPlain
    <3> QED BY <3>3 DEF T, k
  <2> HIDE DEF d, p, z
  <2>7. z.s = d /\ z.i = u.i + 1 /\ z.ok = p.ok
    BY <2>1
  <2>8. Shell(s)
    BY DEF s
  <2> DEFINE old == s.req[r]
             new == d.req[r]
  <2>9. /\ d.req = [q \in Request |-> IF q = r THEN new ELSE s.req[q]]
        /\ new = [old EXCEPT !.kv = p.kv]
    BY <2>2, <2>8 DEF Shell
  <2>10. old = [gen |-> old.gen, kv |-> old.kv, node |-> old.node, state |-> old.state]
    BY <2>8 DEF Shell, Entry
  <2>11. d.pool = p.pool /\ d.tree = s.tree
    BY <2>2, <2>8 DEF Shell
  <2>12. new.kv = p.kv /\ new.node = old.node /\ new.gen = old.gen /\ new.state = old.state
    <3> HIDE DEF old, new
    <3> QED BY <2>9, <2>10
  <2>13. \A q \in Request : q # r => SameHold(d.req[q], s.req[q])
    <3> HIDE DEF new
    <3> QED BY <2>9 DEF SameHold
  <2>14. Plain(d, lost)
    <3>1. Plain(s, lost)
      BY DEF s
    <3>2. \A q \in Request : d.req[q].state \in Stage
      <4> HIDE DEF new
      <4> QED BY <2>3, <2>9, <2>12
    <3> QED BY <2>3, <2>6, <2>11, <2>12, <2>13, <3>1, <3>2, PlainGiven
  <2> QED BY <1>2, <2>6, <2>7, <2>12, <2>13, <2>14 DEF z, s, len
<1> QED BY <1>1, <1>2

\* What prepare_meta of the first j members of a batch came to: each has room
\* for its new tokens, and nobody else's cache was touched.
Prepared(s, j) ==
  \A r \in Request :
    /\ s.req[r].gen = sched.req[r].gen
    /\ IF \E i \in 1 .. j : batch.members[i] = r
       THEN Stretched(sched.req[r].kv, s.req[r].kv, NewTokens(sched, r))
       ELSE s.req[r].kv = sched.req[r].kv

\* However far it came, and if nothing threw.
LEMMA PreparePlain ==
  ASSUME NEW arr, Once(arr), Strong(sched, arr), Plain(sched, lost), Members(batch, sched),
         NoDuplicates(batch.members), batch.is_decode \in BOOLEAN, NEW n \in 0 .. Len(batch.members)
  PROVE  /\ Plain(PrepareBatch(n).s, lost) /\ PrepareBatch(n).ok \in BOOLEAN
         /\ \A r \in Request : PrepareBatch(n).s.req[r].gen = sched.req[r].gen
         /\ PrepareBatch(n).ok => Prepared(PrepareBatch(n).s, n)
<1>1. n \in Nat /\ Len(batch.members) \in Nat /\ n <= Len(batch.members)
  BY DEF Members
<1>2. PICK f : /\ f[0] = [s |-> sched, i |-> 1, ok |-> TRUE]
               /\ \A i \in 1 .. n : f[i] = PrepareTurn(f[i - 1])
               /\ PrepareBatch(n) = f[n]
  BY <1>1, PrepareRuns
<1> DEFINE OK(k) == /\ f[k] = [s |-> f[k].s, i |-> f[k].i, ok |-> f[k].ok]
                    /\ f[k].i \in 1 .. k + 1 /\ f[k].ok \in BOOLEAN
                    /\ Strong(f[k].s, arr) /\ Plain(f[k].s, lost)
                    /\ f[k].s.running = sched.running /\ f[k].s.waiting = sched.waiting
                    /\ \A r \in Request : f[k].s.req[r].gen = sched.req[r].gen
                    /\ f[k].ok => f[k].i = k + 1 /\ Prepared(f[k].s, k)
           S == {k \in Nat : k <= n => OK(k)}
<1>3. 0 \in S
  <2>1. f[0].s = sched /\ f[0].i = 1 /\ f[0].ok = TRUE /\ f[0] = [s |-> f[0].s, i |-> f[0].i, ok |-> f[0].ok]
    BY <1>2
  <2>2. Prepared(sched, 0)
    BY DEF Prepared
  <2> DEFINE v == f[0]
  <2>3. v = [s |-> v.s, i |-> v.i, ok |-> v.ok] /\ v.s = sched /\ v.i = 0 + 1 /\ v.ok = TRUE
    BY <2>1
  <2> HIDE DEF v
  <2>4. v.i \in 1 .. 0 + 1 /\ v.ok \in BOOLEAN
    <3>1. v.i = 0 + 1 /\ 0 + 1 \in 1 .. 0 + 1
      BY <2>3
    <3>2. v.ok \in BOOLEAN
      <4>1. v.ok = TRUE
        BY <2>3
      <4> QED BY <4>1
    <3> QED BY <3>1, <3>2
  <2>5. Strong(v.s, arr) /\ Plain(v.s, lost) /\ Prepared(v.s, 0)
    BY <2>2, <2>3
  <2>6. OK(0)
    BY <2>3, <2>4, <2>5 DEF v
  <2> QED BY <2>6
<1>4. ASSUME NEW k \in 0 .. n - 1, k \in S PROVE k + 1 \in S
  <2>1. k \in Nat /\ k <= n /\ k + 1 \in 1 .. n /\ (k + 1) - 1 = k /\ k + 1 <= n
    BY <1>1
  <2>2. OK(k)
    BY <1>4, <2>1
  <2> DEFINE u == f[k]
             r == batch.members[u.i]
             z == f[k + 1]
  <2>3. z = PrepareTurn(u)
    BY <1>2, <2>1
  <2>4. r \in ToSet(u.s.running) /\ r \in Request
    <3>1. u.i \in 1 .. Len(batch.members)
      BY <1>1, <2>1, <2>2
    <3>2. r \in ToSet(batch.members)
      BY <3>1 DEF Members, ToSet
    <3>3. r \in Request
      BY <3>1 DEF Members
    <3> QED BY <2>2, <3>2, <3>3 DEF Members
  <2>5. /\ u = [s |-> u.s, i |-> u.i, ok |-> u.ok] /\ Strong(u.s, arr) /\ r = batch.members[u.i]
        /\ u.i \in 1 .. k + 1 /\ u.s.running = sched.running /\ u.s.waiting = sched.waiting
        /\ u.ok \in BOOLEAN /\ Plain(u.s, lost) /\ \A q \in Request : u.s.req[q].gen = sched.req[q].gen
        /\ u.ok => u.i = k + 1 /\ Prepared(u.s, k)
    BY <2>2
  <2> HIDE DEF u, r, z
  <2>6. /\ z = [s |-> z.s, i |-> z.i, ok |-> z.ok]
        /\ z.i \in {u.i, u.i + 1}
        /\ Strong(z.s, arr)
        /\ z.s.running = u.s.running /\ z.s.waiting = u.s.waiting
    BY <2>3, <2>4, <2>5, PrepareOne
  <2>7. z.i \in 1 .. (k + 1) + 1
    BY <2>1, <2>5, <2>6
  <2>8. /\ z.ok \in BOOLEAN /\ Plain(z.s, lost) /\ (~u.ok => z = u)
        /\ \A q \in Request : q # r => SameHold(z.s.req[q], u.s.req[q])
        /\ z.s.req[r].gen = u.s.req[r].gen
        /\ z.ok => /\ u.ok /\ z.i = u.i + 1
                   /\ Stretched(u.s.req[r].kv, z.s.req[r].kv, NewTokens(u.s, r))
    <3>1. Shell(u.s)
      BY <2>5 DEF Strong, Weak
    <3> QED BY <2>3, <2>4, <2>5, <3>1, PreparePlainOne
  <2>9. \A q \in Request : z.s.req[q].gen = sched.req[q].gen
    BY <2>4, <2>5, <2>8 DEF SameHold
  <2>10. ASSUME z.ok PROVE z.i = k + 1 + 1 /\ Prepared(z.s, k + 1)
    <3>1. u.i = k + 1 /\ Prepared(u.s, k) /\ z.i = k + 1 + 1 /\ r = batch.members[k + 1]
      BY <2>5, <2>8, <2>10
    <3>2. ~ \E i \in 1 .. k : batch.members[i] = r
      BY <1>1, <2>1, <3>1 DEF NoDuplicates
    <3>3. u.s.req[r].kv = sched.req[r].kv
      BY <2>4, <3>1, <3>2 DEF Prepared
    <3>4. NewTokens(u.s, r) = NewTokens(sched, r)
      BY <2>4, <2>5, <3>3 DEF NewTokens, Tokens
    <3>5. Stretched(sched.req[r].kv, z.s.req[r].kv, NewTokens(sched, r))
      BY <2>8, <2>10, <3>3, <3>4
    <3>6. \A q : (\E i \in 1 .. k + 1 : batch.members[i] = q)
                 <=> q = r \/ \E i \in 1 .. k : batch.members[i] = q
      BY <2>1, <3>1
    <3>7. \A q \in Request : q # r => z.s.req[q].kv = u.s.req[q].kv
      BY <2>8 DEF SameHold
    <3> QED BY <2>9, <3>1, <3>5, <3>6, <3>7 DEF Prepared
  <2>11. OK(k + 1)
    BY <2>5, <2>6, <2>7, <2>8, <2>9, <2>10 DEF z
  <2> QED BY <2>1, <2>11
<1>5. \A k \in 0 .. n : k \in S
  <2> HIDE DEF S
  <2> QED BY <1>1, <1>3, <1>4, BoundedInduction
<1>6. OK(n)
  <2> HIDE DEF OK
  <2> QED BY <1>1, <1>5
<1> DEFINE z == f[n]
<1>7. /\ Plain(z.s, lost) /\ z.ok \in BOOLEAN /\ \A r \in Request : z.s.req[r].gen = sched.req[r].gen
      /\ z.ok => Prepared(z.s, n)
  BY <1>6
<1>8. PrepareBatch(n) = z
  BY <1>2
<1> HIDE DEF z
<1> QED BY <1>7, <1>8
\* A member of the batch whose prepare_meta breaks at its copy.
LEMMA BrokenPlain ==
  ASSUME NEW s, Plain(s, lost), Shell(s), NEW r \in Request, batch.is_decode \in BOOLEAN, MetaBreaks(s, r)
  PROVE  /\ Plain(sched', lost') /\ OneLost(lost, lost')
         /\ \A q \in Request : sched'.req[q].gen = s.req[q].gen
<1> DEFINE k   == s.req[r].kv
           l   == s.pool
           len == NewTokens(s, r)
           dec == batch.is_decode
           p   == PrepareMeta(k, l, len, dec)
           h   == CopyBroken(k, p, dec)
           M   == lost \cup BlockLost(p, dec)
           d   == [s EXCEPT !.req[r].kv = h, !.pool = p.pool]
           T   == Tables(s)
<1>1. CopiesTable(k, p) /\ sched' = d /\ lost' = M
  BY DEF MetaBreaks
<1>2. /\ Owned(l, T, lost) /\ k.table = T[r] /\ Bare(k) /\ dec \in BOOLEAN
      /\ s.tree = Tree0 /\ s.req[r].node = NoParent /\ Sequence(s.req[r].gen)
      /\ \A q \in Request : s.req[q].state \in Stage
  BY DEF Plain, Tables
<1>3. Len(Tokens(s, r)) \in Nat \ {0}
  BY <1>2, TokensAre
<1>4. (dec => len = 1) /\ (~dec /\ k.cursor = 0 => len \in Nat \ {0})
  BY <1>3 DEF NewTokens
<1>5. d = [s EXCEPT !.req[r].kv = h, !.pool = p.pool]
  OBVIOUS
<1> HIDE DEF d
<1>6. /\ Bare(h) /\ Owned(p.pool, Retabled(T, r, h.table), M)
      /\ OneLost(lost, M)
  <2>1. CopiesTable(k, PrepareMeta(k, l, len, dec)) /\ M = lost \cup BlockLost(p, dec)
    BY <1>1
  <2>2. h = CopyBroken(k, PrepareMeta(k, l, len, dec), dec) /\ p = PrepareMeta(k, l, len, dec)
    OBVIOUS
  <2> HIDE DEF k, l, len, dec, T, h, p, M
  <2>3. LET g == PrepareMeta(k, l, len, dec)
            e == CopyBroken(k, g, dec)
            N == lost \cup BlockLost(g, dec)
        IN  /\ Bare(e) /\ Owned(g.pool, Retabled(T, r, e.table), N)
            /\ OneLost(lost, N)
    BY <1>2, <1>4, <2>1, MetaBroken
  <2> QED BY <2>1, <2>2, <2>3
<1> HIDE DEF h, p, M
<1> DEFINE old == s.req[r]
           new == d.req[r]
<1>7. /\ d.req = [q \in Request |-> IF q = r THEN new ELSE s.req[q]]
      /\ new = [old EXCEPT !.kv = h] /\ d.pool = p.pool /\ d.tree = s.tree
  BY <1>5 DEF Shell
<1>8. old = [gen |-> old.gen, kv |-> old.kv, node |-> old.node, state |-> old.state]
  BY DEF Shell, Entry
<1>9. new.kv = h /\ new.node = old.node /\ new.gen = old.gen /\ new.state = old.state
  <2> HIDE DEF old, new
  <2> QED BY <1>7, <1>8
<1>10. \A q \in Request : q # r => SameHold(d.req[q], s.req[q])
  <2> HIDE DEF new
  <2> QED BY <1>7 DEF SameHold
<1>11. \A q \in Request : d.req[q].state \in Stage
  <2> HIDE DEF new
  <2> QED BY <1>2, <1>7, <1>9
<1>12. Plain(d, M)
  BY <1>2, <1>6, <1>7, <1>9, <1>10, <1>11, PlainGiven
<1>13. \A q \in Request : d.req[q].gen = s.req[q].gen
  <2> HIDE DEF new
  <2> QED BY <1>7, <1>9, <1>10 DEF SameHold
<1> QED BY <1>1, <1>6, <1>12, <1>13

-----------------------------------------------------------------------------
(* After the pass without the prefix tree.                                 *)

\* A token more.
LEMMA LongerSequence ==
  ASSUME NEW g, Sequence(g), NEW x
  PROVE  Sequence(Append(g, x)) /\ Len(g) \in Nat /\ Len(Append(g, x)) = Len(g) + 1
<1>1. PICK E : g \in Seq(E)
  BY DEF Sequence
<1>2. g \in Seq(E \cup {x})
  BY <1>1
<1>3. Append(g, x) \in Seq(E \cup {x})
  BY <1>2
<1> QED BY <1>1, <1>2, <1>3 DEF Sequence

\* The members take their tokens, and hold what they held.
LEMMA AnswerPlain ==
  ASSUME NEW s, Plain(s, lost), Shell(s), NEW next
  PROVE  LET g == Answer(s, next) IN
         /\ Plain(g, lost) /\ g.running = s.running
         /\ \A r \in Request :
              /\ g.req[r].kv = s.req[r].kv
              /\ g.req[r].gen = IF r \in ToSet(batch.members) THEN Append(s.req[r].gen, next[r])
                                                              ELSE s.req[r].gen
<1> DEFINE g  == Answer(s, next)
           in == ToSet(batch.members)
<1>1. g = [s EXCEPT !.req = [r \in Request |-> IF r \in in THEN TakeToken(s, r, next[r]) ELSE s.req[r]]]
  BY DEF Answer
<1> HIDE DEF g, in
<1>2. /\ g.running = s.running /\ g.tree = s.tree /\ g.pool = s.pool
      /\ g.req = [r \in Request |-> IF r \in in THEN TakeToken(s, r, next[r]) ELSE s.req[r]]
  BY <1>1 DEF Shell
<1>3. ASSUME NEW r \in Request
      PROVE  /\ g.req[r].kv = s.req[r].kv /\ g.req[r].node = s.req[r].node /\ g.req[r].state \in Stage
             /\ g.req[r].gen = IF r \in in THEN Append(s.req[r].gen, next[r]) ELSE s.req[r].gen
  <2>1. CASE r \notin in
    BY <1>2, <2>1 DEF Plain
  <2>2. CASE r \in in
    <3> DEFINE old == s.req[r]
               new == g.req[r]
               st  == IF Ends(s, r, next[r]) THEN "FINISHED"
                      ELSE IF batch.is_decode THEN old.state ELSE "RUNNING"
               gen == Append(old.gen, next[r])
    <3>1. new = [old EXCEPT !.gen = gen, !.state = st]
      BY <1>2, <2>2 DEF TakeToken
    <3>2. old = [gen |-> old.gen, kv |-> old.kv, node |-> old.node, state |-> old.state]
      BY DEF Shell, Entry
    <3>3. st \in Stage
      BY DEF Plain, Stage
    <3> HIDE DEF old, new, st, gen
    <3>4. new = [gen |-> gen, kv |-> old.kv, node |-> old.node, state |-> st]
      BY <3>1, <3>2
    <3>5. new.kv = old.kv /\ new.node = old.node /\ new.state = st /\ new.gen = gen
      BY <3>4
    <3> QED BY <2>2, <3>3, <3>5 DEF old, new, gen
  <2> QED BY <2>1, <2>2
<1>4. Tables(g) = Tables(s)
  BY <1>3 DEF Tables
<1>5. \A r \in Request : Sequence(g.req[r].gen)
  BY <1>3, LongerSequence DEF Plain
<1>6. Plain(g, lost)
  BY <1>2, <1>3, <1>4, <1>5 DEF Plain
<1> QED BY <1>2, <1>3, <1>6 DEF g, in

\* A request that ends gives its blocks back, and a tree that is not there
\* takes none.
LEMMA FinishPlainOne ==
  ASSUME ~UseRadix, NEW arr, Once(arr), NEW u, u.ok = TRUE, Weak(u.s, arr), Plain(u.s, lost), NEW r \in Request
  PROVE  Plain(FinishOne(u, r).s, lost) /\ Freer(u.s, FinishOne(u, r).s)
<1> DEFINE s == u.s
           t == [s EXCEPT !.tree = s.tree, !.pool = s.pool]
           f == FreeKV(s, r)
           z == FinishOne(u, r)
<1>1. CASE s.req[r].state # "FINISHED"
  <2>1. z = u
    BY <1>1 DEF FinishOne
  <2> QED BY <2>1 DEF Freer
<1>2. CASE s.req[r].state = "FINISHED"
  <2>1. z = [ok |-> TRUE, s |-> [FreeKV(t, r) EXCEPT !.running = Without(@, r)]]
    BY <1>2 DEF FinishOne
  <2>2. Shell(s) /\ s.running \in Seq(Request) /\ Lined(arr, s.running)
    <3>1. Shell(s) /\ s.running \in Seq(Request)
      BY DEF Weak, Shell
    <3> QED BY <3>1, QueueIs DEF Weak
  <2>3. t = s
    <3> DEFINE w == s
    <3>1. w = [waiting |-> w.waiting, running |-> w.running, tree |-> w.tree, pool |-> w.pool,
               req |-> w.req]
      BY <2>2 DEF Shell
    <3> HIDE DEF w
    <3>2. [w EXCEPT !.tree = w.tree, !.pool = w.pool] = w
      BY <3>1
    <3> QED BY <3>2 DEF w
  <2> DEFINE e == [f EXCEPT !.running = Without(@, r)]
  <2>4. z = [ok |-> TRUE, s |-> e]
    BY <2>1, <2>3
  <2>5. /\ Shell(f) /\ f.running = s.running /\ Plain(f, lost)
        /\ f.req = [q \in Request |-> IF q = r THEN FreedEntry(s.req[r]) ELSE s.req[q]]
    BY <2>2, FreeKVIs, FreeKVPlain
  <2> HIDE DEF f
  <2>6. /\ e.tree = f.tree /\ e.pool = f.pool /\ e.req = f.req
        /\ e.running = Without(s.running, r)
    BY <2>5 DEF Shell
  <2> HIDE DEF e, z
  <2>7. z.s = e
    BY <2>4
  <2>8. Plain(e, lost)
    <3>1. \A q \in Request : SameHold(e.req[q], f.req[q]) /\ e.req[q].state \in Stage
      BY <2>5, <2>6 DEF SameHold, Plain
    <3> QED BY <2>5, <2>6, <3>1, PlainAlike
  <2>9. ToSet(e.running) = ToSet(s.running) \ {r}
    BY <2>2, <2>6, WithoutLined
  <2>10. Freer(s, e)
    BY <2>5, <2>6, <2>9 DEF Freer, FreedEntry
  <2> QED BY <2>7, <2>8, <2>10 DEF z
<1> QED BY <1>1, <1>2

\* All who end do.
LEMMA FinishAllPlain ==
  ASSUME ~UseRadix, NEW arr, Once(arr), NEW s, Weak(s, arr), Holders(s), WaitersUnfinished(s), Plain(s, lost)
  PROVE  /\ FinishAll(s).ok = TRUE /\ Plain(FinishAll(s).s, lost) /\ Freer(s, FinishAll(s).s)
<1> DEFINE n == Len(s.running)
<1>1. n \in Nat /\ n = Len(s.running) /\ s.running \in Seq(Request)
  BY DEF Weak, Shell
<1> HIDE DEF n
<1>2. PICK f : /\ f[0] = [u |-> [ok |-> TRUE, s |-> s], i |-> 1]
               /\ \A i \in 1 .. n : f[i] = FinishTurn(f[i - 1], s.running)
               /\ FinishAll(s) = f[n].u
  BY <1>1, FinishRuns
<1> DEFINE OK(k) == /\ f[k].i = k + 1 /\ Finishing(f[k].u, s, k, arr) /\ f[k].u.ok = TRUE
                    /\ Plain(f[k].u.s, lost) /\ Freer(s, f[k].u.s)
           S == {k \in Nat : k <= n => OK(k)}
<1>3. 0 \in S
  <2> DEFINE u == [ok |-> TRUE, s |-> s]
  <2>1. u = [ok |-> u.ok, s |-> u.s] /\ u.s = s /\ u.ok = TRUE /\ f[0].u = u /\ f[0].i = 1
    BY <1>2
  <2> HIDE DEF u
  <2>2. Finishing(u, s, 0, arr)
    <3>1. \A j \in 1 .. 0 : s.running[j] \notin ToSet(u.s.running)
      OBVIOUS
    <3> QED BY <2>1, <3>1 DEF Finishing
  <2>3. Freer(s, s)
    BY DEF Freer
  <2>4. OK(0)
    BY <2>1, <2>2, <2>3
  <2> QED BY <2>4
<1>4. ASSUME NEW k \in 0 .. n - 1, k \in S PROVE k + 1 \in S
  <2>1. k \in Nat /\ k <= n /\ k + 1 \in 1 .. n /\ (k + 1) - 1 = k
    BY <1>1
  <2>2. OK(k)
    BY <1>4, <2>1
  <2> DEFINE r == s.running[k + 1]
             u == f[k].u
  <2>3. f[k + 1] = FinishTurn(f[k], s.running)
    BY <1>2, <2>1
  <2>4. f[k + 1].u = FinishOne(u, r) /\ f[k + 1].i = (k + 1) + 1
    BY <2>2, <2>3 DEF FinishTurn
  <2>5. r \in Request /\ r \in ToSet(arr)
    <3>1. k + 1 \in DOMAIN s.running
      BY <1>1, <2>1
    <3>2. r \in Request /\ r \in ToSet(s.running)
      BY <1>1, <3>1 DEF ToSet
    <3>3. ToSet(s.running) \subseteq ToSet(Queue(s))
      BY QueueIs DEF Weak
    <3> QED BY <3>2, <3>3 DEF Weak
  <2>6. Finishing(u, s, k, arr) /\ r = s.running[k + 1] /\ u.ok = TRUE /\ Plain(u.s, lost) /\ Freer(s, u.s)
    BY <2>2
  <2> HIDE DEF u, r
  <2>7. Finishing(FinishOne(u, r), s, k + 1, arr)
    BY <2>1, <2>5, <2>6, FinishOneKeeps
  <2>8. Weak(u.s, arr)
    BY <2>6 DEF Finishing
  <2>9. Plain(FinishOne(u, r).s, lost) /\ Freer(u.s, FinishOne(u, r).s)
    BY <2>5, <2>6, <2>8, FinishPlainOne
  <2>10. Freer(s, FinishOne(u, r).s)
    BY <2>6, <2>9, FreerChain
  <2>11. FinishOne(u, r).ok = TRUE
    <3>1. CASE u.s.req[r].state # "FINISHED"
      BY <2>6, <3>1 DEF FinishOne
    <3>2. CASE u.s.req[r].state = "FINISHED"
      <4> DEFINE t == [u.s EXCEPT !.tree = u.s.tree, !.pool = u.s.pool]
      <4>1. FinishOne(u, r) = [ok |-> TRUE, s |-> [FreeKV(t, r) EXCEPT !.running = Without(@, r)]]
        BY <2>6, <3>2 DEF FinishOne
      <4> QED BY <4>1
    <3> QED BY <3>1, <3>2
  <2>12. OK(k + 1)
    BY <2>4, <2>7, <2>9, <2>10, <2>11
  <2> QED BY <2>1, <2>12
<1>5. \A k \in 0 .. n : k \in S
  <2> HIDE DEF S
  <2> QED BY <1>1, <1>3, <1>4, BoundedInduction
<1>6. OK(n)
  <2> HIDE DEF OK
  <2> QED BY <1>1, <1>5
<1> QED BY <1>2, <1>6
-----------------------------------------------------------------------------
(* The loop without the prefix tree.                                       *)

\* A queue in order has nobody twice.
LEMMA LinedOnce ==
  ASSUME NEW arr, Once(arr), NEW q \in Seq(Request), Lined(arr, q)
  PROVE  NoDuplicates(q)
<1> SUFFICES ASSUME NEW i \in 1 .. Len(q), NEW j \in 1 .. Len(q), q[i] = q[j], i < j \/ j < i
             PROVE  FALSE
  <2>1. Len(q) \in Nat
    OBVIOUS
  <2> QED BY <2>1 DEF NoDuplicates
<1>1. CameIn(arr, q[i], q[j]) \/ CameIn(arr, q[j], q[i])
  BY DEF Lined
<1> QED BY <1>1, NotBeforeItself

\* The batch the forward pass is given has nobody twice; a decode takes all
\* who run.
Batched == NoDuplicates(batch.members) /\ batch.is_decode \in BOOLEAN
           /\ (batch.is_decode => batch.members = sched.running)

\* Each failure loses a block at the most.
LostOK == failures \in 0 .. MaxFailures /\ Cardinality(lost) <= failures

LEMMA LostGrows ==
  ASSUME NEW L, L \subseteq Block, NEW M, OneLost(L, M),
         NEW n \in Nat, Cardinality(L) <= n
  PROVE  Cardinality(M) <= n + 1
<1>1. IsFiniteSet(Block)
  BY NumBlocksAssumption, FS_Interval DEF Block
<1>2. IsFiniteSet(L) /\ Cardinality(L) \in Nat
  BY <1>1, FS_Subset, FS_CardinalityType
<1>3. CASE M = L
  BY <1>2, <1>3
<1>4. ASSUME NEW x, M = L \cup {x} PROVE Cardinality(M) <= n + 1
  <2>1. Cardinality(M) = Cardinality(L) \/ Cardinality(M) = Cardinality(L) + 1
    BY <1>2, <1>4, FS_AddElement
  <2> QED BY <1>2, <2>1
<1> QED BY <1>3, <1>4 DEF OneLost

\* The forward pass, whole or cut short, takes blocks for the requests, or
\* loses one.
LEMMA ForwardPlain ==
  ASSUME IInv, Plain(sched, lost), Members(batch, sched), Batched, Forward \/ ForwardFails
  PROVE  /\ Plain(sched', lost') /\ \A r \in Request : sched'.req[r].gen = sched.req[r].gen
         /\ OneLost(lost, lost')
         /\ Forward => lost' = lost
<1>1. Once(arrived) /\ Strong(sched, arrived) /\ Len(batch.members) \in Nat
      /\ NoDuplicates(batch.members) /\ batch.is_decode \in BOOLEAN
  BY DEF IInv, Members, Batched
<1>2. ASSUME NEW k \in 0 .. Len(batch.members), sched' = PrepareBatch(k).s, lost' = lost
      PROVE  Plain(sched', lost') /\ \A r \in Request : sched'.req[r].gen = sched.req[r].gen
  BY <1>1, <1>2, PreparePlain
<1>3. CASE Forward
  BY <1>1, <1>2, <1>3 DEF Forward, OneLost
<1>4. ASSUME NEW k \in 1 .. Len(batch.members), MetaBreaks(PrepareBatch(k - 1).s, batch.members[k])
      PROVE  /\ Plain(sched', lost') /\ \A r \in Request : sched'.req[r].gen = sched.req[r].gen
             /\ OneLost(lost, lost')
  <2> DEFINE s == PrepareBatch(k - 1).s
             r == batch.members[k]
  <2>1. k - 1 \in 0 .. Len(batch.members)
    BY <1>1
  <2>2. /\ Strong(s, arrived) /\ Plain(s, lost)
        /\ \A q \in Request : s.req[q].gen = sched.req[q].gen
    BY <1>1, <2>1, PrepareKeeps, PreparePlain
  <2>3. r \in Request
    BY DEF Members
  <2>4. MetaBreaks(s, r)
    BY <1>4
  <2> HIDE DEF s, r
  <2>5. Shell(s)
    BY <2>2 DEF Strong, Weak
  <2>6. /\ Plain(sched', lost') /\ OneLost(lost, lost')
        /\ \A q \in Request : sched'.req[q].gen = s.req[q].gen
    BY <1>1, <2>2, <2>3, <2>4, <2>5, BrokenPlain
  <2> QED BY <2>2, <2>6
<1>5. CASE ForwardFails
  <2>1. \/ \E k \in 0 .. Len(batch.members) : sched' = PrepareBatch(k).s /\ lost' = lost
        \/ \E k \in 1 .. Len(batch.members) : MetaBreaks(PrepareBatch(k - 1).s, batch.members[k])
    BY <1>5 DEF ForwardFails
  <2>2. Forward => lost' = lost
    BY DEF Forward
  <2>3. CASE \E k \in 0 .. Len(batch.members) : sched' = PrepareBatch(k).s /\ lost' = lost
    BY <1>2, <2>2, <2>3 DEF OneLost
  <2>4. CASE \E k \in 1 .. Len(batch.members) : MetaBreaks(PrepareBatch(k - 1).s, batch.members[k])
    BY <1>4, <2>2, <2>4
  <2> QED BY <2>1, <2>3, <2>4
<1> QED BY <1>3, <1>5

\* The inductive invariant without the prefix tree.
PlainInv ==
  /\ IInv /\ Plain(sched, lost) /\ LostOK
  /\ pc \in {"loop", "sleep", "forward", "returned", "raised", "dead"}
  /\ streak \in 0 .. FailLimit /\ (streak = FailLimit <=> pc = "dead")
  /\ pc \in {"forward", "returned"} => Batched

\* A tick releases, admits, and launches what it may: nothing throws.
LEMMA TickPlain ==
  ASSUME IInv, Plain(sched, lost), Tick
  PROVE  \E z, a : /\ Strong(z, arrived) /\ Plain(z, lost) /\ Freer(sched, z)
                   /\ ToSet(Queue(z)) \subseteq ToSet(Queue(sched)) /\ (a.prefills = <<>> => Turned(z))
                   /\ Admits(a, z) /\ Strong(a.s, arrived) /\ Plain(a.s, lost)
                   /\ ToSet(a.prefills) \subseteq ToSet(a.s.running) /\ NoDuplicates(a.prefills)
                   /\ \A r \in ToSet(a.prefills) : r \in Request /\ r \notin ToSet(z.running)
                   /\ LaunchPrefill(a) \/ LaunchDecode(a) \/ NothingToDo(a)
<1>1. Once(arrived) /\ Strong(sched, arrived) /\ Weak(sched, arrived) /\ aborted \subseteq ToSet(arrived)
  BY DEF IInv, Strong
<1>2. PICK order \in SetToSeqs(aborted) :
        \E a \in {Admission(ReleaseAll(sched, order))} :
          IF a.ok THEN LaunchPrefill(a) \/ LaunchDecode(a) \/ NothingToDo(a) ELSE Crash(a.s, out)
  BY DEF Tick
<1>3. order \in Seq(Request) /\ ToSet(order) \subseteq ToSet(arrived)
  BY <1>1, OrderIs
<1> DEFINE z == ReleaseAll(sched, order)
           a == Admission(z)
<1>4. IF a.ok THEN LaunchPrefill(a) \/ LaunchDecode(a) \/ NothingToDo(a) ELSE Crash(a.s, out)
  BY <1>2
<1>5. /\ Strong(z, arrived) /\ Plain(z, lost) /\ Freer(sched, z)
      /\ ToSet(Queue(z)) \subseteq ToSet(Queue(sched))
  BY <1>1, <1>3, ReleaseAllKeeps, ReleaseAllPlain
<1> HIDE DEF z
<1>6. Shell(z) /\ z.running \in Seq(Request)
  BY <1>5 DEF Strong, Weak, Shell
<1>7. Admitting(a, arrived) /\ Admits(a, z) /\ (a.prefills = <<>> => Turned(z))
  <2>1. Len(z.waiting) \in Nat
    BY <1>6 DEF Shell
  <2>2. Admitting(a, arrived)
    BY <1>1, <1>5, <2>1, AdmissionKeeps DEF Admission
  <2> QED BY <1>5, <1>6, <2>2, AdmissionPlain
<1> HIDE DEF a
<1>8. a.ok = TRUE /\ Moved(a, z)
  BY <1>7 DEF Admits
<1>9. Strong(a.s, arrived) /\ ToSet(a.prefills) \subseteq ToSet(a.s.running)
  BY <1>7, <1>8 DEF Admitting, Strong
<1> DEFINE p   == a.prefills
           run == z.running
           w   == a.s.waiting
<1>10. /\ p \in Seq(Request) /\ w \in Seq(Request) /\ p \o w = z.waiting
       /\ a.s = Data(z, run \o p, w, z.tree, z.pool, z.req)
  BY <1>8 DEF Moved
<1> HIDE DEF p, run, w
<1>11. a.s.running = run \o p /\ a.s.tree = z.tree /\ a.s.pool = z.pool /\ a.s.req = z.req
  BY <1>10 DEF Data
<1>12. Plain(a.s, lost)
  <2>1. \A q \in Request : SameHold(a.s.req[q], z.req[q]) /\ a.s.req[q].state \in Stage
    BY <1>5, <1>11 DEF SameHold, Plain
  <2> QED BY <1>5, <1>11, <2>1, PlainAlike
<1>13. /\ run \in Seq(Request) /\ run \o p \in Seq(Request)
       /\ NoDuplicates(run \o p)
  <2>1. run \in Seq(Request)
    BY <1>6 DEF run
  <2>2. Shell(a.s) /\ a.s.running \in Seq(Request)
    BY <1>9 DEF Strong, Weak, Shell
  <2>3. Lined(arrived, a.s.running)
    BY <1>9, <2>2, QueueIs DEF Strong, Weak
  <2>4. NoDuplicates(a.s.running)
    BY <1>1, <2>2, <2>3, LinedOnce
  <2> QED BY <1>11, <2>1, <2>2, <2>4
<1>14. NoDuplicates(p) /\ \A r \in ToSet(p) : r \in Request /\ r \notin ToSet(run)
  <2> DEFINE c == run \o p
             m == Len(run)
             l == Len(p)
  <2>1. /\ m \in Nat /\ l \in Nat /\ Len(c) = m + l /\ DOMAIN run = 1 .. m /\ DOMAIN p = 1 .. l
        /\ \A i \in 1 .. m + l : c[i] = IF i <= m THEN run[i] ELSE p[i - m]
    BY <1>10, <1>13
  <2>2. NoDuplicates(c)
    BY <1>13
  <2> HIDE DEF c, m, l
  <2>3. \A i \in 1 .. l : m + i \in 1 .. Len(c) /\ c[m + i] = p[i]
    <3> TAKE i \in 1 .. l
    <3>1. m + i \in 1 .. m + l /\ ~(m + i <= m) /\ (m + i) - m = i
      BY <2>1
    <3> QED BY <2>1, <3>1
  <2>4. \A i \in 1 .. m : i \in 1 .. Len(c) /\ c[i] = run[i]
    BY <2>1
  <2>5. ASSUME NEW i \in 1 .. l, NEW j \in 1 .. l, p[i] = p[j] PROVE i = j
    <3>1. m + i = m + j
      BY <2>2, <2>3, <2>5 DEF NoDuplicates
    <3> QED BY <2>1, <3>1
  <2>6. ASSUME NEW i \in 1 .. l, NEW j \in 1 .. m PROVE p[i] # run[j]
    <3>1. m + i # j
      BY <2>1
    <3> QED BY <2>2, <2>3, <2>4, <3>1 DEF NoDuplicates
  <2>7. \A i \in 1 .. l : p[i] \in Request
    BY <1>10, <2>1
  <2>8. NoDuplicates(p)
    BY <2>5 DEF NoDuplicates, l
  <2> QED BY <2>1, <2>6, <2>7, <2>8 DEF ToSet
<1> QED BY <1>4, <1>5, <1>7, <1>8, <1>9, <1>12, <1>14 DEF p, run

\* At first there is nothing.
LEMMA PlainInit ==
  ASSUME Init
  PROVE  PlainInv
<1>1. /\ sched = [waiting |-> <<>>, running |-> <<>>, tree |-> Tree0, pool |-> Pool0,
                  req |-> [r \in Request |-> NewRequest]]
      /\ pc = "loop" /\ streak = 0 /\ lost = {} /\ failures = 0
  BY DEF Init
<1>2. sched.tree = Tree0 /\ sched.pool = Pool0 /\ sched.req = [r \in Request |-> NewRequest]
  BY <1>1
<1>3. \A r \in Request : sched.req[r] = NewRequest
  BY <1>2
<1>4. /\ NewRequest.node = NoParent /\ NewRequest.kv = FreshKV /\ NewRequest.gen = <<>>
      /\ NewRequest.state \in Stage
  BY DEF NewRequest, Stage
<1>5. Sequence(<<>>)
  <2>1. <<>> \in Seq({})
    OBVIOUS
  <2> QED BY <2>1 DEF Sequence
<1>6. Owned(Pool0, Tables(sched), lost)
  <2> DEFINE T == Tables(sched)
  <2>1. T = [r \in Request |-> T[r]] /\ \A r \in Request : T[r] = <<>>
    BY <1>3, <1>4, FreshBare DEF Tables
  <2> HIDE DEF T
  <2>2. \A b \in Block : Pool0.ref_cnt[b] = 0
    BY DEF Pool0
  <2>3. /\ Shared(T) /\ Nobodys(T, lost) /\ Counted(Pool0, T, lost)
        /\ \A r \in Request : T[r] \in Table
    BY <1>1, <2>1, <2>2, NoBlocks DEF Shared, Nobodys, Counted
  <2> QED BY <2>1, <2>3, Pool0OK DEF Owned, T
<1>7. Plain(sched, lost)
  BY <1>2, <1>3, <1>4, <1>5, <1>6, FreshBare DEF Plain
<1>8. streak \in 0 .. FailLimit /\ streak # FailLimit
  BY <1>1, SchedulerAssumption
<1>9. LostOK
  <2>1. Cardinality(lost) = 0
    BY <1>1, FS_EmptySet
  <2> QED BY <1>1, <2>1, SchedulerAssumption DEF LostOK
<1> QED BY <1>1, <1>7, <1>8, <1>9, InitOK DEF PlainInv

\* A failure counts, and the last one allowed ends the loop.
LEMMA CrashCounts ==
  ASSUME NEW s, NEW o, Crash(s, o), streak \in 0 .. FailLimit, streak # FailLimit
  PROVE  /\ pc' \in {"loop", "dead"}
         /\ streak' \in 0 .. FailLimit /\ (streak' = FailLimit <=> pc' = "dead")
<1>1. streak' = streak + 1 /\ pc' = IF streak + 1 >= FailLimit THEN "dead" ELSE "loop"
  BY DEF Crash
<1>2. FailLimit \in Nat
  BY SchedulerAssumption
<1> QED BY <1>1, <1>2

\* Every step keeps it.
LEMMA PlainStep ==
  ASSUME ~UseRadix, PlainInv, [Next]_vars
  PROVE  PlainInv'
<1>1. /\ IInv /\ Plain(sched, lost) /\ LostOK /\ Once(arrived) /\ Strong(sched, arrived) /\ Weak(sched, arrived)
      /\ pc \in {"loop", "sleep", "forward", "returned", "raised", "dead"}
      /\ streak \in 0 .. FailLimit /\ (streak = FailLimit <=> pc = "dead")
      /\ pc \in {"forward", "returned"} => Batched /\ Members(batch, sched)
  BY DEF PlainInv, IInv, Strong
<1>2. IInv'
  BY <1>1, StepOK
<1>3. FailLimit \in Nat \ {0} /\ 0 \in 0 .. FailLimit /\ 0 # FailLimit
  BY SchedulerAssumption
<1>4. Shell(sched)
  BY <1>1 DEF Weak
<1>13. ASSUME UNCHANGED <<failures, lost>> PROVE LostOK'
  BY <1>1, <1>13 DEF LostOK
<1>5. ASSUME NEW r \in Request, Submit(r) PROVE PlainInv'
  <2>1. UNCHANGED <<pc, batch, streak, failures, lost>>
    BY <1>5 DEF Submit
  <2>2. /\ sched'.running = sched.running /\ sched'.req = sched.req
        /\ sched'.tree = sched.tree /\ sched'.pool = sched.pool
    BY <1>1, <1>5, SubmitIs
  <2>3. Plain(sched', lost)
    <3>1. \A q \in Request : SameHold(sched'.req[q], sched.req[q]) /\ sched'.req[q].state \in Stage
      BY <1>1, <2>2 DEF SameHold, Plain
    <3> QED BY <1>1, <2>2, <3>1, PlainAlike
  <2>4. Plain(sched', lost')
    BY <2>1, <2>3 DEF Plain, Tables
  <2> QED BY <1>1, <1>2, <1>13, <2>1, <2>2, <2>4 DEF PlainInv, Batched
<1>6. ASSUME NEW r \in Request, Abort(r) PROVE PlainInv'
  <2>1. UNCHANGED <<pc, batch, sched, streak, failures, lost>>
    BY <1>6 DEF Abort
  <2> QED BY <1>1, <1>2, <1>13, <2>1 DEF PlainInv, Batched, Plain, Tables
<1>7. CASE Idle \/ Wake
  <2>1. UNCHANGED <<sched, streak, failures, lost>> /\ pc' \in {"sleep", "loop"} /\ pc # "dead"
    BY <1>7 DEF Idle, Wake
  <2> QED BY <1>1, <1>2, <1>13, <2>1 DEF PlainInv, Plain, Tables
<1>8. CASE Tick
  <2>1. PICK z, a : /\ Strong(a.s, arrived) /\ Plain(a.s, lost) /\ NoDuplicates(a.prefills)
                    /\ LaunchPrefill(a) \/ LaunchDecode(a) \/ NothingToDo(a)
    BY <1>1, <1>8, TickPlain
  <2>2. pc = "loop" /\ UNCHANGED <<failures, lost>>
    BY <1>8 DEF Tick
  <2>3. CASE LaunchPrefill(a)
    <3>1. /\ sched' = a.s /\ batch' = [members |-> a.prefills, is_decode |-> FALSE] /\ pc' = "forward"
          /\ streak' = streak
      BY <2>3 DEF LaunchPrefill, Launch
    <3>2. Plain(sched', lost')
      BY <2>1, <2>2, <3>1 DEF Plain, Tables
    <3>3. Batched'
      BY <2>1, <3>1 DEF Batched
    <3> QED BY <1>1, <1>2, <1>13, <2>2, <3>1, <3>2, <3>3 DEF PlainInv
  <2>4. CASE LaunchDecode(a)
    <3> DEFINE s == Preempt(a.s)
    <3>1. /\ sched' = s /\ batch' = [members |-> s.running, is_decode |-> TRUE] /\ pc' = "forward"
          /\ streak' = streak
      BY <2>4 DEF LaunchDecode, Launch
    <3>2. Strong(s, arrived) /\ Plain(s, lost)
      BY <1>1, <2>1, PreemptKeeps, PreemptPlain
    <3> HIDE DEF s
    <3>3. Plain(sched', lost')
      BY <2>2, <3>1, <3>2 DEF Plain, Tables
    <3>4. NoDuplicates(s.running)
      <4>1. Shell(s) /\ s.running \in Seq(Request)
        BY <3>2 DEF Strong, Weak, Shell
      <4>2. Lined(arrived, s.running)
        BY <3>2, <4>1, QueueIs DEF Strong, Weak
      <4> QED BY <1>1, <4>1, <4>2, LinedOnce
    <3>5. batch'.members = sched'.running /\ batch'.members = s.running /\ batch'.is_decode = TRUE
      BY <3>1
    <3>6. Batched'
      BY <3>4, <3>5 DEF Batched
    <3> QED BY <1>1, <1>2, <1>13, <2>2, <3>1, <3>3, <3>6 DEF PlainInv
  <2>5. CASE NothingToDo(a)
    <3>1. sched' = a.s /\ pc' \in {"sleep", "loop"} /\ streak' = 0
      BY <2>5 DEF NothingToDo
    <3>2. Plain(sched', lost')
      BY <2>1, <2>2, <3>1 DEF Plain, Tables
    <3> QED BY <1>1, <1>2, <1>3, <1>13, <2>2, <3>1, <3>2 DEF PlainInv
  <2> QED BY <2>1, <2>3, <2>4, <2>5
<1>9. CASE Deliver
  <2>1. PICK next : \E u \in {FinishAll(Answer(sched, next))} :
            IF u.ok THEN /\ sched' = u.s /\ out' = Answered(next) /\ streak' = 0
                         /\ pc' = "loop" /\ batch' = NoBatch
                    ELSE Crash(u.s, Answered(next))
    BY <1>9 DEF Deliver
  <2>2. pc = "returned" /\ UNCHANGED <<failures, lost>>
    BY <1>9 DEF Deliver
  <2> DEFINE g == Answer(sched, next)
             u == FinishAll(g)
  <2>3. Weak(g, arrived) /\ Holders(g) /\ WaitersUnfinished(g) /\ Plain(g, lost)
    BY <1>1, <1>4, <2>2, AnswerKeeps, AnswerPlain
  <2>4. IF u.ok THEN sched' = u.s /\ streak' = 0 /\ pc' = "loop" ELSE Crash(u.s, Answered(next))
    BY <2>1
  <2> HIDE DEF g
  <2>5. u.ok = TRUE /\ Plain(u.s, lost)
    BY <1>1, <2>3, FinishAllPlain
  <2> HIDE DEF u
  <2>6. sched' = u.s /\ streak' = 0 /\ pc' = "loop"
    BY <2>4, <2>5
  <2>7. Plain(sched', lost')
    BY <2>2, <2>5, <2>6 DEF Plain, Tables
  <2> QED BY <1>2, <1>3, <1>13, <2>2, <2>6, <2>7 DEF PlainInv
<1>10. CASE Raised
  <2>1. Crash(sched, out) /\ pc = "raised" /\ UNCHANGED <<failures, lost>>
    BY <1>10 DEF Raised
  <2>2. Plain(sched', lost)
    BY <1>1, <2>1, CrashPlain
  <2>3. Plain(sched', lost')
    BY <2>1, <2>2 DEF Plain, Tables
  <2>4. /\ pc' \in {"loop", "dead"}
        /\ streak' \in 0 .. FailLimit /\ (streak' = FailLimit <=> pc' = "dead")
    BY <1>1, <2>1, CrashCounts
  <2> QED BY <1>2, <1>13, <2>1, <2>3, <2>4 DEF PlainInv
<1>11. CASE Forward \/ ForwardFails
  <2>1. UNCHANGED <<batch, streak>> /\ pc = "forward" /\ pc' \in {"returned", "raised"}
    BY <1>11 DEF Forward, ForwardFails
  <2>2. Members(batch, sched) /\ Batched /\ Len(batch.members) \in Nat
    BY <1>1, <2>1 DEF Members
  <2>3. /\ Plain(sched', lost')
        /\ OneLost(lost, lost')
        /\ Forward => lost' = lost
    BY <1>1, <1>11, <2>2, ForwardPlain
  <2>4. LostOK'
    <3>1. CASE Forward
      <4>1. UNCHANGED <<failures, lost>>
        BY <2>3, <3>1 DEF Forward
      <4> QED BY <1>13, <4>1
    <3>2. CASE ForwardFails
      <4>1. failures' = failures + 1 /\ failures < MaxFailures
        BY <3>2 DEF ForwardFails
      <4>2. failures \in Nat /\ failures \in 0 .. MaxFailures /\ Cardinality(lost) <= failures
        BY <1>1, SchedulerAssumption DEF LostOK
      <4>3. lost \subseteq Block
        BY <1>1 DEF Plain, Owned, Nobodys
      <4>4. Cardinality(lost') <= failures + 1
        BY <2>3, <4>2, <4>3, LostGrows
      <4>5. failures + 1 \in 0 .. MaxFailures
        BY <4>1, <4>2, SchedulerAssumption
      <4> QED BY <4>1, <4>4, <4>5 DEF LostOK
    <3> QED BY <1>11, <3>1, <3>2
  <2>5. Plain(sched', lost')
    BY <2>3
  <2>6. sched'.running = sched.running
    BY <1>1, <1>11, ForwardIs
  <2>7. Batched'
    BY <2>1, <2>2, <2>6 DEF Batched
  <2> QED BY <1>1, <1>2, <2>1, <2>4, <2>5, <2>7 DEF PlainInv
<1>14. ~AdoptFails
  BY DEF AdoptFails
<1>12. CASE UNCHANGED vars
  BY <1>1, <1>2, <1>12 DEF PlainInv, LostOK, Batched, Plain, Tables, vars
<1> QED BY <1>5, <1>6, <1>7, <1>8, <1>9, <1>10, <1>11, <1>12, <1>14 DEF Next, Loop

\* Then every count is exact.
LEMMA PlainCounts ==
  ASSUME PlainInv
  PROVE  CountsExact
<1> DEFINE T == Tables(sched)
           p == sched.pool
<1>1. /\ sched.tree = Tree0 /\ Owned(p, T, lost)
      /\ \A r \in Request : sched.req[r].node = NoParent /\ sched.req[r].state \in Stage
      /\ \A r \in Request : T[r] = sched.req[r].kv.table
  BY DEF PlainInv, Plain, Tables
<1> HIDE DEF T, p
<1>2. TypeOK
  <2>1. p \in PoolType
    <3>1. p \in AnyPool /\ p.num_allocated \in Nat
      BY <1>1, AllocatedCount DEF Owned, PoolOK
    <3> QED BY <3>1 DEF AnyPool, PoolType
  <2>2. ToSet(sched.waiting) \cup ToSet(sched.running) \cup aborted \subseteq ToSet(arrived)
    <3>1. Weak(sched, arrived) /\ Shell(sched) /\ aborted \subseteq ToSet(arrived)
      BY DEF PlainInv, IInv, Strong, Weak
    <3> QED BY <3>1, QueueIs DEF Weak
  <2> QED BY <1>1, <2>1, <2>2 DEF TypeOK, PlainInv, Stage, p
<1>3. PinsExact
  <2>1. ASSUME NEW n \in Nodes(sched.tree)
        PROVE  sched.tree.node[n].lock = (IF n = Root THEN 1 ELSE 0)
                 + Cardinality({r \in Request : sched.req[r].node # NoParent
                                                /\ Contains(PathUp(sched.tree, sched.req[r].node), n)})
    <3> DEFINE pins == {r \in Request : sched.req[r].node # NoParent
                                        /\ Contains(PathUp(sched.tree, sched.req[r].node), n)}
    <3>1. n = Root /\ sched.tree.node[n].lock = 1
      BY <1>1, <2>1, RootOnly
    <3>2. pins = {}
      BY <1>1
    <3> HIDE DEF pins
    <3>3. Cardinality(pins) = 0
      BY <3>2, FS_EmptySet
    <3> QED BY <3>1, <3>3 DEF pins
  <2> QED BY <2>1 DEF PinsExact
<1>4. RefCntExact
  <2>1. ASSUME NEW b \in Block
        PROVE  sched.pool.ref_cnt[b] = Cardinality(HeldBlocks(sched.tree, b))
                 + Cardinality({r \in Request : Contains(sched.req[r].kv.table, b)})
                 + (IF b \in lost THEN 1 ELSE 0)
    <3> DEFINE held    == HeldBlocks(sched.tree, b)
               holders == {r \in Request : Contains(sched.req[r].kv.table, b)}
    <3>1. held = {}
      <4>1. Tree0.node[Root].table = <<>> /\ Nodes(Tree0) = {Root}
        BY RootOnly
      <4> QED BY <1>1, <4>1, NoBlocks DEF HeldBlocks
    <3>2. holders = {r \in Request : Contains(T[r], b)}
      BY <1>1
    <3> HIDE DEF held, holders
    <3>3. Cardinality(held) = 0
      BY <3>1, FS_EmptySet
    <3>4. /\ p.ref_cnt[b] = IF b \in lost \/ \E r \in Request : Contains(T[r], b) THEN 1 ELSE 0
          /\ b \in lost => ~ \E r \in Request : Contains(T[r], b)
      BY <1>1 DEF Owned, Counted, Nobodys
    <3>5. CASE \E r \in Request : Contains(T[r], b)
      <4>1. PICK r \in Request : Contains(T[r], b)
        BY <3>5
      <4>2. \A q \in Request : Contains(T[q], b) => q = r
        BY <1>1, <4>1 DEF Owned, Shared
      <4>3. holders = {r}
        BY <3>2, <4>1, <4>2
      <4>4. Cardinality(holders) = 1
        BY <4>3, FS_Singleton
      <4> QED BY <3>3, <3>4, <3>5, <4>4 DEF held, holders, p
    <3>6. CASE ~ \E r \in Request : Contains(T[r], b)
      <4>1. holders = {}
        BY <3>2, <3>6
      <4>2. Cardinality(holders) = 0
        BY <4>1, FS_EmptySet
      <4> QED BY <3>3, <3>4, <3>6, <4>2 DEF held, holders, p
    <3> QED BY <3>5, <3>6
  <2>2. Cardinality(lost) <= failures
    BY DEF PlainInv, LostOK
  <2> QED BY <2>1, <2>2 DEF RefCntExact
<1> QED BY <1>2, <1>3, <1>4 DEF CountsExact

\* scheduler.py:116-127, 188-262, 274 with NoRadixTree (scheduler.py:40): every
\* block is referenced by the one request whose table it is in, or is free,
\* whatever is aborted, preempted or thrown, inside a prepare_meta included, but
\* the block a decode has taken when its copy to the device throws
\* (paged_kv_cache.cpp:157): that one is nobody's, and there are no more of them
\* than failures of the device.  So none is freed twice and no other leaks;
\* nothing is pinned, and the loop is dead from the last failure allowed on and
\* not before.
THEOREM CountsAlwaysExact == ASSUME ~UseRadix PROVE Spec => []CountsExact
BY PlainInit, PlainStep, PlainCounts, PTL DEF Spec
-----------------------------------------------------------------------------
(* What the blocks hold without the prefix tree.                           *)

\* The first tokens of the first tokens.
LEMMA FirstOfFirst ==
  ASSUME NEW q, Sequence(q), NEW n \in Nat, n <= Len(q), NEW m \in Nat, m <= n
  PROVE  /\ Sequence(SubSeq(q, 1, n)) /\ Len(SubSeq(q, 1, n)) = n
         /\ SubSeq(SubSeq(q, 1, n), 1, m) = SubSeq(q, 1, m)
<1>1. PICK E : q \in Seq(E)
  BY DEF Sequence
<1> DEFINE c == SubSeq(q, 1, n)
           d == SubSeq(q, 1, m)
           e == SubSeq(c, 1, m)
<1>2. Len(q) \in Nat /\ m <= Len(q)
  BY <1>1
<1>3. c \in Seq(E) /\ Len(c) = n /\ \A k \in 1 .. n : c[k] = q[k]
  <2>1. /\ SubSeq(q, 0 + 1, n) \in Seq(E) /\ Len(SubSeq(q, 0 + 1, n)) = n - 0
        /\ \A k \in 1 .. n - 0 : SubSeq(q, 0 + 1, n)[k] = q[0 + k]
    BY <1>1, SubSeqFacts
  <2> QED BY <2>1
<1>4. d \in Seq(E) /\ Len(d) = m /\ \A k \in 1 .. m : d[k] = q[k]
  <2>1. /\ SubSeq(q, 0 + 1, m) \in Seq(E) /\ Len(SubSeq(q, 0 + 1, m)) = m - 0
        /\ \A k \in 1 .. m - 0 : SubSeq(q, 0 + 1, m)[k] = q[0 + k]
    BY <1>1, <1>2, SubSeqFacts
  <2> QED BY <2>1
<1> HIDE DEF c, d
<1>5. e \in Seq(E) /\ Len(e) = m /\ \A k \in 1 .. m : e[k] = c[k]
  <2>1. /\ SubSeq(c, 0 + 1, m) \in Seq(E) /\ Len(SubSeq(c, 0 + 1, m)) = m - 0
        /\ \A k \in 1 .. m - 0 : SubSeq(c, 0 + 1, m)[k] = c[0 + k]
    BY <1>3, SubSeqFacts
  <2> QED BY <2>1
<1> HIDE DEF e
<1>6. \A k \in 1 .. m : k \in 1 .. n
  OBVIOUS
<1>7. e = d
  BY <1>3, <1>4, <1>5, <1>6, SeqExtensional
<1>8. Sequence(c)
  BY <1>3 DEF Sequence
<1> QED BY <1>3, <1>7, <1>8 DEF c, d, e

\* The tokens of a block and those before it, of the first n tokens.
LEMMA PrefixIs ==
  ASSUME NEW q, Sequence(q), NEW n \in Nat, n <= Len(q), NEW i \in Nat
  PROVE  PrefixTo(SubSeq(q, 1, n), i)
         = IF i * BlockSize <= n THEN SubSeq(q, 1, i * BlockSize) ELSE SubSeq(q, 1, n)
<1> DEFINE c == SubSeq(q, 1, n)
           e == i * BlockSize
           m == Min({e, n})
<1>1. e \in Nat
  BY BlockSizeAssumption
<1> HIDE DEF e
<1>2. m = IF e <= n THEN e ELSE n
  <2>1. {e, n} \in SUBSET Nat /\ {e, n} # {}
    BY <1>1
  <2>2. m \in {e, n} /\ m <= e /\ m <= n
    BY <2>1, MinOK
  <2> QED BY <1>1, <2>2
<1> HIDE DEF m
<1>3. Len(c) = n
  BY FirstOfFirst
<1>4. PrefixTo(c, i) = SubSeq(c, 1, m)
  BY <1>3 DEF PrefixTo, e, m
<1>5. m \in Nat /\ m <= n
  BY <1>1, <1>2
<1>6. SubSeq(c, 1, m) = SubSeq(q, 1, m)
  BY <1>5, FirstOfFirst
<1> QED BY <1>2, <1>4, <1>6 DEF c, e

\* A token more leaves the first ones what they were.
LEMMA FirstOfLonger ==
  ASSUME NEW q, Sequence(q), NEW x, NEW n \in Nat, n <= Len(q)
  PROVE  SubSeq(Append(q, x), 1, n) = SubSeq(q, 1, n)
<1>1. PICK E : q \in Seq(E)
  BY DEF Sequence
<1> DEFINE F == E \cup {x}
           a == Append(q, x)
           c == SubSeq(a, 1, n)
           d == SubSeq(q, 1, n)
<1>2. q \in Seq(F) /\ x \in F /\ Len(q) \in Nat
  BY <1>1
<1> HIDE DEF F
<1>3. a \in Seq(F) /\ Len(a) = Len(q) + 1 /\ \A k \in 1 .. Len(q) : a[k] = q[k]
  BY <1>2
<1> HIDE DEF a
<1>4. c \in Seq(F) /\ Len(c) = n /\ \A k \in 1 .. n : c[k] = a[k]
  <2>1. /\ SubSeq(a, 0 + 1, n) \in Seq(F) /\ Len(SubSeq(a, 0 + 1, n)) = n - 0
        /\ \A k \in 1 .. n - 0 : SubSeq(a, 0 + 1, n)[k] = a[0 + k]
    BY <1>2, <1>3, SubSeqFacts
  <2> QED BY <2>1
<1>5. d \in Seq(F) /\ Len(d) = n /\ \A k \in 1 .. n : d[k] = q[k]
  <2>1. /\ SubSeq(q, 0 + 1, n) \in Seq(F) /\ Len(SubSeq(q, 0 + 1, n)) = n - 0
        /\ \A k \in 1 .. n - 0 : SubSeq(q, 0 + 1, n)[k] = q[0 + k]
    BY <1>2, SubSeqFacts
  <2> QED BY <2>1
<1> HIDE DEF c, d
<1>6. \A k \in 1 .. n : k \in 1 .. Len(q)
  BY <1>2
<1>7. c = d
  BY <1>3, <1>4, <1>5, <1>6, SeqExtensional
<1> QED BY <1>7 DEF a, c, d

\* A request's tokens with one more answered.
LEMMA TokensLonger ==
  ASSUME NEW s, NEW t, NEW r \in Request, NEW x, Sequence(s.req[r].gen),
         t.req[r].gen = Append(s.req[r].gen, x)
  PROVE  Tokens(t, r) = Append(Tokens(s, r), x)
<1>1. PICK E : s.req[r].gen \in Seq(E)
  BY DEF Sequence
<1> DEFINE F == E \cup Int \cup {x}
           p == Prompt[r]
           g == s.req[r].gen
           one == <<x>>
           all == p \o g
<1>2. p \in Seq(F) /\ g \in Seq(F) /\ one \in Seq(F) /\ x \in F
  <2>1. p \in Seq(Int)
    BY SchedulerAssumption
  <2> HIDE DEF p
  <2> QED BY <1>1, <2>1
<1> HIDE DEF F, p, g
<1>3. all \in Seq(F) /\ Append(g, x) = g \o one
  BY <1>2
<1> HIDE DEF all
<1>4. Append(all, x) = all \o one
  BY <1>2, <1>3
<1> HIDE DEF one
<1>5. all \o one = p \o (g \o one)
  BY <1>2, ConcatAssociative DEF all
<1>6. Tokens(t, r) = p \o Append(g, x) /\ Tokens(s, r) = all
  BY DEF Tokens, p, g, all
<1> QED BY <1>3, <1>4, <1>5, <1>6

\* Attention reads in the blocks of r the KV of r's own tokens.
Reads(c, k, tokens) ==
  \A i \in 1 .. Len(k.table) : c[k.table[i]] = PrefixTo(SubSeq(tokens, 1, k.cursor), i)
Sound(c, s, r) == Fits(s.req[r].kv) /\ Reads(c, s.req[r].kv, Tokens(s, r))

\* The last token of r is the one to compute; none is.
Behind(s, r) == s.req[r].kv.cursor + 1 = Len(Tokens(s, r))
Level(s, r)  == s.req[r].kv.cursor = Len(Tokens(s, r))

\* They depend on r's cache and tokens only.
LEMMA SameSound ==
  ASSUME NEW c, NEW s, NEW t, NEW r \in Request,
         t.req[r].kv = s.req[r].kv, t.req[r].gen = s.req[r].gen
  PROVE  /\ Sound(c, s, r) => Sound(c, t, r)
         /\ Behind(s, r) => Behind(t, r)
BY DEF Sound, Behind, Tokens

\* An empty cache reads nothing.
LEMMA FreshSound ==
  ASSUME NEW c, NEW s, NEW r \in Request, s.req[r].kv = FreshKV
  PROVE  Sound(c, s, r)
<1> DEFINE k == s.req[r].kv
<1>1. k.table = <<>> /\ k.cursor = 0
  BY FreshBare
<1> HIDE DEF k
<1>2. Fits(k)
  BY <1>1, CeilMonotone DEF Fits
<1>3. ASSUME NEW tokens PROVE Reads(c, k, tokens)
  <2>1. 1 .. Len(k.table) = {}
    BY <1>1
  <2> QED BY <2>1 DEF Reads
<1> QED BY <1>2, <1>3 DEF Sound, k

\* A table is no longer than the pool.
LEMMA TableBound ==
  ASSUME NEW t \in Table
  PROVE  Len(t) \in Nat /\ Len(t) <= NumBlocks /\ \A i \in 1 .. Len(t) : t[i] \in Block
<1>1. t \in Seq(Block) /\ NoDuplicates(t)
  BY DEF Table
<1>2. IsFiniteSet(Block) /\ Cardinality(Block) = NumBlocks
  BY NumBlocksAssumption, FS_Interval DEF Block
<1>3. Len(t) <= Cardinality(Block)
  BY <1>1, <1>2, ListBound
<1> QED BY <1>1, <1>2, <1>3, NumBlocksAssumption

\* The blocks a pass writes: those a member has at or after its old cursor.
Writes(s, q, j) ==
  /\ q \in ToSet(batch.members) /\ j \in 1 .. NumBlocks /\ j <= Len(s.req[q].kv.table)
  /\ sched.req[q].kv.cursor < j * BlockSize

\* A written block holds what its one writer wrote, the others what they held.
LEMMA WrittenAt ==
  ASSUME NEW s, Plain(s, lost), Members(batch, sched)
  PROVE  LET c == WrittenContent(s) IN
         /\ \A r \in Request, i \in Nat :
              Writes(s, r, i) => c[s.req[r].kv.table[i]] = WrittenBlock(s, r, i)
         /\ \A r \in Request : \A i \in 1 .. Len(s.req[r].kv.table) :
              ~Writes(s, r, i) => c[s.req[r].kv.table[i]] = content[s.req[r].kv.table[i]]
<1> DEFINE T(q)    == s.req[q].kv.table
           new     == {x \in ToSet(batch.members) \X (1 .. NumBlocks) :
                         x[2] <= Len(s.req[x[1]].kv.table) /\ sched.req[x[1]].kv.cursor < x[2] * BlockSize}
           at(b, x) == s.req[x[1]].kv.table[x[2]] = b
           c       == WrittenContent(s)
<1>1. c = [b \in Block |-> IF \E x \in new : at(b, x)
                           THEN LET x == CHOOSE x \in new : at(b, x) IN WrittenBlock(s, x[1], x[2])
                           ELSE content[b]]
  BY DEF WrittenContent
<1>2. \A b \in Block : (\E x \in new : at(b, x)) =>
        \E x \in new : at(b, x) /\ c[b] = WrittenBlock(s, x[1], x[2])
  <2> SUFFICES ASSUME NEW b \in Block, \E x \in new : at(b, x)
               PROVE  \E x \in new : at(b, x) /\ c[b] = WrittenBlock(s, x[1], x[2])
    OBVIOUS
  <2> DEFINE y == CHOOSE x \in new : at(b, x)
  <2>1. y \in new /\ at(b, y)
    OBVIOUS
  <2>2. c[b] = WrittenBlock(s, y[1], y[2])
    BY <1>1
  <2> HIDE DEF y, c, at, new
  <2> QED BY <2>1, <2>2
<1>3. \A b \in Block : ~(\E x \in new : at(b, x)) => c[b] = content[b]
  BY <1>1
<1>4. \A q \in ToSet(batch.members) : q \in Request
  BY DEF Members, ToSet
<1>5. \A x : x \in new => /\ x[1] \in Request /\ x[2] \in 1 .. NumBlocks /\ x[2] <= Len(T(x[1]))
                          /\ Writes(s, x[1], x[2]) /\ x = <<x[1], x[2]>>
  BY <1>4 DEF Writes
<1>6. \A q, j : Writes(s, q, j) => <<q, j>> \in new
  BY DEF Writes
<1>7. /\ \A q \in Request : T(q) \in Table /\ Len(T(q)) \in Nat /\ Len(T(q)) <= NumBlocks
      /\ \A q \in Request : \A j \in 1 .. Len(T(q)) : T(q)[j] \in Block
  BY TableBound DEF Plain, Bare
<1> HIDE DEF c, new
<1>8. ASSUME NEW q \in Request, NEW j \in 1 .. Len(T(q)), NEW r \in Request, NEW i \in 1 .. Len(T(r)),
             T(q)[j] = T(r)[i]
      PROVE  q = r /\ j = i
  <2>1. T(r)[i] \in Block /\ Contains(T(r), T(r)[i]) /\ Contains(T(q), T(r)[i])
    BY <1>7, <1>8 DEF Contains
  <2>2. q = r
    BY <2>1 DEF Plain, Owned, Shared, Tables
  <2>3. NoDuplicates(T(r))
    BY <1>7 DEF Table
  <2> QED BY <1>8, <2>2, <2>3 DEF NoDuplicates
<1>9. ASSUME NEW r \in Request, NEW i \in 1 .. Len(T(r)), NEW x \in new, at(T(r)[i], x)
      PROVE  x[1] = r /\ x[2] = i /\ Writes(s, r, i)
  <2>1. x[1] \in Request /\ x[2] \in 1 .. Len(T(x[1])) /\ T(x[1])[x[2]] = T(r)[i] /\ Writes(s, x[1], x[2])
    BY <1>5, <1>7, <1>9
  <2> DEFINE q == x[1]
             j == x[2]
  <2>2. q \in Request /\ j \in 1 .. Len(T(q)) /\ T(q)[j] = T(r)[i]
    BY <2>1
  <2> HIDE DEF q, j, T
  <2>3. q = r /\ j = i
    BY <1>8, <2>2
  <2> QED BY <2>1, <2>3 DEF q, j
<1>10. ASSUME NEW r \in Request, NEW i \in Nat, Writes(s, r, i)
       PROVE  c[T(r)[i]] = WrittenBlock(s, r, i)
  <2>1. i \in 1 .. Len(T(r)) /\ T(r)[i] \in Block
    BY <1>7, <1>10 DEF Writes
  <2>2. <<r, i>> \in new /\ at(T(r)[i], <<r, i>>)
    BY <1>6, <1>10
  <2>3. PICK x \in new : at(T(r)[i], x) /\ c[T(r)[i]] = WrittenBlock(s, x[1], x[2])
    BY <1>2, <2>1, <2>2
  <2>4. x[1] = r /\ x[2] = i
    BY <1>9, <2>1, <2>3
  <2> QED BY <2>3, <2>4
<1>11. ASSUME NEW r \in Request, NEW i \in 1 .. Len(T(r)), ~Writes(s, r, i)
       PROVE  c[T(r)[i]] = content[T(r)[i]]
  BY <1>3, <1>7, <1>9, <1>11
<1> QED BY <1>10, <1>11 DEF c

\* Multiples of the block size around a position.
LEMMA Around ==
  ASSUME NEW n \in Nat, NEW i \in Nat \ {0}
  PROVE  /\ i * BlockSize \in Nat /\ (i - 1) * BlockSize \in Nat
         /\ (i - 1) * BlockSize < n => i <= BlocksNeeded(n)
         /\ i * BlockSize <= n => i <= BlocksNeeded(n)
         /\ BlockSize = 1 => (i * BlockSize = i /\ (i - 1) * BlockSize = i - 1)
<1> DEFINE b == BlocksNeeded(n)
<1>1. BlockSize \in Nat \ {0} /\ i - 1 \in Nat
  BY BlockSizeAssumption
<1>2. i * BlockSize \in Nat /\ (i - 1) * BlockSize \in Nat /\ (i - 1) * BlockSize <= i * BlockSize
  <2>1. i * BlockSize = (i - 1) * BlockSize + BlockSize
    BY <1>1
  <2>2. (i - 1) * BlockSize \in Nat
    BY <1>1
  <2> DEFINE d == (i - 1) * BlockSize
  <2>3. d \in Nat /\ i * BlockSize = d + BlockSize
    BY <2>1, <2>2
  <2> HIDE DEF d
  <2>4. d + BlockSize \in Nat /\ d <= d + BlockSize
    BY <1>1, <2>3
  <2> QED BY <2>3, <2>4 DEF d
<1>3. b \in Nat /\ n <= b * BlockSize
  BY Ceil
<1> HIDE DEF b
<1>4. ASSUME b < i PROVE n <= (i - 1) * BlockSize /\ n < i * BlockSize
  <2>1. b * BlockSize \in Int
    BY <1>3, Apart
  <2>2. b * BlockSize <= (i - 1) * BlockSize
    <3>1. CASE b = i - 1
      BY <1>2, <3>1
    <3>2. CASE b < i - 1
      <4>1. b * BlockSize + BlockSize <= (i - 1) * BlockSize
        BY <1>1, <1>3, <3>2, Apart
      <4> QED BY <1>1, <1>2, <2>1, <4>1
    <3> QED BY <1>3, <1>4, <3>1, <3>2
  <2>3. b * BlockSize + BlockSize <= i * BlockSize
    BY <1>3, <1>4, Apart
  <2> DEFINE c == b * BlockSize
             d == (i - 1) * BlockSize
             e == i * BlockSize
  <2>4. c \in Int /\ d \in Nat /\ e \in Nat /\ n <= c /\ c <= d /\ c + BlockSize <= e
    BY <1>2, <1>3, <2>1, <2>2, <2>3
  <2> HIDE DEF c, d, e
  <2>5. n <= d /\ n < e
    BY <1>1, <2>4
  <2> QED BY <2>5 DEF d, e
<1> DEFINE d == (i - 1) * BlockSize
           e == i * BlockSize
<1>5. d \in Nat /\ e \in Nat /\ (b < i => n <= d /\ n < e)
  BY <1>2, <1>4
<1>6. BlockSize = 1 => e = i /\ d = i - 1
  OBVIOUS
<1> HIDE DEF d, e
<1>7. (d < n => i <= b) /\ (e <= n => i <= b)
  BY <1>3, <1>5
<1> QED BY <1>5, <1>6, <1>7 DEF b, d, e

\* A member of the batch reads its own tokens after the pass as well.
LEMMA MemberReads ==
  ASSUME NEW s, Plain(sched, lost), Plain(s, lost), Members(batch, sched), NEW r \in ToSet(batch.members), r \in Request,
         s.req[r].gen = sched.req[r].gen, Sound(content, sched, r),
         NEW more \in Nat, Stretched(sched.req[r].kv, s.req[r].kv, more),
         sched.req[r].kv.cursor + more = Len(Tokens(sched, r))
  PROVE  Sound(WrittenContent(s), s, r) /\ Level(s, r)
<1> DEFINE k == sched.req[r].kv
           g == s.req[r].kv
           q == Tokens(s, r)
           c == WrittenContent(s)
           n == Len(q)
           first == k.cursor
<1>1. q = Tokens(sched, r) /\ Sequence(q) /\ n \in Nat
  <2>1. q = Tokens(sched, r)
    BY DEF Tokens
  <2> QED BY <2>1, TokensAre DEF Plain
<1>2. Fits(k) /\ Reads(content, k, q)
  BY <1>1 DEF Sound
<1>3. /\ \E ids \in Table : g.table = k.table \o ids
      /\ g.cursor = n /\ (BlockSize = 1 /\ first # 0 => g.table = k.table) /\ Fits(g)
  BY <1>1, <1>2 DEF Stretched
<1>4. first \in Nat /\ first <= n /\ k.table \in Table /\ g.table \in Table
  <2>1. first \in Nat /\ k.table \in Table /\ g.table \in Table
    BY DEF Plain, Bare
  <2>2. first + more = n
    BY <1>1
  <2> HIDE DEF first, n, k, g
  <2> QED BY <1>1, <2>1, <2>2
<1>5. /\ BlockSize \in Nat \ {0} /\ (BlockSize = 1 \/ BlockSize > 1)
      /\ BlockSize > 1 => Len(k.table) = BlocksNeeded(first)
  BY <1>2, BlockSizeAssumption DEF Fits
<1>6. \A i \in Nat : WrittenBlock(s, r, i)
        = IF first <= (i - 1) * BlockSize \/ content[g.table[i]] = SubSeq(SubSeq(q, 1, n), 1, first)
          THEN PrefixTo(SubSeq(q, 1, n), i) ELSE <<Junk>>
  BY <1>3 DEF WrittenBlock
<1>7. /\ \A i \in Nat : Writes(s, r, i) => c[g.table[i]] = WrittenBlock(s, r, i)
      /\ \A i \in 1 .. Len(g.table) : ~Writes(s, r, i) => c[g.table[i]] = content[g.table[i]]
  BY WrittenAt
<1>8. \A i : Writes(s, r, i) <=> i \in 1 .. NumBlocks /\ i <= Len(g.table) /\ first < i * BlockSize
  BY DEF Writes
<1> HIDE DEF k, g, q, c, n, first
<1>9. SubSeq(SubSeq(q, 1, n), 1, first) = SubSeq(q, 1, first)
  BY <1>1, <1>4, FirstOfFirst DEF n
<1>10. \A i \in Nat : /\ PrefixTo(SubSeq(q, 1, n), i)
                         = IF i * BlockSize <= n THEN SubSeq(q, 1, i * BlockSize) ELSE SubSeq(q, 1, n)
                      /\ PrefixTo(SubSeq(q, 1, first), i)
                         = IF i * BlockSize <= first THEN SubSeq(q, 1, i * BlockSize) ELSE SubSeq(q, 1, first)
  <2>1. n <= n
    BY <1>1
  <2> QED BY <1>1, <1>4, <2>1, PrefixIs DEF n
<1>11. /\ Len(k.table) \in Nat /\ Len(g.table) \in Nat /\ Len(g.table) <= NumBlocks
       /\ \A i \in 1 .. Len(k.table) : g.table[i] = k.table[i]
  <2>1. PICK ids \in Table : g.table = k.table \o ids
    BY <1>3
  <2>2. k.table \in Seq(Block) /\ ids \in Seq(Block)
    BY <1>4, <2>1 DEF Table
  <2>3. \A i \in 1 .. Len(k.table) : g.table[i] = k.table[i]
    <3> DEFINE t == k.table
               w == t \o ids
    <3> HIDE DEF t
    <3>1. t \in Seq(Block)
      BY <2>2 DEF t
    <3>2. \A i \in 1 .. Len(t) : w[i] = t[i]
      BY <2>2, <3>1
    <3> QED BY <2>1, <3>2 DEF t
  <2> QED BY <1>4, <2>3, TableBound
<1>12. \A i \in 1 .. Len(k.table) : content[g.table[i]] = PrefixTo(SubSeq(q, 1, first), i)
  BY <1>2, <1>11 DEF Reads, first
<1>13. ASSUME NEW i \in 1 .. Len(g.table)
       PROVE  c[g.table[i]] = PrefixTo(SubSeq(q, 1, n), i)
  <2> DEFINE d == (i - 1) * BlockSize
             e == i * BlockSize
  <2>1. i \in Nat \ {0} /\ i \in 1 .. NumBlocks /\ i <= Len(g.table)
    BY <1>11, NumBlocksAssumption
  <2>2. /\ e \in Nat /\ d \in Nat /\ (d < first => i <= BlocksNeeded(first))
        /\ (e <= first => i <= BlocksNeeded(first)) /\ (BlockSize = 1 => e = i /\ d = i - 1)
    BY <1>4, <2>1, Around
  <2>3. Writes(s, r, i) <=> first < e
    BY <1>8, <2>1
  <2>4. /\ first <= d \/ content[g.table[i]] = SubSeq(q, 1, first)
           => WrittenBlock(s, r, i) = PrefixTo(SubSeq(q, 1, n), i)
        /\ PrefixTo(SubSeq(q, 1, n), i) = IF e <= n THEN SubSeq(q, 1, e) ELSE SubSeq(q, 1, n)
        /\ PrefixTo(SubSeq(q, 1, first), i) = IF e <= first THEN SubSeq(q, 1, e) ELSE SubSeq(q, 1, first)
    BY <1>6, <1>9, <1>10, <2>1
  <2> HIDE DEF d, e
  <2>5. CASE first < e
    <3>1. c[g.table[i]] = WrittenBlock(s, r, i)
      BY <1>7, <2>1, <2>3, <2>5
    <3>2. first <= d \/ content[g.table[i]] = SubSeq(q, 1, first)
      <4>1. CASE first <= d
        BY <4>1
      <4>2. CASE d < first
        <5>1. BlockSize > 1 /\ i <= BlocksNeeded(first)
          BY <1>4, <1>5, <2>1, <2>2, <2>5, <4>2
        <5>2. i \in 1 .. Len(k.table)
          BY <1>5, <2>1, <5>1
        <5>3. ~(e <= first)
          BY <1>4, <2>2, <2>5
        <5> QED BY <1>12, <2>4, <5>2, <5>3
      <4> QED BY <1>4, <2>2, <4>1, <4>2
    <3> QED BY <2>4, <3>1, <3>2
  <2>6. CASE e <= first
    <3>1. c[g.table[i]] = content[g.table[i]]
      <4>1. ~(first < e)
        BY <1>4, <2>2, <2>6
      <4> QED BY <1>7, <2>3, <4>1
    <3>2. i \in 1 .. Len(k.table)
      <4>1. CASE BlockSize > 1
        <5>1. i <= Len(k.table)
          BY <1>5, <2>2, <2>6, <4>1
        <5> QED BY <1>11, <2>1, <5>1
      <4>2. CASE BlockSize = 1
        <5>1. first # 0
          BY <1>4, <2>1, <2>2, <2>6, <4>2
        <5> QED BY <1>3, <4>2, <5>1
      <4> QED BY <1>5, <4>1, <4>2
    <3>3. e <= n
      BY <1>1, <1>4, <2>2, <2>6
    <3> QED BY <1>12, <2>4, <2>6, <3>1, <3>2, <3>3
  <2> QED BY <1>4, <2>2, <2>5, <2>6
<1>14. Reads(c, g, q)
  BY <1>3, <1>13 DEF Reads
<1> QED BY <1>3, <1>14 DEF Sound, Level, g, q, c, n

\* Who is not in the batch keeps what his blocks held.
LEMMA OtherReads ==
  ASSUME NEW s, Plain(s, lost), Members(batch, sched), NEW r \in Request, r \notin ToSet(batch.members),
         s.req[r].kv = sched.req[r].kv, s.req[r].gen = sched.req[r].gen, Sound(content, sched, r)
  PROVE  Sound(WrittenContent(s), s, r)
<1> DEFINE g == s.req[r].kv
           c == WrittenContent(s)
<1>1. Fits(g) /\ Reads(content, g, Tokens(s, r))
  BY DEF Sound, Tokens
<1>2. \A i \in 1 .. Len(g.table) : c[g.table[i]] = content[g.table[i]]
  <2>1. \A i : ~Writes(s, r, i)
    BY DEF Writes
  <2> QED BY <2>1, WrittenAt
<1> QED BY <1>1, <1>2 DEF Sound, Reads

\* What every running request reads, and how far it is.
Reading(s, r) ==
  /\ pc # "raised" => Sound(content, s, r)
  /\ pc \in {"loop", "sleep", "dead"} => Behind(s, r)
  /\ pc = "forward" => IF batch.is_decode = FALSE /\ r \in ToSet(batch.members)
                       THEN s.req[r].kv = FreshKV ELSE Behind(s, r)
  /\ pc = "returned" => IF r \in ToSet(batch.members) THEN Level(s, r) ELSE Behind(s, r)

\* The inductive invariant of what is read.
ReadInv == PlainInv /\ \A r \in Request : r \in ToSet(sched.running) => Reading(sched, r)

\* Who runs on reads what he read.
LEMMA FreerReads ==
  ASSUME NEW s, NEW t, Freer(s, t), NEW c,
         \A r \in Request : r \in ToSet(s.running) => Sound(c, s, r) /\ Behind(s, r)
  PROVE  \A r \in Request : r \in ToSet(t.running) => Sound(c, t, r) /\ Behind(t, r)
<1> SUFFICES ASSUME NEW r \in Request, r \in ToSet(t.running)
             PROVE  Sound(c, t, r) /\ Behind(t, r)
  OBVIOUS
<1>1. r \in ToSet(s.running) /\ t.req[r].gen = s.req[r].gen /\ t.req[r].kv = s.req[r].kv
  BY DEF Freer
<1> QED BY <1>1, SameSound

\* A tick launches the new requests with empty caches, and the others one
\* token behind.
LEMMA TickReads ==
  ASSUME ReadInv, Tick
  PROVE  \A r \in Request : r \in ToSet(sched'.running) => Reading(sched, r)'
<1>1. /\ PlainInv /\ IInv /\ Plain(sched, lost) /\ pc = "loop" /\ Once(arrived)
      /\ \A r \in Request : r \in ToSet(sched.running) => Sound(content, sched, r) /\ Behind(sched, r)
  BY DEF ReadInv, PlainInv, IInv, Reading, Tick
<1>2. PICK z, a : /\ Strong(z, arrived) /\ Plain(z, lost) /\ Freer(sched, z)
                  /\ Admits(a, z) /\ Strong(a.s, arrived) /\ Plain(a.s, lost)
                  /\ ToSet(a.prefills) \subseteq ToSet(a.s.running) /\ NoDuplicates(a.prefills)
                  /\ \A r \in ToSet(a.prefills) : r \in Request /\ r \notin ToSet(z.running)
                  /\ LaunchPrefill(a) \/ LaunchDecode(a) \/ NothingToDo(a)
  BY <1>1, TickPlain
<1>3. \A r \in Request : r \in ToSet(z.running) => Sound(content, z, r) /\ Behind(z, r)
  BY <1>1, <1>2, FreerReads
<1>4. /\ a.s.req = z.req /\ ToSet(a.s.running) = ToSet(z.running) \cup ToSet(a.prefills)
  <2> DEFINE p   == a.prefills
             run == z.running
             w   == a.s.waiting
  <2>1. p \in Seq(Request) /\ a.s = Data(z, run \o p, w, z.tree, z.pool, z.req)
    BY <1>2 DEF Admits, Moved
  <2>2. run \in Seq(Request)
    BY <1>2 DEF Strong, Weak, Shell
  <2> HIDE DEF p, run, w
  <2>3. a.s.running = run \o p /\ a.s.req = z.req
    BY <2>1 DEF Data
  <2>4. ToSet(run \o p) = ToSet(run) \cup ToSet(p)
    BY <2>1, <2>2, SetOfConcat
  <2> QED BY <2>3, <2>4 DEF p, run
<1>5. \A r \in Request : r \in ToSet(z.running) => Sound(content, a.s, r) /\ Behind(a.s, r)
  BY <1>3, <1>4, SameSound
<1>6. \A r \in Request : r \in ToSet(a.prefills) => a.s.req[r].kv = FreshKV /\ Sound(content, a.s, r)
  <2>1. \A r \in Request : r \in ToSet(a.prefills) => a.s.req[r].kv = FreshKV
    BY <1>2, <1>4 DEF Strong, Holders, Empty
  <2> QED BY <2>1, FreshSound
<1>7. content' = content
  BY DEF Tick
<1>8. ASSUME NEW s, sched' = s
      PROVE  \A r \in Request : (Behind(s, r) => Behind(sched, r)') /\ (Sound(content, s, r) => Sound(content, sched, r)')
  BY <1>7, <1>8 DEF Behind, Sound, Tokens, Fits, Reads
<1>9. CASE LaunchPrefill(a)
  <2>1. sched' = a.s /\ batch' = [members |-> a.prefills, is_decode |-> FALSE] /\ pc' = "forward"
    BY <1>9 DEF LaunchPrefill, Launch
  <2>2. batch'.members = a.prefills /\ batch'.is_decode = FALSE
    BY <2>1
  <2>3. ASSUME NEW r \in Request, r \in ToSet(sched'.running) PROVE Reading(sched, r)'
    <3>1. CASE r \in ToSet(a.prefills)
      BY <1>6, <1>8, <2>1, <2>2, <3>1 DEF Reading
    <3>2. CASE r \notin ToSet(a.prefills)
      <4>1. Sound(content, a.s, r) /\ Behind(a.s, r)
        BY <1>4, <1>5, <2>1, <2>3, <3>2
      <4> QED BY <1>8, <2>1, <2>2, <3>2, <4>1 DEF Reading
    <3> QED BY <3>1, <3>2
  <2> QED BY <2>3
<1>10. CASE LaunchDecode(a)
  <2> DEFINE s == Preempt(a.s)
  <2>1. /\ sched' = s /\ batch' = [members |-> s.running, is_decode |-> TRUE] /\ pc' = "forward"
        /\ a.prefills = <<>>
    BY <1>10 DEF LaunchDecode, Launch
  <2>2. Freer(a.s, s)
    BY <1>1, <1>2, PreemptPlain
  <2>3. ToSet(a.prefills) = {}
    BY <2>1 DEF ToSet
  <2>4. \A r \in Request : r \in ToSet(s.running) => Sound(content, s, r) /\ Behind(s, r)
    <3>1. \A r \in Request : r \in ToSet(a.s.running) => Sound(content, a.s, r) /\ Behind(a.s, r)
      BY <1>4, <1>5, <2>3
    <3> HIDE DEF s
    <3> QED BY <2>2, <3>1, FreerReads
  <2> HIDE DEF s
  <2>5. batch'.is_decode = TRUE
    BY <2>1
  <2> QED BY <1>8, <2>1, <2>4, <2>5 DEF Reading
<1>11. CASE NothingToDo(a)
  <2>1. sched' = a.s /\ pc' \in {"sleep", "loop"} /\ a.prefills = <<>>
    BY <1>11 DEF NothingToDo
  <2>2. ToSet(a.prefills) = {}
    BY <2>1 DEF ToSet
  <2> QED BY <1>4, <1>5, <1>8, <2>1, <2>2 DEF Reading
<1> QED BY <1>2, <1>9, <1>10, <1>11

\* After a token more the requests of the batch are one behind again.
LEMMA DeliverReads ==
  ASSUME ~UseRadix, ReadInv, Deliver
  PROVE  \A r \in Request : r \in ToSet(sched'.running) => Reading(sched, r)'
<1>1. /\ PlainInv /\ IInv /\ Plain(sched, lost) /\ pc = "returned" /\ Once(arrived) /\ Strong(sched, arrived)
      /\ Shell(sched) /\ Members(batch, sched)
      /\ \A r \in Request : r \in ToSet(sched.running) =>
           Sound(content, sched, r) /\ IF r \in ToSet(batch.members) THEN Level(sched, r) ELSE Behind(sched, r)
  <2>1. PlainInv /\ IInv /\ pc = "returned"
    BY DEF ReadInv, PlainInv, Deliver
  <2>2. Plain(sched, lost) /\ Once(arrived) /\ Strong(sched, arrived) /\ Shell(sched) /\ Members(batch, sched)
    BY <2>1 DEF PlainInv, IInv, Strong, Weak
  <2> QED BY <2>1, <2>2 DEF ReadInv, Reading
<1>2. PICK next : \E u \in {FinishAll(Answer(sched, next))} :
          IF u.ok THEN /\ sched' = u.s /\ out' = Answered(next) /\ streak' = 0
                       /\ pc' = "loop" /\ batch' = NoBatch
                  ELSE Crash(u.s, Answered(next))
  BY DEF Deliver
<1> DEFINE g == Answer(sched, next)
           u == FinishAll(g)
           s == u.s
<1>3. /\ Weak(g, arrived) /\ Holders(g) /\ WaitersUnfinished(g) /\ Plain(g, lost) /\ g.running = sched.running
      /\ \A r \in Request :
           /\ g.req[r].kv = sched.req[r].kv
           /\ g.req[r].gen = IF r \in ToSet(batch.members) THEN Append(sched.req[r].gen, next[r])
                                                           ELSE sched.req[r].gen
  BY <1>1, AnswerKeeps, AnswerPlain
<1>4. IF u.ok THEN sched' = s /\ pc' = "loop" ELSE Crash(s, Answered(next))
  BY <1>2
<1> HIDE DEF g
<1>5. u.ok = TRUE /\ Freer(g, s)
  BY <1>1, <1>3, FinishAllPlain
<1> HIDE DEF u
<1>6. \A r \in Request : r \in ToSet(g.running) => Sound(content, g, r) /\ Behind(g, r)
  <2> SUFFICES ASSUME NEW r \in Request, r \in ToSet(g.running) PROVE Sound(content, g, r) /\ Behind(g, r)
    OBVIOUS
  <2>1. Sound(content, sched, r) /\ IF r \in ToSet(batch.members) THEN Level(sched, r) ELSE Behind(sched, r)
    BY <1>1, <1>3
  <2>2. CASE r \notin ToSet(batch.members)
    BY <1>3, <2>1, <2>2, SameSound
  <2>3. CASE r \in ToSet(batch.members)
    <3> DEFINE k == sched.req[r].kv
               p == Tokens(sched, r)
               q == Tokens(g, r)
    <3>1. k.cursor = Len(p) /\ g.req[r].kv = k /\ Fits(k) /\ Reads(content, k, p)
      BY <1>3, <2>1, <2>3 DEF Level, Sound
    <3>2. q = Append(p, next[r]) /\ Sequence(p) /\ Len(p) \in Nat
      <4>1. Sequence(sched.req[r].gen) /\ g.req[r].gen = Append(sched.req[r].gen, next[r])
        BY <1>1, <1>3, <2>3 DEF Plain
      <4>2. Sequence(p) /\ Len(p) \in Nat
        BY <4>1, TokensAre
      <4>3. q = Append(p, next[r])
        <5> DEFINE d == sched
                   x == next[r]
        <5>1. Sequence(d.req[r].gen) /\ g.req[r].gen = Append(d.req[r].gen, x)
          BY <4>1
        <5> HIDE DEF d, x
        <5>2. Tokens(g, r) = Append(Tokens(d, r), x)
          BY <5>1, TokensLonger
        <5> QED BY <5>2 DEF d, x
      <4> QED BY <4>2, <4>3
    <3> HIDE DEF k, p, q
    <3>3. Len(q) = Len(p) + 1 /\ SubSeq(q, 1, k.cursor) = SubSeq(p, 1, k.cursor)
      BY <3>1, <3>2, LongerSequence, FirstOfLonger
    <3>4. Reads(content, k, q)
      BY <3>1, <3>3 DEF Reads
    <3> QED BY <3>1, <3>3, <3>4 DEF Sound, Behind, k, p, q
  <2> QED BY <2>2, <2>3
<1> HIDE DEF s
<1>7. \A r \in Request : r \in ToSet(s.running) => Sound(content, s, r) /\ Behind(s, r)
  BY <1>5, <1>6, FreerReads
<1>8. sched' = s /\ pc' = "loop" /\ content' = content
  BY <1>4, <1>5 DEF Deliver, s
<1>9. \A r \in Request : (Behind(s, r) => Behind(sched, r)') /\ (Sound(content, s, r) => Sound(content, sched, r)')
  BY <1>8 DEF Behind, Sound, Tokens, Fits, Reads
<1> QED BY <1>7, <1>8, <1>9 DEF Reading

\* A pass that ends writes each member's new tokens after the ones it read.
LEMMA ForwardReads ==
  ASSUME ReadInv, Forward \/ ForwardFails
  PROVE  \A r \in Request : r \in ToSet(sched'.running) => Reading(sched, r)'
<1>1. /\ PlainInv /\ IInv /\ Plain(sched, lost) /\ pc = "forward" /\ Once(arrived) /\ Strong(sched, arrived)
      /\ Members(batch, sched) /\ Batched /\ Len(batch.members) \in Nat
      /\ \A r \in Request : r \in ToSet(sched.running) =>
           /\ Sound(content, sched, r)
           /\ IF batch.is_decode = FALSE /\ r \in ToSet(batch.members)
              THEN sched.req[r].kv = FreshKV ELSE Behind(sched, r)
  <2>1. PlainInv /\ IInv /\ pc = "forward"
    BY DEF ReadInv, PlainInv, Forward, ForwardFails
  <2>2. Plain(sched, lost) /\ Once(arrived) /\ Strong(sched, arrived) /\ Members(batch, sched) /\ Batched
    BY <2>1 DEF PlainInv, IInv
  <2> QED BY <2>1, <2>2 DEF ReadInv, Reading, Members
<1>2. CASE pc' = "raised"
  BY <1>2 DEF Reading
<1>3. CASE pc' # "raised"
  <2> DEFINE u == PrepareBatch(Len(batch.members))
             s == u.s
             c == WrittenContent(s)
  <2>1. u.ok /\ sched' = s /\ content' = c /\ pc' = "returned" /\ batch' = batch
    BY <1>3 DEF Forward, ForwardFails
  <2>2. Len(batch.members) \in 0 .. Len(batch.members)
    BY <1>1
  <2>3. Plain(s, lost) /\ (\A r \in Request : s.req[r].gen = sched.req[r].gen) /\ Prepared(s, Len(batch.members))
    BY <1>1, <2>1, <2>2, PreparePlain DEF Batched
  <2>4. sched'.running = sched.running
    BY <1>1, ForwardIs
  <2> HIDE DEF u, s
  <2>5. ASSUME NEW r \in Request, r \in ToSet(sched.running), r \in ToSet(batch.members)
        PROVE  Sound(c, s, r) /\ Level(s, r)
    <3> DEFINE more == NewTokens(sched, r)
    <3>1. \E i \in 1 .. Len(batch.members) : batch.members[i] = r
      BY <2>5 DEF Members, ToSet
    <3>2. Stretched(sched.req[r].kv, s.req[r].kv, more)
      BY <2>3, <3>1 DEF Prepared
    <3>3. Len(Tokens(sched, r)) \in Nat \ {0}
      BY <1>1, TokensAre DEF Plain
    <3>4. more \in Nat /\ sched.req[r].kv.cursor + more = Len(Tokens(sched, r))
      <4>1. CASE batch.is_decode = TRUE
        <5>1. more = 1 /\ Behind(sched, r)
          BY <1>1, <2>5, <4>1 DEF NewTokens
        <5> QED BY <5>1 DEF Behind
      <4>2. CASE batch.is_decode = FALSE
        <5>1. sched.req[r].kv = FreshKV /\ more = Len(Tokens(sched, r)) - sched.req[r].kv.cursor
          BY <1>1, <2>5, <4>2 DEF NewTokens
        <5>2. sched.req[r].kv.cursor = 0
          BY <5>1, FreshBare
        <5> HIDE DEF more
        <5> QED BY <3>3, <5>1, <5>2
      <4> QED BY <1>1, <4>1, <4>2 DEF Batched
    <3> HIDE DEF more
    <3>5. s.req[r].gen = sched.req[r].gen /\ Sound(content, sched, r)
      BY <1>1, <2>3, <2>5
    <3> QED BY <1>1, <2>3, <2>5, <3>2, <3>4, <3>5, MemberReads
  <2>6. ASSUME NEW r \in Request, r \in ToSet(sched.running), r \notin ToSet(batch.members)
        PROVE  Sound(c, s, r) /\ Behind(s, r)
    <3>1. ~ \E i \in 1 .. Len(batch.members) : batch.members[i] = r
      BY <2>6 DEF ToSet
    <3>2. s.req[r].kv = sched.req[r].kv /\ s.req[r].gen = sched.req[r].gen
      BY <2>3, <3>1 DEF Prepared
    <3>3. Sound(content, sched, r) /\ Behind(sched, r)
      BY <1>1, <2>6
    <3>4. Behind(s, r)
      BY <3>2, <3>3, SameSound
    <3> QED BY <1>1, <2>3, <2>6, <3>2, <3>3, <3>4, OtherReads
  <2> HIDE DEF c
  <2>7. \A r \in Request : /\ Behind(s, r) => Behind(sched, r)'
                           /\ Level(s, r) => Level(sched, r)'
                           /\ Sound(c, s, r) => Sound(content, sched, r)'
    BY <2>1 DEF Behind, Level, Sound, Tokens, Fits, Reads
  <2> QED BY <2>1, <2>4, <2>5, <2>6, <2>7 DEF Reading
<1> QED BY <1>2, <1>3

\* At first nobody runs.
LEMMA ReadInit ==
  ASSUME Init
  PROVE  ReadInv
<1>1. sched.running = <<>>
  BY DEF Init
<1>2. ToSet(sched.running) = {}
  BY <1>1 DEF ToSet
<1> QED BY <1>2, PlainInit DEF ReadInv

\* Every step keeps it.
LEMMA ReadStep ==
  ASSUME ~UseRadix, ReadInv, [Next]_vars
  PROVE  ReadInv'
<1>1. PlainInv /\ PlainInv' /\ IInv /\ Once(arrived) /\ Strong(sched, arrived) /\ Weak(sched, arrived)
  BY PlainStep DEF ReadInv, PlainInv, IInv, Strong
<1> DEFINE Same == /\ content' = content /\ batch' = batch
                   /\ sched'.running = sched.running /\ sched'.req = sched.req
<1>2. ASSUME Same, pc' = pc \/ (pc \in {"loop", "sleep"} /\ pc' \in {"loop", "sleep"}) PROVE ReadInv'
  <2>1. \A r \in Request : /\ Behind(sched, r) => Behind(sched, r)'
                           /\ Level(sched, r) => Level(sched, r)'
                           /\ Sound(content, sched, r) => Sound(content, sched, r)'
    BY <1>2 DEF Behind, Level, Sound, Tokens, Fits, Reads
  <2>2. ASSUME NEW r \in Request, Reading(sched, r) PROVE Reading(sched, r)'
    BY <1>2, <2>1, <2>2 DEF Reading
  <2>3. ToSet(sched'.running) = ToSet(sched.running)
    BY <1>2
  <2>4. \A r \in Request : r \in ToSet(sched.running) => Reading(sched, r)
    BY DEF ReadInv
  <2>5. \A r \in Request : r \in ToSet(sched'.running) => Reading(sched, r)'
    BY <2>2, <2>3, <2>4
  <2> QED BY <1>1, <2>5 DEF ReadInv
<1>3. ASSUME NEW r \in Request, Submit(r) PROVE ReadInv'
  BY <1>1, <1>2, <1>3, SubmitIs DEF Submit
<1>4. ASSUME NEW r \in Request, Abort(r) PROVE ReadInv'
  BY <1>2, <1>4 DEF Abort
<1>5. CASE Idle \/ Wake
  BY <1>2, <1>5 DEF Idle, Wake
<1>6. CASE Tick
  <2>1. \A r \in Request : r \in ToSet(sched'.running) => Reading(sched, r)'
    BY <1>6, TickReads
  <2> QED BY <1>1, <2>1 DEF ReadInv
<1>7. CASE Deliver
  <2>1. \A r \in Request : r \in ToSet(sched'.running) => Reading(sched, r)'
    BY <1>7, DeliverReads
  <2> QED BY <1>1, <2>1 DEF ReadInv
<1>8. CASE Raised
  <2>1. ToSet(Queue(sched')) = {} /\ Strong(sched', arrived)
    BY <1>1, <1>8, CrashKeeps DEF Raised
  <2>2. ToSet(sched'.running) = {}
    BY <2>1, QueueIs DEF Strong, Weak
  <2> QED BY <1>1, <2>2 DEF ReadInv
<1>9. CASE Forward \/ ForwardFails
  <2>1. \A r \in Request : r \in ToSet(sched'.running) => Reading(sched, r)'
    BY <1>9, ForwardReads
  <2> QED BY <1>1, <2>1 DEF ReadInv
<1>10. CASE UNCHANGED vars
  BY <1>2, <1>10 DEF vars
<1>11. ~AdoptFails
  BY DEF AdoptFails
<1> QED BY <1>3, <1>4, <1>5, <1>6, <1>7, <1>8, <1>9, <1>10, <1>11 DEF Next, Loop

\* The way up from the root is the root.
LEMMA RootPath == PathUp(Tree0, Root) = <<Root>>
<1> DEFINE Turn(p)    == IF Last(p) = Root THEN p ELSE Append(p, Tree0.node[Last(p)].parent)
           first      == <<Root>>
           Runs(f, n) == f = [i \in 0 .. n |-> IF i = 0 THEN first
                                               ELSE CHOOSE u \in {Turn(r) : r \in {f[i - 1]}} : TRUE]
           g          == [i \in 0 .. 1 |-> first]
           h          == CHOOSE f : Runs(f, 1)
<1>1. PathUp(Tree0, Root) = h[1]
  BY RootOnly DEF PathUp, Iterate
<1>2. Turn(first) = first
  BY DEF Last
<1> HIDE DEF Turn, first
<1>3. Runs(g, 1)
  <2>1. \A i \in 0 .. 1 : i = 0 \/ i - 1 \in 0 .. 1
    OBVIOUS
  <2>2. ASSUME NEW i \in 0 .. 1
        PROVE  g[i] = IF i = 0 THEN first ELSE CHOOSE u \in {Turn(r) : r \in {g[i - 1]}} : TRUE
    <3>1. CASE i = 0
      BY <3>1
    <3>2. CASE i # 0
      <4>1. g[i - 1] = first /\ g[i] = first
        BY <2>1, <3>2
      <4>2. (CHOOSE u \in {Turn(r) : r \in {first}} : TRUE) = Turn(first)
        OBVIOUS
      <4> HIDE DEF g
      <4> QED BY <1>2, <3>2, <4>1, <4>2
    <3> QED BY <3>1, <3>2
  <2>3. g = [i \in 0 .. 1 |-> g[i]]
    OBVIOUS
  <2> HIDE DEF g
  <2> QED BY <2>2, <2>3
<1>4. Runs(h, 1)
  BY <1>3
<1> HIDE DEF h, g
<1>5. h[0] = first /\ h[1] = CHOOSE u \in {Turn(r) : r \in {h[0]}} : TRUE
  <2>1. 0 \in 0 .. 1 /\ 1 \in 0 .. 1 /\ 1 # 0 /\ 1 - 1 = 0
    OBVIOUS
  <2> QED BY <1>4, <2>1
<1>6. (CHOOSE u \in {Turn(r) : r \in {h[0]}} : TRUE) = Turn(h[0])
  OBVIOUS
<1> QED BY <1>1, <1>2, <1>5, <1>6 DEF first

\* No blocks are filed on it.
LEMMA RootChain == Chain(Tree0, Root).blocks = <<>>
<1> DEFINE Turn(s)    == [at     |-> Tree0.node[s.at].parent,
                          tokens |-> Tree0.node[s.at].key \o s.tokens,
                          blocks |-> Tree0.node[s.at].table \o s.blocks]
           first      == [at |-> Root, tokens |-> <<>>, blocks |-> <<>>]
           last       == [at |-> NoParent, tokens |-> <<>>, blocks |-> <<>>]
           Runs(f, n) == f = [i \in 0 .. n |-> IF i = 0 THEN first
                                               ELSE CHOOSE u \in {Turn(r) : r \in {f[i - 1]}} : TRUE]
           g          == [i \in 0 .. 1 |-> IF i = 0 THEN first ELSE last]
           h          == CHOOSE f : Runs(f, 1)
<1>1. Chain(Tree0, Root) = h[1]
  <2>1. Len(PathUp(Tree0, Root)) = 1
    BY RootPath
  <2> QED BY <2>1 DEF Chain, Iterate
<1>2. Turn(first) = last
  <2>1. <<>> \o <<>> = <<>>
    OBVIOUS
  <2>2. first.at = Root /\ first.tokens = <<>> /\ first.blocks = <<>>
    OBVIOUS
  <2>3. /\ Tree0.node[Root].parent = NoParent /\ Tree0.node[Root].key = <<>>
        /\ Tree0.node[Root].table = <<>>
    BY RootOnly
  <2> HIDE DEF first
  <2> QED BY <2>1, <2>2, <2>3
<1> HIDE DEF Turn, first
<1>3. Runs(g, 1)
  <2>1. g[0] = first /\ g[1] = last /\ g = [i \in 0 .. 1 |-> g[i]]
    OBVIOUS
  <2>2. (CHOOSE u \in {Turn(r) : r \in {first}} : TRUE) = Turn(first)
    OBVIOUS
  <2> HIDE DEF g, last
  <2>3. ASSUME NEW i \in 0 .. 1
        PROVE  g[i] = IF i = 0 THEN first ELSE CHOOSE u \in {Turn(r) : r \in {g[i - 1]}} : TRUE
    <3>1. CASE i = 0
      BY <2>1, <3>1
    <3>2. CASE i = 1
      <4>1. g[i - 1] = first /\ g[i] = last
        BY <2>1, <3>2
      <4> QED BY <1>2, <2>2, <3>2, <4>1
    <3>3. i = 0 \/ i = 1
      OBVIOUS
    <3> QED BY <3>1, <3>2, <3>3
  <2> QED BY <2>1, <2>3
<1>4. Runs(h, 1)
  BY <1>3
<1> HIDE DEF h, g
<1>5. h[0] = first /\ h[1] = CHOOSE u \in {Turn(r) : r \in {h[0]}} : TRUE
  <2>1. 0 \in 0 .. 1 /\ 1 \in 0 .. 1 /\ 1 # 0 /\ 1 - 1 = 0
    OBVIOUS
  <2> QED BY <1>4, <2>1
<1>6. (CHOOSE u \in {Turn(r) : r \in {h[0]}} : TRUE) = Turn(h[0])
  OBVIOUS
<1>7. h[1] = last
  BY <1>2, <1>5, <1>6
<1> QED BY <1>1, <1>7

\* Then what is read, and what a match will hand out, is right.
LEMMA ReadRight ==
  ASSUME ReadInv
  PROVE  ContentsRight
<1>1. RunningReadsItsTokens
  <2> SUFFICES ASSUME pc # "raised", NEW r \in ToSet(sched.running)
               PROVE  LET kv == sched.req[r].kv IN
                      \A i \in 1 .. Len(kv.table) :
                        content[kv.table[i]] = PrefixTo(SubSeq(Tokens(sched, r), 1, kv.cursor), i)
    BY DEF RunningReadsItsTokens
  <2>1. r \in Request
    <3>1. Shell(sched)
      BY DEF ReadInv, PlainInv, IInv, Strong, Weak
    <3> QED BY <3>1 DEF Shell, ToSet
  <2>2. Sound(content, sched, r)
    BY <2>1 DEF ReadInv, Reading
  <2> QED BY <2>2 DEF Sound, Reads
<1>2. CacheHoldsItsTokens
  <2>1. sched.tree = Tree0 /\ Nodes(Tree0) = {Root}
    BY RootOnly DEF ReadInv, PlainInv, Plain
  <2>2. \A chain \in {Chain(Tree0, n) : n \in {m \in Nodes(Tree0) : Childless(Tree0, m)}} :
          1 .. Len(chain.blocks) = {}
    <3>1. \A n \in Nodes(Tree0) : Chain(Tree0, n).blocks = <<>>
      BY <2>1, RootChain
    <3> QED BY <3>1
  <2>3. CacheMap(Tree0) = {}
    BY <2>2 DEF CacheMap
  <2> QED BY <2>1, <2>3 DEF CacheHoldsItsTokens
<1> QED BY <1>1, <1>2 DEF ContentsRight

\* attention_fa2.cu reads, through the block table of every running request,
\* the K/V of that request's own tokens: after admissions in any order, after
\* preemption and recomputation, and whatever failed in between, as long as
\* the scheduler has no prefix tree (scheduler.py:40, 80-82).
THEOREM ContentsAlwaysRight == ASSUME ~UseRadix PROVE Spec => []ContentsRight
BY ReadInit, ReadStep, ReadRight, PTL DEF Spec

-----------------------------------------------------------------------------
(* The blocks a batch will take.                                           *)

\* What each request will take of a decode, or of a prefill.
TakesOf(s, is_decode) ==
  [r \in Request |-> LET kv  == s.req[r].kv
                         new == IF is_decode THEN 1 ELSE Len(Tokens(s, r)) - kv.cursor
                     IN  BlocksNeeded(kv.cursor + new) - Len(kv.table)]
Takes == TakesOf(sched, batch.is_decode)

\* The sum a property speaks of, as a sum over the list.
LEMMA DemandFold ==
  ASSUME NEW list \in Seq(Request), Takes \in [Request -> Int]
  PROVE  FoldLeft(LAMBDA n, r : n + Demand(r), 0, list) = Sum(Takes, list)
<1> DEFINE G == Takes
           n == Len(list)
           F == SumTurn(G)
           P(K) == K = [s \in SUBSET (1 .. n) |->
                          IF s = {} THEN 0 ELSE K[s \ {Max(s)}] + Demand(list[Max(s)])]
           H == CHOOSE K : P(K)
           v == [k \in 0 .. n |-> H[1 .. k]]
<1>1. n \in Nat /\ DOMAIN list = 1 .. n
  OBVIOUS
<1>2. FoldLeft(LAMBDA m, r : m + Demand(r), 0, list) = H[1 .. n]
  BY <1>1 DEF FoldLeft, MapThenFoldSet
<1>3. Turns(F, Int, Request)
  BY DEF Turns, SumTurn
<1>4. ASSUME NEW i \in 1 .. n, NEW x \in Int
      PROVE  F[<<x, list[i]>>] = x + Demand(list[i])
  <2>1. list[i] \in Request /\ G[list[i]] = Demand(list[i])
    BY DEF Takes, TakesOf, Demand, NewTokens
  <2> QED BY <2>1 DEF SumTurn
<1> HIDE DEF F
<1>5. \E K : P(K)
  <2>1. PICK K : IsFold(K, F, Int, Request, 0, list)
    <3>1. 0 \in Int
      OBVIOUS
    <3> QED BY <3>1, <1>1, <1>3, FoldExists
  <2>2. ASSUME NEW s \in SUBSET (1 .. n), s # {}
        PROVE  K[s] = K[s \ {Max(s)}] + Demand(list[Max(s)])
    <3>1. Max(s) \in s
      BY <1>1, <2>2, MaxInside
    <3>2. K[s \ {Max(s)}] \in Int /\ K[s] = F[<<K[s \ {Max(s)}], list[Max(s)]>>]
      BY <2>1, <2>2 DEF IsFold
    <3>3. Max(s) \in 1 .. n
      BY <3>1
    <3> QED BY <3>2, <3>3, <1>4
  <2>3. P(K)
    BY <2>1, <2>2 DEF IsFold
  <2> QED BY <2>3
<1>6. P(H)
  BY <1>5
<1> HIDE DEF H
<1>7. v[0] = 0
  <2>1. 1 .. 0 = {} /\ {} \in SUBSET (1 .. n)
    OBVIOUS
  <2> QED BY <1>1, <1>6, <2>1
<1>8. ASSUME NEW k \in 1 .. n, v[k - 1] \in Int
      PROVE  v[k] = F[<<v[k - 1], list[k]>>]
  <2> HIDE DEF n
  <2> DEFINE s == 1 .. k
  <2>1. s \in SUBSET (1 .. n) /\ s # {} /\ s \ {k} = 1 .. k - 1 /\ Max(s) = k
    BY <1>1, Intervals
  <2>2. H[1 .. k] = H[1 .. k - 1] + Demand(list[k])
    <3> HIDE DEF s
    <3>1. H[s] = H[s \ {k}] + Demand(list[k])
      BY <1>6, <2>1
    <3> QED BY <3>1, <2>1 DEF s
  <2>3. k - 1 \in 0 .. n /\ k \in 0 .. n
    BY <1>1
  <2>4. v[k] = v[k - 1] + Demand(list[k])
    BY <2>2, <2>3
  <2> HIDE DEF v
  <2> QED BY <2>4, <1>8, <1>4
<1>9. \A k \in 0 .. n : v[k] \in Int /\ v[k] = Run(F, 0, list)[k]
  <2> DEFINE X == Int
             E == Request
             L == list
             z == 0
  <2>1. z \in X /\ Turns(F, X, E) /\ L \in Seq(E)
    BY <1>1, <1>3
  <2>2. Follows(v, F, X, L)
    BY <1>8 DEF Follows
  <2>3. v[0] = z
    BY <1>7
  <2> HIDE DEF v, X, E, L, z, P
  <2>4. \A k \in 0 .. Len(L) : v[k] \in X /\ v[k] = Run(F, z, L)[k]
    BY <2>1, <2>2, <2>3, RunFollowed
  <2> QED BY <2>4 DEF X, L, z
<1>10. v[n] = H[1 .. n] /\ n \in 0 .. n
  BY <1>1
<1>11. v[n] = Run(F, 0, list)[n]
  <2> HIDE DEF v, n
  <2> QED BY <1>9, <1>10
<1> QED BY <1>2, <1>10, <1>11 DEF Sum, FoldOf, F

\* Sums over a list of which each element adds no more than ...
LEMMA SumBound ==
  ASSUME NEW D \in [Request -> Int], NEW E \in [Request -> Int]
  PROVE  \A list \in Seq(Request) :
           (\A i \in 1 .. Len(list) : D[list[i]] <= E[list[i]]) => Sum(D, list) <= Sum(E, list)
<1> DEFINE Low(list) == \A i \in 1 .. Len(list) : D[list[i]] <= E[list[i]]
           S == {list \in Seq(Request) : Low(list) => Sum(D, list) <= Sum(E, list)}
<1>1. /\ Sum(D, <<>>) = 0 /\ Sum(E, <<>>) = 0
      /\ \A list \in Seq(Request) : Sum(D, list) \in Int /\ Sum(E, list) \in Int
      /\ \A list \in Seq(Request), r \in Request :
           /\ Sum(D, Append(list, r)) = Sum(D, list) + D[r]
           /\ Sum(E, Append(list, r)) = Sum(E, list) + E[r]
  BY SumGrows
<1>2. <<>> \in S
  BY <1>1
<1>3. ASSUME NEW list \in Seq(Request), list \in S, NEW r \in Request
      PROVE  Append(list, r) \in S
  <2> DEFINE a == Append(list, r)
  <2>1. /\ a \in Seq(Request) /\ Len(a) = Len(list) + 1 /\ Len(list) \in Nat /\ a[Len(list) + 1] = r
        /\ \A i \in 1 .. Len(list) : a[i] = list[i]
    OBVIOUS
  <2> HIDE DEF a
  <2>2. ASSUME Low(a) PROVE Sum(D, a) <= Sum(E, a)
    <3>1. Low(list) /\ D[r] <= E[r]
      <4>1. \A i \in 1 .. Len(list) : i \in 1 .. Len(a)
        BY <2>1
      <4>2. Len(list) + 1 \in 1 .. Len(a)
        BY <2>1
      <4>3. D[r] <= E[r]
        BY <2>1, <2>2, <4>2
      <4> QED BY <2>1, <2>2, <4>1, <4>3
    <3>2. Sum(D, list) <= Sum(E, list)
      BY <1>3, <3>1
    <3>3. /\ Sum(D, a) = Sum(D, list) + D[r] /\ Sum(E, a) = Sum(E, list) + E[r]
          /\ Sum(D, list) \in Int /\ Sum(E, list) \in Int /\ D[r] \in Int /\ E[r] \in Int
      BY <1>1 DEF a
    <3> QED BY <3>1, <3>2, <3>3
  <2> QED BY <2>1, <2>2 DEF a
<1>4. \A list \in Seq(Request) : list \in S
  <2> HIDE DEF S
  <2> QED BY <1>2, <1>3, SeqInduction
<1> QED BY <1>4

\* ... one.
LEMMA SumOnes ==
  \A list \in Seq(Request) : Sum([r \in Request |-> 1], list) = Len(list)
<1> DEFINE D == [r \in Request |-> 1]
           S == {list \in Seq(Request) : Sum(D, list) = Len(list)}
<1>1. /\ Sum(D, <<>>) = 0
      /\ \A list \in Seq(Request), r \in Request : Sum(D, Append(list, r)) = Sum(D, list) + 1
  <2>1. D \in [Request -> Int] /\ \A r \in Request : D[r] = 1
    OBVIOUS
  <2> HIDE DEF D
  <2> QED BY <2>1, SumGrows
<1> HIDE DEF D
<1>2. <<>> \in S
  BY <1>1
<1>3. ASSUME NEW list \in Seq(Request), list \in S, NEW r \in Request
      PROVE  Append(list, r) \in S
  BY <1>1, <1>3
<1>4. \A list \in Seq(Request) : list \in S
  <2> HIDE DEF S
  <2> QED BY <1>2, <1>3, SeqInduction
<1> QED BY <1>4 DEF D

\* These are numbers: for a prefill the blocks of its tokens, for a decode one
\* at the most.
LEMMA TakesAre ==
  ASSUME NEW s, Plain(s, lost)
  PROVE  /\ \A is_decode \in BOOLEAN : TakesOf(s, is_decode) \in [Request -> Int]
         /\ \A r \in Request : s.req[r].kv = FreshKV => TakesOf(s, FALSE)[r] = Needs(s)[r]
         /\ BlockSize > 1 => \A r \in Request : Fits(s.req[r].kv) => TakesOf(s, TRUE)[r] <= 1
<1>1. \A r \in Request : s.req[r].kv.cursor \in Nat /\ s.req[r].kv.table \in Table /\ Len(s.req[r].kv.table) \in Nat
  BY TableBound DEF Plain, Bare
<1>2. \A r \in Request : Len(Tokens(s, r)) \in Nat
  BY TokensAre DEF Plain
<1>3. \A n \in Int : BlocksNeeded(n) \in Int
  <2>1. \A m \in Int : m \div BlockSize \in Int
    BY BlockSizeAssumption
  <2>2. \A n \in Int : n + BlockSize - 1 \in Int
    BY BlockSizeAssumption
  <2> QED BY <2>1, <2>2 DEF BlocksNeeded
<1>4. ASSUME NEW is_decode \in BOOLEAN PROVE TakesOf(s, is_decode) \in [Request -> Int]
  <2>1. ASSUME NEW r \in Request
        PROVE  LET kv  == s.req[r].kv
                   new == IF is_decode THEN 1 ELSE Len(Tokens(s, r)) - kv.cursor
               IN  BlocksNeeded(kv.cursor + new) - Len(kv.table) \in Int
    <3> DEFINE kv  == s.req[r].kv
               new == IF is_decode THEN 1 ELSE Len(Tokens(s, r)) - kv.cursor
               b   == BlocksNeeded(kv.cursor + new)
    <3>1. new \in Int /\ kv.cursor \in Int /\ Len(kv.table) \in Int
      BY <1>1, <1>2
    <3> HIDE DEF new
    <3>2. kv.cursor + new \in Int
      BY <3>1
    <3>3. b \in Int
      BY <1>3, <3>2
    <3> HIDE DEF b, kv
    <3>4. b - Len(kv.table) \in Int
      BY <3>1, <3>3
    <3> QED BY <3>4 DEF b, kv, new
  <2> QED BY <2>1 DEF TakesOf
<1>5. ASSUME NEW r \in Request, s.req[r].kv = FreshKV PROVE TakesOf(s, FALSE)[r] = Needs(s)[r]
  <2> DEFINE kv == s.req[r].kv
             l  == Len(Tokens(s, r))
             b  == BlocksNeeded(l)
  <2>1. kv.cursor = 0 /\ kv.table = <<>> /\ l \in Nat
    BY <1>2, <1>5, FreshBare
  <2>2. TakesOf(s, FALSE)[r] = BlocksNeeded(kv.cursor + (l - kv.cursor)) - Len(kv.table)
    BY DEF TakesOf
  <2>3. Needs(s)[r] = b /\ b \in Int
    BY <1>3, <2>1 DEF Needs
  <2> HIDE DEF kv, l
  <2>4. kv.cursor + (l - kv.cursor) = l /\ Len(kv.table) = 0
    BY <2>1
  <2>5. TakesOf(s, FALSE)[r] = b - 0
    BY <2>2, <2>4
  <2> DEFINE t == TakesOf(s, FALSE)[r]
             e == Needs(s)[r]
  <2>6. t = b - 0 /\ e = b /\ b \in Int
    BY <2>3, <2>5
  <2> HIDE DEF b, t, e
  <2>7. t = e
    BY <2>6
  <2> QED BY <2>7 DEF t, e
<1>6. ASSUME BlockSize > 1, NEW r \in Request, Fits(s.req[r].kv) PROVE TakesOf(s, TRUE)[r] <= 1
  <2> DEFINE kv == s.req[r].kv
             c  == kv.cursor
             b  == BlocksNeeded(c)
             d  == BlocksNeeded(c + 1)
  <2>1. c \in Nat /\ b = Len(kv.table) /\ b \in Nat
    BY <1>1, <1>6 DEF Fits
  <2>2. TakesOf(s, TRUE)[r] = d - Len(kv.table)
    BY DEF TakesOf
  <2> HIDE DEF kv, c
  <2>3. d = b + 1 \/ d = b
    BY <1>6, <2>1, CeilNext
  <2> DEFINE l == Len(kv.table)
             t == TakesOf(s, TRUE)[r]
  <2>4. t = d - l /\ b = l /\ b \in Nat
    BY <2>1, <2>2
  <2> HIDE DEF b, d, l, t
  <2>5. t <= 1
    BY <2>3, <2>4
  <2> QED BY <2>5 DEF t
<1> QED BY <1>4, <1>5, <1>6

\* A batch is launched with the free blocks it will take.
Affordable == pc = "forward" => Sum(Takes, batch.members) <= num_free(sched.pool)

LEMMA TickAffords ==
  ASSUME BlockSize > 1, ReadInv, ReadInv', Tick
  PROVE  Affordable'
<1>1. IInv /\ Plain(sched, lost) /\ Once(arrived) /\ Plain(sched', lost) /\ IInv' /\ num_free(sched'.pool) \in Nat
  <2>1. IInv /\ Plain(sched, lost) /\ Once(arrived) /\ IInv' /\ Plain(sched', lost')
    BY DEF ReadInv, PlainInv, IInv
  <2>2. Plain(sched', lost)
    BY <2>1 DEF Tick
  <2> QED BY <2>1, <2>2, FreeCount DEF Plain, Owned
<1>2. \A r \in Request : r \in ToSet(sched'.running) => Reading(sched, r)'
  BY DEF ReadInv
<1>3. PICK z, a : /\ Strong(z, arrived) /\ Plain(z, lost) /\ Freer(sched, z)
                  /\ Admits(a, z) /\ Strong(a.s, arrived) /\ Plain(a.s, lost)
                  /\ ToSet(a.prefills) \subseteq ToSet(a.s.running) /\ NoDuplicates(a.prefills)
                  /\ \A r \in ToSet(a.prefills) : r \in Request /\ r \notin ToSet(z.running)
                  /\ LaunchPrefill(a) \/ LaunchDecode(a) \/ NothingToDo(a)
  BY <1>1, TickPlain
<1>4. CASE LaunchPrefill(a)
  <2> DEFINE p == a.prefills
             D == TakesOf(sched', FALSE)
             E == Needs(sched')
  <2>1. sched' = a.s /\ batch' = [members |-> p, is_decode |-> FALSE] /\ pc' = "forward"
    BY <1>4 DEF LaunchPrefill, Launch
  <2>2. batch'.members = p /\ batch'.is_decode = FALSE /\ ToSet(p) \subseteq ToSet(sched'.running)
    BY <1>3, <2>1
  <2>3. /\ p \in Seq(Request) /\ a.budget \in Nat /\ a.budget + Sum(Needs(z), p) = num_free(z.pool)
        /\ a.s.req = z.req /\ a.s.pool = z.pool
    <3> DEFINE run == z.running \o a.prefills
               w   == a.s.waiting
    <3>1. a.s = Data(z, run, w, z.tree, z.pool, z.req)
      BY <1>3 DEF Admits, Moved
    <3> HIDE DEF run, w
    <3>2. a.s.req = z.req /\ a.s.pool = z.pool
      BY <3>1 DEF Data
    <3> QED BY <1>3, <3>2 DEF Admits, Moved, Budgeted
  <2>4. E = Needs(z) /\ num_free(sched'.pool) = num_free(z.pool)
    BY <2>1, <2>3 DEF Needs, Tokens
  <2>5. D \in [Request -> Int] /\ E \in [Request -> Int]
    BY <1>1, TakesAre, NeedsAre
  <2>6. \A r \in Request : r \in ToSet(p) => D[r] = E[r]
    <3> SUFFICES ASSUME NEW r \in Request, r \in ToSet(p) PROVE D[r] = E[r]
      OBVIOUS
    <3>1. Reading(sched, r)'
      BY <1>2, <2>2
    <3>2. sched'.req[r].kv = FreshKV
      BY <2>1, <2>2, <3>1 DEF Reading
    <3> QED BY <1>1, <3>2, TakesAre
  <2> HIDE DEF D, E
  <2>7. \A i \in 1 .. Len(p) : D[p[i]] <= E[p[i]]
    <3> SUFFICES ASSUME NEW i \in 1 .. Len(p) PROVE D[p[i]] <= E[p[i]]
      OBVIOUS
    <3>1. p[i] \in Request /\ p[i] \in ToSet(p)
      BY <2>3 DEF ToSet
    <3>2. D[p[i]] = E[p[i]] /\ E[p[i]] \in Int
      BY <2>5, <2>6, <3>1
    <3> QED BY <3>2
  <2>8. Sum(D, p) <= Sum(E, p) /\ Sum(D, p) \in Int /\ Sum(E, p) \in Int
    BY <2>3, <2>5, <2>7, SumBound, SumGrows
  <2>9. Sum(D, p) <= num_free(sched'.pool)
    BY <1>1, <2>3, <2>4, <2>8
  <2> QED BY <2>2, <2>9 DEF Affordable, Takes, D
<1>5. CASE LaunchDecode(a)
  <2> DEFINE s == Preempt(a.s)
             p == sched'.running
             D == TakesOf(sched', TRUE)
             E == [r \in Request |-> 1]
  <2>1. /\ sched' = s /\ batch' = [members |-> s.running, is_decode |-> TRUE] /\ pc' = "forward"
    BY <1>5 DEF LaunchDecode, Launch
  <2>2. Room(s)
    BY <1>1, <1>3, PreemptPlain
  <2> HIDE DEF s
  <2>3. batch'.members = p /\ batch'.is_decode = TRUE /\ Room(sched')
    BY <2>1, <2>2
  <2>4. p \in Seq(Request)
    BY <1>1 DEF IInv, Strong, Weak, Shell
  <2>12. D \in [Request -> Int]
    BY <1>1, TakesAre
  <2>13. E \in [Request -> Int] /\ \A r \in Request : E[r] = 1
    OBVIOUS
  <2>5. D \in [Request -> Int] /\ E \in [Request -> Int]
    BY <2>12, <2>13
  <2>6. \A r \in Request : r \in ToSet(p) => D[r] <= E[r]
    <3> SUFFICES ASSUME NEW r \in Request, r \in ToSet(p) PROVE D[r] <= E[r]
      OBVIOUS
    <3>1. Reading(sched, r)'
      BY <1>2
    <3>2. Sound(content, sched, r)'
      BY <2>1, <3>1 DEF Reading
    <3>3. Fits(sched'.req[r].kv)
      BY <3>2 DEF Sound, Fits
    <3> QED BY <1>1, <3>3, TakesAre
  <2>10. Sum(E, p) = Len(p) /\ Len(p) \in Nat
    BY <2>4, SumOnes
  <2> HIDE DEF D, E, p
  <2>7. \A i \in 1 .. Len(p) : D[p[i]] <= E[p[i]]
    <3> SUFFICES ASSUME NEW i \in 1 .. Len(p) PROVE D[p[i]] <= E[p[i]]
      OBVIOUS
    <3>1. p[i] \in Request /\ p[i] \in ToSet(p)
      BY <2>4 DEF ToSet
    <3> QED BY <2>6, <3>1
  <2>8. Sum(D, p) <= Len(p) /\ Sum(D, p) \in Int
    BY <2>4, <2>5, <2>7, <2>10, SumBound, SumGrows
  <2>9. Len(p) <= num_free(sched'.pool)
    <3>1. p = <<>> => Len(p) = 0
      OBVIOUS
    <3> QED BY <1>1, <2>3, <2>10, <3>1 DEF Room, p
  <2>11. Sum(D, p) <= num_free(sched'.pool)
    BY <1>1, <2>8, <2>9, <2>10
  <2> QED BY <2>3, <2>11 DEF Affordable, Takes, D
<1>6. CASE NothingToDo(a)
  <2>1. pc' \in {"sleep", "loop"}
    BY <1>6 DEF NothingToDo
  <2> QED BY <2>1 DEF Affordable
<1> QED BY <1>3, <1>4, <1>5, <1>6

\* Every step keeps it.
LEMMA AffordStep ==
  ASSUME BlockSize > 1, ReadInv, ReadInv', Affordable, [Next]_vars
  PROVE  Affordable'
<1>1. ASSUME pc' # "forward" \/ (/\ pc' = pc /\ batch' = batch /\ sched'.req = sched.req
                                 /\ sched'.pool = sched.pool)
      PROVE  Affordable'
  <2>1. CASE pc' # "forward"
    BY <2>1 DEF Affordable
  <2>2. CASE pc' = pc /\ batch' = batch /\ sched'.req = sched.req /\ sched'.pool = sched.pool
    <3>1. Takes' = Takes
      BY <2>2 DEF Takes, TakesOf, Tokens
    <3> QED BY <2>2, <3>1 DEF Affordable
  <2> QED BY <1>1, <2>1, <2>2
<1>2. IInv
  BY DEF ReadInv, PlainInv
<1>3. ASSUME NEW r \in Request, Submit(r) PROVE Affordable'
  BY <1>1, <1>2, <1>3, SubmitIs DEF Submit
<1>4. ASSUME NEW r \in Request, Abort(r) PROVE Affordable'
  BY <1>1, <1>4 DEF Abort
<1>5. CASE Idle \/ Wake
  BY <1>1, <1>5 DEF Idle, Wake
<1>6. CASE Tick
  BY <1>6, TickAffords
<1>7. CASE Deliver \/ Raised \/ AdoptFails
  <2>1. pc' \in {"loop", "dead"}
    BY <1>7 DEF Deliver, Raised, AdoptFails, Crash
  <2> QED BY <1>1, <2>1
<1>8. CASE Forward \/ ForwardFails
  BY <1>1, <1>8 DEF Forward, ForwardFails
<1>9. CASE UNCHANGED vars
  BY <1>1, <1>9 DEF vars
<1> QED BY <1>3, <1>4, <1>5, <1>6, <1>7, <1>8, <1>9 DEF Next, Loop

\* It says what the property says.
LEMMA AffordEnough ==
  ASSUME ReadInv, Affordable
  PROVE  BatchNeverRunsDry
<1> SUFFICES ASSUME pc = "forward"
             PROVE  FoldLeft(LAMBDA n, r : n + Demand(r), 0, batch.members) <= num_free(sched.pool)
  BY DEF BatchNeverRunsDry
<1>1. Plain(sched, lost) /\ Members(batch, sched) /\ Batched
  BY DEF ReadInv, PlainInv, IInv
<1>2. Takes \in [Request -> Int] /\ batch.members \in Seq(Request)
  BY <1>1, TakesAre DEF Takes, Batched, Members
<1>3. FoldLeft(LAMBDA n, r : n + Demand(r), 0, batch.members) = Sum(Takes, batch.members)
  BY <1>2, DemandFold
<1> QED BY <1>3 DEF Affordable

\* scheduler.py:205-233, 238-249: admission and preemption leave the free
\* blocks a batch will take, so that alloc cannot throw in the middle of a
\* forward pass, without the prefix tree and with blocks of more than one token
\* (with one a decode takes none, paged_kv_cache.cpp:76).
THEOREM BatchesNeverRunDry == ASSUME ~UseRadix, BlockSize > 1 PROVE Spec => []BatchNeverRunsDry
<1>1. Init => ReadInv /\ Affordable
  <2>1. Init => pc # "forward"
    BY DEF Init
  <2> QED BY <2>1, ReadInit DEF Affordable
<1>2. ReadInv /\ Affordable /\ [Next]_vars => ReadInv' /\ Affordable'
  BY ReadStep, AffordStep
<1>3. ReadInv /\ Affordable => BatchNeverRunsDry
  BY AffordEnough
<1> QED BY <1>1, <1>2, <1>3, PTL DEF Spec

-----------------------------------------------------------------------------
(* Nobody is left waiting for a loop that sleeps.                          *)

\* What is set aside for r after n tokens, and that the pool holds every
\* request by itself together with it, also after every failure has lost a
\* block.
ReserveFor(r, n) == CeilDiv(Min({MaxTokens[r] - n, DecodeCap}) * DecodeRatio, 100 * BlockSize)
FitsAlone ==
  \A r \in Request : \A n \in 0 .. MaxTokens[r] - 1 :
    BlocksNeeded(Len(Prompt[r]) + n) + ReserveFor(r, n) + MaxFailures <= NumBlocks

\* Nothing is added to what is set aside for r when nobody runs.
LEMMA ReserveAlone ==
  ASSUME NEW s, s.running = <<>>, NEW r \in Request, NEW n \in Nat, n = Len(s.req[r].gen), n < MaxTokens[r]
  PROVE  Reserved(s, r) = ReserveFor(r, n) /\ ReserveFor(r, n) \in Nat
<1> DEFINE left == MaxTokens[r] - n
           base == DecodeReserve(s, r)
<1>1. left \in Nat \ {0} /\ DecodeCap \in Nat /\ DecodeRatio \in Nat /\ BlockSize \in Nat \ {0}
  BY SchedulerAssumption, BlockSizeAssumption
<1>2. Max({0, MaxTokens[r] - Len(s.req[r].gen)}) = left
  <2> DEFINE l == left
  <2>1. MaxTokens[r] - Len(s.req[r].gen) = l /\ l \in Nat \ {0}
    BY <1>1
  <2> HIDE DEF l
  <2>2. Max({0, l}) = l
    BY <2>1 DEF Max
  <2> QED BY <2>1, <2>2 DEF l
<1>3. base = ReserveFor(r, n)
  BY <1>2 DEF DecodeReserve, ReserveFor
<1>4. ReserveFor(r, n) \in Nat
  <2> DEFINE least == Min({left, DecodeCap})
             num   == least * DecodeRatio
             den   == 100 * BlockSize
  <2>1. least \in Nat
    <3> DEFINE T == {left, DecodeCap}
    <3>1. T \in SUBSET Nat /\ T # {}
      BY <1>1
    <3> HIDE DEF T, left
    <3>2. Min(T) \in T
      BY <3>1, MinOK
    <3> QED BY <3>1, <3>2 DEF T
  <2> HIDE DEF least
  <2>2. num \in Nat /\ den \in Nat \ {0}
    BY <1>1, <2>1
  <2> HIDE DEF num, den
  <2>3. CeilDiv(num, den) \in Nat
    <3>1. num + den - 1 \in Nat
      BY <2>2
    <3> QED BY <2>2, <3>1 DEF CeilDiv
  <2> QED BY <2>3 DEF ReserveFor, num, den, least, left
<1>5. Reserved(s, r) = base
  <2> DEFINE P(K) == K = [x \in SUBSET {} |->
                            IF x = {} THEN base
                            ELSE K[x \ {Max(x)}] + DecodeReserve(s, s.running[Max(x)])]
             H == CHOOSE K : P(K)
  <2>1. DOMAIN s.running = {}
    OBVIOUS
  <2>2. Reserved(s, r) = H[{}]
    BY <2>1 DEF Reserved, FoldLeft, MapThenFoldSet
  <2>3. \E K : P(K)
    <3> DEFINE K == [x \in SUBSET {} |-> base]
    <3>1. P(K)
      <4> HIDE DEF base
      <4> QED OBVIOUS
    <3> QED BY <3>1
  <2>4. P(H)
    BY <2>3
  <2> HIDE DEF H, base
  <2>5. H[{}] = base
    BY <2>4
  <2> QED BY <2>2, <2>5
<1> QED BY <1>3, <1>4, <1>5

\* All blocks but the lost ones are free when nobody runs.
LEMMA AllFree ==
  ASSUME NEW s, Plain(s, lost), Holders(s), s.running = <<>>, LostOK
  PROVE  num_free(s.pool) \in Nat /\ num_free(s.pool) >= NumBlocks - MaxFailures
<1> DEFINE p == s.pool
<1>1. ToSet(s.running) = {}
  BY DEF ToSet
<1>2. \A q \in Request : s.req[q].kv = FreshKV
  BY <1>1 DEF Holders, Empty
<1>3. \A q \in Request : Tables(s)[q] = <<>>
  BY <1>2, FreshBare DEF Tables
<1>4. lost \subseteq Block /\ \A b \in Block : p.ref_cnt[b] = IF b \in lost THEN 1 ELSE 0
  BY <1>3, NoBlocks DEF Plain, Owned, Nobodys, Counted
<1>5. Unused(p) = Block \ lost
  BY <1>4 DEF Unused
<1>6. num_free(p) = Cardinality(Unused(p)) /\ num_free(p) \in Nat
  BY FreeCount DEF Plain, Owned
<1>7. IsFiniteSet(Block) /\ Cardinality(Block) = NumBlocks
  BY NumBlocksAssumption, FS_Interval DEF Block
<1>8. Cardinality(Block \ lost) = Cardinality(Block) - Cardinality(lost) /\ Cardinality(lost) \in Nat
  <2>1. Block \cap lost = lost
    BY <1>4
  <2>2. IsFiniteSet(lost)
    BY <1>4, <1>7, FS_Subset
  <2> QED BY <1>7, <2>1, <2>2, FS_Difference, FS_CardinalityType
<1>9. Cardinality(lost) <= MaxFailures /\ MaxFailures \in Nat /\ NumBlocks \in Nat
  BY <1>8, SchedulerAssumption, NumBlocksAssumption DEF LostOK
<1> HIDE DEF p
<1>10. num_free(p) = NumBlocks - Cardinality(lost)
  BY <1>5, <1>6, <1>7, <1>8
<1> QED BY <1>6, <1>8, <1>9, <1>10 DEF p

\* Who is in the queue, or has yet to come, has tokens to be answered.
Short ==
  \A r \in Request : r \in ToSet(Queue(sched)) \/ r \notin ToSet(arrived)
                       => Len(sched.req[r].gen) < MaxTokens[r]

\* Only a delivery answers; nothing else puts anybody into the queue but submit.
LEMMA ShortKept ==
  ASSUME Short, arrived' = arrived, ToSet(Queue(sched')) \subseteq ToSet(Queue(sched)),
         \A r \in Request : sched'.req[r].gen = sched.req[r].gen
  PROVE  Short'
<1>1. ToSet(Queue(sched))' = ToSet(Queue(sched')) /\ ToSet(arrived)' = ToSet(arrived)
  BY DEF Queue, ToSet
<1> QED BY <1>1 DEF Short

\* A tick answers nobody.
LEMMA TickAnswersNone ==
  ASSUME IInv, Plain(sched, lost), Tick
  PROVE  \A r \in Request : sched'.req[r].gen = sched.req[r].gen
<1>1. PICK z, a : /\ Freer(sched, z) /\ Admits(a, z) /\ Strong(a.s, arrived) /\ Plain(a.s, lost)
                  /\ LaunchPrefill(a) \/ LaunchDecode(a) \/ NothingToDo(a)
  BY TickPlain
<1>2. a.s.req = z.req
  <2> DEFINE run == z.running \o a.prefills
             w   == a.s.waiting
  <2>1. a.s = Data(z, run, w, z.tree, z.pool, z.req)
    BY <1>1 DEF Admits, Moved
  <2> HIDE DEF run, w
  <2> QED BY <2>1 DEF Data
<1>3. CASE sched' = a.s
  BY <1>1, <1>2, <1>3 DEF Freer
<1>4. CASE sched' = Preempt(a.s)
  <2>1. Freer(a.s, Preempt(a.s))
    BY <1>1, PreemptPlain DEF IInv
  <2> QED BY <1>1, <1>2, <1>4, <2>1 DEF Freer
<1>5. sched' = a.s \/ sched' = Preempt(a.s)
  BY <1>1 DEF LaunchPrefill, LaunchDecode, NothingToDo, Launch
<1> QED BY <1>3, <1>4, <1>5

\* Who was answered and stays in the queue is not at the end.
LEMMA DeliverShort ==
  ASSUME ~UseRadix, PlainInv, Short, Deliver
  PROVE  Short'
<1>1. /\ IInv /\ Plain(sched, lost) /\ Once(arrived) /\ Strong(sched, arrived) /\ Shell(sched)
      /\ Members(batch, sched)
  <2>1. IInv /\ pc = "returned" /\ Plain(sched, lost)
    BY DEF PlainInv, Deliver
  <2> QED BY <2>1 DEF IInv, Strong, Weak
<1>2. PICK next \in Outcomes : \E s :
           /\ s = FinishAll(Answer(sched, next)).s
           /\ \/ ~FinishAll(Answer(sched, next)).ok
              \/ /\ sched' = s /\ ToSet(Queue(s)) \subseteq ToSet(Queue(sched))
                 /\ \A r \in ToSet(batch.members) :
                      r \in ToSet(Queue(sched)) /\ (Ends(sched, r, next[r]) => r \notin ToSet(Queue(s)))
  BY <1>1, DeliverIs
<1> DEFINE g == Answer(sched, next)
           u == FinishAll(g)
           s == u.s
<1>3. /\ Weak(g, arrived) /\ Holders(g) /\ WaitersUnfinished(g) /\ Plain(g, lost)
      /\ \A r \in Request :
           g.req[r].gen = IF r \in ToSet(batch.members) THEN Append(sched.req[r].gen, next[r])
                                                        ELSE sched.req[r].gen
  BY <1>1, AnswerKeeps, AnswerPlain
<1>4. \/ ~u.ok
      \/ /\ sched' = s /\ ToSet(Queue(s)) \subseteq ToSet(Queue(sched))
         /\ \A r \in ToSet(batch.members) :
              r \in ToSet(Queue(sched)) /\ (Ends(sched, r, next[r]) => r \notin ToSet(Queue(s)))
  BY <1>2
<1> HIDE DEF g
<1>5. u.ok = TRUE /\ Freer(g, s)
  BY <1>1, <1>3, FinishAllPlain
<1> HIDE DEF u, s
<1>6. ToSet(Queue(sched))' = ToSet(Queue(s)) /\ ToSet(arrived)' = ToSet(arrived)
  BY <1>4, <1>5 DEF Queue, ToSet, Deliver
<1>7. \A r \in Request : r \in ToSet(Queue(sched)) => r \in ToSet(arrived)
  <2>1. Weak(sched, arrived)
    BY <1>1 DEF Strong
  <2> QED BY <2>1, QueueIs DEF Weak
<1>8. ASSUME NEW r \in Request, r \in ToSet(Queue(s)) \/ r \notin ToSet(arrived)
      PROVE  Len(s.req[r].gen) < MaxTokens[r]
  <2>1. s.req[r].gen = g.req[r].gen /\ Len(sched.req[r].gen) < MaxTokens[r]
    BY <1>4, <1>5, <1>8 DEF Freer, Short
  <2>2. CASE r \notin ToSet(batch.members)
    BY <1>3, <2>1, <2>2
  <2>3. CASE r \in ToSet(batch.members)
    <3>1. r \in ToSet(Queue(s)) /\ ~Ends(sched, r, next[r])
      BY <1>4, <1>5, <1>7, <1>8, <2>3
    <3> DEFINE h == sched.req[r].gen
               x == next[r]
    <3>2. ~(Len(h) + 1 >= MaxTokens[r]) /\ Sequence(h) /\ s.req[r].gen = Append(h, x)
      BY <1>1, <1>3, <2>1, <2>3, <3>1 DEF Ends, Plain
    <3> HIDE DEF h, x
    <3>3. Len(Append(h, x)) = Len(h) + 1 /\ Len(h) \in Nat
      BY <3>2, LongerSequence
    <3>4. MaxTokens[r] \in Nat
      BY SchedulerAssumption
    <3> QED BY <3>2, <3>3, <3>4
  <2> QED BY <2>2, <2>3
<1> QED BY <1>4, <1>5, <1>6, <1>8 DEF Short

\* So it is at first, and after every step.
LEMMA ShortInit ==
  ASSUME Init
  PROVE  Short
<1>1. \A r \in Request : sched.req[r].gen = <<>>
  BY DEF Init, NewRequest
<1> QED BY <1>1, SchedulerAssumption DEF Short

LEMMA ShortStep ==
  ASSUME ~UseRadix, PlainInv, Short, [Next]_vars
  PROVE  Short'
<1>1. IInv /\ Plain(sched, lost) /\ Once(arrived) /\ Weak(sched, arrived) /\ Strong(sched, arrived)
  BY DEF PlainInv, IInv, Strong
<1>2. ASSUME NEW r \in Request, Submit(r) PROVE Short'
  <2>1. /\ ToSet(arrived') = ToSet(arrived) \cup {r} /\ r \notin ToSet(arrived)
        /\ ToSet(Queue(sched')) = ToSet(Queue(sched)) \cup {r} /\ sched'.req = sched.req
    BY <1>1, <1>2, SubmitIs
  <2>2. ToSet(Queue(sched))' = ToSet(Queue(sched')) /\ ToSet(arrived)' = ToSet(arrived')
    BY DEF Queue, ToSet
  <2> QED BY <2>1, <2>2 DEF Short
<1>3. CASE UNCHANGED <<sched, arrived>>
  BY <1>3, ShortKept
<1>4. CASE Tick
  <2>1. ToSet(Queue(sched')) \subseteq ToSet(Queue(sched))
    <3>1. ASSUME NEW s, Weak(s, arrived), Crash(s, out) PROVE ToSet(Queue(sched')) = {}
      BY <1>1, <3>1, CrashKeeps
    <3> QED BY <1>1, <1>4, <3>1, TickIs DEF Reached
  <2>2. arrived' = arrived
    BY <1>4 DEF Tick
  <2> QED BY <1>1, <1>4, <2>1, <2>2, TickAnswersNone, ShortKept
<1>5. CASE Deliver
  BY <1>5, DeliverShort
<1>6. CASE Raised
  <2>1. Crash(sched, out) /\ arrived' = arrived
    BY <1>6 DEF Raised
  <2>2. ToSet(Queue(sched')) = {} /\ Freer(sched, sched')
    BY <1>1, <2>1, CrashKeeps, CrashPlain
  <2> QED BY <2>1, <2>2, ShortKept DEF Freer
<1>7. CASE Forward \/ ForwardFails
  <2>1. pc = "forward" /\ arrived' = arrived
    BY <1>7 DEF Forward, ForwardFails
  <2>2. Members(batch, sched) /\ Batched /\ Len(batch.members) \in Nat
    BY <2>1 DEF Members, PlainInv, IInv
  <2>4. \A r \in Request : sched'.req[r].gen = sched.req[r].gen
    BY <1>1, <1>7, <2>2, ForwardPlain
  <2>5. Queue(sched') = Queue(sched)
    BY <1>1, <1>7, ForwardIs
  <2> QED BY <2>1, <2>4, <2>5, ShortKept
<1>8. ASSUME NEW r \in Request, Abort(r) PROVE UNCHANGED <<sched, arrived>>
  BY <1>8 DEF Abort
<1>9. CASE Idle \/ Wake \/ UNCHANGED vars
  <2>1. UNCHANGED <<sched, arrived>>
    BY <1>9 DEF Idle, Wake, vars
  <2> QED BY <1>3, <2>1
<1>10. ~AdoptFails
  BY DEF AdoptFails
<1> QED BY <1>2, <1>3, <1>4, <1>5, <1>6, <1>7, <1>8, <1>9, <1>10 DEF Next, Loop

\* A tick that leaves nobody running leaves nobody waiting.
LEMMA TickSleeps ==
  ASSUME FitsAlone, PlainInv, Short, Tick, pc' = "sleep"
  PROVE  sched'.waiting = <<>>
<1>1. IInv /\ Plain(sched, lost) /\ LostOK
  BY DEF PlainInv
<1>2. PICK z, a : /\ Strong(z, arrived) /\ Plain(z, lost) /\ Freer(sched, z)
                  /\ ToSet(Queue(z)) \subseteq ToSet(Queue(sched)) /\ (a.prefills = <<>> => Turned(z))
                  /\ Admits(a, z)
                  /\ LaunchPrefill(a) \/ LaunchDecode(a) \/ NothingToDo(a)
  BY <1>1, TickPlain
<1>3. a.prefills = <<>> /\ a.s.running = <<>> /\ sched' = a.s
  BY <1>2 DEF LaunchPrefill, LaunchDecode, NothingToDo, Launch
<1>4. z.running = <<>> /\ a.s.waiting = z.waiting /\ z.waiting \in Seq(Request)
  <2> DEFINE run == z.running
             w   == a.s.waiting
             p   == a.prefills
             all == run \o p
  <2>1. /\ run \in Seq(Request) /\ z.waiting \in Seq(Request) /\ w \in Seq(Request) /\ p = <<>>
        /\ a.s = Data(z, all, w, z.tree, z.pool, z.req) /\ p \o w = z.waiting
    BY <1>2, <1>3 DEF Admits, Moved, Strong, Weak, Shell
  <2> HIDE DEF run, w, p
  <2>2. all = run /\ p \o w = w
    BY <2>1
  <2> HIDE DEF all
  <2>3. a.s.running = all
    BY <2>1 DEF Data
  <2> QED BY <1>3, <2>1, <2>2, <2>3 DEF run, w
<1>5. ASSUME z.waiting # <<>> PROVE FALSE
  <2> DEFINE r == Head(z.waiting)
             n == Len(z.req[r].gen)
             w == z.waiting
             free == num_free(z.pool)
  <2>1. r \in Request /\ r \in ToSet(Queue(z))
    <3> HIDE DEF w
    <3>1. w \in Seq(Request) /\ w # <<>>
      BY <1>4, <1>5 DEF w
    <3>2. Queue(z) = w
      BY <1>4, <3>1 DEF Queue, w
    <3>3. Head(w) \in Request /\ Head(w) \in ToSet(w)
      <4>1. Head(w) = w[1] /\ 1 \in DOMAIN w /\ w[1] \in Request
        BY <3>1
      <4> QED BY <4>1 DEF ToSet
    <3> QED BY <3>2, <3>3 DEF w
  <2>2. n < MaxTokens[r]
    BY <1>2, <2>1 DEF Short, Freer
  <2>3. /\ Len(Tokens(z, r)) = Len(Prompt[r]) + n /\ n \in Nat
    <3>1. PICK E : z.req[r].gen \in Seq(E)
      BY <1>2, <2>1 DEF Plain, Sequence
    <3>2. n \in Nat
      <4> DEFINE g == z.req[r].gen
      <4> HIDE DEF g
      <4>1. g \in Seq(E)
        BY <3>1 DEF g
      <4>2. Len(g) \in Nat
        BY <4>1
      <4> QED BY <4>2 DEF g
    <3>3. Sequence(z.req[r].gen)
      BY <1>2, <2>1 DEF Plain
    <3> HIDE DEF r, n
    <3>4. Len(Tokens(z, r)) = Len(Prompt[r]) + Len(z.req[r].gen)
      BY <2>1, <3>3, TokensAre
    <3> QED BY <3>2, <3>4 DEF n
  <2>4. free \in Nat /\ free >= NumBlocks - MaxFailures
    BY <1>1, <1>2, <1>4, AllFree DEF Strong
  <2>5. Denied(z, free, r)
    BY <1>2, <1>3, <1>5 DEF Turned
  <2> HIDE DEF r, n, free
  <2>6. Reserved(z, r) = ReserveFor(r, n) /\ ReserveFor(r, n) \in Nat
    BY <1>4, <2>1, <2>2, <2>3, ReserveAlone DEF n
  <2>7. n \in 0 .. MaxTokens[r] - 1
    BY <2>1, <2>2, <2>3, SchedulerAssumption
  <2> DEFINE need == BlocksNeeded(Len(Tokens(z, r)))
             set  == ReserveFor(r, n)
  <2>8. need + set + MaxFailures <= NumBlocks /\ need \in Nat
    <3>1. Len(Tokens(z, r)) \in Nat
      BY <1>2, <2>1, TokensAre DEF Plain
    <3> QED BY <2>1, <2>3, <2>7, <3>1, NeededNat DEF FitsAlone
  <2>9. free + 0 - set < need \/ free < need
    <3>1. Tree0.evictable = 0
      BY DEF Tree0
    <3> QED BY <2>5, <2>6, <3>1 DEF Denied
  <2>10. set \in Int /\ NumBlocks \in Nat /\ MaxFailures \in Nat /\ set >= 0
    BY <2>6, NumBlocksAssumption, SchedulerAssumption
  <2> HIDE DEF need, set
  <2> QED BY <2>4, <2>8, <2>9, <2>10
<1> QED BY <1>3, <1>4, <1>5

\* Whoever puts a request into the queue of a sleeping loop wakes it.
LEMMA SleepStep ==
  ASSUME FitsAlone, PlainInv, Short, SleepsOnlyWhenIdle, [Next]_vars
  PROVE  SleepsOnlyWhenIdle'
<1>1. ASSUME NEW r \in Request, Submit(r) \/ Abort(r) PROVE wake' = TRUE
  BY <1>1 DEF Submit, Abort
<1>2. CASE Idle
  BY <1>2 DEF Idle, SleepsOnlyWhenIdle
<1>3. CASE Tick
  BY <1>3, TickSleeps DEF SleepsOnlyWhenIdle
<1>4. CASE Wake \/ Deliver \/ Raised \/ AdoptFails \/ Forward \/ ForwardFails
  <2>1. pc' # "sleep"
    BY <1>4 DEF Wake, Deliver, Raised, AdoptFails, Forward, ForwardFails, Crash
  <2> QED BY <2>1 DEF SleepsOnlyWhenIdle
<1>5. CASE UNCHANGED vars
  BY <1>5 DEF vars, SleepsOnlyWhenIdle
<1> QED BY <1>1, <1>2, <1>3, <1>4, <1>5 DEF Next, Loop, SleepsOnlyWhenIdle

\* scheduler.py:106-145, 177-224: without the prefix tree, the loop never sleeps
\* on requests that wait, whatever is submitted, aborted, preempted or fails and
\* in whatever order, if the pool holds each request by itself together with
\* what is set aside for it, less a block for every failure of the device.
THEOREM NeverSleepsOnWork == ASSUME ~UseRadix, FitsAlone PROVE Spec => []SleepsOnlyWhenIdle
<1>1. Init => PlainInv /\ Short /\ SleepsOnlyWhenIdle
  BY PlainInit, ShortInit DEF Init, SleepsOnlyWhenIdle
<1>2. PlainInv /\ Short /\ SleepsOnlyWhenIdle /\ [Next]_vars => (PlainInv /\ Short /\ SleepsOnlyWhenIdle)'
  BY PlainStep, ShortStep, SleepStep
<1> QED BY <1>1, <1>2, PTL DEF Spec
=============================================================================
