----------------------------- MODULE LoopProofs -----------------------------
(***************************************************************************)
(* Induction over the natural numbers, stated with a set instead of a      *)
(* predicate, and what it gives for loops: the recursive functions by      *)
(* which Iterate and FoldLeft are defined exist.                           *)
(***************************************************************************)
EXTENDS Integers, Sequences, FiniteSetsExt, WellFoundedInduction, TLAPS

\* A set of natural numbers that is not empty has a smallest element.
LEMMA SmallestElement ==
  ASSUME NEW T \in SUBSET Nat, T # {}
  PROVE  \E n \in T : \A m \in T : n <= m
<1>1. PICK n \in T : \A m \in T : <<m, n>> \notin OpToRel(<, Nat)
  BY NatLessThanWellFounded, WFMin
<1>2. ASSUME NEW m \in T PROVE ~(m < n)
  BY <1>1 DEF OpToRel
<1>3. \A m \in T : n <= m
  BY <1>2
<1> QED BY <1>3

\* Induction: a set that has 0 and with each number the next has them all.
LEMMA SetInduction ==
  ASSUME NEW S, 0 \in S, \A n \in Nat : n \in S => n + 1 \in S
  PROVE  \A n \in Nat : n \in S
<1> DEFINE T == Nat \ S
<1> SUFFICES ASSUME T # {} PROVE FALSE
  OBVIOUS
<1>1. PICK n \in T : \A m \in T : n <= m
  BY SmallestElement
<1>2. n # 0 /\ n - 1 \in Nat /\ ~(n <= n - 1) /\ (n - 1) + 1 = n
  BY <1>1
<1>3. n - 1 \in S
  BY <1>1, <1>2
<1> QED BY <1>2, <1>3

\* The same up to a bound.
LEMMA BoundedInduction ==
  ASSUME NEW N \in Nat, NEW S, 0 \in S, \A n \in 0 .. N - 1 : n \in S => n + 1 \in S
  PROVE  \A n \in 0 .. N : n \in S
<1> DEFINE T == {n \in Nat : n <= N => n \in S}
<1>1. 0 \in T
  OBVIOUS
<1>2. \A n \in Nat : n \in T => n + 1 \in T
  OBVIOUS
<1> HIDE DEF T
<1>3. \A n \in Nat : n \in T
  BY <1>1, <1>2, SetInduction
<1> QED BY <1>3 DEF T

\* Induction on sequences: adding an element at the end keeps S.
LEMMA SeqInduction ==
  ASSUME NEW E, NEW S, <<>> \in S,
         \A s \in Seq(E), e \in E : s \in S => Append(s, e) \in S
  PROVE  \A s \in Seq(E) : s \in S
<1> DEFINE T == {n \in Nat : \A s \in Seq(E) : Len(s) = n => s \in S}
<1>1. 0 \in T
  OBVIOUS
<1>2. ASSUME NEW n \in Nat, n \in T PROVE n + 1 \in T
  <2>1. ASSUME NEW s \in Seq(E), Len(s) = n + 1 PROVE s \in S
    <3> DEFINE r == [i \in 1 .. n |-> s[i]]
    <3>1. r \in Seq(E) /\ Len(r) = n
      BY <2>1
    <3>2. s[n + 1] \in E /\ s = Append(r, s[n + 1])
      BY <2>1
    <3>3. r \in S
      BY <1>2, <3>1
    <3> HIDE DEF r
    <3> QED BY <3>1, <3>2, <3>3
  <2> QED BY <2>1
<1> HIDE DEF T
<1>3. \A n \in Nat : n \in T
  BY <1>1, <1>2, SetInduction
<1>4. ASSUME NEW s \in Seq(E) PROVE s \in S
  <2>1. Len(s) \in T
    BY <1>3
  <2> QED BY <2>1 DEF T
<1> QED BY <1>4

\* F is the body of a loop over elements of E on states of X.
Turns(F, X, E) == F \in [X \X E -> X]

\* The states a loop over a sequence goes through: F is its body.
LEMMA RunExists ==
  ASSUME NEW X, NEW E, NEW base \in X, NEW F, Turns(F, X, E), NEW seq \in Seq(E)
  PROVE  \E v \in [0 .. Len(seq) -> X] :
           v = [k \in 0 .. Len(seq) |-> IF k = 0 THEN base ELSE F[<<v[k - 1], seq[k]>>]]
<1> DEFINE N == Len(seq)
           Eq(v, n) == \A k \in 0 .. n : v[k] = IF k = 0 THEN base ELSE F[<<v[k - 1], seq[k]>>]
           Runs(n)  == {v \in [0 .. n -> X] : Eq(v, n)}
           S == {n \in Nat : Runs(n) # {}}
<1>1. 0 \in S
  <2>1. [k \in 0 .. 0 |-> base] \in Runs(0)
    OBVIOUS
  <2> QED BY <2>1
<1>2. ASSUME NEW n \in 0 .. N - 1, n \in S PROVE n + 1 \in S
  <2>1. PICK v \in Runs(n) : TRUE
    BY <1>2
  <2>2. v \in [0 .. n -> X] /\ Eq(v, n)
    BY <2>1
  <2> DEFINE last == F[<<v[n], seq[n + 1]>>]
             w    == [k \in 0 .. n + 1 |-> IF k = n + 1 THEN last ELSE v[k]]
  <2>3. last \in X
    <3>1. v[n] \in X /\ seq[n + 1] \in E
      BY <1>2, <2>2
    <3> QED BY <3>1 DEF Turns
  <2>4. w \in [0 .. n + 1 -> X]
    BY <2>2, <2>3
  <2>5. ASSUME NEW k \in 0 .. n + 1
        PROVE  w[k] = IF k = 0 THEN base ELSE F[<<w[k - 1], seq[k]>>]
    <3>1. CASE k = n + 1
      <4>1. w[k] = last /\ w[k - 1] = v[n] /\ k # 0
        BY <3>1
      <4> QED BY <4>1, <3>1
    <3>2. CASE k \in 0 .. n
      <4>1. v[k] = IF k = 0 THEN base ELSE F[<<v[k - 1], seq[k]>>]
        BY <2>2, <3>2
      <4>2. w[k] = v[k] /\ (k # 0 => w[k - 1] = v[k - 1])
        BY <3>2
      <4> QED BY <4>1, <4>2
    <3> QED BY <3>1, <3>2
  <2>6. w \in Runs(n + 1)
    BY <2>4, <2>5
  <2>7. Runs(n + 1) # {}
    BY <2>6
  <2>8. n + 1 \in Nat
    BY <1>2
  <2> QED BY <2>7, <2>8
<1>3. N \in S
  <2> HIDE DEF S
  <2>1. \A n \in 0 .. N : n \in S
    BY <1>1, <1>2, BoundedInduction
  <2> QED BY <2>1
<1>4. PICK v \in Runs(N) : TRUE
  BY <1>3
<1>5. v \in [0 .. N -> X] /\ Eq(v, N)
  BY <1>4
<1>6. v = [k \in 0 .. N |-> IF k = 0 THEN base ELSE F[<<v[k - 1], seq[k]>>]]
  BY <1>5
<1> QED BY <1>5, <1>6

\* The largest element of the numbers 1 to k is k.
LEMMA MaxOfInterval ==
  ASSUME NEW k \in Nat \ {0}, NEW s \in SUBSET (1 .. k), k \in s
  PROVE  Max(s) = k
<1>1. \A y \in s : k >= y
  OBVIOUS
<1>2. \A x \in s : (\A y \in s : x >= y) => x = k
  OBVIOUS
<1> QED BY <1>1, <1>2 DEF Max

\* A set of numbers from 1 to n has its largest element among its own.
LEMMA MaxInside ==
  ASSUME NEW n \in Nat, NEW s \in SUBSET (1 .. n), s # {}
  PROVE  Max(s) \in s
<1> DEFINE T == {n - x : x \in s}
<1>1. T \in SUBSET Nat
  OBVIOUS
<1>2. T # {}
  <2>1. PICK x \in s : TRUE
    OBVIOUS
  <2>2. n - x \in T
    OBVIOUS
  <2> QED BY <2>2
<1>3. PICK t \in T : \A m \in T : t <= m
  <2> HIDE DEF T
  <2> QED BY <1>1, <1>2, SmallestElement
<1>4. PICK x \in s : t = n - x
  BY <1>3
<1>5. ASSUME NEW y \in s PROVE x >= y
  <2>1. n - y \in T
    OBVIOUS
  <2>2. n - x <= n - y
    BY <1>3, <1>4, <2>1
  <2> QED BY <2>2
<1>6. \E z \in s : \A y \in s : z >= y
  BY <1>5
<1> QED BY <1>6 DEF Max

\* The intervals from 1, which the folds go through.
LEMMA Intervals ==
  ASSUME NEW n \in Nat, NEW k \in 1 .. n
  PROVE  /\ 1 .. k \in SUBSET (1 .. n)
         /\ 1 .. k # {}
         /\ (1 .. k) \ {k} = 1 .. k - 1
         /\ Max(1 .. k) = k
<1>1. k \in Nat \ {0} /\ 1 .. k \in SUBSET (1 .. n) /\ k \in 1 .. k
  OBVIOUS
<1>2. Max(1 .. k) = k
  BY <1>1, MaxOfInterval
<1>3. (1 .. k) \ {k} = 1 .. k - 1
  BY <1>1
<1> QED BY <1>1, <1>2, <1>3

\* G is a fold of F over the positions of seq, as FoldLeft's local function is.
IsFold(G, F, X, E, base, seq) ==
  /\ G = [s \in SUBSET (1 .. Len(seq)) |-> G[s]]
  /\ G[{}] = base
  /\ \A s \in SUBSET (1 .. Len(seq)) : s # {} =>
       /\ G[s \ {Max(s)}] \in X /\ seq[Max(s)] \in E
       /\ G[s] = F[<<G[s \ {Max(s)}], seq[Max(s)]>>]

\* The function by which FoldLeft is defined exists, for an F that keeps a set.
LEMMA FoldExists ==
  ASSUME NEW X, NEW E, NEW base \in X, NEW F, Turns(F, X, E), NEW seq \in Seq(E)
  PROVE  \E G : IsFold(G, F, X, E, base, seq)
<1> DEFINE N == Len(seq)
           Eq(G, n) == \A s \in SUBSET (1 .. n) :
                         G[s] = IF s = {} THEN base ELSE F[<<G[s \ {Max(s)}], seq[Max(s)]>>]
           Folds(n) == {G \in [SUBSET (1 .. n) -> X] : Eq(G, n)}
           S == {n \in Nat : Folds(n) # {}}
<1>1. 0 \in S
  <2> DEFINE G == [s \in SUBSET (1 .. 0) |-> base]
  <2>1. \A s \in SUBSET (1 .. 0) : s = {}
    OBVIOUS
  <2>2. G \in Folds(0)
    BY <2>1
  <2>3. Folds(0) # {}
    BY <2>2
  <2> QED BY <2>3
<1>2. ASSUME NEW n \in 0 .. N - 1, n \in S PROVE n + 1 \in S
  <2>1. PICK G \in Folds(n) : TRUE
    BY <1>2
  <2>2. G \in [SUBSET (1 .. n) -> X] /\ Eq(G, n)
    BY <2>1
  <2> DEFINE H == [s \in SUBSET (1 .. n + 1) |->
                     IF n + 1 \in s THEN F[<<G[s \ {n + 1}], seq[n + 1]>>] ELSE G[s]]
  <2>3. ASSUME NEW s \in SUBSET (1 .. n + 1), n + 1 \notin s PROVE s \in SUBSET (1 .. n)
    BY <2>3
  <2>4. ASSUME NEW s \in SUBSET (1 .. n + 1) PROVE s \ {n + 1} \in SUBSET (1 .. n)
    OBVIOUS
  <2>5. n + 1 \in 1 .. N
    BY <1>2
  <2>6. H \in [SUBSET (1 .. n + 1) -> X]
    <3>1. ASSUME NEW s \in SUBSET (1 .. n + 1) PROVE H[s] \in X
      <4>1. CASE n + 1 \in s
        <5>1. G[s \ {n + 1}] \in X /\ seq[n + 1] \in E
          BY <2>2, <2>4, <2>5
        <5> QED BY <4>1, <5>1 DEF Turns
      <4>2. CASE n + 1 \notin s
        BY <4>2, <2>2, <2>3
      <4> QED BY <4>1, <4>2
    <3> QED BY <3>1
  <2>7. ASSUME NEW s \in SUBSET (1 .. n + 1)
        PROVE  H[s] = IF s = {} THEN base ELSE F[<<H[s \ {Max(s)}], seq[Max(s)]>>]
    <3>1. CASE n + 1 \in s
      <4>1. Max(s) = n + 1
        BY <3>1, MaxOfInterval
      <4>2. H[s \ {n + 1}] = G[s \ {n + 1}]
        BY <2>4
      <4> QED BY <3>1, <4>1, <4>2
    <3>2. CASE n + 1 \notin s
      <4>1. H[s] = G[s] /\ s \in SUBSET (1 .. n)
        BY <3>2, <2>3
      <4>2. s \ {Max(s)} \in SUBSET (1 .. n + 1) /\ n + 1 \notin s \ {Max(s)}
        BY <3>2
      <4>3. H[s \ {Max(s)}] = G[s \ {Max(s)}]
        BY <4>2
      <4> QED BY <2>2, <4>1, <4>3
    <3> QED BY <3>1, <3>2
  <2>8. H \in Folds(n + 1)
    BY <2>6, <2>7
  <2>9. Folds(n + 1) # {}
    BY <2>8
  <2>10. n + 1 \in Nat
    BY <1>2
  <2> QED BY <2>9, <2>10
<1>3. N \in S
  <2> HIDE DEF S
  <2>1. \A n \in 0 .. N : n \in S
    BY <1>1, <1>2, BoundedInduction
  <2> QED BY <2>1
<1>4. PICK G \in Folds(N) : TRUE
  BY <1>3
<1>5. G \in [SUBSET (1 .. N) -> X] /\ Eq(G, N)
  BY <1>4
<1>6. ASSUME NEW s \in SUBSET (1 .. N), s # {}
      PROVE  /\ G[s \ {Max(s)}] \in X /\ seq[Max(s)] \in E
             /\ G[s] = F[<<G[s \ {Max(s)}], seq[Max(s)]>>]
  <2>1. N \in Nat
    OBVIOUS
  <2>2. Max(s) \in 1 .. N
    <3> HIDE DEF N
    <3> QED BY <1>6, <2>1, MaxInside
  <2>3. G[s \ {Max(s)}] \in X
    <3>1. s \ {Max(s)} \in SUBSET (1 .. N)
      OBVIOUS
    <3> QED BY <1>5, <3>1
  <2>4. seq[Max(s)] \in E
    BY <2>2
  <2> QED BY <1>5, <1>6, <2>3, <2>4
<1>7. G = [s \in SUBSET (1 .. N) |-> G[s]] /\ G[{}] = base
  BY <1>5
<1> QED BY <1>6, <1>7 DEF IsFold

-----------------------------------------------------------------------------
(* The value of a loop over a sequence, as a recursive function of how far *)
(* it has come.                                                            *)

Run(F, base, seq) ==
  LET v[k \in 0 .. Len(seq)] == IF k = 0 THEN base ELSE F[<<v[k - 1], seq[k]>>] IN v

FoldOf(F, base, seq) == Run(F, base, seq)[Len(seq)]

\* The recursion has a solution, which stays in X.
LEMMA RunValue ==
  ASSUME NEW X, NEW E, NEW base \in X, NEW F, Turns(F, X, E), NEW seq \in Seq(E)
  PROVE  /\ Run(F, base, seq) \in [0 .. Len(seq) -> X]
         /\ Run(F, base, seq)[0] = base
         /\ \A k \in 1 .. Len(seq) :
              Run(F, base, seq)[k] = F[<<Run(F, base, seq)[k - 1], seq[k]>>]
<1> DEFINE N == Len(seq)
           P(v) == v = [k \in 0 .. N |-> IF k = 0 THEN base ELSE F[<<v[k - 1], seq[k]>>]]
           r == Run(F, base, seq)
           In == {k \in Nat : k <= N => r[k] \in X}
<1>1. N \in Nat /\ seq \in [1 .. N -> E]
  OBVIOUS
<1>2. \E v : P(v)
  BY RunExists
<1>3. r = CHOOSE v : P(v)
  BY DEF Run
<1>4. P(r)
  BY <1>2, <1>3
<1> HIDE DEF r
<1>5. r = [k \in 0 .. N |-> r[k]] /\ r[0] = base
      /\ \A k \in 1 .. N : r[k] = F[<<r[k - 1], seq[k]>>]
  <2>1. r[0] = base
    BY <1>1, <1>4
  <2>2. ASSUME NEW k \in 1 .. N PROVE r[k] = F[<<r[k - 1], seq[k]>>]
    BY <1>1, <1>4
  <2>3. r = [k \in 0 .. N |-> r[k]]
    BY <1>4
  <2> QED BY <2>1, <2>2, <2>3
<1>6. \A k \in 0 .. N : k \in In
  <2>1. 0 \in In
    BY <1>5
  <2>2. ASSUME NEW k \in 0 .. N - 1, k \in In PROVE k + 1 \in In
    <3>1. k + 1 \in 1 .. N /\ k <= N /\ (k + 1) - 1 = k
      BY <1>1
    <3>2. r[k] \in X /\ seq[k + 1] \in E
      BY <1>1, <2>2, <3>1
    <3>3. r[k + 1] = F[<<r[k], seq[k + 1]>>]
      BY <1>5, <3>1
    <3>4. r[k + 1] \in X
      BY <3>2, <3>3 DEF Turns
    <3> QED BY <3>1, <3>4
  <2> HIDE DEF In, N
  <2> QED BY <1>1, <2>1, <2>2, BoundedInduction
<1>7. \A k \in 0 .. N : r[k] \in X
  BY <1>1, <1>6
<1>8. r \in [0 .. N -> X]
  <2> HIDE DEF In, N, P
  <2> QED BY <1>5, <1>7
<1> QED BY <1>5, <1>8 DEF r

\* Whatever runs as F does, on the states F is for, ends where F ends.
LEMMA RunIsFold ==
  ASSUME NEW X, NEW E, NEW base \in X, NEW F, Turns(F, X, E), NEW seq \in Seq(E),
         NEW v, v[0] = base,
         \A k \in 1 .. Len(seq) : v[k - 1] \in X => v[k] = F[<<v[k - 1], seq[k]>>]
  PROVE  \A k \in 0 .. Len(seq) : v[k] \in X /\ v[k] = Run(F, base, seq)[k]
<1> DEFINE N == Len(seq)
           r == Run(F, base, seq)
           S == {k \in Nat : k <= N => v[k] \in X /\ v[k] = r[k]}
<1>1. N \in Nat
  OBVIOUS
<1>2. /\ r \in [0 .. N -> X] /\ r[0] = base
      /\ \A k \in 1 .. N : r[k] = F[<<r[k - 1], seq[k]>>]
  BY RunValue
<1> HIDE DEF r
<1>3. 0 \in S
  BY <1>2
<1>4. ASSUME NEW k \in 0 .. N - 1, k \in S PROVE k + 1 \in S
  <2>1. k + 1 \in 1 .. N /\ k + 1 \in 0 .. N /\ k <= N /\ (k + 1) - 1 = k
    BY <1>1
  <2>2. v[k] \in X /\ v[k] = r[k]
    BY <1>4, <2>1
  <2>3. v[k + 1] = F[<<v[k], seq[k + 1]>>] /\ r[k + 1] = F[<<r[k], seq[k + 1]>>]
    BY <1>2, <2>1, <2>2
  <2>4. r[k + 1] \in X
    BY <1>2, <2>1
  <2>5. v[k + 1] = r[k + 1] /\ v[k + 1] \in X
    BY <2>2, <2>3, <2>4
  <2> QED BY <2>1, <2>5
<1>5. \A k \in 0 .. N : k \in S
  <2> HIDE DEF S, N
  <2> QED BY <1>1, <1>3, <1>4, BoundedInduction
<1> QED BY <1>1, <1>5 DEF r

\* A loop over nothing is its base.
LEMMA FoldEmpty ==
  ASSUME NEW X, NEW E, NEW base \in X, NEW F, Turns(F, X, E)
  PROVE  FoldOf(F, base, <<>>) = base
<1> DEFINE s == <<>>
<1>1. s \in Seq(E)
  OBVIOUS
<1>2. Len(s) = 0
  OBVIOUS
<1> HIDE DEF s
<1>3. Run(F, base, s)[0] = base
  BY <1>1, RunValue
<1> QED BY <1>2, <1>3 DEF FoldOf, s

\* A loop stays in the set its turns stay in.
LEMMA FoldType ==
  ASSUME NEW X, NEW E, NEW base \in X, NEW F, Turns(F, X, E), NEW seq \in Seq(E)
  PROVE  FoldOf(F, base, seq) \in X
<1>1. Run(F, base, seq) \in [0 .. Len(seq) -> X] /\ Len(seq) \in 0 .. Len(seq)
  BY RunValue
<1> QED BY <1>1 DEF FoldOf

\* A loop over one element more is one turn more.
LEMMA FoldAppend ==
  ASSUME NEW X, NEW E, NEW base \in X, NEW F, Turns(F, X, E), NEW seq \in Seq(E), NEW e \in E
  PROVE  FoldOf(F, base, Append(seq, e)) = F[<<FoldOf(F, base, seq), e>>]
<1> DEFINE n == Len(seq)
           s == Append(seq, e)
           r == Run(F, base, seq)
           v == Run(F, base, s)
<1>1. n \in Nat /\ s \in Seq(E) /\ Len(s) = n + 1 /\ s[n + 1] = e
      /\ \A k \in 1 .. n : s[k] = seq[k]
  OBVIOUS
<1>2. v[0] = base /\ \A k \in 1 .. n + 1 : v[k] = F[<<v[k - 1], s[k]>>]
  BY <1>1, RunValue
<1> HIDE DEF v, s
<1>3. \A k \in 1 .. n : v[k] = F[<<v[k - 1], seq[k]>>]
  BY <1>1, <1>2
<1>4. \A k \in 0 .. n : v[k] \in X /\ v[k] = r[k]
  <2> HIDE DEF r
  <2>1. \A k \in 1 .. n : v[k - 1] \in X => v[k] = F[<<v[k - 1], seq[k]>>]
    BY <1>3
  <2> QED BY <1>2, <2>1, RunIsFold DEF r
<1>5. v[n] = r[n]
  BY <1>1, <1>4
<1>6. v[n + 1] = F[<<v[n], e>>]
  <2>1. n + 1 \in 1 .. n + 1 /\ (n + 1) - 1 = n
    BY <1>1
  <2> QED BY <1>1, <1>2, <2>1
<1> QED BY <1>1, <1>5, <1>6 DEF FoldOf, v, s

\* What every turn keeps, the loop keeps.
LEMMA FoldKeeps ==
  ASSUME NEW X, NEW E, NEW base \in X, NEW F, Turns(F, X, E), NEW K, base \in K,
         \A x \in X, e \in E : x \in K => F[<<x, e>>] \in K, NEW seq \in Seq(E)
  PROVE  FoldOf(F, base, seq) \in K
<1> DEFINE S == {s \in Seq(E) : FoldOf(F, base, s) \in K}
<1>1. <<>> \in S
  BY FoldEmpty
<1>2. ASSUME NEW s \in Seq(E), NEW e \in E, s \in S PROVE Append(s, e) \in S
  <2>1. FoldOf(F, base, s) \in X /\ FoldOf(F, base, s) \in K
    BY <1>2, FoldType
  <2>2. FoldOf(F, base, Append(s, e)) = F[<<FoldOf(F, base, s), e>>]
    BY FoldAppend
  <2>3. FoldOf(F, base, Append(s, e)) \in K
    BY <2>1, <2>2
  <2>4. Append(s, e) \in Seq(E)
    OBVIOUS
  <2> QED BY <2>3, <2>4
<1>3. \A s \in Seq(E) : s \in S
  <2> HIDE DEF S
  <2> QED BY <1>1, <1>2, SeqInduction
<1> QED BY <1>3

\* A state no turn changes is the end of every longer loop.
LEMMA FoldStays ==
  ASSUME NEW X, NEW E, NEW base \in X, NEW F, Turns(F, X, E), NEW seq \in Seq(E), NEW rest \in Seq(E),
         \A e \in E : F[<<FoldOf(F, base, seq), e>>] = FoldOf(F, base, seq)
  PROVE  FoldOf(F, base, seq \o rest) = FoldOf(F, base, seq)
<1> DEFINE S == {s \in Seq(E) : FoldOf(F, base, seq \o s) = FoldOf(F, base, seq)}
<1>1. <<>> \in S
  OBVIOUS
<1>2. ASSUME NEW s \in Seq(E), NEW e \in E, s \in S PROVE Append(s, e) \in S
  <2> DEFINE u == seq \o s
  <2>1. u \in Seq(E)
    OBVIOUS
  <2>2. seq \o Append(s, e) = Append(u, e)
    OBVIOUS
  <2>3. FoldOf(F, base, u) = FoldOf(F, base, seq)
    BY <1>2
  <2>4. Append(s, e) \in Seq(E)
    OBVIOUS
  <2>5. FoldOf(F, base, Append(u, e)) = F[<<FoldOf(F, base, u), e>>]
    <3> HIDE DEF u
    <3> QED BY <2>1, FoldAppend
  <2>6. FoldOf(F, base, seq \o Append(s, e)) = FoldOf(F, base, seq)
    BY <2>2, <2>3, <2>5
  <2> QED BY <2>4, <2>6
<1>3. \A s \in Seq(E) : s \in S
  <2> HIDE DEF S
  <2> QED BY <1>1, <1>2, SeqInduction
<1> QED BY <1>3
=============================================================================
