---------------------------- MODULE OnlineSoftmax ----------------------------
(***************************************************************************)
(* The running softmax of the attention kernels.                           *)
(*                                                                         *)
(* A score is an integer from 0 to MaxScore, FLT_MAX and the infinity      *)
(* beyond it stand far outside that range, and e is 2: the differences of  *)
(* scores are what the kernels exponentiate, so that every weight is a     *)
(* power of two and is kept exactly, in units of 2^-MaxScore.  Rounding is *)
(* left out.  A vector is the bag of the value rows it adds up.            *)
(***************************************************************************)
EXTENDS Integers, Sequences, FiniteSets, FiniteSetsExt, Bags, Loops

CONSTANT MaxScore

ASSUME MaxScoreAssumption == MaxScore \in Nat \ {0}

FLT_MAX == 1000
Infinity == 2 * FLT_MAX
One == 2 ^ MaxScore

Fmax(a, b) == IF a < b THEN b ELSE a

\* x * expf(d): nothing is left when d is of the order of -FLT_MAX, and a
\* factor beyond every weight stands for the overflow of a large d.
TimesExp(x, d) ==
  IF d < -(FLT_MAX \div 2) THEN 0
  ELSE IF d > MaxScore THEN x * One * One
  ELSE IF d >= 0 THEN x * 2 ^ d ELSE x \div 2 ^ (-d)

\* Mutant: the maximum starts at minus infinity.
NothingInfinite == [m |-> -Infinity, l |-> 0, O |-> EmptyBag]

\* What a row starts with.
Nothing == [m |-> -FLT_MAX, l |-> 0, O |-> EmptyBag]

\* One turn of the online softmax loop: the running maximum and sum take in s.
Absorb(a, s) ==
  LET m == Fmax(a.m, s) IN [m |-> m, l |-> TimesExp(a.l, a.m - m) + TimesExp(One, s - m)]

\* What a lane makes of its scores, starting from the row's maximum so far.
AbsorbAll(m, scores) ==
  LET Turn(t) == [n |-> t.n + 1, a |-> Absorb(t.a, scores[t.n])]
  IN  Iterate(Turn, [n |-> 1, a |-> [m |-> m, l |-> 0]], Len(scores)).a

\* Two lanes' maxima and sums become one.
Merge(a, b) ==
  IF a.m < b.m THEN [m |-> b.m, l |-> TimesExp(a.l, a.m - b.m) + b.l]
  ELSE [m |-> a.m, l |-> a.l + TimesExp(b.l, b.m - a.m)]

Lane == 0 .. 3
Xor2(i) == (i + 2) % 4
Xor1(i) == IF i % 2 = 0 THEN i + 1 ELSE i - 1

\* The two rounds of __shfl_xor_sync.
QuadReduce(lanes) ==
  LET round1 == [i \in Lane |-> Merge(lanes[i], lanes[Xor2(i)])]
  IN  [i \in Lane |-> Merge(round1[i], round1[Xor1(i)])]

Shrink(O, d) ==
  LET new == [v \in DOMAIN O |-> TimesExp(O[v], d)]
  IN  [v \in {u \in DOMAIN O : new[u] # 0} |-> new[v]]

\* P @ V over the rows of a tile, zero rows adding nothing.
Weighted(scores, rows, m, zero) ==
  LET P(j)   == TimesExp(One, scores[j] - m)
      new    == [v \in {rows[j] : j \in DOMAIN rows} \ {zero} |->
                   MapThenSumSet(P, {j \in DOMAIN rows : rows[j] = v})]
  IN  [v \in {u \in DOMAIN new : new[u] # 0} |-> new[v]]

\* The old sum and output, scaled to the new maximum, take in a tile.
TakeTile(a, new, scores, rows, zero) ==
  [m |-> new.m,
   l |-> new.l + TimesExp(a.l, a.m - new.m),
   O |-> Shrink(a.O, a.m - new.m) (+) Weighted(scores, rows, new.m, zero)]
=============================================================================
