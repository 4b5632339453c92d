------------------------- MODULE WeightLoaderProofs -------------------------
(***************************************************************************)
(* Whatever the files say and whatever fails, all that the loader acquires *)
(* has one owner while it lives.                                           *)
(***************************************************************************)
EXTENDS WeightLoader, LoopProofs, FiniteSetTheorems

-----------------------------------------------------------------------------
(* The plan.                                                               *)

Names == ToSet(Top) \cup ToSet(Layer)

\* Min is a member of a set of naturals with something in it, and no member is less.
LEMMA MinOK ==
  ASSUME NEW S \in SUBSET Nat, S # {}
  PROVE  Min(S) \in S /\ \A y \in S : Min(S) <= y
<1>1. PICK n \in S : \A m \in S : n <= m
  BY SmallestElement
<1> QED BY <1>1 DEF Min

\* The members of two sequences together.
LEMMA SetOfConcat ==
  ASSUME NEW E, NEW s \in Seq(E), NEW t \in Seq(E)
  PROVE  s \o t \in Seq(E) /\ ToSet(s \o t) = ToSet(s) \cup ToSet(t)
<1> DEFINE u == s \o t
<1>2. /\ u \in Seq(E) /\ Len(u) = Len(s) + Len(t) /\ Len(s) \in Nat /\ Len(t) \in Nat
      /\ DOMAIN u = 1 .. Len(s) + Len(t) /\ DOMAIN s = 1 .. Len(s) /\ DOMAIN t = 1 .. Len(t)
      /\ \A i \in 1 .. Len(s) + Len(t) : u[i] = IF i <= Len(s) THEN s[i] ELSE t[i - Len(s)]
  OBVIOUS
<1> HIDE DEF u
<1>3. ASSUME NEW i \in 1 .. Len(s) + Len(t) PROVE u[i] \in ToSet(s) \cup ToSet(t)
  <2>1. CASE i <= Len(s)
    BY <1>2, <2>1 DEF ToSet
  <2>2. CASE ~(i <= Len(s))
    <3>1. i - Len(s) \in 1 .. Len(t) /\ u[i] = t[i - Len(s)]
      BY <1>2, <2>2
    <3> QED BY <1>2, <3>1 DEF ToSet
  <2> QED BY <2>1, <2>2
<1>4. ToSet(u) \subseteq ToSet(s) \cup ToSet(t)
  BY <1>2, <1>3 DEF ToSet
<1>5. ToSet(s) \subseteq ToSet(u)
  BY <1>2 DEF ToSet
<1>6. ASSUME NEW j \in 1 .. Len(t) PROVE t[j] \in ToSet(u)
  <2>1. Len(s) + j \in 1 .. Len(s) + Len(t) /\ u[Len(s) + j] = t[j]
    <3>1. Len(s) + j \in 1 .. Len(s) + Len(t) /\ ~(Len(s) + j <= Len(s)) /\ (Len(s) + j) - Len(s) = j
      BY <1>2
    <3> QED BY <1>2, <3>1
  <2> QED BY <1>2, <2>1 DEF ToSet
<1>7. ToSet(t) \subseteq ToSet(u)
  BY <1>2, <1>6 DEF ToSet
<1> QED BY <1>2, <1>4, <1>5, <1>7 DEF u

\* The first of a plan's names that is not there.
FirstOf(plan, have) == plan[Min({i \in DOMAIN plan : plan[i] \notin have})]

\* When the last is not there: it is new, and the last only if all others are there.
LEMMA FirstMissing ==
  ASSUME NEW E, NEW names \in Seq(E), NEW last, NEW have, last \notin have
  PROVE  /\ FirstOf(names \o <<last>>, have) \notin have
         /\ FirstOf(names \o <<last>>, have) \in ToSet(names) \cup {last}
         /\ FirstOf(names \o <<last>>, have) = last /\ last \notin ToSet(names)
            => ToSet(names) \subseteq have
         /\ Len(names) > 0 /\ FirstOf(names \o <<last>>, have) # names[1] => names[1] \in have
<1> DEFINE p == names \o <<last>>
           next == FirstOf(p, have)
           n == Len(names)
<1>1. names \in Seq(E \cup {last}) /\ <<last>> \in Seq(E \cup {last})
  OBVIOUS
<1>2. /\ n \in Nat /\ DOMAIN p = 1 .. n + 1 /\ DOMAIN names = 1 .. n
      /\ p[n + 1] = last /\ \A i \in 1 .. n : p[i] = names[i]
  BY <1>1
<1> HIDE DEF p, n
<1>3. PICK m \in 1 .. n + 1 : /\ p[m] \notin have /\ next = p[m]
                              /\ \A i \in 1 .. n + 1 : p[i] \notin have => m <= i
  <2> DEFINE S == {i \in DOMAIN p : p[i] \notin have}
  <2>1. S \in SUBSET Nat /\ n + 1 \in S
    BY <1>2
  <2>2. next = p[Min(S)]
    BY DEF FirstOf
  <2>3. \A i \in 1 .. n + 1 : p[i] \notin have => i \in S
    BY <1>2
  <2>4. \A i \in S : i \in 1 .. n + 1 /\ p[i] \notin have
    BY <1>2
  <2> HIDE DEF S, next
  <2>5. Min(S) \in S /\ \A y \in S : Min(S) <= y
    BY <2>1, MinOK
  <2> QED BY <2>2, <2>3, <2>4, <2>5
<1> HIDE DEF next
<1>4. next \in ToSet(names) \cup {last}
  BY <1>2, <1>3 DEF ToSet
<1>5. ASSUME next = last, last \notin ToSet(names) PROVE ToSet(names) \subseteq have
  <2>1. m = n + 1
    <3>1. \A i \in 1 .. n : names[i] \in ToSet(names)
      BY <1>2 DEF ToSet
    <3>2. ASSUME m \in 1 .. n PROVE FALSE
      <4>1. p[m] = names[m] /\ names[m] \in ToSet(names)
        BY <1>2, <3>1, <3>2
      <4> QED BY <1>3, <1>5, <4>1
    <3>3. n \in Nat
      BY <1>2
    <3> QED BY <3>2, <3>3
  <2> QED BY <1>2, <1>3, <2>1 DEF ToSet
<1>6. ASSUME n > 0, next # names[1] PROVE names[1] \in have
  <2>1. m # 1
    BY <1>2, <1>3, <1>6
  <2> QED BY <1>2, <1>3, <1>6, <2>1
<1> QED BY <1>3, <1>4, <1>5, <1>6 DEF p, n, next

\* The names of a plan.
AnyName == STRING \cup {"embed", "lm_head", "norm", "gate", "up", "gate_up"}

\* The plan fetches named weights, the three of the model and those of a layer.
LEMMA PlanNames ==
  /\ Top \in Seq(AnyName) /\ Len(Top) = 3 /\ Top[1] = "embed" /\ ToSet(Top) = {"embed", "lm_head", "norm"}
  /\ Layer \in Seq(AnyName)
  /\ ToSet(Layer) = (ToSet(Before) \cup {"gate", "up", "gate_up"}) \cup ToSet(After)
<1> DEFINE top == {"embed", "lm_head", "norm"}
           mid == {"gate", "up", "gate_up"}
           E == AnyName
<1>0. E = STRING \cup (top \cup mid)
  BY DEF AnyName
<1>1. Top \in Seq(E) /\ Len(Top) = 3 /\ Top[1] = "embed" /\ ToSet(Top) = top
  <2>1. Top \in Seq(E) /\ Len(Top) = 3
    BY <1>0 DEF Top
  <2>2. Top[1] = "embed" /\ Top[2] = "lm_head" /\ Top[3] = "norm" /\ DOMAIN Top = 1 .. 3
    BY DEF Top
  <2> QED BY <2>1, <2>2 DEF ToSet
<1>2. /\ Layer \in Seq(E)
      /\ ToSet(Layer) = (ToSet(Before) \cup mid) \cup ToSet(After)
  <2> DEFINE m == <<"gate", "up", "gate_up">>
             bm == Before \o m
  <2>1. Before \in Seq(E) /\ After \in Seq(E)
    BY <1>0, NamesAssumption
  <2>2. m \in Seq(E) /\ Len(m) = 3
    BY <1>0
  <2>3. m[1] = "gate" /\ m[2] = "up" /\ m[3] = "gate_up" /\ DOMAIN m = 1 .. 3
    OBVIOUS
  <2>4. Layer = bm \o After
    BY DEF Layer
  <2> HIDE DEF m
  <2>5. ToSet(m) = mid
    BY <2>3 DEF ToSet
  <2> HIDE DEF mid, E
  <2>6. bm \in Seq(E) /\ ToSet(bm) = ToSet(Before) \cup ToSet(m)
    BY <2>1, <2>2, SetOfConcat
  <2> HIDE DEF bm
  <2>7. /\ bm \o After \in Seq(E)
        /\ ToSet(bm \o After) = ToSet(bm) \cup ToSet(After)
    BY <2>1, <2>6, SetOfConcat
  <2> QED BY <2>4, <2>5, <2>6, <2>7
<1> QED BY <1>1, <1>2

\* Every name is that of a tensor of the top, of one a layer keeps, or of one
\* of the two it fuses.
LEMMA NamesAreKept ==
  LET T == ToSet(Top)
  IN  /\ T \subseteq Names /\ Kept \subseteq Names /\ T \cap Kept = {}
      /\ T \cap {"gate", "up"} = {} /\ Kept \cap {"gate", "up"} = {}
      /\ Names \subseteq T \cup Kept \cup {"gate", "up"}
BY PlanNames, NamesAssumption DEF Names, Kept

\* No weight is named like a step of the plan that is not a fetch.
LEMMA NamesAreNotSteps == "layer" \notin Names /\ "return" \notin Names
BY PlanNames, NamesAssumption DEF Names

\* What is done next, by the plan: nothing is made twice, a layer is finished
\* and the weights returned only when nothing is missing, and the output
\* layer is tied to an embedding that is there.
LEMMA NextOne ==
  ASSUME DOMAIN local \subseteq Names
  PROVE  /\ Next1 \notin DOMAIN local /\ Next1 \in Names \cup {"layer", "return"}
         /\ Next1 = "layer" => Names \subseteq DOMAIN local /\ Len(layers) < cfg["num_hidden_layers"]
         /\ Next1 = "return" => ~(Len(layers) < cfg["num_hidden_layers"])
         /\ Next1 = "lm_head" => "embed" \in DOMAIN local
         /\ ~(Len(layers) < cfg["num_hidden_layers"]) => Next1 \in ToSet(Top) \cup {"return"}
<1> DEFINE have == DOMAIN local
           E == AnyName
<1>3. "layer" \notin Names /\ "return" \notin Names /\ "embed" \notin ToSet(Layer)
  BY PlanNames, NamesAssumption DEF Names
<1> HIDE DEF have, E
<1>1. Top \in Seq(E) /\ Len(Top) = 3 /\ Top[1] = "embed"
  BY PlanNames DEF E
<1>2. Layer \in Seq(E)
  BY PlanNames DEF E
<1>4. CASE Len(layers) < cfg["num_hidden_layers"]
  <2> DEFINE names == Top \o Layer
  <2>1. Next1 = FirstOf(names \o <<"layer">>, have)
    BY <1>4 DEF Next1, Plan, FirstOf, have
  <2>2. names \in Seq(E) /\ ToSet(names) = Names
    BY <1>1, <1>2, SetOfConcat DEF Names
  <2>3. Len(names) > 0 /\ names[1] = "embed"
    <3>1. Len(Layer) \in Nat /\ Top \in Seq(E) /\ Layer \in Seq(E)
      BY <1>1, <1>2
    <3>2. Len(names) = 3 + Len(Layer) /\ names[1] = Top[1]
      <4>1. Len(Top) = 3
        BY <1>1
      <4>2. Len(names) = Len(Top) + Len(Layer)
        BY <3>1
      <4>3. 1 \in 1 .. Len(Top) => names[1] = Top[1]
        BY <3>1
      <4> QED BY <4>1, <4>2, <4>3
    <3> QED BY <1>1, <3>1, <3>2
  <2> HIDE DEF names
  <2>4. "layer" \notin have
    BY <1>3 DEF have
  <2>5. /\ Next1 \notin have /\ Next1 \in Names \cup {"layer"}
        /\ Next1 = "layer" => Names \subseteq have
        /\ Next1 # "embed" => "embed" \in have
    BY <1>3, <2>1, <2>2, <2>3, <2>4, FirstMissing
  <2> HIDE DEF Next1
  <2> QED BY <1>3, <1>4, <2>5 DEF have
<1>5. CASE ~(Len(layers) < cfg["num_hidden_layers"])
  <2>1. Next1 = FirstOf(Top \o <<"return">>, have)
    BY <1>5 DEF Next1, Plan, FirstOf, have
  <2>2. "return" \notin have
    BY <1>3 DEF have
  <2>3. /\ Next1 \notin have /\ Next1 \in ToSet(Top) \cup {"return"}
        /\ Next1 # "embed" => "embed" \in have
    BY <1>1, <2>1, <2>2, FirstMissing
  <2> HIDE DEF Next1
  <2>4. Next1 # "layer"
    BY <1>3, <2>3 DEF Names
  <2> QED BY <1>5, <2>3, <2>4 DEF Names, have
<1> QED BY <1>4, <1>5

-----------------------------------------------------------------------------
(* Tensors and what they own, wherever they are kept: top are those by     *)
(* name, lys those of the layers done, bufs the live buffers.              *)

Owns(t, b) == t.owns /\ t.buf = b

TensorOK(t, bufs, mp) ==
  /\ t = [at |-> t.at, buf |-> t.buf, span |-> t.span, owns |-> t.owns]
  /\ t.at \in {"map", "heap"} /\ t.owns \in BOOLEAN
  /\ t.at = "map"  => mp /\ ~t.owns
  /\ t.at = "heap" => t.buf \in bufs

OwnedIn(top, b)    == \E n \in DOMAIN top : Owns(top[n], b)
OwnedInLys(lys, b) == \E i \in 1 .. Len(lys) : \E n \in Kept : Owns(lys[i][n], b)

\* No buffer has two owners.
Apart(top, lys) ==
  /\ \A n \in DOMAIN top : \A m \in DOMAIN top : \A b : Owns(top[n], b) /\ Owns(top[m], b) => n = m
  /\ \A n \in DOMAIN top : \A i \in 1 .. Len(lys) : \A m \in Kept : \A b :
       ~(Owns(top[n], b) /\ Owns(lys[i][m], b))
  /\ \A i \in 1 .. Len(lys) : \A n \in Kept : \A j \in 1 .. Len(lys) : \A m \in Kept : \A b :
       Owns(lys[i][n], b) /\ Owns(lys[j][m], b) => i = j /\ n = m

\* Every buffer has one.
Covered(top, lys, bufs) == \A b \in bufs : OwnedIn(top, b) \/ OwnedInLys(lys, b)

NamedOK(top, bufs, mp, dev) ==
  /\ DOMAIN top \subseteq Names
  /\ \A n \in DOMAIN top : /\ TensorOK(top[n], bufs, mp)
                           /\ n \in {"gate", "up"} => ~top[n].owns
                           /\ dev = "CUDA" /\ n \notin {"gate", "up"} => top[n].at = "heap"

LayersOK(lys, bufs, mp, dev) ==
  /\ lys \in Seq({lys[i] : i \in DOMAIN lys})
  /\ \A i \in 1 .. Len(lys) : DOMAIN lys[i] = Kept
  /\ \A i \in 1 .. Len(lys) : \A n \in Kept : /\ TensorOK(lys[i][n], bufs, mp)
                                              /\ dev = "CUDA" => lys[i][n].at = "heap"

Held(top, lys, bufs, mp, dev) ==
  /\ NamedOK(top, bufs, mp, dev) /\ LayersOK(lys, bufs, mp, dev)
  /\ Apart(top, lys) /\ Covered(top, lys, bufs)

\* A new buffer is none of those there are.
LEMMA NewBufferIsNew ==
  ASSUME IsFiniteSet(DOMAIN heap)
  PROVE  NewBuffer \notin DOMAIN heap
<1> DEFINE D == DOMAIN heap
           c == Cardinality(D)
           S == (1 .. c + 1) \ D
<1>1. c \in Nat
  BY FS_CardinalityType
<1>2. S # {}
  <2> SUFFICES ASSUME S = {} PROVE FALSE
    OBVIOUS
  <2>1. 1 .. c + 1 \in SUBSET D
    OBVIOUS
  <2>2. Cardinality(1 .. c + 1) <= c
    BY <2>1, FS_Subset
  <2>3. Cardinality(1 .. c + 1) = c + 1
    BY <1>1, FS_Interval
  <2> QED BY <1>1, <2>2, <2>3
<1>3. S \in SUBSET Nat
  BY <1>1
<1>4. Min(S) \in S
  BY <1>2, <1>3, MinOK
<1>5. NewBuffer = Min(S)
  BY DEF NewBuffer
<1> QED BY <1>4, <1>5

\* A tensor is kept under a new name: one that owns nothing, or one that owns
\* a buffer no other tensor has.
LEMMA KeepHolds ==
  ASSUME NEW top, NEW lys, NEW bufs, NEW mp, NEW dev, Held(top, lys, bufs, mp, dev),
         NEW name \in Names, name \notin DOMAIN top,
         NEW t, NEW bufs2, TensorOK(t, bufs2, mp),
         name \in {"gate", "up"} => ~t.owns,
         dev = "CUDA" /\ name \notin {"gate", "up"} => t.at = "heap",
         \/ ~t.owns /\ bufs2 = bufs
         \/ t.owns /\ t.buf \notin bufs /\ bufs2 = bufs \cup {t.buf}
  PROVE  Held(Put(top, name, t), lys, bufs2, mp, dev)
<1> DEFINE new == Put(top, name, t)
<1>1. DOMAIN new = DOMAIN top \cup {name} /\ new[name] = t /\ \A n \in DOMAIN top : new[n] = top[n]
  BY DEF Put
<1> HIDE DEF new
<1>2. bufs \subseteq bufs2
  OBVIOUS
<1>3. \A u : TensorOK(u, bufs, mp) => TensorOK(u, bufs2, mp)
  BY <1>2 DEF TensorOK
<1>4. NamedOK(new, bufs2, mp, dev)
  BY <1>1, <1>3 DEF NamedOK, Held
<1>5. LayersOK(lys, bufs2, mp, dev)
  BY <1>3 DEF LayersOK, Held
<1>6. \A n \in DOMAIN top : \A b : Owns(top[n], b) => b \in bufs
  BY DEF Held, NamedOK, TensorOK, Owns
<1>7. \A i \in 1 .. Len(lys) : \A m \in Kept : \A b : Owns(lys[i][m], b) => b \in bufs
  BY DEF Held, LayersOK, TensorOK, Owns
<1>8. \A b \in bufs : ~Owns(t, b)
  BY DEF Owns
<1>9. Apart(new, lys)
  <2>1. \A n \in DOMAIN new : \A m \in DOMAIN new : \A b : Owns(new[n], b) /\ Owns(new[m], b) => n = m
    BY <1>1, <1>6, <1>8 DEF Held, Apart
  <2>2. \A n \in DOMAIN new : \A i \in 1 .. Len(lys) : \A m \in Kept : \A b :
          ~(Owns(new[n], b) /\ Owns(lys[i][m], b))
    BY <1>1, <1>7, <1>8 DEF Held, Apart
  <2> QED BY <2>1, <2>2 DEF Held, Apart
<1>10. ASSUME NEW b \in bufs2 PROVE OwnedIn(new, b) \/ OwnedInLys(lys, b)
  <2>1. CASE b \in bufs
    BY <1>1, <2>1 DEF Held, Covered, OwnedIn
  <2>2. CASE b \notin bufs
    <3>1. Owns(new[name], b)
      BY <1>1, <2>2 DEF Owns
    <3> QED BY <1>1, <3>1 DEF OwnedIn
  <2> QED BY <2>1, <2>2
<1> QED BY <1>4, <1>5, <1>9, <1>10 DEF Held, Covered, new

\* A layer's tensors go from their names to the layers: each buffer keeps its
\* owner, and gate and up had none.
LEMMA MoveHolds ==
  ASSUME NEW top, NEW lys, NEW bufs, NEW mp, NEW dev, Held(top, lys, bufs, mp, dev),
         Names \subseteq DOMAIN top
  PROVE  Held([n \in ToSet(Top) |-> top[n]], Append(lys, [n \in Kept |-> top[n]]), bufs, mp, dev)
<1> DEFINE T == ToSet(Top)
           rest == [n \in T |-> top[n]]
           w    == [n \in Kept |-> top[n]]
           more == Append(lys, w)
           L    == Len(lys)
           R    == {lys[i] : i \in DOMAIN lys}
<1>1. /\ T \subseteq Names /\ Kept \subseteq Names /\ T \cap Kept = {}
      /\ T \cap {"gate", "up"} = {} /\ Kept \cap {"gate", "up"} = {}
      /\ Names \subseteq T \cup Kept \cup {"gate", "up"}
  BY NamesAreKept
<1>2. lys \in Seq(R) /\ L \in Nat
  BY DEF Held, LayersOK
<1>3. /\ more \in Seq(R \cup {w}) /\ Len(more) = L + 1 /\ more[L + 1] = w
      /\ \A i \in 1 .. L : more[i] = lys[i]
  BY <1>2
<1>4. /\ DOMAIN rest = T /\ \A n \in T : rest[n] = top[n]
      /\ \A n \in Kept : w[n] = top[n]
  OBVIOUS
<1> HIDE DEF T, rest, w, more, R
<1>5. NamedOK(rest, bufs, mp, dev)
  BY <1>1, <1>4 DEF Held, NamedOK
<1>6. LayersOK(more, bufs, mp, dev)
  <2>1. more \in Seq({more[i] : i \in DOMAIN more})
    BY <1>3
  <2>2. ASSUME NEW i \in 1 .. L + 1, NEW n \in Kept
        PROVE  TensorOK(more[i][n], bufs, mp) /\ (dev = "CUDA" => more[i][n].at = "heap")
    <3>1. CASE i \in 1 .. L
      <4>1. more[i][n] = lys[i][n]
        BY <1>3, <3>1
      <4> QED BY <3>1, <4>1 DEF Held, LayersOK
    <3>2. CASE i = L + 1
      <4>1. more[i][n] = top[n] /\ n \in DOMAIN top /\ n \notin {"gate", "up"}
        BY <1>1, <1>3, <1>4, <3>2
      <4> QED BY <4>1 DEF Held, NamedOK
    <3> QED BY <1>2, <3>1, <3>2
  <2>3. \A i \in 1 .. L + 1 : DOMAIN more[i] = Kept
    <3>1. \A i \in 1 .. L : DOMAIN lys[i] = Kept
      BY DEF Held, LayersOK
    <3>2. DOMAIN w = Kept
      BY DEF w
    <3> QED BY <1>2, <1>3, <3>1, <3>2
  <2> QED BY <1>3, <2>1, <2>2, <2>3 DEF LayersOK
<1>7. \A i \in 1 .. L + 1 : i \in 1 .. L \/ i = L + 1
  BY <1>2
<1>8. \A i \in 1 .. L + 1 : \A n \in Kept :
        more[i][n] = IF i = L + 1 THEN top[n] ELSE lys[i][n]
  BY <1>2, <1>3, <1>4
<1>9. Apart(rest, more)
  <2>1. \A n \in T : \A m \in T : \A b : Owns(rest[n], b) /\ Owns(rest[m], b) => n = m
    BY <1>1, <1>4 DEF Held, Apart
  <2>2. ASSUME NEW n \in T, NEW i \in 1 .. L + 1, NEW m \in Kept, NEW b,
               Owns(rest[n], b), Owns(more[i][m], b)
        PROVE  FALSE
    BY <1>1, <1>4, <1>7, <1>8, <2>2 DEF Held, Apart
  <2>3. ASSUME NEW i \in 1 .. L + 1, NEW n \in Kept, NEW j \in 1 .. L + 1, NEW m \in Kept, NEW b,
               Owns(more[i][n], b), Owns(more[j][m], b)
        PROVE  i = j /\ n = m
    <3>1. CASE i = L + 1 /\ j = L + 1
      <4>1. Owns(top[n], b) /\ Owns(top[m], b) /\ n \in DOMAIN top /\ m \in DOMAIN top
        BY <1>1, <1>8, <2>3, <3>1
      <4> QED BY <3>1, <4>1 DEF Held, Apart
    <3>2. CASE i \in 1 .. L /\ j \in 1 .. L
      <4>1. Owns(lys[i][n], b) /\ Owns(lys[j][m], b)
        BY <1>2, <1>8, <2>3, <3>2
      <4> QED BY <3>2, <4>1 DEF Held, Apart
    <3>3. CASE i = L + 1 /\ j \in 1 .. L
      <4>1. Owns(top[n], b) /\ Owns(lys[j][m], b) /\ n \in DOMAIN top
        BY <1>1, <1>2, <1>8, <2>3, <3>3
      <4> QED BY <3>3, <4>1 DEF Held, Apart
    <3>4. CASE i \in 1 .. L /\ j = L + 1
      <4>1. Owns(lys[i][n], b) /\ Owns(top[m], b) /\ m \in DOMAIN top
        BY <1>1, <1>2, <1>8, <2>3, <3>4
      <4> QED BY <3>4, <4>1 DEF Held, Apart
    <3> QED BY <1>7, <3>1, <3>2, <3>3, <3>4
  <2> QED BY <1>3, <1>4, <2>1, <2>2, <2>3 DEF Apart
<1>10. ASSUME NEW b \in bufs PROVE OwnedIn(rest, b) \/ OwnedInLys(more, b)
  <2>1. CASE OwnedInLys(lys, b)
    <3>1. PICK i \in 1 .. L : \E n \in Kept : Owns(lys[i][n], b)
      BY <2>1 DEF OwnedInLys
    <3>2. i \in 1 .. Len(more) /\ more[i] = lys[i]
      BY <1>2, <1>3
    <3> QED BY <3>1, <3>2 DEF OwnedInLys
  <2>2. CASE OwnedIn(top, b)
    <3>1. PICK n \in DOMAIN top : Owns(top[n], b)
      BY <2>2 DEF OwnedIn
    <3>2. n \in T \cup Kept
      BY <1>1, <3>1 DEF Held, NamedOK, Owns
    <3>3. CASE n \in T
      BY <1>4, <3>1, <3>3 DEF OwnedIn
    <3>4. CASE n \in Kept
      <4>1. L + 1 \in 1 .. Len(more) /\ more[L + 1][n] = top[n]
        BY <1>2, <1>3, <1>4, <3>4
      <4> QED BY <3>1, <3>4, <4>1 DEF OwnedInLys
    <3> QED BY <3>2, <3>3, <3>4
  <2> QED BY <2>1, <2>2 DEF Held, Covered
<1> QED BY <1>5, <1>6, <1>9, <1>10 DEF Held, Covered, rest, more, w, T

\* Nothing owns nothing.
LEMMA NothingHolds ==
  ASSUME NEW mp, NEW dev
  PROVE  Held(<<>>, <<>>, {}, mp, dev)
<1>1. NamedOK(<<>>, {}, mp, dev)
  BY DEF NamedOK
<1>2. LayersOK(<<>>, {}, mp, dev)
  BY DEF LayersOK
<1>3. Apart(<<>>, <<>>)
  BY DEF Apart
<1> QED BY <1>1, <1>2, <1>3 DEF Held, Covered

-----------------------------------------------------------------------------
(* The loader.                                                             *)

Steps == {"config", "open", "stat", "mmap", "close", "header", "load", "done", "dropped", "thrown"}

\* The weights, while they are loaded and when they are returned.
Named == IF step = "done" THEN model.top ELSE local
Done  == IF step = "done" THEN model.layers ELSE layers

AllDone == ~(Len(layers) < cfg["num_hidden_layers"])

FileOK ==
  /\ fd \in {"none", "open", "closed"}
  /\ fd = "open" <=> step \in {"stat", "mmap", "close"}
  /\ step = "mmap" \/ mapped => doc.file.length > 0
  /\ step \in {"close", "header", "load"} => mapped

WeightsOK ==
  /\ IsFiniteSet(DOMAIN heap)
  /\ step # "load" => local = <<>> /\ layers = <<>>
  /\ step \notin {"load", "done"} => DOMAIN heap = {}
  /\ Held(Named, Done, DOMAIN heap, mapped, doc.dev)
  /\ step = "done" \/ (step = "load" /\ AllDone) => DOMAIN Named \subseteq ToSet(Top)

IInv == doc \in Doc /\ step \in Steps /\ FileOK /\ WeightsOK

\* At the start nothing is loaded and nothing owned.
LEMMA InitInv == Init => IInv
<1> SUFFICES ASSUME Init PROVE IInv
  OBVIOUS
<1>1. /\ doc \in Doc /\ step = "config" /\ fd = "none" /\ mapped = FALSE
      /\ heap = <<>> /\ local = <<>> /\ layers = <<>>
  BY DEF Init
<1>2. Named = <<>> /\ Done = <<>> /\ DOMAIN heap = {}
  BY <1>1 DEF Named, Done
<1>3. Held(<<>>, <<>>, {}, mapped, doc.dev)
  BY NothingHolds
<1>4. IsFiniteSet(DOMAIN heap)
  BY <1>2, FS_EmptySet
<1>5. FileOK
  BY <1>1 DEF FileOK
<1>6. WeightsOK
  BY <1>1, <1>2, <1>3, <1>4 DEF WeightsOK
<1> QED BY <1>1, <1>5, <1>6 DEF IInv, Steps

\* Nothing is kept where nothing was.
LEMMA StillNothing ==
  ASSUME IInv, step \notin {"load", "done"}, step' # "done",
         heap' = heap, local' = local, layers' = layers, doc' = doc
  PROVE  WeightsOK'
<1>1. local' = <<>> /\ layers' = <<>> /\ DOMAIN heap' = {} /\ IsFiniteSet(DOMAIN heap')
  BY DEF IInv, WeightsOK
<1>2. Named' = <<>> /\ Done' = <<>>
  BY <1>1 DEF Named, Done
<1>3. Held(<<>>, <<>>, {}, mapped', doc'.dev)
  BY NothingHolds
<1> QED BY <1>1, <1>2, <1>3 DEF WeightsOK

\* What is freed when everything is: every buffer.
LEMMA AllFreed ==
  ASSUME NEW top, NEW lys, NEW mp, NEW dev, Held(top, lys, DOMAIN heap, mp, dev)
  PROVE  DOMAIN Freed(Tensors(top) \cup AllLayers(lys)) = {}
<1> DEFINE tensors == Tensors(top) \cup AllLayers(lys)
           gone == {t.buf : t \in {u \in tensors : u.owns /\ u.at = "heap"}}
<1>1. DOMAIN Freed(tensors) = DOMAIN heap \ gone
  BY DEF Freed
<1>2. DOMAIN lys = 1 .. Len(lys)
  BY DEF Held, LayersOK
<1>3. ASSUME NEW b \in DOMAIN heap PROVE b \in gone
  <2>1. ASSUME NEW t \in tensors, TensorOK(t, DOMAIN heap, mp), Owns(t, b) PROVE b \in gone
    BY <2>1 DEF Owns, TensorOK
  <2> HIDE DEF gone
  <2>2. CASE OwnedIn(top, b)
    <3>1. PICK n \in DOMAIN top : Owns(top[n], b)
      BY <2>2 DEF OwnedIn
    <3>2. top[n] \in tensors
      BY DEF Tensors
    <3>3. TensorOK(top[n], DOMAIN heap, mp)
      BY DEF Held, NamedOK
    <3> QED BY <2>1, <3>1, <3>2, <3>3
  <2>3. CASE OwnedInLys(lys, b)
    <3>1. PICK i \in 1 .. Len(lys), n \in Kept : Owns(lys[i][n], b)
      BY <2>3 DEF OwnedInLys
    <3>2. lys[i][n] \in Tensors(lys[i])
      BY DEF Tensors, Held, LayersOK
    <3>3. lys[i][n] \in tensors
      BY <1>2, <3>2 DEF AllLayers
    <3>4. TensorOK(lys[i][n], DOMAIN heap, mp)
      BY DEF Held, LayersOK
    <3> QED BY <2>1, <3>1, <3>3, <3>4
  <2> QED BY <2>2, <2>3 DEF Held, Covered
<1> QED BY <1>1, <1>3

\* Tensors that own nothing take nothing with them.
LEMMA NoneFreed ==
  ASSUME NEW tensors, \A t \in tensors : ~t.owns
  PROVE  DOMAIN Freed(tensors) = DOMAIN heap
BY DEF Freed

\* An exception destroys all that was built.
LEMMA ThrowInv ==
  ASSUME IInv, step = "load", Throw, UNCHANGED <<doc, fd, mapped, cfg, meta, model>>
  PROVE  IInv'
<1>1. /\ step' = "thrown" /\ heap' = Freed(Tensors(local) \cup AllLayers(layers))
      /\ local' = <<>> /\ layers' = <<>> /\ doc' = doc /\ fd' = fd /\ mapped' = mapped
  BY DEF Throw
<1>2. Held(local, layers, DOMAIN heap, mapped, doc.dev)
  BY DEF IInv, WeightsOK, Named, Done
<1>3. DOMAIN heap' = {}
  BY <1>1, <1>2, AllFreed
<1>4. Named' = <<>> /\ Done' = <<>>
  BY <1>1 DEF Named, Done
<1>5. Held(<<>>, <<>>, {}, mapped', doc'.dev) /\ IsFiniteSet({})
  BY NothingHolds, FS_EmptySet
<1>6. WeightsOK'
  BY <1>1, <1>3, <1>4, <1>5 DEF WeightsOK
<1>7. FileOK'
  BY <1>1 DEF IInv, FileOK
<1> QED BY <1>1, <1>6, <1>7 DEF IInv, Steps

\* A tensor is added to those of the function.
LEMMA KeepInv ==
  ASSUME IInv, step = "load", NEW name \in Names, name = Next1,
         NEW t, Keep(name, t), TensorOK(t, DOMAIN heap', mapped),
         name \in {"gate", "up"} => ~t.owns,
         doc.dev = "CUDA" /\ name \notin {"gate", "up"} => t.at = "heap",
         \/ ~t.owns /\ DOMAIN heap' = DOMAIN heap
         \/ t.owns /\ t.buf \notin DOMAIN heap /\ DOMAIN heap' = DOMAIN heap \cup {t.buf},
         UNCHANGED <<doc, fd, mapped, cfg, meta, model, step, layers>>
  PROVE  IInv'
<1>1. /\ step' = step /\ layers' = layers /\ doc' = doc /\ fd' = fd /\ mapped' = mapped /\ cfg' = cfg
      /\ local' = Put(local, name, t)
  BY DEF Keep
<1>2. /\ Held(local, layers, DOMAIN heap, mapped, doc.dev) /\ IsFiniteSet(DOMAIN heap)
      /\ AllDone => DOMAIN local \subseteq ToSet(Top)
  BY DEF IInv, WeightsOK, Named, Done
<1>3. DOMAIN local \subseteq Names
  BY <1>2 DEF Held, NamedOK
<1>4. /\ name \notin DOMAIN local
      /\ ~(Len(layers) < cfg["num_hidden_layers"]) => name \in ToSet(Top) \cup {"return"}
  BY <1>3, NextOne
<1>5. name # "return"
  BY NamesAreNotSteps
<1>6. Held(local', layers', DOMAIN heap', mapped', doc'.dev)
  <2> DEFINE bufs == DOMAIN heap
             bufs2 == DOMAIN heap'
  <2>1. \/ ~t.owns /\ bufs2 = bufs
        \/ t.owns /\ t.buf \notin bufs /\ bufs2 = bufs \cup {t.buf}
    OBVIOUS
  <2>2. TensorOK(t, bufs2, mapped) /\ Held(local, layers, bufs, mapped, doc.dev)
    BY <1>2
  <2> HIDE DEF bufs, bufs2
  <2>3. Held(Put(local, name, t), layers, bufs2, mapped, doc.dev)
    BY <1>4, <2>1, <2>2, KeepHolds
  <2> QED BY <1>1, <2>3 DEF bufs2
<1>7. IsFiniteSet(DOMAIN heap')
  BY <1>2, FS_AddElement
<1>8. Named' = local' /\ Done' = layers'
  BY <1>1 DEF Named, Done
<1>9. AllDone' => DOMAIN local' \subseteq ToSet(Top)
  <2>1. DOMAIN local' = DOMAIN local \cup {name} /\ (AllDone' <=> AllDone)
    BY <1>1 DEF Put, AllDone
  <2> QED BY <1>2, <1>4, <1>5, <2>1 DEF AllDone
<1>10. WeightsOK'
  BY <1>1, <1>6, <1>7, <1>8, <1>9 DEF WeightsOK
<1>11. FileOK'
  BY <1>1 DEF IInv, FileOK
<1> QED BY <1>1, <1>10, <1>11 DEF IInv

\* One that has a buffer of its own, or no memory for it.
LEMMA AllocateInv ==
  ASSUME IInv, step = "load", NEW name \in Names, name = Next1, name \notin {"gate", "up"},
         NEW span, Allocate(name, span) , UNCHANGED <<doc, fd, mapped, cfg, meta, model>>
  PROVE  IInv'
<1>1. CASE Throw
  BY <1>1, ThrowInv
<1>2. CASE /\ Keep(name, Owned(NewBuffer)) /\ heap' = Put(heap, NewBuffer, span)
           /\ UNCHANGED <<step, layers, broken>>
  <2> DEFINE b == NewBuffer
             t == Owned(b)
  <2>1. b \notin DOMAIN heap
    BY NewBufferIsNew DEF IInv, WeightsOK
  <2> HIDE DEF b
  <2>2. t.owns = TRUE /\ t.at = "heap" /\ t.buf = b /\ t = [at |-> t.at, buf |-> t.buf, span |-> t.span, owns |-> t.owns]
    BY DEF Owned
  <2> HIDE DEF t
  <2>3. Keep(name, t) /\ heap' = Put(heap, b, span) /\ step' = step /\ layers' = layers
    BY <1>2 DEF b, t
  <2>4. DOMAIN heap' = DOMAIN heap \cup {b}
    BY <2>3 DEF Put
  <2>5. TensorOK(t, DOMAIN heap', mapped)
    BY <2>2, <2>4 DEF TensorOK
  <2>6. t.owns /\ t.buf \notin DOMAIN heap /\ DOMAIN heap' = DOMAIN heap \cup {t.buf}
    BY <2>1, <2>2, <2>4
  <2> QED BY <2>2, <2>3, <2>5, <2>6, KeepInv
<1> QED BY <1>1, <1>2 DEF Allocate

\* A fetch views the mapping, copies to the device, or throws.
LEMMA FetchInv ==
  ASSUME IInv, NEW name \in Fetched, Fetch(name)
  PROVE  IInv'
<1>1. /\ step = "load" /\ name = Next1 /\ UNCHANGED <<doc, fd, mapped, cfg, meta, model>>
  BY DEF Fetch
<1>2. name \in Names
  BY PlanNames DEF Fetched, Names
<1>3. PICK m : \/ Throw
               \/ /\ doc.dev = "CPU" \/ name \in {"gate", "up"}
                  /\ Keep(name, View(m)) /\ UNCHANGED <<step, heap, layers, broken>>
               \/ name \notin {"gate", "up"} /\ Allocate(name, Span(m))
  BY DEF Fetch
<1>4. CASE Throw
  BY <1>1, <1>4, ThrowInv
<1>5. CASE /\ doc.dev = "CPU" \/ name \in {"gate", "up"}
           /\ Keep(name, View(m)) /\ UNCHANGED <<step, heap, layers, broken>>
  <2> DEFINE t == View(m)
  <2>1. t.owns = FALSE /\ t.at = "map" /\ t = [at |-> t.at, buf |-> t.buf, span |-> t.span, owns |-> t.owns]
    BY DEF View
  <2>2. mapped
    BY <1>1 DEF IInv, FileOK
  <2>4. Keep(name, t) /\ DOMAIN heap' = DOMAIN heap
    BY <1>5
  <2> HIDE DEF t
  <2>3. TensorOK(t, DOMAIN heap', mapped)
    BY <2>1, <2>2 DEF TensorOK
  <2>5. ~(doc.dev = "CUDA" /\ name \notin {"gate", "up"})
    BY <1>5
  <2> QED BY <1>1, <1>2, <1>5, <2>1, <2>3, <2>4, <2>5, KeepInv
<1>6. CASE name \notin {"gate", "up"} /\ Allocate(name, Span(m))
  BY <1>1, <1>2, <1>6, AllocateInv
<1> QED BY <1>3, <1>4, <1>5, <1>6

\* The tied head shows what the embedding shows and owns nothing.
LEMMA TieHeadInv ==
  ASSUME IInv, TieHead
  PROVE  IInv'
<1>1. /\ step = "load" /\ Next1 = "lm_head" /\ UNCHANGED <<doc, fd, mapped, cfg, meta, model>>
      /\ \/ Keep("lm_head", Borrowed(local["embed"])) /\ UNCHANGED <<step, heap, layers>>
         \/ Throw
  BY DEF TieHead
<1>2. CASE Throw
  BY <1>1, <1>2, ThrowInv
<1>3. CASE Keep("lm_head", Borrowed(local["embed"])) /\ UNCHANGED <<step, heap, layers>>
  <2> DEFINE e == local["embed"]
             t == Borrowed(e)
  <2>1. NamedOK(local, DOMAIN heap, mapped, doc.dev)
    BY <1>1 DEF IInv, WeightsOK, Held, Named
  <2>2. "embed" \in DOMAIN local
    BY <1>1, <2>1, NextOne DEF NamedOK
  <2>3. TensorOK(e, DOMAIN heap, mapped) /\ (doc.dev = "CUDA" => e.at = "heap")
    BY <2>1, <2>2 DEF NamedOK
  <2>4. /\ t.owns = FALSE /\ t.at = e.at /\ t.buf = e.buf
        /\ t = [at |-> t.at, buf |-> t.buf, span |-> t.span, owns |-> t.owns]
    <3>1. e = [at |-> e.at, buf |-> e.buf, span |-> e.span, owns |-> e.owns]
      BY <2>3 DEF TensorOK
    <3>2. t = [e EXCEPT !.owns = FALSE]
      BY DEF Borrowed
    <3> HIDE DEF e, t
    <3>3. t = [at |-> e.at, buf |-> e.buf, span |-> e.span, owns |-> FALSE]
      BY <3>1, <3>2
    <3> QED BY <3>3
  <2> HIDE DEF e, t
  <2>5. TensorOK(t, DOMAIN heap', mapped) /\ (doc.dev = "CUDA" => t.at = "heap")
    BY <1>3, <2>3, <2>4 DEF TensorOK
  <2>6. Keep("lm_head", t) /\ ~t.owns /\ DOMAIN heap' = DOMAIN heap
    BY <1>3, <2>4 DEF t, e
  <2>7. "lm_head" \in Names
    BY PlanNames DEF Names
  <2> QED BY <1>1, <1>3, <2>5, <2>6, <2>7, KeepInv
<1> QED BY <1>1, <1>2, <1>3

\* Gate and up are fused into a buffer of their own and leave.
LEMMA FuseInv ==
  ASSUME IInv, Fuse
  PROVE  IInv'
<1>1. /\ step = "load" /\ Next1 = "gate_up" /\ UNCHANGED <<doc, fd, mapped, cfg, meta, model>>
  BY DEF Fuse
<1>2. Throw \/ Allocate("gate_up", Fused(local["gate"], local["up"]))
  BY DEF Fuse
<1>3. "gate_up" \in Names
  BY PlanNames DEF Names
<1> QED BY <1>1, <1>2, <1>3, ThrowInv, AllocateInv

\* A finished layer takes its weights out of the locals, each with its buffer.
LEMMA FinishLayerInv ==
  ASSUME IInv, FinishLayer
  PROVE  IInv'
<1> DEFINE kept == [n \in Kept |-> local[n]]
           rest == [n \in ToSet(Top) |-> local[n]]
           none == {Moved(local[n]) : n \in Kept} \cup {local["gate"], local["up"]}
<1>1. /\ step = "load" /\ Next1 = "layer" /\ step' = step /\ layers' = Append(layers, kept)
      /\ heap' = Freed(none) /\ local' = rest
      /\ doc' = doc /\ fd' = fd /\ mapped' = mapped /\ cfg' = cfg
  BY DEF FinishLayer
<1>2. Held(local, layers, DOMAIN heap, mapped, doc.dev) /\ IsFiniteSet(DOMAIN heap)
  BY <1>1 DEF IInv, WeightsOK, Named, Done
<1>3. Names \subseteq DOMAIN local
  BY <1>1, <1>2, NextOne DEF Held, NamedOK
<1>4. \A t \in none : ~t.owns
  <2>1. "gate" \in Names /\ "up" \in Names
    BY PlanNames DEF Names
  <2>2. ~local["gate"].owns /\ ~local["up"].owns
    BY <1>2, <1>3, <2>1 DEF Held, NamedOK
  <2>3. \A n \in Kept : ~Moved(local[n]).owns
    BY DEF Moved, NullTensor
  <2> QED BY <2>2, <2>3
<1>5. DOMAIN heap' = DOMAIN heap
  BY <1>1, <1>4, NoneFreed
<1> HIDE DEF kept, rest, none
<1>6. Held(rest, Append(layers, kept), DOMAIN heap, mapped, doc.dev)
  BY <1>2, <1>3, MoveHolds DEF rest, kept
<1>7. Named' = rest /\ Done' = Append(layers, kept)
  BY <1>1 DEF Named, Done
<1>8. DOMAIN rest \subseteq ToSet(Top)
  BY DEF rest
<1>9. WeightsOK'
  BY <1>1, <1>2, <1>5, <1>6, <1>7, <1>8 DEF WeightsOK
<1>10. FileOK'
  BY <1>1 DEF IInv, FileOK
<1> QED BY <1>1, <1>9, <1>10 DEF IInv

\* The weights are moved out of the function: they are what they were.
LEMMA ReturnInv ==
  ASSUME IInv, Return
  PROVE  IInv'
<1> DEFINE none == {Moved(t) : t \in Tensors(local) \cup AllLayers(layers)}
<1>1. /\ step = "load" /\ Next1 = "return" /\ step' = "done"
      /\ model' = [top |-> local, layers |-> layers]
      /\ heap' = Freed(none) /\ local' = <<>> /\ layers' = <<>>
      /\ doc' = doc /\ fd' = fd /\ mapped' = mapped /\ cfg' = cfg
  BY DEF Return
<1>2. /\ Held(local, layers, DOMAIN heap, mapped, doc.dev) /\ IsFiniteSet(DOMAIN heap)
      /\ AllDone => DOMAIN local \subseteq ToSet(Top)
  BY <1>1 DEF IInv, WeightsOK, Named, Done
<1>3. DOMAIN local \subseteq ToSet(Top)
  BY <1>1, <1>2, NextOne DEF Held, NamedOK, AllDone
<1>4. \A t \in none : ~t.owns
  BY DEF Moved, NullTensor
<1> HIDE DEF none
<1>5. DOMAIN heap' = DOMAIN heap
  BY <1>1, <1>4, NoneFreed
<1>6. Named' = local /\ Done' = layers
  BY <1>1 DEF Named, Done
<1>7. WeightsOK'
  BY <1>1, <1>2, <1>3, <1>5, <1>6 DEF WeightsOK
<1>8. FileOK'
  BY <1>1 DEF IInv, FileOK
<1> QED BY <1>1, <1>7, <1>8 DEF IInv, Steps

\* The model goes, and every buffer with it.
LEMMA DropModelInv ==
  ASSUME IInv, DropModel
  PROVE  IInv'
<1>1. /\ step = "done" /\ step' = "dropped"
      /\ heap' = Freed(Tensors(Named) \cup AllLayers(Done))
      /\ local' = local /\ layers' = layers /\ doc' = doc /\ fd' = fd /\ mapped' = mapped
  BY DEF DropModel, Named, Done
<1>2. Held(Named, Done, DOMAIN heap, mapped, doc.dev) /\ local = <<>> /\ layers = <<>>
  BY <1>1 DEF IInv, WeightsOK
<1>3. DOMAIN heap' = {}
  BY <1>1, <1>2, AllFreed
<1>4. Named' = <<>> /\ Done' = <<>>
  BY <1>1, <1>2 DEF Named, Done
<1>5. Held(<<>>, <<>>, {}, mapped', doc'.dev) /\ IsFiniteSet({})
  BY NothingHolds, FS_EmptySet
<1>6. WeightsOK'
  BY <1>1, <1>2, <1>3, <1>4, <1>5 DEF WeightsOK
<1>7. FileOK'
  BY <1>1 DEF IInv, FileOK
<1> QED BY <1>1, <1>6, <1>7 DEF IInv, Steps

\* Without the mapping: there are no tensors, or none that views it.
LEMMA UnmapHolds ==
  ASSUME NEW top, NEW lys, NEW bufs, NEW mp, NEW dev, Held(top, lys, bufs, mp, dev),
         dev = "CUDA", DOMAIN top \subseteq ToSet(Top)
  PROVE  Held(top, lys, bufs, FALSE, dev)
<1>1. \A t : TensorOK(t, bufs, mp) /\ t.at = "heap" => TensorOK(t, bufs, FALSE)
  BY DEF TensorOK
<1>2. \A n \in DOMAIN top : n \notin {"gate", "up"}
  BY NamesAreKept
<1>3. NamedOK(top, bufs, FALSE, dev)
  BY <1>1, <1>2 DEF Held, NamedOK
<1>4. LayersOK(lys, bufs, FALSE, dev)
  BY <1>1 DEF Held, LayersOK
<1> QED BY <1>3, <1>4 DEF Held

\* The mapping goes when no tensor is left, or all of them are on the device.
LEMMA UnmapInv ==
  ASSUME IInv, Unmap
  PROVE  IInv'
<1>1. /\ mapped' = FALSE /\ step \in {"thrown", "done", "dropped"}
      /\ step = "done" => doc.dev = "CUDA"
      /\ doc' = doc /\ step' = step /\ fd' = fd /\ heap' = heap /\ local' = local
      /\ layers' = layers /\ model' = model
  BY DEF Unmap
<1>2. CASE step = "done"
  <2>1. Held(Named, Done, DOMAIN heap, FALSE, doc.dev)
    <3>1. Held(Named, Done, DOMAIN heap, mapped, doc.dev) /\ DOMAIN Named \subseteq ToSet(Top)
      BY <1>2 DEF IInv, WeightsOK
    <3> QED BY <1>1, <1>2, <3>1, UnmapHolds
  <2>2. Named' = Named /\ Done' = Done
    BY <1>1 DEF Named, Done
  <2>3. WeightsOK'
    <3>1. Held(Named', Done', DOMAIN heap', mapped', doc'.dev)
      BY <1>1, <2>1, <2>2
    <3> QED BY <1>1, <1>2, <2>2, <3>1 DEF IInv, WeightsOK
  <2>4. FileOK'
    BY <1>1, <1>2 DEF IInv, FileOK
  <2> QED BY <1>1, <2>3, <2>4 DEF IInv
<1>3. CASE step # "done"
  <2>1. WeightsOK'
    BY <1>1, <1>3, StillNothing
  <2>2. FileOK'
    BY <1>1, <1>3 DEF IInv, FileOK
  <2> QED BY <1>1, <2>1, <2>2 DEF IInv
<1> QED BY <1>2, <1>3

\* The steps before anything is loaded: the file's descriptor and mapping.
LEMMA OpeningInv ==
  ASSUME IInv, ReadConfig \/ OpenFile \/ StatFile \/ MapFile \/ CloseFile \/ ReadHeader
  PROVE  IInv'
<1>1. /\ step \in {"config", "open", "stat", "mmap", "close", "header"} /\ step' # "done"
      /\ heap' = heap /\ local' = local /\ layers' = layers /\ doc' = doc
  BY DEF ReadConfig, OpenFile, StatFile, MapFile, CloseFile, ReadHeader
<1>2. WeightsOK'
  BY <1>1, StillNothing
<1>3. CASE ReadConfig
  BY <1>2, <1>3 DEF ReadConfig, IInv, FileOK, Steps
<1>4. CASE OpenFile
  BY <1>2, <1>4 DEF OpenFile, IInv, FileOK, Steps
<1>5. CASE StatFile
  <2>1. doc.file.length \in Nat
    BY DocAssumption, ScanAssumption DEF IInv
  <2> QED BY <1>2, <1>5, <2>1 DEF StatFile, IInv, FileOK, Steps, GuardEnds, Close
<1>6. CASE MapFile
  BY <1>2, <1>6 DEF MapFile, IInv, FileOK, Steps, GuardEnds, Close
<1>7. CASE CloseFile
  <2>1. step = "close" /\ fd = "open" /\ mapped /\ doc.file.length > 0
    BY <1>7 DEF CloseFile, IInv, FileOK
  <2>2. fd' = "closed"
    BY <1>7, <2>1 DEF CloseFile, GuardEnds, Close, Release
  <2>3. \/ step' = "header" /\ mapped' = mapped
        \/ step' = "thrown" /\ mapped' = FALSE
    BY <1>7 DEF CloseFile
  <2>4. FileOK'
    BY <1>1, <2>1, <2>2, <2>3 DEF FileOK
  <2> QED BY <1>1, <1>2, <2>3, <2>4 DEF IInv, Steps
<1>8. CASE ReadHeader
  BY <1>2, <1>8 DEF ReadHeader, IInv, FileOK, Steps
<1> QED BY <1>3, <1>4, <1>5, <1>6, <1>7, <1>8

\* Nothing changes.
LEMMA StutterInv ==
  ASSUME IInv, UNCHANGED vars
  PROVE  IInv'
<1>1. /\ doc' = doc /\ step' = step /\ fd' = fd /\ mapped' = mapped /\ cfg' = cfg /\ heap' = heap
      /\ local' = local /\ layers' = layers /\ model' = model
  BY DEF vars
<1>2. Named' = Named /\ Done' = Done /\ (AllDone' <=> AllDone)
  BY <1>1 DEF Named, Done, AllDone
<1>3. WeightsOK'
  BY <1>1, <1>2 DEF IInv, WeightsOK
<1>4. FileOK'
  BY <1>1 DEF IInv, FileOK
<1> QED BY <1>1, <1>3, <1>4 DEF IInv

\* Every step of the loader keeps the invariant.
LEMMA StepInv == IInv /\ [Next]_vars => IInv'
<1> SUFFICES ASSUME IInv, [Next]_vars PROVE IInv'
  OBVIOUS
<1>1. CASE Ended \/ UNCHANGED vars
  BY <1>1, StutterInv DEF Ended
<1> QED BY <1>1, OpeningInv, FetchInv, TieHeadInv, FuseInv, FinishLayerInv, ReturnInv,
           DropModelInv, UnmapInv DEF Next

-----------------------------------------------------------------------------
(* What the invariant says of the slots.                                   *)

NamedSlot(n)   == IF step = "done" THEN <<"top", 0, n>> ELSE <<"local", Len(layers), n>>
DoneSlot(i, n) == IF step = "done" THEN <<"model", i - 1, n>> ELSE <<"layers", i - 1, n>>

\* The slots are those of the weights by name and those of the layers done.
LEMMA SlotsAre ==
  ASSUME IInv
  PROVE  /\ Slots = {NamedSlot(n) : n \in DOMAIN Named}
                    \cup {DoneSlot(i, n) : i \in 1 .. Len(Done), n \in Kept}
         /\ \A n \in DOMAIN Named : At(NamedSlot(n)) = Named[n]
         /\ \A i \in 1 .. Len(Done) : \A n \in Kept : At(DoneSlot(i, n)) = Done[i][n]
<1>1. DOMAIN Done = 1 .. Len(Done) /\ Len(Done) \in Nat
  BY DEF IInv, WeightsOK, Held, LayersOK
<1>2. CASE step = "done"
  <2>1. DOMAIN local = {} /\ DOMAIN layers = {} /\ Named = model.top /\ Done = model.layers
    BY <1>2 DEF IInv, WeightsOK, Named, Done
  <2>2. /\ \A n : NamedSlot(n) = <<"top", 0, n>>
        /\ \A i, n : DoneSlot(i, n) = <<"model", i - 1, n>>
    BY <1>2 DEF NamedSlot, DoneSlot
  <2>3. Slots = {<<"top", 0, n>> : n \in DOMAIN Named} \cup {<<"model", i - 1, n>> : i \in 1 .. Len(Done), n \in Kept}
    BY <1>1, <1>2, <2>1 DEF Slots
  <2>4. \A n \in DOMAIN Named : At(<<"top", 0, n>>) = Named[n]
    BY <2>1 DEF At
  <2>5. \A i \in 1 .. Len(Done) : \A n \in Kept : At(<<"model", i - 1, n>>) = Done[i][n]
    BY <1>1, <2>1 DEF At
  <2> QED BY <2>2, <2>3, <2>4, <2>5
<1>3. CASE step # "done"
  <2>1. Named = local /\ Done = layers
    BY <1>3 DEF Named, Done
  <2>2. /\ \A n : NamedSlot(n) = <<"local", Len(layers), n>>
        /\ \A i, n : DoneSlot(i, n) = <<"layers", i - 1, n>>
    BY <1>3 DEF NamedSlot, DoneSlot
  <2>3. Slots = {<<"local", Len(layers), n>> : n \in DOMAIN local}
                \cup {<<"layers", i - 1, n>> : i \in 1 .. Len(layers), n \in Kept}
    BY <1>1, <1>3, <2>1 DEF Slots
  <2>4. \A n \in DOMAIN local : At(<<"local", Len(layers), n>>) = local[n]
    BY DEF At
  <2>5. \A i \in 1 .. Len(layers) : \A n \in Kept : At(<<"layers", i - 1, n>>) = layers[i][n]
    BY <1>1, <2>1 DEF At
  <2> QED BY <2>1, <2>2, <2>3, <2>4, <2>5
<1> QED BY <1>2, <1>3

\* What the invariant says of named and layer tensors is exactness of ownership.
LEMMA InvExact == IInv => OwnershipExact
<1> SUFFICES ASSUME IInv PROVE OwnershipExact
  OBVIOUS
<1>1. /\ NamedOK(Named, DOMAIN heap, mapped, doc.dev) /\ LayersOK(Done, DOMAIN heap, mapped, doc.dev)
      /\ Apart(Named, Done) /\ Covered(Named, Done, DOMAIN heap)
  BY DEF IInv, WeightsOK, Held
<1>2. \A s \in Slots : TensorOK(At(s), DOMAIN heap, mapped)
  BY <1>1, SlotsAre DEF NamedOK, LayersOK
<1>3. TypeOK
  <2>1. DOMAIN local \subseteq Names
    BY <1>1 DEF IInv, WeightsOK, Named, NamedOK
  <2>2. \A s \in Slots : At(s).at \in {"map", "heap", "null"}
    BY <1>2 DEF TensorOK
  <2> QED BY <2>1, <2>2 DEF TypeOK, IInv, Steps, FileOK, Names
<1>4. PointersLive
  BY <1>2 DEF PointersLive, TensorOK
<1>5. ASSUME NEW b \in DOMAIN heap
      PROVE  Cardinality({s \in Slots : At(s).owns /\ At(s).buf = b}) = 1
  <2> DEFINE owners == {s \in Slots : Owns(At(s), b)}
  <2>1. \E s0 \in owners : \A s \in owners : s = s0
    <3>1. CASE OwnedIn(Named, b)
      <4>1. PICK n \in DOMAIN Named : Owns(Named[n], b)
        BY <3>1 DEF OwnedIn
      <4>2. NamedSlot(n) \in owners
        BY <4>1, SlotsAre
      <4>3. ASSUME NEW s \in owners PROVE s = NamedSlot(n)
        <5>1. CASE \E m \in DOMAIN Named : s = NamedSlot(m)
          <6>1. PICK m \in DOMAIN Named : s = NamedSlot(m)
            BY <5>1
          <6>2. Owns(Named[m], b)
            BY <6>1, SlotsAre
          <6>3. m = n
            BY <1>1, <4>1, <6>2 DEF Apart
          <6> QED BY <6>1, <6>3
        <5>2. CASE \E i \in 1 .. Len(Done), m \in Kept : s = DoneSlot(i, m)
          <6>1. PICK i \in 1 .. Len(Done), m \in Kept : s = DoneSlot(i, m)
            BY <5>2
          <6>2. Owns(Done[i][m], b)
            BY <6>1, SlotsAre
          <6> QED BY <1>1, <4>1, <6>2 DEF Apart
        <5> QED BY <5>1, <5>2, SlotsAre
      <4> QED BY <4>2, <4>3
    <3>2. CASE OwnedInLys(Done, b)
      <4>1. PICK i \in 1 .. Len(Done), n \in Kept : Owns(Done[i][n], b)
        BY <3>2 DEF OwnedInLys
      <4>2. DoneSlot(i, n) \in owners
        BY <4>1, SlotsAre
      <4>3. ASSUME NEW s \in owners PROVE s = DoneSlot(i, n)
        <5>1. CASE \E m \in DOMAIN Named : s = NamedSlot(m)
          <6>1. PICK m \in DOMAIN Named : s = NamedSlot(m)
            BY <5>1
          <6>2. Owns(Named[m], b)
            BY <6>1, SlotsAre
          <6> QED BY <1>1, <4>1, <6>2 DEF Apart
        <5>2. CASE \E j \in 1 .. Len(Done), m \in Kept : s = DoneSlot(j, m)
          <6>1. PICK j \in 1 .. Len(Done), m \in Kept : s = DoneSlot(j, m)
            BY <5>2
          <6>2. Owns(Done[j][m], b)
            BY <6>1, SlotsAre
          <6>3. j = i /\ m = n
            BY <1>1, <4>1, <6>2 DEF Apart
          <6> QED BY <6>1, <6>3
        <5> QED BY <5>1, <5>2, SlotsAre
      <4> QED BY <4>2, <4>3
    <3> QED BY <1>1, <3>1, <3>2 DEF Covered
  <2>2. owners = {s \in Slots : At(s).owns /\ At(s).buf = b}
    BY DEF Owns
  <2> HIDE DEF owners
  <2>3. \E s0 : owners = {s0}
    BY <2>1
  <2> QED BY <2>2, <2>3, FS_Singleton
<1>6. OneOwner
  BY <1>5 DEF OneOwner
<1>7. DescriptorClosedOnce
  BY DEF DescriptorClosedOnce, IInv, FileOK
<1> QED BY <1>3, <1>4, <1>6, <1>7 DEF OwnershipExact

\* Every tensor points to memory that is there, every buffer has one owner and
\* the descriptor is closed once, whatever the files say, on every way through
\* the loader, in its exceptions and after.
THEOREM OwnershipAlwaysExact == Spec => []OwnershipExact
<1>1. Spec => []IInv
  BY InitInv, StepInv, PTL DEF Spec
<1> QED BY <1>1, InvExact, PTL
=============================================================================
