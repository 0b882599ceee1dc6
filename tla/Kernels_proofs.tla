---------------------------- MODULE Kernels_proofs -----------------------------
(***************************************************************************)
(* Proofs about the kernels that choose a token (Sampler), about those     *)
(* that take a softmax in pieces (Softmax), and about those that multiply  *)
(* by quantised weights (ProductFunctions), for every vocabulary, context, *)
(* launch shape and product. What is computed in loops is known from       *)
(* Loops_proofs; each section says what its part of a kernel leaves, and   *)
(* the theorems put the parts together.                                    *)
(***************************************************************************)
EXTENDS Sampler, Softmax, ProductFunctions, Loops_proofs, SequenceTheorems
-----------------------------------------------------------------------------
(* Sampling. What its questions are made of.                               *)
LEMMA WeightTypes ==
  /\ One \in Nat \ {0}
  /\ \A p \in Weights :
       /\ Len(p) \in Nat \ {0}
       /\ \A i \in Tokens(p) : p[i] \in Nat /\ p[i] <= One
       /\ \E i \in Tokens(p) : p[i] = One
<1>1. One \in Nat \ {0}
  BY SamplerAssumption, PowerIs DEF One
<1>2. ASSUME NEW p \in Weights
      PROVE  /\ Len(p) \in Nat \ {0}
             /\ \A i \in Tokens(p) : p[i] \in Nat /\ p[i] <= One
             /\ \E i \in Tokens(p) : p[i] = One
  <2>1. p \in Seq(0 .. One) /\ \E i \in 1 .. Len(p) : p[i] = One
    BY SamplerAssumption
  <2>2. Len(p) \in Nat /\ \A i \in 1 .. Len(p) : p[i] \in 0 .. One
    BY <2>1, LenProperties, ElementOfSeq
  <2>3. Len(p) # 0
    BY <2>1, <2>2
  <2>4. \A x \in 0 .. One : x \in Nat /\ x <= One
    BY <1>1
  <2>5. \A i \in Tokens(p) : p[i] \in Nat /\ p[i] <= One
    BY <2>2, <2>4 DEF Tokens
  <2>6. Len(p) \in Nat \ {0}
    BY <2>2, <2>3
  <2> QED BY <2>1, <2>5, <2>6 DEF Tokens
<1> QED BY <1>1, <1>2

-----------------------------------------------------------------------------
(* Masses.                                                                 *)
LEMMA OnlyIs ==
  ASSUME NEW p \in Weights, NEW set
  PROVE  \A i \in Tokens(p) : /\ Only(p, set)[i] = IF i \in set THEN p[i] ELSE 0
                              /\ Only(p, set)[i] \in Nat
BY WeightTypes DEF Only

(* Masses are naturals, and grow with the set.                             *)
LEMMA MassNat ==
  ASSUME NEW p \in Weights, NEW set
  PROVE  MassOf(p, set) \in Nat
<1>1. Len(p) \in Nat /\ \A i \in 1 .. Len(p) : Only(p, set)[i] \in Nat
  BY WeightTypes, OnlyIs DEF Tokens
<1> QED BY <1>1, SumNat DEF MassOf

LEMMA MassGrows ==
  ASSUME NEW p \in Weights, NEW S, NEW T, S \subseteq T
  PROVE  MassOf(p, S) <= MassOf(p, T)
<1> DEFINE f == Only(p, S)
           h == Only(p, T)
<1>1. Len(p) \in Nat
  BY WeightTypes
<1>2. \A i \in 1 .. Len(p) : f[i] \in Int /\ h[i] \in Int /\ f[i] <= h[i]
  <2>1. \A i \in Tokens(p) : p[i] \in Nat
    BY WeightTypes
  <2> QED BY <2>1, OnlyIs DEF Tokens
<1>3. MassOf(p, S) = Sum(f, Len(p)) /\ MassOf(p, T) = Sum(h, Len(p))
  BY DEF MassOf
<1> HIDE DEF f, h
<1> QED BY <1>1, <1>2, <1>3, SumMonotone

(* So does what they cover; and a lower threshold keeps more.              *)
LEMMA CoversMore ==
  ASSUME NEW p \in Weights, NEW S, NEW T, S \subseteq T, NEW topP \in Nat, Covers(p, S, topP)
  PROVE  Covers(p, T, topP)
<1>1. MassOf(p, S) \in Nat /\ MassOf(p, T) \in Nat /\ MassOf(p, Tokens(p)) \in Nat
  BY MassNat
<1>2. MassOf(p, S) <= MassOf(p, T)
  BY MassGrows
<1> DEFINE a == MassOf(p, S)
           b == MassOf(p, T)
           c == topP * MassOf(p, Tokens(p))
<1>3. c \in Nat
  BY <1>1
<1>4. 10 * a >= c
  BY DEF Covers
<1> HIDE DEF a, b, c
<1>5. 10 * b >= c
  BY <1>1, <1>2, <1>3, <1>4 DEF a, b
<1> QED BY <1>5 DEF Covers, b, c

LEMMA AtLeastLess ==
  ASSUME NEW p \in Weights, NEW low \in Nat, NEW high \in Nat, low <= high
  PROVE  AtLeast(p, high) \subseteq AtLeast(p, low)
<1>1. \A i \in Tokens(p) : p[i] \in Nat
  BY WeightTypes
<1> QED BY <1>1 DEF AtLeast

-----------------------------------------------------------------------------
(* A bisection ends with neighbours, of which the lower is where it began  *)
(* or passed the test, and the upper is where it began or did not.         *)
LEMMA BisectIs ==
  ASSUME NEW lo \in Nat, NEW hi \in Nat, lo <= hi, hi - lo <= One, NEW up,
         NEW b, b = Bisect(lo, hi, up)
  PROVE  /\ b.lo \in Nat /\ b.hi \in Nat
         /\ lo <= b.lo /\ b.lo <= b.hi /\ b.hi <= hi /\ b.hi <= b.lo + 1
         /\ b.lo = lo \/ b.lo \in up
         /\ b.hi = hi \/ b.hi \notin up
<1> DEFINE S == [lo : Nat, hi : Nat]
           mid(x) == (x.lo + x.hi) \div 2
           halve(x) == IF mid(x) \in up THEN [x EXCEPT !.lo = mid(x)]
                                        ELSE [x EXCEPT !.hi = mid(x)]
           start == [lo |-> lo, hi |-> hi]
           N == Halvings
           after[n \in 0 .. N] == IF n = 0 THEN start ELSE halve(after[n - 1])
<1>1. N \in Nat /\ start \in S
  BY SamplerAssumption
<1>2. ASSUME NEW x \in S
      PROVE  /\ halve(x) \in S
             /\ mid(x) \in Nat
             /\ x.lo <= x.hi => x.lo <= mid(x) /\ mid(x) <= x.hi
             /\ mid(x) \in up => halve(x).lo = mid(x) /\ halve(x).hi = x.hi
             /\ mid(x) \notin up => halve(x).lo = x.lo /\ halve(x).hi = mid(x)
  <2>1. x.lo \in Nat /\ x.hi \in Nat
    OBVIOUS
  <2>2. mid(x) \in Nat /\ (x.lo <= x.hi => x.lo <= mid(x) /\ mid(x) <= x.hi)
    BY <2>1
  <2> QED BY <2>2
<1>3. after = [n \in 0 .. N |-> IF n = 0 THEN start ELSE halve(after[n - 1])]
  <2> DEFINE steps == [k \in 1 .. N |-> [x \in S |-> halve(x)]]
  <2>1. steps \in [1 .. N -> [S -> S]]
    <3> HIDE DEF halve, mid, S
    <3> QED BY <1>2
  <2>2. \A k \in 1 .. N : \A x \in S : steps[k][x] = halve(x)
    <3> HIDE DEF halve, mid, S
    <3> QED OBVIOUS
  <2> HIDE DEF steps, halve, start, S, N
  <2>3. PICK g : g \in Runs(S, steps, start, N)
    BY <1>1, <2>1, RunsExist
  <2>4. g \in [0 .. N -> S] /\ g[0] = start /\ \A k \in 1 .. N : g[k] = steps[k][g[k - 1]]
    BY <2>3 DEF Runs
  <2>5. \A k \in 0 .. N : k # 0 => k \in 1 .. N /\ k - 1 \in 0 .. N
    BY <1>1
  <2>6. \A k \in 0 .. N : k # 0 => g[k] = halve(g[k - 1])
    BY <2>2, <2>4, <2>5
  <2>7. g = [n \in 0 .. N |-> IF n = 0 THEN start ELSE halve(g[n - 1])]
    BY <2>4, <2>6
  <2> QED BY <2>7
<1>4. b = after[N]
  BY DEF Bisect
<1> HIDE DEF after, N
<1> DEFINE Q == {k \in Nat : k <= N =>
                   /\ after[k] \in S
                   /\ lo <= after[k].lo /\ after[k].lo <= after[k].hi /\ after[k].hi <= hi
                   /\ after[k].hi - after[k].lo <= Pow2(N - k)
                   /\ after[k].lo = lo \/ after[k].lo \in up
                   /\ after[k].hi = hi \/ after[k].hi \notin up}
<1>5. 0 \in Q
  <2>1. after[0] = start
    BY <1>1, <1>3
  <2>2. Pow2(N - 0) = One /\ start.lo = lo /\ start.hi = hi
    BY <1>1 DEF One, N
  <2> QED BY <1>1, <2>1, <2>2
<1>6. ASSUME NEW k \in Nat, k \in Q PROVE k + 1 \in Q
  <2> SUFFICES ASSUME k + 1 <= N
               PROVE  /\ after[k + 1] \in S
                      /\ lo <= after[k + 1].lo /\ after[k + 1].lo <= after[k + 1].hi
                      /\ after[k + 1].hi <= hi
                      /\ after[k + 1].hi - after[k + 1].lo <= Pow2(N - (k + 1))
                      /\ after[k + 1].lo = lo \/ after[k + 1].lo \in up
                      /\ after[k + 1].hi = hi \/ after[k + 1].hi \notin up
    OBVIOUS
  <2> DEFINE x == after[k]
             y == after[k + 1]
             w == Pow2(N - (k + 1))
  <2>1. k <= N /\ k + 1 \in 0 .. N /\ (k + 1) - 1 = k /\ k + 1 # 0
    BY <1>1
  <2>2. /\ x \in S
        /\ lo <= x.lo /\ x.lo <= x.hi /\ x.hi <= hi
        /\ x.hi - x.lo <= Pow2(N - k)
        /\ x.lo = lo \/ x.lo \in up
        /\ x.hi = hi \/ x.hi \notin up
    BY <1>6, <2>1
  <2>3. y = halve(x)
    BY <1>3, <2>1
  <2>4. Pow2(N - k) = 2 * w /\ w \in Nat
    <3>1. N - (k + 1) \in Nat /\ (N - (k + 1)) + 1 = N - k
      BY <1>1
    <3> QED BY <3>1, PowerIs
  <2>5. x.lo \in Nat /\ x.hi \in Nat
    BY <2>2
  <2> HIDE DEF S, halve, w, x, y
  <2>6. /\ y \in S
        /\ mid(x) \in up => y.lo = mid(x) /\ y.hi = x.hi
        /\ mid(x) \notin up => y.lo = x.lo /\ y.hi = mid(x)
    BY <1>2, <2>2, <2>3
  <2>7. /\ mid(x) \in Nat /\ x.lo <= mid(x) /\ mid(x) <= x.hi
        /\ x.hi - mid(x) <= w /\ mid(x) - x.lo <= w
    <3> DEFINE l == x.lo
               h == x.hi
               m == (l + h) \div 2
    <3>1. l \in Nat /\ h \in Nat /\ l <= h /\ h - l <= 2 * w /\ w \in Nat
      BY <2>2, <2>4, <2>5
    <3> HIDE DEF l, h
    <3>2. m \in Nat /\ l <= m /\ m <= h /\ h - m <= w /\ m - l <= w
      BY <3>1
    <3> QED BY <3>2 DEF l, h
  <2> HIDE DEF mid
  <2>8. /\ lo <= y.lo /\ y.lo <= y.hi /\ y.hi <= hi /\ y.hi - y.lo <= w
        /\ y.lo = lo \/ y.lo \in up
        /\ y.hi = hi \/ y.hi \notin up
    BY <2>2, <2>5, <2>6, <2>7
  <2> QED BY <2>6, <2>8 DEF y, w
<1> HIDE DEF Q
<1>7. N \in Q /\ N <= N
  BY <1>1, <1>5, <1>6, Induction
<1>8. Pow2(N - N) = 1
  <2>1. N - N = 0
    BY <1>1
  <2> QED BY <2>1, PowerIs
<1>9. /\ b \in S
      /\ lo <= b.lo /\ b.lo <= b.hi /\ b.hi <= hi /\ b.hi - b.lo <= 1
      /\ b.lo = lo \/ b.lo \in up
      /\ b.hi = hi \/ b.hi \notin up
  BY <1>4, <1>7, <1>8 DEF Q
<1>10. b.lo \in Nat /\ b.hi \in Nat
  BY <1>9
<1> QED BY <1>9, <1>10

-----------------------------------------------------------------------------
(* The thresholds.                                                         *)
LEMMA FirstCutIs ==
  ASSUME NEW p \in Weights, NEW topK \in Nat, NEW minP \in 0 .. One
  PROVE  FirstCut(p, topK, minP) \in 0 .. One
<1> DEFINE weights == {p[i] : i \in Tokens(p)}
           up == {mid \in 0 .. One : Cardinality(AtLeast(p, mid)) > topK}
           b == Bisect(0, One, up)
<1>1. One \in Nat /\ Max(weights) = One
  <2>1. One \in weights /\ weights \subseteq Int /\ \A k \in weights : k <= One
    BY WeightTypes
  <2> HIDE DEF weights
  <2> QED BY <2>1, WeightTypes, MaxOf
<1>2. b.lo \in Nat /\ b.lo <= b.hi /\ b.hi <= One /\ b.hi \in Nat
  <2> HIDE DEF up
  <2>1. 0 \in Nat /\ 0 <= One /\ One - 0 <= One
    BY <1>1
  <2> QED BY <1>1, <2>1, BisectIs
<1>3. TopKCut(p, topK) \in 0 .. One
  <2>1. TopKCut(p, topK) = IF topK > 0 /\ topK < Len(p) THEN b.lo ELSE 0
    BY <1>1 DEF TopKCut
  <2> HIDE DEF b
  <2> QED BY <1>1, <1>2, <2>1
<1>4. \A x, y \in 0 .. One : Max({x, y}) \in 0 .. One
  <2> SUFFICES ASSUME NEW x \in 0 .. One, NEW y \in 0 .. One PROVE Max({x, y}) \in 0 .. One
    OBVIOUS
  <2>1. CASE x <= y
    <3>1. y \in {x, y} /\ {x, y} \subseteq Nat /\ \A k \in {x, y} : k <= y
      BY <2>1, <1>1
    <3> QED BY <3>1, MaxOf
  <2>2. CASE ~ (x <= y)
    <3>1. x \in {x, y} /\ {x, y} \subseteq Nat /\ \A k \in {x, y} : k <= x
      BY <2>2, <1>1
    <3> QED BY <3>1, MaxOf
  <2> QED BY <2>1, <2>2
<1> QED BY <1>3, <1>4 DEF FirstCut

(* The cut of top_p: as far up as the mass above it covers.                *)
LEMMA TopPCutIs ==
  ASSUME NEW p \in Weights, NEW first \in 0 .. One, NEW topP \in Nat, topP < 10,
         NEW cut, cut = TopPCut(p, first, topP)
  PROVE  /\ cut \in Nat /\ first <= cut /\ cut <= One
         /\ cut = first \/ Covers(p, AtLeast(p, cut), topP)
         /\ cut >= One - 1 \/ ~Covers(p, AtLeast(p, cut + 1), topP)
<1> DEFINE up == Covering(p, topP)
           b == Bisect(first, One, up)
<1>0. One \in Nat /\ first \in Nat /\ first <= One /\ One - first <= One
  BY WeightTypes
<1>1. cut = b.lo
  <2>1. ~ (topP >= 10)
    OBVIOUS
  <2> QED BY <2>1 DEF TopPCut
<1>2. /\ b.lo \in Nat /\ b.hi \in Nat
      /\ first <= b.lo /\ b.lo <= b.hi /\ b.hi <= One /\ b.hi <= b.lo + 1
      /\ b.lo = first \/ b.lo \in up
      /\ b.hi = One \/ b.hi \notin up
  <2> HIDE DEF up
  <2> QED BY <1>0, BisectIs
<1>3. \A x \in 0 .. One : x \in up <=> Covers(p, AtLeast(p, x), topP)
  BY DEF Covering
<1> HIDE DEF b, up
<1>4. cut = first \/ Covers(p, AtLeast(p, cut), topP)
  BY <1>0, <1>1, <1>2, <1>3
<1>5. ASSUME ~ (cut >= One - 1), Covers(p, AtLeast(p, cut + 1), topP) PROVE FALSE
  <2>1. b.hi # One
    BY <1>0, <1>1, <1>2, <1>5
  <2>2. b.hi \in 0 .. One /\ ~ Covers(p, AtLeast(p, b.hi), topP)
    BY <1>0, <1>2, <1>3, <2>1
  <2>3. b.hi <= cut + 1 /\ cut + 1 \in Nat /\ b.hi \in Nat
    BY <1>1, <1>2
  <2>4. AtLeast(p, cut + 1) \subseteq AtLeast(p, b.hi)
    BY <2>3, AtLeastLess
  <2> QED BY <1>5, <2>2, <2>4, CoversMore
<1> QED BY <1>0, <1>1, <1>2, <1>4, <1>5

(* What is kept covers, and would not without its lightest, which the      *)
(* upper bound of the bisection has cut off.                               *)
LEMMA NucleusIs ==
  ASSUME NEW p \in Weights, NEW first \in 0 .. One, NEW topP \in Nat, topP < 10,
         NEW cut, cut = TopPCut(p, first, topP)
  PROVE  IF Covers(p, AtLeast(p, first), topP)
         THEN /\ AtLeast(p, cut) \subseteq AtLeast(p, first)
              /\ Covers(p, AtLeast(p, cut), topP)
              /\ \/ ~Covers(p, AtLeast(p, cut) \ Lightest(p, AtLeast(p, cut)), topP)
                 \/ \A i \in AtLeast(p, cut) : p[i] >= One - 1
         ELSE AtLeast(p, cut) = AtLeast(p, first)
<1> DEFINE kept == AtLeast(p, cut)
           lightest == Lightest(p, kept)
<1>1. /\ cut \in Nat /\ first <= cut /\ cut <= One /\ first \in Nat /\ One \in Nat
      /\ cut = first \/ Covers(p, kept, topP)
      /\ cut >= One - 1 \/ ~Covers(p, AtLeast(p, cut + 1), topP)
  <2>1. /\ cut \in Nat /\ first <= cut /\ cut <= One
        /\ cut = first \/ Covers(p, AtLeast(p, cut), topP)
        /\ cut >= One - 1 \/ ~Covers(p, AtLeast(p, cut + 1), topP)
    BY TopPCutIs
  <2>2. One \in Nat /\ first \in Nat
    BY WeightTypes
  <2> QED BY <2>1, <2>2
<1>2. kept \subseteq AtLeast(p, first)
  BY <1>1, AtLeastLess
<1>3. \A i \in Tokens(p) : p[i] \in Nat /\ p[i] <= One
  BY WeightTypes
<1>4. CASE ~Covers(p, AtLeast(p, first), topP)
  <2>1. ~Covers(p, kept, topP)
    BY <1>2, <1>4, CoversMore
  <2>2. cut = first
    BY <1>1, <2>1
  <2> QED BY <1>4, <2>2
<1>5. CASE Covers(p, AtLeast(p, first), topP)
  <2>1. Covers(p, kept, topP)
    BY <1>1, <1>5
  <2>2. ASSUME Covers(p, kept \ lightest, topP), NEW i \in kept PROVE p[i] >= One - 1
    <3>1. CASE cut >= One - 1
      <4>1. p[i] >= cut /\ p[i] \in Nat
        BY <1>3 DEF AtLeast
      <4> QED BY <1>1, <3>1, <4>1
    <3>2. CASE ~Covers(p, AtLeast(p, cut + 1), topP)
      <4>1. ASSUME NEW k \in kept \ lightest PROVE k \in AtLeast(p, cut + 1)
        <5>1. k \in Tokens(p) /\ p[k] >= cut /\ p[k] \in Nat
          BY <1>3 DEF AtLeast
        <5>2. PICK j \in kept : ~ (p[k] <= p[j])
          BY <4>1 DEF Lightest
        <5>3. j \in Tokens(p) /\ p[j] >= cut /\ p[j] \in Nat
          BY <1>3 DEF AtLeast
        <5>4. p[k] >= cut + 1
          BY <1>1, <5>1, <5>2, <5>3
        <5> QED BY <5>1, <5>4 DEF AtLeast
      <4>2. kept \ lightest \subseteq AtLeast(p, cut + 1)
        BY <4>1
      <4> QED BY <2>2, <3>2, <4>2, CoversMore
    <3> QED BY <1>1, <3>1, <3>2
  <2> QED BY <1>2, <1>5, <2>1, <2>2
<1> QED BY <1>4, <1>5

-----------------------------------------------------------------------------
(* Multiples of m up to a number, and behind it.                           *)
LEMMA MultiplesUpTo ==
  ASSUME NEW m \in Nat \ {0}, NEW d \in Nat, NEW r \in Nat
  PROVE  r * m <= d <=> r <= d \div m
<1> DEFINE q == d \div m
<1>1. q \in Nat /\ m * q <= d /\ d < m * q + m
  BY DivMod
<1> HIDE DEF q
<1>2. CASE r <= q
  <2>1. q - r \in Nat /\ q * m = r * m + (q - r) * m /\ (q - r) * m \in Nat
    BY <1>1, <1>2
  <2> QED BY <1>1, <1>2, <2>1 DEF q
<1>3. CASE q < r
  <2>1. r - (q + 1) \in Nat
    BY <1>1, <1>3
  <2>2. r * m = q * m + m + (r - (q + 1)) * m /\ (r - (q + 1)) * m \in Nat
    BY <1>1, <2>1
  <2> QED BY <1>1, <1>3, <2>2 DEF q
<1> QED BY <1>1, <1>2, <1>3

(* r parts of `total` parts of m.                                          *)
LEMMA FractionOf ==
  ASSUME NEW m \in Nat \ {0}, NEW total \in Nat, NEW r \in Nat, r <= total
  PROVE  r * m \in Nat /\ r * m <= m * total /\ (r # 0 => r * m > 0) /\ (r = 0 => r * m = 0)
<1>1. r * m \in Nat /\ (r = 0 => r * m = 0)
  OBVIOUS
<1>2. r # 0 => r * m > 0
  OBVIOUS
<1>3. total - r \in Nat
  OBVIOUS
<1>4. m * (total - r) \in Nat
  BY <1>3
<1>5. m * total = r * m + m * (total - r)
  OBVIOUS
<1> QED BY <1>1, <1>2, <1>4, <1>5

(* The mass up to a survivor, in the units in which the draw compares: a   *)
(* share of the random numbers is a share of Resolution * MassOf.          *)
Reach(p, set, k) == Sum(Only(p, set), k) * Resolution

LEMMA ReachIs ==
  ASSUME NEW p \in Weights, NEW set, set \subseteq Tokens(p)
  PROVE  /\ Reach(p, set, 0) = 0
         /\ Reach(p, set, Len(p)) = MassOf(p, set) * Resolution
         /\ \A k \in 0 .. Len(p) : Reach(p, set, k) \in Nat
         /\ \A k \in Tokens(p) :
              /\ k \in set => Reach(p, set, k) = Reach(p, set, k - 1) + p[k] * Resolution
              /\ k \notin set => Reach(p, set, k) = Reach(p, set, k - 1)
              /\ k - 1 \in 0 .. Len(p)
         /\ \A j, k \in 0 .. Len(p) : j <= k => Reach(p, set, j) <= Reach(p, set, k)
<1> DEFINE f == Only(p, set)
           n == Len(p)
<1>1. n \in Nat /\ Resolution \in Nat /\ \A k \in 1 .. n : f[k] \in Nat
      /\ f[k] = IF k \in set THEN p[k] ELSE 0
  BY WeightTypes, OnlyIs, SamplerAssumption DEF Tokens
<1>2. Reach(p, set, n) = MassOf(p, set) * Resolution /\ Tokens(p) = 1 .. n
  BY DEF MassOf, Reach, Tokens
<1>3. \A k : Reach(p, set, k) = Sum(f, k) * Resolution
  BY DEF Reach
<1> HIDE DEF f, n
<1>4. Sum(f, 0) = 0 /\ \A k \in 0 .. n : Sum(f, k) \in Nat
  <2>1. \A k \in 0 .. n : \A j \in 1 .. k : f[j] \in Nat
    BY <1>1
  <2> QED BY <2>1, SumEmpty, SumNat
<1>5. ASSUME NEW k \in 1 .. n
      PROVE  /\ k \in set => Reach(p, set, k) = Reach(p, set, k - 1) + p[k] * Resolution
             /\ k \notin set => Reach(p, set, k) = Reach(p, set, k - 1)
             /\ k - 1 \in 0 .. n
  <2>1. k - 1 \in Nat /\ k - 1 \in 0 .. n /\ (k - 1) + 1 = k /\ \A j \in 1 .. (k - 1) + 1 : f[j] \in Int
    BY <1>1
  <2>2. Sum(f, (k - 1) + 1) = Sum(f, k - 1) + f[(k - 1) + 1]
    BY <2>1, SumNext
  <2>3. Sum(f, k) * Resolution = Sum(f, k - 1) * Resolution + f[k] * Resolution
    BY <1>1, <1>4, <2>1, <2>2
  <2>4. Reach(p, set, k) = Reach(p, set, k - 1) + f[k] * Resolution
    BY <1>3, <2>3
  <2>5. Reach(p, set, k - 1) \in Nat
    BY <1>1, <1>3, <1>4, <2>1
  <2>6. k \notin set => f[k] * Resolution = 0
    BY <1>1
  <2>7. k \in set => f[k] = p[k]
    BY <1>1
  <2> QED BY <2>1, <2>4, <2>5, <2>6, <2>7
<1>6. ASSUME NEW j \in 0 .. n, NEW k \in 0 .. n, j <= k
      PROVE  Reach(p, set, j) <= Reach(p, set, k)
  <2>1. k \in Nat /\ j \in 0 .. k /\ \A x \in 1 .. k : f[x] \in Nat
    BY <1>1, <1>6
  <2>2. Sum(f, j) <= Sum(f, k) /\ Sum(f, j) \in Nat /\ Sum(f, k) \in Nat
    BY <1>4, <2>1, SumGrows
  <2>3. Sum(f, j) * Resolution <= Sum(f, k) * Resolution
    BY <1>1, <2>2
  <2> QED BY <1>3, <2>3
<1>7. Reach(p, set, 0) = 0 /\ \A k \in 0 .. n : Reach(p, set, k) \in Nat
  BY <1>1, <1>3, <1>4
<1> QED BY <1>2, <1>5, <1>6, <1>7 DEF n

(* No mass without a token.                                                *)
LEMMA SomeMass ==
  ASSUME NEW p \in Weights, NEW set, set \subseteq Tokens(p), MassOf(p, set) > 0
  PROVE  set # {}
<1> SUFFICES ASSUME set = {} PROVE FALSE
  OBVIOUS
<1>1. Len(p) \in Nat /\ \A k \in 1 .. Len(p) : Only(p, set)[k] = 0
  BY WeightTypes, OnlyIs DEF Tokens
<1>2. MassOf(p, set) = 0
  BY <1>1, SumZero DEF MassOf
<1> QED BY <1>2

(* The draw: token i gets the numbers that reach beyond those before it,   *)
(* up to and with its own; 0 goes to the first survivor.                   *)
LEMMA DrawIs ==
  ASSUME NEW p \in Weights, NEW cut, NEW survivors, survivors = AtLeast(p, cut),
         MassOf(p, survivors) > 0, NEW r \in Randoms, NEW i \in Tokens(p)
  PROVE  IF r = 0 THEN Draw(p, cut, r) = Min(survivors)
         ELSE Draw(p, cut, r) = i <=> /\ Reach(p, survivors, i - 1) < r * MassOf(p, survivors)
                                      /\ r * MassOf(p, survivors) <= Reach(p, survivors, i)
<1> DEFINE u == r * MassOf(p, survivors)
           n == Len(p)
           C(k) == Reach(p, survivors, k)
           reached == {k \in survivors : C(k) >= u}
<1>0. MassOf(p, survivors) \in Nat \ {0} /\ r \in Nat /\ Resolution \in Nat \ {0} /\ r <= Resolution
  BY MassNat, SamplerAssumption DEF Randoms
<1>1. n \in Nat \ {0} /\ survivors \subseteq 1 .. n /\ i \in 1 .. n /\ Tokens(p) = 1 .. n
  BY WeightTypes DEF Tokens, AtLeast
<1>2. /\ C(0) = 0 /\ \A k \in 0 .. n : C(k) \in Nat
      /\ C(n) = MassOf(p, survivors) * Resolution
      /\ \A k \in 1 .. n : k \notin survivors => C(k) = C(k - 1)
      /\ \A j, k \in 0 .. n : j <= k => C(j) <= C(k)
  <2>1. survivors \subseteq Tokens(p)
    BY <1>1
  <2> HIDE DEF n
  <2>2. \A k \in 0 .. n : C(k) \in Nat
    BY <2>1, ReachIs DEF n
  <2>3. \A k \in 1 .. n : k \notin survivors => C(k) = C(k - 1)
    BY <1>1, <2>1, ReachIs DEF n
  <2> QED BY <2>1, <2>2, <2>3, ReachIs DEF n
<1>3. Draw(p, cut, r) = IF reached # {} THEN Min(reached)
                        ELSE IF survivors # {} THEN Max(survivors) ELSE 1
  BY DEF Draw, Reach
<1>4. u \in Nat /\ u <= C(n) /\ (r # 0 => u > 0) /\ (r = 0 => u = 0)
  <2> DEFINE m == MassOf(p, survivors)
  <2>1. m \in Nat \ {0} /\ r \in Nat /\ Resolution \in Nat /\ r <= Resolution
    BY <1>0
  <2> HIDE DEF m
  <2>2. r * m \in Nat /\ r * m <= m * Resolution /\ (r # 0 => r * m > 0) /\ (r = 0 => r * m = 0)
    BY <2>1, FractionOf
  <2>3. u = r * m /\ C(n) = m * Resolution
    BY <1>2 DEF m
  <2> HIDE DEF u, C
  <2> QED BY <2>2, <2>3
<1> HIDE DEF u, n, C
<1>5. CASE r = 0
  <2>1. \A k \in survivors : C(k) >= u
    BY <1>1, <1>2, <1>4, <1>5
  <2>2. reached = survivors
    BY <2>1
  <2>3. survivors # {}
    <3>1. survivors \subseteq Tokens(p)
      BY <1>1
    <3> QED BY <3>1, SomeMass
  <2> QED BY <1>3, <1>5, <2>2, <2>3
<1>6. CASE r # 0
  <2> DEFINE places == {k \in 1 .. n : C(k) >= u}
             m == Min(places)
  <2>0. u > 0
    BY <1>4, <1>6
  <2>1. places \subseteq Nat /\ n \in places
    BY <1>1, <1>2, <1>4
  <2>2. m \in places /\ \A k \in places : m <= k
    <3> HIDE DEF places
    <3> QED BY <2>1, LeastIn
  <2> HIDE DEF m
  <2>3. m \in 1 .. n /\ C(m) >= u /\ C(m - 1) < u /\ m - 1 \in 0 .. n
    <3>1. m \in 1 .. n /\ C(m) >= u /\ m - 1 \in 0 .. n
      BY <1>1, <2>2
    <3>2. CASE m = 1
      BY <1>2, <1>4, <2>0, <3>1, <3>2
    <3>3. CASE m # 1
      <4>1. m - 1 \in 1 .. n /\ ~ (m <= m - 1) /\ m - 1 \in 0 .. n
        BY <1>1, <3>1, <3>3
      <4>2. ~ (C(m - 1) >= u)
        BY <2>2, <4>1
      <4> QED BY <1>2, <1>4, <3>1, <4>1, <4>2
    <3> QED BY <3>2, <3>3
  <2>4. m \in survivors
    <3>1. C(m) # C(m - 1)
      BY <1>2, <1>4, <2>3
    <3> QED BY <1>2, <2>3, <3>1
  <2>5. Draw(p, cut, r) = m
    <3>1. m \in reached /\ reached \subseteq Nat /\ \A k \in reached : m <= k
      BY <1>1, <2>2, <2>3, <2>4
    <3> HIDE DEF reached
    <3>2. Min(reached) \in reached /\ \A k \in reached : Min(reached) <= k
      BY <3>1, LeastIn
    <3>3. Min(reached) <= m /\ m <= Min(reached) /\ m \in Nat /\ Min(reached) \in Nat
      BY <3>1, <3>2
    <3> QED BY <1>3, <3>1, <3>3
  <2>6. i = m <=> C(i - 1) < u /\ u <= C(i)
    <3>1. ASSUME C(i - 1) < u, u <= C(i) PROVE i = m
      <4>1. i \in places
        BY <1>1, <1>2, <1>4, <3>1
      <4>2. m <= i
        BY <2>2, <4>1
      <4>3. ASSUME m < i PROVE FALSE
        <5>1. m \in 0 .. n /\ i - 1 \in 0 .. n /\ m <= i - 1
          BY <1>1, <2>3, <4>3
        <5>2. C(m) <= C(i - 1) /\ C(m) \in Nat /\ C(i - 1) \in Nat
          BY <1>2, <5>1
        <5> QED BY <1>4, <2>3, <3>1, <5>2
      <4> QED BY <1>1, <2>3, <4>2, <4>3
    <3>2. C(m) \in Nat
      BY <1>2, <2>3
    <3> QED BY <1>4, <2>3, <3>1, <3>2
  <2> QED BY <1>6, <2>5, <2>6 DEF C, u
<1> QED BY <1>5, <1>6

(* How many multiples of m there are behind d and up to e, of the first    *)
(* `total` ones, when e goes up to all of them at most.                    *)
Picked(m, total, d, e) == {r \in 1 .. total - 1 : d < r * m /\ r * m <= e}

LEMMA MultiplesBetween ==
  ASSUME NEW m \in Nat \ {0}, NEW total \in Nat \ {0}, NEW d \in Nat, NEW e \in Nat,
         d <= e, e <= m * total
  PROVE  /\ Cardinality(Picked(m, total, d, e)) \in Nat
         /\ m * Cardinality(Picked(m, total, d, e)) - (e - d) \in -m .. m
         /\ d = 0 => m * (Cardinality(Picked(m, total, d, e)) + 1) - e \in -m .. m
<1> DEFINE picked == {r \in 1 .. total - 1 : d < r * m /\ r * m <= e}
           low == d \div m
           q == e \div m
           high == IF q < total THEN q ELSE total - 1
<1>1. /\ low \in Nat /\ m * low <= d /\ d < m * low + m
      /\ q \in Nat /\ m * q <= e /\ e < m * q + m
  BY DivMod
<1>2. \A r \in 1 .. total - 1 : /\ r * m <= e <=> r <= q
                              /\ r * m <= d <=> r <= low
                              /\ r * m \in Nat
  BY MultiplesUpTo
<1>3. q * m <= m * total
  BY <1>1
<1>4. q <= total
  <2> SUFFICES ASSUME total < q PROVE FALSE
    BY <1>1
  <2>1. q - total \in Nat \ {0}
    BY <1>1
  <2>2. q * m = m * total + m * (q - total) /\ m * (q - total) \in Nat \ {0}
    BY <1>1, <2>1
  <2> QED BY <1>3, <2>2
<1>5. low <= q
  <2> SUFFICES ASSUME q < low PROVE FALSE
    BY <1>1
  <2>1. low - (q + 1) \in Nat
    BY <1>1
  <2>2. m * low = m * q + m + m * (low - (q + 1)) /\ m * (low - (q + 1)) \in Nat
    BY <1>1, <2>1
  <2> QED BY <1>1, <2>2
<1>6. d = 0 => low = 0
  <2> SUFFICES ASSUME d = 0, low # 0 PROVE FALSE
    OBVIOUS
  <2>1. m * low \in Nat \ {0}
    BY <1>1
  <2> QED BY <1>1, <2>1
<1>7. Picked(m, total, d, e) = picked
  BY DEF Picked
<1> HIDE DEF low, q
<1>8. high \in Nat /\ picked = low + 1 .. high
  BY <1>1, <1>2, <1>4
<1>9. Cardinality(picked) = IF low + 1 > high THEN 0 ELSE high - (low + 1) + 1
  <2>1. low + 1 \in Int /\ high \in Int
    BY <1>1, <1>8
  <2> HIDE DEF high
  <2> QED BY <1>8, <2>1, FS_Interval
<1> DEFINE c == Cardinality(picked)
<1>10. SUFFICES /\ c \in Nat
                /\ m * c - (e - d) \in -m .. m
                /\ d = 0 => m * (c + 1) - e \in -m .. m
  BY <1>7
<1>11. c = IF low + 1 > high THEN 0 ELSE high - (low + 1) + 1
  BY <1>9
<1> HIDE DEF c
<1>12. CASE q < total
  <2>1. c = q - low /\ c \in Nat
    BY <1>1, <1>5, <1>11, <1>12
  <2>2. m * c = m * q - m * low /\ m * (c + 1) = m * c + m
    BY <1>1, <2>1
  <2>3. m * q \in Nat /\ m * low \in Nat /\ (low = 0 => m * low = 0)
    BY <1>1
  <2>4. m * c - (e - d) \in -m .. m
    BY <1>1, <2>2, <2>3
  <2>5. d = 0 => m * (c + 1) - e \in -m .. m
    BY <1>1, <1>6, <2>2, <2>3
  <2> QED BY <2>1, <2>4, <2>5
<1>13. CASE q = total
  <2>1. e = m * q
    BY <1>1, <1>13
  <2>2. m * q \in Nat /\ m * low \in Nat /\ (low = 0 => m * low = 0)
    BY <1>1
  <2>3. CASE low < q
    <3>1. c = q - 1 - low /\ c \in Nat
      BY <1>1, <1>11, <1>13, <2>3
    <3>2. m * c = m * q - m - m * low /\ m * (c + 1) = m * c + m
      BY <1>1, <3>1
    <3>3. m * c - (e - d) \in -m .. m
      BY <1>1, <2>1, <2>2, <3>2
    <3>4. d = 0 => m * (c + 1) - e \in -m .. m
      BY <1>1, <1>6, <2>1, <2>2, <3>2
    <3> QED BY <3>1, <3>3, <3>4
  <2>4. CASE low = q
    <3>1. c = 0
      BY <1>1, <1>11, <1>13, <2>4
    <3>2. d = e /\ d # 0
      <4>1. m * low = e
        BY <2>1, <2>4
      <4>2. low # 0
        BY <1>13, <2>4
      <4> QED BY <1>1, <1>6, <4>1, <4>2
    <3>3. m * c - (e - d) = 0
      BY <3>1, <3>2
    <3> QED BY <3>1, <3>2, <3>3
  <2> QED BY <1>1, <1>5, <2>3, <2>4
<1> QED BY <1>1, <1>4, <1>12, <1>13

(* So that each token is drawn as often as its share, and one without      *)
(* weight by 0 only.                                                       *)
Mass(p, cut) == MassOf(p, AtLeast(p, cut))
Drawn(p, cut, i) == {r \in Randoms : Draw(p, cut, r) = i}
InProportion(p, cut, i) ==
  IF i \in AtLeast(p, cut)
  THEN /\ Mass(p, cut) * Cardinality(Drawn(p, cut, i)) - p[i] * Resolution
            \in -Mass(p, cut) .. Mass(p, cut)
       /\ p[i] = 0 => Drawn(p, cut, i) \subseteq {0}
  ELSE Drawn(p, cut, i) = {}

LEMMA DrawsCount ==
  ASSUME NEW p \in Weights, NEW cut, Mass(p, cut) > 0, NEW i \in Tokens(p)
  PROVE  InProportion(p, cut, i)
<1> DEFINE kept == AtLeast(p, cut)
           mass == MassOf(p, kept)
           drawn == {r \in Randoms : Draw(p, cut, r) = i}
           d == Reach(p, kept, i - 1)
           e == Reach(p, kept, i)
           picked == Picked(mass, Resolution, d, e)
           first == Min(kept)
<1>1. kept = AtLeast(p, cut) /\ mass = MassOf(p, kept) /\ mass > 0
  BY DEF Mass
<1>2. picked = {r \in 1 .. Resolution - 1 : d < r * mass /\ r * mass <= e}
  BY DEF Picked
<1>3. ASSUME IF i \in kept
             THEN /\ mass * Cardinality(drawn) - p[i] * Resolution \in -mass .. mass
                  /\ p[i] = 0 => drawn \subseteq {0}
             ELSE drawn = {}
      PROVE  InProportion(p, cut, i)
  BY <1>3 DEF InProportion, Mass, Drawn
<1> HIDE DEF kept, mass, drawn, picked
<1>4. /\ mass \in Nat \ {0} /\ Resolution \in Nat \ {0}
      /\ kept \subseteq Tokens(p) /\ Tokens(p) \subseteq Nat \ {0} /\ p[i] \in Nat
      /\ Len(p) \in Nat /\ Tokens(p) = 1 .. Len(p)
  <2>1. kept \subseteq Tokens(p)
    BY <1>1 DEF AtLeast
  <2> QED BY <1>1, <2>1, MassNat, SamplerAssumption, WeightTypes DEF Tokens
<1>5. SUFFICES IF i \in kept
                THEN /\ mass * Cardinality(drawn) - p[i] * Resolution \in -mass .. mass
                     /\ p[i] = 0 => drawn \subseteq {0}
                ELSE drawn = {}
  BY <1>3
<1>6. /\ d \in Nat /\ e \in Nat /\ d <= e /\ e <= mass * Resolution
      /\ i \in kept => e = d + p[i] * Resolution
      /\ i \notin kept => e = d
  <2>1. /\ i \in kept => Reach(p, kept, i) = Reach(p, kept, i - 1) + p[i] * Resolution
        /\ i \notin kept => Reach(p, kept, i) = Reach(p, kept, i - 1)
        /\ i - 1 \in 0 .. Len(p)
    <3>1. kept \subseteq Tokens(p)
      BY <1>4
    <3>2. \A k \in Tokens(p) :
            /\ k \in kept => Reach(p, kept, k) = Reach(p, kept, k - 1) + p[k] * Resolution
            /\ k \notin kept => Reach(p, kept, k) = Reach(p, kept, k - 1)
            /\ k - 1 \in 0 .. Len(p)
      BY <3>1, ReachIs
    <3> QED BY <3>2, Zenon
  <2>6. i \in 0 .. Len(p) /\ Len(p) \in 0 .. Len(p)
    BY <1>4
  <2>2. \A k \in 0 .. Len(p) : Reach(p, kept, k) \in Nat
    BY <1>4, ReachIs
  <2>3. Reach(p, kept, Len(p)) = mass * Resolution
    BY <1>1, <1>4, ReachIs
  <2>4. \A j, k \in 0 .. Len(p) : j <= k => Reach(p, kept, j) <= Reach(p, kept, k)
    BY <1>4, ReachIs
  <2>5. e <= Reach(p, kept, Len(p)) /\ d <= e
    BY <1>4, <2>1, <2>4, <2>6 DEF d, e
  <2> QED BY <2>1, <2>2, <2>3, <2>5, <2>6 DEF d, e
<1>7. \A r \in Randoms : IF r = 0 THEN Draw(p, cut, r) = first
                        ELSE Draw(p, cut, r) = i <=> d < r * mass /\ r * mass <= e
  BY <1>1, DrawIs
<1>8. 0 \in Randoms /\ Randoms = {0} \cup 1 .. Resolution - 1
  BY <1>4 DEF Randoms
<1> HIDE DEF d, e, first
<1>9. drawn = (IF i = first THEN {0} ELSE {}) \cup picked
  BY <1>7, <1>8, <1>2 DEF drawn
<1>10. first \in kept /\ \A k \in kept : first <= k
  <2>1. kept # {}
    BY <1>1, <1>4, SomeMass
  <2> QED BY <1>4, <2>1, LeastIn DEF first
<1>11. /\ Cardinality(picked) \in Nat
       /\ mass * Cardinality(picked) - (e - d) \in -mass .. mass
       /\ d = 0 => mass * (Cardinality(picked) + 1) - e \in -mass .. mass
  <2>1. /\ mass \in Nat \ {0} /\ Resolution \in Nat \ {0}
        /\ d \in Nat /\ e \in Nat /\ d <= e /\ e <= mass * Resolution
    BY <1>4, <1>6
  <2> QED BY <2>1, MultiplesBetween DEF picked
<1>12. (i \notin kept \/ p[i] = 0) => picked = {}
  <2> SUFFICES ASSUME i \notin kept \/ p[i] = 0 PROVE picked = {}
    OBVIOUS
  <2>1. e = d
    BY <1>4, <1>6
  <2> QED BY <1>4, <1>6, <1>2, <2>1
<1>13. CASE i \notin kept
  BY <1>9, <1>10, <1>12, <1>13
<1>14. CASE i \in kept /\ i # first
  <2>1. drawn = picked /\ e - d = p[i] * Resolution
    BY <1>4, <1>6, <1>9, <1>14
  <2>2. mass * Cardinality(picked) - (e - d) \in -mass .. mass
    BY <1>11
  <2>3. mass * Cardinality(drawn) - p[i] * Resolution \in -mass .. mass
    BY <2>1, <2>2
  <2> QED BY <1>12, <1>14, <2>1, <2>3
<1>15. CASE i \in kept /\ i = first
  <2>1. drawn = {0} \cup picked /\ 0 \notin picked /\ IsFiniteSet(picked)
    <3>1. IsFiniteSet(1 .. Resolution - 1) /\ picked \subseteq 1 .. Resolution - 1
      <4>1. 1 \in Int /\ Resolution - 1 \in Int
        BY <1>4
      <4> QED BY <1>2, <4>1, FS_Interval
    <3>2. IsFiniteSet(picked)
      BY <3>1, FS_Subset
    <3> QED BY <1>9, <1>15, <1>2, <3>2
  <2>2. Cardinality(drawn) = Cardinality(picked) + 1
    <3>1. drawn = picked \cup {0}
      BY <2>1, Zenon
    <3> HIDE DEF drawn, picked
    <3>2. Cardinality(picked \cup {0}) =
            IF 0 \in picked THEN Cardinality(picked) ELSE Cardinality(picked) + 1
      BY <2>1, FS_AddElement, Zenon
    <3> QED BY <2>1, <3>1, <3>2, Zenon
  <2>3. d = 0
    <3>1. i - 1 \in Nat /\ \A k \in 1 .. i - 1 : k \in Tokens(p) /\ k \notin kept
      BY <1>4, <1>10, <1>15
    <3>2. \A k \in 1 .. i - 1 : Only(p, kept)[k] = 0
      BY <3>1, OnlyIs
    <3>3. Sum(Only(p, kept), i - 1) = 0
      BY <3>1, <3>2, SumZero
    <3> QED BY <1>4, <3>3 DEF d, Reach
  <2>4. e = p[i] * Resolution
    BY <1>4, <1>6, <1>15, <2>3
  <2>5. mass * (Cardinality(picked) + 1) - e \in -mass .. mass
    BY <1>11, <2>3
  <2>6. mass * Cardinality(drawn) - p[i] * Resolution \in -mass .. mass
    BY <2>2, <2>4, <2>5
  <2> QED BY <1>12, <1>15, <2>1, <2>6
<1> QED BY <1>13, <1>14, <1>15

-----------------------------------------------------------------------------
(* Greedy decoding.                                                        *)
LEMMA SomeLikeliest ==
  ASSUME NEW p \in Weights, NEW set, set \subseteq Tokens(p), set # {}
  PROVE  Likeliest(p, set) # {} /\ Likeliest(p, set) \subseteq set
<1> DEFINE lacking == {One - p[i] : i \in set}
<1>1. One \in Nat /\ \A i \in set : p[i] \in Nat /\ p[i] <= One
  BY WeightTypes
<1>2. lacking \subseteq Nat /\ lacking # {}
  BY <1>1
<1> HIDE DEF lacking
<1>3. PICK d \in lacking : \A k \in lacking : d <= k
  BY <1>2, Least
<1>4. PICK i \in set : d = One - p[i]
  BY <1>3 DEF lacking
<1>5. ASSUME NEW j \in set PROVE p[i] >= p[j]
  <2>1. One - p[i] <= One - p[j]
    BY <1>3, <1>4 DEF lacking
  <2> QED BY <1>1, <2>1
<1> QED BY <1>4, <1>5 DEF Likeliest

(* The reduction over threads ends at the first of all likeliest tokens:   *)
(* each is in some thread, of which it is the first.                       *)
LEMMA GreedyIs ==
  ASSUME NEW p \in Weights, NEW threads \in Nat \ {0}
  PROVE  Greedy(p, threads) = Min(Likeliest(p, Tokens(p)))
<1> DEFINE m == Min(Likeliest(p, Tokens(p)))
           mine(t) == Mine(p, threads, t)
           best(t) == Min(Likeliest(p, mine(t)))
           busy == {t \in 0 .. threads - 1 : mine(t) # {}}
           bests == {best(t) : t \in busy}
           First(i) == \A j \in bests \ {i} : Better(p, i, j)
<1>1. Tokens(p) \subseteq Nat /\ Tokens(p) # {} /\ \A i \in Tokens(p) : p[i] \in Nat
  BY WeightTypes DEF Tokens
<1>2. /\ m \in Tokens(p) /\ m \in Nat
      /\ \A j \in Tokens(p) : p[m] >= p[j]
      /\ \A j \in Tokens(p) : p[j] = p[m] => m <= j
  <2>1. Likeliest(p, Tokens(p)) # {} /\ Likeliest(p, Tokens(p)) \subseteq Tokens(p)
    BY <1>1, SomeLikeliest
  <2>2. m \in Likeliest(p, Tokens(p)) /\ \A k \in Likeliest(p, Tokens(p)) : m <= k
    BY <1>1, <2>1, LeastIn
  <2> HIDE DEF m
  <2>3. m \in Tokens(p) /\ \A j \in Tokens(p) : p[m] >= p[j]
    BY <2>2 DEF Likeliest
  <2>4. ASSUME NEW j \in Tokens(p), p[j] = p[m] PROVE m <= j
    <3>1. j \in Likeliest(p, Tokens(p))
      BY <2>3, <2>4 DEF Likeliest
    <3> QED BY <2>2, <3>1
  <2> QED BY <1>1, <2>3, <2>4
<1>3. \A t \in busy : /\ best(t) \in Likeliest(p, mine(t)) /\ best(t) \in Tokens(p)
                      /\ \A k \in Likeliest(p, mine(t)) : best(t) <= k
  <2> SUFFICES ASSUME NEW t \in busy
               PROVE  /\ best(t) \in Likeliest(p, mine(t)) /\ best(t) \in Tokens(p)
                      /\ \A k \in Likeliest(p, mine(t)) : best(t) <= k
    OBVIOUS
  <2>1. mine(t) # {} /\ mine(t) \subseteq Tokens(p)
    BY DEF Mine
  <2> HIDE DEF mine
  <2>2. Likeliest(p, mine(t)) # {} /\ Likeliest(p, mine(t)) \subseteq mine(t)
    BY <2>1, SomeLikeliest
  <2>3. Likeliest(p, mine(t)) \subseteq Nat
    BY <1>1, <2>1, <2>2
  <2>4. best(t) \in Likeliest(p, mine(t)) /\ \A k \in Likeliest(p, mine(t)) : best(t) <= k
    BY <2>2, <2>3, LeastIn
  <2> QED BY <2>1, <2>2, <2>4
<1> HIDE DEF m, best
<1>4. m \in bests
  <2> DEFINE t == m % threads
  <2>1. t \in 0 .. threads - 1
    BY <1>2
  <2>2. m \in mine(t)
    BY <1>2 DEF Mine
  <2>3. t \in busy
    BY <2>1, <2>2
  <2>4. mine(t) \subseteq Tokens(p)
    BY DEF Mine
  <2> HIDE DEF t, busy, mine
  <2>5. m \in Likeliest(p, mine(t))
    BY <1>2, <2>2, <2>4 DEF Likeliest
  <2>6. best(t) \in mine(t) /\ p[best(t)] >= p[m] /\ best(t) \in Tokens(p) /\ best(t) <= m
    BY <1>3, <2>2, <2>3, <2>5 DEF Likeliest
  <2>7. p[best(t)] = p[m]
    <3>1. p[m] >= p[best(t)] /\ p[m] \in Nat /\ p[best(t)] \in Nat
      BY <1>1, <1>2, <2>6
    <3> QED BY <2>6, <3>1
  <2>8. m <= best(t) /\ best(t) \in Nat
    BY <1>1, <1>2, <2>6, <2>7
  <2>9. m = best(t)
    BY <1>2, <2>6, <2>8
  <2> QED BY <2>3, <2>9
<1>5. bests \subseteq Tokens(p)
  <2> HIDE DEF busy
  <2> QED BY <1>3
<1>6. Greedy(p, threads) = CHOOSE i \in bests : First(i)
  BY DEF Greedy, best
<1> HIDE DEF bests
<1>7. First(m)
  <2> SUFFICES ASSUME NEW j \in bests \ {m} PROVE Better(p, m, j)
    OBVIOUS
  <2>1. j \in Tokens(p) /\ j # m /\ j \in Nat /\ p[j] \in Nat /\ p[m] \in Nat
    BY <1>1, <1>2, <1>5
  <2>2. p[m] >= p[j] /\ (p[j] = p[m] => m <= j)
    BY <1>2, <2>1
  <2> QED BY <1>2, <2>1, <2>2 DEF Better
<1>8. ASSUME NEW i \in bests, First(i) PROVE i = m
  <2> SUFFICES ASSUME i # m PROVE FALSE
    OBVIOUS
  <2>1. Better(p, i, m) /\ Better(p, m, i)
    BY <1>4, <1>7, <1>8
  <2>2. i \in Nat /\ m \in Nat /\ p[i] \in Nat /\ p[m] \in Nat
    BY <1>1, <1>2, <1>5
  <2> QED BY <2>1, <2>2 DEF Better
<1> HIDE DEF First
<1>9. (CHOOSE i \in bests : First(i)) = m
  BY <1>4, <1>7, <1>8
<1> QED BY <1>6, <1>9 DEF m

-----------------------------------------------------------------------------
SampleQuestions ==
  {[op |-> "sample", p |-> q.p, topK |-> q.topK, minP |-> q.minP, topP |-> q.topP] :
     q \in [p : Weights, topK : TopKs, minP : MinPs, topP : TopPs]}

(* The questions, and that there are no others.                            *)
LEMMA SampleTypes ==
  ASSUME asked \in SampleQuestions
  PROVE  /\ asked.p \in Weights /\ asked.topK \in Nat /\ asked.minP \in 0 .. One
         /\ asked.topP \in Nat
<1>1. PICK q \in [p : Weights, topK : TopKs, minP : MinPs, topP : TopPs] :
        asked = [op |-> "sample", p |-> q.p, topK |-> q.topK, minP |-> q.minP, topP |-> q.topP]
  BY DEF SampleQuestions
<1>2. q.p \in Weights /\ q.topK \in TopKs /\ q.minP \in MinPs /\ q.topP \in TopPs
  OBVIOUS
<1>3. asked.p = q.p /\ asked.topK = q.topK /\ asked.minP = q.minP /\ asked.topP = q.topP
  BY <1>1
<1> QED BY <1>2, <1>3, SamplerAssumption

LEMMA SampleAsked == SamplerSpec => [](asked = [op |-> "nothing"] \/ asked \in SampleQuestions)
<1> DEFINE I == asked = [op |-> "nothing"] \/ asked \in SampleQuestions
<1>1. Init => I
  BY DEF Init
<1>2. AskSample => I'
  <2> SUFFICES ASSUME NEW p \in Weights, NEW topK \in TopKs, NEW minP \in MinPs, NEW topP \in TopPs,
                      asked' = [op |-> "sample", p |-> p, topK |-> topK, minP |-> minP, topP |-> topP]
               PROVE  asked' \in SampleQuestions
    BY DEF AskSample
  <2> DEFINE q == [p |-> p, topK |-> topK, minP |-> minP, topP |-> topP]
  <2>1. q \in [p : Weights, topK : TopKs, minP : MinPs, topP : TopPs]
    OBVIOUS
  <2>2. asked' = [op |-> "sample", p |-> q.p, topK |-> q.topK, minP |-> q.minP, topP |-> q.topP]
    OBVIOUS
  <2> HIDE DEF q
  <2> QED BY <2>1, <2>2 DEF SampleQuestions
<1>3. I /\ UNCHANGED asked => I'
  OBVIOUS
<1> QED BY <1>1, <1>2, <1>3, PTL DEF SamplerSpec

(* Something always survives: the cuts stay at or below the largest weight.*)
LEMMA MassKept ==
  ASSUME NEW p \in Weights, NEW topK \in Nat, NEW minP \in 0 .. One, NEW topP \in Nat
  PROVE  Mass(p, Cut(p, topK, minP, topP)) > 0
<1> DEFINE cut == Cut(p, topK, minP, topP)
           kept == AtLeast(p, cut)
           first == FirstCut(p, topK, minP)
<1>1. first \in 0 .. One
  BY FirstCutIs
<1>2. cut <= One /\ cut \in Nat /\ One \in Nat \ {0}
  <2> HIDE DEF first
  <2>1. cut = TopPCut(p, first, topP)
    BY DEF Cut, first
  <2>2. CASE topP < 10
    BY <1>1, <2>1, <2>2, TopPCutIs, WeightTypes
  <2>3. CASE ~ (topP < 10)
    BY <1>1, <2>1, <2>3, WeightTypes DEF TopPCut
  <2> QED BY <2>2, <2>3
<1> HIDE DEF cut
<1>3. PICK i \in Tokens(p) : p[i] = One
  BY WeightTypes
<1>4. i \in kept /\ kept \subseteq Tokens(p)
  BY <1>2, <1>3 DEF AtLeast
<1> HIDE DEF kept
<1>5. /\ Reach(p, kept, i) = Reach(p, kept, i - 1) + p[i] * Resolution
      /\ i - 1 \in 0 .. Len(p) /\ i \in 0 .. Len(p) /\ Len(p) \in 0 .. Len(p)
  <2>1. i \in 0 .. Len(p) /\ Len(p) \in 0 .. Len(p)
    BY WeightTypes DEF Tokens
  <2> QED BY <1>4, <2>1, ReachIs
<1>6. /\ Reach(p, kept, i - 1) \in Nat /\ Reach(p, kept, i) <= MassOf(p, kept) * Resolution
      /\ Reach(p, kept, i) \in Nat
  <2>1. \A k \in 0 .. Len(p) : Reach(p, kept, k) \in Nat
    BY <1>4, ReachIs
  <2>2. Reach(p, kept, Len(p)) = MassOf(p, kept) * Resolution
    BY <1>4, ReachIs
  <2>3. \A j, k \in 0 .. Len(p) : j <= k => Reach(p, kept, j) <= Reach(p, kept, k)
    BY <1>4, ReachIs
  <2>4. Reach(p, kept, i) <= Reach(p, kept, Len(p))
    BY <1>5, <2>3
  <2> QED BY <1>5, <2>1, <2>2, <2>4
<1>7. Resolution \in Nat \ {0} /\ MassOf(p, kept) \in Nat
  BY SamplerAssumption, MassNat
<1>8. p[i] * Resolution > 0
  BY <1>2, <1>3, <1>7
<1>9. MassOf(p, kept) * Resolution > 0
  BY <1>2, <1>3, <1>5, <1>6, <1>7, <1>8
<1> QED BY <1>7, <1>9 DEF kept, cut, Mass

(* The draw of the sampler is fair, to within one value of the random      *)
(* number: for every vocabulary, every set of weights, every request and   *)
(* every resolution of the generator (DrawsInProportion).                  *)
THEOREM Fair == SamplerSpec => []DrawsInProportion
<1>1. asked = [op |-> "nothing"] => DrawsInProportion
  BY DEF DrawsInProportion, Is
<1>2. asked \in SampleQuestions => DrawsInProportion
  <2> SUFFICES ASSUME asked \in SampleQuestions PROVE DrawsInProportion
    OBVIOUS
  <2> DEFINE p == asked.p
             cut == Cut(p, asked.topK, asked.minP, asked.topP)
  <2>1. p \in Weights
    BY SampleTypes
  <2>2. Mass(p, cut) > 0
    BY <2>1, SampleTypes, MassKept
  <2> HIDE DEF p, cut
  <2>3. \A i \in Tokens(p) : InProportion(p, cut, i)
    BY <2>1, <2>2, DrawsCount
  <2>4. AtLeast(p, cut) \subseteq Tokens(p)
    BY DEF AtLeast
  <2>5. /\ \A i \in AtLeast(p, cut) :
             /\ Mass(p, cut) * Cardinality(Drawn(p, cut, i)) - p[i] * Resolution
                   \in -Mass(p, cut) .. Mass(p, cut)
             /\ p[i] = 0 => Drawn(p, cut, i) \subseteq {0}
        /\ \A i \in Tokens(p) \ AtLeast(p, cut) : Drawn(p, cut, i) = {}
    BY <2>3, <2>4 DEF InProportion
  <2> QED BY <2>5, Zenon DEF DrawsInProportion, p, cut, Mass, Drawn
<1> QED BY <1>1, <1>2, SampleAsked, PTL

(* Greedy decoding is the same for every launch shape, and takes the first *)
(* of the likeliest tokens (GreedyIsFirst).                                *)
THEOREM GreedyStable == SamplerSpec => []GreedyIsFirst
<1>1. asked = [op |-> "nothing"] => GreedyIsFirst
  BY DEF GreedyIsFirst, Is
<1>2. asked \in SampleQuestions => GreedyIsFirst
  <2> SUFFICES ASSUME asked \in SampleQuestions, NEW threads \in ThreadCounts
               PROVE  Greedy(asked.p, threads) = Min(Likeliest(asked.p, Tokens(asked.p)))
    BY DEF GreedyIsFirst
  <2>1. asked.p \in Weights
    BY SampleTypes
  <2>2. threads \in Nat \ {0}
    BY SamplerAssumption
  <2> QED BY <2>1, <2>2, GreedyIs
<1> QED BY <1>1, <1>2, SampleAsked, PTL

(* top_p keeps the smallest set of likeliest tokens that covers it, down   *)
(* to the resolution of its bisection (NucleusIsSmallest).                 *)
THEOREM Nucleus == SamplerSpec => []NucleusIsSmallest
<1>1. asked = [op |-> "nothing"] => NucleusIsSmallest
  BY DEF NucleusIsSmallest, Is
<1>2. asked \in SampleQuestions => NucleusIsSmallest
  <2> SUFFICES ASSUME asked \in SampleQuestions, asked.topP < 10 PROVE NucleusIsSmallest
    BY DEF NucleusIsSmallest
  <2> DEFINE p == asked.p
             topP == asked.topP
             first == FirstCut(p, asked.topK, asked.minP)
             cut == Cut(p, asked.topK, asked.minP, topP)
  <2>1. p \in Weights /\ topP \in Nat /\ topP < 10 /\ first \in 0 .. One
    BY SampleTypes, FirstCutIs
  <2>2. cut = TopPCut(p, first, topP)
    BY DEF Cut
  <2> HIDE DEF p, topP, first, cut
  <2>3. IF Covers(p, AtLeast(p, first), topP)
        THEN /\ AtLeast(p, cut) \subseteq AtLeast(p, first)
             /\ Covers(p, AtLeast(p, cut), topP)
             /\ \/ ~Covers(p, AtLeast(p, cut) \ Lightest(p, AtLeast(p, cut)), topP)
                \/ \A i \in AtLeast(p, cut) : p[i] >= One - 1
        ELSE AtLeast(p, cut) = AtLeast(p, first)
    BY <2>1, <2>2, NucleusIs
  <2> QED BY <2>3 DEF NucleusIsSmallest, p, topP, first, cut
<1> QED BY <1>1, <1>2, SampleAsked, PTL

-----------------------------------------------------------------------------
(* Totals over a context.                                                  *)
LEMMA TotalNat ==
  ASSUME NEW ctx \in Nat, NEW f, \A p \in 0 .. ctx - 1 : f[p] \in Nat
  PROVE  Total(f, ctx) \in Nat
<1> DEFINE g == [i \in 1 .. ctx |-> f[i - 1]]
<1>1. \A i \in 1 .. ctx : g[i] \in Nat
  OBVIOUS
<1> HIDE DEF g
<1>2. Sum(g, ctx) \in Nat
  BY <1>1, SumNat
<1> QED BY <1>2 DEF Total, g

LEMMA TotalAdd ==
  ASSUME NEW ctx \in Nat, NEW f, NEW h, NEW both,
         \A p \in 0 .. ctx - 1 : f[p] \in Nat /\ h[p] \in Nat /\ both[p] = f[p] + h[p]
  PROVE  Total(both, ctx) = Total(f, ctx) + Total(h, ctx)
<1> DEFINE x == [i \in 1 .. ctx |-> f[i - 1]]
           y == [i \in 1 .. ctx |-> h[i - 1]]
           z == [i \in 1 .. ctx |-> both[i - 1]]
<1>1. \A i \in 1 .. ctx : x[i] \in Int /\ y[i] \in Int /\ z[i] = x[i] + y[i]
  OBVIOUS
<1> HIDE DEF x, y, z
<1>2. Sum(z, ctx) = Sum(x, ctx) + Sum(y, ctx)
  BY <1>1, SumAdd
<1> QED BY <1>2 DEF Total, x, y, z

LEMMA TotalScale ==
  ASSUME NEW ctx \in Nat, NEW f, NEW h, NEW c \in Nat,
         \A p \in 0 .. ctx - 1 : f[p] \in Nat /\ h[p] = c * f[p]
  PROVE  Total(h, ctx) = c * Total(f, ctx)
<1> DEFINE x == [i \in 1 .. ctx |-> f[i - 1]]
           y == [i \in 1 .. ctx |-> h[i - 1]]
<1>1. \A i \in 1 .. ctx : x[i] \in Int /\ y[i] = c * x[i]
  <2> SUFFICES ASSUME NEW i \in 1 .. ctx PROVE x[i] \in Int /\ y[i] = c * x[i]
    OBVIOUS
  <2>1. i - 1 \in 0 .. ctx - 1 /\ x[i] = f[i - 1] /\ y[i] = h[i - 1]
    OBVIOUS
  <2> HIDE DEF x, y
  <2> QED BY <2>1
<1> HIDE DEF x, y
<1>2. Sum(y, ctx) = c * Sum(x, ctx)
  BY <1>1, SumScale
<1> QED BY <1>2 DEF Total, x, y

LEMMA TotalZero ==
  ASSUME NEW ctx \in Nat, NEW f, \A p \in 0 .. ctx - 1 : f[p] = 0
  PROVE  Total(f, ctx) = 0
<1> DEFINE g == [i \in 1 .. ctx |-> f[i - 1]]
<1>1. \A i \in 1 .. ctx : g[i] = 0
  OBVIOUS
<1> HIDE DEF g
<1>2. Sum(g, ctx) = 0
  BY <1>1, SumZero
<1> QED BY <1>2 DEF Total, g

LEMMA TotalSingle ==
  ASSUME NEW ctx \in Nat, NEW f, NEW p \in 0 .. ctx - 1, f[p] \in Nat,
         \A i \in 0 .. ctx - 1 : i # p => f[i] = 0
  PROVE  Total(f, ctx) = f[p]
<1> DEFINE g == [i \in 1 .. ctx |-> f[i - 1]]
<1>1. p + 1 \in 1 .. ctx /\ (p + 1) - 1 = p /\ \A i \in 1 .. ctx : i # p + 1 => i - 1 \in 0 .. ctx - 1 /\ i - 1 # p
  OBVIOUS
<1>2. g[p + 1] = f[p] /\ \A i \in 1 .. ctx : i # p + 1 => g[i] = 0
  BY <1>1
<1> HIDE DEF g
<1>3. Sum(g, ctx) = g[p + 1]
  BY <1>1, <1>2, SumSingle
<1> QED BY <1>2, <1>3 DEF Total, g

-----------------------------------------------------------------------------
(* Weights. That of score x is 2^(x - m), in units of 2^-Spread.           *)
Weight(m, x) == Pow2(Spread - (m - x))

(* exp of what is too small is 0, as is exp times 0.                       *)
LEMMA ExpOfNone ==
  ASSUME NEW d \in Int, d <= 0
  PROVE  TimesExp(0, d) = 0
<1>1. CASE d < -Spread
  BY <1>1 DEF TimesExp
<1>2. CASE ~ (d < -Spread)
  <2> DEFINE x == Pow2(-d)
  <2>1. x \in Nat \ {0}
    BY PowerIs
  <2>2. TimesExp(0, d) = 0 \div x
    BY <1>2 DEF TimesExp
  <2> HIDE DEF x
  <2>3. x * 0 + 0 = 0
    BY <2>1
  <2>4. 0 \div x = 0
    BY <2>1, <2>3, DivUnique
  <2> QED BY <2>2, <2>4
<1> QED BY <1>1, <1>2

(* Scaling is exact on multiples of the power it divides by.               *)
LEMMA ExpDivides ==
  ASSUME NEW k \in 0 .. Spread, NEW w \in Nat
  PROVE  TimesExp(Pow2(k) * w, -k) = w
<1>0. Spread \in Nat
  BY SoftmaxAssumption
<1>1. -(-k) = k /\ k \in Nat /\ ~ (-k < -Spread)
  BY <1>0
<1> DEFINE x == Pow2(k)
<1>2. x \in Nat \ {0}
  BY <1>1, PowerIs
<1>3. TimesExp(x * w, -k) = (x * w) \div x
  BY <1>1 DEF TimesExp
<1> HIDE DEF x
<1>4. x * w + 0 = x * w
  BY <1>2
<1>5. (x * w) \div x = w
  BY <1>2, <1>4, DivUnique
<1> QED BY <1>3, <1>5 DEF x

(* Weights by a larger maximum are smaller by that power.                  *)
LEMMA WeightIs ==
  ASSUME NEW m \in 0 .. Spread, NEW x \in 0 .. m, NEW top \in m .. Spread
  PROVE  /\ Weight(m, x) \in Nat \ {0} /\ Weight(top, x) \in Nat \ {0}
         /\ Weight(m, x) = Pow2(top - m) * Weight(top, x)
<1>0. Spread \in Nat
  BY SoftmaxAssumption
<1> DEFINE a == top - m
           b == Spread - (top - x)
<1>1. a \in Nat /\ b \in Nat /\ a + b = Spread - (m - x) /\ Spread - (m - x) \in Nat
  BY <1>0
<1> HIDE DEF a, b
<1>2. Pow2(a + b) = Pow2(a) * Pow2(b)
  BY <1>1, PowerAdds
<1>3. Pow2(b) \in Nat \ {0} /\ Pow2(a + b) \in Nat \ {0}
  BY <1>1, PowerIs
<1> QED BY <1>1, <1>2, <1>3 DEF Weight, a, b

-----------------------------------------------------------------------------
(* The softmax over a set P of positions: the largest of their scores,     *)
(* their weights by it, and the sum of these.                              *)
IsSoftmax(st, s, P, ctx) ==
  /\ st.acc \in [0 .. ctx - 1 -> Nat]
  /\ st.l = Total(st.acc, ctx)
  /\ P = {} => st.m = -FLT_MAX
  /\ P # {} => /\ st.m \in 0 .. Spread
               /\ \E p \in P : st.m = s[p]
               /\ \A p \in P : s[p] <= st.m
  /\ \A p \in 0 .. ctx - 1 : st.acc[p] = IF p \in P THEN Weight(st.m, s[p]) ELSE 0

ScoresOf(ctx) == [0 .. ctx - 1 -> 0 .. Spread]

(* What becomes of it when the maximum is to be m.                         *)
Scaled(st, m, ctx) == [p \in 0 .. ctx - 1 |-> TimesExp(st.acc[p], st.m - m)]

IsScaled(st, m, s, P, ctx) ==
  /\ \A p \in 0 .. ctx - 1 :
       /\ Scaled(st, m, ctx)[p] \in Nat
       /\ Scaled(st, m, ctx)[p] = IF p \in P THEN Weight(m, s[p]) ELSE 0
  /\ TimesExp(st.l, st.m - m) = Total(Scaled(st, m, ctx), ctx)

(* Weights are brought to a new maximum exactly, and so is their sum.      *)
LEMMA Rescaled ==
  ASSUME NEW ctx \in Nat, NEW s \in ScoresOf(ctx), NEW P, P \subseteq 0 .. ctx - 1,
         NEW st, IsSoftmax(st, s, P, ctx),
         NEW m \in Int, st.m <= m, m <= Spread
  PROVE  IsScaled(st, m, s, P, ctx)
<1>0. Spread \in Nat
  BY SoftmaxAssumption
<1> DEFINE acc == Scaled(st, m, ctx)
<1>00. \A p \in 0 .. ctx - 1 : acc[p] = TimesExp(st.acc[p], st.m - m)
  BY DEF Scaled
<1> SUFFICES /\ \A p \in 0 .. ctx - 1 :
                  acc[p] \in Nat /\ acc[p] = IF p \in P THEN Weight(m, s[p]) ELSE 0
             /\ TimesExp(st.l, st.m - m) = Total(acc, ctx)
  BY DEF IsScaled
<1> HIDE DEF acc
<1>1. CASE P = {}
  <2>1. st.m = -FLT_MAX /\ \A p \in 0 .. ctx - 1 : st.acc[p] = 0
    BY <1>1 DEF IsSoftmax
  <2>2. st.m - m \in Int /\ st.m - m <= 0
    BY <1>0, <2>1 DEF FLT_MAX
  <2>3. TimesExp(0, st.m - m) = 0
    BY <2>2, ExpOfNone
  <2>4. \A p \in 0 .. ctx - 1 : acc[p] = 0
    BY <1>00, <2>1, <2>3
  <2>5. st.l = 0
    BY <2>1, TotalZero DEF IsSoftmax
  <2>6. Total(acc, ctx) = 0
    BY <2>4, TotalZero
  <2> QED BY <1>1, <2>3, <2>4, <2>5, <2>6
<1>2. CASE P # {}
  <2>1. st.m \in 0 .. Spread /\ m \in st.m .. Spread /\ m \in Nat
    BY <1>0, <1>2 DEF IsSoftmax
  <2> DEFINE k == m - st.m
  <2>2. k \in 0 .. Spread /\ st.m - m = -k
    BY <1>0, <2>1
  <2>3. k \in Nat /\ Pow2(k) \in Nat \ {0}
    BY <1>0, <2>2, PowerIs
  <2> HIDE DEF k
  <2>4. ASSUME NEW p \in 0 .. ctx - 1
        PROVE  /\ acc[p] \in Nat
               /\ acc[p] = IF p \in P THEN Weight(m, s[p]) ELSE 0
               /\ st.acc[p] = Pow2(k) * acc[p]
    <3>1. CASE p \in P
      <4>1. s[p] \in 0 .. st.m
        <5>1. s[p] \in 0 .. Spread /\ s[p] <= st.m
          BY <1>0, <3>1, <1>2 DEF IsSoftmax, ScoresOf
        <5> QED BY <5>1, <1>0, <2>1
      <4> DEFINE w == Weight(m, s[p])
      <4>2. w \in Nat /\ Weight(st.m, s[p]) = Pow2(k) * w
        BY <2>1, <4>1, WeightIs DEF k
      <4>3. st.acc[p] = Weight(st.m, s[p])
        BY <3>1 DEF IsSoftmax
      <4> HIDE DEF w
      <4>4. TimesExp(Pow2(k) * w, -k) = w
        BY <2>2, <4>2, ExpDivides
      <4>5. acc[p] = w
        BY <1>00, <2>2, <4>2, <4>3, <4>4
      <4> QED BY <3>1, <4>2, <4>3, <4>5 DEF w
    <3>2. CASE p \notin P
      <4>1. st.acc[p] = 0
        BY <3>2 DEF IsSoftmax
      <4>2. -k \in Int /\ -k <= 0
        BY <2>3
      <4>3. acc[p] = 0
        BY <1>00, <2>2, <4>1, <4>2, ExpOfNone
      <4>4. Pow2(k) * 0 = 0
        BY <2>3
      <4> QED BY <3>2, <4>1, <4>3, <4>4
    <3> QED BY <3>1, <3>2
  <2>5. Total(st.acc, ctx) = Pow2(k) * Total(acc, ctx)
    BY <2>3, <2>4, TotalScale
  <2>6. Total(acc, ctx) \in Nat
    BY <2>4, TotalNat
  <2>7. TimesExp(Pow2(k) * Total(acc, ctx), -k) = Total(acc, ctx)
    BY <2>2, <2>6, ExpDivides
  <2>8. TimesExp(st.l, st.m - m) = Total(acc, ctx)
    BY <2>2, <2>5, <2>7 DEF IsSoftmax
  <2> QED BY <2>4, <2>8
<1> QED BY <1>1, <1>2

(* Such a state is made of numbers.                                        *)
LEMMA SoftmaxTypes ==
  ASSUME NEW ctx \in Nat, NEW s, NEW P, NEW st, IsSoftmax(st, s, P, ctx)
  PROVE  st.m \in Int /\ -FLT_MAX <= st.m /\ st.m <= Spread /\ st.l \in Nat
<1>0. Spread \in Nat
  BY SoftmaxAssumption
<1>1. st.m \in Int /\ -FLT_MAX <= st.m /\ st.m <= Spread
  BY <1>0 DEF IsSoftmax, FLT_MAX
<1>2. \A p \in 0 .. ctx - 1 : st.acc[p] \in Nat
  BY DEF IsSoftmax
<1>3. Total(st.acc, ctx) \in Nat
  BY <1>2, TotalNat
<1> QED BY <1>1, <1>3 DEF IsSoftmax

(* Two softmaxes over different positions make one over both sets.         *)
IsMerge(c, a, b, ctx) ==
  /\ c.m = Max({a.m, b.m})
  /\ c.l = TimesExp(a.l, a.m - c.m) + TimesExp(b.l, b.m - c.m)
  /\ c.acc = [p \in 0 .. ctx - 1 |->
               TimesExp(a.acc[p], a.m - c.m) + TimesExp(b.acc[p], b.m - c.m)]

LEMMA MergeIs ==
  ASSUME NEW ctx \in Nat, NEW s \in ScoresOf(ctx),
         NEW P, P \subseteq 0 .. ctx - 1, NEW R, R \subseteq 0 .. ctx - 1, P \cap R = {},
         NEW a, IsSoftmax(a, s, P, ctx), NEW b, IsSoftmax(b, s, R, ctx),
         NEW c, IsMerge(c, a, b, ctx)
  PROVE  IsSoftmax(c, s, P \cup R, ctx)
<1>0. Spread \in Nat
  BY SoftmaxAssumption
<1>1. /\ a.m \in Int /\ -FLT_MAX <= a.m /\ a.m <= Spread
      /\ b.m \in Int /\ -FLT_MAX <= b.m /\ b.m <= Spread
  BY SoftmaxTypes
<1>2. c.m = IF a.m <= b.m THEN b.m ELSE a.m
  BY <1>1, Max2 DEF IsMerge
<1>3. c.m \in Int /\ a.m <= c.m /\ b.m <= c.m /\ c.m <= Spread
  BY <1>1, <1>2
<1> DEFINE x == Scaled(a, c.m, ctx)
           y == Scaled(b, c.m, ctx)
<1>4. /\ \A p \in 0 .. ctx - 1 : c.acc[p] = x[p] + y[p]
      /\ c.acc = [p \in 0 .. ctx - 1 |-> x[p] + y[p]]
  BY DEF Scaled, IsMerge
<1> DEFINE m == c.m
<1>50. m \in Int /\ a.m <= m /\ b.m <= m /\ m <= Spread
  BY <1>3
<1> HIDE DEF m
<1>51. IsScaled(a, m, s, P, ctx) /\ IsScaled(b, m, s, R, ctx)
  BY <1>50, Rescaled
<1>5. /\ \A p \in 0 .. ctx - 1 : x[p] \in Nat /\ x[p] = IF p \in P THEN Weight(c.m, s[p]) ELSE 0
      /\ TimesExp(a.l, a.m - c.m) = Total(x, ctx)
  BY <1>51 DEF m, IsScaled
<1>6. /\ \A p \in 0 .. ctx - 1 : y[p] \in Nat /\ y[p] = IF p \in R THEN Weight(c.m, s[p]) ELSE 0
      /\ TimesExp(b.l, b.m - c.m) = Total(y, ctx)
  BY <1>51 DEF m, IsScaled
<1> HIDE DEF x, y
<1>7. Total(c.acc, ctx) = Total(x, ctx) + Total(y, ctx)
  BY <1>4, <1>5, <1>6, TotalAdd
<1>8. c.acc \in [0 .. ctx - 1 -> Nat]
  <2>1. \A p \in 0 .. ctx - 1 : x[p] + y[p] \in Nat
    BY <1>5, <1>6
  <2> QED BY <1>4, <2>1
<1>9. ASSUME NEW p \in 0 .. ctx - 1
      PROVE  c.acc[p] = IF p \in P \cup R THEN Weight(c.m, s[p]) ELSE 0
  <2>1. c.acc[p] = x[p] + y[p] /\ x[p] \in Nat /\ y[p] \in Nat
    BY <1>4, <1>5, <1>6
  <2>2. /\ x[p] = IF p \in P THEN Weight(c.m, s[p]) ELSE 0
        /\ y[p] = IF p \in R THEN Weight(c.m, s[p]) ELSE 0
    BY <1>5, <1>6
  <2>3. CASE p \in P
    <3>1. p \notin R
      BY <2>3
    <3> QED BY <2>1, <2>2, <2>3, <3>1
  <2>4. CASE p \notin P
    BY <2>1, <2>2, <2>4
  <2> QED BY <2>3, <2>4
<1>10. P \cup R = {} => c.m = -FLT_MAX
  <2> SUFFICES ASSUME P \cup R = {} PROVE c.m = -FLT_MAX
    OBVIOUS
  <2>1. P = {} /\ R = {}
    OBVIOUS
  <2> QED BY <1>2, <2>1 DEF IsSoftmax
<1>11. P \cup R # {} => /\ c.m \in 0 .. Spread
                        /\ \E p \in P \cup R : c.m = s[p]
                        /\ \A p \in P \cup R : s[p] <= c.m
  <2> SUFFICES ASSUME P \cup R # {}
               PROVE  /\ c.m \in 0 .. Spread
                      /\ \E p \in P \cup R : c.m = s[p]
                      /\ \A p \in P \cup R : s[p] <= c.m
    OBVIOUS
  <2>1. \A p \in P : s[p] <= a.m /\ s[p] \in Int
    BY <1>0 DEF IsSoftmax, ScoresOf
  <2>2. \A p \in R : s[p] <= b.m /\ s[p] \in Int
    BY <1>0 DEF IsSoftmax, ScoresOf
  <2>3. \A p \in P \cup R : s[p] <= c.m
    BY <1>1, <1>3, <2>1, <2>2
  <2>4. /\ P = {} => a.m = -FLT_MAX
        /\ P # {} => a.m \in 0 .. Spread
        /\ P # {} => \E p \in P : a.m = s[p]
    <3>1. P = {} => a.m = -FLT_MAX
      BY Zenon DEF IsSoftmax
    <3>2. P # {} => a.m \in 0 .. Spread
      BY Zenon DEF IsSoftmax
    <3>3. P # {} => \E p \in P : a.m = s[p]
      BY Zenon DEF IsSoftmax
    <3> QED BY <3>1, <3>2, <3>3
  <2>5. /\ R = {} => b.m = -FLT_MAX
        /\ R # {} => b.m \in 0 .. Spread
        /\ R # {} => \E p \in R : b.m = s[p]
    <3>1. R = {} => b.m = -FLT_MAX
      BY Zenon DEF IsSoftmax
    <3>2. R # {} => b.m \in 0 .. Spread
      BY Zenon DEF IsSoftmax
    <3>3. R # {} => \E p \in R : b.m = s[p]
      BY Zenon DEF IsSoftmax
    <3> QED BY <3>1, <3>2, <3>3
  <2>6. -FLT_MAX < 0 /\ -FLT_MAX \in Int
    BY <1>0 DEF FLT_MAX
  <2>7. c.m \in 0 .. Spread /\ \E p \in P \cup R : c.m = s[p]
    <3>1. CASE a.m <= b.m
      <4>1. c.m = b.m /\ R # {}
        BY <1>0, <1>2, <2>4, <2>5, <2>6, <3>1
      <4> QED BY <2>5, <4>1
    <3>2. CASE ~ (a.m <= b.m)
      <4>1. c.m = a.m /\ P # {}
        BY <1>0, <1>1, <1>2, <2>4, <2>5, <2>6, <3>2
      <4> QED BY <2>4, <4>1
    <3> QED BY <3>1, <3>2
  <2> QED BY <2>3, <2>7
<1>12. c.l = Total(c.acc, ctx)
  BY <1>5, <1>6, <1>7 DEF IsMerge
<1> QED BY <1>8, <1>9, <1>10, <1>11, <1>12 DEF IsSoftmax

(* Of the largest of scores, and of none.                                  *)
LEMMA LargestScore ==
  ASSUME NEW ctx \in Nat, NEW s \in ScoresOf(ctx), NEW P, P \subseteq 0 .. ctx - 1, P # {}
  PROVE  \E p \in P : \A q \in P : s[q] <= s[p]
<1>0. Spread \in Nat
  BY SoftmaxAssumption
<1> DEFINE S == {s[p] : p \in P}
<1>1. S \subseteq 0 .. Spread /\ S # {}
  BY DEF ScoresOf
<1>2. \A q \in P : s[q] \in S
  OBVIOUS
<1>3. \A k \in S : \E p \in P : k = s[p]
  OBVIOUS
<1> HIDE DEF S
<1>4. Max(S) \in S /\ \A k \in S : k <= Max(S)
  BY <1>0, <1>1, GreatestIn
<1> QED BY <1>2, <1>3, <1>4

(* So do n of them, which may be over no position, by the largest of all.  *)
LEMMA CombinedIs ==
  ASSUME NEW ctx \in Nat, NEW s \in ScoresOf(ctx), NEW n \in Nat, NEW parts, NEW P,
         \A w \in 1 .. n : P[w] \subseteq 0 .. ctx - 1 /\ IsSoftmax(parts[w], s, P[w], ctx),
         \A v, w \in 1 .. n : v # w => P[v] \cap P[w] = {}
  PROVE  IsSoftmax(Combined(parts, n, ctx), s, UNION {P[w] : w \in 1 .. n}, ctx)
<1>0. Spread \in Nat
  BY SoftmaxAssumption
<1> DEFINE all == UNION {P[w] : w \in 1 .. n}
           top == {-FLT_MAX} \cup {parts[w].m : w \in 1 .. n}
           mm == Max(top)
           c == Combined(parts, n, ctx)
<1>1. all \subseteq 0 .. ctx - 1
  OBVIOUS
<1>2. \A p : p \in all <=> \E w \in 1 .. n : p \in P[w]
  OBVIOUS
<1>3. \A w \in 1 .. n : parts[w].m \in Int /\ -FLT_MAX <= parts[w].m /\ parts[w].m <= Spread
  <2> SUFFICES ASSUME NEW w \in 1 .. n
               PROVE  parts[w].m \in Int /\ -FLT_MAX <= parts[w].m /\ parts[w].m <= Spread
    OBVIOUS
  <2>1. IsSoftmax(parts[w], s, P[w], ctx)
    OBVIOUS
  <2> QED BY <2>1, SoftmaxTypes
<1>4. -FLT_MAX \in Int /\ -FLT_MAX < 0
  BY <1>0 DEF FLT_MAX
<1>5. top \subseteq Int /\ \A w \in 1 .. n : parts[w].m \in top
  BY <1>3, <1>4
<1>6. \A w \in 1 .. n : /\ P[w] = {} => parts[w].m = -FLT_MAX
                        /\ P[w] # {} => \E p \in P[w] : parts[w].m = s[p]
                        /\ \A p \in P[w] : s[p] <= parts[w].m
  <2> SUFFICES ASSUME NEW w \in 1 .. n
               PROVE  /\ P[w] = {} => parts[w].m = -FLT_MAX
                      /\ P[w] # {} => \E p \in P[w] : parts[w].m = s[p]
                      /\ \A p \in P[w] : s[p] <= parts[w].m
    OBVIOUS
  <2>1. IsSoftmax(parts[w], s, P[w], ctx)
    OBVIOUS
  <2> DEFINE Q == P[w]
             st == parts[w]
  <2>2. IsSoftmax(st, s, Q, ctx)
    BY <2>1
  <2> HIDE DEF Q, st
  <2>3. Q = {} => st.m = -FLT_MAX
    BY <2>2, Zenon DEF IsSoftmax
  <2>4. Q # {} => \E p \in Q : st.m = s[p]
    BY <2>2, Zenon DEF IsSoftmax
  <2>5. \A p \in Q : s[p] <= st.m
    BY <2>2, Zenon DEF IsSoftmax
  <2> QED BY <2>3, <2>4, <2>5 DEF Q, st
<1>7. /\ all = {} => mm = -FLT_MAX
      /\ all # {} => mm \in 0 .. Spread /\ (\E p \in all : mm = s[p]) /\ \A p \in all : s[p] <= mm
  <2>1. CASE all = {}
    <3>1. \A w \in 1 .. n : P[w] = {}
      BY <2>1
    <3>2. \A k \in top : k <= -FLT_MAX
      BY <1>4, <1>6, <3>1
    <3>3. -FLT_MAX \in top
      OBVIOUS
    <3> HIDE DEF top, all
    <3>4. Max(top) = -FLT_MAX
      BY <1>5, <3>2, <3>3, MaxOf
    <3> QED BY <2>1, <3>4
  <2>2. CASE all # {}
    <3>1. PICK p \in all : \A q \in all : s[q] <= s[p]
      <4> HIDE DEF all
      <4> QED BY <1>1, <2>2, LargestScore
    <3>2. s[p] \in 0 .. Spread
      BY <1>1 DEF ScoresOf
    <3>3. \A w \in 1 .. n : parts[w].m <= s[p]
      <4> SUFFICES ASSUME NEW w \in 1 .. n PROVE parts[w].m <= s[p]
        OBVIOUS
      <4>1. CASE P[w] = {}
        <5>1. parts[w].m = -FLT_MAX
          BY <1>6, <4>1
        <5> QED BY <1>0, <1>4, <3>2, <5>1
      <4>2. CASE P[w] # {}
        <5>1. PICK q \in P[w] : parts[w].m = s[q]
          BY <1>6, <4>2
        <5>2. q \in all
          OBVIOUS
        <5> QED BY <3>1, <5>1, <5>2
      <4> QED BY <4>1, <4>2
    <3>4. PICK w \in 1 .. n : p \in P[w]
      BY <1>2
    <3>5. parts[w].m = s[p]
      <4>1. s[p] <= parts[w].m /\ parts[w].m <= s[p] /\ parts[w].m \in Int
        BY <1>3, <1>6, <3>3, <3>4
      <4> QED BY <1>0, <3>2, <4>1
    <3>6. s[p] \in top /\ \A k \in top : k <= s[p]
      BY <1>0, <1>4, <3>2, <3>3, <3>5
    <3> HIDE DEF top, all
    <3>7. Max(top) = s[p]
      BY <1>5, <3>6, MaxOf
    <3> QED BY <2>2, <3>1, <3>2, <3>7
  <2> QED BY <2>1, <2>2
<1>8. mm \in Int /\ mm <= Spread /\ \A w \in 1 .. n : parts[w].m <= mm
  <2>1. mm \in Int /\ mm <= Spread
    BY <1>0, <1>4, <1>7 DEF FLT_MAX
  <2>2. ASSUME NEW w \in 1 .. n PROVE parts[w].m <= mm
    <3>1. CASE P[w] = {}
      <4>1. parts[w].m = -FLT_MAX
        BY <1>6, <3>1
      <4> QED BY <1>0, <1>4, <1>7, <4>1
    <3>2. CASE P[w] # {}
      <4>1. PICK q \in P[w] : parts[w].m = s[q]
        BY <1>6, <3>2
      <4>2. q \in all
        OBVIOUS
      <4> QED BY <1>7, <4>1, <4>2
    <3> QED BY <3>1, <3>2
  <2> QED BY <2>1, <2>2
<1>9. /\ c.m = mm
      /\ c.l = Sum([w \in 1 .. n |-> TimesExp(parts[w].l, parts[w].m - mm)], n)
      /\ c.acc = [p \in 0 .. ctx - 1 |->
                   Sum([w \in 1 .. n |-> TimesExp(parts[w].acc[p], parts[w].m - mm)], n)]
  BY DEF Combined
<1> HIDE DEF c, mm, top
<1> DEFINE x == [w \in 1 .. n |-> Scaled(parts[w], mm, ctx)]
<1>10. \A w \in 1 .. n : IsScaled(parts[w], mm, s, P[w], ctx)
  <2> SUFFICES ASSUME NEW w \in 1 .. n PROVE IsScaled(parts[w], mm, s, P[w], ctx)
    OBVIOUS
  <2>1. IsSoftmax(parts[w], s, P[w], ctx) /\ P[w] \subseteq 0 .. ctx - 1 /\ parts[w].m <= mm
    BY <1>8
  <2> QED BY <1>8, <2>1, Rescaled
<1>11. ASSUME NEW w \in 1 .. n
       PROVE  /\ x[w] = Scaled(parts[w], mm, ctx)
              /\ TimesExp(parts[w].l, parts[w].m - mm) = Total(x[w], ctx)
              /\ \A p \in 0 .. ctx - 1 :
                   /\ x[w][p] \in Nat /\ x[w][p] = IF p \in P[w] THEN Weight(mm, s[p]) ELSE 0
                   /\ x[w][p] = TimesExp(parts[w].acc[p], parts[w].m - mm)
  <2>1. x[w] = Scaled(parts[w], mm, ctx)
    OBVIOUS
  <2>2. \A p \in 0 .. ctx - 1 : Scaled(parts[w], mm, ctx)[p] = TimesExp(parts[w].acc[p], parts[w].m - mm)
    BY DEF Scaled
  <2>3. /\ TimesExp(parts[w].l, parts[w].m - mm) = Total(Scaled(parts[w], mm, ctx), ctx)
        /\ \A p \in 0 .. ctx - 1 :
             /\ Scaled(parts[w], mm, ctx)[p] \in Nat
             /\ Scaled(parts[w], mm, ctx)[p] = IF p \in P[w] THEN Weight(mm, s[p]) ELSE 0
    BY <1>10 DEF IsScaled
  <2> HIDE DEF x
  <2> QED BY <2>1, <2>2, <2>3
<1> HIDE DEF x
<1>12. \A p \in 0 .. ctx - 1 : c.acc[p] = Sum([w \in 1 .. n |-> x[w][p]], n)
  <2> SUFFICES ASSUME NEW p \in 0 .. ctx - 1
               PROVE  c.acc[p] = Sum([w \in 1 .. n |-> x[w][p]], n)
    OBVIOUS
  <2>1. [w \in 1 .. n |-> TimesExp(parts[w].acc[p], parts[w].m - mm)] = [w \in 1 .. n |-> x[w][p]]
    BY <1>11
  <2> QED BY <1>9, <2>1
<1>13. ASSUME NEW p \in 0 .. ctx - 1
       PROVE  c.acc[p] \in Nat /\ c.acc[p] = IF p \in all THEN Weight(mm, s[p]) ELSE 0
  <2> DEFINE f == [w \in 1 .. n |-> x[w][p]]
  <2>0. c.acc[p] = Sum(f, n)
    BY <1>12
  <2>1. \A w \in 1 .. n : f[w] \in Nat /\ f[w] = IF p \in P[w] THEN Weight(mm, s[p]) ELSE 0
    BY <1>11
  <2>2. CASE p \in all
    <3>1. PICK w \in 1 .. n : p \in P[w]
      BY <2>2
    <3>2. \A v \in 1 .. n : v # w => p \notin P[v]
      BY <3>1
    <3> HIDE DEF f
    <3>3. \A v \in 1 .. n : v # w => f[v] = 0
      BY <2>1, <3>2
    <3>4. f[w] \in Int
      BY <2>1
    <3>5. Sum(f, n) = f[w]
      BY <3>3, <3>4, SumSingle
    <3> QED BY <2>0, <2>1, <2>2, <3>1, <3>5
  <2>3. CASE p \notin all
    <3>1. \A w \in 1 .. n : p \notin P[w]
      BY <2>3
    <3> HIDE DEF f
    <3>2. \A w \in 1 .. n : f[w] = 0
      BY <2>1, <3>1
    <3>3. Sum(f, n) = 0
      BY <3>2, SumZero
    <3> QED BY <2>0, <2>3, <3>3
  <2> QED BY <2>2, <2>3
<1>14. c.acc \in [0 .. ctx - 1 -> Nat]
  <2> HIDE DEF all
  <2>1. DOMAIN c.acc = 0 .. ctx - 1 /\ c.acc = [p \in DOMAIN c.acc |-> c.acc[p]]
    BY <1>9
  <2> QED BY <1>13, <2>1
<1>15. c.l = Total(c.acc, ctx)
  <2> DEFINE f == [w \in 1 .. n |-> [i \in 1 .. ctx |-> x[w][i - 1]]]
             rows == [w \in 1 .. n |-> TimesExp(parts[w].l, parts[w].m - mm)]
             columns == [i \in 1 .. ctx |-> c.acc[i - 1]]
  <2>1. \A w \in 1 .. n : \A i \in 1 .. ctx : f[w][i] \in Int
    <3>1. \A i \in 1 .. ctx : i - 1 \in 0 .. ctx - 1
      OBVIOUS
    <3> QED BY <1>11, <3>1
  <2>2. \A w \in 1 .. n : rows[w] = Sum(f[w], ctx)
    BY <1>11 DEF Total
  <2>3. \A i \in 1 .. ctx : columns[i] = Sum([w \in 1 .. n |-> f[w][i]], n)
    <3> SUFFICES ASSUME NEW i \in 1 .. ctx
                 PROVE  columns[i] = Sum([w \in 1 .. n |-> f[w][i]], n)
      OBVIOUS
    <3>1. i - 1 \in 0 .. ctx - 1
      OBVIOUS
    <3>2. [w \in 1 .. n |-> f[w][i]] = [w \in 1 .. n |-> x[w][i - 1]]
      OBVIOUS
    <3> QED BY <1>12, <3>1, <3>2
  <2>4. c.l = Sum(rows, n) /\ Total(c.acc, ctx) = Sum(columns, ctx)
    BY <1>9 DEF Total
  <2> HIDE DEF f, rows, columns
  <2>5. Sum(rows, n) = Sum(columns, ctx)
    <3>1. IsTable(f, n, ctx, rows, columns)
      BY <2>1, <2>2, <2>3, Zenon DEF IsTable
    <3> QED BY <3>1, SumSwap
  <2> QED BY <2>4, <2>5
<1> HIDE DEF all
<1>16. IsSoftmax(c, s, all, ctx)
  BY <1>7, <1>9, <1>13, <1>14, <1>15 DEF IsSoftmax
<1> QED BY <1>16 DEF all, c

(* One position more, not seen yet.                                        *)
LEMMA AttendIs ==
  ASSUME NEW ctx \in Nat, NEW s \in ScoresOf(ctx), NEW P, P \subseteq 0 .. ctx - 1,
         NEW st, IsSoftmax(st, s, P, ctx), NEW p \in 0 .. ctx - 1, p \notin P
  PROVE  IsSoftmax(Attend(st, p, s[p]), s, P \cup {p}, ctx)
<1> DEFINE acc == [i \in 0 .. ctx - 1 |-> IF i = p THEN Unit ELSE 0]
           b == [m |-> s[p], l |-> Unit, acc |-> acc]
           c == Attend(st, p, s[p])
<1>0. Spread \in Nat /\ s[p] \in 0 .. Spread
  BY SoftmaxAssumption DEF ScoresOf
<1>1. Unit \in Nat \ {0} /\ Weight(s[p], s[p]) = Unit
  <2>1. Spread - (s[p] - s[p]) = Spread
    BY <1>0
  <2> QED BY <1>0, <2>1, PowerIs DEF Weight, Unit
<1>2. /\ acc \in [0 .. ctx - 1 -> Nat] /\ acc[p] = Unit
      /\ \A i \in 0 .. ctx - 1 : i # p => acc[i] = 0
  BY <1>1
<1>3. b.m = s[p] /\ b.l = Unit /\ b.acc = acc
  OBVIOUS
<1> HIDE DEF acc, b
<1>4. Total(acc, ctx) = Unit
  BY <1>1, <1>2, TotalSingle
<1> DEFINE R == {p}
<1>5. IsSoftmax(b, s, R, ctx)
  <2>1. /\ b.m \in 0 .. Spread /\ (\E q \in R : b.m = s[q]) /\ \A q \in R : s[q] <= b.m
    BY <1>0, <1>3
  <2>2. \A i \in 0 .. ctx - 1 : b.acc[i] = IF i \in R THEN Weight(b.m, s[i]) ELSE 0
    BY <1>1, <1>2, <1>3
  <2>3. R # {} /\ b.acc \in [0 .. ctx - 1 -> Nat] /\ b.l = Total(b.acc, ctx)
    BY <1>2, <1>3, <1>4
  <2> HIDE DEF R
  <2> QED BY <2>1, <2>2, <2>3 DEF IsSoftmax
<1>6. R \subseteq 0 .. ctx - 1 /\ P \cap R = {} /\ P \cup R = P \cup {p}
  OBVIOUS
<1> HIDE DEF R
<1>7. /\ c.m = Max({st.m, b.m})
      /\ c.l = TimesExp(st.l, st.m - c.m) + TimesExp(b.l, b.m - c.m)
  BY <1>3 DEF Attend
<1>8. c.acc = [i \in 0 .. ctx - 1 |-> TimesExp(st.acc[i], st.m - c.m) + TimesExp(b.acc[i], b.m - c.m)]
  <2>1. c.m \in Int /\ b.m - c.m \in Int /\ b.m - c.m <= 0
    <3>1. st.m \in Int /\ b.m \in Int
      BY <1>0, <1>3, SoftmaxTypes
    <3>2. c.m = IF st.m <= b.m THEN b.m ELSE st.m
      BY <1>7, <3>1, Max2
    <3> QED BY <3>1, <3>2
  <2>2. TimesExp(0, b.m - c.m) = 0
    BY <2>1, ExpOfNone
  <2>3. DOMAIN st.acc = 0 .. ctx - 1
    BY DEF IsSoftmax
  <2>4. c.acc = [i \in 0 .. ctx - 1 |->
                  TimesExp(st.acc[i], st.m - c.m) + (IF i = p THEN TimesExp(Unit, b.m - c.m) ELSE 0)]
    BY <1>3, <2>3 DEF Attend
  <2>5. \A i \in 0 .. ctx - 1 :
          (IF i = p THEN TimesExp(Unit, b.m - c.m) ELSE 0) = TimesExp(b.acc[i], b.m - c.m)
    BY <1>2, <1>3, <2>2
  <2> QED BY <2>4, <2>5
<1> HIDE DEF c
<1>9. IsSoftmax(c, s, P \cup R, ctx)
  <2>1. IsMerge(c, st, b, ctx)
    BY <1>7, <1>8, Zenon DEF IsMerge
  <2> QED BY <1>5, <1>6, <2>1, MergeIs
<1> QED BY <1>6, <1>9 DEF c

-----------------------------------------------------------------------------
(* A warp: every DEC_WARPS-th position of its split.                       *)
States(ctx) == [m : Int, l : Nat, acc : [0 .. ctx - 1 -> Nat]]

Turn(p0, warp, k) == p0 + warp + (k - 1) * DEC_WARPS

Turned(p0, p1, warp, k) == {p \in 0 .. p1 - 1 : \E j \in 1 .. k : p = Turn(p0, warp, j)}

LEMMA AttendStays ==
  ASSUME NEW ctx \in Nat, NEW s \in ScoresOf(ctx), NEW P, P \subseteq 0 .. ctx - 1,
         NEW st, IsSoftmax(st, s, P, ctx), NEW p \in 0 .. ctx - 1, p \notin P
  PROVE  Attend(st, p, s[p]) \in States(ctx)
<1> DEFINE c == Attend(st, p, s[p])
           R == P \cup {p}
<1>1. IsSoftmax(c, s, R, ctx)
  BY AttendIs
<1>2. c = [m |-> c.m, l |-> c.l, acc |-> c.acc]
  BY DEF Attend
<1> HIDE DEF c, R
<1>3. c.m \in Int /\ c.l \in Nat
  BY <1>1, SoftmaxTypes
<1>4. c.acc \in [0 .. ctx - 1 -> Nat]
  BY <1>1 DEF IsSoftmax
<1>5. c \in States(ctx)
  BY <1>2, <1>3, <1>4 DEF States
<1> QED BY <1>5 DEF c

(* Before the first position.                                              *)
LEMMA NoneIs ==
  ASSUME NEW ctx \in Nat, NEW s
  PROVE  NoneYet(ctx) \in States(ctx) /\ IsSoftmax(NoneYet(ctx), s, {}, ctx)
<1>0. Spread \in Nat
  BY SoftmaxAssumption
<1> DEFINE c == NoneYet(ctx)
<1>1. /\ c = [m |-> -FLT_MAX, l |-> 0, acc |-> [p \in 0 .. ctx - 1 |-> 0]]
      /\ c.m = -FLT_MAX /\ c.l = 0
      /\ c.acc = [p \in 0 .. ctx - 1 |-> 0]
  BY DEF NoneYet
<1>2. c.acc \in [0 .. ctx - 1 -> Nat] /\ \A p \in 0 .. ctx - 1 : c.acc[p] = 0
  BY <1>1
<1>3. Total(c.acc, ctx) = 0
  BY <1>2, TotalZero
<1>4. -FLT_MAX \in Int
  BY <1>0 DEF FLT_MAX
<1>5. c \in States(ctx)
  BY <1>1, <1>4 DEF States
<1> HIDE DEF c
<1>6. IsSoftmax(c, s, {}, ctx)
  BY <1>1, <1>2, <1>3 DEF IsSoftmax
<1> QED BY <1>5, <1>6 DEF c

(* The turns of a warp come to ever later positions, so that none comes    *)
(* twice and all are over after ctx turns.                                 *)
LEMMA TurnGrows ==
  ASSUME NEW p0 \in Nat, NEW warp \in Nat, NEW k \in Nat \ {0}, NEW j \in 1 .. k
  PROVE  /\ Turn(p0, warp, k) \in Nat /\ Turn(p0, warp, j) \in Nat
         /\ j < k => Turn(p0, warp, j) < Turn(p0, warp, k)
         /\ k <= Turn(p0, warp, k) + 1
<1> DEFINE d == DEC_WARPS
           a == j - 1
           c == k - j
<1>1. d \in Nat \ {0} /\ a \in Nat /\ c \in Nat
  BY SoftmaxAssumption
<1>2. k - 1 = a + c
  OBVIOUS
<1>3. Turn(p0, warp, j) = p0 + warp + a * d /\ Turn(p0, warp, k) = p0 + warp + (a + c) * d
  BY <1>2 DEF Turn
<1>4. j < k <=> c # 0
  OBVIOUS
<1>9. k = a + c + 1
  OBVIOUS
<1> HIDE DEF a, c, d
<1>5. (a + c) * d = a * d + c * d /\ a * d \in Nat /\ c * d \in Nat
  BY <1>1
<1>6. c # 0 => c * d > 0
  BY <1>1
<1>7. a * d >= a /\ c * d >= c
  BY <1>1
<1> DEFINE x == a * d
           y == c * d
<1>8. /\ Turn(p0, warp, j) = p0 + warp + x /\ Turn(p0, warp, k) = p0 + warp + (x + y)
      /\ x \in Nat /\ y \in Nat /\ (c # 0 => y > 0) /\ x >= a /\ y >= c
  BY <1>3, <1>5, <1>6, <1>7
<1> HIDE DEF x, y
<1> QED BY <1>1, <1>4, <1>8, <1>9

LEMMA TurnedNext ==
  ASSUME NEW p0 \in Nat, NEW p1 \in Nat, NEW warp \in Nat, NEW k \in Nat \ {0}
  PROVE  /\ Turned(p0, p1, warp, 0) = {}
         /\ Turn(p0, warp, k) \notin Turned(p0, p1, warp, k - 1)
         /\ Turn(p0, warp, k) < p1 =>
              Turned(p0, p1, warp, k) = Turned(p0, p1, warp, k - 1) \cup {Turn(p0, warp, k)}
         /\ ~ (Turn(p0, warp, k) < p1) =>
              Turned(p0, p1, warp, k) = Turned(p0, p1, warp, k - 1)
<1> DEFINE t(j) == Turn(p0, warp, j)
<1>1. \A j \in 1 .. k : t(j) \in Nat /\ (j < k => t(j) < t(k))
  BY TurnGrows
<1>2. k \in 1 .. k /\ \A j \in 1 .. k : j \in 1 .. k - 1 \/ j = k
  OBVIOUS
<1>3. \A j \in 1 .. k - 1 : j \in 1 .. k /\ j < k
  OBVIOUS
<1>4. /\ \A p : p \in Turned(p0, p1, warp, k) <=> p \in 0 .. p1 - 1 /\ \E j \in 1 .. k : p = t(j)
      /\ \A p : p \in Turned(p0, p1, warp, k - 1) <=> p \in 0 .. p1 - 1 /\ \E j \in 1 .. k - 1 : p = t(j)
  BY DEF Turned
<1>5. Turned(p0, p1, warp, 0) = {}
  BY DEF Turned
<1> HIDE DEF t
<1>6. t(k) \notin Turned(p0, p1, warp, k - 1)
  <2>1. \A j \in 1 .. k - 1 : t(j) # t(k)
    BY <1>1, <1>2, <1>3
  <2> QED BY <1>4, <2>1
<1>7. t(k) < p1 => t(k) \in 0 .. p1 - 1
  BY <1>1, <1>2
<1>8. t(k) < p1 => Turned(p0, p1, warp, k) = Turned(p0, p1, warp, k - 1) \cup {t(k)}
  BY <1>2, <1>3, <1>4, <1>7
<1>9. ~ (t(k) < p1) => t(k) \notin 0 .. p1 - 1
  BY <1>1, <1>2
<1>10. ~ (t(k) < p1) => Turned(p0, p1, warp, k) = Turned(p0, p1, warp, k - 1)
  BY <1>2, <1>3, <1>4, <1>9
<1> QED BY <1>5, <1>6, <1>8, <1>10 DEF t

(* By induction over the turns: a warp attends to its positions.           *)
LEMMA WarpLoopIs ==
  ASSUME NEW ctx \in Nat, NEW s \in ScoresOf(ctx), NEW p0 \in Nat, NEW p1 \in 0 .. ctx,
         NEW warp \in Nat
  PROVE  IsSoftmax(WarpLoop(s, p0, p1, warp, ctx), s, Turned(p0, p1, warp, ctx), ctx)
<1> DEFINE t(k) == Turn(p0, warp, k)
           seen(k) == Turned(p0, p1, warp, k)
           St == States(ctx)
           none == NoneYet(ctx)
           more(k, y) == IF t(k) < p1 THEN Attend(y, t(k), s[t(k)]) ELSE y
           G == [k \in 1 .. ctx |-> [y \in St |-> more(k, y)]]
           I == {z \in (0 .. ctx) \X St : IsSoftmax(z[2], s, seen(z[1]), ctx)}
<1>1. none \in St /\ <<0, none>> \in I
  <2>1. seen(0) = {}
    BY DEF Turned
  <2>2. none \in St /\ IsSoftmax(none, s, {}, ctx)
    BY NoneIs
  <2>3. 0 \in 0 .. ctx
    OBVIOUS
  <2> HIDE DEF seen, none, St
  <2> QED BY <2>1, <2>2, <2>3
<1>2. \A k \in 1 .. ctx : \A y \in St : G[k][y] = more(k, y)
  <2> HIDE DEF more, St
  <2> QED OBVIOUS
<1>3. ASSUME NEW k \in 1 .. ctx, NEW y \in St, <<k - 1, y>> \in I
      PROVE  more(k, y) \in St /\ <<k, more(k, y)>> \in I
  <2>1. IsSoftmax(y, s, seen(k - 1), ctx)
    <3> HIDE DEF seen, St
    <3> QED BY <1>3
  <2>2. k \in Nat \ {0} /\ k \in 0 .. ctx /\ p1 \in Nat /\ k \in 1 .. k
    OBVIOUS
  <2>3. /\ t(k) \notin seen(k - 1)
        /\ t(k) < p1 => seen(k) = seen(k - 1) \cup {t(k)}
        /\ ~ (t(k) < p1) => seen(k) = seen(k - 1)
    BY <2>2, TurnedNext
  <2>4. seen(k - 1) \subseteq 0 .. ctx - 1
    BY DEF Turned
  <2>5. t(k) \in Nat
    BY <2>2, TurnGrows
  <2>6. CASE t(k) < p1
    <3> DEFINE p == t(k)
               R == seen(k - 1)
    <3>1. p \in 0 .. ctx - 1 /\ p \notin R /\ R \subseteq 0 .. ctx - 1 /\ IsSoftmax(y, s, R, ctx)
      BY <2>1, <2>3, <2>4, <2>5, <2>6
    <3> HIDE DEF p, R
    <3>2. Attend(y, p, s[p]) \in States(ctx) /\ IsSoftmax(Attend(y, p, s[p]), s, R \cup {p}, ctx)
      BY <3>1, AttendStays, AttendIs
    <3>3. more(k, y) = Attend(y, p, s[p]) /\ seen(k) = R \cup {p}
      BY <2>3, <2>6 DEF p, R
    <3> HIDE DEF more, seen
    <3> QED BY <2>2, <3>2, <3>3
  <2>7. CASE ~ (t(k) < p1)
    <3>1. more(k, y) = y /\ seen(k) = seen(k - 1)
      BY <2>3, <2>7
    <3> HIDE DEF more, seen, St
    <3> QED BY <2>1, <2>2, <3>1
  <2> QED BY <2>6, <2>7
<1> HIDE DEF G, I, more, seen, none, St
<1>40. Keeps(St, none, ctx, G, I)
  BY <1>1, <1>2, <1>3 DEF Keeps
<1>41. PICK g : IsRun(g, St, none, ctx, G, I)
  BY <1>1, <1>40, RunsKeep
<1>4. /\ g \in [0 .. ctx -> St]
      /\ g[0] = none
      /\ \A k \in 1 .. ctx : g[k] = G[k][g[k - 1]]
      /\ \A k \in 0 .. ctx : <<k, g[k]>> \in I
  BY <1>41 DEF IsRun
<1>5. \A k \in 1 .. ctx : g[k] = more(k, g[k - 1])
  <2>1. \A k \in 1 .. ctx : k - 1 \in 0 .. ctx
    OBVIOUS
  <2> QED BY <1>2, <1>4, <2>1
<1> DEFINE after[k \in 0 .. ctx] == IF k = 0 THEN none ELSE more(k, after[k - 1])
<1>6. after[ctx] = WarpLoop(s, p0, p1, warp, ctx)
  BY DEF WarpLoop, Turn, more, none
<1>7. after = [k \in 0 .. ctx |-> IF k = 0 THEN none ELSE more(k, after[k - 1])]
  <2>1. \A k \in 0 .. ctx : k # 0 => k \in 1 .. ctx
    OBVIOUS
  <2>2. g = [k \in 0 .. ctx |-> IF k = 0 THEN none ELSE more(k, g[k - 1])]
    BY <1>4, <1>5, <2>1
  <2> QED BY <2>2
<1> HIDE DEF after
<1>8. after[0] = none /\ \A k \in 1 .. ctx : after[k] = more(k, after[k - 1])
  BY <1>7
<1>9. after[ctx] = g[ctx]
  <2>1. after[0] = g[0] /\ \A k \in 1 .. ctx : after[k - 1] = g[k - 1] => after[k] = g[k]
    BY <1>4, <1>5, <1>8
  <2> QED BY <2>1, Alike
<1>10. IsSoftmax(g[ctx], s, seen(ctx), ctx)
  <2>1. ctx \in 0 .. ctx
    OBVIOUS
  <2> QED BY <1>4, <2>1 DEF I
<1> QED BY <1>6, <1>9, <1>10 DEF seen

(* The warps of a block share the positions of its split out among them.   *)
LEMMA TurnsOf ==
  ASSUME NEW p0 \in Nat, NEW p1 \in Nat, NEW ctx \in Nat, p1 <= ctx
  PROVE  /\ \A p \in p0 .. p1 - 1 : \E w \in 1 .. DEC_WARPS : p \in Turned(p0, p1, w - 1, ctx)
         /\ \A w \in 1 .. DEC_WARPS : Turned(p0, p1, w - 1, ctx) \subseteq p0 .. p1 - 1
         /\ \A v, w \in 1 .. DEC_WARPS :
              v # w => Turned(p0, p1, v - 1, ctx) \cap Turned(p0, p1, w - 1, ctx) = {}
<1> DEFINE d == DEC_WARPS
<1>0. d \in Nat \ {0}
  BY SoftmaxAssumption
<1>1. ASSUME NEW w \in 1 .. d, NEW p \in Turned(p0, p1, w - 1, ctx)
      PROVE  /\ p \in p0 .. p1 - 1
             /\ (p - p0) % d = w - 1
  <2>1. PICK j \in 1 .. ctx : p = Turn(p0, w - 1, j)
    BY DEF Turned
  <2>2. p \in 0 .. p1 - 1
    BY DEF Turned
  <2> DEFINE q == j - 1
             r == w - 1
  <2>3. q \in Nat /\ r \in Nat /\ r < d
    BY <1>0
  <2>4. p = p0 + r + q * d
    BY <2>1 DEF Turn
  <2> HIDE DEF d, q, r
  <2>5. (d * q + r) % d = r
    BY <1>0, <2>3, DivUnique
  <2>6. q * d = d * q /\ d * q \in Nat
    BY <1>0, <2>3
  <2>7. p - p0 = d * q + r /\ p0 <= p
    BY <2>3, <2>4, <2>6
  <2>8. (p - p0) % d = r
    BY <2>5, <2>7
  <2> QED BY <2>2, <2>7, <2>8 DEF r
<1>2. ASSUME NEW p \in p0 .. p1 - 1
      PROVE  \E w \in 1 .. d : p \in Turned(p0, p1, w - 1, ctx)
  <2> DEFINE x == p - p0
             q == x \div d
             r == x % d
  <2>1. x \in Nat /\ x < ctx /\ p = p0 + x /\ p \in 0 .. p1 - 1
    OBVIOUS
  <2> HIDE DEF x, d
  <2>2. q \in Nat /\ r \in Nat /\ r < d /\ x = d * q + r
    BY <1>0, <2>1, DivMod
  <2> HIDE DEF q, r
  <2>3. d * q = q * d /\ q <= d * q
    BY <1>0, <2>2
  <2>4. q + 1 \in 1 .. ctx /\ (q + 1) - 1 = q
    BY <1>0, <2>1, <2>2, <2>3
  <2>5. r + 1 \in 1 .. d /\ (r + 1) - 1 = r
    BY <1>0, <2>2
  <2>6. p = p0 + r + q * d
    BY <1>0, <2>1, <2>2, <2>3
  <2>7. p = Turn(p0, r, q + 1)
    BY <2>4, <2>6 DEF Turn, d
  <2>8. p \in Turned(p0, p1, r, ctx)
    BY <2>1, <2>4, <2>7 DEF Turned
  <2> QED BY <2>5, <2>8
<1>3. ASSUME NEW v \in 1 .. d, NEW w \in 1 .. d, v # w
      PROVE  Turned(p0, p1, v - 1, ctx) \cap Turned(p0, p1, w - 1, ctx) = {}
  <2>1. v - 1 # w - 1
    BY <1>0, <1>3
  <2> QED BY <1>1, <2>1
<1>4. \A w \in 1 .. d : Turned(p0, p1, w - 1, ctx) \subseteq p0 .. p1 - 1
  BY <1>1
<1> QED BY <1>2, <1>3, <1>4

-----------------------------------------------------------------------------
(* A block: the positions of one split.                                    *)
PerSplit(ctx, splits) == (ctx + splits - 1) \div splits

Split(ctx, splits, sp) ==
  {p \in 0 .. ctx - 1 : sp * PerSplit(ctx, splits) <= p /\ p < sp * PerSplit(ctx, splits) + PerSplit(ctx, splits)}

(* Splits are not empty in size, and cover the context.                    *)
LEMMA PerIs ==
  ASSUME NEW ctx \in Nat \ {0}, NEW splits \in Nat \ {0}
  PROVE  PerSplit(ctx, splits) \in Nat \ {0} /\ ctx <= splits * PerSplit(ctx, splits)
<1> DEFINE a == ctx + splits - 1
           q == a \div splits
           r == a % splits
<1>1. a \in Nat /\ a >= splits /\ a = ctx + splits - 1
  OBVIOUS
<1> HIDE DEF a
<1>2. q \in Nat /\ r \in Nat /\ r < splits /\ a = splits * q + r
  BY <1>1, DivMod
<1>3. PerSplit(ctx, splits) = q
  BY DEF PerSplit, a
<1> HIDE DEF q, r
<1>4. q # 0
  <2> SUFFICES ASSUME q = 0 PROVE FALSE
    OBVIOUS
  <2>1. splits * q = 0
    OBVIOUS
  <2> QED BY <1>1, <1>2, <2>1
<1>5. ctx <= splits * q
  <2> DEFINE y == splits * q
  <2>1. y \in Nat /\ a = y + r
    BY <1>2
  <2> HIDE DEF y
  <2>2. ctx <= y
    BY <1>1, <1>2, <2>1
  <2> QED BY <2>2 DEF y
<1> QED BY <1>2, <1>3, <1>4, <1>5

(* A block combines its warps: what some have seen nothing of weighs       *)
(* nothing.                                                                *)
LEMMA BlockIs ==
  ASSUME NEW ctx \in Nat \ {0}, NEW s \in ScoresOf(ctx), NEW splits \in Nat \ {0}, NEW sp \in Nat
  PROVE  IsSoftmax(k_attn_decode(s, ctx, splits, sp), s, Split(ctx, splits, sp), ctx)
<1> DEFINE per == PerSplit(ctx, splits)
           p0 == sp * per
           p1 == Min({p0 + per, ctx})
           n == DEC_WARPS
           T == [w \in 1 .. n |-> Turned(p0, p1, w - 1, ctx)]
           parts == [w \in 1 .. n |-> WarpLoop(s, p0, p1, w - 1, ctx)]
<1>0. n \in Nat \ {0}
  BY SoftmaxAssumption
<1>1. per \in Nat \ {0}
  BY PerIs
<1>2. p0 \in Nat
  <2> HIDE DEF per
  <2> QED BY <1>1
<1>3. p1 \in Nat /\ p1 <= ctx /\ (p1 = IF p0 + per <= ctx THEN p0 + per ELSE ctx)
  <2> HIDE DEF per, p0
  <2>1. p1 = IF p0 + per <= ctx THEN p0 + per ELSE ctx
    BY <1>1, <1>2, Min2
  <2> QED BY <1>1, <1>2, <2>1
<1>4. k_attn_decode(s, ctx, splits, sp) = Combined(parts, n, ctx)
  BY DEF k_attn_decode, PerSplit
<1>5. Split(ctx, splits, sp) = {p \in 0 .. ctx - 1 : p0 <= p /\ p < p0 + per}
  BY DEF Split
<1>6. /\ \A w \in 1 .. n : T[w] = Turned(p0, p1, w - 1, ctx)
      /\ \A w \in 1 .. n : parts[w] = WarpLoop(s, p0, p1, w - 1, ctx)
  OBVIOUS
<1> HIDE DEF per, p0, p1, n, T, parts
<1>7. /\ \A p \in p0 .. p1 - 1 : \E w \in 1 .. n : p \in Turned(p0, p1, w - 1, ctx)
      /\ \A w \in 1 .. n : Turned(p0, p1, w - 1, ctx) \subseteq p0 .. p1 - 1
      /\ \A v, w \in 1 .. n :
           v # w => Turned(p0, p1, v - 1, ctx) \cap Turned(p0, p1, w - 1, ctx) = {}
  <2>1. ctx \in Nat
    OBVIOUS
  <2> QED BY <1>2, <1>3, <2>1, TurnsOf, ZenonT(60) DEF n
<1>8. ASSUME NEW w \in 1 .. n
      PROVE  T[w] \subseteq 0 .. ctx - 1 /\ IsSoftmax(parts[w], s, T[w], ctx)
  <2>1. w - 1 \in Nat /\ p1 \in 0 .. ctx /\ ctx \in Nat
    BY <1>3
  <2>2. IsSoftmax(WarpLoop(s, p0, p1, w - 1, ctx), s, Turned(p0, p1, w - 1, ctx), ctx)
    BY <1>2, <2>1, WarpLoopIs
  <2>3. p0 .. p1 - 1 \subseteq 0 .. ctx - 1
    BY <1>2, <1>3
  <2> QED BY <1>6, <1>7, <2>2, <2>3
<1>9. \A v, w \in 1 .. n : v # w => T[v] \cap T[w] = {}
  BY <1>6, <1>7
<1> DEFINE all == UNION {T[w] : w \in 1 .. n}
<1>10. IsSoftmax(Combined(parts, n, ctx), s, all, ctx)
  BY <1>0, <1>8, <1>9, CombinedIs
<1>11. all = Split(ctx, splits, sp)
  <2>1. \A p : p \in Split(ctx, splits, sp) <=> p \in p0 .. p1 - 1
    BY <1>1, <1>2, <1>3, <1>5
  <2>2. \A p : p \in all <=> \E w \in 1 .. n : p \in T[w]
    OBVIOUS
  <2> HIDE DEF all
  <2>3. \A p \in p0 .. p1 - 1 : p \in all
    BY <1>6, <1>7, <2>2
  <2>4. \A p \in all : p \in p0 .. p1 - 1
    BY <1>6, <1>7, <2>2
  <2> QED BY <2>1, <2>3, <2>4
<1> QED BY <1>4, <1>10, <1>11

(* And the second kernel the blocks, for any number of splits.             *)
LEMMA DecodeIs ==
  ASSUME NEW ctx \in Nat \ {0}, NEW s \in ScoresOf(ctx), NEW splits \in Nat \ {0}
  PROVE  IsSoftmax(attn_decode(s, ctx, splits), s, 0 .. ctx - 1, ctx)
<1> DEFINE per == PerSplit(ctx, splits)
           T == [w \in 1 .. splits |-> Split(ctx, splits, w - 1)]
           parts == [w \in 1 .. splits |-> k_attn_decode(s, ctx, splits, w - 1)]
<1>1. per \in Nat \ {0} /\ ctx <= splits * per
  BY PerIs
<1>2. attn_decode(s, ctx, splits) = Combined(parts, splits, ctx)
  BY DEF attn_decode
<1>3. /\ \A w \in 1 .. splits : T[w] = Split(ctx, splits, w - 1)
      /\ \A w \in 1 .. splits : parts[w] = k_attn_decode(s, ctx, splits, w - 1)
  OBVIOUS
<1> HIDE DEF per, T, parts
<1>4. ASSUME NEW w \in 1 .. splits
      PROVE  T[w] \subseteq 0 .. ctx - 1 /\ IsSoftmax(parts[w], s, T[w], ctx)
  <2>1. w - 1 \in Nat
    OBVIOUS
  <2>2. IsSoftmax(k_attn_decode(s, ctx, splits, w - 1), s, Split(ctx, splits, w - 1), ctx)
    BY <2>1, BlockIs
  <2>3. Split(ctx, splits, w - 1) \subseteq 0 .. ctx - 1
    BY DEF Split
  <2> QED BY <1>3, <2>2, <2>3
<1>5. ASSUME NEW w \in 1 .. splits, NEW p \in T[w]
      PROVE  p \div per = w - 1
  <2> DEFINE q == w - 1
             r == p - q * per
  <2>1. p \in Nat /\ q * per <= p /\ p < q * per + per
    BY <1>3 DEF Split, per
  <2>2. q \in Nat /\ q * per = per * q /\ per * q \in Nat
    BY <1>1
  <2> HIDE DEF q
  <2>3. r \in Nat /\ r < per /\ p = per * q + r
    <3> DEFINE y == per * q
    <3>1. y \in Nat /\ y <= p /\ p < y + per /\ r = p - y
      BY <2>1, <2>2
    <3> HIDE DEF y, r
    <3>2. r \in Nat /\ r < per /\ p = y + r
      BY <1>1, <2>1, <3>1
    <3> QED BY <3>2 DEF y
  <2> HIDE DEF r
  <2>4. (per * q + r) \div per = q
    BY <1>1, <2>2, <2>3, DivUnique
  <2> QED BY <2>3, <2>4 DEF q
<1>6. ASSUME NEW v \in 1 .. splits, NEW w \in 1 .. splits, v # w
      PROVE  T[v] \cap T[w] = {}
  <2>1. v - 1 # w - 1
    BY <1>6
  <2> QED BY <1>5, <2>1
<1>7. ASSUME NEW p \in 0 .. ctx - 1
      PROVE  \E w \in 1 .. splits : p \in T[w]
  <2> DEFINE q == p \div per
             r == p % per
  <2>1. q \in Nat /\ r \in Nat /\ r < per /\ p = per * q + r /\ p \in Nat /\ p < ctx
    BY <1>1, DivMod
  <2> HIDE DEF q, r
  <2>2. per * q = q * per
    BY <1>1, <2>1
  <2>3. q < splits
    <3> SUFFICES ASSUME splits <= q PROVE FALSE
      BY <2>1
    <3> DEFINE e == q - splits
    <3>1. e \in Nat /\ q = splits + e
      BY <2>1
    <3> HIDE DEF e
    <3>2. per * q = per * splits + per * e /\ per * e \in Nat /\ per * splits = splits * per
      BY <1>1, <3>1
    <3> DEFINE x == per * q
               y == splits * per
               z == per * e
    <3>3. x \in Nat /\ y \in Nat /\ z \in Nat /\ x = y + z /\ p = x + r /\ ctx <= y
      BY <1>1, <2>1, <3>2
    <3> HIDE DEF x, y, z
    <3> QED BY <2>1, <3>3
  <2>4. q + 1 \in 1 .. splits /\ (q + 1) - 1 = q
    BY <2>1, <2>3
  <2>5. q * per <= p /\ p < q * per + per
    <3> DEFINE x == q * per
    <3>1. x \in Nat /\ p = x + r
      BY <1>1, <2>1, <2>2
    <3> HIDE DEF x
    <3>2. x <= p /\ p < x + per
      BY <1>1, <2>1, <3>1
    <3> QED BY <3>2 DEF x
  <2>6. p \in Split(ctx, splits, q)
    BY <2>5 DEF Split, per
  <2> QED BY <1>3, <2>4, <2>6
<1> DEFINE all == UNION {T[w] : w \in 1 .. splits}
<1>8. IsSoftmax(Combined(parts, splits, ctx), s, all, ctx)
  <2>1. splits \in Nat /\ ctx \in Nat
    OBVIOUS
  <2> HIDE DEF all
  <2> QED BY <1>4, <1>6, <2>1, CombinedIs DEF all
<1>9. all = 0 .. ctx - 1
  <2>1. \A p : p \in all <=> \E w \in 1 .. splits : p \in T[w]
    OBVIOUS
  <2> HIDE DEF all
  <2> QED BY <1>4, <1>7, <2>1
<1> QED BY <1>2, <1>8, <1>9

-----------------------------------------------------------------------------
(* A row of a tile of keys: the ones of the tile that its query may see.   *)
LEMMA ExpOfUnit ==
  ASSUME NEW m \in 0 .. Spread, NEW x \in 0 .. m
  PROVE  TimesExp(Unit, x - m) = Weight(m, x) /\ Weight(m, x) \in Nat \ {0}
<1>0. Spread \in Nat
  BY SoftmaxAssumption
<1> DEFINE d == m - x
           r == Spread - d
<1>1. d \in 0 .. Spread /\ d \in Nat /\ r \in Nat /\ d + r = Spread /\ x - m = -d /\ r = Spread - (m - x)
  BY <1>0
<1> HIDE DEF d, r
<1>2. Pow2(d + r) = Pow2(d) * Pow2(r)
  BY <1>1, PowerAdds
<1> DEFINE w == Pow2(r)
<1>3. w \in Nat \ {0} /\ w = Weight(m, x)
  BY <1>1, PowerIs DEF Weight
<1> HIDE DEF w
<1>4. TimesExp(Pow2(d) * w, -d) = w
  BY <1>1, <1>3, ExpDivides
<1>5. Unit = Pow2(d) * w
  BY <1>1, <1>2 DEF Unit, w
<1> QED BY <1>1, <1>3, <1>4, <1>5

Before(qpos, n, ctx) == {k \in 0 .. ctx - 1 : k <= qpos /\ k < n}

Tile(s, R, ctx) ==
  LET m == Max({-FLT_MAX} \cup {s[k] : k \in R})
      acc == [k \in 0 .. ctx - 1 |-> IF k \in R THEN TimesExp(Unit, s[k] - m) ELSE 0]
  IN [m |-> m, l |-> Total(acc, ctx), acc |-> acc]

(* The scores of a tile: their largest, and the weights by it.             *)
LEMMA TileIs ==
  ASSUME NEW ctx \in Nat, NEW s \in ScoresOf(ctx), NEW R, R \subseteq 0 .. ctx - 1
  PROVE  IsSoftmax(Tile(s, R, ctx), s, R, ctx)
<1>0. Spread \in Nat /\ -FLT_MAX \in Int /\ -FLT_MAX < 0
  BY SoftmaxAssumption DEF FLT_MAX
<1> DEFINE top == {-FLT_MAX} \cup {s[k] : k \in R}
           m == Max(top)
           acc == [k \in 0 .. ctx - 1 |-> IF k \in R THEN TimesExp(Unit, s[k] - m) ELSE 0]
           c == Tile(s, R, ctx)
<1>1. c.m = m /\ c.l = Total(acc, ctx) /\ c.acc = acc
  BY DEF Tile
<1>2. \A k \in R : s[k] \in 0 .. Spread
  BY DEF ScoresOf
<1>3. top \subseteq Int /\ -FLT_MAX \in top
  BY <1>0, <1>2
<1>4. /\ R = {} => m = -FLT_MAX
      /\ R # {} => m \in 0 .. Spread /\ (\E p \in R : m = s[p]) /\ \A p \in R : s[p] <= m
  <2>1. CASE R = {}
    <3>1. \A k \in top : k <= -FLT_MAX
      BY <1>0, <2>1
    <3> HIDE DEF top
    <3> QED BY <1>3, <2>1, <3>1, MaxOf
  <2>2. CASE R # {}
    <3>1. PICK p \in R : \A q \in R : s[q] <= s[p]
      BY <2>2, LargestScore
    <3>2. s[p] \in top /\ \A k \in top : k <= s[p]
      BY <1>0, <1>2, <3>1
    <3> HIDE DEF top
    <3>3. Max(top) = s[p]
      BY <1>3, <3>2, MaxOf
    <3> QED BY <1>2, <2>2, <3>1, <3>3
  <2> QED BY <2>1, <2>2
<1> HIDE DEF m, c, top
<1>5. \A p \in 0 .. ctx - 1 : acc[p] \in Nat /\ acc[p] = IF p \in R THEN Weight(m, s[p]) ELSE 0
  <2> SUFFICES ASSUME NEW p \in 0 .. ctx - 1
               PROVE  acc[p] \in Nat /\ acc[p] = IF p \in R THEN Weight(m, s[p]) ELSE 0
    OBVIOUS
  <2>1. CASE p \in R
    <3>1. m \in 0 .. Spread /\ s[p] \in 0 .. m
      <4>1. m \in 0 .. Spread /\ s[p] <= m /\ s[p] \in 0 .. Spread
        BY <1>2, <1>4, <2>1
      <4> QED BY <1>0, <4>1
    <3>2. TimesExp(Unit, s[p] - m) = Weight(m, s[p]) /\ Weight(m, s[p]) \in Nat
      BY <3>1, ExpOfUnit
    <3> QED BY <2>1, <3>2
  <2>2. CASE p \notin R
    BY <2>2
  <2> QED BY <2>1, <2>2
<1>6. acc \in [0 .. ctx - 1 -> Nat]
  BY <1>5
<1> HIDE DEF acc
<1>7. IsSoftmax(c, s, R, ctx)
  BY <1>1, <1>4, <1>5, <1>6 DEF IsSoftmax
<1> QED BY <1>7 DEF c

(* One tile of keys more: a row goes on from what it had, or from nothing  *)
(* if that was its first.                                                  *)
LEMMA TileStepIs ==
  ASSUME NEW ctx \in Nat, NEW s \in ScoresOf(ctx), NEW qpos \in Nat, NEW kv0 \in Nat, NEW kvn \in Nat,
         kv0 + kvn <= ctx, NEW row, IsSoftmax(row, s, Before(qpos, kv0, ctx), ctx)
  PROVE  /\ IsSoftmax(TileStep(row, s, qpos, kv0, kvn, ctx), s, Before(qpos, kv0 + kvn, ctx), ctx)
         /\ TileStep(row, s, qpos, kv0, kvn, ctx) \in States(ctx)
<1> DEFINE c == TileStep(row, s, qpos, kv0, kvn, ctx)
           keys == kv0 .. kv0 + kvn - 1
           R == {k \in keys : k <= qpos /\ k < ctx}
           P == Before(qpos, kv0, ctx)
           b == Tile(s, R, ctx)
           m == Max({-FLT_MAX} \cup {s[k] : k \in R})
           e == [k \in keys |-> IF k \in R THEN TimesExp(Unit, s[k] - m) ELSE 0]
           part == [i \in 1 .. kvn |-> e[kv0 + i - 1]]
           sum == Sum(part, kvn)
           mnew == Max({row.m, m})
           kept(v) == IF row.m = -FLT_MAX THEN 0 ELSE TimesExp(v, row.m - mnew)
           acc == [k \in DOMAIN row.acc |->
                    kept(row.acc[k]) + (IF k \in keys THEN TimesExp(e[k], m - mnew) ELSE 0)]
<1>0. Spread \in Nat /\ -FLT_MAX \in Int /\ -FLT_MAX < 0
  BY SoftmaxAssumption DEF FLT_MAX
<1>1. c = [m |-> mnew, l |-> kept(row.l) + TimesExp(sum, m - mnew), acc |-> acc]
  BY DEF TileStep
<1>2. /\ P \subseteq 0 .. ctx - 1 /\ R \subseteq 0 .. ctx - 1 /\ P \cap R = {}
      /\ P \cup R = Before(qpos, kv0 + kvn, ctx)
  BY DEF Before
<1>3. IsSoftmax(b, s, R, ctx)
  <2> HIDE DEF R, b
  <2> QED BY <1>2, TileIs DEF b
<1>4. IsSoftmax(row, s, P, ctx)
  OBVIOUS
<1>5. /\ b.m = m
      /\ b.acc = [k \in 0 .. ctx - 1 |-> IF k \in R THEN TimesExp(Unit, s[k] - m) ELSE 0]
      /\ b.l = Total(b.acc, ctx)
  <2> HIDE DEF R
  <2> QED BY DEF Tile
<1>6. \A k \in 0 .. ctx - 1 : b.acc[k] = IF k \in keys THEN e[k] ELSE 0
  <2> HIDE DEF m, b
  <2> QED BY <1>5
<1>7. R \subseteq keys /\ \A k \in keys : k \in 0 .. ctx - 1
  OBVIOUS
<1>8. b.l = sum
  <2> DEFINE f == [i \in 1 .. ctx |-> b.acc[i - 1]]
  <2>1. \A i \in 1 .. kvn : part[i] \in Int /\ f[kv0 + i] = part[i]
    <3> SUFFICES ASSUME NEW i \in 1 .. kvn PROVE part[i] \in Int /\ f[kv0 + i] = part[i]
      OBVIOUS
    <3> DEFINE k == kv0 + i - 1
    <3>1. k \in keys /\ k \in 0 .. ctx - 1 /\ kv0 + i \in 1 .. ctx /\ (kv0 + i) - 1 = k
      OBVIOUS
    <3>2. part[i] = e[k] /\ f[kv0 + i] = b.acc[k]
      <4> HIDE DEF e, b
      <4>1. part[i] = e[k]
        OBVIOUS
      <4> HIDE DEF k
      <4>2. f[kv0 + i] = b.acc[k]
        BY <3>1
      <4> QED BY <4>1, <4>2 DEF k
    <3> HIDE DEF k, keys, e, b, part, f
    <3>3. b.acc[k] = e[k]
      BY <1>6, <3>1
    <3>4. b.acc[k] \in Nat
      BY <1>3, <3>1 DEF IsSoftmax
    <3> QED BY <3>2, <3>3, <3>4
  <2>2. \A i \in 1 .. ctx : i <= kv0 \/ i > kv0 + kvn => f[i] = 0
    <3> SUFFICES ASSUME NEW i \in 1 .. ctx, i <= kv0 \/ i > kv0 + kvn PROVE f[i] = 0
      OBVIOUS
    <3>1. i - 1 \in 0 .. ctx - 1 /\ i - 1 \notin keys
      OBVIOUS
    <3>2. f[i] = b.acc[i - 1]
      <4> HIDE DEF b
      <4> QED OBVIOUS
    <3> HIDE DEF f, b, keys, e
    <3> QED BY <1>6, <3>1, <3>2
  <2>3. b.l = Sum(f, ctx)
    BY <1>5 DEF Total
  <2> HIDE DEF f, part, b
  <2>4. Sum(f, ctx) = Sum(part, kvn)
    <3>1. IsPart(part, kvn, f, ctx, kv0)
      BY <2>1, <2>2 DEF IsPart
    <3> QED BY <3>1, SumPart
  <2> QED BY <2>3, <2>4
<1> HIDE DEF sum, e, m, b
<1>9. /\ row.m \in Int /\ m \in Int /\ (mnew = IF row.m <= m THEN m ELSE row.m)
  <2>1. row.m \in Int /\ b.m \in Int
    BY <1>2, <1>3, <1>4, SoftmaxTypes
  <2>2. m \in Int
    BY <1>5, <2>1
  <2> QED BY <2>1, <2>2, Max2
<1> HIDE DEF mnew
<1>10. mnew \in Int /\ row.m - mnew \in Int /\ row.m - mnew <= 0 /\ m - mnew \in Int /\ m - mnew <= 0
  BY <1>9
<1>11. /\ kept(row.l) = TimesExp(row.l, row.m - mnew)
       /\ \A k \in 0 .. ctx - 1 : kept(row.acc[k]) = TimesExp(row.acc[k], row.m - mnew)
  <2>1. CASE row.m = -FLT_MAX
    <3>1. P = {}
      BY <1>0, <1>4, <2>1 DEF IsSoftmax
    <3>2. \A k \in 0 .. ctx - 1 : row.acc[k] = 0
      BY <1>4, <3>1 DEF IsSoftmax
    <3>3. row.l = 0
      BY <1>4, <3>2, TotalZero DEF IsSoftmax
    <3>4. TimesExp(0, row.m - mnew) = 0
      BY <1>10, ExpOfNone
    <3> QED BY <2>1, <3>2, <3>3, <3>4
  <2>2. CASE row.m # -FLT_MAX
    BY <2>2
  <2> QED BY <2>1, <2>2
<1>12. \A k \in 0 .. ctx - 1 :
         (IF k \in keys THEN TimesExp(e[k], m - mnew) ELSE 0) = TimesExp(b.acc[k], m - mnew)
  <2>1. TimesExp(0, m - mnew) = 0
    BY <1>10, ExpOfNone
  <2> HIDE DEF keys
  <2> QED BY <1>6, <2>1
<1>13. DOMAIN row.acc = 0 .. ctx - 1
  BY <1>4 DEF IsSoftmax
<1> HIDE DEF kept, keys, R, P
<1>14. acc = [k \in 0 .. ctx - 1 |-> TimesExp(row.acc[k], row.m - mnew) + TimesExp(b.acc[k], m - mnew)]
  BY <1>11, <1>12, <1>13
<1> HIDE DEF acc
<1>15. IsMerge(c, row, b, ctx)
  <2>1. c.m = mnew /\ c.l = kept(row.l) + TimesExp(sum, m - mnew) /\ c.acc = acc
    BY <1>1
  <2> HIDE DEF c
  <2>2. c.m = Max({row.m, b.m})
    BY <1>5, <2>1 DEF mnew
  <2>3. c.l = TimesExp(row.l, row.m - c.m) + TimesExp(b.l, b.m - c.m)
    BY <1>5, <1>8, <1>11, <2>1
  <2>4. c.acc = [k \in 0 .. ctx - 1 |-> TimesExp(row.acc[k], row.m - c.m) + TimesExp(b.acc[k], b.m - c.m)]
    BY <1>5, <1>14, <2>1
  <2> QED BY <2>2, <2>3, <2>4, Zenon DEF IsMerge
<1> HIDE DEF c
<1>16. IsSoftmax(c, s, P \cup R, ctx)
  BY <1>2, <1>3, <1>4, <1>15, MergeIs
<1>17. c \in States(ctx)
  <2>1. c.m \in Int /\ c.l \in Nat
    BY <1>16, SoftmaxTypes
  <2>2. c.acc \in [0 .. ctx - 1 -> Nat]
    BY <1>16 DEF IsSoftmax
  <2>3. c = [m |-> c.m, l |-> c.l, acc |-> c.acc]
    BY <1>1
  <2> QED BY <2>1, <2>2, <2>3 DEF States
<1> QED BY <1>2, <1>16, <1>17 DEF c

-----------------------------------------------------------------------------
(* A tile of queries: its live rows, and the keys after j tiles of them.   *)
Launched(qn) == {RowOf(i, qn) : i \in 0 .. NQ * qn - 1}

(* Rows are numbered by head and query.                                    *)
LEMMA RowParts ==
  ASSUME NEW h \in Nat, NEW qi \in 0 .. QT - 1
  PROVE  (h * QT + qi) \div QT = h /\ (h * QT + qi) % QT = qi
<1>1. QT \in Nat \ {0} /\ qi \in Nat /\ qi < QT
  BY SoftmaxAssumption
<1>2. (QT * h + qi) \div QT = h /\ (QT * h + qi) % QT = qi
  BY <1>1, DivUnique
<1>3. QT * h = h * QT
  BY <1>1
<1> QED BY <1>2, <1>3

LEMMA RowBound ==
  ASSUME NEW n \in Nat \ {0}, NEW h \in 0 .. NQ - 1, NEW x \in 0 .. n - 1
  PROVE  h * n + x \in 0 .. NQ * n - 1
<1>0. NQ \in Nat \ {0}
  BY SoftmaxAssumption
<1> DEFINE e == NQ - 1 - h
<1>1. e \in Nat /\ NQ = h + e + 1 /\ h \in Nat
  BY <1>0
<1> HIDE DEF e
<1>2. NQ * n = h * n + e * n + n /\ h * n \in Nat /\ e * n \in Nat
  BY <1>1
<1> DEFINE a == h * n
           b == e * n
           c == NQ * n
<1>3. a \in Nat /\ b \in Nat /\ c = a + b + n
  BY <1>2
<1> HIDE DEF a, b, c
<1>4. a + x \in 0 .. c - 1
  BY <1>3
<1> QED BY <1>4 DEF a, c

(* The rows that a launch reaches are those of a live query, all of them.  *)
LEMMA LaunchedIs ==
  ASSUME NEW qn \in 1 .. QT
  PROVE  /\ \A h \in 0 .. NQ - 1, x \in 0 .. qn - 1 : h * QT + x \in Launched(qn)
         /\ \A row \in Launched(qn) : row \div QT \in 0 .. NQ - 1 /\ row % QT \in 0 .. qn - 1
<1>0. NQ \in Nat \ {0} /\ QT \in Nat \ {0} /\ qn \in Nat \ {0} /\ qn <= QT
  BY SoftmaxAssumption
<1>1. ASSUME NEW h \in 0 .. NQ - 1, NEW x \in 0 .. qn - 1
      PROVE  h * QT + x \in Launched(qn)
  <2> DEFINE i == h * qn + x
  <2>1. i \in 0 .. NQ * qn - 1
    BY <1>0, RowBound
  <2>2. h \in Nat /\ x \in Nat /\ x < qn
    BY <1>0
  <2>3. (qn * h + x) \div qn = h /\ (qn * h + x) % qn = x
    BY <1>0, <2>2, DivUnique
  <2>4. qn * h = h * qn
    BY <1>0, <2>2
  <2>5. i \div qn = h /\ i % qn = x
    BY <2>3, <2>4
  <2> HIDE DEF i
  <2>6. RowOf(i, qn) = h * QT + x
    BY <2>5 DEF RowOf
  <2> QED BY <2>1, <2>6 DEF Launched
<1>2. ASSUME NEW row \in Launched(qn)
      PROVE  row \div QT \in 0 .. NQ - 1 /\ row % QT \in 0 .. qn - 1
  <2>1. PICK i \in 0 .. NQ * qn - 1 : row = RowOf(i, qn)
    BY DEF Launched
  <2> DEFINE h == i \div qn
             x == i % qn
  <2>2. i \in Nat /\ i < NQ * qn
    <3>1. NQ * qn \in Nat
      BY <1>0
    <3> QED BY <3>1
  <2>3. h \in Nat /\ x \in Nat /\ x < qn /\ i = qn * h + x /\ row = h * QT + x
    BY <1>0, <2>1, <2>2, DivMod DEF RowOf
  <2> HIDE DEF h, x
  <2>4. h < NQ
    <3> SUFFICES ASSUME NQ <= h PROVE FALSE
      BY <1>0, <2>3
    <3> DEFINE e == h - NQ
    <3>1. e \in Nat /\ h = NQ + e
      BY <1>0, <2>3
    <3> HIDE DEF e
    <3>2. qn * h = NQ * qn + qn * e /\ qn * e \in Nat /\ NQ * qn \in Nat
      BY <1>0, <3>1
    <3> DEFINE a == qn * h
               b == NQ * qn
               c == qn * e
    <3>3. a = b + c /\ b \in Nat /\ c \in Nat /\ i = a + x /\ i < b
      BY <2>2, <2>3, <3>2
    <3> HIDE DEF a, b, c
    <3> QED BY <2>2, <2>3, <3>3
  <2>5. x \in 0 .. QT - 1
    BY <1>0, <2>3
  <2>6. row \div QT = h /\ row % QT = x
    BY <2>3, <2>5, RowParts
  <2> QED BY <1>0, <2>3, <2>4, <2>6
<1> QED BY <1>1, <1>2

(* Keys behind the context or the query do not count.                      *)
LEMMA KeysBefore ==
  ASSUME NEW ctx \in Nat, NEW qpos \in Nat, NEW n \in Nat
  PROVE  /\ n >= ctx => Before(qpos, n, ctx) = Before(qpos, ctx, ctx)
         /\ qpos < ctx => Before(qpos, ctx, ctx) = 0 .. qpos
  BY DEF Before

LEMMA KeysBeyond ==
  ASSUME NEW ctx \in Nat, NEW qpos \in Nat, NEW n \in Nat, NEW m \in Nat,
         n <= m, n >= ctx \/ n > qpos
  PROVE  Before(qpos, m, ctx) = Before(qpos, n, ctx)
  BY DEF Before

-----------------------------------------------------------------------------
QueryScores(scores, T, q_offset) ==
  scores \in [0 .. NQ - 1 -> [0 .. T - 1 -> [0 .. q_offset + T - 1 -> 0 .. Spread]]]

(* By induction over the tiles of keys: those that are skipped have no key *)
(* that a query of the tile may see.                                       *)
LEMMA QueryTileIs ==
  ASSUME NEW T \in Nat \ {0}, NEW q_offset \in Nat, NEW scores, QueryScores(scores, T, q_offset),
         NEW q0 \in Nat, NEW qn \in 1 .. QT, q0 + qn <= T,
         NEW h \in 0 .. NQ - 1, NEW x \in 0 .. qn - 1
  PROVE  IsSoftmax(QueryTile(scores, q0, qn, q_offset, q_offset + T)[h * QT + x],
                   scores[h][q0 + x], 0 .. q_offset + q0 + x, q_offset + T)
<1> DEFINE ctx == q_offset + T
           Rows == 0 .. NQ * QT - 1
           St == [Rows -> States(ctx)]
           launched == {RowOf(i, qn) : i \in 0 .. NQ * qn - 1}
           q(row) == q0 + (row % QT)
           s(row) == scores[row \div QT][q(row)]
           at(row) == q_offset + q(row)
           next(rows, kv0) == [row \in DOMAIN rows |->
                    IF row \notin launched THEN rows[row]
                    ELSE TileStep(rows[row], scores[row \div QT][q(row)], q_offset + q(row),
                                  kv0, Min({KVT, ctx - kv0}), ctx)]
           seen(kv0) == kv0 < ctx /\ kv0 <= q_offset + q0 + qn - 1
           more(j, rows) == IF seen((j - 1) * KVT) THEN next(rows, (j - 1) * KVT) ELSE rows
           none == [row \in 0 .. NQ * QT - 1 |-> NoneYet(ctx)]
           Fine(row, st, kv0) == IsSoftmax(st, s(row), Before(at(row), kv0, ctx), ctx)
           G == [j \in 1 .. ctx |-> [rows \in St |-> more(j, rows)]]
           I == {z \in (0 .. ctx) \X St : \A row \in Rows : row \in launched => Fine(row, z[2][row], z[1] * KVT)}
<1>0. ctx \in Nat \ {0} /\ KVT \in Nat \ {0} /\ NQ \in Nat \ {0} /\ QT \in Nat \ {0} /\ qn \in Nat \ {0}
  BY SoftmaxAssumption
<1>1. ASSUME NEW row \in launched
      PROVE  /\ s(row) \in ScoresOf(ctx) /\ at(row) \in Nat
             /\ at(row) <= q_offset + q0 + qn - 1
  <2>1. row \in Launched(qn)
    BY DEF Launched
  <2>2. row \div QT \in 0 .. NQ - 1 /\ row % QT \in 0 .. qn - 1
    BY <2>1, LaunchedIs
  <2> DEFINE a == row \div QT
             b == row % QT
  <2>3. a \in 0 .. NQ - 1 /\ b \in 0 .. qn - 1 /\ q0 + b \in 0 .. T - 1
    BY <2>2
  <2>4. s(row) = scores[a][q0 + b] /\ at(row) = q_offset + (q0 + b)
    OBVIOUS
  <2> HIDE DEF a, b
  <2>5. scores[a][q0 + b] \in ScoresOf(ctx)
    BY <2>3 DEF QueryScores, ScoresOf
  <2> HIDE DEF s, at
  <2> QED BY <1>0, <2>3, <2>4, <2>5
<1>2. none \in St /\ <<0, none>> \in I
  <2>1. \A row \in Rows : none[row] = NoneYet(ctx)
    OBVIOUS
  <2>2. none \in St
    BY NoneIs
  <2>3. ASSUME NEW row \in Rows, row \in launched PROVE Fine(row, none[row], 0 * KVT)
    <3>1. 0 * KVT = 0
      BY <1>0
    <3>2. Before(at(row), 0, ctx) = {}
      BY DEF Before
    <3>3. IsSoftmax(NoneYet(ctx), s(row), {}, ctx)
      BY NoneIs
    <3> HIDE DEF none, s, at
    <3> QED BY <2>1, <3>1, <3>2, <3>3
  <2>4. 0 \in 0 .. ctx
    BY <1>0
  <2> HIDE DEF none, St, Fine, launched
  <2> QED BY <2>2, <2>3, <2>4
<1>3. \A j \in 1 .. ctx : \A rows \in St : G[j][rows] = more(j, rows)
  <2> HIDE DEF more, St
  <2> QED OBVIOUS
<1>4. ASSUME NEW j \in 1 .. ctx, NEW rows \in St, <<j - 1, rows>> \in I
      PROVE  more(j, rows) \in St /\ <<j, more(j, rows)>> \in I
  <2> DEFINE kv0 == (j - 1) * KVT
             kvn == Min({KVT, ctx - kv0})
  <2>1. \A row \in Rows : row \in launched => Fine(row, rows[row], kv0)
    <3> HIDE DEF Fine, launched
    <3> QED BY <1>4
  <2>2. kv0 \in Nat /\ j * KVT = kv0 + KVT /\ j \in 0 .. ctx
    BY <1>0
  <2>3. CASE seen(kv0)
    <3>1. kv0 < ctx
      BY <2>3
    <3>2. more(j, rows) = next(rows, kv0)
      BY <2>3
    <3> HIDE DEF kv0, seen
    <3>3. kvn = IF KVT <= ctx - kv0 THEN KVT ELSE ctx - kv0
      <4>1. KVT \in Int /\ ctx - kv0 \in Int
        BY <1>0, <2>2
      <4> QED BY <4>1, Min2
    <3> HIDE DEF kvn
    <3>4. kvn \in Nat /\ kv0 + kvn <= ctx /\ (kvn = KVT \/ (kv0 + kvn = ctx /\ kv0 + KVT > ctx))
      BY <1>0, <2>2, <3>1, <3>3
    <3>5. DOMAIN rows = Rows /\ \A row \in Rows : rows[row] \in States(ctx)
      OBVIOUS
    <3>6. next(rows, kv0) = [row \in Rows |->
                    IF row \notin launched THEN rows[row]
                    ELSE TileStep(rows[row], s(row), at(row), kv0, kvn, ctx)]
      BY <3>5 DEF kvn
    <3>7. ASSUME NEW row \in Rows, row \in launched
          PROVE  /\ TileStep(rows[row], s(row), at(row), kv0, kvn, ctx) \in States(ctx)
                 /\ Fine(row, TileStep(rows[row], s(row), at(row), kv0, kvn, ctx), j * KVT)
      <4> DEFINE y == rows[row]
                 f == s(row)
                 p == at(row)
      <4>1. f \in ScoresOf(ctx) /\ p \in Nat
        BY <1>1, <3>7
      <4>2. IsSoftmax(y, f, Before(p, kv0, ctx), ctx)
        BY <2>1, <3>7
      <4> HIDE DEF y, f, p
      <4>3. /\ IsSoftmax(TileStep(y, f, p, kv0, kvn, ctx), f, Before(p, kv0 + kvn, ctx), ctx)
            /\ TileStep(y, f, p, kv0, kvn, ctx) \in States(ctx)
        <5>1. ctx \in Nat
          BY <1>0
        <5> HIDE DEF ctx
        <5> QED BY <2>2, <3>4, <4>1, <4>2, <5>1, TileStepIs
      <4>4. Before(p, kv0 + kvn, ctx) = Before(p, j * KVT, ctx)
        <5> DEFINE n == kv0 + KVT
        <5>1. n \in Nat
          BY <1>0, <2>2
        <5> HIDE DEF n, ctx
        <5>2. n >= ctx => Before(p, n, ctx) = Before(p, ctx, ctx)
          BY <1>0, <4>1, <5>1, KeysBefore
        <5>3. n > ctx => n >= ctx
          BY <1>0, <5>1
        <5> QED BY <2>2, <3>4, <5>2, <5>3 DEF n
      <4> QED BY <4>3, <4>4 DEF y, f, p
    <3> HIDE DEF next, more, Fine, launched, s, at, ctx, Rows
    <3>8. next(rows, kv0) \in [Rows -> States(ctx)]
      BY <3>5, <3>6, <3>7
    <3>9. \A row \in Rows : row \in launched => Fine(row, next(rows, kv0)[row], j * KVT)
      BY <3>6, <3>7
    <3> QED BY <2>2, <3>2, <3>8, <3>9
  <2>4. CASE ~ seen(kv0)
    <3>1. more(j, rows) = rows
      BY <2>4
    <3>2. kv0 >= ctx \/ kv0 > q_offset + q0 + qn - 1
      <4>1. ~ (kv0 < ctx /\ kv0 <= q_offset + q0 + qn - 1)
        BY <2>4
      <4> HIDE DEF kv0
      <4> QED BY <1>0, <2>2, <4>1
    <3>3. ASSUME NEW row \in Rows, row \in launched PROVE Fine(row, rows[row], j * KVT)
      <4> DEFINE p == at(row)
      <4>1. p \in Nat /\ p <= q_offset + q0 + qn - 1
        BY <1>1, <3>3
      <4> HIDE DEF p, kv0, ctx
      <4>2. kv0 >= ctx \/ kv0 > p
        BY <1>0, <2>2, <3>2, <4>1
      <4>3. Before(p, kv0 + KVT, ctx) = Before(p, kv0, ctx)
        <5> DEFINE n == kv0 + KVT
        <5>1. n \in Nat /\ kv0 <= n
          BY <1>0, <2>2
        <5> HIDE DEF n
        <5>2. Before(p, n, ctx) = Before(p, kv0, ctx)
          BY <1>0, <2>2, <4>1, <4>2, <5>1, KeysBeyond
        <5> QED BY <5>2 DEF n
      <4>4. Fine(row, rows[row], kv0)
        BY <2>1, <3>3
      <4> HIDE DEF s, at
      <4> QED BY <2>2, <4>3, <4>4 DEF p
    <3> HIDE DEF more, Fine, launched, St, seen, kv0
    <3> QED BY <2>2, <3>1, <3>3
  <2> QED BY <2>3, <2>4
<1> HIDE DEF G, I, more, next, seen, none, St
<1>5. Keeps(St, none, ctx, G, I)
  BY <1>2, <1>3, <1>4 DEF Keeps
<1>6. PICK g : IsRun(g, St, none, ctx, G, I)
  <2>1. ctx \in Nat
    BY <1>0
  <2> HIDE DEF ctx
  <2> QED BY <1>2, <1>5, <2>1, RunsKeep
<1>7. /\ g \in [0 .. ctx -> St]
      /\ g[0] = none
      /\ \A k \in 1 .. ctx : g[k] = G[k][g[k - 1]]
      /\ \A k \in 0 .. ctx : <<k, g[k]>> \in I
  BY <1>6 DEF IsRun
<1>8. \A k \in 1 .. ctx : g[k] = more(k, g[k - 1])
  <2>1. \A k \in 1 .. ctx : k - 1 \in 0 .. ctx
    BY <1>0
  <2> HIDE DEF ctx
  <2> QED BY <1>3, <1>7, <2>1
<1> DEFINE after[j \in 0 .. ctx] == IF j = 0 THEN none ELSE more(j, after[j - 1])
<1>9. after[ctx] = QueryTile(scores, q0, qn, q_offset, ctx)
  BY DEF QueryTile, more, none, next, seen
<1>10. after = [j \in 0 .. ctx |-> IF j = 0 THEN none ELSE more(j, after[j - 1])]
  <2>1. \A j \in 0 .. ctx : j # 0 => j \in 1 .. ctx
    BY <1>0
  <2> HIDE DEF ctx
  <2>2. g = [j \in 0 .. ctx |-> IF j = 0 THEN none ELSE more(j, g[j - 1])]
    BY <1>7, <1>8, <2>1
  <2> QED BY <2>2
<1> HIDE DEF after
<1>11. after[0] = none /\ \A j \in 1 .. ctx : after[j] = more(j, after[j - 1])
  BY <1>0, <1>10
<1>12. after[ctx] = g[ctx]
  <2>1. after[0] = g[0] /\ \A k \in 1 .. ctx : after[k - 1] = g[k - 1] => after[k] = g[k]
    BY <1>7, <1>8, <1>11
  <2>2. ctx \in Nat
    BY <1>0
  <2> HIDE DEF ctx
  <2> QED BY <2>1, <2>2, Alike
<1> DEFINE row == h * QT + x
<1>13. row \in Rows /\ row \in launched
  <2>1. x \in 0 .. QT - 1
    BY <1>0
  <2>2. row \in Rows
    BY <1>0, <2>1, RowBound
  <2>3. row \in launched
    BY LaunchedIs DEF Launched
  <2> QED BY <2>2, <2>3
<1>14. s(row) = scores[h][q0 + x] /\ at(row) = q_offset + q0 + x
  <2>1. x \in 0 .. QT - 1 /\ h \in Nat
    BY <1>0
  <2>2. row \div QT = h /\ row % QT = x
    BY <2>1, RowParts
  <2> QED BY <1>0, <2>2
<1>15. Fine(row, g[ctx][row], ctx * KVT)
  <2>1. ctx \in 0 .. ctx
    BY <1>0
  <2> HIDE DEF Fine, ctx, row, launched, Rows
  <2> QED BY <1>7, <1>13, <2>1 DEF I
<1>16. Before(at(row), ctx * KVT, ctx) = 0 .. q_offset + q0 + x
  <2> DEFINE n == ctx * KVT
             p == q_offset + q0 + x
  <2>1. n \in Nat /\ n >= ctx
    BY <1>0
  <2>2. p \in Nat /\ p < ctx
    BY <1>0
  <2> HIDE DEF n, p, ctx
  <2>3. Before(p, n, ctx) = 0 .. p
    BY <1>0, <2>1, <2>2, KeysBefore
  <2> QED BY <1>14, <2>3 DEF n, p
<1> HIDE DEF row, ctx, s, at
<1>17. IsSoftmax(g[ctx][row], scores[h][q0 + x], 0 .. q_offset + q0 + x, ctx)
  BY <1>14, <1>15, <1>16
<1> QED BY <1>9, <1>12, <1>17 DEF row, ctx

(* A chunk: each query is in the tile that starts at the multiple of QT    *)
(* before it.                                                              *)
LEMMA PrefillIs ==
  ASSUME NEW T \in Nat \ {0}, NEW q_offset \in Nat, NEW scores, QueryScores(scores, T, q_offset),
         NEW h \in 0 .. NQ - 1, NEW q \in 0 .. T - 1
  PROVE  IsSoftmax(attn_prefill(scores, T, q_offset, q_offset + T)[h][q],
                   scores[h][q], 0 .. q_offset + q, q_offset + T)
<1> DEFINE ctx == q_offset + T
           tile(r) == r - (r % QT)
           qns(q0) == Min({QT, T - q0})
           done == [q0 \in {tile(r) : r \in 0 .. T - 1} |-> QueryTile(scores, q0, qns(q0), q_offset, ctx)]
           x == q % QT
           q0 == tile(q)
           qn == qns(q0)
<1>0. QT \in Nat \ {0} /\ q \in Nat /\ q < T
  BY SoftmaxAssumption
<1>1. attn_prefill(scores, T, q_offset, ctx)[h][q] = done[q0][h * QT + x]
  BY DEF attn_prefill
<1>2. done[q0] = QueryTile(scores, q0, qn, q_offset, ctx)
  <2>1. q0 \in {tile(r) : r \in 0 .. T - 1}
    OBVIOUS
  <2> HIDE DEF q0, qns
  <2> QED BY <2>1 DEF qn
<1>3. x \in Nat /\ x < QT /\ q0 \in Nat /\ q = q0 + x
  <2> DEFINE d == q \div QT
             e == QT * d
  <2>1. d \in Nat /\ x \in Nat /\ x < QT /\ q = QT * d + x
    BY <1>0, DivMod
  <2>2. e \in Nat /\ q = e + x
    BY <1>0, <2>1
  <2>3. q0 = q - x
    OBVIOUS
  <2> HIDE DEF e, d, x, q0
  <2> QED BY <1>0, <2>1, <2>2, <2>3
<1>4. qn = IF QT <= T - q0 THEN QT ELSE T - q0
  <2>1. QT \in Int /\ T - q0 \in Int
    BY <1>0, <1>3
  <2> HIDE DEF q0
  <2> QED BY <2>1, Min2
<1> HIDE DEF x, q0, qn
<1>5. qn \in 1 .. QT /\ q0 + qn <= T /\ x \in 0 .. qn - 1
  BY <1>0, <1>3, <1>4
<1>6. IsSoftmax(QueryTile(scores, q0, qn, q_offset, q_offset + T)[h * QT + x],
                scores[h][q0 + x], 0 .. q_offset + q0 + x, q_offset + T)
  BY <1>3, <1>5, QueryTileIs
<1>7. q_offset + q0 + x = q_offset + q
  BY <1>3
<1> QED BY <1>1, <1>2, <1>3, <1>6, <1>7 DEF ctx

-----------------------------------------------------------------------------
(* Such a state weighs by exponentials.                                    *)
LEMMA SoftmaxWeighs ==
  ASSUME NEW ctx \in Nat, NEW s \in ScoresOf(ctx), NEW P, P \subseteq 0 .. ctx - 1,
         NEW st, IsSoftmax(st, s, P, ctx)
  PROVE  Weighs(st, s, ctx, P)
<1>0. Spread \in Nat
  BY SoftmaxAssumption
<1>1. ASSUME NEW p \in P
      PROVE  /\ st.m \in 0 .. Spread /\ s[p] \in 0 .. st.m
             /\ st.acc[p] = Weight(st.m, s[p])
             /\ Weight(st.m, s[p]) \in Nat \ {0}
  <2>1. st.m \in 0 .. Spread /\ s[p] <= st.m /\ st.acc[p] = Weight(st.m, s[p])
    BY DEF IsSoftmax
  <2>2. s[p] \in 0 .. Spread
    BY DEF ScoresOf
  <2>3. st.m \in 0 .. Spread /\ s[p] \in 0 .. st.m
    BY <1>0, <2>1, <2>2
  <2> QED BY <2>1, <2>3, ExpOfUnit
<1>2. \A p \in 0 .. ctx - 1 : IF p \in P THEN st.acc[p] > 0 ELSE st.acc[p] = 0
  <2> SUFFICES ASSUME NEW p \in 0 .. ctx - 1
               PROVE  IF p \in P THEN st.acc[p] > 0 ELSE st.acc[p] = 0
    OBVIOUS
  <2>1. CASE p \in P
    <3> DEFINE w == Weight(st.m, s[p])
    <3>1. w \in Nat \ {0} /\ st.acc[p] = w
      BY <1>1, <2>1
    <3> HIDE DEF w
    <3>2. w > 0
      BY <3>1
    <3> QED BY <2>1, <3>1, <3>2
  <2>2. CASE p \notin P
    BY <2>2 DEF IsSoftmax
  <2> QED BY <2>1, <2>2
<1>3. ASSUME NEW p \in P, NEW r \in P
      PROVE  st.acc[p] * Pow2(s[r]) = st.acc[r] * Pow2(s[p])
  <2> DEFINE m == st.m
             a == s[p]
             b == s[r]
  <2>1. m \in 0 .. Spread /\ a \in 0 .. m /\ b \in 0 .. m
    BY <1>1
  <2>2. st.acc[p] = Weight(m, a) /\ st.acc[r] = Weight(m, b)
    BY <1>1
  <2> HIDE DEF m, a, b
  <2> DEFINE c == Spread - m
             d == Spread - (m - a)
             e == Spread - (m - b)
  <2>3. a \in Nat /\ b \in Nat /\ c \in Nat /\ d = c + a /\ e = c + b
    BY <1>0, <2>1
  <2>4. Weight(m, a) = Pow2(d) /\ Weight(m, b) = Pow2(e)
    BY DEF Weight
  <2> HIDE DEF c, d, e
  <2>5. Pow2(c + a) = Pow2(c) * Pow2(a) /\ Pow2(c + b) = Pow2(c) * Pow2(b)
    BY <2>3, PowerAdds
  <2> DEFINE x == Pow2(a)
             y == Pow2(b)
             z == Pow2(c)
  <2>6. x \in Nat /\ y \in Nat /\ z \in Nat
    BY <2>3, PowerIs
  <2>7. st.acc[p] = z * x /\ st.acc[r] = z * y
    BY <2>2, <2>3, <2>4, <2>5
  <2> HIDE DEF x, y, z
  <2>8. (z * x) * y = (z * y) * x
    BY <2>6
  <2> QED BY <2>7, <2>8 DEF x, y, a, b
<1>4. st.l = Total(st.acc, ctx)
  BY DEF IsSoftmax
<1> QED BY <1>2, <1>3, <1>4 DEF Weighs

-----------------------------------------------------------------------------
(* The questions.                                                          *)
DecodeAsked ==
  \E ctx \in 1 .. MaxCtx, splits \in 1 .. MaxSplits :
    \E s \in [0 .. ctx - 1 -> Scores] :
      asked = [op |-> "decode", ctx |-> ctx, splits |-> splits, s |-> s]

PrefillAsked ==
  \E c \in Prefills :
    asked = [op |-> "prefill", T |-> c.T, off |-> c.off, scores |-> c.scores]

(* There are no other questions.                                           *)
LEMMA AttentionAsked ==
  SoftmaxSpec => [](asked = [op |-> "nothing"] \/ DecodeAsked \/ PrefillAsked)
<1> DEFINE I == asked = [op |-> "nothing"] \/ DecodeAsked \/ PrefillAsked
<1>1. Init => I
  BY DEF Init
<1>2. AskAttention => I'
  BY DEF AskAttention, AskDecode, AskPrefill, DecodeAsked, PrefillAsked
<1>3. I /\ UNCHANGED asked => I'
  BY DEF DecodeAsked, PrefillAsked
<1> QED BY <1>1, <1>2, <1>3, PTL DEF SoftmaxSpec

(* Attention is a softmax, for every context and every chunk, however it   *)
(* is split (SoftmaxExact).                                                *)
THEOREM Softmaxes == SoftmaxSpec => []SoftmaxExact
<1>1. asked = [op |-> "nothing"] => SoftmaxExact
  BY DEF SoftmaxExact, Is
<1>2. DecodeAsked => SoftmaxExact
  <2> SUFFICES ASSUME NEW ctx \in 1 .. MaxCtx, NEW splits \in 1 .. MaxSplits,
                      NEW s \in [0 .. ctx - 1 -> Scores],
                      asked = [op |-> "decode", ctx |-> ctx, splits |-> splits, s |-> s]
               PROVE  SoftmaxExact
    BY DEF DecodeAsked
  <2>1. ctx \in Nat \ {0} /\ splits \in Nat \ {0} /\ s \in ScoresOf(ctx)
    <3>1. MaxCtx \in Nat /\ MaxSplits \in Nat /\ Scores \subseteq 0 .. Spread
      BY SoftmaxAssumption
    <3>2. ctx \in Nat \ {0} /\ splits \in Nat \ {0}
      BY <3>1
    <3>3. \A p \in 0 .. ctx - 1 : s[p] \in 0 .. Spread
      BY <3>1
    <3>4. s = [p \in 0 .. ctx - 1 |-> s[p]]
      OBVIOUS
    <3> QED BY <3>2, <3>3, <3>4 DEF ScoresOf
  <2> DEFINE st == attn_decode(s, ctx, splits)
             all == 0 .. ctx - 1
  <2>2. IsSoftmax(st, s, all, ctx) /\ all \subseteq 0 .. ctx - 1 /\ ctx \in Nat
    BY <2>1, DecodeIs
  <2> HIDE DEF st, all
  <2>3. Weighs(st, s, ctx, all)
    BY <2>1, <2>2, SoftmaxWeighs
  <2> QED BY <2>3 DEF SoftmaxExact, Is, st, all
<1>3. PrefillAsked => SoftmaxExact
  <2> SUFFICES ASSUME NEW c \in Prefills,
                      asked = [op |-> "prefill", T |-> c.T, off |-> c.off, scores |-> c.scores]
               PROVE  SoftmaxExact
    BY DEF PrefillAsked
  <2> DEFINE T == c.T
             off == c.off
             scores == c.scores
             out == attn_prefill(scores, T, off, off + T)
  <2>1. T \in Nat \ {0} /\ off \in Nat /\ QueryScores(scores, T, off)
    BY SoftmaxAssumption DEF QueryScores
  <2>2. asked.T = T /\ asked.off = off /\ asked.scores = scores /\ asked.op = "prefill"
    OBVIOUS
  <2> HIDE DEF T, off, scores
  <2>3. ASSUME NEW h \in 0 .. NQ - 1, NEW q \in 0 .. T - 1
        PROVE  Weighs(out[h][q], scores[h][q], off + T, 0 .. off + q)
    <3> DEFINE ctx == off + T
               seen == 0 .. off + q
               s == scores[h][q]
               st == out[h][q]
    <3>1. IsSoftmax(st, s, seen, ctx)
      BY <2>1, PrefillIs
    <3>2. ctx \in Nat /\ seen \subseteq 0 .. ctx - 1 /\ s \in ScoresOf(ctx)
      BY <2>1 DEF QueryScores, ScoresOf
    <3> HIDE DEF ctx, seen, s, st
    <3>3. Weighs(st, s, ctx, seen)
      BY <3>1, <3>2, SoftmaxWeighs
    <3> QED BY <3>3 DEF ctx, seen, s, st
  <2> HIDE DEF out
  <2> QED BY <2>2, <2>3 DEF SoftmaxExact, Is, out
<1> QED BY <1>1, <1>2, <1>3, AttentionAsked, PTL

-----------------------------------------------------------------------------
(* Products. A number of the output has its terms, each once.              *)
Sought(q, r, o) == [n |-> Cardinality(Terms(q, r, o)), of |-> Terms(q, r, o)]

(* The operators of MatMul's instance are the library's.                   *)
LEMMA ProductSums ==
  /\ \A S : MM!Cardinality(S) = Cardinality(S)
  /\ \A f : MM!Range(f) = {f[x] : x \in DOMAIN f}
  /\ \A f, n : MM!Sum(f, n) = Sum(f, n)
BY DEF MM!Cardinality, Cardinality, MM!Range, MM!Sum, Sum

(* A sum has finitely many terms.                                          *)
LEMMA SpotsFinite ==
  ASSUME NEW q \in Products
  PROVE  IsFiniteSet(Spots(q))
<1>1. IsFiniteSet(0 .. q.in - 1)
  BY FS_Interval, ProductAssumption
<1>2. IsFiniteSet({"q", "z"}) /\ IsFiniteSet({"q"})
  <2>1. IsFiniteSet({"q"})
    BY FS_Singleton
  <2>2. {"q", "z"} = {"q"} \cup {"z"}
    OBVIOUS
  <2> QED BY <2>1, <2>2, FS_AddElement
<1> QED BY <1>1, <1>2, FS_Product DEF Spots

(* Two terms of one number are different.                                  *)
LEMMA TermsDiffer ==
  ASSUME NEW q \in Products, NEW r \in Nat, NEW o, NEW s \in Spots(q), NEW t \in Spots(q),
         Term(q, r, o, s[1], s[2]) = Term(q, r, o, t[1], t[2])
  PROVE  s = t
<1> DEFINE y == r * q.in
<1>1. q.in \in Nat
  BY ProductAssumption
<1>2. y \in Nat
  BY <1>1
<1>3. /\ s[2] \in Nat /\ t[2] \in Nat
      /\ s = <<s[1], s[2]>> /\ t = <<t[1], t[2]>>
  BY <1>1 DEF Spots
<1>4. s[1] = t[1] /\ y + s[2] = y + t[2]
  BY DEF Term
<1> HIDE DEF y
<1> QED BY <1>2, <1>3, <1>4

(* A sum whose index set maps one-to-one onto the inputs is the one        *)
(* sought.                                                                 *)
LEMMA ExactlyOnce ==
  ASSUME NEW q \in Products, NEW r \in Nat, NEW o, NEW f, NEW place,
         \A x \in DOMAIN f :
           /\ place[x] \in Spots(q)
           /\ f[x] = Term(q, r, o, place[x][1], place[x][2]),
         \A x, y \in DOMAIN f : place[x] = place[y] => x = y,
         \A s \in Spots(q) : \E x \in DOMAIN f : place[x] = s
  PROVE  MM!SumOf(f) = Sought(q, r, o)
<1> DEFINE S == Spots(q)
           D == DOMAIN f
           T == Terms(q, r, o)
           g == [s \in S |-> CHOOSE x \in D : place[x] = s]
           h == [s \in S |-> Term(q, r, o, s[1], s[2])]
<1>1. \A s \in S : g[s] \in D /\ place[g[s]] = s
  OBVIOUS
<1>2. g \in Bijection(S, D)
  <2>1. g \in [S -> D]
    BY <1>1
  <2>2. \A s, t \in S : g[s] = g[t] => s = t
    BY <1>1
  <2>3. \A x \in D : \E s \in S : g[s] = x
    <3> SUFFICES ASSUME NEW x \in D PROVE g[place[x]] = x /\ place[x] \in S
      OBVIOUS
    <3> HIDE DEF g
    <3> QED BY <1>1
  <2> HIDE DEF g
  <2> QED BY <2>1, <2>2, <2>3 DEF Bijection, Injection, Surjection, IsInjective
<1>3. T = {h[s] : s \in S}
  <2>1. T = {Term(q, r, o, s[1], s[2]) : s \in Spots(q)}
    BY DEF Terms
  <2>2. \A s \in S : h[s] = Term(q, r, o, s[1], s[2])
    OBVIOUS
  <2> HIDE DEF T, h
  <2> QED BY <2>1, <2>2
<1>4. h \in Bijection(S, T)
  <2>1. \A s, t \in S : h[s] = h[t] => s = t
    BY TermsDiffer
  <2>2. h \in [S -> T] /\ \A x \in T : \E s \in S : h[s] = x
    BY <1>3
  <2> HIDE DEF h, T
  <2> QED BY <2>1, <2>2 DEF Bijection, Injection, Surjection, IsInjective
<1> HIDE DEF g, h
<1>5. Cardinality(D) = Cardinality(S) /\ Cardinality(T) = Cardinality(S)
  <2>1. ExistsBijection(S, D) /\ ExistsBijection(S, T)
    BY <1>2, <1>4 DEF ExistsBijection
  <2> QED BY <2>1, SpotsFinite, FS_Bijection
<1>6. {f[x] : x \in D} = T
  <2>1. ASSUME NEW x \in D PROVE f[x] \in T
    BY DEF Terms
  <2>2. ASSUME NEW t \in T PROVE \E x \in D : f[x] = t
    <3>1. PICK s \in S : t = Term(q, r, o, s[1], s[2])
      BY DEF Terms
    <3>2. PICK x \in D : place[x] = s
      OBVIOUS
    <3> QED BY <3>1, <3>2
  <2> QED BY <2>1, <2>2
<1> QED BY <1>5, <1>6, ProductSums DEF MM!SumOf, Sought

(* And so when its terms are shared out to splits.                         *)
LEMMA OnceInSplits ==
  ASSUME NEW q \in Products, NEW r \in Nat, NEW o, NEW K, NEW partial, DOMAIN partial = K, NEW place,
         \A k \in K : \A st \in DOMAIN partial[k] :
           /\ place[st] \in Spots(q)
           /\ partial[k][st] = Term(q, r, o, place[st][1], place[st][2]),
         \A j, k \in K : \A s \in DOMAIN partial[j], t \in DOMAIN partial[k] :
           place[s] = place[t] => j = k /\ s = t,
         \A s \in Spots(q) : \E k \in K : \E st \in DOMAIN partial[k] : place[st] = s
  PROVE  MM!SumOf(MM!Reduced(partial)) = Sought(q, r, o)
<1> DEFINE f == MM!Reduced(partial)
           D == UNION {{k} \X DOMAIN partial[k] : k \in K}
           there == [x \in D |-> place[x[2]]]
<1>1. DOMAIN f = D /\ \A x \in D : f[x] = partial[x[1]][x[2]]
  BY DEF MM!Reduced
<1>2. ASSUME NEW x \in D
      PROVE  x[1] \in K /\ x[2] \in DOMAIN partial[x[1]] /\ x = <<x[1], x[2]>>
  OBVIOUS
<1>3. \A k \in K : \A st \in DOMAIN partial[k] : <<k, st>> \in D
  OBVIOUS
<1>4. \A x \in D : there[x] = place[x[2]]
  OBVIOUS
<1> HIDE DEF D, f, there
<1>5. \A x \in DOMAIN f :
        there[x] \in Spots(q) /\ f[x] = Term(q, r, o, there[x][1], there[x][2])
  BY <1>1, <1>2, <1>4
<1>6. \A x, y \in DOMAIN f : there[x] = there[y] => x = y
  BY <1>1, <1>2, <1>4
<1>7. \A s \in Spots(q) : \E x \in DOMAIN f : there[x] = s
  <2> SUFFICES ASSUME NEW s \in Spots(q) PROVE \E x \in DOMAIN f : there[x] = s
    OBVIOUS
  <2>1. PICK k \in K : \E st \in DOMAIN partial[k] : place[st] = s
    OBVIOUS
  <2>2. PICK st \in DOMAIN partial[k] : place[st] = s
    BY <2>1
  <2>3. <<k, st>> \in D /\ there[<<k, st>>] = s
    BY <1>3, <1>4, <2>2
  <2> QED BY <1>1, <2>3
<1>8. MM!SumOf(f) = Sought(q, r, o)
  BY <1>5, <1>6, <1>7, ExactlyOnce
<1> QED BY <1>8 DEF f

-----------------------------------------------------------------------------
(* Parts that are fused: each output is a row of exactly one.              *)
Parts == {parts \in Seq(Nat \ {0}) : parts # <<>>}

(* The parts lie one after the other, and fill the rows.                   *)
LEMMA OffsetsAre ==
  ASSUME NEW parts \in Parts
  PROVE  /\ Len(parts) \in Nat \ {0} /\ DOMAIN parts = 1 .. Len(parts)
         /\ MM!RowsOf(parts) \in Nat \ {0}
         /\ \A p \in DOMAIN parts :
              /\ parts[p] \in Nat \ {0} /\ MM!OffsetOf(parts, p) \in Nat
              /\ MM!OffsetOf(parts, p) + parts[p] <= MM!RowsOf(parts)
         /\ \A p, v \in DOMAIN parts :
              p < v => MM!OffsetOf(parts, p) + parts[p] <= MM!OffsetOf(parts, v)
<1> DEFINE n == Len(parts)
<1>1. /\ n \in Nat /\ DOMAIN parts = 1 .. n /\ n # 0
      /\ \A i \in 1 .. n : parts[i] \in Nat \ {0} /\ parts[i] \in Nat /\ parts[i] \in Int
  BY LenProperties, EmptySeq DEF Parts
<1>2. MM!RowsOf(parts) = Sum(parts, n) /\ \A p : MM!OffsetOf(parts, p) = Sum(parts, p - 1)
  BY ProductSums DEF MM!RowsOf, MM!OffsetOf
<1> HIDE DEF n
<1>3. ASSUME NEW k \in 0 .. n PROVE Sum(parts, k) \in Nat
  <2>1. k \in Nat /\ \A i \in 1 .. k : parts[i] \in Nat
    BY <1>1
  <2> QED BY <2>1, SumNat
<1>4. ASSUME NEW p \in 1 .. n PROVE Sum(parts, p) = Sum(parts, p - 1) + parts[p]
  <2>1. p - 1 \in Nat /\ \A i \in 1 .. (p - 1) + 1 : parts[i] \in Int
    BY <1>1
  <2>2. (p - 1) + 1 = p
    BY <1>1
  <2> QED BY <2>1, <2>2, SumNext
<1>5. ASSUME NEW k \in 0 .. n, NEW j \in k .. n PROVE Sum(parts, k) <= Sum(parts, j)
  <2>1. j \in Nat /\ k \in 0 .. j /\ \A i \in 1 .. j : parts[i] \in Nat
    BY <1>1
  <2> QED BY <2>1, SumGrows
<1>6. ASSUME NEW p \in 1 .. n, NEW k \in p .. n
      PROVE  /\ p - 1 \in 0 .. n /\ Sum(parts, p - 1) \in Nat /\ Sum(parts, p) \in Nat
             /\ Sum(parts, p - 1) + parts[p] <= Sum(parts, k) /\ Sum(parts, k) \in Nat
  <2>1. p - 1 \in 0 .. n /\ p \in 0 .. n /\ k \in 0 .. n
    BY <1>1
  <2> QED BY <2>1, <1>3, <1>4, <1>5
<1>7. Sum(parts, n) \in Nat \ {0}
  <2>1. 1 \in 1 .. n /\ n \in 1 .. n
    BY <1>1
  <2> QED BY <2>1, <1>1, <1>6
<1>8. ASSUME NEW p \in 1 .. n, NEW v \in 1 .. n, p < v
      PROVE  Sum(parts, p - 1) + parts[p] <= Sum(parts, v - 1)
  <2>1. v - 1 \in p .. n
    BY <1>1, <1>8
  <2> QED BY <2>1, <1>6
<1>9. \A p \in 1 .. n : Sum(parts, p - 1) \in Nat /\ Sum(parts, p - 1) + parts[p] <= Sum(parts, n)
  BY <1>1, <1>6
<1> QED BY <1>1, <1>2, <1>7, <1>8, <1>9 DEF n

(* Each output is a row of the part that is found for it.                  *)
LEMMA PartsAre ==
  ASSUME NEW parts \in Parts, NEW o \in 0 .. MM!RowsOf(parts) - 1
  PROVE  /\ PartOf(parts, o) \in DOMAIN parts
         /\ RowIn(parts, o) \in 0 .. parts[PartOf(parts, o)] - 1
         /\ MM!OffsetOf(parts, PartOf(parts, o)) + RowIn(parts, o) = o
<1> DEFINE n == Len(parts)
           S == {k \in 0 .. n : o < Sum(parts, k)}
<1>1. /\ n \in Nat \ {0} /\ DOMAIN parts = 1 .. n
      /\ \A p \in 1 .. n : parts[p] \in Nat \ {0} /\ MM!OffsetOf(parts, p) \in Nat
  BY OffsetsAre
<1>2. MM!RowsOf(parts) = Sum(parts, n) /\ \A p : MM!OffsetOf(parts, p) = Sum(parts, p - 1)
  BY ProductSums DEF MM!RowsOf, MM!OffsetOf
<1>3. MM!RowsOf(parts) \in Nat /\ o \in Nat /\ o < MM!RowsOf(parts)
  BY OffsetsAre
<1>4. n \in S
  <2>1. n \in 0 .. n
    BY <1>1
  <2>2. o < Sum(parts, n)
    BY <1>2, <1>3
  <2> HIDE DEF n
  <2> QED BY <2>1, <2>2
<1>5. PICK m \in S : \A k \in S : m <= k
  <2>1. S \subseteq Nat /\ S # {}
    BY <1>1, <1>4
  <2> HIDE DEF S
  <2> QED BY <2>1, Least
<1>6. m # 0
  BY <1>3, <1>5, SumEmpty
<1>7. m \in 1 .. n /\ m - 1 \in 0 .. n /\ m - 1 \notin S
  BY <1>1, <1>5, <1>6
<1>8. Sum(parts, m) = Sum(parts, m - 1) + parts[m]
  <2>1. m - 1 \in Nat /\ \A i \in 1 .. (m - 1) + 1 : parts[i] \in Int
    BY <1>1, <1>7
  <2>2. (m - 1) + 1 = m
    BY <1>7
  <2> QED BY <2>1, <2>2, SumNext
<1>9. MM!OffsetOf(parts, m) = Sum(parts, m - 1) /\ Sum(parts, m - 1) \in Nat /\ parts[m] \in Nat
  BY <1>1, <1>2, <1>7
<1>10. o < Sum(parts, m) /\ ~ (o < Sum(parts, m - 1))
  BY <1>5, <1>7
<1> HIDE DEF S, n
<1>11. o \in MM!OffsetOf(parts, m) .. MM!OffsetOf(parts, m) + parts[m] - 1
  BY <1>3, <1>8, <1>9, <1>10
<1>12. /\ PartOf(parts, o) \in DOMAIN parts
       /\ o \in MM!OffsetOf(parts, PartOf(parts, o))
                 .. MM!OffsetOf(parts, PartOf(parts, o)) + parts[PartOf(parts, o)] - 1
  BY <1>1, <1>7, <1>11 DEF PartOf
<1> DEFINE p == PartOf(parts, o)
           off == MM!OffsetOf(parts, p)
<1>13. off \in Nat /\ parts[p] \in Nat /\ p \in DOMAIN parts /\ RowIn(parts, o) = o - off
  BY <1>1, <1>12 DEF RowIn
<1>14. o \in off .. off + parts[p] - 1
  BY <1>12
<1> HIDE DEF p, off
<1>15. o - off \in 0 .. parts[p] - 1 /\ off + (o - off) = o
  BY <1>3, <1>13, <1>14
<1> QED BY <1>13, <1>15 DEF p, off

(* Only one row of one part is an output.                                  *)
LEMMA PartsOnce ==
  ASSUME NEW parts \in Parts, NEW p \in DOMAIN parts, NEW row \in 0 .. parts[p] - 1
  PROVE  LET o == MM!OffsetOf(parts, p) + row
         IN /\ o \in 0 .. MM!RowsOf(parts) - 1
            /\ p = PartOf(parts, o) /\ row = RowIn(parts, o)
<1> DEFINE o == MM!OffsetOf(parts, p) + row
           v == PartOf(parts, o)
           u == RowIn(parts, o)
<1>1. /\ MM!RowsOf(parts) \in Nat
      /\ DOMAIN parts \subseteq Nat
      /\ \A a \in DOMAIN parts :
           /\ parts[a] \in Nat \ {0} /\ MM!OffsetOf(parts, a) \in Nat
           /\ MM!OffsetOf(parts, a) + parts[a] <= MM!RowsOf(parts)
      /\ \A a, b \in DOMAIN parts :
           a < b => MM!OffsetOf(parts, a) + parts[a] <= MM!OffsetOf(parts, b)
  BY OffsetsAre
<1>2. o \in 0 .. MM!RowsOf(parts) - 1
  BY <1>1
<1>3. v \in DOMAIN parts /\ u \in 0 .. parts[v] - 1 /\ MM!OffsetOf(parts, v) + u = o
  BY <1>2, PartsAre
<1> HIDE DEF v, u
<1>4. p = v
  <2>1. p \in Nat /\ v \in Nat
    BY <1>1, <1>3
  <2>2. ~ (p < v)
    BY <1>1, <1>3
  <2>3. ~ (v < p)
    BY <1>1, <1>3
  <2> QED BY <2>1, <2>2, <2>3
<1>5. row = u
  BY <1>1, <1>3, <1>4
<1> HIDE DEF o
<1> QED BY <1>2, <1>4, <1>5 DEF o, u, v

(* Where the weights, scales and zero points of an output lie once they    *)
(* are interleaved.                                                        *)
WeightsAre(W, parts, words, G) ==
  \A o \in 0 .. MM!RowsOf(parts) - 1 :
    LET b == o \div Stripe
        l == o % Stripe
        p == PartOf(parts, o)
        row == RowIn(parts, o)
    IN /\ \A t \in 0 .. words - 1 : \A e \in 0 .. 7 : W.q[b][t][l][e] = <<p, row, 8 * t + e>>
       /\ \A g \in 0 .. G - 1 : W.sc[b][g][l] = <<p, row, g>> /\ W.zp[b][g][l] = <<p, row, g>>

(* A row is a lane of a stripe.                                            *)
LEMMA StripesAre ==
  ASSUME NEW n \in Nat, n % Stripe = 0, NEW o \in 0 .. n - 1
  PROVE  /\ o \div Stripe \in 0 .. n \div Stripe - 1 /\ o % Stripe \in 0 .. Stripe - 1
         /\ (o \div Stripe) * Stripe + (o % Stripe) = o
<1> DEFINE b == o \div Stripe
           l == o % Stripe
           m == n \div Stripe
<1>1. Stripe \in Nat \ {0} /\ o \in Nat
  BY TileAssumption
<1>2. b \in Nat /\ l \in Nat /\ l < Stripe /\ o = Stripe * b + l
  BY <1>1, DivMod
<1>3. m \in Nat /\ n = Stripe * m
  <2>1. n = Stripe * m + (n % Stripe)
    BY <1>1, DivMod
  <2>2. m \in Nat
    BY <1>1, DivMod
  <2> QED BY <1>1, <2>1, <2>2
<1> HIDE DEF b, l, m
<1>4. b < m
  <2> SUFFICES ASSUME b >= m PROVE FALSE
    BY <1>2, <1>3
  <2>1. Stripe * b >= Stripe * m
    BY <1>1, <1>2, <1>3
  <2>2. Stripe * b \in Nat /\ Stripe * m \in Nat
    BY <1>1, <1>2, <1>3
  <2> QED BY <1>1, <1>2, <1>3, <2>1, <2>2
<1>5. b \in 0 .. m - 1 /\ l \in 0 .. Stripe - 1 /\ b * Stripe + l = o
  BY <1>1, <1>2, <1>3, <1>4
<1> QED BY <1>5 DEF b, l, m

(* Repacked, a row's weights, scales and zero points are at its stripe and *)
(* lane.                                                                   *)
LEMMA RepackIs ==
  ASSUME NEW parts \in Parts, MM!RowsOf(parts) % Stripe = 0, NEW words \in Nat, NEW G \in Nat
  PROVE  WeightsAre(MM!Repack(parts, words, G), parts, words, G)
<1> DEFINE W == MM!Repack(parts, words, G)
           rows == UNION {{p} \X (0 .. parts[p] - 1) : p \in DOMAIN parts}
           home(b, l) == CHOOSE src \in rows : src[2] + MM!OffsetOf(parts, src[1]) = b * Stripe + l
           blocks == 0 .. MM!RowsOf(parts) \div Stripe - 1
           lanes == 0 .. Stripe - 1
<1> SUFFICES ASSUME NEW o \in 0 .. MM!RowsOf(parts) - 1
             PROVE  LET b == o \div Stripe
                        l == o % Stripe
                        p == PartOf(parts, o)
                        row == RowIn(parts, o)
                    IN /\ \A t \in 0 .. words - 1 : \A e \in 0 .. 7 : W.q[b][t][l][e] = <<p, row, 8 * t + e>>
                       /\ \A g \in 0 .. G - 1 : W.sc[b][g][l] = <<p, row, g>> /\ W.zp[b][g][l] = <<p, row, g>>
  BY DEF WeightsAre
<1> DEFINE b == o \div Stripe
           l == o % Stripe
           p == PartOf(parts, o)
           row == RowIn(parts, o)
<1>0. MM!RowsOf(parts) \in Nat
  BY OffsetsAre
<1>1. b \in blocks /\ l \in lanes /\ b * Stripe + l = o
  BY <1>0, StripesAre
<1>2. p \in DOMAIN parts /\ row \in 0 .. parts[p] - 1 /\ MM!OffsetOf(parts, p) + row = o
  BY PartsAre
<1>3. \A a \in DOMAIN parts : MM!OffsetOf(parts, a) \in Nat /\ parts[a] \in Nat
  BY OffsetsAre
<1>4. home(b, l) = <<p, row>>
  <2>1. <<p, row>> \in rows
    BY <1>2
  <2>2. row + MM!OffsetOf(parts, p) = b * Stripe + l
    BY <1>1, <1>2, <1>3
  <2>3. ASSUME NEW src \in rows, src[2] + MM!OffsetOf(parts, src[1]) = b * Stripe + l
        PROVE  src = <<p, row>>
    <3>1. /\ src[1] \in DOMAIN parts /\ src[2] \in 0 .. parts[src[1]] - 1
          /\ src = <<src[1], src[2]>>
      OBVIOUS
    <3>2. MM!OffsetOf(parts, src[1]) + src[2] = o
      BY <1>1, <1>3, <2>3, <3>1
    <3>3. src[1] = p /\ src[2] = row
      BY <3>1, <3>2, PartsOnce
    <3> QED BY <3>1, <3>3
  <2> HIDE DEF b, l, p, row, rows
  <2> QED BY <2>1, <2>2, <2>3
<1> DEFINE homes == [c \in blocks |-> [d \in lanes |-> home(c, d)]]
<1>5. W = [q |-> [c \in blocks |-> [t \in 0 .. words - 1 |-> [d \in lanes |->
                   MM!DiskWord(homes[c][d][1], homes[c][d][2], t)]]],
           sc |-> [c \in blocks |-> [g \in 0 .. G - 1 |-> [d \in lanes |->
                   <<homes[c][d][1], homes[c][d][2], g>>]]],
           zp |-> [c \in blocks |-> [g \in 0 .. G - 1 |-> [d \in lanes |->
                   MM!DiskZeros(homes[c][d][1], homes[c][d][2] \div 8, g)[homes[c][d][2] % 8]]]]]
  BY DEF MM!Repack
<1>6. /\ \A t \in 0 .. words - 1 : W.q[b][t][l] = MM!DiskWord(homes[b][l][1], homes[b][l][2], t)
      /\ \A g \in 0 .. G - 1 :
           /\ W.sc[b][g][l] = <<homes[b][l][1], homes[b][l][2], g>>
           /\ W.zp[b][g][l] = MM!DiskZeros(homes[b][l][1], homes[b][l][2] \div 8, g)[homes[b][l][2] % 8]
  <2> HIDE DEF W, b, l, homes, p, row
  <2> QED BY <1>1, <1>5
<1>7. homes[b][l][1] = p /\ homes[b][l][2] = row /\ row \in Nat
  <2>1. homes[b][l] = home(b, l)
    <3> HIDE DEF b, l, home
    <3> QED BY <1>1
  <2>2. row \in Nat
    BY <1>2
  <2> HIDE DEF homes, home, b, l, p, row
  <2> QED BY <1>4, <2>1, <2>2
<1> HIDE DEF W, homes, home, b, l, p, row
<1>8. ASSUME NEW t \in 0 .. words - 1, NEW e \in 0 .. 7
      PROVE  W.q[b][t][l][e] = <<p, row, 8 * t + e>>
  <2>1. W.q[b][t][l] = MM!DiskWord(p, row, t)
    BY <1>6, <1>7
  <2> QED BY <2>1 DEF MM!DiskWord
<1>9. ASSUME NEW g \in 0 .. G - 1 PROVE W.sc[b][g][l] = <<p, row, g>> /\ W.zp[b][g][l] = <<p, row, g>>
  <2>1. row % 8 \in 0 .. 7 /\ 8 * (row \div 8) + (row % 8) = row
    BY <1>7
  <2> QED BY <1>6, <1>7, <2>1 DEF MM!DiskZeros
<1> QED BY <1>8, <1>9 DEF b, l, p, row

(* Sharing n groups out to splits, each of at most `per` of them.          *)
Share(n, per, split) == {g \in 0 .. n - 1 : split * per <= g /\ g < (split + 1) * per}

(* Shares that are large enough together have each group in exactly one.   *)
LEMMA Shares ==
  ASSUME NEW n \in Nat, NEW per \in Nat, NEW splits \in Nat \ {0}, n <= splits * per
  PROVE  /\ \A g \in 0 .. n - 1 : \E s \in 0 .. splits - 1 : g \in Share(n, per, s)
         /\ \A s, t \in 0 .. splits - 1 : \A g :
              g \in Share(n, per, s) /\ g \in Share(n, per, t) => s = t
<1>1. ASSUME NEW g \in 0 .. n - 1
      PROVE  \E s \in 0 .. splits - 1 : g \in Share(n, per, s)
  <2>1. per # 0
    <3> SUFFICES ASSUME per = 0 PROVE FALSE
      OBVIOUS
    <3>1. splits * per = 0
      OBVIOUS
    <3> QED BY <3>1
  <2> DEFINE s == g \div per
             e == g % per
  <2>2. s \in Nat /\ e \in Nat /\ e < per /\ g = per * s + e
    BY <2>1, DivMod
  <2> HIDE DEF s, e
  <2>3. s < splits
    <3> SUFFICES ASSUME splits <= s PROVE FALSE
      BY <2>2
    <3>1. splits * per <= s * per
      BY <2>2
    <3>2. s * per = per * s /\ s * per \in Nat /\ splits * per \in Nat
      BY <2>2
    <3> QED BY <2>2, <3>1, <3>2
  <2>4. s * per = per * s /\ (s + 1) * per = per * s + per /\ per * s \in Nat
    BY <2>2
  <2>5. s \in 0 .. splits - 1 /\ g \in Share(n, per, s)
    BY <2>2, <2>3, <2>4 DEF Share
  <2> QED BY <2>5
<1>2. ASSUME NEW s \in 0 .. splits - 1, NEW t \in 0 .. splits - 1, NEW g,
             g \in Share(n, per, s), g \in Share(n, per, t), s < t
      PROVE  FALSE
  <2>1. (s + 1) * per <= t * per
    BY <1>2
  <2>2. (s + 1) * per \in Nat /\ t * per \in Nat
    OBVIOUS
  <2> QED BY <1>2, <2>1, <2>2 DEF Share
<1>3. ASSUME NEW s \in 0 .. splits - 1, NEW t \in 0 .. splits - 1, NEW g,
             g \in Share(n, per, s), g \in Share(n, per, t)
      PROVE  s = t
  <2>1. ~ (s < t) /\ ~ (t < s)
    BY <1>2, <1>3
  <2> QED BY <2>1
<1> QED BY <1>1, <1>3

(* An even share, as the GEMV kernels take it.                             *)
LEMMA EvenShares ==
  ASSUME NEW n \in Nat, NEW splits \in Nat \ {0}, n % splits = 0
  PROVE  LET per == n \div splits
         IN /\ per \in Nat /\ n <= splits * per
            /\ \A s \in 0 .. splits - 1 :
                 s * per .. MM!Min2((s + 1) * per, n) - 1 = Share(n, per, s)
<1> DEFINE per == n \div splits
<1>1. per \in Nat /\ n = splits * per
  <2>1. per \in Nat /\ n = splits * per + (n % splits)
    BY DivMod
  <2>2. splits * per \in Nat
    BY <2>1
  <2> QED BY <2>1, <2>2
<1> HIDE DEF per
<1>2. ASSUME NEW s \in 0 .. splits - 1
      PROVE  s * per .. MM!Min2((s + 1) * per, n) - 1 = Share(n, per, s)
  <2>1. s * per \in Nat /\ (s + 1) * per \in Nat
    BY <1>1
  <2> QED BY <2>1 DEF Share, MM!Min2
<1> QED BY <1>1, <1>2 DEF per

(* An input is in one group, at one place in it.                           *)
LEMMA GroupsAre ==
  ASSUME NEW q \in Products, q.kind \in ByRow
  PROVE  LET G == q.in \div q.group
         IN /\ G \in Nat /\ q.group \in Nat \ {0} /\ q.group % 32 = 0
            /\ \A k \in 0 .. q.in - 1 :
                 /\ k \div q.group \in 0 .. G - 1 /\ k % q.group \in 0 .. q.group - 1
                 /\ q.group * (k \div q.group) + (k % q.group) = k
            /\ \A g \in 0 .. G - 1 : \A e \in 0 .. q.group - 1 :
                 /\ q.group * g + e \in 0 .. q.in - 1
                 /\ (q.group * g + e) \div q.group = g /\ (q.group * g + e) % q.group = e
<1> DEFINE G == q.in \div q.group
           d == q.group
           in == q.in
<1>1. d \in Nat \ {0} /\ d % 32 = 0 /\ in \in Nat /\ in % d = 0
  BY ProductAssumption
<1>2. G \in Nat /\ in = d * G
  <2>1. in \div d \in Nat /\ in = d * (in \div d) + (in % d)
    BY <1>1, DivMod
  <2>2. d * (in \div d) \in Nat
    BY <1>1, <2>1
  <2> QED BY <1>1, <2>1, <2>2
<1> HIDE DEF d, in, G
<1>3. ASSUME NEW k \in 0 .. in - 1
      PROVE  k \div d \in 0 .. G - 1 /\ k % d \in 0 .. d - 1 /\ d * (k \div d) + (k % d) = k
  <2> DEFINE g == k \div d
             e == k % d
  <2>1. k \in Nat /\ k < in
    BY <1>1
  <2>2. g \in Nat /\ e \in Nat /\ e < d /\ k = d * g + e
    BY <1>1, <2>1, DivMod
  <2> HIDE DEF g, e
  <2>3. g < G
    <3> SUFFICES ASSUME G <= g PROVE FALSE
      BY <1>2, <2>2
    <3>1. d * G <= d * g /\ d * g \in Nat
      BY <1>1, <1>2, <2>2
    <3> QED BY <1>1, <1>2, <2>1, <2>2, <3>1
  <2>4. g \in 0 .. G - 1 /\ e \in 0 .. d - 1 /\ d * g + e = k
    BY <1>1, <1>2, <2>2, <2>3
  <2> QED BY <2>4 DEF g, e
<1>4. ASSUME NEW g \in 0 .. G - 1, NEW e \in 0 .. d - 1
      PROVE  d * g + e \in 0 .. in - 1 /\ (d * g + e) \div d = g /\ (d * g + e) % d = e
  <2>1. g \in Nat /\ e \in Nat /\ e < d
    BY <1>1, <1>2
  <2>2. (d * g + e) \div d = g /\ (d * g + e) % d = e
    BY <1>1, <2>1, DivUnique
  <2>3. d * g + d <= d * G /\ d * g \in Nat /\ d * G \in Nat
    <3>1. g + 1 <= G
      BY <1>2
    <3>2. d * (g + 1) <= d * G
      BY <1>1, <1>2, <2>1, <3>1
    <3>3. d * (g + 1) = d * g + d
      BY <1>1, <2>1
    <3> QED BY <1>1, <1>2, <2>1, <3>2, <3>3
  <2> QED BY <1>1, <1>2, <2>1, <2>2, <2>3
<1> QED BY <1>1, <1>2, <1>3, <1>4 DEF d, in, G

(* What the kernels are told is what the product is.                       *)
LEMMA LaunchIs ==
  ASSUME NEW q \in Products
  PROVE  /\ LaunchOf(q).in = q.in /\ LaunchOf(q).out = MM!RowsOf(q.parts)
         /\ LaunchOf(q).group = q.group /\ LaunchOf(q).G = q.in \div q.group
         /\ LaunchOf(q).splits = q.splits /\ LaunchOf(q).wbufRows = q.wbufRows
         /\ q.parts \in Parts /\ MM!RowsOf(q.parts) \in Nat \ {0} /\ q.in \in Nat \ {0}
BY ProductAssumption, OffsetsAre DEF LaunchOf, Parts

(* A head is one part.                                                     *)
LEMMA HeadRow ==
  ASSUME NEW q \in Products, Len(q.parts) = 1, NEW o \in 0 .. MM!RowsOf(q.parts) - 1
  PROVE  PartOf(q.parts, o) = 1 /\ RowIn(q.parts, o) = o /\ MM!OffsetOf(q.parts, 1) = 0
         /\ DOMAIN q.parts = {1} /\ q.parts[1] = MM!RowsOf(q.parts)
<1>1. DOMAIN q.parts = 1 .. 1 /\ MM!RowsOf(q.parts) \in Nat
  BY LaunchIs, OffsetsAre
<1>2. PartOf(q.parts, o) = 1
  BY <1>1, LaunchIs, PartsAre
<1>3. MM!OffsetOf(q.parts, 1) = 0
  <2>1. 1 - 1 = 0
    OBVIOUS
  <2> QED BY <2>1, ProductSums, SumEmpty DEF MM!OffsetOf
<1>4. q.parts[1] = MM!RowsOf(q.parts)
  <2>1. q.parts[1] \in Int
    BY <1>1, LaunchIs, OffsetsAre
  <2>2. \A i \in 1 .. 0 + 1 : q.parts[i] \in Int
    BY <2>1
  <2>3. Sum(q.parts, 0 + 1) = Sum(q.parts, 0) + q.parts[0 + 1]
    BY <2>2, SumNext
  <2>4. MM!RowsOf(q.parts) = Sum(q.parts, 1) /\ Sum(q.parts, 0) = 0
    BY ProductSums, SumEmpty DEF MM!RowsOf
  <2> QED BY <2>1, <2>3, <2>4
<1> QED BY <1>1, <1>2, <1>3, <1>4 DEF RowIn

(* Weights of eight bits are at their stripe and lane too.                 *)
Quantised(W, o, in, G) ==
  /\ \A k \in 0 .. in - 1 : W.q[o \div Stripe][k][o % Stripe] = <<1, o, k>>
  /\ \A g \in 0 .. G - 1 : W.sc[o \div Stripe][g][o % Stripe] = <<1, o, g>>

LEMMA Quant8Is ==
  ASSUME NEW out \in Nat, out % Stripe = 0, NEW in, NEW G, NEW o \in 0 .. out - 1
  PROVE  Quantised(MM!QuantW8(out, in, G), o, in, G)
<1> DEFINE b == o \div Stripe
           l == o % Stripe
           W == MM!QuantW8(out, in, G)
           blocks == 0 .. out \div Stripe - 1
           lanes == 0 .. Stripe - 1
<1>1. b \in blocks /\ l \in lanes /\ b * Stripe + l = o
  BY StripesAre
<1>2. W = [q |-> [c \in blocks |-> [k \in 0 .. in - 1 |-> [d \in lanes |-> <<1, c * Stripe + d, k>>]]],
           sc |-> [c \in blocks |-> [g \in 0 .. G - 1 |-> [d \in lanes |-> <<1, c * Stripe + d, g>>]]]]
  BY DEF MM!QuantW8
<1> HIDE DEF b, l, W
<1>3. /\ \A k \in 0 .. in - 1 : W.q[b][k][l] = <<1, o, k>>
      /\ \A g \in 0 .. G - 1 : W.sc[b][g][l] = <<1, o, g>>
  BY <1>1, <1>2
<1> QED BY <1>3 DEF b, l, W, Quantised

(* The same of the head of a product.                                      *)
LEMMA HeadLoaded ==
  ASSUME NEW q \in Products, q.kind = "head8", NEW o \in 0 .. MM!RowsOf(q.parts) - 1
  PROVE  /\ \A k \in 0 .. q.in - 1 : Loaded(q).q[o \div Stripe][k][o % Stripe] = <<1, o, k>>
         /\ \A g \in 0 .. q.in \div q.group - 1 :
              Loaded(q).sc[o \div Stripe][g][o % Stripe] = <<1, o, g>>
<1> DEFINE out == MM!RowsOf(q.parts)
           G == q.in \div q.group
<1>1. Loaded(q) = MM!QuantW8(out, q.in, G)
  BY DEF Loaded, ZeroPointed
<1>2. out \in Nat /\ out % Stripe = 0 /\ q.in \in Nat
  BY LaunchIs, ProductAssumption DEF ByRow
<1>3. G \in Nat
  BY GroupsAre DEF ByRow
<1>4. o \in 0 .. out - 1
  OBVIOUS
<1> HIDE DEF out, G
<1>5. Quantised(MM!QuantW8(out, q.in, G), o, q.in, G)
  BY <1>2, <1>3, <1>4, Quant8Is
<1> QED BY <1>1, <1>5 DEF G, Quantised

(* Every split of the kernel over eight bits, put together, is the sum     *)
(* sought.                                                                 *)
LEMMA Gemm8Is ==
  ASSUME NEW q \in Products, q.kind = "head8", NEW o \in 0 .. MM!RowsOf(q.parts) - 1,
         NEW i \in Nat, NEW r \in Nat
  PROVE  LET w == LaunchOf(q)
         IN MM!SumOf(MM!Reduced([k \in 0 .. w.splits - 1 |->
              MM!Gemm8Terms(Loaded(q), w, i * w.in, r, o, k, w.splits)])) = Sought(q, i + r, o)
<1> DEFINE w == LaunchOf(q)
           W == Loaded(q)
           b == o \div Stripe
           l == o % Stripe
           in == q.in
           G == q.in \div q.group
           per == G \div q.splits
           K == 0 .. q.splits - 1
           spots(k) == {"q"} \X Share(G, per, k) \X (0 .. q.group - 1)
           partial == [k \in K |-> MM!Gemm8Terms(W, w, i * w.in, r, o, k, w.splits)]
           place == [st \in {"q"} \X (0 .. G - 1) \X (0 .. q.group - 1) |-> <<"q", q.group * st[2] + st[3]>>]
<1>1. /\ w.in = q.in /\ w.group = q.group /\ w.G = G /\ w.splits = q.splits
      /\ q.in \in Nat /\ MM!RowsOf(q.parts) \in Nat
  BY LaunchIs
<1>2. /\ q.splits \in Nat \ {0} /\ G % q.splits = 0 /\ Len(q.parts) = 1
      /\ MM!RowsOf(q.parts) % Stripe = 0
  BY ProductAssumption DEF ByRow
<1>3. /\ G \in Nat /\ q.group \in Nat \ {0}
      /\ \A k \in 0 .. q.in - 1 :
           /\ k \div q.group \in 0 .. G - 1 /\ k % q.group \in 0 .. q.group - 1
           /\ q.group * (k \div q.group) + (k % q.group) = k
      /\ \A g \in 0 .. G - 1 : \A e \in 0 .. q.group - 1 :
           /\ q.group * g + e \in 0 .. q.in - 1
           /\ (q.group * g + e) \div q.group = g /\ (q.group * g + e) % q.group = e
  BY GroupsAre DEF ByRow
<1>4. /\ per \in Nat /\ G <= q.splits * per
      /\ \A s \in K : s * per .. MM!Min2((s + 1) * per, G) - 1 = Share(G, per, s)
  BY <1>2, <1>3, EvenShares
<1>5. /\ \A g \in 0 .. G - 1 : \E s \in K : g \in Share(G, per, s)
      /\ \A s, t \in K : \A g : g \in Share(G, per, s) /\ g \in Share(G, per, t) => s = t
  <2> HIDE DEF G, per
  <2> QED BY <1>2, <1>3, <1>4, Shares, ZenonT(60)
<1>6. /\ \A k \in 0 .. q.in - 1 : W.q[b][k][l] = <<1, o, k>>
      /\ \A g \in 0 .. G - 1 : W.sc[b][g][l] = <<1, o, g>>
  BY HeadLoaded
<1>7. PartOf(q.parts, o) = 1 /\ RowIn(q.parts, o) = o
  BY <1>2, HeadRow
<1>8. Spots(q) = {"q"} \X (0 .. q.in - 1)
  BY DEF Spots, ZeroPointed
<1>9. \A g : \A k \in K : g \in Share(G, per, k) => g \in 0 .. G - 1
  BY DEF Share
<1>10. ASSUME NEW k \in 0 .. q.in - 1
       PROVE  Term(q, i + r, o, "q", k) = <<"q", <<1, o, k>>, <<1, o, k \div q.group>>, (i + r) * in + k>>
  BY <1>7 DEF Term, ByRow
<1>11. (i + r) * in = i * in + r * in /\ i * in \in Nat /\ r * in \in Nat
  BY <1>1
<1>12. ASSUME NEW k \in K
       PROVE  partial[k] = [st \in spots(k) |->
                <<"q", W.q[b][st[2] * q.group + st[3]][l], W.sc[b][st[2]][l],
                  i * in + r * in + st[2] * q.group + st[3]>>]
  <2>1. partial[k] = MM!Gemm8Terms(W, w, i * w.in, r, o, k, w.splits)
    OBVIOUS
  <2>2. k * per .. MM!Min2((k + 1) * per, G) - 1 = Share(G, per, k)
    BY <1>4
  <2> HIDE DEF W, w, partial
  <2> QED BY <2>1, <2>2, <1>1 DEF MM!Gemm8Terms
<1>13. \A st \in {"q"} \X (0 .. G - 1) \X (0 .. q.group - 1) : place[st] = <<"q", q.group * st[2] + st[3]>>
  OBVIOUS
<1>14. DOMAIN partial = K
  OBVIOUS
<1> HIDE DEF W, w, G, per, b, l, partial, place, K
<1>15. ASSUME NEW k \in K, NEW st \in spots(k)
       PROVE  /\ st[2] \in 0 .. G - 1 /\ st[3] \in 0 .. q.group - 1 /\ st = <<"q", st[2], st[3]>>
              /\ st[2] \in Share(G, per, k)
              /\ place[st] = <<"q", q.group * st[2] + st[3]>>
  <2>1. st[2] \in Share(G, per, k) /\ st[3] \in 0 .. q.group - 1 /\ st = <<"q", st[2], st[3]>>
    OBVIOUS
  <2>2. st[2] \in 0 .. G - 1
    BY <2>1, <1>9
  <2> QED BY <2>1, <2>2, <1>13
<1>16. ASSUME NEW k \in K, NEW st \in DOMAIN partial[k]
       PROVE  /\ place[st] \in Spots(q)
              /\ partial[k][st] = Term(q, i + r, o, place[st][1], place[st][2])
  <2>1. st \in spots(k)
    BY <1>12
  <2> DEFINE g == st[2]
             e == st[3]
             c == q.group * g + e
  <2>2. g \in 0 .. G - 1 /\ e \in 0 .. q.group - 1 /\ place[st] = <<"q", c>>
    BY <2>1, <1>15
  <2>3. c \in 0 .. q.in - 1 /\ c \div q.group = g
    BY <2>2, <1>3
  <2>4. partial[k][st] = <<"q", W.q[b][g * q.group + e][l], W.sc[b][g][l], i * in + r * in + g * q.group + e>>
    BY <2>1, <1>12
  <2>5. g * q.group + e = c /\ i * in + r * in + g * q.group + e = (i + r) * in + c
    <3>1. g * q.group = q.group * g /\ q.group * g \in Nat
      BY <2>2, <1>3
    <3> QED BY <3>1, <2>2, <1>3, <1>11
  <2> HIDE DEF g, e, c
  <2>6. partial[k][st] = Term(q, i + r, o, "q", c)
    BY <2>2, <2>3, <2>4, <2>5, <1>6, <1>10
  <2> QED BY <2>2, <2>3, <2>6, <1>8
<1>17. ASSUME NEW j \in K, NEW k \in K, NEW s \in DOMAIN partial[j], NEW t \in DOMAIN partial[k],
              place[s] = place[t]
       PROVE  j = k /\ s = t
  <2>1. s \in spots(j) /\ t \in spots(k)
    BY <1>12
  <2>2. q.group * s[2] + s[3] = q.group * t[2] + t[3]
    BY <2>1, <1>15, <1>17
  <2>3. s[2] = t[2] /\ s[3] = t[3]
    <3>1. /\ s[2] \in 0 .. G - 1 /\ s[3] \in 0 .. q.group - 1
          /\ t[2] \in 0 .. G - 1 /\ t[3] \in 0 .. q.group - 1
      BY <2>1, <1>15
    <3>2. (q.group * s[2] + s[3]) \div q.group = s[2] /\ (q.group * s[2] + s[3]) % q.group = s[3]
      BY <3>1, <1>3
    <3>3. (q.group * t[2] + t[3]) \div q.group = t[2] /\ (q.group * t[2] + t[3]) % q.group = t[3]
      BY <3>1, <1>3
    <3> QED BY <2>2, <3>2, <3>3
  <2> QED BY <2>1, <2>3, <1>15, <1>5
<1>18. ASSUME NEW s \in Spots(q) PROVE \E k \in K : \E st \in DOMAIN partial[k] : place[st] = s
  <2>1. PICK c \in 0 .. q.in - 1 : s = <<"q", c>>
    BY <1>8
  <2> DEFINE g == c \div q.group
             e == c % q.group
  <2>2. g \in 0 .. G - 1 /\ e \in 0 .. q.group - 1 /\ q.group * g + e = c
    BY <1>3
  <2> HIDE DEF g, e
  <2>3. PICK k \in K : g \in Share(G, per, k)
    BY <2>2, <1>5
  <2>4. <<"q", g, e>> \in spots(k)
    BY <2>2, <2>3
  <2>5. place[<<"q", g, e>>] = s
    BY <2>1, <2>2, <1>13
  <2> QED BY <2>4, <2>5, <1>12
<1>19. MM!SumOf(MM!Reduced(partial)) = Sought(q, i + r, o)
  <2>1. i + r \in Nat
    OBVIOUS
  <2> HIDE DEF in
  <2> QED BY <2>1, <1>14, <1>16, <1>17, <1>18, OnceInSplits
<1>20. partial = [k \in 0 .. w.splits - 1 |-> MM!Gemm8Terms(W, w, i * w.in, r, o, k, w.splits)]
  BY <1>1 DEF partial, K
<1> QED BY <1>19, <1>20 DEF W, w

(* The threads of k_prep sum the activations of a whole group.             *)
OfGroup(v, x, in, r, g, group) == \E e \in 0 .. group - 1 : v = x + r * in + g * group + e

(* The threads of k_prep sum the activations of a group, each once.        *)
LEMMA GroupSummed ==
  ASSUME NEW x \in Nat, NEW in \in Nat, NEW r \in Nat, NEW g \in Nat,
         NEW group \in Nat, group # 0, group % 32 = 0
  PROVE  \A v : v \in MM!XGroupSum(x, in, r, g, group)
                 <=> OfGroup(v, x, in, r, g, group)
<1> DEFINE d == MM!Min2(group, 256)
           start == x + r * in + g * group
           turns(thread) == 0 .. (group - thread - 1) \div d
           threads == 0 .. 32 * (d \div 32) - 1
<1>1. d \in Nat \ {0} /\ d <= group /\ 32 * (d \div 32) = d
  BY DEF MM!Min2
<1>2. start \in Nat
  <2>1. r * in \in Nat /\ g * group \in Nat
    OBVIOUS
  <2> QED BY <2>1
<1>3. MM!XGroupSum(x, in, r, g, group)
        = UNION {{start + thread + d * i : i \in turns(thread)} : thread \in threads}
  BY DEF MM!XGroupSum, MM!WARP
<1> HIDE DEF d, start
<1>4. ASSUME NEW thread \in threads, NEW i \in turns(thread)
      PROVE  thread + d * i \in 0 .. group - 1
  <2>1. thread \in Nat /\ thread < d /\ i \in Nat
    BY <1>1
  <2> DEFINE y == group - thread - 1
             z == y \div d
  <2>2. y \in Nat
    BY <1>1, <2>1
  <2> HIDE DEF y
  <2>3. z \in Nat /\ y = d * z + (y % d) /\ y % d \in Nat
    BY <1>1, <2>2, DivMod
  <2>4. i <= z
    BY <2>3 DEF y
  <2> HIDE DEF z
  <2>5. d * i <= d * z /\ d * i \in Nat /\ d * z \in Nat
    BY <1>1, <2>1, <2>3, <2>4
  <2>6. d * i <= y
    BY <2>2, <2>3, <2>5
  <2> QED BY <2>1, <2>2, <2>5, <2>6 DEF y
<1>5. ASSUME NEW e \in 0 .. group - 1
      PROVE  \E thread \in threads : \E i \in turns(thread) : e = thread + d * i
  <2> DEFINE t == e % d
             i == e \div d
  <2>1. t \in Nat /\ i \in Nat /\ t < d /\ e = d * i + t
    BY <1>1, DivMod
  <2> HIDE DEF t, i
  <2>2. t \in threads
    BY <1>1, <2>1
  <2> DEFINE y == group - t - 1
             z == y \div d
             m == y % d
  <2>3. y \in Nat /\ d * i \in Nat /\ d * i <= y
    BY <1>1, <2>1
  <2> HIDE DEF y
  <2>4. z \in Nat /\ y = d * z + m /\ m \in Nat /\ m < d
    BY <1>1, <2>3, DivMod
  <2> HIDE DEF z, m
  <2>5. i <= z
    <3> SUFFICES ASSUME z < i PROVE FALSE
      BY <2>1, <2>4
    <3>1. z + 1 <= i
      BY <2>1, <2>4
    <3>2. d * (z + 1) <= d * i
      BY <1>1, <2>1, <2>4, <3>1
    <3>3. d * (z + 1) = d * z + d /\ d * z \in Nat
      BY <1>1, <2>4
    <3> QED BY <1>1, <2>3, <2>4, <3>2, <3>3
  <2>6. i \in turns(t)
    BY <2>1, <2>4, <2>5 DEF y, z
  <2>7. e = t + d * i
    BY <2>1, <2>3
  <2> HIDE DEF threads, turns
  <2> QED BY <2>2, <2>6, <2>7
<1>6. ASSUME NEW v PROVE v \in MM!XGroupSum(x, in, r, g, group)
                          <=> v \in {start + e : e \in 0 .. group - 1}
  <2>1. ASSUME v \in MM!XGroupSum(x, in, r, g, group) PROVE v \in {start + e : e \in 0 .. group - 1}
    <3>1. PICK thread \in threads : \E i \in turns(thread) : v = start + thread + d * i
      BY <1>3, <2>1
    <3>2. PICK i \in turns(thread) : v = start + thread + d * i
      BY <3>1
    <3>3. thread + d * i \in 0 .. group - 1 /\ thread \in Nat /\ d * i \in Int
      <4>1. thread \in Nat /\ i \in Int
        BY <1>1
      <4> QED BY <1>1, <1>4, <4>1
    <3>4. v = start + (thread + d * i)
      BY <1>2, <3>2, <3>3
    <3> QED BY <3>3, <3>4
  <2>2. ASSUME NEW e \in 0 .. group - 1, v = start + e PROVE v \in MM!XGroupSum(x, in, r, g, group)
    <3>1. PICK thread \in threads : \E i \in turns(thread) : e = thread + d * i
      BY <1>5
    <3>2. PICK i \in turns(thread) : e = thread + d * i
      BY <3>1
    <3>3. thread \in Nat /\ d * i \in Int
      <4>1. thread \in Nat /\ i \in Int
        BY <1>1
      <4> QED BY <1>1, <4>1
    <3>4. v = start + thread + d * i
      BY <1>2, <2>2, <3>2, <3>3
    <3> QED BY <1>3, <3>2, <3>4
  <2>3. v \in {start + e : e \in 0 .. group - 1} => v \in MM!XGroupSum(x, in, r, g, group)
    <3> SUFFICES ASSUME v \in {start + e : e \in 0 .. group - 1}
                 PROVE  v \in MM!XGroupSum(x, in, r, g, group)
      OBVIOUS
    <3>1. PICK e \in 0 .. group - 1 : v = start + e
      OBVIOUS
    <3> QED BY <3>1, <2>2
  <2> QED BY <2>1, <2>3
<1> QED BY <1>6 DEF start, OfGroup

(* Four-bit weights are where their readers look for them.                 *)
LEMMA WeightsLoaded ==
  ASSUME NEW q \in Products, q.kind \in ZeroPointed, NEW o \in 0 .. MM!RowsOf(q.parts) - 1
  PROVE  LET W == Loaded(q)
             b == o \div Stripe
             l == o % Stripe
             p == PartOf(q.parts, o)
             row == RowIn(q.parts, o)
         IN /\ \A k \in 0 .. q.in - 1 : \A t, e : t \in Nat /\ e \in 0 .. 7 /\ 8 * t + e = k =>
                 W.q[b][t][l][e] = <<p, row, k>>
            /\ \A g \in 0 .. q.in \div q.group - 1 :
                 W.sc[b][g][l] = <<p, row, g>> /\ W.zp[b][g][l] = <<p, row, g>>
<1> DEFINE words == q.in \div 8
           G == q.in \div q.group
           W == Loaded(q)
           b == o \div Stripe
           l == o % Stripe
           p == PartOf(q.parts, o)
           row == RowIn(q.parts, o)
<1>1. W = MM!Repack(q.parts, words, G)
  BY DEF Loaded, ZeroPointed
<1>2. /\ q.parts \in Parts /\ MM!RowsOf(q.parts) % Stripe = 0 /\ q.in \in Nat /\ q.in % 32 = 0
      /\ words \in Nat /\ q.in = 8 * words
  <2>1. /\ q.parts \in Parts /\ q.in \in Nat /\ q.in % MMA_BK = 0 /\ MM!RowsOf(q.parts) % Stripe = 0
        /\ MMA_BK \in Nat \ {0} /\ MMA_BK % 32 = 0
    BY LaunchIs, ProductAssumption, TileAssumption DEF ByRow
  <2>2. q.in % 32 = 0
    <3> DEFINE m == q.in \div MMA_BK
               u == MMA_BK \div 32
    <3>1. m \in Nat /\ q.in = MMA_BK * m + 0
      BY <2>1, DivMod
    <3>2. u \in Nat /\ MMA_BK = 32 * u
      BY <2>1
    <3> HIDE DEF m, u
    <3>3. q.in = 32 * (u * m) /\ u * m \in Nat
      BY <3>1, <3>2
    <3> DEFINE v == u * m
    <3> HIDE DEF v
    <3>4. q.in = 32 * v /\ v \in Nat
      BY <3>3 DEF v
    <3> QED BY <3>4
  <2>3. words \in Nat /\ q.in = 8 * words
    BY <2>1, <2>2
  <2> QED BY <2>1, <2>2, <2>3
<1>3. G \in Nat
  BY GroupsAre DEF ByRow
<1> HIDE DEF words, G, W
<1>4. WeightsAre(W, q.parts, words, G)
  BY <1>1, <1>2, <1>3, RepackIs
<1>5. /\ \A t \in 0 .. words - 1 : \A e \in 0 .. 7 : W.q[b][t][l][e] = <<p, row, 8 * t + e>>
      /\ \A g \in 0 .. G - 1 : W.sc[b][g][l] = <<p, row, g>> /\ W.zp[b][g][l] = <<p, row, g>>
  BY <1>4 DEF WeightsAre
<1> HIDE DEF b, l, p, row
<1>6. ASSUME NEW k \in 0 .. q.in - 1, NEW t \in Nat, NEW e \in 0 .. 7, 8 * t + e = k
      PROVE  W.q[b][t][l][e] = <<p, row, k>>
  <2>1. t \in 0 .. words - 1
    BY <1>2, <1>6
  <2> QED BY <2>1, <1>5, <1>6
<1> QED BY <1>5, <1>6 DEF b, l, p, row, G, W

(* What the terms of a number are when weights have four bits.             *)
LEMMA TermsAre ==
  ASSUME NEW q \in Products, q.kind \in ZeroPointed, NEW r, NEW o
  PROVE  /\ Spots(q) = {"q", "z"} \X (0 .. q.in - 1)
         /\ \A k \in 0 .. q.in - 1 :
              LET p == PartOf(q.parts, o)
                  row == RowIn(q.parts, o)
                  g == k \div q.group
              IN /\ Term(q, r, o, "q", k) = <<"q", <<p, row, k>>, <<p, row, g>>, r * q.in + k>>
                 /\ Term(q, r, o, "z", k) = <<"z", <<p, row, g>>, <<p, row, g>>, r * q.in + k>>
BY DEF Spots, Term, ByRow

(* A split of k_gemv, in terms of the inputs it multiplies.                *)
LEMMA GemvIs ==
  ASSUME NEW q \in Products, q.kind = "awq", q.T <= GemvMaxT,
         NEW o \in 0 .. MM!RowsOf(q.parts) - 1, NEW i \in Nat, NEW r \in Nat
  PROVE  LET w == LaunchOf(q)
         IN MM!SumOf(MM!Reduced([k \in 0 .. w.splits - 1 |->
              MM!GemvTerms(Loaded(q), w, i * w.in, r, o, k, w.splits)])) = Sought(q, i + r, o)
<1> DEFINE w == LaunchOf(q)
           W == Loaded(q)
           b == o \div Stripe
           l == o % Stripe
           p == PartOf(q.parts, o)
           row == RowIn(q.parts, o)
           G == q.in \div q.group
           wpg == q.group \div 8
           per == G \div q.splits
           K == 0 .. q.splits - 1
           base == (i + r) * q.in
           half(h) == IF h = 2 THEN 4 ELSE 0
           u4(t, e, h) == 8 * t + e + half(h)
           at(g, u) == q.group * g + u
           share(k) == k * (w.G \div w.splits) .. MM!Min2((k + 1) * (w.G \div w.splits), w.G) - 1
           products(k) == {"q"} \X share(k) \X (0 .. (w.group \div 8) - 1) \X (0 .. 3) \X {1, 2}
           corrections(k) ==
             UNION {{<<"z", g, x>> : x \in MM!XGroupSum(i * w.in, w.in, r, g, w.group)} : g \in share(k)}
           value(st) ==
             IF st[1] = "z" THEN <<"z", W.zp[b][st[2]][l], W.sc[b][st[2]][l], st[3]>>
             ELSE <<"q", MM!nib2(W.q[b][st[2] * (w.group \div 8) + st[3]][l], st[4])[st[5]],
                    W.sc[b][st[2]][l], i * w.in + r * w.in + st[2] * w.group + 8 * st[3] + (st[4] + half(st[5]))>>
           spot(st) == IF st[1] = "z" THEN <<"z", st[3] - base>>
                       ELSE <<"q", q.group * st[2] + (8 * st[3] + st[4] + half(st[5]))>>
           partial == [k \in K |-> MM!GemvTerms(W, w, i * w.in, r, o, k, w.splits)]
           place == [st \in UNION {DOMAIN partial[k] : k \in K} |-> spot(st)]
<1>1. /\ w.in = q.in /\ w.group = q.group /\ w.G = G /\ w.splits = q.splits
      /\ q.in \in Nat /\ MM!RowsOf(q.parts) \in Nat
  BY LaunchIs
<1>2. /\ q.splits \in Nat \ {0} /\ G % q.splits = 0 /\ q.group % 32 = 0 /\ q.kind \in ZeroPointed
  BY ProductAssumption DEF ByRow, ZeroPointed
<1>3. /\ G \in Nat /\ q.group \in Nat \ {0}
      /\ \A k \in 0 .. q.in - 1 :
           /\ k \div q.group \in 0 .. G - 1 /\ k % q.group \in 0 .. q.group - 1
           /\ q.group * (k \div q.group) + (k % q.group) = k
      /\ \A g \in 0 .. G - 1 : \A e \in 0 .. q.group - 1 :
           /\ q.group * g + e \in 0 .. q.in - 1
           /\ (q.group * g + e) \div q.group = g /\ (q.group * g + e) % q.group = e
  BY GroupsAre DEF ByRow, ZeroPointed
<1>4. /\ per \in Nat /\ G <= q.splits * per
      /\ \A s \in K : share(s) = Share(G, per, s)
  <2>1. /\ per \in Nat /\ G <= q.splits * per
        /\ \A s \in K : s * per .. MM!Min2((s + 1) * per, G) - 1 = Share(G, per, s)
    BY <1>2, <1>3, EvenShares, ZenonT(60)
  <2>2. \A s : share(s) = s * per .. MM!Min2((s + 1) * per, G) - 1
    BY <1>1
  <2> HIDE DEF share, per, G
  <2> QED BY <2>1, <2>2
<1>5. /\ \A g \in 0 .. G - 1 : \E s \in K : g \in Share(G, per, s)
      /\ \A s, t \in K : \A g : g \in Share(G, per, s) /\ g \in Share(G, per, t) => s = t
  <2>1. G \in Nat /\ per \in Nat /\ q.splits \in Nat \ {0} /\ G <= q.splits * per
    BY <1>2, <1>3, <1>4
  <2> HIDE DEF G, per
  <2> QED BY <2>1, Shares
<1>6. /\ \A k \in 0 .. q.in - 1 : \A t, e : t \in Nat /\ e \in 0 .. 7 /\ 8 * t + e = k =>
           W.q[b][t][l][e] = <<p, row, k>>
      /\ \A g \in 0 .. G - 1 : W.sc[b][g][l] = <<p, row, g>> /\ W.zp[b][g][l] = <<p, row, g>>
  BY <1>2, WeightsLoaded
<1>7. /\ Spots(q) = {"q", "z"} \X (0 .. q.in - 1)
      /\ \A k \in 0 .. q.in - 1 :
           LET g == k \div q.group
           IN /\ Term(q, i + r, o, "q", k) = <<"q", <<p, row, k>>, <<p, row, g>>, base + k>>
              /\ Term(q, i + r, o, "z", k) = <<"z", <<p, row, g>>, <<p, row, g>>, base + k>>
  BY <1>2 DEF Spots, Term, ByRow
<1>8. \A g : \A k \in K : g \in Share(G, per, k) => g \in 0 .. G - 1 /\ g \in Nat
  BY DEF Share
<1>9. base = i * q.in + r * q.in /\ i * q.in \in Nat /\ r * q.in \in Nat /\ base \in Nat
  BY <1>1
<1>10. wpg \in Nat /\ q.group = 8 * wpg /\ q.group \in Nat /\ G \in Nat /\ q.in \in Nat
  <2>1. q.group \in Nat /\ q.group % 32 = 0 /\ G \in Nat
    BY <1>2, <1>3
  <2> QED BY <2>1, <1>1
<1>11. ASSUME NEW k \in K
       PROVE  /\ DOMAIN partial[k] = products(k) \cup corrections(k)
              /\ \A st \in DOMAIN partial[k] : partial[k][st] = value(st)
  <2>1. partial[k] = MM!GemvTerms(W, w, i * w.in, r, o, k, w.splits)
    OBVIOUS
  <2> HIDE DEF W, w, partial
  <2>3. partial[k] = [st \in products(k) \cup corrections(k) |-> value(st)]
    BY <2>1 DEF MM!GemvTerms
  <2> HIDE DEF products, corrections, value
  <2> QED BY <2>3
<1>12. \A k \in K : \A st \in DOMAIN partial[k] : place[st] = spot(st)
  <2> HIDE DEF partial, spot
  <2> QED OBVIOUS
<1>13. DOMAIN partial = K
  OBVIOUS
<1> HIDE DEF W, w, G, per, b, l, p, row, wpg, partial, place, K, base
<1>14. ASSUME NEW g \in 0 .. G - 1, NEW t \in 0 .. wpg - 1, NEW e \in 0 .. 3, NEW h \in {1, 2}
       PROVE  LET c == at(g, u4(t, e, h))
              IN /\ u4(t, e, h) \in 0 .. q.group - 1 /\ c \in 0 .. q.in - 1
                 /\ value(<<"q", g, t, e, h>>) = Term(q, i + r, o, "q", c)
                 /\ spot(<<"q", g, t, e, h>>) = <<"q", c>>
  <2> DEFINE u == 8 * t + e + half(h)
             c == q.group * g + u
  <2>1. /\ u \in Nat /\ u <= 8 * wpg - 1 /\ t \in Nat /\ g \in Nat /\ half(h) \in 0 .. 4
    BY <1>10
  <2>2. u \in 0 .. q.group - 1
    BY <2>1, <1>10
  <2>3. c \in 0 .. q.in - 1 /\ c \div q.group = g /\ c % q.group = u
    <3> HIDE DEF u
    <3> QED BY <2>2, <1>3
  <2>4. spot(<<"q", g, t, e, h>>) = <<"q", c>>
    OBVIOUS
  <2> DEFINE word == W.q[b][g * wpg + t][l]
  <2>5. MM!nib2(word, e)[h] = word[e + half(h)]
    BY DEF MM!nib2
  <2>6. word[e + half(h)] = <<p, row, c>>
    <3>1. g * wpg + t \in Nat /\ 8 * (g * wpg + t) = q.group * g + 8 * t
      <4> DEFINE y == g * wpg
      <4>1. y \in Nat /\ q.group * g = 8 * y
        BY <1>10, <2>1
      <4> HIDE DEF y
      <4>2. 8 * (y + t) = 8 * y + 8 * t /\ y + t \in Nat
        BY <4>1, <2>1
      <4> QED BY <4>1, <4>2 DEF y
    <3>2. e + half(h) \in 0 .. 7
      OBVIOUS
    <3>3. 8 * (g * wpg + t) + (e + half(h)) = c
      <4>1. q.group * g \in Nat
        BY <2>1, <1>3
      <4> QED BY <3>1, <3>2, <4>1, <2>1
    <3> HIDE DEF c, half
    <3> QED BY <3>1, <3>2, <3>3, <2>3, <1>6
  <2>7. i * q.in + r * q.in + g * q.group + 8 * t + (e + half(h)) = base + c
    <3> DEFINE y == q.group * g
               x1 == i * q.in
               x2 == r * q.in
    <3>1. g * q.group = y /\ y \in Nat
      BY <2>1, <1>10
    <3>2. base = x1 + x2 /\ x1 \in Nat /\ x2 \in Nat
      BY <1>9
    <3>3. c = y + u /\ u = 8 * t + e + half(h)
      OBVIOUS
    <3> HIDE DEF y, x1, x2, u, c
    <3>4. x1 + x2 + y + 8 * t + (e + half(h)) = base + c
      BY <3>1, <3>2, <3>3, <2>1
    <3> QED BY <3>1, <3>4 DEF x1, x2
  <2>8. value(<<"q", g, t, e, h>>) = <<"q", <<p, row, c>>, <<p, row, g>>, base + c>>
    <3>0. w.in = q.in /\ w.group \div 8 = wpg /\ w.group = q.group
      BY <1>1 DEF wpg
    <3>1. value(<<"q", g, t, e, h>>)
            = <<"q", MM!nib2(word, e)[h], W.sc[b][g][l],
                i * q.in + r * q.in + g * q.group + 8 * t + (e + half(h))>>
      BY <3>0
    <3>2. W.sc[b][g][l] = <<p, row, g>>
      BY <1>6
    <3> HIDE DEF value, c, word, half
    <3> QED BY <3>1, <3>2, <2>5, <2>6, <2>7
  <2>9. Term(q, i + r, o, "q", c) = <<"q", <<p, row, c>>, <<p, row, g>>, base + c>>
    <3> HIDE DEF c
    <3> QED BY <2>3, <1>7
  <2> HIDE DEF value, spot, u, c
  <2>10. u4(t, e, h) = u /\ at(g, u) = c
    BY DEF u, c
  <2> HIDE DEF u4, at
  <2> QED BY <2>2, <2>3, <2>4, <2>8, <2>9, <2>10
<1>15. ASSUME NEW g \in 0 .. G - 1, NEW e \in 0 .. q.group - 1
       PROVE  LET c == at(g, e)
              IN /\ c \in 0 .. q.in - 1
                 /\ value(<<"z", g, base + c>>) = Term(q, i + r, o, "z", c)
                 /\ spot(<<"z", g, base + c>>) = <<"z", c>>
  <2> DEFINE c == q.group * g + e
  <2>1. c \in 0 .. q.in - 1 /\ c \div q.group = g /\ c % q.group = e
    BY <1>3
  <2> HIDE DEF c
  <2>2. base + c - base = c
    BY <2>1, <1>9
  <2>3. spot(<<"z", g, base + c>>) = <<"z", c>>
    <3>1. PICK x : x = base + c
      OBVIOUS
    <3>2. x - base = c
      <4>1. base \in Nat /\ c \in Int
        BY <2>1, <1>9
      <4> QED BY <3>1, <4>1
    <3> DEFINE st == <<"z", g, x>>
    <3>3. st[1] = "z" /\ st[3] = x
      OBVIOUS
    <3> HIDE DEF st
    <3>4. spot(st) = <<"z", st[3] - base>>
      BY <3>3, Zenon
    <3>5. spot(st) = <<"z", c>>
      BY <3>2, <3>3, <3>4, Zenon
    <3> HIDE DEF spot
    <3> QED BY <3>1, <3>5 DEF st
  <2>4. value(<<"z", g, base + c>>) = <<"z", <<p, row, g>>, <<p, row, g>>, base + c>>
    BY <1>6
  <2>5. Term(q, i + r, o, "z", c) = <<"z", <<p, row, g>>, <<p, row, g>>, base + c>>
    BY <2>1, <1>7
  <2> HIDE DEF value, spot
  <2>6. at(g, e) = c
    BY DEF c
  <2> HIDE DEF at
  <2> QED BY <2>1, <2>3, <2>4, <2>5, <2>6
<1>23. ASSUME NEW g1 \in 0 .. G - 1, NEW u1 \in 0 .. q.group - 1, NEW g2 \in 0 .. G - 1,
              NEW u2 \in 0 .. q.group - 1, at(g1, u1) = at(g2, u2)
       PROVE  g1 = g2 /\ u1 = u2
  <2>1. at(g1, u1) \div q.group = g1 /\ at(g1, u1) % q.group = u1
    BY <1>3
  <2>2. at(g2, u2) \div q.group = g2 /\ at(g2, u2) % q.group = u2
    BY <1>3
  <2> HIDE DEF at
  <2> QED BY <2>1, <2>2, <1>23
<1>24. ASSUME NEW t1 \in 0 .. wpg - 1, NEW e1 \in 0 .. 3, NEW h1 \in {1, 2},
              NEW t2 \in 0 .. wpg - 1, NEW e2 \in 0 .. 3, NEW h2 \in {1, 2},
              u4(t1, e1, h1) = u4(t2, e2, h2)
       PROVE  t1 = t2 /\ e1 = e2 /\ h1 = h2
  BY <1>10, <1>24
<1> DEFINE OfQ(k, st) == \E g \in 0 .. G - 1, t \in 0 .. wpg - 1, e \in 0 .. 3, h \in {1, 2} :
                           g \in Share(G, per, k) /\ st = <<"q", g, t, e, h>>
           OfZ(k, st) == \E g \in 0 .. G - 1, e \in 0 .. q.group - 1 :
                           g \in Share(G, per, k) /\ st = <<"z", g, base + at(g, e)>>
<1>16. \A k \in K : \A st : st \in products(k) <=> OfQ(k, st)
  <2> SUFFICES ASSUME NEW k \in K, NEW st PROVE st \in products(k) <=> OfQ(k, st)
    OBVIOUS
  <2>1. share(k) = Share(G, per, k) /\ \A g \in share(k) : g \in 0 .. G - 1
    BY <1>4, <1>8
  <2>2. w.group \div 8 = wpg
    BY <1>1 DEF wpg
  <2> HIDE DEF share
  <2> QED BY <2>1, <2>2
<1>17. ASSUME NEW k \in K, NEW st PROVE st \in corrections(k) <=> OfZ(k, st)
  <2>1. ASSUME NEW g \in 0 .. G - 1, NEW v
        PROVE  v \in MM!XGroupSum(i * w.in, w.in, r, g, w.group)
                 <=> \E e \in 0 .. q.group - 1 : v = base + at(g, e)
    <3>1. PICK x \in Nat : x = i * q.in
      BY <1>9
    <3>2. PICK in \in Nat : in = q.in
      BY <1>10
    <3>3. PICK d \in Nat : d = q.group
      BY <1>10
    <3>4. d # 0 /\ d % 32 = 0 /\ g \in Nat
      BY <3>3, <1>2, <1>3
    <3>5. v \in MM!XGroupSum(x, in, r, g, d) <=> OfGroup(v, x, in, r, g, d)
      BY <3>4, GroupSummed
    <3>6. ASSUME NEW e \in 0 .. d - 1 PROVE x + r * in + g * d + e = base + at(g, e)
      <4>1. g * d = d * g /\ d * g \in Nat /\ r * in \in Nat
        BY <3>4
      <4>2. base = x + r * in /\ at(g, e) = d * g + e
        BY <1>9, <3>1, <3>2, <3>3
      <4> DEFINE y == d * g
                 z == r * in
      <4> HIDE DEF y, z
      <4>3. g * d = y /\ y \in Nat /\ z \in Nat /\ base = x + z /\ at(g, e) = y + e
        BY <4>1, <4>2 DEF y, z
      <4> HIDE DEF at
      <4>4. x + z + y + e = base + at(g, e)
        BY <4>3
      <4> QED BY <4>3, <4>4 DEF z
    <3>7. MM!XGroupSum(i * w.in, w.in, r, g, w.group) = MM!XGroupSum(x, in, r, g, d)
      BY <1>1, <3>1, <3>2, <3>3
    <3> HIDE DEF at
    <3> QED BY <3>3, <3>5, <3>6, <3>7 DEF OfGroup
  <2>2. share(k) = Share(G, per, k) /\ \A g \in share(k) : g \in 0 .. G - 1
    BY <1>4, <1>8
  <2> HIDE DEF share, at
  <2>3. st \in corrections(k) <=> \E g \in share(k) : \E x \in MM!XGroupSum(i * w.in, w.in, r, g, w.group) :
                                    st = <<"z", g, x>>
    OBVIOUS
  <2> HIDE DEF corrections
  <2> QED BY <2>1, <2>2, <2>3
<1> HIDE DEF products, corrections, value, spot, at, u4
<1>18. ASSUME NEW k \in K, NEW st \in DOMAIN partial[k]
       PROVE  /\ spot(st) \in Spots(q)
              /\ value(st) = Term(q, i + r, o, spot(st)[1], spot(st)[2])
  <2>1. CASE OfQ(k, st)
    <3>1. PICK g \in 0 .. G - 1, t \in 0 .. wpg - 1, e \in 0 .. 3, h \in {1, 2} :
            st = <<"q", g, t, e, h>>
      BY <2>1
    <3> DEFINE c == at(g, u4(t, e, h))
    <3>2. c \in 0 .. q.in - 1 /\ value(st) = Term(q, i + r, o, "q", c) /\ spot(st) = <<"q", c>>
      BY <3>1, <1>14
    <3> HIDE DEF c
    <3> QED BY <3>2, <1>7
  <2>2. CASE OfZ(k, st)
    <3>1. PICK g \in 0 .. G - 1, e \in 0 .. q.group - 1 : st = <<"z", g, base + at(g, e)>>
      BY <2>2
    <3> DEFINE c == at(g, e)
    <3>2. c \in 0 .. q.in - 1 /\ value(st) = Term(q, i + r, o, "z", c) /\ spot(st) = <<"z", c>>
      BY <3>1, <1>15
    <3> HIDE DEF c
    <3> QED BY <3>2, <1>7
  <2> QED BY <2>1, <2>2, <1>11, <1>16, <1>17
<1>19. ASSUME NEW j \in K, NEW k \in K, NEW s \in DOMAIN partial[j], NEW t \in DOMAIN partial[k],
              spot(s) = spot(t)
       PROVE  j = k /\ s = t
  <2>1. (OfQ(j, s) \/ OfZ(j, s)) /\ (OfQ(k, t) \/ OfZ(k, t))
    BY <1>11, <1>16, <1>17
  <2>2. CASE OfQ(j, s) /\ OfQ(k, t)
    <3>1. PICK g1 \in 0 .. G - 1, t1 \in 0 .. wpg - 1, e1 \in 0 .. 3, h1 \in {1, 2} :
            g1 \in Share(G, per, j) /\ s = <<"q", g1, t1, e1, h1>>
      BY <2>2
    <3>2. PICK g2 \in 0 .. G - 1, t2 \in 0 .. wpg - 1, e2 \in 0 .. 3, h2 \in {1, 2} :
            g2 \in Share(G, per, k) /\ t = <<"q", g2, t2, e2, h2>>
      BY <2>2
    <3>3. u4(t1, e1, h1) \in 0 .. q.group - 1 /\ spot(s) = <<"q", at(g1, u4(t1, e1, h1))>>
      BY <3>1, <1>14
    <3>4. u4(t2, e2, h2) \in 0 .. q.group - 1 /\ spot(t) = <<"q", at(g2, u4(t2, e2, h2))>>
      BY <3>2, <1>14
    <3>5. at(g1, u4(t1, e1, h1)) = at(g2, u4(t2, e2, h2))
      BY <3>3, <3>4, <1>19
    <3>6. g1 = g2 /\ u4(t1, e1, h1) = u4(t2, e2, h2)
      BY <3>3, <3>4, <3>5, <1>23
    <3>7. t1 = t2 /\ e1 = e2 /\ h1 = h2
      BY <3>6, <1>24
    <3> QED BY <3>1, <3>2, <3>6, <3>7, <1>5
  <2>3. CASE OfZ(j, s) /\ OfZ(k, t)
    <3>1. PICK g1 \in 0 .. G - 1, e1 \in 0 .. q.group - 1 :
            g1 \in Share(G, per, j) /\ s = <<"z", g1, base + at(g1, e1)>>
      BY <2>3
    <3>2. PICK g2 \in 0 .. G - 1, e2 \in 0 .. q.group - 1 :
            g2 \in Share(G, per, k) /\ t = <<"z", g2, base + at(g2, e2)>>
      BY <2>3
    <3>3. spot(s) = <<"z", at(g1, e1)>> /\ spot(t) = <<"z", at(g2, e2)>>
      BY <3>1, <3>2, <1>15
    <3>4. at(g1, e1) = at(g2, e2)
      BY <3>3, <1>19
    <3>5. g1 = g2 /\ e1 = e2
      BY <3>4, <1>23
    <3> QED BY <3>1, <3>2, <3>5, <1>5
  <2>4. \A k1 \in K : \A st : /\ OfQ(k1, st) => spot(st)[1] = "q"
                              /\ OfZ(k1, st) => spot(st)[1] = "z"
    BY DEF spot
  <2>5. "q" # "z"
    OBVIOUS
  <2> QED BY <2>1, <2>2, <2>3, <2>4, <2>5, <1>19
<1>20. ASSUME NEW s \in Spots(q) PROVE \E k \in K : \E st \in DOMAIN partial[k] : spot(st) = s
  <2>1. PICK kind \in {"q", "z"}, c \in 0 .. q.in - 1 : s = <<kind, c>>
    BY <1>7
  <2>2. PICK g \in 0 .. G - 1, u \in 0 .. q.group - 1 : at(g, u) = c
    BY <1>3 DEF at
  <2>3. PICK k \in K : g \in Share(G, per, k)
    BY <1>5
  <2>4. CASE kind = "q"
    <3>1. PICK t \in 0 .. wpg - 1, e \in 0 .. 3, h \in {1, 2} : u4(t, e, h) = u
      <4> DEFINE t == u \div 8
                 e == (u % 8) % 4
                 h == IF u % 8 >= 4 THEN 2 ELSE 1
      <4>1. t \in 0 .. wpg - 1 /\ e \in 0 .. 3 /\ h \in {1, 2} /\ u4(t, e, h) = u
        BY <1>10 DEF u4
      <4> HIDE DEF t, e, h
      <4> QED BY <4>1
    <3> DEFINE st == <<"q", g, t, e, h>>
    <3>2. spot(st) = s
      BY <2>1, <2>2, <2>4, <3>1, <1>14
    <3>3. st \in products(k)
      BY <2>3, <1>16
    <3> HIDE DEF st
    <3> QED BY <3>2, <3>3, <1>11
  <2>5. CASE kind = "z"
    <3> DEFINE st == <<"z", g, base + at(g, u)>>
    <3>1. spot(st) = s
      BY <2>1, <2>2, <2>5, <1>15
    <3>2. st \in corrections(k)
      BY <2>3, <1>17
    <3> HIDE DEF st
    <3> QED BY <3>1, <3>2, <1>11
  <2> QED BY <2>1, <2>4, <2>5
<1>21. MM!SumOf(MM!Reduced(partial)) = Sought(q, i + r, o)
  <2>1. i + r \in Nat
    OBVIOUS
  <2>2. \A k \in K : \A st \in DOMAIN partial[k] :
          /\ place[st] \in Spots(q)
          /\ partial[k][st] = Term(q, i + r, o, place[st][1], place[st][2])
    BY <1>11, <1>12, <1>18
  <2>3. \A j, k \in K : \A s \in DOMAIN partial[j], t \in DOMAIN partial[k] :
          place[s] = place[t] => j = k /\ s = t
    BY <1>12, <1>19
  <2>4. \A s \in Spots(q) : \E k \in K : \E st \in DOMAIN partial[k] : place[st] = s
    BY <1>12, <1>20
  <2> QED BY <2>1, <2>2, <2>3, <2>4, <1>13, OnceInSplits
<1>22. partial = [k \in 0 .. w.splits - 1 |-> MM!GemvTerms(W, w, i * w.in, r, o, k, w.splits)]
  BY <1>1 DEF partial, K
<1> QED BY <1>21, <1>22 DEF W, w

(* The numbers of M rows of the output, from a first one.                  *)
NumberAt(q, row, o) == [at |-> row * MM!RowsOf(q.parts) + o, sum |-> Sought(q, row, o)]
Numbers(q, first, M) == {NumberAt(q, first + r, o) : r \in 0 .. M - 1, o \in 0 .. MM!RowsOf(q.parts) - 1}

(* Launches of at most `step` rows take each row once.                     *)
LEMMA LaunchedAll ==
  ASSUME NEW q \in Products, NEW step \in Nat \ {0}
  PROVE  UNION {Numbers(q, i, MM!Min2(step, q.T - i)) : i \in MM!Launches(q.T, step)} = Numbers(q, 0, q.T)
<1> DEFINE T == q.T
           some(i) == MM!Min2(step, T - i)
           cols == 0 .. MM!RowsOf(q.parts) - 1
           first == MM!Launches(T, step)
<1>1. T \in Nat \ {0}
  BY ProductAssumption
<1>2. \A i \in first : i \in 0 .. T - 1 /\ i % step = 0
  BY DEF MM!Launches
<1>3. ASSUME NEW i \in first, NEW r \in 0 .. some(i) - 1 PROVE i + r \in 0 .. T - 1
  <2>1. i \in Nat /\ some(i) <= T - i /\ some(i) \in Nat
    BY <1>1, <1>2 DEF MM!Min2
  <2> HIDE DEF some, T
  <2> QED BY <2>1, <1>1
<1>4. ASSUME NEW row \in 0 .. T - 1
      PROVE  \E i \in first : \E r \in 0 .. some(i) - 1 : i + r = row
  <2> DEFINE k == row \div step
             r == row % step
             i == step * k
  <2>1. k \in Nat /\ r \in Nat /\ r < step /\ row = step * k + r /\ row \in Nat
    BY <1>1, DivMod
  <2> HIDE DEF k, r
  <2>2. i \in Nat /\ i % step = 0
    <3>1. (step * k + 0) % step = 0
      BY <2>1, DivUnique, SMTT(30)
    <3>2. step * k \in Nat
      BY <2>1
    <3> QED BY <3>1, <3>2
  <2> HIDE DEF i
  <2>3. row = i + r
    BY <2>1 DEF i
  <2>4. i \in first
    BY <1>1, <2>1, <2>2, <2>3 DEF MM!Launches
  <2>5. r \in 0 .. some(i) - 1
    BY <1>1, <2>1, <2>2, <2>3 DEF MM!Min2
  <2> HIDE DEF first, some
  <2> QED BY <2>3, <2>4, <2>5
<1> HIDE DEF T, some, first
<1>5. ASSUME NEW row \in 0 .. T - 1 PROVE 0 + row = row
  BY <1>1
<1>6. ASSUME NEW i \in first, NEW v \in Numbers(q, i, some(i)) PROVE v \in Numbers(q, 0, T)
  <2>1. PICK r \in 0 .. some(i) - 1, o \in cols : v = NumberAt(q, i + r, o)
    BY DEF Numbers
  <2>2. i + r \in 0 .. T - 1 /\ 0 + (i + r) = i + r
    BY <1>3, <1>5
  <2>3. NumberAt(q, 0 + (i + r), o) \in Numbers(q, 0, T)
    BY <2>2 DEF Numbers
  <2> QED BY <2>1, <2>2, <2>3
<1>7. ASSUME NEW v \in Numbers(q, 0, T) PROVE \E i \in first : v \in Numbers(q, i, some(i))
  <2>1. PICK row \in 0 .. T - 1, o \in cols : v = NumberAt(q, 0 + row, o)
    BY DEF Numbers
  <2>2. PICK i \in first : \E r \in 0 .. some(i) - 1 : i + r = row
    BY <1>4
  <2>3. PICK r \in 0 .. some(i) - 1 : i + r = row
    BY <2>2
  <2>4. NumberAt(q, i + r, o) \in Numbers(q, i, some(i))
    BY <2>3 DEF Numbers
  <2>5. v = NumberAt(q, i + r, o)
    BY <2>1, <2>3, <1>5
  <2> QED BY <2>4, <2>5
<1>8. UNION {Numbers(q, i, some(i)) : i \in first} = Numbers(q, 0, T)
  BY <1>6, <1>7
<1> QED BY <1>8 DEF T, some, first

(* A launch's first row and a row of the launch are a row of the output.   *)
LEMMA SameRow ==
  ASSUME NEW q \in Products, NEW i \in Nat, NEW r \in Nat
  PROVE  i * LaunchOf(q).out + r * LaunchOf(q).out = (i + r) * MM!RowsOf(q.parts)
<1> DEFINE out == MM!RowsOf(q.parts)
<1>1. out \in Nat /\ LaunchOf(q).out = out
  BY LaunchIs
<1> HIDE DEF out
<1>2. i * out + r * out = (i + r) * out
  BY <1>1
<1> QED BY <1>1, <1>2 DEF out

(* A launch of k_gemv or k_gemm_small gives the numbers of its rows.       *)
LEMMA GemvLaunch ==
  ASSUME NEW q \in Products, q.kind = "awq", q.T <= GemvMaxT, NEW i \in Nat, NEW M \in Nat
  PROVE  LET w == LaunchOf(q)
         IN MM!GemmSmall(Loaded(q), w, i * w.in, i * w.out, M) = Numbers(q, i, M)
<1> DEFINE w == LaunchOf(q)
           out == MM!RowsOf(q.parts)
           W == Loaded(q)
           sum(r, o) == MM!SumOf(MM!Reduced([k \in 0 .. w.splits - 1 |->
                          MM!GemvTerms(W, w, i * w.in, r, o, k, w.splits)]))
           cols == 0 .. w.out - 1
           number(r, o) == [at |-> i * w.out + r * w.out + o, sum |-> sum(r, o)]
           all == {number(r, o) : r \in 0 .. M - 1, o \in cols}
<1>1. MM!GemmSmall(W, w, i * w.in, i * w.out, M) = all
  BY DEF MM!GemmSmall
<1>2. w.out = out
  BY LaunchIs
<1>3. ASSUME NEW r \in 0 .. M - 1, NEW o \in 0 .. out - 1
      PROVE  [at |-> i * w.out + r * w.out + o, sum |-> sum(r, o)] = NumberAt(q, i + r, o)
  <2>1. r \in Nat
    OBVIOUS
  <2>2. sum(r, o) = Sought(q, i + r, o)
    BY <2>1, GemvIs
  <2>3. i * w.out + r * w.out = (i + r) * out
    BY <2>1, SameRow
  <2> HIDE DEF sum, w, out
  <2> QED BY <2>2, <2>3 DEF NumberAt, out
<1>4. \A r \in 0 .. M - 1, o \in cols : number(r, o) = NumberAt(q, i + r, o)
  BY <1>2, <1>3
<1>5. Numbers(q, i, M) = {NumberAt(q, i + r, o) : r \in 0 .. M - 1, o \in cols}
  <2>1. cols = 0 .. MM!RowsOf(q.parts) - 1
    BY <1>2
  <2> HIDE DEF cols
  <2> QED BY <2>1 DEF Numbers
<1>6. all = Numbers(q, i, M)
  <2> HIDE DEF number, cols
  <2> QED BY <1>4, <1>5
<1>7. MM!GemmSmall(W, w, i * w.in, i * w.out, M) = Numbers(q, i, M)
  <2> HIDE DEF all, w, W
  <2> QED BY <1>1, <1>6
<1> QED BY <1>7

(* So does one over weights of eight bits.                                 *)
LEMMA Gemm8Launch ==
  ASSUME NEW q \in Products, q.kind = "head8", NEW i \in Nat, NEW M \in Nat
  PROVE  LET w == LaunchOf(q)
         IN MM!GemmSmall8(Loaded(q), w, i * w.in, i * w.out, M) = Numbers(q, i, M)
<1> DEFINE w == LaunchOf(q)
           out == MM!RowsOf(q.parts)
           W == Loaded(q)
           sum(r, o) == MM!SumOf(MM!Reduced([k \in 0 .. w.splits - 1 |->
                          MM!Gemm8Terms(W, w, i * w.in, r, o, k, w.splits)]))
           cols == 0 .. w.out - 1
           number(r, o) == [at |-> i * w.out + r * w.out + o, sum |-> sum(r, o)]
           all == {number(r, o) : r \in 0 .. M - 1, o \in cols}
<1>1. MM!GemmSmall8(W, w, i * w.in, i * w.out, M) = all
  BY DEF MM!GemmSmall8
<1>2. w.out = out
  BY LaunchIs
<1>3. ASSUME NEW r \in 0 .. M - 1, NEW o \in 0 .. out - 1
      PROVE  [at |-> i * w.out + r * w.out + o, sum |-> sum(r, o)] = NumberAt(q, i + r, o)
  <2>1. r \in Nat
    OBVIOUS
  <2>2. sum(r, o) = Sought(q, i + r, o)
    BY <2>1, Gemm8Is
  <2>3. i * w.out + r * w.out = (i + r) * out
    BY <2>1, SameRow
  <2> HIDE DEF sum, w, out
  <2> QED BY <2>2, <2>3 DEF NumberAt, out
<1>4. \A r \in 0 .. M - 1, o \in cols : number(r, o) = NumberAt(q, i + r, o)
  BY <1>2, <1>3
<1>5. Numbers(q, i, M) = {NumberAt(q, i + r, o) : r \in 0 .. M - 1, o \in cols}
  <2>1. cols = 0 .. MM!RowsOf(q.parts) - 1
    BY <1>2
  <2> HIDE DEF cols
  <2> QED BY <2>1 DEF Numbers
<1>6. all = Numbers(q, i, M)
  <2> HIDE DEF number, cols
  <2> QED BY <1>4, <1>5
<1>7. MM!GemmSmall8(W, w, i * w.in, i * w.out, M) = Numbers(q, i, M)
  <2> HIDE DEF all, w, W
  <2> QED BY <1>1, <1>6
<1> QED BY <1>7

(* The fragments of the tensor cores. What a lane and register of the      *)
(* result stand for, and that both operands are read in that order.        *)
LEMMA ResultHeld ==
  ASSUME NEW lane \in 0 .. 31, NEW reg \in 0 .. 3
  PROVE  LET row == lane \div 4 + 8 * (reg \div 2)
             col == 2 * (lane % 4) + (reg % 2)
         IN /\ row \in 0 .. 15 /\ col \in 0 .. 7
            /\ (CHOOSE rc \in (0 .. 15) \X (0 .. 7) : MM!HoldsC(rc[1], rc[2]) = <<lane, reg>>)
                 = <<row, col>>
<1> DEFINE row == lane \div 4 + 8 * (reg \div 2)
           col == 2 * (lane % 4) + (reg % 2)
           good(rc) == MM!HoldsC(rc[1], rc[2]) = <<lane, reg>>
<1>1. row \in 0 .. 15 /\ col \in 0 .. 7
  OBVIOUS
<1>2. 4 * (row % 8) + col \div 2 = lane /\ 2 * (row \div 8) + (col % 2) = reg
  OBVIOUS
<1>3. ASSUME NEW a \in 0 .. 15, NEW c \in 0 .. 7,
             4 * (a % 8) + c \div 2 = lane, 2 * (a \div 8) + (c % 2) = reg
      PROVE  a = row /\ c = col
  BY <1>3
<1> HIDE DEF row, col
<1>4. <<row, col>> \in (0 .. 15) \X (0 .. 7) /\ good(<<row, col>>)
  BY <1>1, <1>2 DEF MM!HoldsC
<1>5. ASSUME NEW rc \in (0 .. 15) \X (0 .. 7), good(rc) PROVE rc = <<row, col>>
  <2>1. rc[1] \in 0 .. 15 /\ rc[2] \in 0 .. 7 /\ rc = <<rc[1], rc[2]>>
    OBVIOUS
  <2>2. 4 * (rc[1] % 8) + rc[2] \div 2 = lane /\ 2 * (rc[1] \div 8) + (rc[2] % 2) = reg
    BY <1>5 DEF MM!HoldsC
  <2> QED BY <1>3, <2>1, <2>2
<1>6. (CHOOSE rc \in (0 .. 15) \X (0 .. 7) : good(rc)) = <<row, col>>
  <2> HIDE DEF good
  <2> QED BY <1>4, <1>5
<1> QED BY <1>1, <1>6 DEF row, col

LeftIs(row, k, kb) ==
  LET h == MM!HoldsA(row, k)
      at == MM!LoadA(h[1], h[2], kb)
  IN at.row = row /\ at.slot + h[3] = kb + k

LEMMA LeftRead ==
  ASSUME NEW row \in 0 .. 15, NEW k \in 0 .. 15, NEW kb \in Nat
  PROVE  LeftIs(row, k, kb)
<1> DEFINE x == 4 * (row % 8) + (k % 8) \div 2
           y == row \div 8 + 2 * (k \div 8)
<1>1. MM!HoldsA(row, k) = <<x, y, k % 2>>
  BY DEF MM!HoldsA
<1>2. x \div 4 + 8 * (y % 2) = row
  OBVIOUS
<1>3. kb + 2 * (x % 4) + 8 * (y \div 2) + (k % 2) = kb + k
  OBVIOUS
<1> HIDE DEF x, y
<1> QED BY <1>1, <1>2, <1>3 DEF MM!LoadA, LeftIs

RightIs(col, k, kb, warp, nn) ==
  LET h == MM!HoldsB(k, col)
      at == MM!LoadB(h[1], h[2], kb, warp, nn)
  IN at.row = 16 * warp + 8 * nn + col /\ at.slot + h[3] = kb + k

LEMMA RightRead ==
  ASSUME NEW col \in 0 .. 7, NEW k \in 0 .. 15, NEW kb \in Nat, NEW warp \in Nat, NEW nn \in Nat
  PROVE  RightIs(col, k, kb, warp, nn)
<1> DEFINE x == 4 * col + (k % 8) \div 2
           y == k \div 8
<1>1. MM!HoldsB(k, col) = <<x, y, k % 2>>
  BY DEF MM!HoldsB
<1>2. x \div 4 = col
  OBVIOUS
<1>3. kb + 2 * (x % 4) + 8 * y + (k % 2) = kb + k
  OBVIOUS
<1> HIDE DEF x, y
<1> QED BY <1>1, <1>2, <1>3 DEF MM!LoadB, RightIs

(* Slots are the eight places of a word in another order.                  *)
InputOf(kk) == 8 * (kk \div 8) + MM!SlotToNibble(kk)

LEMMA SlotsAre ==
  /\ \A kk \in Nat : MM!SlotToNibble(kk) \in 0 .. 7 /\ InputOf(kk) \in Nat
  /\ \A a, b \in Nat : InputOf(a) = InputOf(b) => a = b
  /\ \A c \in Nat : \E kk \in Nat : kk \div 8 = c \div 8 /\ InputOf(kk) = c
<1>1. \A kk \in Nat : MM!SlotToNibble(kk) \in 0 .. 7 /\ InputOf(kk) \in Nat
  BY DEF MM!SlotToNibble, InputOf
<1>2. ASSUME NEW a \in Nat, NEW b \in Nat, InputOf(a) = InputOf(b) PROVE a = b
  <2>1. a \div 8 = b \div 8 /\ MM!SlotToNibble(a) = MM!SlotToNibble(b)
    BY <1>1, <1>2 DEF InputOf
  <2>2. a % 8 = b % 8
    BY <2>1 DEF MM!SlotToNibble
  <2> QED BY <2>1, <2>2
<1>3. ASSUME NEW c \in Nat PROVE \E kk \in Nat : kk \div 8 = c \div 8 /\ InputOf(kk) = c
  <2> DEFINE s == c % 8
             kk == 8 * (c \div 8) + 2 * (s % 4) + s \div 4
  <2>1. kk \in Nat /\ kk \div 8 = c \div 8 /\ kk % 8 = 2 * (s % 4) + s \div 4 /\ kk % 2 = s \div 4
    OBVIOUS
  <2>2. s \in 0 .. 7 /\ c = 8 * (c \div 8) + s
    OBVIOUS
  <2> HIDE DEF kk, s
  <2>3. MM!SlotToNibble(kk) = s
    BY <2>1, <2>2 DEF MM!SlotToNibble
  <2>4. InputOf(kk) = c
    BY <2>1, <2>2, <2>3 DEF InputOf
  <2> QED BY <2>1, <2>4
<1> QED BY <1>1, <1>2, <1>3

(* The input that element k of fragment s of a chunk stands for.           *)
ChunkInput(ch, s, k) == MMA_BK * ch + InputOf(16 * s + k)

(* A stage is whole steps of sixteen inputs, the inputs whole stages.      *)
LEMMA ChunkSizes ==
  /\ MMA_BK \in Nat \ {0} /\ MMA_BK \div 16 \in Nat \ {0} /\ MMA_BK = 16 * (MMA_BK \div 16)
  /\ MMA_BK % 32 = 0
  /\ \A q \in Products : q.kind \in ZeroPointed =>
       q.in \div MMA_BK \in Nat /\ q.in = MMA_BK * (q.in \div MMA_BK)
<1>1. MMA_BK \in Nat \ {0} /\ MMA_BK % 32 = 0
  BY TileAssumption
<1>2. MMA_BK \div 16 \in Nat \ {0} /\ MMA_BK = 16 * (MMA_BK \div 16)
  BY <1>1
<1>3. ASSUME NEW q \in Products, q.kind \in ZeroPointed
      PROVE  q.in \div MMA_BK \in Nat /\ q.in = MMA_BK * (q.in \div MMA_BK)
  <2>1. q.in \in Nat /\ q.in % MMA_BK = 0
    BY <1>3, ProductAssumption DEF ByRow
  <2> DEFINE m == q.in \div MMA_BK
  <2>2. m \in Nat /\ q.in = MMA_BK * m + 0
    BY <1>1, <2>1, DivMod
  <2> HIDE DEF m
  <2>3. q.in = MMA_BK * m
    BY <1>1, <2>2
  <2> QED BY <2>2, <2>3 DEF m
<1> QED BY <1>1, <1>2, <1>3

(* Stage, step and slot name each input once.                              *)
LEMMA ChunkInputs ==
  ASSUME NEW q \in Products, q.kind \in ZeroPointed
  PROVE  LET C == 0 .. q.in \div MMA_BK - 1
             S == 0 .. MMA_BK \div 16 - 1
             E == 0 .. 15
         IN /\ \A ch \in C, s \in S, k \in E :
                 /\ 16 * s + k \in 0 .. MMA_BK - 1 /\ InputOf(16 * s + k) \in 0 .. MMA_BK - 1
                 /\ ChunkInput(ch, s, k) \in 0 .. q.in - 1
            /\ \A ch1, ch2 \in C, s1, s2 \in S, k1, k2 \in E :
                 ChunkInput(ch1, s1, k1) = ChunkInput(ch2, s2, k2) => ch1 = ch2 /\ s1 = s2 /\ k1 = k2
            /\ \A c \in 0 .. q.in - 1 : \E ch \in C, s \in S, k \in E : ChunkInput(ch, s, k) = c
<1> DEFINE n == q.in \div MMA_BK
           m == MMA_BK \div 16
           C == 0 .. n - 1
           S == 0 .. m - 1
           E == 0 .. 15
<1>1. /\ MMA_BK \in Nat \ {0} /\ m \in Nat \ {0} /\ MMA_BK = 16 * m /\ n \in Nat /\ q.in = MMA_BK * n
      /\ q.in \in Nat
  BY ChunkSizes, ProductAssumption
<1> HIDE DEF n, m
<1>2. ASSUME NEW s \in S, NEW k \in E
      PROVE  16 * s + k \in Nat /\ 16 * s + k \in 0 .. MMA_BK - 1 /\ InputOf(16 * s + k) \in 0 .. MMA_BK - 1
  <2> DEFINE kk == 16 * s + k
  <2>1. kk \in Nat /\ kk \div 8 <= 2 * m - 1 /\ kk <= MMA_BK - 1 /\ kk \div 8 \in Nat
    BY <1>1
  <2>2. MM!SlotToNibble(kk) \in 0 .. 7
    BY <2>1, SlotsAre
  <2> DEFINE t == kk \div 8
             e == MM!SlotToNibble(kk)
  <2>3. InputOf(kk) = 8 * t + e
    BY DEF InputOf
  <2> HIDE DEF kk, t, e
  <2>4. InputOf(kk) \in 0 .. MMA_BK - 1
    <3>1. t \in Nat /\ t <= 2 * m - 1 /\ e \in 0 .. 7
      BY <2>1, <2>2 DEF t, e
    <3> QED BY <3>1, <2>3, <1>1
  <2>5. kk \in 0 .. MMA_BK - 1
    BY <2>1, <1>1
  <2> QED BY <2>1, <2>4, <2>5 DEF kk
<1>3. ASSUME NEW ch \in Nat, NEW y \in 0 .. MMA_BK - 1
      PROVE  (MMA_BK * ch + y) \div MMA_BK = ch /\ (MMA_BK * ch + y) % MMA_BK = y
  <2>1. y \in Nat /\ y < MMA_BK
    BY <1>1
  <2> QED BY <1>1, <2>1, DivUnique
<1>4. ASSUME NEW ch \in C, NEW y \in 0 .. MMA_BK - 1 PROVE MMA_BK * ch + y \in 0 .. q.in - 1
  <2>1. ch \in Nat /\ ch + 1 <= n
    BY <1>1
  <2>2. MMA_BK * (ch + 1) <= MMA_BK * n
    BY <1>1, <2>1
  <2>3. MMA_BK * (ch + 1) = MMA_BK * ch + MMA_BK /\ MMA_BK * ch \in Nat /\ MMA_BK * n \in Nat
    BY <1>1, <2>1
  <2> QED BY <1>1, <2>2, <2>3
<1>5. ASSUME NEW ch \in C, NEW s \in S, NEW k \in E
      PROVE  /\ 16 * s + k \in 0 .. MMA_BK - 1 /\ InputOf(16 * s + k) \in 0 .. MMA_BK - 1
             /\ ChunkInput(ch, s, k) \in 0 .. q.in - 1
  BY <1>2, <1>4 DEF ChunkInput
<1>6. ASSUME NEW ch1 \in C, NEW ch2 \in C, NEW s1 \in S, NEW s2 \in S, NEW k1 \in E, NEW k2 \in E,
             ChunkInput(ch1, s1, k1) = ChunkInput(ch2, s2, k2)
      PROVE  ch1 = ch2 /\ s1 = s2 /\ k1 = k2
  <2> DEFINE a == 16 * s1 + k1
             b == 16 * s2 + k2
             x == InputOf(a)
             y == InputOf(b)
  <2>1. a \in Nat /\ b \in Nat /\ x \in 0 .. MMA_BK - 1 /\ y \in 0 .. MMA_BK - 1
    BY <1>2
  <2>2. ch1 \in Nat /\ ch2 \in Nat
    BY <1>1
  <2>3. MMA_BK * ch1 + x = MMA_BK * ch2 + y
    BY <1>6 DEF ChunkInput
  <2> HIDE DEF a, b, x, y
  <2>4. (MMA_BK * ch1 + x) \div MMA_BK = ch1 /\ (MMA_BK * ch1 + x) % MMA_BK = x
    BY <1>3, <2>1, <2>2
  <2>5. (MMA_BK * ch2 + y) \div MMA_BK = ch2 /\ (MMA_BK * ch2 + y) % MMA_BK = y
    BY <1>3, <2>1, <2>2
  <2>6. ch1 = ch2 /\ x = y
    BY <2>3, <2>4, <2>5
  <2>7. a = b
    BY <2>1, <2>6, SlotsAre DEF x, y
  <2>8. s1 \in Nat /\ s2 \in Nat
    BY <1>1
  <2> QED BY <2>6, <2>7, <2>8 DEF a, b
<1>7. ASSUME NEW c \in 0 .. q.in - 1
      PROVE  \E ch \in C, s \in S, k \in E : ChunkInput(ch, s, k) = c
  <2> DEFINE ch == c \div MMA_BK
             y == c % MMA_BK
  <2>1. ch \in Nat /\ y \in Nat /\ y < MMA_BK /\ c = MMA_BK * ch + y /\ c \in Nat /\ c < q.in
    <3>1. c \in Nat /\ c < q.in
      BY <1>1
    <3> QED BY <3>1, <1>1, DivMod
  <2> HIDE DEF ch, y
  <2>2. ch \in C
    <3> SUFFICES ASSUME n <= ch PROVE FALSE
      BY <1>1, <2>1
    <3>1. MMA_BK * n <= MMA_BK * ch /\ MMA_BK * n \in Nat /\ MMA_BK * ch \in Nat
      BY <1>1, <2>1
    <3> QED BY <1>1, <2>1, <3>1
  <2>3. PICK kk \in Nat : kk \div 8 = y \div 8 /\ InputOf(kk) = y
    BY <2>1, SlotsAre
  <2>4. kk < MMA_BK
    <3>1. y \div 8 <= 2 * m - 1
      BY <1>1, <2>1
    <3> QED BY <1>1, <2>3, <3>1
  <2>5. kk \div 16 \in S /\ kk % 16 \in E /\ 16 * (kk \div 16) + (kk % 16) = kk
    <3> DEFINE d == kk \div 16
               e == kk % 16
    <3>1. d \in Nat /\ e \in E /\ 16 * d + e = kk
      OBVIOUS
    <3> HIDE DEF d, e
    <3>2. d \in S
      BY <1>1, <2>4, <3>1
    <3> QED BY <3>1, <3>2 DEF d, e
  <2>6. ChunkInput(ch, kk \div 16, kk % 16) = c
    BY <2>1, <2>3, <2>5 DEF ChunkInput
  <2> QED BY <2>2, <2>5, <2>6
<1> QED BY <1>5, <1>6, <1>7 DEF n, m

(* A stretch of 32 inputs lies in one group.                               *)
LEMMA SameGroup ==
  ASSUME NEW f \in Nat, NEW u \in Nat \ {0}, u % 32 = 0, NEW x \in 0 .. 31
  PROVE  (32 * f) \div u = (32 * f + x) \div u
<1> DEFINE d == u \div 32
           g == f \div d
           e == f % d
<1>1. d \in Nat \ {0} /\ u = 32 * d
  OBVIOUS
<1> HIDE DEF d
<1>2. g \in Nat /\ e \in Nat /\ e < d /\ f = d * g + e
  BY <1>1, DivMod
<1> HIDE DEF g, e
<1>3. u * g \in Nat /\ 32 * f = u * g + 32 * e /\ 32 * f + x = u * g + (32 * e + x)
  <2> DEFINE y == d * g
  <2>1. y \in Nat /\ f = y + e
    BY <1>1, <1>2
  <2>2. u * g = 32 * y
    BY <1>1, <1>2
  <2> DEFINE z == u * g
  <2> HIDE DEF y, z
  <2>3. z = 32 * y
    BY <2>2 DEF z
  <2>4. z \in Nat /\ 32 * f = z + 32 * e /\ 32 * f + x = z + (32 * e + x)
    BY <1>2, <2>1, <2>3
  <2> QED BY <2>4 DEF z
<1>4. 32 * e \in Nat /\ 32 * e < u /\ 32 * e + x \in Nat /\ 32 * e + x < u
  BY <1>1, <1>2
<1>5. (u * g + 32 * e) \div u = g /\ (u * g + (32 * e + x)) \div u = g
  <2> DEFINE y == 32 * e
             z == 32 * e + x
  <2>1. y \in Nat /\ y < u /\ z \in Nat /\ z < u
    BY <1>4
  <2> HIDE DEF y, z
  <2>2. (u * g + y) \div u = g /\ (u * g + z) \div u = g
    BY <1>2, <2>1, DivUnique
  <2> QED BY <2>2 DEF y, z
<1> QED BY <1>3, <1>5

IsStaged(q, o, n0, at, ch, s, k) ==
  LET c == ChunkInput(ch, s, k)
      p == PartOf(q.parts, o)
      row == RowIn(q.parts, o)
      g == c \div q.group
  IN MM!StagedW(Loaded(q), LaunchOf(q), n0, MMA_BK * ch, at, 16 * s + k)
       = [q |-> <<p, row, c>>, z |-> <<p, row, g>>, s |-> <<p, row, g>>]

(* What the thread that owns a row dequantises for an element of a chunk.  *)
LEMMA StagedWeight ==
  ASSUME NEW q \in Products, q.kind \in ZeroPointed, NEW o \in 0 .. MM!RowsOf(q.parts) - 1,
         NEW n0 \in Nat, NEW at \in Nat, n0 + at = o,
         NEW ch \in 0 .. q.in \div MMA_BK - 1, NEW s \in 0 .. MMA_BK \div 16 - 1, NEW k \in 0 .. 15
  PROVE  IsStaged(q, o, n0, at, ch, s, k)
<1> DEFINE c == ChunkInput(ch, s, k)
           p == PartOf(q.parts, o)
           row == RowIn(q.parts, o)
           W == Loaded(q)
           w == LaunchOf(q)
           b == o \div Stripe
           l == o % Stripe
           kk == 16 * s + k
           k0 == MMA_BK * ch
           koff == 32 * (kk \div 32)
           t == (k0 + koff) \div 8 + (kk % 32) \div 8
           e == MM!SlotToNibble(kk)
           a == (MMA_BK \div 32) * ch
           f == a + kk \div 32
           x == 8 * ((kk % 32) \div 8) + e
<1>1. /\ w.group = q.group /\ w.out = MM!RowsOf(q.parts) /\ MM!RowsOf(q.parts) \in Nat
      /\ q.group \in Nat \ {0} /\ q.group % 32 = 0
  BY LaunchIs, GroupsAre DEF ByRow
<1>2. /\ ch \in Nat /\ s \in Nat /\ kk \in Nat /\ c \in 0 .. q.in - 1 /\ c \in Nat
      /\ MMA_BK \in Nat /\ MMA_BK % 32 = 0
  <2>1. MMA_BK \in Nat /\ MMA_BK % 32 = 0 /\ q.in \div MMA_BK \in Nat /\ MMA_BK \div 16 \in Nat
    BY ChunkSizes
  <2>2. ch \in Nat /\ s \in Nat /\ kk \in Nat
    BY <2>1
  <2>3. c \in 0 .. q.in - 1
    BY ChunkInputs
  <2>4. q.in \in Nat
    BY ProductAssumption
  <2> HIDE DEF c, kk
  <2>5. c \in Nat
    BY <2>3, <2>4
  <2> QED BY <2>1, <2>2, <2>3, <2>5
<1>3. e \in 0 .. 7
  BY <1>2, SlotsAre
<1>4. a \in Nat /\ k0 = 32 * a
  <2> DEFINE d == MMA_BK \div 32
  <2>1. d \in Nat /\ MMA_BK = 32 * d
    BY <1>2
  <2> HIDE DEF d
  <2>2. d * ch \in Nat /\ (32 * d) * ch = 32 * (d * ch)
    BY <1>2, <2>1
  <2> QED BY <2>1, <2>2 DEF d
<1>5. c = k0 + (8 * (kk \div 8) + e)
  BY DEF ChunkInput, InputOf
<1> HIDE DEF c, k0, kk, e, a
<1>6. k0 + koff = 32 * f /\ f \in Nat
  BY <1>2, <1>4
<1>7. c = 32 * f + x /\ x \in 0 .. 31 /\ 8 * t + e = c /\ t \in Nat
  BY <1>2, <1>3, <1>4, <1>5
<1>8. (k0 + koff) \div q.group = c \div q.group
  <2> HIDE DEF f, x, koff
  <2>1. q.group \in Nat \ {0} /\ q.group % 32 = 0
    BY <1>1
  <2>2. (32 * f) \div q.group = (32 * f + x) \div q.group
    BY <1>6, <1>7, <2>1, SameGroup
  <2> QED BY <1>6, <1>7, <2>2
<1>9. W.q[b][t][l][e] = <<p, row, c>>
  <2> HIDE DEF t, b, l, W, p, row
  <2>1. \A y \in 0 .. q.in - 1 : \A u, v : u \in Nat /\ v \in 0 .. 7 /\ 8 * u + v = y =>
          W.q[b][u][l][v] = <<p, row, y>>
    BY WeightsLoaded DEF W, b, l, p, row
  <2> QED BY <2>1, <1>2, <1>3, <1>7
<1>10. LET g == c \div q.group
       IN W.sc[b][g][l] = <<p, row, g>> /\ W.zp[b][g][l] = <<p, row, g>>
  <2>1. c \div q.group \in 0 .. q.in \div q.group - 1
    BY <1>2, GroupsAre DEF ByRow
  <2> HIDE DEF W, b, l, p, row
  <2>2. \A y \in 0 .. q.in \div q.group - 1 :
          W.sc[b][y][l] = <<p, row, y>> /\ W.zp[b][y][l] = <<p, row, y>>
    BY WeightsLoaded DEF W, b, l, p, row
  <2> QED BY <2>1, <2>2
<1>11. MM!nib2(W.q[b][t][l], (kk % 8) \div 2)[1 + (kk % 2)] = W.q[b][t][l][e]
  <2> DEFINE word == W.q[b][t][l]
             h == (kk % 8) \div 2
  <2>1. kk % 2 \in {0, 1} /\ h \in Nat
    BY <1>2
  <2>2. e = (IF kk % 2 = 1 THEN 4 ELSE 0) + h
    BY DEF e, MM!SlotToNibble
  <2>3. MM!nib2(word, h) = <<word[h], word[h + 4]>>
    BY DEF MM!nib2
  <2> HIDE DEF word, h
  <2>4. MM!nib2(word, h)[1 + (kk % 2)] = word[e]
    <3>1. CASE kk % 2 = 1
      <4>1. e = h + 4 /\ 1 + (kk % 2) = 2
        BY <2>1, <2>2, <3>1
      <4>2. MM!nib2(word, h)[2] = word[h + 4]
        BY <2>3
      <4> QED BY <4>1, <4>2
    <3>2. CASE kk % 2 = 0
      <4>1. e = h /\ 1 + (kk % 2) = 1
        BY <2>1, <2>2, <3>2
      <4>2. MM!nib2(word, h)[1] = word[h]
        BY <2>3
      <4> QED BY <4>1, <4>2
    <3> QED BY <2>1, <3>1, <3>2
  <2> QED BY <2>4 DEF word, h
<1>12. ~ (o >= w.out)
  BY <1>1
<1> DEFINE g == (k0 + koff) \div w.group
<1>13. MM!StagedW(W, w, n0, k0, at, kk)
         = [q |-> MM!nib2(W.q[b][t][l], (kk % 8) \div 2)[1 + (kk % 2)],
            z |-> W.zp[b][g][l], s |-> W.sc[b][g][l]]
  <2>1. \A y : y = o => (IF y >= w.out THEN "zero" ELSE
                           [q |-> MM!nib2(W.q[y \div Stripe][t][y % Stripe], (kk % 8) \div 2)[1 + (kk % 2)],
                            z |-> W.zp[y \div Stripe][g][y % Stripe],
                            s |-> W.sc[y \div Stripe][g][y % Stripe]])
                        = [q |-> MM!nib2(W.q[b][t][l], (kk % 8) \div 2)[1 + (kk % 2)],
                           z |-> W.zp[b][g][l], s |-> W.sc[b][g][l]]
    <3> HIDE DEF t, g, W, w
    <3> QED BY <1>12
  <2> HIDE DEF W, w
  <2> QED BY <2>1 DEF MM!StagedW
<1>14. g = c \div q.group
  BY <1>1, <1>8
<1> HIDE DEF t, g, W, w, b, l, koff
<1>15. MM!StagedW(W, w, n0, k0, at, kk)
         = [q |-> <<p, row, c>>, z |-> <<p, row, c \div q.group>>, s |-> <<p, row, c \div q.group>>]
  BY <1>9, <1>10, <1>11, <1>13, <1>14
<1> QED BY <1>15 DEF W, w, k0, kk, c, IsStaged

(* A share of the chunks, as the tensor-core kernel takes it.              *)
LEMMA CeilShares ==
  ASSUME NEW n \in Nat, NEW splits \in Nat \ {0}
  PROVE  LET per == (n + splits - 1) \div splits
             kbeg(s) == IF splits > 1 THEN MM!Min2(s * per, n) ELSE 0
             kend(s) == IF splits > 1 THEN MM!Min2((s + 1) * per, n) ELSE n
         IN /\ per \in Nat /\ n <= splits * per
            /\ \A s \in 0 .. splits - 1 : kbeg(s) .. kend(s) - 1 = Share(n, per, s)
<1> DEFINE per == (n + splits - 1) \div splits
           kbeg(s) == IF splits > 1 THEN MM!Min2(s * per, n) ELSE 0
           kend(s) == IF splits > 1 THEN MM!Min2((s + 1) * per, n) ELSE n
<1>1. per \in Nat /\ n <= splits * per
  <2> DEFINE y == n + splits - 1
             e == y % splits
  <2>1. y \in Nat
    OBVIOUS
  <2> HIDE DEF y
  <2>2. per \in Nat /\ y = splits * per + e /\ e \in Nat /\ e < splits
    BY <2>1, DivMod DEF y
  <2> HIDE DEF per, e
  <2>3. splits * per \in Nat
    BY <2>2
  <2> QED BY <2>2, <2>3 DEF y
<1>2. splits = 1 => per = n
  OBVIOUS
<1> HIDE DEF per
<1>3. ASSUME NEW s \in 0 .. splits - 1 PROVE kbeg(s) .. kend(s) - 1 = Share(n, per, s)
  <2>1. CASE splits > 1
    <3>1. s * per \in Nat /\ (s + 1) * per \in Nat
      BY <1>1
    <3> QED BY <2>1, <3>1 DEF Share, MM!Min2
  <2>2. CASE splits = 1
    <3>1. s = 0 /\ s * per = 0 /\ (s + 1) * per = n
      BY <1>1, <1>2, <2>2
    <3>2. kbeg(s) = 0 /\ kend(s) = n
      BY <2>2
    <3> HIDE DEF kbeg, kend
    <3> QED BY <3>1, <3>2 DEF Share
  <2> QED BY <2>1, <2>2
<1> QED BY <1>1, <1>3 DEF per

Contributed(q, i, M, r, o, n0, at, kind, ch, s, k) ==
  LET w == LaunchOf(q)
      v == MM!StagedW(Loaded(q), w, n0, MMA_BK * ch, at, 16 * s + k)
  IN <<kind, IF kind = "q" THEN v.q ELSE v.z, v.s,
       MM!StagedX(i * w.in, w.in, M, MMA_BK * ch, r, 16 * s + k)>>

ContributesTerms(q, i, M, r, o, n0, at) ==
  \A kind \in {"q", "z"}, ch \in 0 .. q.in \div MMA_BK - 1, s \in 0 .. MMA_BK \div 16 - 1, k \in 0 .. 15 :
    Contributed(q, i, M, r, o, n0, at, kind, ch, s, k) = Term(q, i + r, o, kind, ChunkInput(ch, s, k))

(* What an element of a chunk contributes to a lane's number.              *)
LEMMA MmaValue ==
  ASSUME NEW q \in Products, q.kind \in ZeroPointed, NEW i \in Nat, NEW M \in Nat,
         NEW r \in Nat, r < M, NEW o \in 0 .. MM!RowsOf(q.parts) - 1, NEW n0 \in Nat, NEW at \in Nat, n0 + at = o
  PROVE  ContributesTerms(q, i, M, r, o, n0, at)
<1> SUFFICES ASSUME NEW kind \in {"q", "z"}, NEW ch \in 0 .. q.in \div MMA_BK - 1,
                    NEW s \in 0 .. MMA_BK \div 16 - 1, NEW k \in 0 .. 15
             PROVE  Contributed(q, i, M, r, o, n0, at, kind, ch, s, k)
                      = Term(q, i + r, o, kind, ChunkInput(ch, s, k))
  BY DEF ContributesTerms
<1> DEFINE w == LaunchOf(q)
           v == MM!StagedW(Loaded(q), w, n0, MMA_BK * ch, at, 16 * s + k)
           c == ChunkInput(ch, s, k)
           p == PartOf(q.parts, o)
           row == RowIn(q.parts, o)
           g == c \div q.group
           x == MM!StagedX(i * w.in, w.in, M, MMA_BK * ch, r, 16 * s + k)
<1>1. v = [q |-> <<p, row, c>>, z |-> <<p, row, g>>, s |-> <<p, row, g>>]
  <2>1. IsStaged(q, o, n0, at, ch, s, k)
    BY StagedWeight
  <2> QED BY <2>1 DEF IsStaged
<1>2. x = (i + r) * q.in + c
  <2> DEFINE in == q.in
             y1 == i * in
             y2 == r * in
             k0 == MMA_BK * ch
             kk == 16 * s + k
  <2>1. in \in Nat /\ ch \in Nat /\ kk \in Nat /\ MMA_BK \in Nat
    <3>1. in \in Nat /\ MMA_BK \in Nat /\ q.in \div MMA_BK \in Nat /\ MMA_BK \div 16 \in Nat
      BY ProductAssumption, ChunkSizes
    <3> QED BY <3>1
  <2>2. y1 \in Nat /\ y2 \in Nat /\ k0 \in Nat /\ (i + r) * in = y1 + y2
    BY <2>1
  <2>3. MM!SlotToNibble(kk) \in Nat /\ 8 * (kk \div 8) \in Nat
    <3>1. MM!SlotToNibble(kk) \in 0 .. 7
      BY <2>1, SlotsAre
    <3> HIDE DEF kk
    <3> QED BY <2>1, <3>1
  <2>4. x = y1 + y2 + k0 + 8 * (kk \div 8) + MM!SlotToNibble(kk)
    <3>1. w.in = in
      BY LaunchIs
    <3> HIDE DEF w
    <3> QED BY <3>1 DEF MM!StagedX
  <2>5. c = k0 + (8 * (kk \div 8) + MM!SlotToNibble(kk))
    BY DEF ChunkInput, InputOf
  <2> HIDE DEF x, c, in, y1, y2, k0
  <2> DEFINE a == 8 * (kk \div 8)
             e == MM!SlotToNibble(kk)
  <2> HIDE DEF a, e
  <2>6. a \in Nat /\ e \in Nat /\ x = y1 + y2 + k0 + a + e /\ c = k0 + (a + e)
    BY <2>3, <2>4, <2>5 DEF a, e
  <2>7. x = (y1 + y2) + c
    BY <2>2, <2>6
  <2> QED BY <2>2, <2>7 DEF in
<1>3. c \in 0 .. q.in - 1
  <2>1. \A a \in 0 .. q.in \div MMA_BK - 1, b \in 0 .. MMA_BK \div 16 - 1, e \in 0 .. 15 :
          ChunkInput(a, b, e) \in 0 .. q.in - 1
    BY ChunkInputs
  <2> QED BY <2>1
<1>4. /\ Term(q, i + r, o, "q", c) = <<"q", <<p, row, c>>, <<p, row, g>>, (i + r) * q.in + c>>
      /\ Term(q, i + r, o, "z", c) = <<"z", <<p, row, g>>, <<p, row, g>>, (i + r) * q.in + c>>
  <2> HIDE DEF c
  <2> QED BY <1>3, TermsAre
<1> HIDE DEF v, x, c, p, row, g
<1>5. <<kind, IF kind = "q" THEN v.q ELSE v.z, v.s, x>> = Term(q, i + r, o, kind, c)
  <2>1. v.q = <<p, row, c>> /\ v.z = <<p, row, g>> /\ v.s = <<p, row, g>>
    BY <1>1
  <2>2. CASE kind = "q"
    BY <2>1, <2>2, <1>2, <1>4
  <2>3. CASE kind = "z"
    BY <2>1, <2>3, <1>2, <1>4
  <2> QED BY <2>2, <2>3
<1> QED BY <1>5 DEF v, x, c, w, Contributed

(* The chunks of a split.                                                  *)
ShareOfChunks(n, splits, split) ==
  LET per == (n + splits - 1) \div splits
  IN (IF splits > 1 THEN MM!Min2(split * per, n) ELSE 0)
       .. (IF splits > 1 THEN MM!Min2((split + 1) * per, n) ELSE n) - 1

IsHeld(q, i, M, n0, split, warp, nn, lane, reg) ==
  LET w == LaunchOf(q)
      r == lane \div 4 + 8 * (reg \div 2)
      at == 16 * warp + 8 * nn + (2 * (lane % 4) + (reg % 2))
      held == MM!MmaTerms(Loaded(q), w, i * w.in, M, n0, split, w.splits, warp, nn, lane, reg)
      D == {"q", "z"} \X ShareOfChunks(q.in \div MMA_BK, q.splits, split)
             \X (0 .. MMA_BK \div 16 - 1) \X (0 .. 15)
  IN /\ DOMAIN held = D
     /\ \A o : \A st \in D :
          held[st] = Contributed(q, i, M, r, o, n0, at, st[1], st[2], st[3], st[4])

(* What a lane and register hold after a split.                            *)
LEMMA HeldIs ==
  ASSUME NEW q \in Products, NEW i \in Nat, NEW M \in Nat, NEW n0 \in Nat,
         NEW split, NEW warp \in Nat, NEW nn \in Nat, NEW lane \in 0 .. 31, NEW reg \in 0 .. 3
  PROVE  IsHeld(q, i, M, n0, split, warp, nn, lane, reg)
<1> DEFINE w == LaunchOf(q)
           W == Loaded(q)
           x0 == i * w.in
           r == lane \div 4 + 8 * (reg \div 2)
           col == 2 * (lane % 4) + (reg % 2)
           at == 16 * warp + 8 * nn + col
           range == ShareOfChunks(q.in \div MMA_BK, q.splits, split)
           D == {"q", "z"} \X range \X (0 .. MMA_BK \div 16 - 1) \X (0 .. 15)
           held == MM!MmaTerms(W, w, x0, M, n0, split, w.splits, warp, nn, lane, reg)
           rc == CHOOSE rc \in (0 .. 15) \X (0 .. 7) : MM!HoldsC(rc[1], rc[2]) = <<lane, reg>>
           a(st) == LET h == MM!HoldsA(rc[1], st[4])
                        l == MM!LoadA(h[1], h[2], 16 * st[3])
                    IN MM!StagedX(x0, w.in, M, MMA_BK * st[2], l.row, l.slot + h[3])
           wt(st) == LET h == MM!HoldsB(st[4], rc[2])
                         l == MM!LoadB(h[1], h[2], 16 * st[3], warp, nn)
                     IN MM!StagedW(W, w, n0, MMA_BK * st[2], l.row, l.slot + h[3])
           value(st) == LET v == wt(st) IN <<st[1], IF st[1] = "q" THEN v.q ELSE v.z, v.s, a(st)>>
<1>1. w.in = q.in /\ w.splits = q.splits
  BY LaunchIs
<1>2. held = [st \in D |-> value(st)]
  <2> HIDE DEF W, w
  <2> QED BY <1>1 DEF MM!MmaTerms, ShareOfChunks
<1>3. r \in 0 .. 15 /\ col \in 0 .. 7 /\ rc = <<r, col>>
  BY ResultHeld
<1> HIDE DEF r, col, rc, held, range, W, w
<1>4. ASSUME NEW st \in D
      PROVE  /\ a(st) = MM!StagedX(x0, w.in, M, MMA_BK * st[2], r, 16 * st[3] + st[4])
             /\ wt(st) = MM!StagedW(W, w, n0, MMA_BK * st[2], at, 16 * st[3] + st[4])
  <2>1. st[3] \in Nat /\ st[4] \in 0 .. 15
    BY ChunkSizes
  <2>2. PICK kb \in Nat : kb = 16 * st[3]
    BY <2>1
  <2>3. PICK k \in 0 .. 15 : k = st[4]
    BY <2>1
  <2> DEFINE h == MM!HoldsA(r, k)
             l == MM!LoadA(h[1], h[2], kb)
             h2 == MM!HoldsB(k, col)
             l2 == MM!LoadB(h2[1], h2[2], kb, warp, nn)
  <2>4. l.row = r /\ l.slot + h[3] = kb + k
    <3>1. LeftIs(r, k, kb)
      BY <1>3, LeftRead
    <3> QED BY <3>1 DEF LeftIs
  <2>5. l2.row = at /\ l2.slot + h2[3] = kb + k
    <3>1. RightIs(col, k, kb, warp, nn)
      BY <1>3, RightRead
    <3> QED BY <3>1 DEF RightIs
  <2>6. rc[1] = r /\ rc[2] = col
    BY <1>3
  <2>7. a(st) = MM!StagedX(x0, w.in, M, MMA_BK * st[2], l.row, l.slot + h[3])
    BY <2>2, <2>3, <2>6
  <2>8. wt(st) = MM!StagedW(W, w, n0, MMA_BK * st[2], l2.row, l2.slot + h2[3])
    BY <2>2, <2>3, <2>6
  <2> HIDE DEF a, wt, h, l, h2, l2
  <2> QED BY <2>2, <2>3, <2>4, <2>5, <2>7, <2>8
<1>5. \A st \in D : held[st] = value(st)
  <2> HIDE DEF value, D
  <2> QED BY <1>2
<1>6. ASSUME NEW o, NEW st \in D
      PROVE  held[st] = Contributed(q, i, M, r, o, n0, at, st[1], st[2], st[3], st[4])
  <2> HIDE DEF a, wt, D, at
  <2> QED BY <1>4, <1>5 DEF Contributed, W, w
<1>7. DOMAIN held = D
  <2> HIDE DEF value, D
  <2> QED BY <1>2
<1> HIDE DEF D, at
<1>8. /\ DOMAIN held = D
      /\ \A o : \A st \in D :
           held[st] = Contributed(q, i, M, r, o, n0, at, st[1], st[2], st[3], st[4])
  BY <1>6, <1>7
<1> QED BY <1>8 DEF W, w, D, at, range, held, r, col, IsHeld

MmaSum(q, i, M, n0, warp, nn, lane, reg) ==
  LET w == LaunchOf(q)
  IN MM!SumOf(MM!Reduced([k \in 0 .. w.splits - 1 |->
       MM!MmaTerms(Loaded(q), w, i * w.in, M, n0, k, w.splits, warp, nn, lane, reg)]))

(* So what a lane and register hold after all splits is their number.      *)
MmaSums(q, i, M, n0, warp, nn, lane, reg) ==
  \A r \in Nat, o \in 0 .. MM!RowsOf(q.parts) - 1 :
    /\ r < M /\ r = lane \div 4 + 8 * (reg \div 2)
    /\ o = n0 + (16 * warp + 8 * nn + (2 * (lane % 4) + (reg % 2)))
    => MmaSum(q, i, M, n0, warp, nn, lane, reg) = Sought(q, i + r, o)

(* What a lane holds after all splits is the sum sought.                   *)
LEMMA MmaIs ==
  ASSUME NEW q \in Products, q.kind \in ZeroPointed, NEW i \in Nat, NEW M \in Nat, NEW n0 \in Nat,
         NEW warp \in Nat, NEW nn \in Nat, NEW lane \in 0 .. 31, NEW reg \in 0 .. 3
  PROVE  MmaSums(q, i, M, n0, warp, nn, lane, reg)
<1> SUFFICES ASSUME NEW r \in Nat, r < M, r = lane \div 4 + 8 * (reg \div 2),
                    NEW o \in 0 .. MM!RowsOf(q.parts) - 1,
                    o = n0 + (16 * warp + 8 * nn + (2 * (lane % 4) + (reg % 2)))
             PROVE  MmaSum(q, i, M, n0, warp, nn, lane, reg) = Sought(q, i + r, o)
  BY DEF MmaSums
<1> DEFINE w == LaunchOf(q)
           K == 0 .. q.splits - 1
           n == q.in \div MMA_BK
           per == (n + q.splits - 1) \div q.splits
           S == 0 .. MMA_BK \div 16 - 1
           E == 0 .. 15
           at == 16 * warp + 8 * nn + (2 * (lane % 4) + (reg % 2))
           held(k) == MM!MmaTerms(Loaded(q), w, i * w.in, M, n0, k, w.splits, warp, nn, lane, reg)
           partial == [k \in K |-> held(k)]
           domain(k) == {"q", "z"} \X Share(n, per, k) \X S \X E
           all == {"q", "z"} \X (0 .. n - 1) \X S \X E
           spot(st) == <<st[1], ChunkInput(st[2], st[3], st[4])>>
           place == [st \in all |-> spot(st)]
<1>1. w.splits = q.splits /\ q.splits \in Nat \ {0} /\ n \in Nat
  BY LaunchIs, ProductAssumption, ChunkSizes DEF ByRow
<1>2. /\ per \in Nat /\ n <= q.splits * per
      /\ \A k \in K : ShareOfChunks(n, q.splits, k) = Share(n, per, k)
  <2> HIDE DEF n
  <2> QED BY <1>1, CeilShares DEF ShareOfChunks
<1>3. /\ \A g \in 0 .. n - 1 : \E s \in K : g \in Share(n, per, s)
      /\ \A s, t \in K : \A g : g \in Share(n, per, s) /\ g \in Share(n, per, t) => s = t
  <2>1. n \in Nat /\ per \in Nat /\ q.splits \in Nat \ {0} /\ n <= q.splits * per
    BY <1>1, <1>2
  <2> HIDE DEF n, per
  <2> QED BY <2>1, Shares
<1>4. \A g : \A k \in K : g \in Share(n, per, k) => g \in 0 .. n - 1
  BY DEF Share
<1>5. /\ \A ch \in 0 .. n - 1, s \in S, k \in E : ChunkInput(ch, s, k) \in 0 .. q.in - 1
      /\ \A ch1, ch2 \in 0 .. n - 1, s1, s2 \in S, k1, k2 \in E :
           ChunkInput(ch1, s1, k1) = ChunkInput(ch2, s2, k2) => ch1 = ch2 /\ s1 = s2 /\ k1 = k2
      /\ \A c \in 0 .. q.in - 1 : \E ch \in 0 .. n - 1, s \in S, k \in E : ChunkInput(ch, s, k) = c
  BY ChunkInputs
<1>6. at \in Nat /\ n0 + at = o
  OBVIOUS
<1>7. ASSUME NEW k \in K
      PROVE  /\ DOMAIN partial[k] = domain(k)
             /\ \A st \in domain(k) :
                  partial[k][st] = Contributed(q, i, M, r, o, n0, at, st[1], st[2], st[3], st[4])
  <2>1. IsHeld(q, i, M, n0, k, warp, nn, lane, reg)
    BY HeldIs
  <2>2. /\ DOMAIN held(k) = {"q", "z"} \X ShareOfChunks(n, q.splits, k) \X S \X E
        /\ \A st \in {"q", "z"} \X ShareOfChunks(n, q.splits, k) \X S \X E :
             held(k)[st] = Contributed(q, i, M, r, o, n0, at, st[1], st[2], st[3], st[4])
    BY <2>1 DEF IsHeld
  <2>3. ShareOfChunks(n, q.splits, k) = Share(n, per, k)
    BY <1>2
  <2>4. partial[k] = held(k)
    OBVIOUS
  <2> HIDE DEF held, partial, n, per, S, at
  <2> QED BY <2>2, <2>3, <2>4
<1>8. DOMAIN partial = K
  OBVIOUS
<1>9. ASSUME NEW kind \in {"q", "z"}, NEW ch \in 0 .. n - 1, NEW s \in S, NEW k \in E
      PROVE  Contributed(q, i, M, r, o, n0, at, kind, ch, s, k) = Term(q, i + r, o, kind, ChunkInput(ch, s, k))
  <2> HIDE DEF at
  <2>1. ContributesTerms(q, i, M, r, o, n0, at)
    BY <1>6, MmaValue
  <2> QED BY <2>1 DEF ContributesTerms
<1>10. Spots(q) = {"q", "z"} \X (0 .. q.in - 1)
  BY TermsAre
<1> HIDE DEF partial, held, n, per, S, E, K, at, place, w
<1>11. ASSUME NEW k \in K, NEW st \in domain(k)
       PROVE  /\ st[1] \in {"q", "z"} /\ st[2] \in 0 .. n - 1 /\ st[2] \in Share(n, per, k)
              /\ st[3] \in S /\ st[4] \in E /\ st = <<st[1], st[2], st[3], st[4]>>
              /\ place[st] = <<st[1], ChunkInput(st[2], st[3], st[4])>>
  <2>1. /\ st[1] \in {"q", "z"} /\ st[2] \in Share(n, per, k)
        /\ st[3] \in S /\ st[4] \in E /\ st = <<st[1], st[2], st[3], st[4]>>
    OBVIOUS
  <2>2. st[2] \in 0 .. n - 1
    BY <2>1, <1>4
  <2>3. st \in all
    BY <2>1, <2>2
  <2>4. place[st] = spot(st)
    <3> HIDE DEF all, spot
    <3> QED BY <2>3 DEF place
  <2> QED BY <2>1, <2>2, <2>4
<1>12. ASSUME NEW k \in K, NEW st \in DOMAIN partial[k]
       PROVE  /\ place[st] \in Spots(q)
              /\ partial[k][st] = Term(q, i + r, o, place[st][1], place[st][2])
  <2>1. st \in domain(k)
    BY <1>7
  <2>2. /\ st[1] \in {"q", "z"} /\ st[2] \in 0 .. n - 1 /\ st[3] \in S /\ st[4] \in E
        /\ place[st] = <<st[1], ChunkInput(st[2], st[3], st[4])>>
    BY <2>1, <1>11
  <2>3. ChunkInput(st[2], st[3], st[4]) \in 0 .. q.in - 1
    BY <2>2, <1>5
  <2>4. partial[k][st] = Contributed(q, i, M, r, o, n0, at, st[1], st[2], st[3], st[4])
    BY <2>1, <1>7
  <2>5. partial[k][st] = Term(q, i + r, o, st[1], ChunkInput(st[2], st[3], st[4]))
    BY <2>2, <2>4, <1>9
  <2>6. place[st][1] = st[1] /\ place[st][2] = ChunkInput(st[2], st[3], st[4])
    BY <2>2
  <2> QED BY <2>2, <2>3, <2>5, <2>6, <1>10
<1>13. ASSUME NEW j \in K, NEW k \in K, NEW s \in DOMAIN partial[j], NEW t \in DOMAIN partial[k],
              place[s] = place[t]
       PROVE  j = k /\ s = t
  <2>1. s \in domain(j) /\ t \in domain(k)
    BY <1>7
  <2>2. /\ s[1] = t[1]
        /\ ChunkInput(s[2], s[3], s[4]) = ChunkInput(t[2], t[3], t[4])
    BY <2>1, <1>11, <1>13
  <2>3. /\ s[2] \in 0 .. n - 1 /\ s[3] \in S /\ s[4] \in E /\ s = <<s[1], s[2], s[3], s[4]>>
        /\ t[2] \in 0 .. n - 1 /\ t[3] \in S /\ t[4] \in E /\ t = <<t[1], t[2], t[3], t[4]>>
        /\ s[2] \in Share(n, per, j) /\ t[2] \in Share(n, per, k)
    BY <2>1, <1>11
  <2>4. s[2] = t[2] /\ s[3] = t[3] /\ s[4] = t[4]
    BY <2>2, <2>3, <1>5
  <2> QED BY <2>2, <2>3, <2>4, <1>3
<1>14. ASSUME NEW s \in Spots(q) PROVE \E k \in K : \E st \in DOMAIN partial[k] : place[st] = s
  <2>1. PICK kind \in {"q", "z"}, c \in 0 .. q.in - 1 : s = <<kind, c>>
    BY <1>10
  <2>2. PICK ch \in 0 .. n - 1, f \in S, e \in E : ChunkInput(ch, f, e) = c
    BY <1>5
  <2>3. PICK k \in K : ch \in Share(n, per, k)
    BY <1>3
  <2> DEFINE st == <<kind, ch, f, e>>
  <2>4. st \in domain(k) /\ st[1] = kind /\ st[2] = ch /\ st[3] = f /\ st[4] = e
    BY <2>2, <2>3
  <2> HIDE DEF st
  <2>5. place[st] = s
    BY <2>1, <2>2, <2>4, <1>11
  <2> QED BY <2>4, <2>5, <1>7
<1>15. MM!SumOf(MM!Reduced(partial)) = Sought(q, i + r, o)
  <2>1. i + r \in Nat
    OBVIOUS
  <2> QED BY <2>1, <1>8, <1>12, <1>13, <1>14, OnceInSplits
<1>16. partial = [k \in 0 .. w.splits - 1 |->
           MM!MmaTerms(Loaded(q), w, i * w.in, M, n0, k, w.splits, warp, nn, lane, reg)]
  BY <1>1 DEF partial, K, held
<1> QED BY <1>15, <1>16 DEF w, MmaSum

(* The lanes of all warps and blocks write every row and column.           *)
Row(lane, reg) == lane \div 4 + 8 * (reg \div 2)
Col(n0, warp, nn, lane, reg) == n0 + 16 * warp + 8 * nn + 2 * (lane % 4) + (reg % 2)

IsLane(r, o, bn) ==
         \E b \in Nat, warp \in 0 .. bn \div 16 - 1, nn \in {0, 1}, lane \in 0 .. 31, reg \in 0 .. 3 :
           b = o \div bn /\ Row(lane, reg) = r /\ Col(bn * b, warp, nn, lane, reg) = o

(* Each place of the output is held by a lane of a warp.                   *)
LEMMA LaneOf ==
  ASSUME NEW r \in 0 .. 15, NEW o \in Nat, NEW bn \in Nat \ {0}, bn % 16 = 0
  PROVE  IsLane(r, o, bn)
<1> DEFINE b == o \div bn
           e == o % bn
           m == bn \div 16
           n0 == bn * b
           warp == e \div 16
           nn == (e % 16) \div 8
           col == e % 8
           lane == 4 * (r % 8) + col \div 2
           reg == 2 * (r \div 8) + (col % 2)
<1>1. b \in Nat /\ e \in Nat /\ e < bn /\ o = n0 + e /\ n0 \in Nat
  <2>1. b \in Nat /\ e \in Nat /\ e < bn /\ o = bn * b + e
    BY DivMod
  <2> QED BY <2>1
<1>2. m \in Nat /\ bn = 16 * m
  OBVIOUS
<1> HIDE DEF b, e, m, n0
<1>3. warp \in 0 .. m - 1 /\ nn \in {0, 1} /\ col \in 0 .. 7 /\ e = 16 * warp + 8 * nn + col
  <2> DEFINE y == e \div 16
             z == e % 16
  <2>1. y \in Nat /\ z \in 0 .. 15 /\ e = 16 * y + z /\ e % 8 = z % 8
    BY <1>1
  <2> HIDE DEF y, z
  <2>2. y \in 0 .. m - 1
    BY <1>1, <1>2, <2>1
  <2>3. z \div 8 \in {0, 1} /\ z % 8 \in 0 .. 7 /\ z = 8 * (z \div 8) + (z % 8)
    BY <2>1
  <2>4. warp = y /\ nn = z \div 8 /\ col = z % 8
    BY <2>1 DEF y, z
  <2> HIDE DEF warp, nn, col
  <2> QED BY <2>1, <2>2, <2>3, <2>4
<1> HIDE DEF warp, nn, col
<1>4. lane \in 0 .. 31 /\ reg \in 0 .. 3
  BY <1>3
<1>5. Row(lane, reg) = r /\ 2 * (lane % 4) + (reg % 2) = col
  BY <1>3 DEF Row
<1> HIDE DEF lane, reg
<1>6. Col(n0, warp, nn, lane, reg) = o
  <2> DEFINE x == 2 * (lane % 4)
             y == reg % 2
  <2>1. x \in Nat /\ y \in Nat /\ x + y = col
    BY <1>4, <1>5
  <2> HIDE DEF x, y
  <2>2. n0 + 16 * warp + 8 * nn + x + y = o
    BY <1>1, <1>3, <2>1
  <2> QED BY <2>2 DEF x, y, Col
<1> QED BY <1>1, <1>3, <1>4, <1>5, <1>6 DEF b, m, n0, IsLane

Written(q, i, M, n0, warp, nn, lane, reg) ==
  LET r == Row(lane, reg)
      o == Col(n0, warp, nn, lane, reg)
  IN r < M /\ o < MM!RowsOf(q.parts) =>
       /\ r \in 0 .. M - 1 /\ o \in 0 .. MM!RowsOf(q.parts) - 1
       /\ MmaSum(q, i, M, n0, warp, nn, lane, reg) = Sought(q, i + r, o)

(* What it writes is a number of the output.                               *)
LEMMA MmaNumber ==
  ASSUME NEW q \in Products, q.kind \in ZeroPointed, NEW i \in Nat, NEW M \in Nat, NEW n0 \in Nat,
         NEW warp \in Nat, NEW nn \in Nat, NEW lane \in 0 .. 31, NEW reg \in 0 .. 3
  PROVE  Written(q, i, M, n0, warp, nn, lane, reg)
<1> DEFINE r == Row(lane, reg)
           o == Col(n0, warp, nn, lane, reg)
           out == MM!RowsOf(q.parts)
<1> SUFFICES ASSUME r < M, o < out
             PROVE  /\ r \in 0 .. M - 1 /\ o \in 0 .. out - 1
                    /\ MmaSum(q, i, M, n0, warp, nn, lane, reg) = Sought(q, i + r, o)
  BY DEF Written
<1>1. out \in Nat
  BY LaunchIs
<1> HIDE DEF out
<1>2. r \in Nat /\ o \in Nat
  BY DEF Row, Col
<1>3. r \in 0 .. M - 1 /\ o \in 0 .. out - 1
  BY <1>1, <1>2
<1>4. r = lane \div 4 + 8 * (reg \div 2)
  BY DEF Row
<1>5. o = n0 + (16 * warp + 8 * nn + (2 * (lane % 4) + (reg % 2)))
  BY DEF Col
<1>6. MmaSums(q, i, M, n0, warp, nn, lane, reg)
  BY MmaIs
<1> HIDE DEF r, o
<1>7. MmaSum(q, i, M, n0, warp, nn, lane, reg) = Sought(q, i + r, o)
  BY <1>2, <1>3, <1>4, <1>5, <1>6 DEF MmaSums, out
<1> QED BY <1>3, <1>7

(* A launch of k_gemm_mma gives the numbers of its rows.                   *)
LEMMA MmaLaunch ==
  ASSUME NEW q \in Products, q.kind \in ZeroPointed, NEW i \in Nat, NEW M \in 0 .. 16
  PROVE  LET w == LaunchOf(q)
         IN MM!GemmMma(Loaded(q), w, i * w.in, i * w.out, M) = Numbers(q, i, M)
<1> DEFINE w == LaunchOf(q)
           W == Loaded(q)
           out == MM!RowsOf(q.parts)
           bs == 0 .. (out + MMA_BN - 1) \div MMA_BN - 1
           blocks == {MMA_BN * b : b \in bs}
           warps == 0 .. MMA_BN \div 16 - 1
           H == blocks \X warps \X {0, 1} \X (0 .. 31) \X (0 .. 3)
           r(h) == Row(h[4], h[5])
           o(h) == Col(h[1], h[2], h[3], h[4], h[5])
           holders == {h \in H : r(h) < M /\ o(h) < out}
           number(h) == [at |-> i * w.out + r(h) * w.out + o(h),
                         sum |-> MmaSum(q, i, M, h[1], h[2], h[3], h[4], h[5])]
           all == {number(h) : h \in holders}
<1>1. w.out = out /\ out \in Nat /\ MMA_BN \in Nat \ {0} /\ MMA_BN % 16 = 0 /\ M \in Nat
  BY LaunchIs, TileAssumption
<1>2. MM!GemmMma(W, w, i * w.in, i * w.out, M) = all
  <2> HIDE DEF W, w
  <2> QED BY <1>1 DEF MM!GemmMma, MM!WARP, MmaSum, Row, Col, W, w
<1>3. ASSUME NEW b \in Nat PROVE MMA_BN * b \in Nat
  BY <1>1
<1>4. (out + MMA_BN - 1) \div MMA_BN \in Nat
  BY <1>1
<1>5. MMA_BN \div 16 \in Nat
  BY <1>1
<1> HIDE DEF W, w, out
<1>6. ASSUME NEW h \in holders
      PROVE  /\ r(h) \in 0 .. M - 1 /\ o(h) \in 0 .. out - 1
             /\ number(h) = NumberAt(q, i + r(h), o(h))
  <2>1. /\ h[1] \in blocks /\ h[2] \in warps /\ h[3] \in {0, 1} /\ h[4] \in 0 .. 31 /\ h[5] \in 0 .. 3
        /\ r(h) < M /\ o(h) < out
    OBVIOUS
  <2>2. PICK n0 \in Nat : n0 = h[1]
    <3>1. PICK b \in bs : h[1] = MMA_BN * b
      BY <2>1
    <3>2. b \in Nat
      BY <1>4
    <3> QED BY <3>1, <3>2, <1>3
  <2>3. PICK warp \in Nat : warp = h[2]
    BY <2>1, <1>5
  <2>4. PICK nn \in Nat : nn = h[3]
    BY <2>1
  <2>5. PICK lane \in 0 .. 31 : lane = h[4]
    BY <2>1
  <2>6. PICK reg \in 0 .. 3 : reg = h[5]
    BY <2>1
  <2> HIDE DEF holders, H
  <2>7. /\ Row(lane, reg) \in 0 .. M - 1 /\ Col(n0, warp, nn, lane, reg) \in 0 .. out - 1
        /\ MmaSum(q, i, M, n0, warp, nn, lane, reg)
             = Sought(q, i + Row(lane, reg), Col(n0, warp, nn, lane, reg))
    <3>1. Row(lane, reg) < M /\ Col(n0, warp, nn, lane, reg) < out
      BY <2>1, <2>2, <2>3, <2>4, <2>5, <2>6
    <3>2. Written(q, i, M, n0, warp, nn, lane, reg)
      BY <1>1, MmaNumber
    <3> QED BY <3>1, <3>2 DEF Written, out
  <2>8. /\ r(h) = Row(lane, reg) /\ o(h) = Col(n0, warp, nn, lane, reg)
        /\ MmaSum(q, i, M, h[1], h[2], h[3], h[4], h[5]) = MmaSum(q, i, M, n0, warp, nn, lane, reg)
    BY <2>2, <2>3, <2>4, <2>5, <2>6
  <2> HIDE DEF r, o
  <2>9. r(h) \in 0 .. M - 1 /\ o(h) \in 0 .. out - 1
    BY <2>7, <2>8
  <2>10. PICK a \in Nat : a = r(h)
    BY <2>9
  <2>11. i * w.out + a * w.out = (i + a) * out
    BY SameRow DEF w, out
  <2>12. number(h) = [at |-> (i + a) * out + o(h), sum |-> Sought(q, i + a, o(h))]
    BY <2>7, <2>8, <2>10, <2>11
  <2> HIDE DEF number
  <2> QED BY <2>9, <2>10, <2>12 DEF NumberAt, out
<1>7. ASSUME NEW a \in 0 .. M - 1, NEW c \in 0 .. out - 1
      PROVE  \E h \in holders : r(h) = a /\ o(h) = c
  <2>1. a \in 0 .. 15 /\ c \in Nat /\ c < out /\ a < M
    BY <1>1
  <2>2. PICK b \in Nat, warp \in warps, nn \in {0, 1}, lane \in 0 .. 31, reg \in 0 .. 3 :
          b = c \div MMA_BN /\ Row(lane, reg) = a /\ Col(MMA_BN * b, warp, nn, lane, reg) = c
    <3>1. IsLane(a, c, MMA_BN)
      BY <1>1, <2>1, LaneOf
    <3> QED BY <3>1 DEF IsLane
  <2>3. b \in bs
    <3> DEFINE y == out + MMA_BN - 1
               z == y \div MMA_BN
               e == c % MMA_BN
               f == y % MMA_BN
    <3>1. c = MMA_BN * b + e /\ e \in Nat
      BY <1>1, <2>1, <2>2, DivMod
    <3>2. y \in Nat
      BY <1>1
    <3> HIDE DEF y
    <3>3. z \in Nat /\ y = MMA_BN * z + f /\ f \in Nat /\ f < MMA_BN
      BY <1>1, <3>2, DivMod
    <3> HIDE DEF z, e, f
    <3>4. b < z
      <4> SUFFICES ASSUME z <= b PROVE FALSE
        BY <2>2, <3>3
      <4>1. MMA_BN * z <= MMA_BN * b /\ MMA_BN * z \in Nat /\ MMA_BN * b \in Nat
        BY <1>1, <2>2, <3>3
      <4> QED BY <1>1, <2>1, <3>1, <3>3, <4>1 DEF y
    <3> QED BY <2>2, <3>3, <3>4 DEF z, y
  <2> DEFINE h == <<MMA_BN * b, warp, nn, lane, reg>>
  <2>4. h \in H
    BY <2>2, <2>3
  <2>5. r(h) = a /\ o(h) = c
    BY <2>2
  <2>6. h \in holders
    <3> HIDE DEF h, H, r, o
    <3> QED BY <2>1, <2>4, <2>5
  <2> HIDE DEF h, holders, r, o
  <2> QED BY <2>5, <2>6
<1> HIDE DEF holders, number, r, o
<1>8. all = Numbers(q, i, M)
  <2>1. ASSUME NEW v \in all PROVE v \in Numbers(q, i, M)
    <3>1. PICK h \in holders : v = number(h)
      OBVIOUS
    <3> QED BY <3>1, <1>6 DEF Numbers, out
  <2>2. ASSUME NEW v \in Numbers(q, i, M) PROVE v \in all
    <3>1. PICK a \in 0 .. M - 1, c \in 0 .. out - 1 : v = NumberAt(q, i + a, c)
      BY DEF Numbers, out
    <3>2. PICK h \in holders : r(h) = a /\ o(h) = c
      BY <1>7
    <3>3. number(h) = NumberAt(q, i + r(h), o(h))
      BY <1>6
    <3> QED BY <3>1, <3>2, <3>3
  <2> QED BY <2>1, <2>2
<1> HIDE DEF all
<1> QED BY <1>2, <1>8 DEF W, w

(* The weights are dequantised and multiplied in tiles of rows.            *)
Dequantised(q, o, k) ==
  LET W == Loaded(q)
      b == o \div Stripe
      l == o % Stripe
      t == k \div 8
      g == (8 * t) \div LaunchOf(q).group
  IN [q |-> W.q[b][t][l][k % 8], z |-> W.zp[b][g][l], s |-> W.sc[b][g][l]]

CublasSum(q, x0, r, o) ==
  MM!SumOf([st \in {"q", "z"} \X (0 .. LaunchOf(q).in - 1) |->
    LET d == Dequantised(q, o, st[2])
    IN <<st[1], IF st[1] = "q" THEN d.q ELSE d.z, d.s, x0 + r * LaunchOf(q).in + st[2]>>])

(* A row of dequantised weights gives the sum sought.                      *)
LEMMA CublasIs ==
  ASSUME NEW q \in Products, q.kind \in ZeroPointed, NEW o \in 0 .. MM!RowsOf(q.parts) - 1, NEW r \in Nat
  PROVE  CublasSum(q, 0, r, o) = Sought(q, r, o)
<1> DEFINE W == Loaded(q)
           w == LaunchOf(q)
           in == q.in
           D == {"q", "z"} \X (0 .. in - 1)
           p == PartOf(q.parts, o)
           row == RowIn(q.parts, o)
           value(st) == LET d == Dequantised(q, o, st[2])
                        IN <<st[1], IF st[1] = "q" THEN d.q ELSE d.z, d.s, 0 + r * w.in + st[2]>>
           f == [st \in D |-> value(st)]
           place == [st \in D |-> st]
<1>1. w.in = in /\ w.group = q.group /\ in \in Nat /\ q.group \in Nat \ {0} /\ q.group % 32 = 0
  BY LaunchIs, GroupsAre DEF ByRow
<1>2. Spots(q) = D
  BY TermsAre
<1>3. ASSUME NEW k \in 0 .. in - 1
      PROVE  Dequantised(q, o, k) = [q |-> <<p, row, k>>, z |-> <<p, row, k \div q.group>>,
                                     s |-> <<p, row, k \div q.group>>]
  <2> DEFINE t == k \div 8
             e == k % 8
             g == (8 * t) \div w.group
             b == o \div Stripe
             l == o % Stripe
  <2>1. t \in Nat /\ e \in 0 .. 7 /\ 8 * t + e = k /\ k \in Nat
    BY <1>1
  <2>2. W.q[b][t][l][e] = <<p, row, k>>
    <3> HIDE DEF t, e, b, l, W, p, row
    <3>1. \A y \in 0 .. q.in - 1 : \A u, v : u \in Nat /\ v \in 0 .. 7 /\ 8 * u + v = y =>
            W.q[b][u][l][v] = <<p, row, y>>
      BY WeightsLoaded DEF W, b, l, p, row
    <3> QED BY <2>1, <3>1
  <2>3. g = k \div q.group
    <3> DEFINE a == k \div 32
               x == k % 32
               y == 8 * (x \div 8)
    <3>1. a \in Nat /\ x \in 0 .. 31 /\ y \in 0 .. 31 /\ k = 32 * a + x /\ 8 * t = 32 * a + y
      BY <2>1
    <3> HIDE DEF a, x, y, t
    <3>2. (32 * a) \div q.group = (32 * a + x) \div q.group
      BY <1>1, <3>1, SameGroup
    <3>3. (32 * a) \div q.group = (32 * a + y) \div q.group
      BY <1>1, <3>1, SameGroup
    <3> QED BY <1>1, <3>1, <3>2, <3>3
  <2>4. g \in 0 .. q.in \div q.group - 1
    BY <2>3, GroupsAre DEF ByRow
  <2>5. W.sc[b][g][l] = <<p, row, g>> /\ W.zp[b][g][l] = <<p, row, g>>
    <3> HIDE DEF W, b, l, p, row, g
    <3>1. \A y \in 0 .. q.in \div q.group - 1 :
            W.sc[b][y][l] = <<p, row, y>> /\ W.zp[b][y][l] = <<p, row, y>>
      BY WeightsLoaded DEF W, b, l, p, row
    <3> QED BY <2>4, <3>1
  <2>6. Dequantised(q, o, k) = [q |-> W.q[b][t][l][e], z |-> W.zp[b][g][l], s |-> W.sc[b][g][l]]
    BY DEF Dequantised
  <2> HIDE DEF W, b, l, t, e, g, p, row
  <2> QED BY <2>2, <2>3, <2>5, <2>6
<1>4. ASSUME NEW st \in D PROVE value(st) = Term(q, r, o, st[1], st[2])
  <2>1. st[1] \in {"q", "z"} /\ st[2] \in 0 .. in - 1
    OBVIOUS
  <2>2. PICK kind \in {"q", "z"} : kind = st[1]
    BY <2>1
  <2>3. PICK k \in 0 .. in - 1 : k = st[2]
    BY <2>1
  <2> DEFINE d == Dequantised(q, o, k)
             g == k \div q.group
             y == r * in
  <2>4. d.q = <<p, row, k>> /\ d.z = <<p, row, g>> /\ d.s = <<p, row, g>>
    <3> HIDE DEF p, row, g
    <3>1. d = [q |-> <<p, row, k>>, z |-> <<p, row, g>>, s |-> <<p, row, g>>]
      BY <1>3 DEF g
    <3> HIDE DEF d
    <3> QED BY <3>1
  <2>5. /\ Term(q, r, o, "q", k) = <<"q", <<p, row, k>>, <<p, row, g>>, y + k>>
        /\ Term(q, r, o, "z", k) = <<"z", <<p, row, g>>, <<p, row, g>>, y + k>>
    BY TermsAre
  <2>6. 0 + r * w.in + st[2] = y + k
    <3>1. y \in Nat /\ r * w.in = y
      BY <1>1
    <3> HIDE DEF y, w
    <3> QED BY <3>1, <2>3
  <2>7. value(st) = <<kind, IF kind = "q" THEN d.q ELSE d.z, d.s, 0 + r * w.in + st[2]>>
    BY <2>2, <2>3
  <2> HIDE DEF value, d, p, row, g, y, w, D
  <2>8. CASE kind = "q"
    BY <2>2, <2>3, <2>4, <2>5, <2>6, <2>7, <2>8
  <2>9. CASE kind = "z"
    BY <2>2, <2>3, <2>4, <2>5, <2>6, <2>7, <2>9
  <2> QED BY <2>8, <2>9
<1> HIDE DEF value, D, w
<1>5. DOMAIN f = D /\ \A st \in D : f[st] = value(st) /\ place[st] = st
  OBVIOUS
<1> HIDE DEF f, place
<1>6. MM!SumOf(f) = Sought(q, r, o)
  <2>1. \A x \in DOMAIN f :
           /\ place[x] \in Spots(q)
           /\ f[x] = Term(q, r, o, place[x][1], place[x][2])
    BY <1>2, <1>4, <1>5
  <2>2. \A x, y \in DOMAIN f : place[x] = place[y] => x = y
    BY <1>5
  <2>3. \A s \in Spots(q) : \E x \in DOMAIN f : place[x] = s
    BY <1>2, <1>5
  <2> QED BY <2>1, <2>2, <2>3, ExactlyOnce
<1>7. CublasSum(q, 0, r, o) = MM!SumOf(f)
  BY <1>1 DEF CublasSum, f, value, D, w
<1> QED BY <1>6, <1>7

CublasTile(q, T, n0, width) ==
  {[at |-> 0 + n0 + r * LaunchOf(q).out + j, sum |-> CublasSum(q, 0, r, n0 + j)]
     : r \in 0 .. T - 1, j \in 0 .. width - 1}

(* The tiles of dequantised rows give every row of the output.             *)
LEMMA CublasLaunch ==
  ASSUME NEW q \in Products, q.kind \in ZeroPointed, NEW T \in Nat
  PROVE  LET w == LaunchOf(q)
         IN MM!GemmCublas(Loaded(q), w, 0, 0, T, w.wbufRows) = Numbers(q, 0, T)
<1> DEFINE w == LaunchOf(q)
           W == Loaded(q)
           out == MM!RowsOf(q.parts)
           tile == MM!Min2((w.wbufRows \div Stripe) * Stripe, w.out)
           is == 0 .. (w.out + tile - 1) \div tile - 1
           tiles == {tile * i : i \in is}
           width(n0) == IF n0 + tile <= w.out THEN tile ELSE w.out - n0
           all == UNION {CublasTile(q, T, n0, width(n0)) : n0 \in tiles}
<1>1. w.out = out /\ out \in Nat \ {0} /\ w.wbufRows = q.wbufRows
  BY LaunchIs
<1>2. MM!GemmCublas(W, w, 0, 0, T, w.wbufRows) = all
  <2> HIDE DEF W, w
  <2> QED BY DEF MM!GemmCublas, CublasTile, CublasSum, Dequantised, W, w
<1>3. tile \in Nat \ {0}
  <2> DEFINE y == q.wbufRows \div Stripe
  <2>1. Stripe \in Nat \ {0} /\ q.wbufRows \in Nat /\ q.wbufRows >= Stripe
    BY TileAssumption, ProductAssumption DEF ByRow
  <2>2. y \in Nat /\ q.wbufRows = Stripe * y + (q.wbufRows % Stripe) /\ q.wbufRows % Stripe \in Nat
        /\ q.wbufRows % Stripe < Stripe
    BY <2>1, DivMod
  <2> HIDE DEF y
  <2>3. y # 0
    <3> SUFFICES ASSUME y = 0 PROVE FALSE
      OBVIOUS
    <3>1. Stripe * y = 0
      BY <2>1
    <3> QED BY <2>1, <2>2, <3>1
  <2>4. y * Stripe \in Nat /\ y * Stripe # 0
    BY <2>1, <2>2, <2>3
  <2>5. tile = MM!Min2(y * Stripe, out)
    BY <1>1 DEF y
  <2> HIDE DEF tile, out
  <2> QED BY <1>1, <2>4, <2>5 DEF MM!Min2
<1> HIDE DEF w, W, tile, out
<1>4. (out + tile - 1) \div tile \in Nat
  BY <1>1, <1>3
<1>5. ASSUME NEW i \in is, NEW r \in 0 .. T - 1, NEW j \in 0 .. width(tile * i) - 1
      PROVE  LET o == tile * i + j
             IN /\ o \in 0 .. out - 1
                /\ [at |-> 0 + tile * i + r * w.out + j, sum |-> CublasSum(q, 0, r, tile * i + j)]
                     = NumberAt(q, 0 + r, o)
  <2> DEFINE n0 == tile * i
             o == n0 + j
  <2>1. i \in Nat /\ n0 \in Nat
    <3>1. i \in Nat
      BY <1>1, <1>4
    <3> QED BY <1>3, <3>1
  <2> HIDE DEF n0
  <2>2. j \in 0 .. width(n0) - 1
    BY DEF n0
  <2>3. o \in 0 .. out - 1
    BY <1>1, <1>3, <2>1, <2>2
  <2>4. 0 + r = r /\ r \in Nat
    OBVIOUS
  <2>5. CublasSum(q, 0, r, o) = Sought(q, r, o)
    <3> HIDE DEF o
    <3> QED BY <2>3, <2>4, CublasIs DEF out
  <2>6. 0 + n0 + r * w.out + j = r * out + o
    <3> DEFINE y == r * out
    <3>1. y \in Nat /\ r * w.out = y
      BY <1>1, <2>4
    <3>2. PICK c \in Nat : c = j
      BY <1>1, <1>3, <2>1, <2>2
    <3>3. PICK a \in Nat : a = r * w.out
      BY <3>1
    <3>4. PICK b \in Nat : b = n0
      BY <2>1
    <3> HIDE DEF y, n0, width
    <3>5. 0 + b + a + c = a + (b + c)
      OBVIOUS
    <3> QED BY <3>1, <3>2, <3>3, <3>4, <3>5 DEF y
  <2>7. [at |-> 0 + n0 + r * w.out + j, sum |-> CublasSum(q, 0, r, n0 + j)] = NumberAt(q, 0 + r, o)
    BY <2>4, <2>5, <2>6 DEF NumberAt, out
  <2> QED BY <2>3, <2>7 DEF n0
<1>6. ASSUME NEW o \in 0 .. out - 1
      PROVE  \E i \in is : \E j \in 0 .. width(tile * i) - 1 : tile * i + j = o
  <2> DEFINE i == o \div tile
             j == o % tile
             n0 == tile * i
             y == out + tile - 1
             z == y \div tile
             f == y % tile
  <2>1. i \in Nat /\ j \in Nat /\ j < tile /\ o = n0 + j /\ o \in Nat /\ o < out
    <3>1. o \in Nat /\ o < out
      BY <1>1
    <3>2. o \div tile \in Nat /\ o % tile \in Nat /\ o % tile < tile /\ o = tile * (o \div tile) + (o % tile)
      <4> HIDE DEF is, width, i, j
      <4> QED BY <1>3, <3>1, DivMod
    <3> QED BY <3>1, <3>2
  <2>2. y \in Nat
    BY <1>1, <1>3
  <2> HIDE DEF y, i, j
  <2>3. z \in Nat /\ y = tile * z + f /\ f \in Nat /\ f < tile
    BY <1>3, <2>2, DivMod
  <2> HIDE DEF z, f
  <2>4. i < z
    <3> SUFFICES ASSUME z <= i PROVE FALSE
      BY <2>1, <2>3
    <3>1. tile * z <= n0 /\ tile * z \in Nat /\ n0 \in Nat
      BY <1>3, <2>1, <2>3
    <3> HIDE DEF n0
    <3> QED BY <1>1, <1>3, <2>1, <2>3, <3>1 DEF y
  <2>5. i \in is
    BY <1>1, <2>1, <2>3, <2>4 DEF z, y
  <2>6. n0 \in Nat
    BY <1>3, <2>1
  <2>7. j \in 0 .. width(n0) - 1
    <3> HIDE DEF n0
    <3> QED BY <1>1, <1>3, <2>1, <2>6
  <2> HIDE DEF is, width
  <2> QED BY <2>1, <2>5, <2>7
<1>7. ASSUME NEW v \in all PROVE v \in Numbers(q, 0, T)
  <2>1. PICK i \in is : v \in CublasTile(q, T, tile * i, width(tile * i))
    <3> HIDE DEF width, is
    <3> QED OBVIOUS
  <2> HIDE DEF all, is, width
  <2>2. PICK r \in 0 .. T - 1, j \in 0 .. width(tile * i) - 1 :
          v = [at |-> 0 + tile * i + r * w.out + j, sum |-> CublasSum(q, 0, r, tile * i + j)]
    BY <2>1 DEF CublasTile, w
  <2>3. tile * i + j \in 0 .. out - 1 /\ v = NumberAt(q, 0 + r, tile * i + j)
    BY <2>2, <1>5
  <2> QED BY <2>3 DEF Numbers, out
<1>8. ASSUME NEW v \in Numbers(q, 0, T) PROVE v \in all
  <2> HIDE DEF is, width
  <2>1. PICK r \in 0 .. T - 1, o \in 0 .. out - 1 : v = NumberAt(q, 0 + r, o)
    BY DEF Numbers, out
  <2>2. PICK i \in is : \E j \in 0 .. width(tile * i) - 1 : tile * i + j = o
    BY <1>6
  <2>3. PICK j \in 0 .. width(tile * i) - 1 : tile * i + j = o
    BY <2>2
  <2>4. v = [at |-> 0 + tile * i + r * w.out + j, sum |-> CublasSum(q, 0, r, tile * i + j)]
    BY <2>1, <2>3, <1>5
  <2>5. v \in CublasTile(q, T, tile * i, width(tile * i))
    BY <2>4 DEF CublasTile, w
  <2> QED BY <2>2, <2>5
<1>9. all = Numbers(q, 0, T)
  BY <1>7, <1>8
<1> HIDE DEF all
<1> QED BY <1>2, <1>9 DEF w, W

(* The runs that are in flight and the rest are all runs.                  *)
LEMMA WalkedAll ==
  ASSUME NEW runs \in Nat
  PROVE  (UNION {{i + u : u \in 0 .. UU - 1} : i \in {i \in 0 .. runs - UU : i % UU = 0}})
           \cup {i \in 0 .. runs - 1 : i >= UU * (runs \div UU)} = 0 .. runs - 1
<1> DEFINE starts == {i \in 0 .. runs - UU : i % UU = 0}
           unrolled == UNION {{i + u : u \in 0 .. UU - 1} : i \in starts}
           d == runs \div UU
           tail == {i \in 0 .. runs - 1 : i >= UU * d}
<1>1. UU \in Nat \ {0}
  BY TileAssumption
<1>2. d \in Nat /\ UU * d \in Nat /\ UU * d <= runs
  <2> DEFINE e == runs % UU
  <2>1. d \in Nat /\ e \in Nat /\ runs = UU * d + e
    BY <1>1, DivMod
  <2> HIDE DEF d, e
  <2>2. UU * d \in Nat
    BY <1>1, <2>1
  <2> QED BY <2>1, <2>2
<1> HIDE DEF d
<1>3. ASSUME NEW v \in unrolled PROVE v \in 0 .. runs - 1
  <2>1. PICK i \in starts : \E u \in 0 .. UU - 1 : v = i + u
    OBVIOUS
  <2> QED BY <1>1, <2>1
<1>4. ASSUME NEW v \in 0 .. runs - 1, ~ (v >= UU * d) PROVE v \in unrolled
  <2> DEFINE k == v \div UU
             u == v % UU
             i == UU * k
  <2>1. k \in Nat /\ u \in Nat /\ u < UU /\ v = i + u /\ v \in Nat
    BY <1>1, DivMod
  <2> HIDE DEF k, u
  <2>2. i \in Nat /\ i % UU = 0
    <3>1. (UU * k + 0) % UU = 0
      BY <1>1, <2>1, DivUnique
    <3>2. UU * k \in Nat
      BY <1>1, <2>1
    <3> QED BY <3>1, <3>2
  <2>3. i <= runs - UU
    <3>1. k < d
      <4> SUFFICES ASSUME d <= k PROVE FALSE
        BY <1>2, <2>1
      <4>1. UU * d <= UU * k
        BY <1>1, <1>2, <2>1
      <4> QED BY <1>2, <1>4, <2>1, <2>2, <4>1
    <3>2. UU * (k + 1) <= UU * d
      BY <1>1, <1>2, <2>1, <3>1
    <3>3. UU * (k + 1) = i + UU
      BY <1>1, <2>1
    <3> QED BY <1>1, <1>2, <2>2, <3>2, <3>3
  <2> HIDE DEF i
  <2>4. i \in starts
    BY <1>1, <2>2, <2>3
  <2>5. u \in 0 .. UU - 1
    BY <1>1, <2>1
  <2> QED BY <2>1, <2>4, <2>5
<1> HIDE DEF unrolled
<1>5. unrolled \cup tail = 0 .. runs - 1
  BY <1>3, <1>4
<1> QED BY <1>5 DEF unrolled, d

(* A run, a lane and one of its eight weights are an input.                *)
RunInput(a, b, c) == 256 * a + 8 * b + c
RunOf(k) == <<k \div 256, (k % 256) \div 8, k % 8>>

(* Run, lane and weight name each input once.                              *)
LEMMA RunInputs ==
  ASSUME NEW in \in Nat, in % 256 = 0
  PROVE  LET R == 0 .. in \div 256 - 1
             L == 0 .. 31
             E == 0 .. 7
         IN /\ \A a \in R, b \in L, c \in E : RunInput(a, b, c) \in 0 .. in - 1
            /\ \A a \in R, b \in L, c \in E : RunOf(RunInput(a, b, c)) = <<a, b, c>>
            /\ \A k \in 0 .. in - 1 : \E a \in R, b \in L, c \in E : RunInput(a, b, c) = k
<1> DEFINE n == in \div 256
           R == 0 .. n - 1
           L == 0 .. 31
           E == 0 .. 7
<1>1. n \in Nat /\ in = 256 * n
  OBVIOUS
<1> HIDE DEF n
<1>2. \A a \in R, b \in L, c \in E : RunInput(a, b, c) \in 0 .. in - 1
  BY <1>1 DEF RunInput
<1>3. ASSUME NEW a \in R, NEW b \in L, NEW c \in E PROVE RunOf(RunInput(a, b, c)) = <<a, b, c>>
  <2> DEFINE k == 256 * a + 8 * b + c
  <2>1. k \div 256 = a /\ (k % 256) \div 8 = b /\ k % 8 = c
    BY <1>1
  <2> HIDE DEF k
  <2> QED BY <2>1 DEF RunInput, RunOf, k
<1>4. ASSUME NEW k \in 0 .. in - 1 PROVE \E a \in R, b \in L, c \in E : RunInput(a, b, c) = k
  <2> DEFINE a == k \div 256
             y == k % 256
             b == y \div 8
             c == y % 8
  <2>1. a \in Nat /\ y \in 0 .. 255 /\ k = 256 * a + y
    OBVIOUS
  <2> HIDE DEF a, y
  <2>2. a \in R
    BY <1>1, <2>1
  <2>3. b \in L /\ c \in E /\ y = 8 * b + c
    BY <2>1
  <2> HIDE DEF b, c
  <2>4. RunInput(a, b, c) = k
    BY <2>1, <2>3 DEF RunInput
  <2> QED BY <2>2, <2>3, <2>4
<1> QED BY <1>2, <1>3, <1>4 DEF n

(* Blocks: with activations of eight bits, each stretch of 32 has a scale. *)
Int8(q, o) ==
  q.kind = "gguf" /\ q.types[PartOf(q.parts, o)] = "IQ4_XS"
    /\ q.T <= GgufQxRows /\ q.T < kGgufGemmMinRows

BlockScale(q, r, o, k) == IF Int8(q, o) THEN (r * q.in + k) \div 32 ELSE "none"

OfBlocks == {"gguf", "ghead"}

(* The terms of a product over blocks.                                     *)
LEMMA BlockTerms ==
  ASSUME NEW q \in Products, q.kind \in OfBlocks, NEW r, NEW o, NEW k
  PROVE  /\ Spots(q) = {"q"} \X (0 .. q.in - 1)
         /\ Term(q, r, o, "q", k) =
              <<"q", <<PartOf(q.parts, o), RowIn(q.parts, o), k>>, BlockScale(q, r, o, k), r * q.in + k>>
BY DEF Spots, Term, ByRow, ZeroPointed, OfBlocks, BlockScale, Int8

(* The scale of an activation, found from the row and launch it is in.     *)
ScaleIs(in, first, m, a, b, c) ==
  /\ first * (in \div 32) + (m * in + 256 * a + 8 * b) \div 32
       = ((first + m) * in + RunInput(a, b, c)) \div 32
  /\ first * in + (m * in + 256 * a + 8 * b) + c = (first + m) * in + RunInput(a, b, c)

LEMMA ScaleOf ==
  ASSUME NEW in \in Nat, in % 256 = 0, NEW first \in Nat, NEW m \in Nat,
         NEW a \in Nat, NEW b \in Nat, NEW c \in 0 .. 7
  PROVE  ScaleIs(in, first, m, a, b, c)
<1> DEFINE v == in \div 32
<1>1. v \in Nat /\ in = 32 * v
  OBVIOUS
<1> HIDE DEF v
<1>2. PICK f \in Nat : f = first * v
  BY <1>1
<1>3. PICK g \in Nat : g = m * v
  BY <1>1
<1>4. first * in = 32 * f /\ m * in = 32 * g /\ (first + m) * in = 32 * f + 32 * g
  <2>1. first * (32 * v) = 32 * (first * v) /\ m * (32 * v) = 32 * (m * v)
    BY <1>1
  <2>2. (first + m) * (32 * v) = 32 * (first * v) + 32 * (m * v)
    BY <1>1
  <2> QED BY <1>1, <1>2, <1>3, <2>1, <2>2
<1>5. f + (32 * g + 256 * a + 8 * b) \div 32 = (32 * f + 32 * g + (256 * a + 8 * b + c)) \div 32
  OBVIOUS
<1>6. 32 * f + (32 * g + 256 * a + 8 * b) + c = 32 * f + 32 * g + (256 * a + 8 * b + c)
  OBVIOUS
<1> QED BY <1>2, <1>4, <1>5, <1>6 DEF ScaleIs, RunInput, v

BlocksSum(q, o, first, m, xsc0) ==
  MM!SumOf(MM!GgufTerms(PartOf(q.parts, o), RowIn(q.parts, o), q.in, first * q.in, xsc0, m, Int8(q, o)))

(* The runs of a row, unrolled or not, are the sum sought.                 *)
LEMMA GgufIs ==
  ASSUME NEW q \in Products, q.kind \in OfBlocks, NEW o, NEW first \in Nat, NEW m \in Nat,
         NEW xsc0, Int8(q, o) => xsc0 = first * (q.in \div 32)
  PROVE  BlocksSum(q, o, first, m, xsc0) = Sought(q, first + m, o)
<1> DEFINE in == q.in
           runs == in \div 256
           D == (0 .. runs - 1) \X (0 .. 31) \X (0 .. 7)
           p == PartOf(q.parts, o)
           row == RowIn(q.parts, o)
           int8 == Int8(q, o)
           off(st) == m * in + 256 * st[1] + 8 * st[2]
           value(st) == <<"q", <<p, row, 256 * st[1] + 8 * st[2] + st[3]>>,
                          IF int8 THEN xsc0 + off(st) \div 32 ELSE "none", first * in + off(st) + st[3]>>
           f == MM!GgufTerms(p, row, in, first * in, xsc0, m, int8)
           place == [st \in D |-> <<"q", RunInput(st[1], st[2], st[3])>>]
<1>1. in \in Nat /\ in % 256 = 0 /\ runs \in Nat
  BY ProductAssumption DEF OfBlocks
<1>2. f = [st \in D |-> value(st)]
  <2>1. (UNION {{i + u : u \in 0 .. UU - 1} : i \in {i \in 0 .. runs - UU : i % UU = 0}})
           \cup {i \in 0 .. runs - 1 : i >= UU * (runs \div UU)} = 0 .. runs - 1
    BY <1>1, WalkedAll
  <2>2. MM!WARP = 32
    BY DEF MM!WARP
  <2> HIDE DEF in, p, row, int8
  <2> QED BY <2>1, <2>2 DEF MM!GgufTerms
<1>3. /\ \A a \in 0 .. runs - 1, b \in 0 .. 31, c \in 0 .. 7 : RunInput(a, b, c) \in 0 .. in - 1
      /\ \A a \in 0 .. runs - 1, b \in 0 .. 31, c \in 0 .. 7 : RunOf(RunInput(a, b, c)) = <<a, b, c>>
      /\ \A k \in 0 .. in - 1 :
           \E a \in 0 .. runs - 1, b \in 0 .. 31, c \in 0 .. 7 : RunInput(a, b, c) = k
  BY <1>1, RunInputs
<1>4. Spots(q) = {"q"} \X (0 .. in - 1)
  BY BlockTerms
<1>5. ASSUME NEW a \in 0 .. runs - 1, NEW b \in 0 .. 31, NEW c \in 0 .. 7
      PROVE  value(<<a, b, c>>) = Term(q, first + m, o, "q", RunInput(a, b, c))
  <2> DEFINE k == RunInput(a, b, c)
             r == first + m
             y == m * in + 256 * a + 8 * b
  <2>1. Term(q, r, o, "q", k) = <<"q", <<p, row, k>>, BlockScale(q, r, o, k), r * q.in + k>>
    BY BlockTerms
  <2>2. k = 256 * a + 8 * b + c
    BY DEF RunInput
  <2>3. a \in Nat /\ b \in Nat
    BY <1>1
  <2>4. /\ first * (in \div 32) + y \div 32 = (r * in + k) \div 32
        /\ first * in + y + c = r * in + k
    <3>1. ScaleIs(in, first, m, a, b, c)
      <4> HIDE DEF in, runs
      <4> QED BY <1>1, <2>3, ScaleOf
    <3> QED BY <3>1 DEF ScaleIs
  <2>5. value(<<a, b, c>>) =
          <<"q", <<p, row, 256 * a + 8 * b + c>>, IF int8 THEN xsc0 + y \div 32 ELSE "none", first * in + y + c>>
    <3> HIDE DEF in, p, row, int8
    <3> QED OBVIOUS
  <2>6. (IF int8 THEN xsc0 + y \div 32 ELSE "none") = BlockScale(q, r, o, k)
    <3> HIDE DEF y, k, r
    <3> QED BY <2>4 DEF BlockScale
  <2> HIDE DEF value, y, k, r, in, p, row, int8
  <2> QED BY <2>1, <2>2, <2>4, <2>5, <2>6 DEF in, k, r
<1> HIDE DEF value, in, runs, p, row, int8
<1>6. DOMAIN f = D /\ \A st \in D : f[st] = value(st)
  <2> HIDE DEF f
  <2> QED BY <1>2
<1>7. \A st \in D : place[st] = <<"q", RunInput(st[1], st[2], st[3])>>
  OBVIOUS
<1>8. \A st \in D : /\ st[1] \in 0 .. runs - 1 /\ st[2] \in 0 .. 31 /\ st[3] \in 0 .. 7
                    /\ st = <<st[1], st[2], st[3]>>
  OBVIOUS
<1>9. \A a \in 0 .. runs - 1, b \in 0 .. 31, c \in 0 .. 7 :
        /\ <<a, b, c>> \in D /\ place[<<a, b, c>>] = <<"q", RunInput(a, b, c)>>
  OBVIOUS
<1> HIDE DEF f, place, D
<1>10. ASSUME NEW x \in DOMAIN f
       PROVE  place[x] \in Spots(q) /\ f[x] = Term(q, first + m, o, place[x][1], place[x][2])
  <2>1. x \in D
    BY <1>6
  <2>2. PICK a \in 0 .. runs - 1, b \in 0 .. 31, c \in 0 .. 7 : x = <<a, b, c>>
    BY <2>1, <1>8
  <2>3. RunInput(a, b, c) \in 0 .. in - 1 /\ place[x] = <<"q", RunInput(a, b, c)>>
    BY <2>2, <1>3, <1>9
  <2>4. f[x] = Term(q, first + m, o, "q", RunInput(a, b, c))
    BY <2>1, <2>2, <1>5, <1>6
  <2> QED BY <2>3, <2>4, <1>4
<1>11. ASSUME NEW x \in DOMAIN f, NEW y \in DOMAIN f, place[x] = place[y] PROVE x = y
  <2>1. x \in D /\ y \in D
    BY <1>6
  <2>2. ASSUME NEW st \in D PROVE RunOf(RunInput(st[1], st[2], st[3])) = st
    BY <1>3, <1>8
  <2>3. RunInput(x[1], x[2], x[3]) = RunInput(y[1], y[2], y[3])
    BY <2>1, <1>7, <1>11
  <2> QED BY <2>1, <2>2, <2>3
<1>12. ASSUME NEW s \in Spots(q) PROVE \E x \in DOMAIN f : place[x] = s
  <2>1. PICK k \in 0 .. in - 1 : s = <<"q", k>>
    BY <1>4
  <2>2. PICK a \in 0 .. runs - 1, b \in 0 .. 31, c \in 0 .. 7 : RunInput(a, b, c) = k
    BY <1>3
  <2> QED BY <2>1, <2>2, <1>6, <1>9
<1>13. MM!SumOf(f) = Sought(q, first + m, o)
  <2>1. first + m \in Nat
    OBVIOUS
  <2> QED BY <2>1, <1>10, <1>11, <1>12, ExactlyOnce
<1> QED BY <1>13 DEF BlocksSum, f, in, p, row, int8

(* A part that has been dequantised, multiplied by every row at once.      *)
DequantisedSum(q, o, r) ==
  MM!SumOf([k \in 0 .. q.in - 1 |->
    <<"q", <<PartOf(q.parts, o), RowIn(q.parts, o), k>>, "none", r * q.in + k>>])

(* So is the row when it is dequantised first.                             *)
LEMMA DequantisedIs ==
  ASSUME NEW q \in Products, q.kind \in OfBlocks, NEW o, NEW r \in Nat, ~ Int8(q, o)
  PROVE  DequantisedSum(q, o, r) = Sought(q, r, o)
<1> DEFINE p == PartOf(q.parts, o)
           row == RowIn(q.parts, o)
           D == 0 .. q.in - 1
           f == [k \in D |-> <<"q", <<p, row, k>>, "none", r * q.in + k>>]
           place == [k \in D |-> <<"q", k>>]
<1>1. Spots(q) = {"q"} \X D
  BY BlockTerms
<1>2. ASSUME NEW k \in D PROVE f[k] = Term(q, r, o, "q", k)
  <2>1. Term(q, r, o, "q", k) = <<"q", <<p, row, k>>, BlockScale(q, r, o, k), r * q.in + k>>
    BY BlockTerms
  <2>2. BlockScale(q, r, o, k) = "none"
    BY DEF BlockScale
  <2> HIDE DEF p, row, D
  <2> QED BY <2>1, <2>2
<1>3. DOMAIN f = D /\ \A k \in D : place[k] = <<"q", k>>
  OBVIOUS
<1> HIDE DEF f, place, D, p, row
<1>4. MM!SumOf(f) = Sought(q, r, o)
  <2>1. \A x \in DOMAIN f :
          place[x] \in Spots(q) /\ f[x] = Term(q, r, o, place[x][1], place[x][2])
    <3> SUFFICES ASSUME NEW x \in D
                 PROVE  place[x] \in Spots(q) /\ f[x] = Term(q, r, o, place[x][1], place[x][2])
      BY <1>3
    <3>1. place[x] = <<"q", x>> /\ f[x] = Term(q, r, o, "q", x)
      BY <1>2, <1>3
    <3>2. place[x][1] = "q" /\ place[x][2] = x
      BY <3>1
    <3> QED BY <1>1, <3>1, <3>2
  <2>2. \A x, y \in DOMAIN f : place[x] = place[y] => x = y
    BY <1>3
  <2>3. \A s \in Spots(q) : \E x \in DOMAIN f : place[x] = s
    BY <1>1, <1>3
  <2> QED BY <2>1, <2>2, <2>3, ExactlyOnce
<1> QED BY <1>4 DEF DequantisedSum, f, D, p, row

(* The numbers of M rows that the columns of a part are.                   *)
PartNumbers(q, p, first, M) ==
  {NumberAt(q, first + m, MM!OffsetOf(q.parts, p) + row) : m \in 0 .. M - 1, row \in 0 .. q.parts[p] - 1}

(* The parts together have every column.                                   *)
LEMMA PartsTogether ==
  ASSUME NEW q \in Products, NEW first \in Nat, NEW M \in Nat
  PROVE  UNION {PartNumbers(q, p, first, M) : p \in DOMAIN q.parts} = Numbers(q, first, M)
<1> DEFINE all == UNION {PartNumbers(q, p, first, M) : p \in DOMAIN q.parts}
           cols == 0 .. MM!RowsOf(q.parts) - 1
<1>1. q.parts \in Parts
  BY LaunchIs
<1>2. ASSUME NEW v \in all PROVE v \in Numbers(q, first, M)
  <2>1. PICK p \in DOMAIN q.parts : v \in PartNumbers(q, p, first, M)
    OBVIOUS
  <2>2. PICK m \in 0 .. M - 1, row \in 0 .. q.parts[p] - 1 :
          v = NumberAt(q, first + m, MM!OffsetOf(q.parts, p) + row)
    BY <2>1 DEF PartNumbers
  <2>3. MM!OffsetOf(q.parts, p) + row \in cols
    BY <1>1, PartsOnce
  <2> QED BY <2>2, <2>3 DEF Numbers
<1>3. ASSUME NEW v \in Numbers(q, first, M) PROVE v \in all
  <2>1. PICK m \in 0 .. M - 1, o \in cols : v = NumberAt(q, first + m, o)
    BY DEF Numbers
  <2>2. /\ PartOf(q.parts, o) \in DOMAIN q.parts
        /\ RowIn(q.parts, o) \in 0 .. q.parts[PartOf(q.parts, o)] - 1
        /\ MM!OffsetOf(q.parts, PartOf(q.parts, o)) + RowIn(q.parts, o) = o
    BY <1>1, PartsAre
  <2>3. v \in PartNumbers(q, PartOf(q.parts, o), first, M)
    BY <2>1, <2>2 DEF PartNumbers
  <2> QED BY <2>2, <2>3
<1>4. all = Numbers(q, first, M)
  BY <1>2, <1>3
<1> QED BY <1>4

(* A launch over one part, with rows of the whole output.                  *)
LaunchedPart(q, p, first, M, xsc0, ldy, int8) ==
  MM!GgufLaunch(p, q.parts[p], q.in, first * q.in, xsc0,
                first * LaunchOf(q).out + MM!OffsetOf(q.parts, p), M, ldy, int8)
    = PartNumbers(q, p, first, M)

WantsInt8(q, p, int8) ==
  \A row \in 0 .. q.parts[p] - 1 : int8 = Int8(q, MM!OffsetOf(q.parts, p) + row)

(* A launch over a part gives the columns of that part.                    *)
LEMMA PartLaunch ==
  ASSUME NEW q \in Products, q.kind \in OfBlocks, NEW p \in DOMAIN q.parts,
         NEW first \in Nat, NEW M \in Nat, NEW xsc0, NEW int8, NEW ldy,
         ldy = LaunchOf(q).out \/ (ldy = 0 /\ q.parts[p] = LaunchOf(q).out),
         WantsInt8(q, p, int8),
         int8 => xsc0 = first * (q.in \div 32)
  PROVE  LaunchedPart(q, p, first, M, xsc0, ldy, int8)
<1> DEFINE out == LaunchOf(q).out
           wide == q.parts[p]
           pitch == IF ldy <= 0 THEN wide ELSE ldy
           col == MM!OffsetOf(q.parts, p)
           sum(m, row) == MM!SumOf(MM!GgufTerms(p, row, q.in, first * q.in, xsc0, m, int8))
           number(m, row) == [at |-> first * out + col + m * pitch + row, sum |-> sum(m, row)]
           all == {number(m, row) : m \in 0 .. M - 1, row \in 0 .. wide - 1}
<1>1. /\ q.parts \in Parts /\ out = MM!RowsOf(q.parts) /\ out \in Nat \ {0}
      /\ wide \in Nat \ {0} /\ col \in Nat
  BY LaunchIs, OffsetsAre
<1>2. MM!GgufLaunch(p, wide, q.in, first * q.in, xsc0, first * out + col, M, ldy, int8) = all
  BY DEF MM!GgufLaunch
<1>3. pitch = out
  BY <1>1
<1>4. ASSUME NEW m \in 0 .. M - 1, NEW row \in 0 .. wide - 1
      PROVE  number(m, row) = NumberAt(q, first + m, col + row)
  <2> DEFINE o == col + row
  <2>1. o \in 0 .. out - 1 /\ p = PartOf(q.parts, o) /\ row = RowIn(q.parts, o)
    BY <1>1, PartsOnce
  <2>2. int8 = Int8(q, o) /\ m \in Nat /\ row \in Nat
    BY <1>1 DEF WantsInt8
  <2>3. BlocksSum(q, o, first, m, xsc0) = Sought(q, first + m, o)
    <3> HIDE DEF o
    <3> QED BY <2>2, GgufIs
  <2>4. sum(m, row) = Sought(q, first + m, o)
    <3> HIDE DEF o
    <3> QED BY <2>1, <2>2, <2>3 DEF BlocksSum
  <2>5. first * out + col + m * pitch + row = (first + m) * MM!RowsOf(q.parts) + o
    <3>1. first * out + m * out = (first + m) * MM!RowsOf(q.parts)
      BY <2>2, SameRow
    <3>2. PICK x \in Nat : x = first * out
      BY <1>1
    <3>3. PICK y \in Nat : y = m * out
      BY <1>1, <2>2
    <3>4. m * pitch = y
      BY <1>3, <3>3
    <3> HIDE DEF pitch, out, col
    <3>5. x + col + y + row = (x + y) + (col + row)
      BY <1>1, <2>2
    <3> QED BY <3>1, <3>2, <3>3, <3>4, <3>5
  <2> HIDE DEF o, sum, out, pitch
  <2> QED BY <2>4, <2>5 DEF NumberAt, o
<1> HIDE DEF out, sum, pitch
<1>5. \A m \in 0 .. M - 1, row \in 0 .. wide - 1 : number(m, row) = NumberAt(q, first + m, col + row)
  BY <1>4
<1>6. all = PartNumbers(q, p, first, M)
  <2> HIDE DEF number
  <2> QED BY <1>5 DEF PartNumbers
<1> HIDE DEF all
<1> QED BY <1>2, <1>6 DEF LaunchedPart, out

(* A part that is dequantised gives its columns of every row.              *)
LEMMA PartDequantised ==
  ASSUME NEW q \in Products, q.kind = "gguf", NEW p \in DOMAIN q.parts, q.T >= kGgufGemmMinRows
  PROVE  MM!GgufDequantised(p, q.parts[p], q.in, MM!OffsetOf(q.parts, p), q.T, LaunchOf(q).out)
           = PartNumbers(q, p, 0, q.T)
<1> DEFINE out == LaunchOf(q).out
           wide == q.parts[p]
           col == MM!OffsetOf(q.parts, p)
           sum(r, row) == MM!SumOf([k \in 0 .. q.in - 1 |-> <<"q", <<p, row, k>>, "none", r * q.in + k>>])
           number(r, row) == [at |-> col + r * out + row, sum |-> sum(r, row)]
           all == {number(r, row) : r \in 0 .. q.T - 1, row \in 0 .. wide - 1}
<1>1. /\ q.parts \in Parts /\ out = MM!RowsOf(q.parts) /\ out \in Nat \ {0}
      /\ wide \in Nat \ {0} /\ col \in Nat /\ q.T \in Nat /\ kGgufGemmMinRows \in Nat
  BY LaunchIs, OffsetsAre, ProductAssumption, TileAssumption, SMTT(30)
<1>2. MM!GgufDequantised(p, wide, q.in, col, q.T, out) = all
  BY DEF MM!GgufDequantised
<1>4. ASSUME NEW r \in 0 .. q.T - 1, NEW row \in 0 .. wide - 1
      PROVE  number(r, row) = NumberAt(q, 0 + r, col + row)
  <2> DEFINE o == col + row
  <2>1. o \in 0 .. out - 1 /\ p = PartOf(q.parts, o) /\ row = RowIn(q.parts, o)
    BY <1>1, PartsOnce
  <2>2. r \in Nat /\ row \in Nat /\ 0 + r = r
    BY <1>1
  <2>3. ~ Int8(q, o) /\ q.kind \in OfBlocks
    BY <1>1 DEF Int8, OfBlocks
  <2>4. DequantisedSum(q, o, r) = Sought(q, r, o)
    <3> HIDE DEF o
    <3> QED BY <2>2, <2>3, DequantisedIs
  <2>5. sum(r, row) = Sought(q, 0 + r, o)
    <3> HIDE DEF o
    <3> QED BY <2>1, <2>2, <2>4 DEF DequantisedSum
  <2>6. col + r * out + row = (0 + r) * MM!RowsOf(q.parts) + o
    <3>1. PICK y \in Nat : y = r * out
      BY <1>1, <2>2
    <3> HIDE DEF out, col
    <3>2. col + y + row = y + (col + row)
      BY <1>1, <2>2
    <3> QED BY <3>1, <3>2, <1>1, <2>2
  <2> HIDE DEF o, sum, out
  <2> QED BY <2>5, <2>6 DEF NumberAt, o
<1> HIDE DEF out, sum
<1>5. \A r \in 0 .. q.T - 1, row \in 0 .. wide - 1 : number(r, row) = NumberAt(q, 0 + r, col + row)
  BY <1>4
<1>6. all = PartNumbers(q, p, 0, q.T)
  <2> HIDE DEF number
  <2> QED BY <1>5 DEF PartNumbers
<1> HIDE DEF all
<1> QED BY <1>2, <1>6 DEF out

Rows(q, step, i) == MM!Min2(step, q.T - i)

(* A launch has rows that the product has.                                 *)
LEMMA RowsIn ==
  ASSUME NEW q \in Products, NEW step \in Nat \ {0}, NEW i \in MM!Launches(q.T, step)
  PROVE  i \in Nat /\ Rows(q, step, i) \in 0 .. step /\ Rows(q, step, i) \in Nat
<1>1. q.T \in Nat /\ i \in 0 .. q.T - 1
  BY ProductAssumption DEF MM!Launches
<1> QED BY <1>1 DEF Rows, MM!Min2

(* A product over blocks, fused or not, dequantised or not.                *)
LEMMA LinearGguf ==
  ASSUME NEW q \in Products, q.kind = "gguf"
  PROVE  MM!linear_gguf(q.parts, q.types, q.in, q.T) = Numbers(q, 0, q.T)
<1> DEFINE T == q.T
           out == MM!RowsOf(q.parts)
           qx == /\ T < kGgufGemmMinRows /\ T <= GgufQxRows
                 /\ \E p \in DOMAIN q.parts : MM!gguf_wants_qx(q.types[p])
           int8(p) == qx /\ q.types[p] = "IQ4_XS"
           col(p) == MM!OffsetOf(q.parts, p)
           first == MM!Launches(T, GgufChunk)
           n(i) == Rows(q, GgufChunk, i)
           one(p, i) == MM!GgufLaunch(p, q.parts[p], q.in, i * q.in, i * (q.in \div 32),
                                      i * out + col(p), n(i), out, int8(p))
           whole(p) == MM!GgufDequantised(p, q.parts[p], q.in, col(p), T, out)
           each(p) == IF T >= kGgufGemmMinRows THEN whole(p) ELSE UNION {one(p, i) : i \in first}
           all == UNION {each(p) : p \in DOMAIN q.parts}
<1>1. MM!linear_gguf(q.parts, q.types, q.in, T) = all
  BY DEF MM!linear_gguf, Rows
<1>2. /\ GgufChunk \in Nat \ {0} /\ q.kind \in OfBlocks /\ out = LaunchOf(q).out /\ q.parts \in Parts
      /\ T \in Nat
  BY TileAssumption, LaunchIs, ProductAssumption DEF OfBlocks
<1>3. CASE T >= kGgufGemmMinRows
  <2>1. \A p \in DOMAIN q.parts : each(p) = PartNumbers(q, p, 0, T)
    BY <1>2, <1>3, PartDequantised
  <2> HIDE DEF each
  <2>2. all = UNION {PartNumbers(q, p, 0, T) : p \in DOMAIN q.parts}
    BY <2>1
  <2> HIDE DEF all
  <2> QED BY <1>1, <1>2, <2>2, PartsTogether
<1>4. CASE ~ (T >= kGgufGemmMinRows)
  <2>1. T < kGgufGemmMinRows
    BY <1>2, <1>4, TileAssumption
  <2>2. ASSUME NEW p \in DOMAIN q.parts, NEW row \in 0 .. q.parts[p] - 1
        PROVE  int8(p) = Int8(q, MM!OffsetOf(q.parts, p) + row)
    <3> DEFINE o == MM!OffsetOf(q.parts, p) + row
    <3>1. p = PartOf(q.parts, o)
      BY <1>2, PartsOnce
    <3>2. q.types[p] = "IQ4_XS" => \E v \in DOMAIN q.parts : MM!gguf_wants_qx(q.types[v])
      BY DEF MM!gguf_wants_qx
    <3> HIDE DEF o
    <3> QED BY <2>1, <3>1, <3>2 DEF Int8, o
  <2>3. ASSUME NEW p \in DOMAIN q.parts, NEW i \in first PROVE one(p, i) = PartNumbers(q, p, i, n(i))
    <3>1. i \in Nat /\ n(i) \in Nat
      BY <1>2, RowsIn
    <3>2. PICK b \in BOOLEAN : b = int8(p)
      OBVIOUS
    <3>3. WantsInt8(q, p, b)
      BY <2>2, <3>2 DEF WantsInt8
    <3>4. LaunchedPart(q, p, i, n(i), i * (q.in \div 32), LaunchOf(q).out, b)
      <4> HIDE DEF int8, n, first
      <4> QED BY <1>2, <3>1, <3>3, PartLaunch
    <3> HIDE DEF int8, n, first
    <3> QED BY <1>2, <3>2, <3>4 DEF LaunchedPart
  <2> HIDE DEF one, whole, n, first, col, int8, qx
  <2>4. all = UNION {UNION {one(p, i) : i \in first} : p \in DOMAIN q.parts}
    BY <1>4
  <2>5. UNION {Numbers(q, i, n(i)) : i \in first} = Numbers(q, 0, T)
    BY <1>2, LaunchedAll DEF n, first, Rows
  <2>6. ASSUME NEW i \in first
        PROVE  UNION {PartNumbers(q, p, i, n(i)) : p \in DOMAIN q.parts} = Numbers(q, i, n(i))
    <3>1. i \in Nat /\ n(i) \in Nat
      BY <1>2, RowsIn DEF n, first
    <3> QED BY <3>1, PartsTogether
  <2> HIDE DEF all
  <2>7. ASSUME NEW v \in all PROVE v \in Numbers(q, 0, T)
    <3>1. PICK p \in DOMAIN q.parts, i \in first : v \in one(p, i)
      BY <2>4
    <3>2. v \in Numbers(q, i, n(i))
      BY <3>1, <2>3, <2>6
    <3> QED BY <3>2, <2>5
  <2>8. ASSUME NEW v \in Numbers(q, 0, T) PROVE v \in all
    <3>1. PICK i \in first : v \in Numbers(q, i, n(i))
      BY <2>5
    <3>2. PICK p \in DOMAIN q.parts : v \in PartNumbers(q, p, i, n(i))
      BY <3>1, <2>6
    <3>3. v \in one(p, i)
      BY <3>2, <2>3
    <3> QED BY <3>3, <2>4
  <2>9. all = Numbers(q, 0, T)
    BY <2>7, <2>8
  <2> QED BY <1>1, <2>9
<1> QED BY <1>3, <1>4

(* A head over blocks.                                                     *)
LEMMA GgufHead ==
  ASSUME NEW q \in Products, q.kind = "ghead"
  PROVE  MM!gguf_head(LaunchOf(q).out, q.in, q.T) = Numbers(q, 0, q.T)
<1> DEFINE T == q.T
           out == LaunchOf(q).out
           first == MM!Launches(T, GgufChunk)
           n(i) == Rows(q, GgufChunk, i)
           one(i) == MM!GgufLaunch(1, out, q.in, i * q.in, 0, i * out, n(i), 0, FALSE)
           all == UNION {one(i) : i \in first}
<1>1. MM!gguf_head(out, q.in, T) = all
  BY DEF MM!gguf_head, Rows
<1>2. /\ GgufChunk \in Nat \ {0} /\ q.kind \in OfBlocks /\ out = MM!RowsOf(q.parts)
      /\ out \in Nat \ {0} /\ Len(q.parts) = 1 /\ q.kind # "gguf"
  BY TileAssumption, LaunchIs, ProductAssumption DEF OfBlocks
<1>3. DOMAIN q.parts = {1} /\ q.parts[1] = out /\ MM!OffsetOf(q.parts, 1) = 0
  <2>1. 0 \in 0 .. MM!RowsOf(q.parts) - 1
    BY <1>2
  <2> HIDE DEF out
  <2> QED BY <1>2, <2>1, HeadRow
<1> HIDE DEF out
<1>4. ASSUME NEW i \in first PROVE one(i) = Numbers(q, i, n(i))
  <2>1. i \in Nat /\ n(i) \in Nat
    BY <1>2, RowsIn
  <2>2. i * out = i * out + MM!OffsetOf(q.parts, 1)
    <3>1. PICK x \in Nat : x = i * out
      BY <1>2, <2>1
    <3> QED BY <1>3, <3>1
  <2>3. PICK b \in BOOLEAN : b = FALSE
    OBVIOUS
  <2>8. WantsInt8(q, 1, b)
    BY <1>2, <2>3 DEF Int8, WantsInt8
  <2> HIDE DEF n, first
  <2>4. 1 \in DOMAIN q.parts
    BY <1>3
  <2>5. LaunchedPart(q, 1, i, n(i), 0, 0, b)
    BY <1>2, <1>3, <2>1, <2>3, <2>8, <2>4, PartLaunch DEF out
  <2>6. UNION {PartNumbers(q, p, i, n(i)) : p \in DOMAIN q.parts} = Numbers(q, i, n(i))
    BY <2>1, PartsTogether
  <2>7. PartNumbers(q, 1, i, n(i)) = Numbers(q, i, n(i))
    <3> DEFINE only == PartNumbers(q, 1, i, n(i))
               every == UNION {PartNumbers(q, p, i, n(i)) : p \in DOMAIN q.parts}
    <3>1. \A v \in only : v \in every
      BY <1>3
    <3>2. \A v \in every : v \in only
      BY <1>3
    <3>3. only = every
      <4> HIDE DEF only, every
      <4> QED BY <3>1, <3>2
    <3> QED BY <2>6, <3>3
  <2> QED BY <1>3, <2>2, <2>3, <2>5, <2>7 DEF LaunchedPart, out
<1>5. UNION {Numbers(q, i, n(i)) : i \in first} = Numbers(q, 0, T)
  BY <1>2, LaunchedAll DEF Rows
<1>6. all = Numbers(q, 0, T)
  <2> HIDE DEF one, n, first
  <2> QED BY <1>4, <1>5
<1> QED BY <1>1, <1>6 DEF out

(* A product over dense weights, by whichever of its paths.                *)
LEMMA Linear ==
  ASSUME NEW q \in Products, q.kind = "awq"
  PROVE  MM!linear(Loaded(q), LaunchOf(q), q.T) = Numbers(q, 0, q.T)
<1> DEFINE T == q.T
           W == Loaded(q)
           w == LaunchOf(q)
           first == MM!Launches(T, 16)
           n(i) == Rows(q, 16, i)
           gemv(i) == MM!GemmSmall(W, w, i * w.in, i * w.out, n(i))
           mma(i) == MM!GemmMma(W, w, i * w.in, i * w.out, n(i))
<1>1. /\ T \in Nat \ {0} /\ GemvMaxT \in Nat \ {0} /\ MmaMaxT \in Nat /\ GemvMaxT <= MmaMaxT
      /\ q.kind \in ZeroPointed
  BY ProductAssumption, TileAssumption DEF ZeroPointed
<1>2. /\ T = 1 => MM!lin_path(T) = "Gemv"
      /\ T > 1 /\ T <= GemvMaxT => MM!lin_path(T) = "GemvM"
      /\ T > GemvMaxT /\ T <= MmaMaxT => MM!lin_path(T) = "Mma"
      /\ T > MmaMaxT => MM!lin_path(T) = "Cublas"
  <2> HIDE DEF T
  <2>1. CASE T = 1
    BY <1>1, <2>1 DEF MM!lin_path
  <2>2. CASE T > 1 /\ T <= GemvMaxT
    BY <1>1, <2>2 DEF MM!lin_path
  <2>3. CASE T > GemvMaxT /\ T <= MmaMaxT
    BY <1>1, <2>3 DEF MM!lin_path
  <2>4. CASE T > MmaMaxT
    BY <1>1, <2>4 DEF MM!lin_path
  <2> QED BY <2>1, <2>2, <2>3, <2>4, <1>1
<1>3. /\ MM!lin_path(T) = "Gemv" => MM!linear(W, w, T) = MM!GemmSmall(W, w, 0, 0, 1)
      /\ MM!lin_path(T) = "GemvM" => MM!linear(W, w, T) = UNION {gemv(i) : i \in first}
      /\ MM!lin_path(T) = "Mma" => MM!linear(W, w, T) = UNION {mma(i) : i \in first}
      /\ MM!lin_path(T) = "Cublas" => MM!linear(W, w, T) = MM!GemmCublas(W, w, 0, 0, T, w.wbufRows)
  <2> HIDE DEF T, W, w
  <2> QED BY DEF MM!linear, Rows, T
<1>4. UNION {Numbers(q, i, n(i)) : i \in first} = Numbers(q, 0, T)
  BY LaunchedAll DEF Rows
<1>5. \A i \in first : i \in Nat /\ n(i) \in Nat /\ n(i) \in 0 .. 16
  BY RowsIn
<1>6. CASE T = 1
  <2>1. MM!GemmSmall(W, w, 0 * w.in, 0 * w.out, 1) = Numbers(q, 0, 1)
    BY <1>1, <1>6, GemvLaunch
  <2>2. 0 * w.in = 0 /\ 0 * w.out = 0
    <3>1. w.in \in Int /\ w.out \in Int
      BY LaunchIs
    <3> HIDE DEF w
    <3> QED BY <3>1
  <2> HIDE DEF W, w
  <2> QED BY <1>2, <1>3, <1>6, <2>1, <2>2 DEF W, w
<1>7. CASE T > 1 /\ T <= GemvMaxT
  <2>1. \A i \in first : gemv(i) = Numbers(q, i, n(i))
    BY <1>5, <1>7, GemvLaunch
  <2> HIDE DEF gemv, n, first
  <2>2. UNION {gemv(i) : i \in first} = Numbers(q, 0, T)
    BY <1>4, <2>1
  <2> QED BY <1>2, <1>3, <1>7, <2>2
<1>8. CASE T > GemvMaxT /\ T <= MmaMaxT
  <2>1. \A i \in first : mma(i) = Numbers(q, i, n(i))
    BY <1>1, <1>5, MmaLaunch
  <2> HIDE DEF mma, n, first
  <2>2. UNION {mma(i) : i \in first} = Numbers(q, 0, T)
    BY <1>4, <2>1
  <2> QED BY <1>2, <1>3, <1>8, <2>2
<1>9. CASE T > MmaMaxT
  <2>1. MM!GemmCublas(W, w, 0, 0, T, w.wbufRows) = Numbers(q, 0, T)
    BY <1>1, CublasLaunch
  <2> HIDE DEF W, w
  <2> QED BY <1>2, <1>3, <1>9, <2>1 DEF W, w
<1> QED BY <1>1, <1>6, <1>7, <1>8, <1>9

(* A head of four or eight bits, in the steps the scratch has room for.    *)
LEMMA ApplyHead ==
  ASSUME NEW q \in Products, NEW bits \in {4, 8}, q.kind = (IF bits = 4 THEN "head4" ELSE "head8")
  PROVE  MM!model_apply_head(Loaded(q), LaunchOf(q), q.T, bits) = Numbers(q, 0, q.T)
<1> DEFINE T == q.T
           W == Loaded(q)
           w == LaunchOf(q)
           first == MM!Launches(T, MaxM)
           n(i) == Rows(q, MaxM, i)
           one(i) == IF bits = 4 THEN MM!GemmMma(W, w, i * w.in, i * w.out, n(i))
                     ELSE MM!GemmSmall8(W, w, i * w.in, i * w.out, n(i))
           all == UNION {one(i) : i \in first}
<1>1. MaxM \in Nat \ {0} /\ MaxM <= 16
  BY TileAssumption
<1>2. MM!model_apply_head(W, w, T, bits) = all
  <2> HIDE DEF W, w
  <2> QED BY DEF MM!model_apply_head, Rows
<1>3. UNION {Numbers(q, i, n(i)) : i \in first} = Numbers(q, 0, T)
  BY <1>1, LaunchedAll DEF Rows
<1>4. ASSUME NEW i \in first PROVE one(i) = Numbers(q, i, n(i))
  <2>1. i \in Nat /\ n(i) \in Nat /\ n(i) \in 0 .. 16
    <3>1. i \in Nat /\ n(i) \in Nat /\ n(i) \in 0 .. MaxM
      BY <1>1, RowsIn
    <3> HIDE DEF n, first
    <3> QED BY <1>1, <3>1
  <2> HIDE DEF n
  <2>2. CASE bits = 4
    <3>1. q.kind \in ZeroPointed
      BY <2>2 DEF ZeroPointed
    <3>2. MM!GemmMma(W, w, i * w.in, i * w.out, n(i)) = Numbers(q, i, n(i))
      BY <2>1, <3>1, MmaLaunch
    <3> HIDE DEF W, w
    <3> QED BY <2>2, <3>2
  <2>3. CASE bits = 8
    <3>1. q.kind = "head8"
      BY <2>3
    <3>2. MM!GemmSmall8(W, w, i * w.in, i * w.out, n(i)) = Numbers(q, i, n(i))
      BY <2>1, <3>1, Gemm8Launch
    <3> HIDE DEF W, w
    <3> QED BY <2>3, <3>2
  <2> QED BY <2>2, <2>3
<1>5. all = Numbers(q, 0, T)
  <2> HIDE DEF one, n, first
  <2> QED BY <1>3, <1>4
<1> QED BY <1>2, <1>5

(* The question has a product, and its weights as they were loaded.        *)
ProductAsked ==
  \/ asked = [op |-> "nothing"]
  \/ \E q \in Products : asked = [op |-> "product", q |-> q, rp |-> Loaded(q)]

LEMMA ProductQuestions == ProductSpec => []ProductAsked
<1>1. Init => ProductAsked
  BY DEF Init, ProductAsked
<1>2. ProductAsked /\ [Ask /\ AskProduct]_asked => ProductAsked'
  BY DEF ProductAsked, AskProduct
<1> QED BY <1>1, <1>2, PTL DEF ProductSpec

(* However a product is computed, every number of its output is written    *)
(* and is the sum of all of its terms, each once: for all sizes of tiles,  *)
(* all parts, rows, inputs, groups and splits (ProductsComplete).          *)
THEOREM Complete == ProductSpec => []ProductsComplete
<1>1. asked = [op |-> "nothing"] => ProductsComplete
  BY DEF ProductsComplete, Is
<1>2. ASSUME NEW q \in Products, asked = [op |-> "product", q |-> q, rp |-> Loaded(q)]
      PROVE  ProductsComplete
  <2> DEFINE out == MM!RowsOf(q.parts)
             w == LaunchOf(q)
  <2>1. asked.q = q /\ asked.rp = Loaded(q)
    BY <1>2
  <2>2. q.kind \in {"awq", "head4", "head8", "gguf", "ghead"} /\ w.in = q.in
    BY ProductAssumption, LaunchIs DEF ByRow, ZeroPointed
  <2>3. Outcome = Numbers(q, 0, q.T)
    <3>1. CASE q.kind = "awq"
      <4>1. Outcome = MM!linear(Loaded(q), w, q.T)
        BY <2>1, <3>1 DEF Outcome
      <4> QED BY <3>1, <4>1, Linear
    <3>2. CASE q.kind = "head4"
      <4>1. Outcome = MM!model_apply_head(Loaded(q), w, q.T, 4)
        BY <2>1, <3>2 DEF Outcome
      <4>2. MM!model_apply_head(Loaded(q), w, q.T, 4) = Numbers(q, 0, q.T)
        BY <3>2, ApplyHead
      <4> QED BY <4>1, <4>2
    <3>3. CASE q.kind = "head8"
      <4>1. Outcome = MM!model_apply_head(Loaded(q), w, q.T, 8)
        BY <2>1, <3>3 DEF Outcome
      <4>2. MM!model_apply_head(Loaded(q), w, q.T, 8) = Numbers(q, 0, q.T)
        BY <3>3, ApplyHead
      <4> QED BY <4>1, <4>2
    <3>4. CASE q.kind = "gguf"
      <4>1. Outcome = MM!linear_gguf(q.parts, q.types, q.in, q.T)
        BY <2>1, <3>4 DEF Outcome
      <4> QED BY <3>4, <4>1, LinearGguf
    <3>5. CASE q.kind = "ghead"
      <4>1. Outcome = MM!gguf_head(w.out, q.in, q.T)
        BY <2>1, <3>5 DEF Outcome
      <4> QED BY <3>5, <4>1, GgufHead
    <3> QED BY <2>2, <3>1, <3>2, <3>3, <3>4, <3>5
  <2> DEFINE number(r, o) == [at |-> r * out + o, sum |-> [n |-> Cardinality(Terms(q, r, o)),
                                                           of |-> Terms(q, r, o)]]
             all == {number(r, o) : r \in 0 .. q.T - 1, o \in 0 .. out - 1}
  <2>4. Numbers(q, 0, q.T) = all
    <3>1. q.T \in Nat
      BY ProductAssumption
    <3>2. \A r \in 0 .. q.T - 1, o \in 0 .. out - 1 : NumberAt(q, 0 + r, o) = number(r, o)
      <4> SUFFICES ASSUME NEW r \in 0 .. q.T - 1, NEW o \in 0 .. out - 1
                   PROVE  NumberAt(q, 0 + r, o) = number(r, o)
        OBVIOUS
      <4>1. 0 + r = r
        BY <3>1
      <4> HIDE DEF out
      <4> QED BY <4>1 DEF NumberAt, Sought, out
    <3> HIDE DEF number
    <3> QED BY <3>2 DEF Numbers
  <2>5. ProductsComplete <=> (Is("product") => Outcome = all)
    BY <2>1 DEF ProductsComplete
  <2> QED BY <2>3, <2>4, <2>5
<1>3. ProductAsked => ProductsComplete
  BY <1>1, <1>2 DEF ProductAsked
<1> QED BY <1>3, ProductQuestions, PTL
================================================================================
