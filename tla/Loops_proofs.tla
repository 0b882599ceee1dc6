------------------------------ MODULE Loops_proofs ------------------------------
(***************************************************************************)
(* Induction over sets of numbers, and what loops compute that are written *)
(* as recursive functions of the number of turns: the state after each     *)
(* turn is that of a run of the loop's steps, and there is one.            *)
(***************************************************************************)
EXTENDS Loops, Sequences, FiniteSetsExt, FiniteSetTheorems, WellFoundedInduction, TLAPS

-----------------------------------------------------------------------------
(* Induction, over sets of numbers.                                        *)
LEMMA Least ==
  ASSUME NEW S, S \subseteq Nat, S # {}
  PROVE  \E m \in S : \A k \in S : m <= k
<1> DEFINE R == OpToRel(<, Nat)
<1>1. IsWellFoundedOn(R, Nat)
  BY NatLessThanWellFounded
<1>2. \A y, x \in Nat : y < x => <<y, x>> \in R
  BY DEF OpToRel
<1> HIDE DEF R
<1>3. PICK x \in S : \A y \in S : ~ (<<y, x>> \in R)
  BY <1>1, WFMin
<1>4. ASSUME NEW y \in S PROVE x <= y
  <2>1. x \in Nat /\ y \in Nat
    OBVIOUS
  <2>2. ~ (y < x)
    BY <1>2, <1>3, <2>1
  <2> QED
    BY <2>1, <2>2
<1> QED BY <1>4

(* What holds of 0, and of n + 1 when of n, holds of every number.         *)
LEMMA Induction ==
  ASSUME NEW S, 0 \in S, \A n \in Nat : n \in S => n + 1 \in S
  PROVE  \A n \in Nat : n \in S
<1> SUFFICES ASSUME Nat \ S # {} PROVE FALSE
  OBVIOUS
<1>1. PICK m \in Nat \ S : \A k \in Nat \ S : m <= k
  BY Least
<1>2. m # 0 /\ m - 1 \in Nat
  BY <1>1
<1>3. m - 1 \in S
  BY <1>1, <1>2
<1> QED BY <1>1, <1>2, <1>3

-----------------------------------------------------------------------------
(* The largest and the least of a set, quotients and remainders.          *)
LEMMA MaxOf ==
  ASSUME NEW S, NEW m \in S, S \subseteq Int, \A k \in S : k <= m
  PROVE  Max(S) = m
<1>1. \A k \in S : m >= k
  OBVIOUS
<1>2. Max(S) \in S /\ \A k \in S : Max(S) >= k
  BY <1>1 DEF Max
<1>3. m >= Max(S) /\ Max(S) >= m /\ m \in Int /\ Max(S) \in Int
  BY <1>1, <1>2
<1> QED BY <1>3

LEMMA MinOf ==
  ASSUME NEW S, NEW m \in S, S \subseteq Int, \A k \in S : m <= k
  PROVE  Min(S) = m
<1>1. \A k \in S : m =< k
  OBVIOUS
<1>2. Min(S) \in S /\ \A k \in S : Min(S) =< k
  BY <1>1 DEF Min
<1>3. m <= Min(S) /\ Min(S) <= m /\ m \in Int /\ Min(S) \in Int
  BY <1>1, <1>2
<1> QED BY <1>3

LEMMA Max2 ==
  ASSUME NEW a \in Int, NEW b \in Int
  PROVE  Max({a, b}) = IF a <= b THEN b ELSE a
<1>1. CASE a <= b
  <2>1. b \in {a, b} /\ {a, b} \subseteq Int /\ \A k \in {a, b} : k <= b
    BY <1>1
  <2> QED BY <1>1, <2>1, MaxOf
<1>2. CASE ~ (a <= b)
  <2>1. a \in {a, b} /\ {a, b} \subseteq Int /\ \A k \in {a, b} : k <= a
    BY <1>2
  <2> QED BY <1>2, <2>1, MaxOf
<1> QED BY <1>1, <1>2

LEMMA Min2 ==
  ASSUME NEW a \in Int, NEW b \in Int
  PROVE  Min({a, b}) = IF a <= b THEN a ELSE b
<1>1. CASE a <= b
  <2>1. a \in {a, b} /\ {a, b} \subseteq Int /\ \A k \in {a, b} : a <= k
    BY <1>1
  <2> QED BY <1>1, <2>1, MinOf
<1>2. CASE ~ (a <= b)
  <2>1. b \in {a, b} /\ {a, b} \subseteq Int /\ \A k \in {a, b} : b <= k
    BY <1>2
  <2> QED BY <1>2, <2>1, MinOf
<1> QED BY <1>1, <1>2

(* There is a least number in a set that is not empty, and a largest if    *)
(* the set has a bound.                                                    *)
LEMMA LeastIn ==
  ASSUME NEW S, S \subseteq Nat, S # {}
  PROVE  Min(S) \in S /\ \A k \in S : Min(S) <= k
<1>1. PICK m \in S : \A k \in S : m <= k
  BY Least
<1>2. S \subseteq Int
  OBVIOUS
<1>3. Min(S) = m
  BY <1>1, <1>2, MinOf
<1> QED BY <1>1, <1>3

LEMMA GreatestIn ==
  ASSUME NEW n \in Nat, NEW S, S \subseteq 0 .. n, S # {}
  PROVE  Max(S) \in S /\ \A k \in S : k <= Max(S)
<1> DEFINE D == {d \in Nat : n - d \in S}
<1>1. D \subseteq Nat
  OBVIOUS
<1>2. D # {}
  <2>1. PICK k \in S : TRUE
    OBVIOUS
  <2>2. k \in 0 .. n
    BY <2>1
  <2>3. n - k \in Nat /\ n - (n - k) = k
    BY <2>2
  <2>4. n - k \in D
    BY <2>1, <2>3
  <2> QED BY <2>4
<1>3. PICK d \in D : \A c \in D : d <= c
  <2> HIDE DEF D
  <2> QED BY <1>1, <1>2, Least
<1>4. n - d \in S
  BY <1>3
<1> DEFINE m == n - d
<1>5. \A k \in S : k <= m
  <2> SUFFICES ASSUME NEW k \in S PROVE k <= m
    OBVIOUS
  <2>1. k \in 0 .. n
    OBVIOUS
  <2>2. n - k \in Nat /\ n - (n - k) = k
    BY <2>1
  <2>3. n - k \in D
    BY <2>2
  <2>4. d <= n - k
    BY <1>3, <2>3
  <2> QED BY <1>3, <2>1, <2>4
<1> HIDE DEF m
<1>6. m \in S /\ S \subseteq Int
  BY <1>4 DEF m
<1>7. Max(S) = m
  BY <1>5, <1>6, MaxOf
<1> QED BY <1>5, <1>6, <1>7

(* Quotient and remainder, and that they are the only ones.                *)
LEMMA DivMod ==
  ASSUME NEW a \in Nat, NEW d \in Nat \ {0}
  PROVE  /\ a \div d \in Nat /\ a % d \in Nat /\ a % d < d
         /\ a = d * (a \div d) + (a % d)
OBVIOUS

LEMMA DivUnique ==
  ASSUME NEW d \in Nat \ {0}, NEW q \in Nat, NEW r \in Nat, r < d
  PROVE  (d * q + r) \div d = q /\ (d * q + r) % d = r
<1> DEFINE a == d * q + r
<1>1. a \in Nat
  OBVIOUS
<1>2. a = d * q + r
  OBVIOUS
<1> DEFINE p == a \div d
           s == a % d
<1> HIDE DEF a
<1>3. p \in Nat /\ s \in Nat /\ s < d /\ a = d * p + s
  BY <1>1, DivMod
<1> HIDE DEF p, s
<1>4. p = q
  <2>1. CASE p < q
    <3>1. d * (p + 1) <= d * q
      BY <1>3, <2>1
    <3> QED BY <1>2, <1>3, <3>1
  <2>2. CASE q < p
    <3>1. d * (q + 1) <= d * p
      BY <1>3, <2>2
    <3> QED BY <1>2, <1>3, <3>1
  <2> QED BY <1>3, <2>1, <2>2
<1>5. s = r
  BY <1>2, <1>3, <1>4
<1> QED BY <1>4, <1>5 DEF p, s, a

-----------------------------------------------------------------------------
(* A loop of n turns from x: F[k] is its step in turn k.                   *)
Runs(S, F, x, n) ==
  {g \in [0 .. n -> S] : g[0] = x /\ \A k \in 1 .. n : g[k] = F[k][g[k - 1]]}

(* A loop whose steps keep to a set runs.                                  *)
LEMMA RunsExist ==
  ASSUME NEW S, NEW x \in S, NEW N \in Nat, NEW F \in [1 .. N -> [S -> S]]
  PROVE  \E g : g \in Runs(S, F, x, N)
<1> DEFINE P == {n \in Nat : n <= N => \E g : g \in Runs(S, F, x, n)}
<1>1. 0 \in P
  <2>1. [k \in 0 .. 0 |-> x] \in Runs(S, F, x, 0)
    BY DEF Runs
  <2> QED BY <2>1
<1>2. ASSUME NEW n \in Nat, n \in P PROVE n + 1 \in P
  <2> SUFFICES ASSUME n + 1 <= N PROVE \E g : g \in Runs(S, F, x, n + 1)
    OBVIOUS
  <2>0. n <= N /\ n + 1 \in 1 .. N
    OBVIOUS
  <2>1. PICK g : g \in Runs(S, F, x, n)
    BY <1>2, <2>0
  <2>2. g \in [0 .. n -> S] /\ g[0] = x /\ \A k \in 1 .. n : g[k] = F[k][g[k - 1]]
    BY <2>1 DEF Runs
  <2> DEFINE h == [k \in 0 .. n + 1 |-> IF k = n + 1 THEN F[n + 1][g[n]] ELSE g[k]]
  <2>3. h \in [0 .. n + 1 -> S]
    <3>1. \A k \in 0 .. n + 1 : k # n + 1 => k \in 0 .. n
      OBVIOUS
    <3>2. F[n + 1] \in [S -> S] /\ g[n] \in S
      BY <2>0, <2>2
    <3>3. F[n + 1][g[n]] \in S
      BY <3>2
    <3> QED BY <2>2, <3>1, <3>3
  <2>4. h[0] = x
    BY <2>2
  <2>5. ASSUME NEW k \in 1 .. n + 1 PROVE h[k] = F[k][h[k - 1]]
    <3>1. k - 1 \in 0 .. n /\ k \in 0 .. n + 1
      OBVIOUS
    <3>2. h[k - 1] = g[k - 1]
      BY <3>1
    <3>3. CASE k = n + 1
      BY <3>1, <3>2, <3>3
    <3>4. CASE k # n + 1
      <4>1. k \in 1 .. n
        BY <3>4
      <4> QED BY <2>2, <3>1, <3>2, <4>1, <3>4
    <3> QED BY <3>3, <3>4
  <2>6. h \in Runs(S, F, x, n + 1)
    <3> HIDE DEF h
    <3> QED BY <2>3, <2>4, <2>5 DEF Runs
  <2> QED BY <2>6
<1> HIDE DEF P
<1>3. N \in P
  BY <1>1, <1>2, Induction
<1> QED BY <1>3 DEF P

(* Two loops that start alike and go on alike end alike.                   *)
LEMMA Alike ==
  ASSUME NEW n \in Nat, NEW f, NEW g, f[0] = g[0],
         \A k \in 1 .. n : f[k - 1] = g[k - 1] => f[k] = g[k]
  PROVE  f[n] = g[n]
<1> DEFINE P == {k \in Nat : k <= n => f[k] = g[k]}
<1>1. 0 \in P
  OBVIOUS
<1>2. ASSUME NEW k \in Nat, k \in P PROVE k + 1 \in P
  <2> SUFFICES ASSUME k + 1 <= n PROVE f[k + 1] = g[k + 1]
    OBVIOUS
  <2>1. k <= n /\ k + 1 \in 1 .. n /\ (k + 1) - 1 = k
    OBVIOUS
  <2>2. f[k] = g[k]
    BY <1>2, <2>1
  <2> QED BY <2>1, <2>2
<1> HIDE DEF P
<1>3. n \in P
  BY <1>1, <1>2, Induction
<1> QED BY <1>3 DEF P

(* An invariant of turn and state: what holds at the start and is kept by  *)
(* each step holds after every turn.                                       *)
LEMMA RunsStay ==
  ASSUME NEW S, NEW x \in S, NEW N \in Nat, NEW F \in [1 .. N -> [S -> S]],
         NEW g \in Runs(S, F, x, N),
         NEW P, <<0, x>> \in P,
         \A k \in 1 .. N : \A y \in S : <<k - 1, y>> \in P => <<k, F[k][y]>> \in P
  PROVE  \A n \in 0 .. N : <<n, g[n]>> \in P
<1> DEFINE Q == {n \in Nat : n <= N => <<n, g[n]>> \in P}
<1>0. g \in [0 .. N -> S] /\ g[0] = x /\ \A k \in 1 .. N : g[k] = F[k][g[k - 1]]
  BY DEF Runs
<1>1. 0 \in Q
  BY <1>0
<1>2. ASSUME NEW n \in Nat, n \in Q PROVE n + 1 \in Q
  <2> SUFFICES ASSUME n + 1 <= N PROVE <<n + 1, g[n + 1]>> \in P
    OBVIOUS
  <2>1. n \in 0 .. N /\ n + 1 \in 1 .. N /\ (n + 1) - 1 = n /\ n <= N
    OBVIOUS
  <2>2. <<n, g[n]>> \in P /\ g[n] \in S
    BY <1>0, <1>2, <2>1
  <2>3. g[n + 1] = F[n + 1][g[n]]
    BY <1>0, <2>1
  <2> QED BY <2>1, <2>2, <2>3
<1> HIDE DEF Q
<1>3. \A n \in Nat : n \in Q
  BY <1>1, <1>2, Induction
<1> QED BY <1>3 DEF Q

(* A loop whose step G keeps to S only as long as an invariant P holds.    *)
Keeps(S, x, N, G, P) ==
  /\ <<0, x>> \in P
  /\ \A k \in 1 .. N : \A y \in S :
       <<k - 1, y>> \in P => G[k][y] \in S /\ <<k, G[k][y]>> \in P

IsRun(g, S, x, N, G, P) ==
  /\ g \in [0 .. N -> S]
  /\ g[0] = x
  /\ \A k \in 1 .. N : g[k] = G[k][g[k - 1]]
  /\ \A k \in 0 .. N : <<k, g[k]>> \in P

LEMMA RunsKeep ==
  ASSUME NEW S, NEW x \in S, NEW N \in Nat, NEW G, NEW P, Keeps(S, x, N, G, P)
  PROVE  \E g : IsRun(g, S, x, N, G, P)
<1>0. /\ <<0, x>> \in P
      /\ \A k \in 1 .. N : \A y \in S :
           <<k - 1, y>> \in P => G[k][y] \in S /\ <<k, G[k][y]>> \in P
  BY DEF Keeps
<1> DEFINE F == [k \in 1 .. N |-> [y \in S |-> IF G[k][y] \in S THEN G[k][y] ELSE y]]
<1>1. F \in [1 .. N -> [S -> S]]
  OBVIOUS
<1>2. \A k \in 1 .. N : \A y \in S : <<k - 1, y>> \in P => F[k][y] = G[k][y]
  BY <1>0
<1> HIDE DEF F
<1>3. PICK g : g \in Runs(S, F, x, N)
  BY <1>1, RunsExist
<1>4. g \in [0 .. N -> S] /\ g[0] = x /\ \A k \in 1 .. N : g[k] = F[k][g[k - 1]]
  BY <1>3 DEF Runs
<1>5. \A k \in 1 .. N : \A y \in S : <<k - 1, y>> \in P => <<k, F[k][y]>> \in P
  BY <1>0, <1>2
<1>6. \A k \in 0 .. N : <<k, g[k]>> \in P
  BY <1>0, <1>1, <1>3, <1>5, RunsStay
<1>7. ASSUME NEW k \in 1 .. N PROVE g[k] = G[k][g[k - 1]]
  <2>1. k - 1 \in 0 .. N
    OBVIOUS
  <2>2. g[k - 1] \in S /\ <<k - 1, g[k - 1]>> \in P
    BY <1>4, <1>6, <2>1
  <2> QED BY <1>2, <1>4, <2>2
<1> QED BY <1>4, <1>6, <1>7 DEF IsRun

-----------------------------------------------------------------------------
(* Sums.                                                                   *)
IsSum(f, N, g) ==
  /\ g \in [0 .. N -> Int]
  /\ g[0] = 0
  /\ \A k \in 1 .. N : g[k] = g[k - 1] + f[k]
  /\ \A n \in 0 .. N : Sum(f, n) = g[n]

(* The sums of the first numbers are a run of the loop that adds them up.  *)
LEMMA SumRuns ==
  ASSUME NEW N \in Nat, NEW f, \A i \in 1 .. N : f[i] \in Int
  PROVE  \E g : IsSum(f, N, g)
<1> DEFINE F == [k \in 1 .. N |-> [a \in Int |-> a + f[k]]]
<1>1. F \in [1 .. N -> [Int -> Int]]
  OBVIOUS
<1>2. \A k \in 1 .. N : \A a \in Int : F[k][a] = a + f[k]
  OBVIOUS
<1> HIDE DEF F
<1>3. PICK g : g \in Runs(Int, F, 0, N)
  <2>1. 0 \in Int
    OBVIOUS
  <2> QED BY <1>1, <2>1, RunsExist
<1>4. g \in [0 .. N -> Int] /\ g[0] = 0 /\ \A k \in 1 .. N : g[k] = F[k][g[k - 1]]
  BY <1>3 DEF Runs
<1>5. \A k \in 1 .. N : g[k] = g[k - 1] + f[k]
  <2>1. \A k \in 1 .. N : k - 1 \in 0 .. N
    OBVIOUS
  <2> QED BY <1>2, <1>4, <2>1
<1>6. ASSUME NEW n \in 0 .. N PROVE Sum(f, n) = g[n]
  <2> DEFINE acc[i \in 0 .. n] == IF i = 0 THEN 0 ELSE acc[i - 1] + f[i]
  <2>1. acc[n] = Sum(f, n)
    BY DEF Sum
  <2>2. acc = [i \in 0 .. n |-> IF i = 0 THEN 0 ELSE acc[i - 1] + f[i]]
    <3> DEFINE h == [i \in 0 .. n |-> g[i]]
    <3>1. \A i \in 0 .. n : i # 0 => i \in 1 .. N /\ i - 1 \in 0 .. n
      OBVIOUS
    <3>2. h = [i \in 0 .. n |-> IF i = 0 THEN 0 ELSE h[i - 1] + f[i]]
      BY <1>4, <1>5, <3>1
    <3> QED BY <3>2
  <2> HIDE DEF acc
  <2>3. \A i \in 1 .. n : acc[i] = acc[i - 1] + f[i]
    BY <2>2
  <2>4. acc[0] = 0
    BY <2>2
  <2>5. \A k \in 1 .. n : k \in 1 .. N
    OBVIOUS
  <2>6. acc[n] = g[n]
    <3>1. acc[0] = g[0]
      BY <1>4, <2>4
    <3>2. \A k \in 1 .. n : acc[k - 1] = g[k - 1] => acc[k] = g[k]
      BY <1>5, <2>3, <2>5
    <3>3. n \in Nat
      OBVIOUS
    <3> QED BY <3>1, <3>2, <3>3, Alike
  <2> QED BY <2>1, <2>6
<1> QED BY <1>4, <1>5, <1>6 DEF IsSum

(* From there: one term after the other.                                   *)
LEMMA SumEmpty ==
  ASSUME NEW f
  PROVE  Sum(f, 0) = 0
<1>1. \A i \in 1 .. 0 : f[i] \in Int
  OBVIOUS
<1>2. PICK g : IsSum(f, 0, g)
  BY <1>1, SumRuns
<1> QED BY <1>2 DEF IsSum

LEMMA SumNext ==
  ASSUME NEW f, NEW n \in Nat, \A i \in 1 .. n + 1 : f[i] \in Int
  PROVE  Sum(f, n + 1) = Sum(f, n) + f[n + 1]
<1>1. PICK g : IsSum(f, n + 1, g)
  <2>1. n + 1 \in Nat
    OBVIOUS
  <2> QED BY <2>1, SumRuns
<1>2. n + 1 \in 1 .. n + 1 /\ n + 1 \in 0 .. n + 1 /\ n \in 0 .. n + 1 /\ (n + 1) - 1 = n
  OBVIOUS
<1> QED BY <1>1, <1>2 DEF IsSum

LEMMA SumInt ==
  ASSUME NEW f, NEW n \in Nat, \A i \in 1 .. n : f[i] \in Int
  PROVE  Sum(f, n) \in Int
<1>1. PICK g : IsSum(f, n, g)
  BY SumRuns
<1>2. n \in 0 .. n
  OBVIOUS
<1> QED BY <1>1, <1>2 DEF IsSum

(* A sum is at most another of as many terms that are each no smaller.     *)
LEMMA SumMonotone ==
  ASSUME NEW f, NEW h, NEW n \in Nat,
         \A i \in 1 .. n : f[i] \in Int /\ h[i] \in Int /\ f[i] <= h[i]
  PROVE  Sum(f, n) <= Sum(h, n)
<1> DEFINE P == {k \in Nat : k <= n => Sum(f, k) <= Sum(h, k)}
<1>1. 0 \in P
  BY SumEmpty
<1>2. ASSUME NEW k \in Nat, k \in P PROVE k + 1 \in P
  <2> SUFFICES ASSUME k + 1 <= n PROVE Sum(f, k + 1) <= Sum(h, k + 1)
    OBVIOUS
  <2>1. /\ \A i \in 1 .. k + 1 : f[i] \in Int /\ h[i] \in Int
        /\ \A i \in 1 .. k : f[i] \in Int /\ h[i] \in Int
    OBVIOUS
  <2>2. /\ Sum(f, k + 1) = Sum(f, k) + f[k + 1]
        /\ Sum(h, k + 1) = Sum(h, k) + h[k + 1]
    BY <2>1, SumNext
  <2>3. Sum(f, k) \in Int /\ Sum(h, k) \in Int
    BY <2>1, SumInt
  <2>4. k + 1 \in 1 .. n /\ k <= n
    OBVIOUS
  <2>5. Sum(f, k) <= Sum(h, k) /\ f[k + 1] <= h[k + 1] /\ f[k + 1] \in Int /\ h[k + 1] \in Int
    BY <1>2, <2>4
  <2> QED BY <2>2, <2>3, <2>5
<1> HIDE DEF P
<1>3. n \in P
  BY <1>1, <1>2, Induction
<1> QED BY <1>3 DEF P

(* Of naturals, of the same terms, and of zeros.                           *)
LEMMA SumNat ==
  ASSUME NEW f, NEW n \in Nat, \A i \in 1 .. n : f[i] \in Nat
  PROVE  Sum(f, n) \in Nat
<1> DEFINE P == {k \in Nat : k <= n => Sum(f, k) \in Nat}
<1>1. 0 \in P
  BY SumEmpty
<1>2. ASSUME NEW k \in Nat, k \in P PROVE k + 1 \in P
  <2> SUFFICES ASSUME k + 1 <= n PROVE Sum(f, k + 1) \in Nat
    OBVIOUS
  <2>1. (\A i \in 1 .. k + 1 : f[i] \in Int) /\ k <= n /\ f[k + 1] \in Nat
    OBVIOUS
  <2>2. Sum(f, k + 1) = Sum(f, k) + f[k + 1]
    BY <2>1, SumNext
  <2> QED BY <1>2, <2>1, <2>2
<1> HIDE DEF P
<1>3. n \in P
  BY <1>1, <1>2, Induction
<1> QED BY <1>3 DEF P

(* Sums of no negative terms only grow.                                    *)
LEMMA SumGrows ==
  ASSUME NEW f, NEW n \in Nat, \A i \in 1 .. n : f[i] \in Nat,
         NEW k \in 0 .. n
  PROVE  Sum(f, k) <= Sum(f, n)
<1> DEFINE P == {j \in Nat : k + j <= n => Sum(f, k) <= Sum(f, k + j)}
<1>0. \A j \in 0 .. n : Sum(f, j) \in Nat
  <2>1. \A j \in 0 .. n : \A i \in 1 .. j : f[i] \in Nat
    OBVIOUS
  <2> QED BY <2>1, SumNat
<1>1. 0 \in P
  BY <1>0
<1>2. ASSUME NEW j \in Nat, j \in P PROVE j + 1 \in P
  <2> SUFFICES ASSUME k + (j + 1) <= n PROVE Sum(f, k) <= Sum(f, k + (j + 1))
    OBVIOUS
  <2>1. /\ k + j \in Nat /\ (k + j) + 1 = k + (j + 1) /\ k + j <= n /\ k + j \in 0 .. n
        /\ k + (j + 1) \in 1 .. n
        /\ \A i \in 1 .. (k + j) + 1 : f[i] \in Int
    OBVIOUS
  <2>2. Sum(f, (k + j) + 1) = Sum(f, k + j) + f[(k + j) + 1]
    BY <2>1, SumNext
  <2>3. Sum(f, k) \in Nat /\ Sum(f, k + j) \in Nat /\ f[k + (j + 1)] \in Nat
    BY <1>0, <2>1
  <2>4. Sum(f, k) <= Sum(f, k + j)
    BY <1>2, <2>1
  <2> QED BY <2>1, <2>2, <2>3, <2>4
<1> HIDE DEF P
<1>3. n - k \in P
  BY <1>1, <1>2, Induction
<1>4. k + (n - k) = n
  OBVIOUS
<1> QED BY <1>3, <1>4 DEF P

LEMMA SumSame ==
  ASSUME NEW f, NEW h, NEW n \in Nat, \A i \in 1 .. n : f[i] \in Int /\ h[i] = f[i]
  PROVE  Sum(f, n) = Sum(h, n)
<1>1. \A i \in 1 .. n : f[i] \in Int /\ h[i] \in Int /\ f[i] <= h[i] /\ h[i] <= f[i]
  OBVIOUS
<1>2. Sum(f, n) \in Int /\ Sum(h, n) \in Int
  BY <1>1, SumInt
<1>3. Sum(f, n) <= Sum(h, n) /\ Sum(h, n) <= Sum(f, n)
  BY <1>1, SumMonotone
<1> QED BY <1>2, <1>3

(* Nothing but zeros, and one term among zeros.                            *)
LEMMA SumZero ==
  ASSUME NEW f, NEW n \in Nat, \A i \in 1 .. n : f[i] = 0
  PROVE  Sum(f, n) = 0
<1> DEFINE P == {k \in Nat : k <= n => Sum(f, k) = 0}
<1>1. 0 \in P
  BY SumEmpty
<1>2. ASSUME NEW k \in Nat, k \in P PROVE k + 1 \in P
  <2> SUFFICES ASSUME k + 1 <= n PROVE Sum(f, k + 1) = 0
    OBVIOUS
  <2>1. (\A i \in 1 .. k + 1 : f[i] \in Int) /\ k <= n /\ f[k + 1] = 0
    OBVIOUS
  <2>2. Sum(f, k + 1) = Sum(f, k) + f[k + 1]
    BY <2>1, SumNext
  <2> QED BY <1>2, <2>1, <2>2
<1> HIDE DEF P
<1>3. n \in P
  BY <1>1, <1>2, Induction
<1> QED BY <1>3 DEF P

(* The sum of term by term sums.                                           *)
LEMMA SumAdd ==
  ASSUME NEW f, NEW g, NEW h, NEW n \in Nat,
         \A i \in 1 .. n : f[i] \in Int /\ g[i] \in Int /\ h[i] = f[i] + g[i]
  PROVE  Sum(h, n) = Sum(f, n) + Sum(g, n)
<1> DEFINE P == {k \in Nat : k <= n => Sum(h, k) = Sum(f, k) + Sum(g, k)}
<1>1. 0 \in P
  BY SumEmpty
<1>2. ASSUME NEW k \in Nat, k \in P PROVE k + 1 \in P
  <2> SUFFICES ASSUME k + 1 <= n PROVE Sum(h, k + 1) = Sum(f, k + 1) + Sum(g, k + 1)
    OBVIOUS
  <2>1. /\ \A i \in 1 .. k + 1 : f[i] \in Int /\ g[i] \in Int /\ h[i] \in Int
        /\ \A i \in 1 .. k : f[i] \in Int /\ g[i] \in Int /\ h[i] \in Int
    OBVIOUS
  <2>2. /\ Sum(f, k + 1) = Sum(f, k) + f[k + 1]
        /\ Sum(g, k + 1) = Sum(g, k) + g[k + 1]
        /\ Sum(h, k + 1) = Sum(h, k) + h[k + 1]
    BY <2>1, SumNext
  <2>3. Sum(f, k) \in Int /\ Sum(g, k) \in Int /\ Sum(h, k) \in Int
    BY <2>1, SumInt
  <2>4. k + 1 \in 1 .. n /\ k <= n
    OBVIOUS
  <2>5. /\ f[k + 1] \in Int /\ g[k + 1] \in Int /\ h[k + 1] = f[k + 1] + g[k + 1]
        /\ Sum(h, k) = Sum(f, k) + Sum(g, k)
    BY <1>2, <2>4
  <2> QED BY <2>2, <2>3, <2>5
<1> HIDE DEF P
<1>3. n \in P
  BY <1>1, <1>2, Induction
<1> QED BY <1>3 DEF P

(* A factor of every term is a factor of the sum.                          *)
LEMMA SumScale ==
  ASSUME NEW f, NEW h, NEW c \in Int, NEW n \in Nat,
         \A i \in 1 .. n : f[i] \in Int /\ h[i] = c * f[i]
  PROVE  Sum(h, n) = c * Sum(f, n)
<1> DEFINE P == {k \in Nat : k <= n => Sum(h, k) = c * Sum(f, k)}
<1>1. 0 \in P
  BY SumEmpty
<1>2. ASSUME NEW k \in Nat, k \in P PROVE k + 1 \in P
  <2> SUFFICES ASSUME k + 1 <= n PROVE Sum(h, k + 1) = c * Sum(f, k + 1)
    OBVIOUS
  <2>1. /\ \A i \in 1 .. k + 1 : f[i] \in Int /\ h[i] \in Int
        /\ \A i \in 1 .. k : f[i] \in Int
    <3>1. \A i \in 1 .. k + 1 : i \in 1 .. n
      OBVIOUS
    <3>2. \A i \in 1 .. k + 1 : f[i] \in Int /\ h[i] = c * f[i]
      BY <3>1
    <3>3. \A x \in Int : c * x \in Int
      OBVIOUS
    <3> QED BY <3>2, <3>3
  <2>2. /\ Sum(f, k + 1) = Sum(f, k) + f[k + 1]
        /\ Sum(h, k + 1) = Sum(h, k) + h[k + 1]
    BY <2>1, SumNext
  <2>3. Sum(f, k) \in Int
    BY <2>1, SumInt
  <2>4. k + 1 \in 1 .. n /\ k <= n
    OBVIOUS
  <2>5. f[k + 1] \in Int /\ h[k + 1] = c * f[k + 1] /\ Sum(h, k) = c * Sum(f, k)
    BY <1>2, <2>4
  <2> DEFINE x == Sum(f, k)
             y == f[k + 1]
  <2>6. x \in Int /\ y \in Int
    BY <2>3, <2>5
  <2>7. c * (x + y) = c * x + c * y
    <3> HIDE DEF x, y
    <3> QED BY <2>6
  <2> QED BY <2>2, <2>5, <2>7
<1> HIDE DEF P
<1>3. n \in P
  BY <1>1, <1>2, Induction
<1> QED BY <1>3 DEF P

(* The sums of n rows of m numbers, added up, are those of the columns.    *)
(* rows and columns are the sums of a table of n rows and m columns.       *)
IsTable(f, n, m, rows, columns) ==
  /\ \A w \in 1 .. n : \A i \in 1 .. m : f[w][i] \in Int
  /\ \A w \in 1 .. n : rows[w] = Sum(f[w], m)
  /\ \A i \in 1 .. m : columns[i] = Sum([w \in 1 .. n |-> f[w][i]], n)

(* A table adds up to the same by rows and by columns.                     *)
LEMMA SumSwap ==
  ASSUME NEW n \in Nat, NEW m \in Nat, NEW f, NEW rows, NEW columns,
         IsTable(f, n, m, rows, columns)
  PROVE  Sum(rows, n) = Sum(columns, m)
<1>0. \A w \in 1 .. n : \A i \in 1 .. m : f[w][i] \in Int
  BY DEF IsTable
<1>10. \A w \in 1 .. n : rows[w] = Sum(f[w], m)
  BY DEF IsTable
<1>11. \A i \in 1 .. m : columns[i] = Sum([w \in 1 .. n |-> f[w][i]], n)
  BY DEF IsTable
<1> DEFINE P == {k \in Nat : k <= n =>
                   Sum(rows, k) = Sum([i \in 1 .. m |-> Sum([w \in 1 .. n |-> f[w][i]], k)], m)}
<1>1. 0 \in P
  <2> DEFINE none == [i \in 1 .. m |-> Sum([w \in 1 .. n |-> f[w][i]], 0)]
  <2>1. \A i \in 1 .. m : none[i] = 0
    BY SumEmpty
  <2> HIDE DEF none
  <2>2. Sum(none, m) = 0
    BY <2>1, SumZero
  <2>3. Sum(rows, 0) = 0
    BY SumEmpty
  <2> QED BY <2>2, <2>3 DEF none
<1>2. ASSUME NEW k \in Nat, k \in P PROVE k + 1 \in P
  <2> SUFFICES ASSUME k + 1 <= n
               PROVE  Sum(rows, k + 1)
                        = Sum([i \in 1 .. m |-> Sum([w \in 1 .. n |-> f[w][i]], k + 1)], m)
    OBVIOUS
  <2> DEFINE col(i) == [w \in 1 .. n |-> f[w][i]]
             now == [i \in 1 .. m |-> Sum(col(i), k)]
             next == [i \in 1 .. m |-> Sum(col(i), k + 1)]
  <2>1. k + 1 \in 1 .. n /\ k <= n
    OBVIOUS
  <2>2. ASSUME NEW i \in 1 .. m
        PROVE  /\ now[i] \in Int /\ f[k + 1][i] \in Int
               /\ next[i] = now[i] + f[k + 1][i]
    <3>1. /\ \A w \in 1 .. k + 1 : col(i)[w] \in Int
          /\ \A w \in 1 .. k : col(i)[w] \in Int
          /\ col(i)[k + 1] = f[k + 1][i]
      BY <1>0, <2>1
    <3>2. now[i] = Sum(col(i), k) /\ next[i] = Sum(col(i), k + 1)
      OBVIOUS
    <3> HIDE DEF col, now, next
    <3>3. Sum(col(i), k + 1) = Sum(col(i), k) + col(i)[k + 1] /\ Sum(col(i), k) \in Int
      BY <3>1, SumNext, SumInt
    <3>4. f[k + 1][i] \in Int
      BY <1>0, <2>1
    <3> QED BY <3>1, <3>2, <3>3, <3>4
  <2>3. Sum(rows, k) = Sum(now, m)
    BY <1>2, <2>1
  <2> HIDE DEF now, next, col
  <2>4. Sum(next, m) = Sum(now, m) + Sum(f[k + 1], m)
    BY <2>2, SumAdd
  <2>5. \A w \in 1 .. n : rows[w] \in Int
    <3> SUFFICES ASSUME NEW w \in 1 .. n PROVE rows[w] \in Int
      OBVIOUS
    <3>1. Sum(f[w], m) \in Int
      BY <1>0, SumInt
    <3> QED BY <1>10, <3>1
  <2>6. Sum(rows, k + 1) = Sum(rows, k) + rows[k + 1]
    <3>1. \A w \in 1 .. k + 1 : rows[w] \in Int
      BY <2>1, <2>5
    <3> QED BY <3>1, SumNext
  <2>7. Sum(rows, k + 1) = Sum(next, m)
    BY <1>10, <2>1, <2>3, <2>4, <2>6
  <2> QED BY <2>7 DEF next, col
<1> HIDE DEF P
<1>3. n \in P
  BY <1>1, <1>2, Induction
<1>4. Sum(rows, n) = Sum([i \in 1 .. m |-> Sum([w \in 1 .. n |-> f[w][i]], n)], m)
  BY <1>3 DEF P
<1> DEFINE all == [i \in 1 .. m |-> Sum([w \in 1 .. n |-> f[w][i]], n)]
<1>5. \A i \in 1 .. m : all[i] \in Int /\ columns[i] = all[i]
  <2> SUFFICES ASSUME NEW i \in 1 .. m PROVE all[i] \in Int /\ columns[i] = all[i]
    OBVIOUS
  <2> DEFINE column == [w \in 1 .. n |-> f[w][i]]
  <2>1. \A w \in 1 .. n : column[w] \in Int
    BY <1>0
  <2>2. all[i] = Sum(column, n) /\ columns[i] = Sum(column, n)
    BY <1>11
  <2> HIDE DEF column, all
  <2> QED BY <2>1, <2>2, SumInt
<1>6. Sum(rows, n) = Sum(all, m)
  BY <1>4
<1> HIDE DEF all
<1>7. Sum(all, m) = Sum(columns, m)
  BY <1>5, SumSame
<1> QED BY <1>6, <1>7

(* A sum of which one term is not zero.                                    *)
LEMMA SumSingle ==
  ASSUME NEW f, NEW n \in Nat, NEW k \in 1 .. n, f[k] \in Int,
         \A i \in 1 .. n : i # k => f[i] = 0
  PROVE  Sum(f, n) = f[k]
<1> DEFINE P == {j \in Nat : k + j <= n => Sum(f, k + j) = f[k]}
<1>0. \A j \in 1 .. n : f[j] \in Int
  OBVIOUS
<1>1. 0 \in P
  <2>1. k - 1 \in Nat /\ (k - 1) + 1 = k /\ k + 0 = k
    OBVIOUS
  <2>2. (\A i \in 1 .. k - 1 : f[i] = 0) /\ \A i \in 1 .. (k - 1) + 1 : f[i] \in Int
    BY <1>0
  <2>3. Sum(f, k - 1) = 0 /\ Sum(f, (k - 1) + 1) = Sum(f, k - 1) + f[(k - 1) + 1]
    BY <2>1, <2>2, SumZero, SumNext
  <2>4. Sum(f, k) = f[k]
    BY <2>1, <2>3
  <2> QED BY <2>1, <2>4
<1>2. ASSUME NEW j \in Nat, j \in P PROVE j + 1 \in P
  <2> SUFFICES ASSUME k + (j + 1) <= n PROVE Sum(f, k + (j + 1)) = f[k]
    OBVIOUS
  <2>1. /\ k + j \in Nat /\ (k + j) + 1 = k + (j + 1) /\ k + j <= n
        /\ \A i \in 1 .. (k + j) + 1 : f[i] \in Int
    BY <1>0
  <2>2. Sum(f, (k + j) + 1) = Sum(f, k + j) + f[(k + j) + 1]
    BY <2>1, SumNext
  <2>3. f[(k + j) + 1] = 0
    BY <2>1
  <2>4. Sum(f, k + j) = f[k]
    BY <1>2, <2>1
  <2> QED BY <2>1, <2>2, <2>3, <2>4
<1> HIDE DEF P
<1>3. n - k \in P
  BY <1>1, <1>2, Induction
<1>4. k + (n - k) = n
  OBVIOUS
<1> QED BY <1>3, <1>4 DEF P

(* A sum in which all but m terms behind the first k are zero.             *)
(* g is m terms of f, behind k; all others are zero.                       *)
IsPart(g, m, f, n, k) ==
  /\ k + m <= n
  /\ \A i \in 1 .. m : g[i] \in Int /\ f[k + i] = g[i]
  /\ \A i \in 1 .. n : i <= k \/ i > k + m => f[i] = 0

LEMMA SumPart ==
  ASSUME NEW f, NEW g, NEW n \in Nat, NEW k \in Nat, NEW m \in Nat, IsPart(g, m, f, n, k)
  PROVE  Sum(f, n) = Sum(g, m)
<1> USE DEF IsPart
<1>0. \A i \in 1 .. n : f[i] \in Int
  <2> SUFFICES ASSUME NEW i \in 1 .. n PROVE f[i] \in Int
    OBVIOUS
  <2>1. CASE i <= k \/ i > k + m
    BY <2>1
  <2>2. CASE ~ (i <= k \/ i > k + m)
    <3>1. i - k \in 1 .. m /\ k + (i - k) = i
      BY <2>2
    <3> QED BY <3>1
  <2> QED BY <2>1, <2>2
<1> DEFINE P == {j \in Nat : j <= m => Sum(f, k + j) = Sum(g, j)}
<1>1. 0 \in P
  <2>1. \A i \in 1 .. k : f[i] = 0
    OBVIOUS
  <2>2. Sum(f, k) = 0 /\ Sum(g, 0) = 0 /\ k + 0 = k
    BY <2>1, SumZero, SumEmpty
  <2> QED BY <2>2
<1>2. ASSUME NEW j \in Nat, j \in P PROVE j + 1 \in P
  <2> SUFFICES ASSUME j + 1 <= m PROVE Sum(f, k + (j + 1)) = Sum(g, j + 1)
    OBVIOUS
  <2>1. /\ k + j \in Nat /\ (k + j) + 1 = k + (j + 1) /\ j <= m /\ j + 1 \in 1 .. m
        /\ \A i \in 1 .. (k + j) + 1 : f[i] \in Int
        /\ \A i \in 1 .. j + 1 : g[i] \in Int
    BY <1>0
  <2>2. /\ Sum(f, (k + j) + 1) = Sum(f, k + j) + f[(k + j) + 1]
        /\ Sum(g, j + 1) = Sum(g, j) + g[j + 1]
    BY <2>1, SumNext
  <2>3. f[k + (j + 1)] = g[j + 1]
    BY <2>1
  <2>4. Sum(f, k + j) = Sum(g, j)
    BY <1>2, <2>1
  <2> QED BY <2>1, <2>2, <2>3, <2>4
<1> HIDE DEF P
<1>3. m \in P
  BY <1>1, <1>2, Induction
<1>4. Sum(f, k + m) = Sum(g, m)
  BY <1>3 DEF P
<1> DEFINE R == {j \in Nat : (k + m) + j <= n => Sum(f, (k + m) + j) = Sum(f, k + m)}
<1>5. 0 \in R
  OBVIOUS
<1>6. ASSUME NEW j \in Nat, j \in R PROVE j + 1 \in R
  <2> SUFFICES ASSUME (k + m) + (j + 1) <= n PROVE Sum(f, (k + m) + (j + 1)) = Sum(f, k + m)
    OBVIOUS
  <2>1. /\ (k + m) + j \in Nat /\ ((k + m) + j) + 1 = (k + m) + (j + 1) /\ (k + m) + j <= n
        /\ \A i \in 1 .. ((k + m) + j) + 1 : f[i] \in Int
        /\ \A i \in 1 .. (k + m) + j : f[i] \in Int
    BY <1>0
  <2>2. Sum(f, ((k + m) + j) + 1) = Sum(f, (k + m) + j) + f[((k + m) + j) + 1]
    BY <2>1, SumNext
  <2>3. f[((k + m) + j) + 1] = 0
    BY <2>1
  <2>4. Sum(f, (k + m) + j) = Sum(f, k + m) /\ Sum(f, (k + m) + j) \in Int
    BY <1>6, <2>1, SumInt
  <2> QED BY <2>1, <2>2, <2>3, <2>4
<1> HIDE DEF R
<1>7. n - (k + m) \in R
  BY <1>5, <1>6, Induction
<1>8. (k + m) + (n - (k + m)) = n
  OBVIOUS
<1> QED BY <1>4, <1>7, <1>8 DEF R

-----------------------------------------------------------------------------
(* Powers of two.                                                          *)
IsPower(N, g) ==
  /\ g \in [0 .. N -> Nat \ {0}]
  /\ g[0] = 1
  /\ \A k \in 1 .. N : g[k] = 2 * g[k - 1]
  /\ \A n \in 0 .. N : Pow2(n) = g[n]

(* The powers are a run of the loop that doubles.                          *)
LEMMA PowerRuns ==
  ASSUME NEW N \in Nat
  PROVE  \E g : IsPower(N, g)
<1> DEFINE F == [k \in 1 .. N |-> [a \in Nat \ {0} |-> 2 * a]]
<1>1. F \in [1 .. N -> [Nat \ {0} -> Nat \ {0}]]
  <2>1. \A a \in Nat \ {0} : 2 * a \in Nat \ {0}
    OBVIOUS
  <2> QED BY <2>1
<1>2. \A k \in 1 .. N : \A a \in Nat \ {0} : F[k][a] = 2 * a
  OBVIOUS
<1> HIDE DEF F
<1>3. PICK g : g \in Runs(Nat \ {0}, F, 1, N)
  <2>1. 1 \in Nat \ {0}
    OBVIOUS
  <2> QED BY <1>1, <2>1, RunsExist
<1>4. g \in [0 .. N -> Nat \ {0}] /\ g[0] = 1 /\ \A k \in 1 .. N : g[k] = F[k][g[k - 1]]
  BY <1>3 DEF Runs
<1>5. \A k \in 1 .. N : g[k] = 2 * g[k - 1]
  <2>1. \A k \in 1 .. N : k - 1 \in 0 .. N
    OBVIOUS
  <2> QED BY <1>2, <1>4, <2>1
<1>6. ASSUME NEW n \in 0 .. N PROVE Pow2(n) = g[n]
  <2> DEFINE power[i \in 0 .. n] == IF i = 0 THEN 1 ELSE 2 * power[i - 1]
  <2>1. power[n] = Pow2(n)
    BY DEF Pow2
  <2>2. power = [i \in 0 .. n |-> IF i = 0 THEN 1 ELSE 2 * power[i - 1]]
    <3> DEFINE h == [i \in 0 .. n |-> g[i]]
    <3>1. \A i \in 0 .. n : i # 0 => i \in 1 .. N /\ i - 1 \in 0 .. n
      OBVIOUS
    <3>2. h = [i \in 0 .. n |-> IF i = 0 THEN 1 ELSE 2 * h[i - 1]]
      BY <1>4, <1>5, <3>1
    <3> QED BY <3>2
  <2> HIDE DEF power
  <2>3. \A i \in 1 .. n : power[i] = 2 * power[i - 1]
    BY <2>2
  <2>4. power[0] = 1
    BY <2>2
  <2>5. \A k \in 1 .. n : k \in 1 .. N
    OBVIOUS
  <2>6. power[n] = g[n]
    <3>1. power[0] = g[0]
      BY <1>4, <2>4
    <3>2. \A k \in 1 .. n : power[k - 1] = g[k - 1] => power[k] = g[k]
      BY <1>5, <2>3, <2>5
    <3>3. n \in Nat
      OBVIOUS
    <3> QED BY <3>1, <3>2, <3>3, Alike
  <2> QED BY <2>1, <2>6
<1> QED BY <1>4, <1>5, <1>6 DEF IsPower

(* From there: one factor after the other, and sums of exponents.          *)
LEMMA PowerIs ==
  /\ Pow2(0) = 1
  /\ \A n \in Nat : Pow2(n) \in Nat \ {0} /\ Pow2(n + 1) = 2 * Pow2(n)
<1>1. Pow2(0) = 1
  <2>1. PICK g : IsPower(0, g)
    BY PowerRuns
  <2> QED BY <2>1 DEF IsPower
<1>2. ASSUME NEW n \in Nat PROVE Pow2(n) \in Nat \ {0} /\ Pow2(n + 1) = 2 * Pow2(n)
  <2>1. PICK g : IsPower(n + 1, g)
    <3>1. n + 1 \in Nat
      OBVIOUS
    <3> QED BY <3>1, PowerRuns
  <2>2. n + 1 \in 1 .. n + 1 /\ n + 1 \in 0 .. n + 1 /\ n \in 0 .. n + 1 /\ (n + 1) - 1 = n
    OBVIOUS
  <2> QED BY <2>1, <2>2 DEF IsPower
<1> QED BY <1>1, <1>2

LEMMA PowerAdds ==
  ASSUME NEW a \in Nat, NEW b \in Nat
  PROVE  Pow2(a + b) = Pow2(a) * Pow2(b)
<1> DEFINE P == {n \in Nat : Pow2(a + n) = Pow2(a) * Pow2(n)}
<1>1. 0 \in P
  <2>1. Pow2(0) = 1 /\ Pow2(a) \in Nat /\ a + 0 = a
    BY PowerIs
  <2> QED BY <2>1
<1>2. ASSUME NEW n \in Nat, n \in P PROVE n + 1 \in P
  <2> DEFINE x == Pow2(a)
             y == Pow2(n)
  <2>1. x \in Nat /\ y \in Nat /\ a + n \in Nat /\ (a + n) + 1 = a + (n + 1)
    BY PowerIs
  <2>2. Pow2((a + n) + 1) = 2 * Pow2(a + n) /\ Pow2(n + 1) = 2 * y
    BY <2>1, PowerIs
  <2>3. Pow2(a + n) = x * y
    BY <1>2
  <2>4. 2 * (x * y) = x * (2 * y)
    <3> HIDE DEF x, y
    <3> QED BY <2>1
  <2> QED BY <2>1, <2>2, <2>3, <2>4
<1> HIDE DEF P
<1>3. b \in P
  BY <1>1, <1>2, Induction
<1> QED BY <1>3 DEF P
===============================================================================
