-------------------------------- MODULE Sampler --------------------------------
(***************************************************************************)
(* The choice of a token from a distribution (src/kernels/sampling.cu,     *)
(* k_select), as a function of the weights and of the random number drawn. *)
(*                                                                         *)
(* Weights are what k_expsum leaves: exp(logit - max), so that the largest *)
(* is 1 and the total is not normalised. Here they are naturals, One is a  *)
(* power of two, and the Halvings of a bisection bring its bounds to       *)
(* neighbouring numbers, as 24 halvings do to the resolution of a float.   *)
(***************************************************************************)
EXTENDS Questions, Loops, Sequences, FiniteSets, FiniteSetsExt, Functions

CONSTANTS
  Halvings,            \* of a bisection: 24
  Weights,             \* weight vectors to sample from
  TopKs, MinPs, TopPs, \* parameters of a request, MinPs of One, TopPs in tenths
  Resolution,          \* values the random number can take: 2^24
  ThreadCounts         \* threads of the block that selects: 256

One == Pow2(Halvings)

ASSUME SamplerAssumption ==
  /\ Halvings \in Nat
  /\ \A p \in Weights : p \in Seq(0 .. One) /\ \E i \in 1 .. Len(p) : p[i] = One
  /\ TopKs \subseteq Nat /\ MinPs \subseteq 0 .. One /\ TopPs \subseteq Nat
  /\ Resolution \in Nat \ {0}
  /\ ThreadCounts \subseteq Nat \ {0}

Tokens(p) == 1 .. Len(p)
AtLeast(p, cut) == {i \in Tokens(p) : p[i] >= cut}

(* The weights of a set of tokens, summed up over all of the vocabulary.   *)
Only(p, set) == [i \in Tokens(p) |-> IF i \in set THEN p[i] ELSE 0]
MassOf(p, set) == Sum(Only(p, set), Len(p))

(* Halve [lo, hi] by a test of the middle: up if it is in `up`, else down. *)
Bisect(lo, hi, up) ==
  LET halve(b) == LET mid == (b.lo + b.hi) \div 2
                  IN IF mid \in up THEN [b EXCEPT !.lo = mid] ELSE [b EXCEPT !.hi = mid]
      after[n \in 0 .. Halvings] ==
        IF n = 0 THEN [lo |-> lo, hi |-> hi] ELSE halve(after[n - 1])
  IN after[Halvings]

(* The threshold of top_k, for top_k strictly between 0 and the vocabulary;*)
(* 0 if it is off. The lower bound of the bisection is what is kept.       *)
TopKCut(p, topK) ==
  IF topK > 0 /\ topK < Len(p)
  THEN Bisect(0, Max({p[i] : i \in Tokens(p)}),
              {mid \in 0 .. One : Cardinality(AtLeast(p, mid)) > topK}).lo
  ELSE 0

(* min_p comes as the fraction minP / One of the largest weight.           *)
FirstCut(p, topK, minP) == Max({minP, TopKCut(p, topK)})

(* top_p comes in tenths, of the whole mass: what top_k and min_p removed  *)
(* still counts.                                                           *)
Covers(p, set, topP) == 10 * MassOf(p, set) >= topP * MassOf(p, Tokens(p))
Covering(p, topP) == {mid \in 0 .. One : Covers(p, AtLeast(p, mid), topP)}

TopPCutHigh(p, first, topP) ==                                \* a fault
  IF topP >= 10 THEN first ELSE Bisect(first, One, Covering(p, topP)).hi
TopPCut(p, first, topP) ==
  IF topP >= 10 THEN first ELSE Bisect(first, One, Covering(p, topP)).lo

Cut(p, topK, minP, topP) == TopPCut(p, FirstCut(p, topK, minP), topP)

(* rng01 is r / Resolution, from 0 up to but not including 1.              *)
Randoms == 0 .. Resolution - 1

(* The draw, in index order: the first survivor at which the cumulated     *)
(* mass reaches the random fraction of the mass of all survivors.          *)
DrawAnyIndex(p, cut, r) ==                                    \* a fault
  Min({i \in Tokens(p) : Sum(p, i) * Resolution >= r * MassOf(p, AtLeast(p, cut))})
Draw(p, cut, r) ==
  LET survivors == AtLeast(p, cut)
      u == r * MassOf(p, survivors)
      reached == {i \in survivors : Sum(Only(p, survivors), i) * Resolution >= u}
  IN IF reached # {} THEN Min(reached) ELSE IF survivors # {} THEN Max(survivors) ELSE 1

(* Greedy: each thread keeps the first of its largest, the reduction       *)
(* prefers the larger weight, then the smaller index. Thread t of Threads  *)
(* looks at every Threads-th token.                                        *)
Better(p, a, b) == p[a] > p[b] \/ (p[a] = p[b] /\ a < b)
Mine(p, threads, t) == {i \in Tokens(p) : i % threads = t}
Likeliest(p, set) == {i \in set : \A j \in set : p[i] >= p[j]}

GreedyUnstable(p, threads) ==                                 \* a fault
  LET busy == {t \in 0 .. threads - 1 : Mine(p, threads, t) # {}}
      bests == {Max(Likeliest(p, Mine(p, threads, t))) : t \in busy}
  IN CHOOSE i \in bests : \A j \in bests \ {i} : Better(p, i, j)
Greedy(p, threads) ==
  LET busy == {t \in 0 .. threads - 1 : Mine(p, threads, t) # {}}
      bests == {Min(Likeliest(p, Mine(p, threads, t))) : t \in busy}
  IN CHOOSE i \in bests : \A j \in bests \ {i} : Better(p, i, j)

-----------------------------------------------------------------------------
AskSample ==
  \E p \in Weights, topK \in TopKs, minP \in MinPs, topP \in TopPs :
    asked' = [op |-> "sample", p |-> p, topK |-> topK, minP |-> minP, topP |-> topP]

SamplerSpec == Init /\ [][Ask /\ AskSample]_asked

(* The draw of k_select is fair: of all the values the random number can   *)
(* take, each survivor gets as many as its share of the mass, but for one  *)
(* value at most, and no other token gets any. Only the value 0 can pick a *)
(* survivor without weight: the comparison is >=, and 0 is reached at once.*)
DrawsInProportion ==
  Is("sample") =>
    LET p == asked.p
        cut == Cut(p, asked.topK, asked.minP, asked.topP)
        kept == AtLeast(p, cut)
        mass == MassOf(p, kept)
        drawn(i) == {r \in Randoms : Draw(p, cut, r) = i}
    IN /\ \A i \in kept :
            /\ mass * Cardinality(drawn(i)) - p[i] * Resolution \in -mass .. mass
            /\ p[i] = 0 => drawn(i) \subseteq {0}
       /\ \A i \in Tokens(p) \ kept : drawn(i) = {}

(* At temperature 0 the token is the first of the most likely ones,        *)
(* however the vocabulary is spread over threads: a tie goes to the lower  *)
(* index in each thread's stripe and at every level of the reduction.      *)
GreedyIsFirst ==
  Is("sample") =>
    \A threads \in ThreadCounts :
      Greedy(asked.p, threads) = Min(Likeliest(asked.p, Tokens(asked.p)))

Lightest(p, set) == {i \in set : \A j \in set : p[i] <= p[j]}

(* top_p keeps the smallest set of most likely tokens whose mass covers    *)
(* it (sampling.cu:163), unless top_k and min_p have left less: without    *)
(* the lightest of what is kept it would not be covered. The bisection     *)
(* never tries One itself, so that tokens within its resolution of the     *)
(* likeliest are kept with it.                                             *)
NucleusIsSmallest ==
  Is("sample") /\ asked.topP < 10 =>
    LET p == asked.p
        first == AtLeast(p, FirstCut(p, asked.topK, asked.minP))
        kept == AtLeast(p, Cut(p, asked.topK, asked.minP, asked.topP))
    IN IF Covers(p, first, asked.topP)
       THEN /\ kept \subseteq first /\ Covers(p, kept, asked.topP)
            /\ \/ ~Covers(p, kept \ Lightest(p, kept), asked.topP)
               \/ \A i \in kept : p[i] >= One - 1
       ELSE kept = first

(* sampling.cu:82 says that top_k bisects "until the number of survivors   *)
(* is <= k"; server.cpp:248 takes top_k = 1 for greedy. Distinct weights   *)
(* can be told apart.                                                      *)
TopKHolds ==
  Is("sample") /\ asked.topK > 0 /\ IsInjective(asked.p) =>
    Cardinality(AtLeast(asked.p, TopKCut(asked.p, asked.topK))) <= asked.topK
===============================================================================
