--------------------------- MODULE DraftCache_proofs ---------------------------
(***************************************************************************)
(* Why the drafter's cache never aborts the server, never overflows and    *)
(* never loses a row a block could see, for every window, block, chunk and *)
(* context length that DraftCacheAssumption admits.                        *)
(*                                                                         *)
(* The argument: taps are pushed from the first position a block can see,  *)
(* and less than Window of them come from the prompt, so prefill never     *)
(* compacts; from then on each round finds the cache ending at pos, and    *)
(* compaction keeps Window - 1 rows, which leaves room for a prefix and a  *)
(* block because two blocks fit in Window + 1. A compaction drops so much  *)
(* that at most n + Block - 3 of the kept rows are both read and written   *)
(* by it, n being what is pushed: these are the oldest, and once the n     *)
(* rows are in, only Block - 3 of them are still in a block's sight.       *)
(***************************************************************************)
EXTENDS DraftCache, NaturalsInduction, WellFoundedInduction, TLAPS

(* Where the request's context begins, and how much of the prompt it is. *)
RequestShape ==
  phase \in {"prefill", "decode"} =>
    /\ first >= WindowFloor(promptLen)
    /\ first < promptLen
    /\ promptLen - first < Window

(* What has been pushed while the prompt is being prefilled. *)
PrefillShape ==
  phase = "prefill" =>
    /\ pos <= promptLen
    /\ pos < first => first = WindowFloor(promptLen)
    /\ cacheLen = IF pos <= first THEN 0 ELSE pos - first
    /\ cacheLen > 0 => cachePos0 = first

(* What the cache covers between rounds. *)
DecodeShape ==
  phase = "decode" =>
    /\ cacheLen > 0
    /\ cachePos0 + cacheLen = pos
    /\ cachePos0 <= first \/ cacheLen + 1 >= Window

IInv ==
  /\ TypeOK
  /\ NeverAborts
  /\ CacheFits
  /\ RequestShape
  /\ PrefillShape
  /\ DecodeShape
  /\ RowsTrue

-----------------------------------------------------------------------------
(* The kept rows fit before n rows and a block, whatever the cache held,   *)
(* and few of them are overwritten by the copy that moves them.            *)
LEMMA KeptBounds ==
  ASSUME TypeOK, CacheFits, NEW n \in 1 .. Block
  PROVE  /\ Kept(n) \in Nat
         /\ Dropped(n) \in Nat
         /\ Kept(n) + Dropped(n) = cacheLen
         /\ Kept(n) + n + Block <= Cap
         /\ \/ Dropped(n) = 0
            \/ Kept(n) = Window - 1 /\ Kept(n) - Dropped(n) <= n + Block - 3
BY DraftCacheAssumption, SMT
   DEF TypeOK, CacheFits, Kept, Dropped, Overfull, Smaller, Cap

LEMMA LeastIn ==
  ASSUME NEW S, S \subseteq Nat, S # {}
  PROVE  Min(S) \in S /\ \A k \in S : Min(S) <= k
<1>1. PICK m \in S : \A k \in S : m <= k
  <2> DEFINE R == OpToRel(<, Nat)
  <2>1. IsWellFoundedOn(R, Nat)
    BY NatLessThanWellFounded
  <2>2. \A k, m \in Nat : k < m => <<k, m>> \in R
    BY DEF OpToRel
  <2> HIDE DEF R
  <2>3. PICK m \in S : \A k \in S : ~ (<<k, m>> \in R)
    BY <2>1, WFMin
  <2>4. ASSUME NEW k \in S PROVE m <= k
    <3>1. m \in Nat /\ k \in Nat
      OBVIOUS
    <3>2. ~ (k < m)
      BY <2>2, <2>3, <3>1
    <3> QED BY <3>1, <3>2
  <2> QED BY <2>4
<1> QED BY <1>1 DEF Min

(* Where a kept row comes from: never from before its own source, never    *)
(* from behind the last row, and from its own source when no other row of  *)
(* the copy is written there.                                              *)
LEMMA MoveIs ==
  ASSUME NEW keep \in Nat, NEW drop \in Nat, NEW src \in Moves(keep, drop),
         NEW k \in 1 .. keep
  PROVE  /\ src[k] \in k + drop .. keep + drop
         /\ drop = 0 \/ k > keep - drop => src[k] = k + drop
<1> DEFINE overlap == IF drop = 0 THEN {} ELSE 1 .. keep - drop
<1>1. PICK late \in SUBSET overlap :
        src = [j \in 1 .. keep |->
                 j + Min({m \in 1 .. keep : j + (m - 1) * drop \notin late}) * drop]
  BY DEF Moves
<1> DEFINE S == {m \in 1 .. keep : k + (m - 1) * drop \notin late}
           m == Min(S)
<1>2. src[k] = k + m * drop
  BY <1>1
<1>3. k \in Nat /\ keep \in Nat \ {0} /\ k >= 1 /\ k <= keep
  OBVIOUS
<1>4. \A x \in late : drop # 0 /\ x \in 1 .. keep - drop
  OBVIOUS
<1>5. keep \in S
  <2> SUFFICES ASSUME k + (keep - 1) * drop \in late PROVE FALSE
    BY <1>3
  <2>1. drop \in Nat \ {0} /\ k + (keep - 1) * drop <= keep - drop
    BY <1>4
  <2>2. \A x \in Nat, y \in Nat \ {0} : x * y >= x
    <3> SUFFICES ASSUME NEW x \in Nat, NEW y \in Nat \ {0} PROVE x * y >= x
      OBVIOUS
    <3>1. y - 1 \in Nat /\ x * (y - 1) \in Nat
      OBVIOUS
    <3>2. x * y = x * (y - 1) + x
      OBVIOUS
    <3> QED BY <3>1, <3>2
  <2>3. keep - 1 \in Nat
    BY <1>3
  <2>4. (keep - 1) * drop >= keep - 1 /\ (keep - 1) * drop \in Nat
    BY <2>1, <2>2, <2>3
  <2> HIDE DEF S
  <2> QED BY <1>3, <2>1, <2>4
<1>6. m \in S /\ \A j \in S : m <= j
  <2>1. S \subseteq Nat
    <3>1. S \subseteq 1 .. keep
      BY Zenon
    <3> HIDE DEF S
    <3> QED BY <3>1
  <2> HIDE DEF S
  <2>2. S # {}
    BY <1>5
  <2> QED BY <2>1, <2>2, LeastIn
<1> HIDE DEF m
<1>7. m \in 1 .. keep /\ m \in Nat
  BY <1>6
<1>8. m = 1 \/ k + (m - 2) * drop \in late
  <2> SUFFICES ASSUME m # 1 PROVE k + (m - 2) * drop \in late
    OBVIOUS
  <2>1. m - 1 \in 1 .. keep /\ ~ (m <= m - 1) /\ (m - 1) - 1 = m - 2
    BY <1>3, <1>7
  <2>2. m - 1 \notin S
    BY <1>6, <2>1
  <2> QED BY <2>1, <2>2
<1> HIDE DEF S, overlap
<1>9. CASE m = 1
  <2>1. src[k] = k + drop
    BY <1>2, <1>9
  <2> QED BY <1>3, <2>1
<1>10. CASE m # 1
  <2>1. drop # 0 /\ k + (m - 2) * drop <= keep - drop
    BY <1>4, <1>8, <1>10
  <2>2. m - 2 \in Nat
    BY <1>7, <1>10
  <2> DEFINE a == (m - 2) * drop
  <2>3. a \in Nat /\ m * drop = a + 2 * drop
    <3>1. \A c \in Nat : c * drop \in Nat /\ (c + 2) * drop = c * drop + 2 * drop
      OBVIOUS
    <3>2. (m - 2) + 2 = m
      BY <1>7
    <3> QED BY <2>2, <3>1, <3>2
  <2> HIDE DEF a
  <2>4. k + a <= keep - drop
    BY <2>1 DEF a
  <2>5. src[k] = k + a + 2 * drop
    BY <1>2, <1>3, <2>3
  <2> QED BY <1>3, <2>1, <2>3, <2>4, <2>5
<1> QED BY <1>9, <1>10

(* Pushing keeps the rows a function over the whole cache. *)
LEMMA RowsTyped ==
  ASSUME NEW n \in Nat, NEW p \in Nat, NEW keep \in Nat, NEW drop \in Nat,
         keep + drop <= Cap,
         NEW rs \in [1 .. Cap -> Nat \cup {Noise}],
         NEW src \in Moves(keep, drop)
  PROVE  Appended(rs, src, keep, n, p) \in [1 .. Cap -> Nat \cup {Noise}]
<1> SUFFICES ASSUME NEW k \in 1 .. Cap
             PROVE  (IF k <= keep THEN rs[src[k]]
                     ELSE IF k <= keep + n THEN p + (k - keep - 1)
                     ELSE rs[k]) \in Nat \cup {Noise}
  BY DEF Appended
<1>0. Cap \in Nat
  BY DraftCacheAssumption DEF Cap
<1>1. CASE k <= keep
  <2>1. k \in 1 .. keep
    BY <1>0, <1>1
  <2>2. src[k] \in k + drop .. keep + drop
    BY <2>1, MoveIs
  <2>3. src[k] \in 1 .. Cap
    BY <1>0, <2>1, <2>2
  <2> QED
    BY <1>1, <2>3
<1>2. CASE ~ (k <= keep) /\ k <= keep + n
  BY <1>0, <1>2
<1>3. CASE ~ (k <= keep) /\ ~ (k <= keep + n)
  BY <1>3
<1> QED
  BY <1>1, <1>2, <1>3

(* A push that drops nothing, or that drops enough, leaves every row as    *)
(* RowsTrue wants it.                                                      *)
LEMMA PushedRows ==
  ASSUME NEW n \in 1 .. MaxRows, NEW p \in Nat, NEW keep \in Nat, NEW drop \in Nat,
         TypeOK, RowsTrue, Continues(p),
         keep = Kept(n), drop = Dropped(n), keep + drop = cacheLen, cacheLen <= Cap,
         drop = 0 \/ (keep = Window - 1 /\ keep - drop <= n + Block - 3),
         NEW rs, \A k \in 1 .. Cap : k <= cacheLen => rs[k] = rows[k],
         Push(n, p, rs)
  PROVE  RowsTrue'
<1> USE DraftCacheAssumption
<1>0. n \in Nat /\ n > 0 /\ n <= MaxRows /\ ~ (n = 0) /\ Cap \in Nat
  BY DEF Cap
<1>1. /\ cacheLen' = keep + n
      /\ cachePos0' = (IF cacheLen = 0 THEN p ELSE cachePos0) + drop
  BY <1>0 DEF Push
<1>2. PICK src \in Moves(keep, drop) : rows' = Appended(rs, src, keep, n, p)
  BY <1>0 DEF Push
<1>3. /\ cacheLen \in Nat /\ cachePos0 \in Nat
      /\ cachePos0' \in Nat
      /\ p = cachePos0' + keep
  <2>1. cacheLen \in Nat /\ cachePos0 \in Nat
    BY DEF TypeOK
  <2>2. CASE cacheLen = 0
    <3>1. keep = 0 /\ drop = 0
      BY <2>2
    <3> QED BY <1>1, <2>1, <2>2, <3>1
  <2>3. CASE cacheLen # 0
    <3>1. cachePos0' = cachePos0 + drop /\ p = cachePos0 + cacheLen
      BY <1>1, <2>3 DEF Continues
    <3> QED BY <2>1, <3>1
  <2> QED BY <2>2, <2>3
<1> SUFFICES ASSUME NEW k \in 1 .. Cap, k <= cacheLen'
             PROVE  LET q == cachePos0' + (k - 1)
                        end == cachePos0' + cacheLen'
                    IN /\ rows'[k] \in q .. end - 1
                       /\ end - q < Window - (Block - 3) => rows'[k] = q
  BY DEF RowsTrue, Cap
<1> DEFINE q == cachePos0' + (k - 1)
           end == cachePos0' + cacheLen'
<1>4. rows'[k] = IF k <= keep THEN rs[src[k]]
                 ELSE IF k <= keep + n THEN p + (k - keep - 1)
                 ELSE rs[k]
  BY <1>2 DEF Appended
<1>5. CASE k <= keep
  <2> DEFINE j == src[k]
             was == cachePos0 + (j - 1)
             stop == cachePos0 + cacheLen
  <2>1. k \in 1 .. keep
    BY <1>0, <1>5
  <2>2. /\ j \in k + drop .. keep + drop
        /\ drop = 0 \/ k > keep - drop => j = k + drop
    BY <2>1, MoveIs
  <2> HIDE DEF j
  <2>3. j \in 1 .. Cap /\ j <= cacheLen /\ cacheLen # 0
    BY <1>0, <1>3, <2>1, <2>2
  <2>4. /\ rs[j] \in was .. stop - 1
        /\ stop - was < Window - (Block - 3) => rs[j] = was
    BY <2>3 DEF RowsTrue
  <2>5. rows'[k] = rs[j]
    BY <1>4, <1>5 DEF j
  <2>6. was >= q /\ stop = p /\ end = p + n
    BY <1>0, <1>1, <1>3, <2>1, <2>2, <2>3
  <2>7. rows'[k] \in q .. end - 1
    <3>1. was \in Int /\ stop \in Int /\ q \in Int /\ end \in Int
      BY <1>0, <1>1, <1>3, <2>2, <2>1
    <3> HIDE DEF was, stop, q, end
    <3> QED BY <1>0, <2>4, <2>5, <2>6, <3>1
  <2>8. ASSUME end - q < Window - (Block - 3)
        PROVE  rows'[k] = q
    <3>1. drop = 0 \/ k > keep - drop
      BY <1>0, <1>1, <1>3, <2>1, <2>8
    <3>2. j = k + drop
      BY <2>2, <3>1
    <3>3. was = q
      BY <1>1, <1>3, <2>1, <2>3, <3>2
    <3>4. stop - was < Window - (Block - 3)
      BY <1>0, <1>1, <1>3, <2>1, <2>6, <2>8, <3>3
    <3> QED BY <2>4, <2>5, <3>3, <3>4
  <2> QED
    BY <2>7, <2>8
<1>6. CASE ~ (k <= keep)
  <2>1. k \in Nat /\ k <= keep + n
    BY <1>0, <1>1
  <2>2. rows'[k] = q
    BY <1>0, <1>3, <1>4, <1>6, <2>1
  <2>3. q <= end - 1 /\ q \in Int /\ end \in Int
    BY <1>0, <1>1, <1>3, <2>1
  <2> QED
    BY <2>2, <2>3
<1> QED
  BY <1>5, <1>6

-----------------------------------------------------------------------------
LEMMA InitIInv == Init => IInv
<1> SUFFICES ASSUME Init
             PROVE  IInv
  OBVIOUS
<1> USE DraftCacheAssumption
<1>1. TypeOK
  <2>1. rows \in [1 .. Cap -> Nat \cup {Noise}]
    BY DEF Init
  <2>2. aborted \in BOOLEAN
    BY DEF Init
  <2> QED
    BY <2>1, <2>2 DEF Init, TypeOK
<1>2. NeverAborts /\ CacheFits
  BY DEF Init, NeverAborts, CacheFits, Cap
<1>3. RequestShape /\ PrefillShape /\ DecodeShape
  BY DEF Init, RequestShape, PrefillShape, DecodeShape
<1>4. RowsTrue
  BY DEF Init, RowsTrue, Cap
<1> QED
  BY <1>1, <1>2, <1>3, <1>4 DEF IInv

LEMMA StartKeeps == IInv /\ Start => IInv'
<1> SUFFICES ASSUME IInv, Start
             PROVE  IInv'
  OBVIOUS
<1> USE DraftCacheAssumption
<1>0. PICK n \in 1 .. MaxCtx : \E reuse \in 0 .. n - 1 :
        /\ promptLen' = n
        /\ first' = Larger(reuse, WindowFloor(n))
        /\ pos' = reuse
  BY DEF Start
<1>1. PICK reuse \in 0 .. n - 1 :
        /\ promptLen' = n
        /\ first' = Larger(reuse, WindowFloor(n))
        /\ pos' = reuse
  BY <1>0
<1>2. /\ n \in Nat /\ reuse \in Nat /\ reuse < n
      /\ WindowFloor(n) \in Nat /\ first' \in Nat
      /\ first' >= WindowFloor(n) /\ first' < n /\ n - first' < Window
      /\ reuse <= first'
      /\ reuse < first' => first' = WindowFloor(n)
  BY <1>1 DEF Larger, WindowFloor
<1>3. TypeOK'
  BY <1>1, <1>2 DEF IInv, TypeOK, Start
<1>4. NeverAborts' /\ CacheFits'
  BY DEF IInv, NeverAborts, CacheFits, Start, Cap
<1>5. RequestShape' /\ PrefillShape' /\ DecodeShape'
  BY <1>1, <1>2 DEF Start, RequestShape, PrefillShape, DecodeShape, WindowFloor
<1>6. RowsTrue'
  BY DEF Start, RowsTrue, Cap
<1> QED
  BY <1>3, <1>4, <1>5, <1>6 DEF IInv

(* During prefill nothing is ever compacted. *)
LEMMA PrefillChunkKeeps == IInv /\ PrefillChunk => IInv'
<1> SUFFICES ASSUME IInv, PrefillChunk
             PROVE  IInv'
  OBVIOUS
<1> USE DraftCacheAssumption
<1> DEFINE n == Smaller(MaxBatch, promptLen - pos)
           floor == WindowFloor(promptLen)
           skip == IF pos < floor THEN Smaller(n, floor - pos) ELSE 0
           m == n - skip
           p == pos + skip
<1>0. /\ phase = "prefill" /\ pos < promptLen
      /\ Push(m, p, rows)
      /\ pos' = pos + n
      /\ UNCHANGED <<phase, promptLen, first, served>>
  BY DEF PrefillChunk
<1>1. /\ promptLen \in Nat /\ first \in Nat /\ pos \in Nat
      /\ cacheLen \in Nat /\ cachePos0 \in Nat
      /\ n \in 1 .. MaxBatch /\ pos + n <= promptLen
      /\ floor \in Nat /\ floor <= first
      /\ first < promptLen /\ promptLen - first < Window
      /\ pos < first => first = floor
      /\ cacheLen = IF pos <= first THEN 0 ELSE pos - first
      /\ cacheLen > 0 => cachePos0 = first
  <2> HIDE DEF skip, m, p
  <2> QED
    BY <1>0 DEF IInv, TypeOK, RequestShape, PrefillShape, Smaller, WindowFloor
<1> HIDE DEF n, floor
<1>2. /\ skip \in Nat /\ m \in Nat /\ p \in Nat
      /\ m <= MaxRows
      /\ p + m = pos + n
      /\ m > 0 => p = IF pos <= first THEN first ELSE pos
      /\ m = 0 => pos + n <= first
  BY <1>1 DEF Smaller
<1> HIDE DEF skip, m, p
<1>3. m > 0 => Continues(p) /\ cacheLen + m = pos + n - first
  BY <1>1, <1>2 DEF Continues
<1>4. m > 0 => ~ Overfull(m)
  BY <1>1, <1>2, <1>3 DEF Overfull, Cap
<1>5. m > 0 => Kept(m) = cacheLen /\ Dropped(m) = 0
  BY <1>1, <1>4 DEF Kept, Dropped
<1>6. /\ aborted' = FALSE
      /\ cacheLen' = IF m = 0 THEN cacheLen ELSE cacheLen + m
      /\ cachePos0' = IF m > 0 /\ cacheLen = 0 THEN p ELSE cachePos0
  <2>1. aborted = FALSE
    BY DEF IInv, TypeOK, NeverAborts
  <2>2. CASE m = 0
    <3>1. /\ cacheLen' = cacheLen
          /\ cachePos0' = cachePos0
          /\ aborted' = aborted
      BY <1>0, <2>2 DEF Push
    <3> QED
      BY <2>1, <2>2, <3>1
  <2>3. CASE m > 0
    <3>1. m \in 1 .. MaxRows /\ Continues(p) /\ ~ (m = 0)
      BY <1>2, <1>3, <2>3
    <3>2. /\ cacheLen' = Kept(m) + m
          /\ cachePos0' = (IF cacheLen = 0 THEN p ELSE cachePos0) + Dropped(m)
          /\ aborted' = aborted
      BY <1>0, <1>2, <3>1 DEF Push
    <3> QED
      BY <1>1, <1>2, <1>5, <2>1, <2>3, <3>2
  <2>4. m = 0 \/ m > 0
    BY <1>2
  <2> QED
    BY <2>2, <2>3, <2>4, Zenon
<1>7. rows' \in [1 .. Cap -> Nat \cup {Noise}]
  <2>1. CASE m = 0
    BY <1>0, <1>2, <2>1 DEF Push, IInv, TypeOK
  <2>2. CASE m > 0
    <3>1. PICK src \in Moves(cacheLen, 0) : rows' = Appended(rows, src, cacheLen, m, p)
      BY <1>0, <1>2, <1>3, <1>5, <2>2 DEF Push
    <3>2. cacheLen + 0 <= Cap
      BY <1>1 DEF IInv, CacheFits, Cap
    <3>3. rows \in [1 .. Cap -> Nat \cup {Noise}]
      BY DEF IInv, TypeOK
    <3> QED
      BY <1>1, <1>2, <3>1, <3>2, <3>3, RowsTyped
  <2> QED
    BY <1>2, <2>1, <2>2
<1>8. TypeOK'
  <2>1. aborted' \in BOOLEAN
    BY <1>6
  <2>2. cacheLen' \in Nat /\ cachePos0' \in Nat
    BY <1>1, <1>2, <1>6
  <2> QED
    BY <1>0, <1>1, <1>7, <2>1, <2>2 DEF IInv, TypeOK
<1>9. NeverAborts' /\ CacheFits'
  BY <1>1, <1>2, <1>3, <1>6 DEF NeverAborts, CacheFits, Cap
<1>10. RequestShape' /\ DecodeShape'
  BY <1>0 DEF IInv, RequestShape, DecodeShape, WindowFloor
<1>11. PrefillShape'
  BY <1>0, <1>1, <1>2, <1>3, <1>6 DEF PrefillShape, floor, WindowFloor
<1>12. RowsTrue'
  <2>1. TypeOK /\ RowsTrue /\ cacheLen <= Cap
    BY <1>1 DEF IInv, CacheFits, Cap
  <2>2. CASE m = 0
    <3>1. rows' = rows /\ cacheLen' = cacheLen /\ cachePos0' = cachePos0
      BY <1>0, <2>2 DEF Push
    <3> QED
      BY <2>1, <3>1 DEF RowsTrue, Cap
  <2>3. CASE m > 0
    <3>1. m \in 1 .. MaxRows /\ Continues(p)
      BY <1>2, <1>3, <2>3
    <3> QED
      BY <1>0, <1>1, <1>2, <1>5, <2>1, <2>3, <3>1, PushedRows
  <2> QED
    BY <1>2, <2>2, <2>3
<1> QED
  BY <1>8, <1>9, <1>10, <1>11, <1>12 DEF IInv

LEMMA EndPrefillKeeps == IInv /\ EndPrefill => IInv'
<1> SUFFICES ASSUME IInv, EndPrefill
             PROVE  IInv'
  OBVIOUS
<1> USE DraftCacheAssumption
<1>1. TypeOK' /\ NeverAborts' /\ CacheFits'
  BY DEF IInv, EndPrefill, TypeOK, NeverAborts, CacheFits, draftVars, Cap
<1>2. RequestShape' /\ PrefillShape' /\ DecodeShape'
  BY DEF IInv, EndPrefill, TypeOK, RequestShape, PrefillShape, DecodeShape,
         draftVars, WindowFloor
<1>3. RowsTrue'
  BY DEF IInv, EndPrefill, RowsTrue, draftVars, Cap
<1> QED
  BY <1>1, <1>2, <1>3 DEF IInv

LEMMA RoundKeeps == IInv /\ Round => IInv'
<1> SUFFICES ASSUME IInv, Round
             PROVE  IInv'
  OBVIOUS
<1> USE DraftCacheAssumption
<1> DEFINE rs == [k \in 1 .. Cap |->
                    IF k - cacheLen \in 1 .. Block THEN Noise ELSE rows[k]]
<1>1. PICK n \in 1 .. Block : Push(n, pos, rs) /\ pos' = pos + n
  BY DEF Round, IInv, DecodeShape
<1>2. /\ phase = "decode"
      /\ UNCHANGED <<phase, promptLen, first, served>>
  BY DEF Round
<1>3. /\ cacheLen \in Nat /\ cachePos0 \in Nat /\ pos \in Nat /\ n \in Nat
      /\ cacheLen > 0 /\ cachePos0 + cacheLen = pos
      /\ first \in Nat
      /\ cachePos0 <= first \/ cacheLen + 1 >= Window
      /\ cacheLen + Block <= Cap
  BY <1>2 DEF IInv, TypeOK, DecodeShape, CacheFits
<1>4. /\ Kept(n) \in Nat
      /\ Dropped(n) \in Nat
      /\ Kept(n) + Dropped(n) = cacheLen
      /\ Kept(n) + n + Block <= Cap
      /\ \/ Dropped(n) = 0
         \/ Kept(n) = Window - 1 /\ Kept(n) - Dropped(n) <= n + Block - 3
  BY KeptBounds DEF IInv
<1> HIDE DEF rs
<1>5. /\ n > 0 /\ n <= MaxRows
      /\ Continues(pos)
  BY <1>3 DEF Continues
<1>6. /\ cacheLen' = Kept(n) + n
      /\ cachePos0' = cachePos0 + Dropped(n)
      /\ aborted' = FALSE
  <2>1. aborted = FALSE
    BY DEF IInv, TypeOK, NeverAborts
  <2>2. n \in 1 .. MaxRows /\ ~ (n = 0)
    BY <1>3, <1>5
  <2>3. /\ cacheLen' = Kept(n) + n
        /\ cachePos0' = (IF cacheLen = 0 THEN pos ELSE cachePos0) + Dropped(n)
        /\ aborted' = aborted
    BY <1>1, <1>5, <2>2 DEF Push
  <2> QED
    BY <1>3, <2>1, <2>3
<1>7. rows' \in [1 .. Cap -> Nat \cup {Noise}]
  <2>1. PICK src \in Moves(Kept(n), Dropped(n)) :
          rows' = Appended(rs, src, Kept(n), n, pos)
    BY <1>1, <1>5 DEF Push
  <2>2. rs \in [1 .. Cap -> Nat \cup {Noise}]
    BY DEF IInv, TypeOK, rs
  <2>3. Kept(n) + Dropped(n) <= Cap
    BY <1>3, <1>4 DEF IInv, Cap
  <2> QED
    BY <1>3, <1>4, <2>1, <2>2, <2>3, RowsTyped
<1>8. TypeOK'
  <2>1. aborted' \in BOOLEAN
    BY <1>6
  <2>2. cacheLen' \in Nat /\ cachePos0' \in Nat /\ pos' \in Nat
    BY <1>1, <1>3, <1>4, <1>6
  <2> QED
    BY <1>2, <1>7, <2>1, <2>2 DEF IInv, TypeOK
<1>9. NeverAborts' /\ CacheFits'
  BY <1>4, <1>6 DEF NeverAborts, CacheFits, Cap
<1>10. RequestShape' /\ PrefillShape'
  BY <1>2 DEF IInv, RequestShape, PrefillShape, WindowFloor
<1>11. DecodeShape'
  BY <1>1, <1>2, <1>3, <1>4, <1>6 DEF DecodeShape
<1>12. RowsTrue'
  <2>1. TypeOK /\ RowsTrue /\ cacheLen <= Cap
    BY <1>3 DEF IInv, Cap
  <2>2. \A k \in 1 .. Cap : k <= cacheLen => rs[k] = rows[k]
    BY <1>3 DEF rs, Cap
  <2>3. n \in 1 .. MaxRows
    BY <1>3, <1>5
  <2> DEFINE keep == Kept(n)
             drop == Dropped(n)
  <2>4. /\ keep \in Nat /\ drop \in Nat /\ keep + drop = cacheLen
        /\ drop = 0 \/ (keep = Window - 1 /\ keep - drop <= n + Block - 3)
    BY <1>4
  <2>5. pos \in Nat /\ Continues(pos) /\ Push(n, pos, rs)
    BY <1>1, <1>3, <1>5, Zenon
  <2>6. keep = Kept(n) /\ drop = Dropped(n)
    OBVIOUS
  <2> HIDE DEF keep, drop
  <2> QED
    BY <2>1, <2>2, <2>3, <2>4, <2>5, <2>6, PushedRows
<1> QED
  BY <1>8, <1>9, <1>10, <1>11, <1>12 DEF IInv

LEMMA LeaveKeeps == IInv /\ Leave => IInv'
BY DEF IInv, Leave, TypeOK, NeverAborts, CacheFits, RequestShape, PrefillShape,
       DecodeShape, RowsTrue, draftVars, Cap

-----------------------------------------------------------------------------
(* IInv is an invariant of every behaviour of the drafter's cache. *)
THEOREM Invariance == Spec => []IInv
<1>1. IInv /\ [Next]_vars => IInv'
  <2> SUFFICES ASSUME IInv, [Next]_vars
               PROVE  IInv'
    OBVIOUS
  <2>1. CASE UNCHANGED vars
    BY <2>1 DEF vars, draftVars, requestVars, IInv, TypeOK, NeverAborts, CacheFits,
                RequestShape, PrefillShape, DecodeShape, RowsTrue, Cap,
                WindowFloor
  <2> QED
    BY <2>1, StartKeeps, PrefillChunkKeeps, EndPrefillKeeps, RoundKeeps, LeaveKeeps
       DEF Next
<1> QED
  BY InitIInv, <1>1, PTL DEF Spec

(* Every variable keeps its type. *)
THEOREM TypeCorrect == Spec => []TypeOK
<1>1. IInv => TypeOK
  BY DEF IInv
<1> QED
  BY Invariance, <1>1, PTL

(* draft_push and draft_block never abort the server, and rows and block   *)
(* never run past the end of the cache.                                    *)
THEOREM AlwaysFits == Spec => []RoundsFit
<1>1. IInv => RoundsFit
  BY DEF IInv, RoundsFit
<1> QED
  BY Invariance, <1>1, PTL

(* Compaction never drops a position that a block could still attend to. *)
THEOREM Covered == Spec => []WindowCovered
<1>1. IInv => WindowCovered
  <2> SUFFICES ASSUME IInv, phase = "decode",
                      NEW q \in first .. pos - 1, pos - q < Window
               PROVE  q \in cachePos0 .. cachePos0 + cacheLen - 1
    BY DEF WindowCovered
  <2> QED
    BY DraftCacheAssumption DEF IInv, TypeOK, DecodeShape
<1> QED
  BY Invariance, <1>1, PTL

(* Every committed row holds its own position or a later one of the same   *)
(* request, and its own unless it is one of the Block - 3 rows at the edge *)
(* of the window, whatever the device makes of overlapping copies.         *)
THEOREM RowsHold == Spec => []RowsTrue
<1>1. IInv => RowsTrue
  BY DEF IInv
<1> QED
  BY Invariance, <1>1, PTL
=============================================================================
