--------------------------- MODULE AnswerText_proofs ---------------------------
(***************************************************************************)
(* Proofs about AnswerText, for every set of tags, stop strings, texts a   *)
(* token may have and length of an answer.                                 *)
(*                                                                         *)
(* What the splitter has put out, with what its buffer holds, is a place   *)
(* in the reading of the whole text: from that place on, reading the       *)
(* buffer and whatever is still to come gives what reading the whole text  *)
(* gives (AsWhole). So a call of the splitter is right if it only reads on *)
(* from there, and it does: it takes no tag but the next one that counts,  *)
(* and releases no byte in which a tag could begin.                        *)
(*                                                                         *)
(* What goes out to a client follows from where whole characters end:      *)
(* around a tag they always do, for tags are made of characters of one     *)
(* byte (Along), and in front of each carry (Follows).                     *)
(*                                                                         *)
(* Loops and readings are functions of numbers; what they compute is shown *)
(* by induction over the set of numbers for which it holds (Induction).    *)
(***************************************************************************)
EXTENDS AnswerText, SequenceTheorems, WellFoundedInduction, TLAPS

-----------------------------------------------------------------------------
(* Induction, over sets of numbers.                                        *)
LEMMA Least ==
  ASSUME NEW S, S \subseteq Nat, S # {}
  PROVE  \E m \in S : \A k \in S : m <= k
<1> DEFINE R == OpToRel(<, Nat)
<1>1. IsWellFoundedOn(R, Nat)
  BY NatLessThanWellFounded
<1>2. \A y, x \in Nat : y < x => <<y, x>> \in R
  BY DEF OpToRel
<1> HIDE DEF R
<1>3. PICK x \in S : \A y \in S : ~ (<<y, x>> \in R)
  BY <1>1, WFMin
<1>4. ASSUME NEW y \in S PROVE x <= y
  <2>1. x \in Nat /\ y \in Nat
    OBVIOUS
  <2>2. ~ (y < x)
    BY <1>2, <1>3, <2>1
  <2> QED
    BY <2>1, <2>2
<1> QED BY <1>4

LEMMA Induction ==
  ASSUME NEW S, 0 \in S, \A n \in Nat : n \in S => n + 1 \in S
  PROVE  \A n \in Nat : n \in S
<1> SUFFICES ASSUME Nat \ S # {} PROVE FALSE
  OBVIOUS
<1>1. PICK m \in Nat \ S : \A k \in Nat \ S : m <= k
  BY Least
<1>2. m # 0 /\ m - 1 \in Nat
  BY <1>1
<1>3. m - 1 \in S
  BY <1>1, <1>2
<1> QED BY <1>1, <1>2, <1>3

(* Steps of F from x, n of them.                                           *)
Steps(S, F, x, n) ==
  {g \in [0 .. n -> S] : g[0] = x /\ \A k \in 1 .. n : g[k] = F[g[k - 1]]}

LEMMA StepsExist ==
  ASSUME NEW S, NEW F \in [S -> S], NEW x \in S, NEW N \in Nat
  PROVE  \E g \in Steps(S, F, x, N) : TRUE
<1> DEFINE P == {n \in Nat : \E g \in Steps(S, F, x, n) : TRUE}
<1>1. 0 \in P
  <2>1. [k \in 0 .. 0 |-> x] \in Steps(S, F, x, 0)
    BY DEF Steps
  <2> QED BY <2>1
<1>2. ASSUME NEW n \in Nat, n \in P PROVE n + 1 \in P
  <2>1. PICK g \in Steps(S, F, x, n) : TRUE
    BY <1>2
  <2>2. g \in [0 .. n -> S] /\ g[0] = x /\ \A k \in 1 .. n : g[k] = F[g[k - 1]]
    BY <2>1 DEF Steps
  <2> DEFINE h == [k \in 0 .. n + 1 |-> IF k = n + 1 THEN F[g[n]] ELSE g[k]]
  <2>3. h \in [0 .. n + 1 -> S]
    <3>1. \A k \in 0 .. n + 1 : k # n + 1 => k \in 0 .. n
      OBVIOUS
    <3>2. F[g[n]] \in S
      BY <2>2
    <3> QED BY <2>2, <3>1, <3>2
  <2>4. h[0] = x
    BY <2>2
  <2>5. ASSUME NEW k \in 1 .. n + 1 PROVE h[k] = F[h[k - 1]]
    <3>1. k - 1 \in 0 .. n /\ k \in 0 .. n + 1
      OBVIOUS
    <3>2. h[k - 1] = g[k - 1]
      BY <3>1
    <3>3. CASE k = n + 1
      BY <3>1, <3>2, <3>3
    <3>4. CASE k # n + 1
      <4>1. k \in 1 .. n
        BY <3>4
      <4> QED BY <2>2, <3>1, <3>2, <4>1, <3>4
    <3> QED BY <3>3, <3>4
  <2>6. h \in Steps(S, F, x, n + 1)
    <3> HIDE DEF h
    <3> QED BY <2>3, <2>4, <2>5 DEF Steps
  <2> QED BY <2>6
<1> HIDE DEF P
<1>3. N \in P
  BY <1>1, <1>2, Induction
<1> QED BY <1>3 DEF P

LEMMA StepsStay ==
  ASSUME NEW S, NEW F \in [S -> S], NEW x \in S, NEW N \in Nat,
         NEW g \in Steps(S, F, x, N),
         NEW P, x \in P, \A y \in S : y \in P => F[y] \in P
  PROVE  \A n \in 0 .. N : g[n] \in P
<1> DEFINE Q == {n \in Nat : n <= N => g[n] \in P}
<1>0. g \in [0 .. N -> S] /\ g[0] = x /\ \A k \in 1 .. N : g[k] = F[g[k - 1]]
  BY DEF Steps
<1>1. 0 \in Q
  BY <1>0
<1>2. ASSUME NEW n \in Nat, n \in Q PROVE n + 1 \in Q
  <2> SUFFICES ASSUME n + 1 <= N PROVE g[n + 1] \in P
    OBVIOUS
  <2>1. n \in 0 .. N /\ n + 1 \in 1 .. N /\ (n + 1) - 1 = n /\ n <= N
    OBVIOUS
  <2>2. g[n] \in P /\ g[n] \in S
    BY <1>0, <1>2, <2>1
  <2>3. g[n + 1] = F[g[n]]
    BY <1>0, <2>1
  <2> QED BY <2>2, <2>3
<1> HIDE DEF Q
<1>3. \A n \in Nat : n \in Q
  BY <1>1, <1>2, Induction
<1> QED BY <1>3 DEF Q

-----------------------------------------------------------------------------
Splitter == [buf : Text, think : BOOLEAN, tool : BOOLEAN, body : Text, calls : Seq(Text)]
Release == [splitter : Splitter, content : Text, reasoning : Text]

(* Places in a text.                                                       *)
LEMMA TagTypes ==
  /\ \A t \in Tags : t \in Text /\ Len(t) \in Nat \ {0}
  /\ ThinkOpen \in Tags /\ ThinkClose \in Tags /\ ToolOpen \in Tags /\ ToolClose \in Tags
<1>1. \A t \in Tags : t \in Seq(Byte) /\ t # <<>>
  BY TextAssumption
<1>2. \A t \in Seq(Byte) : t # <<>> => Len(t) \in Nat \ {0}
  BY EmptySeq, LenProperties
<1> QED BY <1>1, <1>2 DEF Tags, Text

LEMMA CutTypes ==
  ASSUME NEW B, NEW s \in Seq(B), NEW i \in 1 .. Len(s) + 1
  PROVE  /\ Before(s, i) \in Seq(B) /\ Len(Before(s, i)) = i - 1
         /\ \A k \in 1 .. i - 1 : Before(s, i)[k] = s[k]
         /\ From(s, i) \in Seq(B) /\ Len(From(s, i)) = (Len(s) + 1) - i
         /\ \A k \in 1 .. (Len(s) + 1) - i : From(s, i)[k] = s[(k + i) - 1]
         /\ Before(s, i) \o From(s, i) = s
<1> DEFINE n == Len(s)
<1>1. n \in Nat /\ \A k \in 1 .. n : s[k] \in B
  BY LenProperties, ElementOfSeq
<1> HIDE DEF n
<1>2. i \in 1 .. n + 1 /\ From(s, i) = SubSeq(s, i, n) /\ SubSeq(s, 1, n) = s
  BY SubSeqFull DEF n, From
<1>3. i \in Int /\ n \in Int /\ 1 \in Int /\ i - 1 \in Int
      /\ (\A k \in 1 .. i - 1 : s[k] \in B) /\ (\A k \in i .. n : s[k] \in B)
  <2>1. (\A k \in 1 .. i - 1 : k \in 1 .. n) /\ (\A k \in i .. n : k \in 1 .. n)
    BY <1>1, <1>2
  <2> QED BY <1>1, <1>2, <2>1
<1>4. /\ SubSeq(s, 1, i - 1) \in Seq(B)
      /\ Len(SubSeq(s, 1, i - 1)) = IF 1 <= i - 1 THEN ((i - 1) - 1) + 1 ELSE 0
      /\ \A k \in 1 .. ((i - 1) - 1) + 1 : SubSeq(s, 1, i - 1)[k] = s[(1 + k) - 1]
  BY <1>3, SubSeqProperties
<1>5. /\ SubSeq(s, i, n) \in Seq(B)
      /\ Len(SubSeq(s, i, n)) = IF i <= n THEN (n - i) + 1 ELSE 0
      /\ \A k \in 1 .. (n - i) + 1 : SubSeq(s, i, n)[k] = s[(i + k) - 1]
  BY <1>3, SubSeqProperties
<1>6. SubSeq(s, 1, i - 1) \o SubSeq(s, i, n) = s
  <2>1. /\ 1 \in 1 .. Len(s) + 1 /\ i - 1 \in 1 - 1 .. Len(s) /\ n \in i - 1 .. Len(s)
        /\ (i - 1) + 1 = i
    BY <1>1, <1>2 DEF n
  <2>2. SubSeq(s, 1, i - 1) \o SubSeq(s, (i - 1) + 1, n) = SubSeq(s, 1, n)
    BY <2>1, ConcatAdjacentSubSeq
  <2> QED BY <1>2, <2>1, <2>2
<1>7. /\ Before(s, i) = SubSeq(s, 1, i - 1)
      /\ Len(Before(s, i)) = i - 1
      /\ \A k \in 1 .. i - 1 : (1 + k) - 1 = k /\ k \in 1 .. ((i - 1) - 1) + 1
  BY <1>1, <1>2, <1>4 DEF Before
<1>8. /\ Len(From(s, i)) = (n + 1) - i
      /\ \A k \in 1 .. (n + 1) - i : (i + k) - 1 = (k + i) - 1 /\ k \in 1 .. (n - i) + 1
  BY <1>1, <1>2, <1>5
<1> QED BY <1>2, <1>4, <1>5, <1>6, <1>7, <1>8 DEF n

(* Text t stands at place i of s.                                          *)
Here(t, s, i) ==
  /\ i + Len(t) <= Len(s) + 1
  /\ \A k \in 1 .. Len(t) : s[(i + k) - 1] = t[k]

LEMMA SliceHere ==
  ASSUME NEW B, NEW s \in Seq(B), NEW t \in Seq(B), NEW i \in Nat \ {0},
         i + Len(t) <= Len(s) + 1
  PROVE  SubSeq(s, i, (i + Len(t)) - 1) = t <=> Here(t, s, i)
<1> DEFINE u == SubSeq(s, i, (i + Len(t)) - 1)
<1>1. Len(s) \in Nat /\ Len(t) \in Nat /\ \A k \in 1 .. Len(s) : s[k] \in B
  BY LenProperties, ElementOfSeq
<1>2. i \in Int /\ (i + Len(t)) - 1 \in Int /\ \A k \in i .. (i + Len(t)) - 1 : s[k] \in B
  <2>1. \A k \in i .. (i + Len(t)) - 1 : k \in 1 .. Len(s)
    BY <1>1
  <2> QED BY <1>1, <2>1
<1>3. /\ u \in Seq(B)
      /\ Len(u) = IF i <= (i + Len(t)) - 1 THEN (((i + Len(t)) - 1) - i) + 1 ELSE 0
      /\ \A k \in 1 .. (((i + Len(t)) - 1) - i) + 1 : u[k] = s[(i + k) - 1]
  BY <1>2, SubSeqProperties
<1>4. Len(u) = Len(t) /\ \A k \in 1 .. Len(t) : u[k] = s[(i + k) - 1]
  BY <1>1, <1>3
<1> HIDE DEF u
<1>5. (\A k \in 1 .. Len(t) : u[k] = t[k]) => u = t
  BY <1>3, <1>4, SeqEqual
<1>6. u = t <=> \A k \in 1 .. Len(t) : s[(i + k) - 1] = t[k]
  BY <1>4, <1>5
<1> QED BY <1>6 DEF Here, u

LEMMA PrefixHere ==
  ASSUME NEW B, NEW s \in Seq(B), NEW t \in Seq(B)
  PROVE  IsPrefix(t, s) <=> Here(t, s, 1)
<1>1. Len(s) \in Nat /\ Len(t) \in Nat /\ SubSeq(t, 1, Len(t)) = t
  BY LenProperties, SubSeqFull
<1>2. Len(t) <= Len(s) <=> 1 + Len(t) <= Len(s) + 1
  BY <1>1
<1>3. (1 + Len(t)) - 1 = Len(t) /\ 1 \in Nat \ {0}
  BY <1>1
<1>4. 1 + Len(t) <= Len(s) + 1 => (SubSeq(s, 1, Len(t)) = t <=> Here(t, s, 1))
  BY <1>3, SliceHere
<1> QED BY <1>1, <1>2, <1>4 DEF IsPrefix, Here

LEMMA Occurs ==
  ASSUME NEW B, NEW s \in Seq(B), NEW t \in Seq(B), NEW from \in Nat \ {0}
  PROVE  Occurrences(s, t, from) = {i \in Nat : from <= i /\ Here(t, s, i)}
<1>1. Len(s) \in Nat /\ Len(t) \in Nat
  BY LenProperties
<1>2. ASSUME NEW i \in Nat, from <= i, i + Len(t) <= Len(s) + 1
      PROVE  SubSeq(s, i, (i + Len(t)) - 1) = t <=> Here(t, s, i)
  <2>1. i \in Nat \ {0}
    BY <1>2
  <2> QED BY <1>2, <2>1, SliceHere
<1>3. \A i : i \in from .. (Len(s) + 1) - Len(t) <=>
             i \in Nat /\ from <= i /\ i + Len(t) <= Len(s) + 1
  BY <1>1
<1>4. \A i : Here(t, s, i) => i + Len(t) <= Len(s) + 1
  BY DEF Here
<1>5. Occurrences(s, t, from) =
        {i \in from .. (Len(s) + 1) - Len(t) : SubSeq(s, i, (i + Len(t)) - 1) = t}
  BY <1>1 DEF Occurrences
<1>6. \A i : i \in Occurrences(s, t, from) <=>
             i \in from .. (Len(s) + 1) - Len(t) /\ SubSeq(s, i, (i + Len(t)) - 1) = t
  BY <1>5
<1>7. \A i : i \in Occurrences(s, t, from) <=> i \in Nat /\ from <= i /\ Here(t, s, i)
  BY <1>2, <1>3, <1>4, <1>6
<1> QED BY <1>7

(* Find finds the first place of t behind `from`, or says that it has none.*)
LEMMA Finds ==
  ASSUME NEW B, NEW s \in Seq(B), NEW t \in Seq(B), NEW from \in Nat \ {0}
  PROVE  /\ Find(s, t, from) \in Nat
         /\ Find(s, t, from) = 0 => \A i \in Nat : from <= i => ~ Here(t, s, i)
         /\ Find(s, t, from) # 0 =>
              /\ from <= Find(s, t, from) /\ Here(t, s, Find(s, t, from))
              /\ \A i \in Nat : from <= i /\ Here(t, s, i) => Find(s, t, from) <= i
<1> DEFINE O == {i \in Nat : from <= i /\ Here(t, s, i)}
<1>0. Occurrences(s, t, from) = O
  BY Occurs
<1> HIDE DEF O
<1>1. Find(s, t, from) = IF O = {} THEN 0 ELSE Min(O)
  BY <1>0 DEF Find
<1>4. \A i : i \in O <=> i \in Nat /\ from <= i /\ Here(t, s, i)
  BY DEF O
<1>2. CASE O = {}
  BY <1>1, <1>2, <1>4
<1>3. CASE O # {}
  <2>0. O \subseteq Nat
    BY <1>4
  <2>1. PICK m \in O : \A k \in O : m <= k
    BY <1>3, <2>0, Least
  <2>2. Min(O) \in O /\ \A k \in O : Min(O) <= k
    BY <2>1 DEF Min
  <2> QED BY <1>1, <1>3, <1>4, <2>2
<1> QED BY <1>2, <1>3

-----------------------------------------------------------------------------
(* Characters.                                                             *)
LEMMA Bytes ==
  ASSUME NEW s \in Text
  PROVE  /\ Len(s) \in Nat
         /\ \A i \in 1 .. Len(s) : s[i] \in Byte /\ CharLen[s[i]] \in 0 .. 4
<1>1. s \in Seq(Byte) /\ CharLen \in [Byte -> 0 .. 4]
  BY TextAssumption DEF Text
<1> QED BY <1>1, LenProperties, ElementOfSeq

LEMMA Joined ==
  ASSUME NEW p \in Text, NEW q \in Text
  PROVE  /\ p \o q \in Text
         /\ Len(p \o q) = Len(p) + Len(q)
         /\ \A i \in 1 .. Len(p) : (p \o q)[i] = p[i]
         /\ \A i \in 1 .. Len(q) : (p \o q)[Len(p) + i] = q[i]
<1>1. p \in Seq(Byte) /\ q \in Seq(Byte) /\ Len(p) \in Nat /\ Len(q) \in Nat
  BY LenProperties DEF Text
<1>2. /\ p \o q \in Seq(Byte)
      /\ Len(p \o q) = Len(p) + Len(q)
      /\ \A i \in 1 .. Len(p) + Len(q) :
           (p \o q)[i] = IF i <= Len(p) THEN p[i] ELSE q[i - Len(p)]
  BY <1>1, ConcatProperties
<1>3. \A i \in 1 .. Len(p) : i \in 1 .. Len(p) + Len(q) /\ i <= Len(p)
  BY <1>1
<1>4. \A i \in 1 .. Len(q) : /\ Len(p) + i \in 1 .. Len(p) + Len(q)
                             /\ ~ (Len(p) + i <= Len(p))
                             /\ (Len(p) + i) - Len(p) = i
  BY <1>1
<1> QED BY <1>2, <1>3, <1>4 DEF Text

(* A byte that begins a character is in no other one.                      *)
LEMMA LeadAlone ==
  ASSUME NEW s \in Text, WellBegun(s), NEW l \in 1 .. Len(s), CharLen[s[l]] # 0
  PROVE  InChar(s, l, l)
<1>1. Len(s) \in Nat /\ \A i \in 1 .. Len(s) : CharLen[s[i]] \in 0 .. 4
  BY Bytes
<1>2. PICK m \in 1 .. l : InChar(s, l, m)
  BY DEF WellBegun
<1>3. m < l => CharLen[s[l]] = 0
  BY <1>1, <1>2 DEF InChar
<1>4. m = l
  BY <1>1, <1>2, <1>3
<1> QED BY <1>2, <1>4

LEMMA BeginsWell ==
  ASSUME NEW p \in Text, NEW q \in Text, WellBegun(p \o q)
  PROVE  WellBegun(p)
<1>1. /\ Len(p) \in Nat /\ Len(q) \in Nat /\ Len(p \o q) = Len(p) + Len(q)
      /\ \A i \in 1 .. Len(p) : (p \o q)[i] = p[i]
  BY Bytes, Joined
<1> SUFFICES ASSUME NEW i \in 1 .. Len(p) PROVE \E l \in 1 .. i : InChar(p, i, l)
  BY DEF WellBegun
<1>2. i \in 1 .. Len(p \o q)
  BY <1>1
<1>3. PICK l \in 1 .. i : InChar(p \o q, i, l)
  BY <1>2 DEF WellBegun
<1>4. l \in 1 .. Len(p) /\ \A j \in l + 1 .. Len(p) : j \in l + 1 .. Len(p \o q) /\ j \in 1 .. Len(p)
  BY <1>1
<1>5. InChar(p, i, l)
  BY <1>1, <1>3, <1>4 DEF InChar
<1> QED BY <1>5

(* Behind whole characters the next ones are read by themselves.           *)
LEMMA GoesOnWell ==
  ASSUME NEW p \in Text, NEW q \in Text, WellFormed(p)
  PROVE  /\ WellBegun(p \o q) <=> WellBegun(q)
         /\ WellFormed(p \o q) <=> WellFormed(q)
<1> DEFINE s == p \o q
<1>1. /\ Len(p) \in Nat /\ Len(q) \in Nat /\ Len(s) = Len(p) + Len(q)
      /\ \A i \in 1 .. Len(p) : s[i] = p[i]
      /\ \A i \in 1 .. Len(q) : s[Len(p) + i] = q[i]
      /\ \A i \in 1 .. Len(p) : CharLen[p[i]] \in 0 .. 4
      /\ \A i \in 1 .. Len(q) : CharLen[q[i]] \in 0 .. 4
  BY Bytes, Joined
<1>0. Len(p) \in Nat /\ Len(q) \in Nat /\ Len(s) = Len(p) + Len(q)
  BY <1>1
<1> HIDE DEF s
<1>2. WellBegun(p) /\ \A l \in 1 .. Len(p) : l + CharLen[p[l]] <= Len(p) + 1
  BY DEF WellFormed
<1>3. ASSUME WellBegun(s), NEW i \in 1 .. Len(q) PROVE \E l \in 1 .. i : InChar(q, i, l)
  <2>1. Len(p) + i \in 1 .. Len(s)
    BY <1>0
  <2>2. PICK l \in 1 .. Len(p) + i : InChar(s, Len(p) + i, l)
    BY <1>3, <2>1 DEF WellBegun
  <2>3. ~ (l <= Len(p))
    <3> SUFFICES ASSUME l <= Len(p) PROVE FALSE
      OBVIOUS
    <3>1. l \in 1 .. Len(p) /\ s[l] = p[l]
      BY <1>1
    <3>2. CharLen[p[l]] \in 0 .. 4 /\ l + CharLen[p[l]] <= Len(p) + 1
      BY <1>1, <1>2, <3>1
    <3>3. Len(p) + i < l + CharLen[p[l]]
      BY <2>2, <3>1 DEF InChar
    <3> QED BY <1>0, <3>2, <3>3
  <2> DEFINE m == l - Len(p)
  <2>4. m \in 1 .. i /\ m \in 1 .. Len(q) /\ l = Len(p) + m
    BY <1>0, <2>3
  <2> HIDE DEF m
  <2>5. s[l] = q[m] /\ CharLen[q[m]] \in 0 .. 4
    BY <1>1, <2>4
  <2>6. i < m + CharLen[q[m]]
    <3>1. Len(p) + i < l + CharLen[q[m]]
      BY <2>2, <2>5 DEF InChar
    <3>2. Len(p) \in Nat /\ i \in Nat /\ m \in Nat /\ l = Len(p) + m
      BY <1>0, <2>4
    <3> QED BY <2>5, <3>1, <3>2
  <2>7. ASSUME NEW j \in m + 1 .. Len(q), j < m + CharLen[q[m]] PROVE CharLen[q[j]] = 0
    <3>0. m \in Nat /\ j \in Nat /\ l = Len(p) + m /\ m + 1 <= j /\ j <= Len(q) /\ 1 <= j
      BY <1>0, <2>4, <2>7
    <3>1. j \in 1 .. Len(q) /\ Len(p) + j \in l + 1 .. Len(s)
      BY <1>0, <3>0
    <3>2. Len(p) + j < l + CharLen[q[m]]
      <4>1. CharLen[q[m]] \in Nat /\ j < m + CharLen[q[m]]
        BY <2>5, <2>7
      <4> QED BY <1>0, <3>0, <4>1
    <3>3. s[Len(p) + j] = q[j]
      BY <1>1, <3>1
    <3> QED BY <2>2, <2>5, <3>1, <3>2, <3>3 DEF InChar
  <2>8. InChar(q, i, m)
    BY <2>6, <2>7 DEF InChar
  <2> QED BY <2>4, <2>8
<1>4. ASSUME WellBegun(q), NEW i \in 1 .. Len(s) PROVE \E l \in 1 .. i : InChar(s, i, l)
  <2>1. CASE i \in 1 .. Len(p)
    <3>1. PICK l \in 1 .. i : InChar(p, i, l)
      BY <1>2, <2>1 DEF WellBegun
    <3>2. l \in 1 .. Len(p) /\ s[l] = p[l] /\ CharLen[p[l]] \in 0 .. 4
          /\ l + CharLen[p[l]] <= Len(p) + 1
      BY <1>1, <1>2, <2>1
    <3>3. ASSUME NEW j \in l + 1 .. Len(s), j < l + CharLen[p[l]] PROVE CharLen[s[j]] = 0
      <4>1. j \in l + 1 .. Len(p) /\ j \in 1 .. Len(p)
        BY <1>1, <3>2, <3>3
      <4> QED BY <1>1, <3>1, <3>3, <4>1 DEF InChar
    <3>4. InChar(s, i, l)
      BY <3>1, <3>2, <3>3 DEF InChar
    <3> QED BY <3>4
  <2>2. CASE ~ (i \in 1 .. Len(p))
    <3> DEFINE k == i - Len(p)
    <3>1. k \in 1 .. Len(q) /\ i = Len(p) + k
      BY <1>0, <2>2
    <3> HIDE DEF k
    <3>2. PICK m \in 1 .. k : InChar(q, k, m)
      BY <1>4, <3>1 DEF WellBegun
    <3>0. m \in 1 .. Len(q) /\ m \in Nat /\ k \in Nat /\ Len(p) + m \in 1 .. i
      BY <1>0, <3>1
    <3>3. s[Len(p) + m] = q[m] /\ CharLen[q[m]] \in 0 .. 4
      BY <1>1, <3>0
    <3>4. i < (Len(p) + m) + CharLen[s[Len(p) + m]]
      <4>1. k < m + CharLen[q[m]]
        BY <3>2 DEF InChar
      <4>2. i < (Len(p) + m) + CharLen[q[m]]
        BY <1>0, <3>0, <3>1, <3>3, <4>1
      <4> QED BY <3>3, <4>2
    <3>5. ASSUME NEW j \in (Len(p) + m) + 1 .. Len(s), j < (Len(p) + m) + CharLen[s[Len(p) + m]]
          PROVE  CharLen[s[j]] = 0
      <4> DEFINE n == j - Len(p)
      <4>1. n \in m + 1 .. Len(q) /\ n \in 1 .. Len(q) /\ n \in Nat /\ j = Len(p) + n
        BY <1>0, <3>0, <3>5
      <4> HIDE DEF n
      <4>2. n < m + CharLen[q[m]]
        <5>1. Len(p) + n < (Len(p) + m) + CharLen[q[m]]
          BY <3>3, <3>5, <4>1
        <5> QED BY <1>0, <3>0, <3>3, <4>1, <5>1
      <4>3. CharLen[q[n]] = 0
        BY <3>2, <4>1, <4>2 DEF InChar
      <4> QED BY <1>1, <4>1, <4>3
    <3>6. InChar(s, i, Len(p) + m)
      BY <3>4, <3>5 DEF InChar
    <3> QED BY <3>0, <3>6
  <2> QED BY <2>1, <2>2
<1>5. WellBegun(s) <=> WellBegun(q)
  BY <1>3, <1>4 DEF WellBegun
<1>6. (\A l \in 1 .. Len(s) : l + CharLen[s[l]] <= Len(s) + 1) <=>
      (\A l \in 1 .. Len(q) : l + CharLen[q[l]] <= Len(q) + 1)
  <2>1. ASSUME NEW l \in 1 .. Len(q), \A k \in 1 .. Len(s) : k + CharLen[s[k]] <= Len(s) + 1
        PROVE  l + CharLen[q[l]] <= Len(q) + 1
    <3>1. Len(p) + l \in 1 .. Len(s) /\ s[Len(p) + l] = q[l] /\ CharLen[q[l]] \in 0 .. 4
      BY <1>1
    <3>2. (Len(p) + l) + CharLen[q[l]] <= Len(s) + 1
      BY <2>1, <3>1
    <3> QED BY <1>0, <3>1, <3>2
  <2>2. ASSUME NEW l \in 1 .. Len(s), \A k \in 1 .. Len(q) : k + CharLen[q[k]] <= Len(q) + 1
        PROVE  l + CharLen[s[l]] <= Len(s) + 1
    <3>1. CASE l \in 1 .. Len(p)
      <4>1. s[l] = p[l] /\ CharLen[p[l]] \in 0 .. 4 /\ l + CharLen[p[l]] <= Len(p) + 1
        BY <1>1, <1>2, <3>1
      <4> QED BY <1>0, <3>1, <4>1
    <3>2. CASE ~ (l \in 1 .. Len(p))
      <4> DEFINE k == l - Len(p)
      <4>1. k \in 1 .. Len(q) /\ l = Len(p) + k
        BY <1>0, <3>2
      <4> HIDE DEF k
      <4>2. s[l] = q[k] /\ CharLen[q[k]] \in 0 .. 4 /\ k + CharLen[q[k]] <= Len(q) + 1
        BY <1>1, <2>2, <4>1
      <4> QED BY <1>0, <4>1, <4>2
    <3> QED BY <3>1, <3>2
  <2> QED BY <2>1, <2>2
<1> QED BY <1>5, <1>6 DEF WellFormed, s

(* In front of a byte that begins a character all characters are whole.    *)
LEMMA WholeBefore ==
  ASSUME NEW p \in Text, NEW q \in Text, WellBegun(p \o q), Len(q) > 0, CharLen[q[1]] # 0
  PROVE  WellFormed(p)
<1> DEFINE s == p \o q
<1>1. /\ Len(p) \in Nat /\ Len(q) \in Nat /\ Len(s) = Len(p) + Len(q) /\ s \in Text
      /\ \A i \in 1 .. Len(p) : s[i] = p[i]
      /\ \A i \in 1 .. Len(q) : s[Len(p) + i] = q[i]
      /\ \A i \in 1 .. Len(p) : CharLen[p[i]] \in 0 .. 4
  BY Bytes, Joined
<1>2. WellBegun(p)
  BY BeginsWell
<1>3. WellBegun(s)
  OBVIOUS
<1> HIDE DEF s
<1>4. ASSUME NEW l \in 1 .. Len(p), ~ (l + CharLen[p[l]] <= Len(p) + 1) PROVE FALSE
  <2>1. l \in 1 .. Len(s) /\ s[l] = p[l] /\ CharLen[p[l]] \in 0 .. 4 /\ CharLen[p[l]] # 0
    BY <1>1, <1>4
  <2>2. InChar(s, l, l)
    BY <1>1, <1>3, <2>1, LeadAlone
  <2>3. /\ Len(p) + 1 \in l + 1 .. Len(s) /\ Len(p) + 1 < l + CharLen[s[l]]
        /\ s[Len(p) + 1] = q[1]
    <3>1. 1 \in 1 .. Len(q)
      BY <1>1
    <3> QED BY <1>1, <1>4, <2>1, <3>1
  <2> QED BY <2>2, <2>3 DEF InChar
<1> QED BY <1>2, <1>4 DEF WellFormed

LEMMA PlainText ==
  ASSUME NEW s \in Text, \A i \in 1 .. Len(s) : CharLen[s[i]] = 1
  PROVE  WellFormed(s)
<1>1. Len(s) \in Nat
  BY Bytes
<1>2. ASSUME NEW i \in 1 .. Len(s) PROVE InChar(s, i, i)
  BY <1>1 DEF InChar
<1>3. \A i \in 1 .. Len(s) : i \in 1 .. i /\ i + 1 <= Len(s) + 1
  BY <1>1
<1> QED BY <1>2, <1>3 DEF WellFormed, WellBegun

LEMMA NoText == <<>> \in Text /\ Len(<<>>) = 0 /\ WellFormed(<<>>)
<1>1. <<>> \in Text /\ Len(<<>>) = 0
  BY EmptySeq DEF Text
<1> QED BY <1>1, PlainText

(* The last place of a set of places.                                      *)
LEMMA Latest ==
  ASSUME NEW n \in Nat, NEW S, S \subseteq 1 .. n, S # {}
  PROVE  Max(S) \in S /\ \A y \in S : y <= Max(S)
<1> DEFINE D == {n - y : y \in S}
<1>1. D \subseteq Nat /\ D # {}
  <2>1. \A y \in S : y \in 1 .. n /\ n - y \in Nat
    <3>1. \A y \in 1 .. n : n - y \in Nat
      OBVIOUS
    <3> QED BY <3>1
  <2>2. PICK y \in S : TRUE
    OBVIOUS
  <2> QED BY <2>1, <2>2
<1>2. PICK d \in D : \A k \in D : d <= k
  BY <1>1, Least
<1>3. PICK x \in S : d = n - x
  OBVIOUS
<1>4. ASSUME NEW y \in S PROVE x >= y
  <2>1. n - y \in D /\ x \in 1 .. n /\ y \in 1 .. n
    OBVIOUS
  <2>2. d <= n - y
    BY <1>2, <2>1
  <2> HIDE DEF D
  <2> QED BY <1>3, <2>1, <2>2
<1> HIDE DEF D
<1>5. \E z \in S : \A y \in S : z >= y
  BY <1>4
<1>6. Max(S) \in S /\ \A y \in S : Max(S) >= y
  BY <1>5 DEF Max
<1>7. \A y \in S : y \in 1 .. n
  OBVIOUS
<1> QED BY <1>6, <1>7

(* utf8_flush cuts behind the last whole character.                        *)
LEMMA CutsWhole ==
  ASSUME NEW s \in Text, WellBegun(s)
  PROVE  /\ Before(s, Whole(s) + 1) \in Text /\ WellFormed(Before(s, Whole(s) + 1))
         /\ Carried(s) \in Text /\ WellBegun(Carried(s))
         /\ Before(s, Whole(s) + 1) \o Carried(s) = s
         /\ WellFormed(s) => Before(s, Whole(s) + 1) = s /\ Carried(s) = <<>>
<1> DEFINE n == Len(s)
           leads == {i \in 1 .. n : i > n - 4 /\ CharLen[s[i]] # 0}
<1>1. n \in Nat /\ s \in Seq(Byte) /\ \A i \in 1 .. n : CharLen[s[i]] \in 0 .. 4
  BY Bytes DEF Text
<1>2. LastCharStart(s) = IF leads = {} THEN n + 1 ELSE Max(leads)
  BY DEF LastCharStart
<1>3. ASSUME NEW l \in 1 .. n, ~ (l \in leads) PROVE l + CharLen[s[l]] <= n + 1
  BY <1>1, <1>3
<1> HIDE DEF n
<1>4. ASSUME Whole(s) = n, WellFormed(s)
      PROVE  /\ Before(s, Whole(s) + 1) = s /\ Carried(s) = <<>>
  <2>1. Before(s, n + 1) = s
    <3>1. (n + 1) - 1 = n
      BY <1>1
    <3> QED BY <1>1, <3>1, SubSeqFull DEF Before, n
  <2>2. From(s, n + 1) = <<>>
    <3>1. n + 1 \in Int /\ n \in Int /\ n < n + 1
      BY <1>1
    <3> QED BY <3>1, SubSeqEmpty DEF From, n
  <2> QED BY <1>4, <2>1, <2>2 DEF Carried
<1>5. ASSUME Whole(s) = n, WellFormed(s)
      PROVE  /\ Before(s, Whole(s) + 1) \in Text /\ WellFormed(Before(s, Whole(s) + 1))
             /\ Carried(s) \in Text /\ WellBegun(Carried(s))
             /\ Before(s, Whole(s) + 1) \o Carried(s) = s
  <2>1. s \o <<>> = s
    BY <1>1, ConcatEmptySeq
  <2> QED BY <1>4, <1>5, <2>1, NoText DEF WellFormed
<1>6. CASE leads = {}
  <2>1. LastCharStart(s) = n + 1
    BY <1>2, <1>6
  <2>2. Whole(s) = n
    BY <1>1, <2>1 DEF Whole, n
  <2>3. WellFormed(s)
    BY <1>3, <1>6 DEF WellFormed, n
  <2> QED BY <1>4, <1>5, <2>2, <2>3
<1>7. CASE leads # {}
  <2> DEFINE x == Max(leads)
  <2>1. x \in leads /\ \A y \in leads : y <= x
    <3>1. leads \subseteq 1 .. n
      OBVIOUS
    <3> HIDE DEF leads
    <3> QED BY <1>1, <1>7, <3>1, Latest
  <2>2. LastCharStart(s) = x
    BY <1>2, <1>7
  <2>3. x \in 1 .. n /\ CharLen[s[x]] # 0 /\ CharLen[s[x]] \in 0 .. 4
    BY <1>1, <2>1
  <2> HIDE DEF x, leads
  <2>4. CASE (n - x) + 1 >= CharLen[s[x]]
    <3>1. Whole(s) = n
      BY <1>1, <2>2, <2>3, <2>4 DEF Whole, n
    <3>2. ASSUME NEW l \in 1 .. n PROVE l + CharLen[s[l]] <= n + 1
      <4>1. CASE ~ (l \in leads)
        BY <1>3, <4>1
      <4>2. CASE l = x
        BY <1>1, <2>3, <2>4, <4>2
      <4>3. CASE l \in leads /\ l # x
        <5>1. l < x /\ CharLen[s[l]] # 0 /\ CharLen[s[l]] \in 0 .. 4
          BY <1>1, <2>1, <2>3, <4>3 DEF leads
        <5>2. InChar(s, l, l)
          BY <5>1, LeadAlone DEF n
        <5>3. x \in l + 1 .. n
          BY <1>1, <2>3, <5>1
        <5>4. ~ (x < l + CharLen[s[l]])
          BY <2>3, <5>2, <5>3 DEF InChar, n
        <5> QED BY <1>1, <2>3, <5>1, <5>4
      <4> QED BY <4>1, <4>2, <4>3
    <3>3. WellFormed(s)
      BY <3>2 DEF WellFormed, n
    <3> QED BY <1>4, <1>5, <3>1, <3>3
  <2>5. CASE ~ ((n - x) + 1 >= CharLen[s[x]])
    <3>1. Whole(s) = x - 1
      <4>1. ~ (x > n)
        BY <1>1, <2>3
      <4> QED BY <2>2, <2>5, <4>1 DEF Whole, n
    <3>2. Whole(s) + 1 = x
      BY <2>3, <3>1
    <3> DEFINE b == Before(s, x)
               c == From(s, x)
    <3>3. x \in 1 .. n + 1
      BY <1>1, <2>3
    <3>4. /\ b \in Text /\ c \in Text /\ b \o c = s /\ Len(c) = (n + 1) - x
          /\ \A k \in 1 .. (n + 1) - x : c[k] = s[(k + x) - 1]
      BY <1>1, <3>3, CutTypes DEF Text, n
    <3> HIDE DEF b, c
    <3>5. Len(c) > 0 /\ c[1] = s[x]
      <4>1. 1 \in 1 .. (n + 1) - x /\ (1 + x) - 1 = x
        BY <1>1, <2>3
      <4> QED BY <1>1, <2>3, <3>4, <4>1
    <3>6. WellFormed(b)
      BY <2>3, <3>4, <3>5, WholeBefore
    <3>7. WellBegun(c)
      BY <3>4, <3>6, GoesOnWell
    <3>8. ~ WellFormed(s)
      <4>1. ~ (x + CharLen[s[x]] <= n + 1)
        BY <1>1, <2>3, <2>5
      <4> QED BY <2>3, <4>1 DEF WellFormed, n
    <3>9. Before(s, Whole(s) + 1) = b /\ Carried(s) = c
      BY <3>2 DEF Carried, b, c
    <3> QED BY <3>4, <3>6, <3>7, <3>8, <3>9
  <2> QED BY <2>4, <2>5
<1> QED BY <1>6, <1>7

-----------------------------------------------------------------------------
(* The deltas of a stream, put together.                                   *)
Together(s, n) ==
  {g \in [1 .. n -> Text] :
     \A i \in 1 .. n : g[i] = IF i = 1 THEN s[i] ELSE g[i - 1] \o s[i]}

LEMMA TogetherExists ==
  ASSUME NEW s \in Seq(Text), NEW n \in 0 .. Len(s)
  PROVE  \E g \in Together(s, n) : TRUE
<1> DEFINE P == {k \in Nat : k <= Len(s) => \E g \in Together(s, k) : TRUE}
<1>0. Len(s) \in Nat /\ \A i \in 1 .. Len(s) : s[i] \in Text
  BY LenProperties, ElementOfSeq
<1>1. 0 \in P
  <2>1. [i \in 1 .. 0 |-> <<>>] \in Together(s, 0)
    BY DEF Together
  <2> QED BY <2>1
<1>2. ASSUME NEW k \in Nat, k \in P PROVE k + 1 \in P
  <2> SUFFICES ASSUME k + 1 <= Len(s) PROVE \E g \in Together(s, k + 1) : TRUE
    OBVIOUS
  <2>1. k <= Len(s) /\ k + 1 \in 1 .. Len(s)
    BY <1>0
  <2>2. PICK g \in Together(s, k) : TRUE
    BY <1>2, <2>1
  <2>3. /\ g \in [1 .. k -> Text]
        /\ \A i \in 1 .. k : g[i] = IF i = 1 THEN s[i] ELSE g[i - 1] \o s[i]
    BY <2>2 DEF Together
  <2> DEFINE last == IF k = 0 THEN s[1] ELSE g[k] \o s[k + 1]
             h == [i \in 1 .. k + 1 |-> IF i = k + 1 THEN last ELSE g[i]]
  <2>4. last \in Text
    <3>1. s[k + 1] \in Text
      BY <1>0, <2>1
    <3>2. k # 0 => g[k] \in Text
      BY <2>3
    <3> QED BY <3>1, <3>2, Joined
  <2> HIDE DEF last
  <2>5. h \in [1 .. k + 1 -> Text]
    <3>1. \A i \in 1 .. k + 1 : i # k + 1 => i \in 1 .. k
      OBVIOUS
    <3> QED BY <2>3, <2>4, <3>1
  <2>6. ASSUME NEW i \in 1 .. k + 1 PROVE h[i] = IF i = 1 THEN s[i] ELSE h[i - 1] \o s[i]
    <3>1. CASE i = k + 1
      <4>1. k # 0 => k \in 1 .. k + 1 /\ k # k + 1 /\ i - 1 = k
        BY <3>1
      <4>2. k = 0 <=> i = 1
        BY <3>1
      <4> QED BY <3>1, <4>1, <4>2 DEF last
    <3>2. CASE i # k + 1
      <4>1. i \in 1 .. k /\ (i # 1 => i - 1 \in 1 .. k + 1 /\ i - 1 # k + 1)
        BY <3>2
      <4> QED BY <2>3, <3>2, <4>1
    <3> QED BY <3>1, <3>2
  <2> HIDE DEF h
  <2>7. h \in Together(s, k + 1)
    BY <2>5, <2>6 DEF Together
  <2> QED BY <2>7
<1> HIDE DEF P
<1>3. n \in P /\ n <= Len(s)
  BY <1>0, <1>1, <1>2, Induction
<1> QED BY <1>3 DEF P

LEMMA TogetherOnce ==
  ASSUME NEW s \in Seq(Text), NEW t \in Seq(Text), NEW m \in Nat, NEW n \in Nat,
         m <= n, n <= Len(t), m <= Len(s), \A i \in 1 .. m : s[i] = t[i],
         NEW g \in Together(s, m), NEW h \in Together(t, n)
  PROVE  \A i \in 1 .. m : g[i] = h[i]
<1> DEFINE P == {k \in Nat : k \in 1 .. m => g[k] = h[k]}
<1>0. /\ \A i \in 1 .. m : g[i] = IF i = 1 THEN s[i] ELSE g[i - 1] \o s[i]
      /\ \A i \in 1 .. m : h[i] = IF i = 1 THEN t[i] ELSE h[i - 1] \o t[i]
  <2>1. \A i \in 1 .. m : i \in 1 .. n
    OBVIOUS
  <2> QED BY <2>1 DEF Together
<1>1. 0 \in P
  OBVIOUS
<1>2. ASSUME NEW k \in Nat, k \in P PROVE k + 1 \in P
  <2> SUFFICES ASSUME k + 1 \in 1 .. m PROVE g[k + 1] = h[k + 1]
    OBVIOUS
  <2>1. (k + 1) - 1 = k /\ (k + 1 = 1 <=> k = 0) /\ (k # 0 => k \in 1 .. m)
    OBVIOUS
  <2> QED BY <1>0, <1>2, <2>1
<1> HIDE DEF P
<1>3. \A k \in Nat : k \in P
  BY <1>1, <1>2, Induction
<1> QED BY <1>3 DEF P

LEMMA Flattened ==
  ASSUME NEW s \in Seq(Text), Len(s) # 0
  PROVE  \E g \in Together(s, Len(s)) : FlattenSeq(s) = g[Len(s)]
<1> DEFINE n == Len(s)
           flatten[i \in 1 .. n] == IF i = 1 THEN s[i] ELSE flatten[i - 1] \o s[i]
<1>1. n \in Nat
  BY LenProperties
<1>2. PICK g \in Together(s, n) : TRUE
  BY <1>1, TogetherExists
<1>3. g = [i \in 1 .. n |-> IF i = 1 THEN s[i] ELSE g[i - 1] \o s[i]]
  BY <1>2 DEF Together
<1>4. flatten = [i \in 1 .. n |-> IF i = 1 THEN s[i] ELSE flatten[i - 1] \o s[i]]
  BY <1>3
<1>5. FlattenSeq(s) = flatten[n]
  BY DEF FlattenSeq
<1> HIDE DEF flatten
<1> DEFINE P == {k \in Nat : k \in 1 .. n => flatten[k] = g[k]}
<1>6. 0 \in P
  OBVIOUS
<1>7. ASSUME NEW k \in Nat, k \in P PROVE k + 1 \in P
  <2> SUFFICES ASSUME k + 1 \in 1 .. n PROVE flatten[k + 1] = g[k + 1]
    OBVIOUS
  <2>1. (k + 1) - 1 = k /\ (k + 1 = 1 <=> k = 0) /\ (k # 0 => k \in 1 .. n)
    BY <1>1
  <2>2. flatten[k + 1] = IF k + 1 = 1 THEN s[k + 1] ELSE flatten[(k + 1) - 1] \o s[k + 1]
    BY <1>4
  <2>3. g[k + 1] = IF k + 1 = 1 THEN s[k + 1] ELSE g[(k + 1) - 1] \o s[k + 1]
    BY <1>3
  <2> QED BY <1>7, <2>1, <2>2, <2>3
<1> HIDE DEF P
<1>8. n \in P /\ n \in 1 .. n
  BY <1>1, <1>6, <1>7, Induction
<1>9. flatten[n] = g[n]
  BY <1>8 DEF P
<1> QED BY <1>2, <1>5, <1>9

LEMMA FlattensOn ==
  ASSUME NEW s \in Seq(Text), NEW e \in Text
  PROVE  FlattenSeq(s) \in Text /\ FlattenSeq(Append(s, e)) = FlattenSeq(s) \o e
<1> DEFINE n == Len(s)
           t == Append(s, e)
<1>1. /\ n \in Nat /\ t \in Seq(Text) /\ Len(t) = n + 1
      /\ (\A i \in 1 .. n : t[i] = s[i]) /\ t[n + 1] = e
  BY LenProperties, AppendProperties
<1>2. e \in Seq(Byte) /\ <<>> \o e = e
  BY ConcatEmptySeq DEF Text
<1> HIDE DEF t
<1>3. PICK h \in Together(t, n + 1) : FlattenSeq(t) = h[n + 1]
  <2>1. Len(t) # 0 /\ Len(t) = n + 1 /\ t \in Seq(Text)
    BY <1>1
  <2>2. \E g \in Together(t, Len(t)) : FlattenSeq(t) = g[Len(t)]
    BY <2>1, Flattened
  <2> QED BY <2>1, <2>2
<1>4. h[n + 1] = IF n + 1 = 1 THEN e ELSE h[(n + 1) - 1] \o e
  <2>1. \A i \in 1 .. n + 1 : h[i] = IF i = 1 THEN t[i] ELSE h[i - 1] \o t[i]
    BY <1>3 DEF Together
  <2>2. n + 1 \in 1 .. n + 1
    BY <1>1
  <2> QED BY <1>1, <2>1, <2>2
<1>5. CASE n = 0
  <2>1. s = <<>> /\ FlattenSeq(s) = <<>>
    BY <1>5, EmptySeq DEF FlattenSeq
  <2> QED BY <1>2, <1>3, <1>4, <1>5, <2>1, NoText DEF t
<1>6. CASE n # 0
  <2>1. PICK g \in Together(s, n) : FlattenSeq(s) = g[n]
    BY <1>6, Flattened
  <2>2. \A i \in 1 .. n : g[i] = h[i]
    <3>1. /\ n \in Nat /\ n + 1 \in Nat /\ n <= n + 1 /\ n + 1 <= Len(t) /\ n <= Len(s)
          /\ \A i \in 1 .. n : s[i] = t[i]
      BY <1>1
    <3> HIDE DEF n
    <3> QED BY <1>1, <1>3, <2>1, <3>1, TogetherOnce
  <2>3. n \in 1 .. n /\ (n + 1) - 1 = n /\ n + 1 # 1
    BY <1>1, <1>6
  <2>4. g[n] \in Text
    BY <2>1, <2>3 DEF Together
  <2> QED BY <1>3, <1>4, <2>1, <2>2, <2>3, <2>4 DEF t
<1> QED BY <1>5, <1>6

-----------------------------------------------------------------------------
(* What a turn of the splitter's loop takes out of its buffer.             *)
Absent(t, s) == \A i \in Nat \ {0} : ~ Here(t, s, i)
NotIn(t, s, n) == \A i \in 1 .. n : ~ Here(t, s, i)

NoTag(s) ==
  /\ s.tool => Absent(ToolClose, s.buf)
  /\ ~ s.tool /\ s.think => Absent(ThinkClose, s.buf)
  /\ ~ s.tool /\ ~ s.think => Absent(ThinkOpen, s.buf) /\ Absent(ToolOpen, s.buf)

Reported(calls, body) ==
  IF Find(body, CallMark, 1) # 0 THEN Append(calls, body) ELSE calls

ToolEnds(r, q, before) ==
  /\ r.splitter.buf = before \o (ToolClose \o q.splitter.buf)
  /\ NotIn(ToolClose, r.splitter.buf, Len(before))
  /\ r.splitter.tool
  /\ ~ q.splitter.tool /\ (q.splitter.think <=> r.splitter.think)
  /\ q.splitter.body = <<>>
  /\ q.splitter.calls = Reported(r.splitter.calls, r.splitter.body \o before)
  /\ q.content = r.content /\ q.reasoning = r.reasoning

ThinkEnds(r, q, before) ==
  /\ r.splitter.buf = before \o (ThinkClose \o q.splitter.buf)
  /\ NotIn(ThinkClose, r.splitter.buf, Len(before))
  /\ ~ r.splitter.tool /\ r.splitter.think
  /\ ~ q.splitter.tool /\ ~ q.splitter.think
  /\ q.splitter.body = r.splitter.body /\ q.splitter.calls = r.splitter.calls
  /\ q.content = r.content /\ q.reasoning = r.reasoning \o before

ThinkBegins(r, q, before) ==
  /\ r.splitter.buf = before \o (ThinkOpen \o q.splitter.buf)
  /\ NotIn(ThinkOpen, r.splitter.buf, Len(before))
  /\ NotIn(ToolOpen, r.splitter.buf, Len(before))
  /\ ~ r.splitter.tool /\ ~ r.splitter.think
  /\ ~ q.splitter.tool /\ q.splitter.think
  /\ q.splitter.body = r.splitter.body /\ q.splitter.calls = r.splitter.calls
  /\ q.content = r.content \o before /\ q.reasoning = r.reasoning

ToolBegins(r, q, before) ==
  /\ r.splitter.buf = before \o (ToolOpen \o q.splitter.buf)
  /\ NotIn(ToolOpen, r.splitter.buf, Len(before))
  /\ NotIn(ThinkOpen, r.splitter.buf, Len(before))
  /\ ~ r.splitter.tool /\ ~ r.splitter.think
  /\ q.splitter.tool /\ ~ q.splitter.think
  /\ q.splitter.body = r.splitter.body /\ q.splitter.calls = r.splitter.calls
  /\ q.content = r.content \o before /\ q.reasoning = r.reasoning

(* A tag found at place i is what stands between the text before it and    *)
(* the text behind it.                                                     *)
LEMMA CutOut ==
  ASSUME NEW s \in Text, NEW t \in Text, NEW i \in Nat \ {0}, Here(t, s, i)
  PROVE  /\ Before(s, i) \in Text /\ From(s, i + Len(t)) \in Text
         /\ Len(Before(s, i)) = i - 1
         /\ s = Before(s, i) \o (t \o From(s, i + Len(t)))
<1> DEFINE n == Len(s)
           k == i + Len(t)
           b == Before(s, i)
           c == From(s, i)
           d == From(s, k)
<1>1. s \in Seq(Byte) /\ t \in Seq(Byte) /\ n \in Nat /\ Len(t) \in Nat
  BY LenProperties DEF Text
<1>2. k <= n + 1 /\ \A j \in 1 .. Len(t) : s[(i + j) - 1] = t[j]
  BY DEF Here
<1>3. i \in 1 .. n + 1 /\ k \in 1 .. n + 1
  BY <1>1, <1>2
<1> HIDE DEF b, c, d, k, n
<1>4. /\ b \in Seq(Byte) /\ Len(b) = i - 1 /\ b \o c = s
      /\ c \in Seq(Byte) /\ Len(c) = (n + 1) - i
      /\ \A j \in 1 .. (n + 1) - i : c[j] = s[(j + i) - 1]
  <2>1. /\ Before(s, i) \in Seq(Byte) /\ Len(Before(s, i)) = i - 1
        /\ From(s, i) \in Seq(Byte) /\ Len(From(s, i)) = (Len(s) + 1) - i
        /\ \A j \in 1 .. (Len(s) + 1) - i : From(s, i)[j] = s[(j + i) - 1]
        /\ Before(s, i) \o From(s, i) = s
    <3>1. i \in 1 .. Len(s) + 1
      BY <1>3 DEF n
    <3>2. Before(s, i) \in Seq(Byte) /\ Len(Before(s, i)) = i - 1
      BY <1>1, <3>1, CutTypes
    <3>3. /\ From(s, i) \in Seq(Byte) /\ Len(From(s, i)) = (Len(s) + 1) - i
          /\ \A j \in 1 .. (Len(s) + 1) - i : From(s, i)[j] = s[(j + i) - 1]
      BY <1>1, <3>1, CutTypes
    <3>4. Before(s, i) \o From(s, i) = s
      BY <1>1, <3>1, CutTypes
    <3> QED BY <3>2, <3>3, <3>4
  <2> QED BY <2>1 DEF b, c, n
<1>5. /\ d \in Seq(Byte) /\ Len(d) = (n + 1) - k
      /\ \A j \in 1 .. (n + 1) - k : d[j] = s[(j + k) - 1]
  BY <1>1, <1>3, CutTypes DEF d, n
<1>6. /\ t \o d \in Seq(Byte) /\ Len(t \o d) = Len(t) + Len(d)
      /\ \A j \in 1 .. Len(t) + Len(d) : (t \o d)[j] = IF j <= Len(t) THEN t[j] ELSE d[j - Len(t)]
  BY <1>1, <1>5, ConcatProperties
<1>7. Len(t \o d) = Len(c)
  BY <1>1, <1>4, <1>5, <1>6 DEF k
<1>8. ASSUME NEW j \in 1 .. Len(c) PROVE c[j] = (t \o d)[j]
  <2>1. c[j] = s[(j + i) - 1] /\ j \in 1 .. Len(t) + Len(d) /\ j \in Nat
    BY <1>1, <1>4, <1>6, <1>7, <1>8
  <2>2. CASE j <= Len(t)
    <3>1. j \in 1 .. Len(t) /\ (i + j) - 1 = (j + i) - 1
      BY <1>1, <2>1, <2>2
    <3> QED BY <1>2, <1>6, <2>1, <2>2, <3>1
  <2>3. CASE ~ (j <= Len(t))
    <3>1. j - Len(t) \in 1 .. (n + 1) - k /\ ((j - Len(t)) + k) - 1 = (j + i) - 1
      BY <1>1, <1>3, <1>5, <2>1, <2>3 DEF k
    <3>2. d[j - Len(t)] = s[(j + i) - 1]
      BY <1>5, <3>1
    <3> QED BY <1>6, <2>1, <2>3, <3>2
  <2> QED BY <2>2, <2>3
<1>9. c = t \o d
  BY <1>4, <1>6, <1>7, <1>8, SeqEqual
<1> QED BY <1>4, <1>5, <1>9 DEF Text, b, d, k

(* The two opening tags never stand at the same place.                     *)
LEMMA OpensApart ==
  ASSUME NEW s \in Text, NEW i \in Nat \ {0}, Here(ThinkOpen, s, i)
  PROVE  ~ Here(ToolOpen, s, i)
<1> SUFFICES ASSUME Here(ToolOpen, s, i) PROVE FALSE
  OBVIOUS
<1> DEFINE a == ThinkOpen
           b == ToolOpen
<1>1. a \in Seq(Byte) /\ b \in Seq(Byte) /\ Len(a) \in Nat /\ Len(b) \in Nat
  BY TagTypes DEF Text
<1>2. /\ \A j \in 1 .. Len(a) : s[(i + j) - 1] = a[j]
      /\ \A j \in 1 .. Len(b) : s[(i + j) - 1] = b[j]
  BY DEF Here
<1> HIDE DEF a, b
<1>3. CASE Len(a) <= Len(b)
  <2>1. \A j \in 1 .. Len(a) : (1 + j) - 1 = j /\ j \in 1 .. Len(b)
    BY <1>1, <1>3
  <2>2. Here(a, b, 1)
    BY <1>1, <1>2, <1>3, <2>1 DEF Here
  <2> QED BY <1>1, <2>2, PrefixHere, TagAssumption DEF a, b
<1>4. CASE Len(b) <= Len(a)
  <2>1. \A j \in 1 .. Len(b) : (1 + j) - 1 = j /\ j \in 1 .. Len(a)
    BY <1>1, <1>4
  <2>2. Here(b, a, 1)
    BY <1>1, <1>2, <1>4, <2>1 DEF Here
  <2> QED BY <1>1, <2>2, PrefixHere, TagAssumption DEF a, b
<1> QED BY <1>1, <1>3, <1>4

LEMMA TagFound ==
  ASSUME NEW s \in Text, NEW t \in Text
  PROVE  LET i == Find(s, t, 1)
         IN /\ i = 0 => Absent(t, s)
            /\ i # 0 => /\ i \in Nat \ {0} /\ Here(t, s, i)
                        /\ Before(s, i) \in Text /\ From(s, i + Len(t)) \in Text
                        /\ s = Before(s, i) \o (t \o From(s, i + Len(t)))
                        /\ Len(Before(s, i)) = i - 1
                        /\ \A n \in Nat : n <= i => NotIn(t, s, n - 1)
<1> DEFINE i == Find(s, t, 1)
<1>1. s \in Seq(Byte) /\ t \in Seq(Byte) /\ 1 \in Nat \ {0}
  BY DEF Text
<1>2. /\ i \in Nat
      /\ i = 0 => \A j \in Nat : 1 <= j => ~ Here(t, s, j)
      /\ i # 0 => /\ 1 <= i /\ Here(t, s, i)
                  /\ \A j \in Nat : 1 <= j /\ Here(t, s, j) => i <= j
  BY <1>1, Finds
<1> HIDE DEF i
<1>3. ASSUME i = 0 PROVE Absent(t, s)
  <2>1. \A j \in Nat \ {0} : j \in Nat /\ 1 <= j
    OBVIOUS
  <2> QED BY <1>2, <1>3, <2>1 DEF Absent
<1>4. ASSUME i # 0
      PROVE  /\ i \in Nat \ {0} /\ Here(t, s, i)
             /\ Before(s, i) \in Text /\ From(s, i + Len(t)) \in Text
             /\ s = Before(s, i) \o (t \o From(s, i + Len(t)))
             /\ Len(Before(s, i)) = i - 1
             /\ \A n \in Nat : n <= i => NotIn(t, s, n - 1)
  <2>1. i \in Nat \ {0} /\ Here(t, s, i)
    BY <1>2, <1>4
  <2>2. /\ Before(s, i) \in Text /\ From(s, i + Len(t)) \in Text
        /\ s = Before(s, i) \o (t \o From(s, i + Len(t)))
        /\ Len(Before(s, i)) = i - 1
    BY <2>1, CutOut
  <2>3. ASSUME NEW n \in Nat, n <= i, NEW j \in 1 .. n - 1 PROVE ~ Here(t, s, j)
    <3>1. j \in Nat /\ 1 <= j /\ ~ (i <= j)
      BY <2>1, <2>3
    <3> QED BY <1>2, <1>4, <3>1
  <2> QED BY <2>1, <2>2, <2>3 DEF NotIn
<1> QED BY <1>3, <1>4 DEF i

LEMMA AbsentNotIn ==
  ASSUME NEW s, NEW t, NEW n \in Int, Absent(t, s)
  PROVE  NotIn(t, s, n)
<1>1. \A j \in 1 .. n : j \in Nat \ {0}
  OBVIOUS
<1> QED BY <1>1 DEF Absent, NotIn

LEMMA TakeIs ==
  ASSUME NEW r \in Release
  PROVE  /\ Take(r) \in Release
         /\ \/ Take(r) = r /\ NoTag(r.splitter)
            \/ \E b \in Text : \/ ToolEnds(r, Take(r), b) \/ ThinkEnds(r, Take(r), b)
                               \/ ThinkBegins(r, Take(r), b) \/ ToolBegins(r, Take(r), b)
<1> DEFINE s == r.splitter
           end == IF s.tool THEN ToolClose ELSE ThinkClose
           close == Find(s.buf, end, 1)
           think == Find(s.buf, ThinkOpen, 1)
           tool == Find(s.buf, ToolOpen, 1)
           q == Take(r)
<1>1. /\ s \in Splitter /\ r.content \in Text /\ r.reasoning \in Text
      /\ s.buf \in Text /\ s.think \in BOOLEAN /\ s.tool \in BOOLEAN
      /\ s.body \in Text /\ s.calls \in Seq(Text)
  BY DEF Release, Splitter
<1>0. s \in Splitter
  BY DEF Release
<1>2. ThinkOpen \in Text /\ ThinkClose \in Text /\ ToolOpen \in Text /\ ToolClose \in Text
      /\ end \in Text /\ CallMark \in Text
  BY TagTypes, TextAssumption DEF Text
<1>3. q = CASE s.tool /\ close # 0 ->
                 LET body == s.body \o Before(s.buf, close)
                 IN [r EXCEPT !.splitter =
                      [s EXCEPT !.buf = From(s.buf, close + Len(ToolClose)),
                                !.tool = FALSE, !.body = <<>>,
                                !.calls = IF Find(body, CallMark, 1) # 0
                                          THEN Append(@, body) ELSE @]]
            [] ~s.tool /\ s.think /\ close # 0 ->
                 [r EXCEPT
                   !.reasoning = @ \o Before(s.buf, close),
                   !.splitter = [s EXCEPT !.buf = From(s.buf, close + Len(ThinkClose)),
                                          !.think = FALSE]]
            [] ~s.tool /\ ~s.think /\ think # 0 /\ (tool = 0 \/ think < tool) ->
                 [r EXCEPT
                   !.content = @ \o Before(s.buf, think),
                   !.splitter = [s EXCEPT !.buf = From(s.buf, think + Len(ThinkOpen)),
                                          !.think = TRUE]]
            [] ~s.tool /\ ~s.think /\ tool # 0 /\ (think = 0 \/ tool < think) ->
                 [r EXCEPT
                   !.content = @ \o Before(s.buf, tool),
                   !.splitter = [s EXCEPT !.buf = From(s.buf, tool + Len(ToolOpen)),
                                          !.tool = TRUE]]
            [] OTHER -> r
  BY DEF Take
<1>4. /\ close = 0 => Absent(end, s.buf)
      /\ close # 0 => /\ close \in Nat \ {0} /\ Here(end, s.buf, close)
                      /\ Before(s.buf, close) \in Text /\ From(s.buf, close + Len(end)) \in Text
                      /\ s.buf = Before(s.buf, close) \o (end \o From(s.buf, close + Len(end)))
                      /\ Len(Before(s.buf, close)) = close - 1
                      /\ \A n \in Nat : n <= close => NotIn(end, s.buf, n - 1)
  BY <1>1, <1>2, TagFound
<1>5. /\ think = 0 => Absent(ThinkOpen, s.buf)
      /\ think # 0 => /\ think \in Nat \ {0} /\ Here(ThinkOpen, s.buf, think)
                      /\ Before(s.buf, think) \in Text
                      /\ From(s.buf, think + Len(ThinkOpen)) \in Text
                      /\ s.buf = Before(s.buf, think)
                                   \o (ThinkOpen \o From(s.buf, think + Len(ThinkOpen)))
                      /\ Len(Before(s.buf, think)) = think - 1
                      /\ \A n \in Nat : n <= think => NotIn(ThinkOpen, s.buf, n - 1)
  BY <1>1, <1>2, TagFound
<1>6. /\ tool = 0 => Absent(ToolOpen, s.buf)
      /\ tool # 0 => /\ tool \in Nat \ {0} /\ Here(ToolOpen, s.buf, tool)
                     /\ Before(s.buf, tool) \in Text
                     /\ From(s.buf, tool + Len(ToolOpen)) \in Text
                     /\ s.buf = Before(s.buf, tool)
                                  \o (ToolOpen \o From(s.buf, tool + Len(ToolOpen)))
                     /\ Len(Before(s.buf, tool)) = tool - 1
                     /\ \A n \in Nat : n <= tool => NotIn(ToolOpen, s.buf, n - 1)
  BY <1>1, <1>2, TagFound
<1> HIDE DEF close, think, tool, q, s, end
<1>7. CASE s.tool /\ close # 0
  <2> DEFINE b == Before(s.buf, close)
             c == From(s.buf, close + Len(ToolClose))
             calls == Reported(s.calls, s.body \o b)
             n == [s EXCEPT !.buf = c, !.tool = FALSE, !.body = <<>>, !.calls = calls]
  <2>1. end = ToolClose
    BY <1>7 DEF end
  <2>2. b \in Text /\ c \in Text /\ s.body \o b \in Text
    BY <1>1, <1>4, <1>7, <2>1, Joined
  <2>3. q = [r EXCEPT !.splitter = n]
    BY <1>3, <1>7 DEF Reported
  <2>4. calls \in Seq(Text)
    BY <1>1, <2>2, AppendProperties DEF Reported
  <2>5. s.buf = b \o (ToolClose \o c) /\ NotIn(ToolClose, s.buf, Len(b))
    BY <1>4, <1>7, <2>1
  <2> HIDE DEF b, c, calls
  <2>6. /\ n \in Splitter /\ n.buf = c /\ ~ n.tool /\ (n.think <=> s.think)
        /\ n.body = <<>> /\ n.calls = calls
    BY <1>0, <2>2, <2>4, NoText DEF Splitter
  <2> HIDE DEF n
  <2>7. q \in Release /\ q.splitter = n /\ q.content = r.content /\ q.reasoning = r.reasoning
    BY <2>3, <2>6 DEF Release
  <2>8. ToolEnds(r, q, b)
    BY <1>7, <2>5, <2>6, <2>7 DEF ToolEnds, s, calls
  <2> QED BY <2>2, <2>7, <2>8 DEF q
<1>8. CASE ~ s.tool /\ s.think /\ close # 0
  <2> DEFINE b == Before(s.buf, close)
             c == From(s.buf, close + Len(ThinkClose))
             n == [s EXCEPT !.buf = c, !.think = FALSE]
             said == r.reasoning \o b
  <2>1. end = ThinkClose
    BY <1>8 DEF end
  <2>2. b \in Text /\ c \in Text /\ said \in Text
    BY <1>1, <1>4, <1>8, <2>1, Joined
  <2>3. q = [r EXCEPT !.reasoning = said, !.splitter = n]
    BY <1>3, <1>8
  <2>5. s.buf = b \o (ThinkClose \o c) /\ NotIn(ThinkClose, s.buf, Len(b))
    BY <1>4, <1>8, <2>1
  <2> HIDE DEF b, c, said
  <2>6. /\ n \in Splitter /\ n.buf = c /\ ~ n.tool /\ ~ n.think
        /\ n.body = s.body /\ n.calls = s.calls
    BY <1>0, <1>8, <2>2 DEF Splitter
  <2> HIDE DEF n
  <2>7. q \in Release /\ q.splitter = n /\ q.content = r.content /\ q.reasoning = said
    BY <2>2, <2>3, <2>6 DEF Release
  <2>8. ThinkEnds(r, q, b)
    BY <1>8, <2>5, <2>6, <2>7 DEF ThinkEnds, s, said
  <2> QED BY <2>2, <2>7, <2>8 DEF q
<1>9. CASE ~ s.tool /\ ~ s.think /\ think # 0 /\ (tool = 0 \/ think < tool)
  <2> DEFINE b == Before(s.buf, think)
             c == From(s.buf, think + Len(ThinkOpen))
             n == [s EXCEPT !.buf = c, !.think = TRUE]
             said == r.content \o b
  <2>2. b \in Text /\ c \in Text /\ said \in Text
    BY <1>1, <1>5, <1>9, Joined
  <2>3. q = [r EXCEPT !.content = said, !.splitter = n]
    <3>1. ~ (s.tool /\ close # 0) /\ ~ (~ s.tool /\ s.think /\ close # 0)
      BY <1>9
    <3>2. ~ (~ s.tool /\ ~ s.think /\ tool # 0 /\ (think = 0 \/ tool < think))
      BY <1>5, <1>6, <1>9
    <3> QED BY <1>3, <1>9, <3>1, <3>2
  <2>5. s.buf = b \o (ThinkOpen \o c) /\ NotIn(ThinkOpen, s.buf, Len(b))
    BY <1>5, <1>9
  <2>4. NotIn(ToolOpen, s.buf, Len(b))
    <3>1. CASE tool = 0
      <4>1. Len(b) \in Int
        BY <1>5, <1>9
      <4> QED BY <1>6, <3>1, <4>1, AbsentNotIn
    <3>2. CASE tool # 0
      <4>1. think \in Nat /\ think <= tool
        BY <1>5, <1>6, <1>9, <3>2
      <4> QED BY <1>5, <1>6, <1>9, <3>2, <4>1
    <3> QED BY <3>1, <3>2
  <2> HIDE DEF b, c, said
  <2>6. /\ n \in Splitter /\ n.buf = c /\ ~ n.tool /\ n.think
        /\ n.body = s.body /\ n.calls = s.calls
    BY <1>0, <1>9, <2>2 DEF Splitter
  <2> HIDE DEF n
  <2>7. q \in Release /\ q.splitter = n /\ q.content = said /\ q.reasoning = r.reasoning
    BY <2>2, <2>3, <2>6 DEF Release
  <2>8. ThinkBegins(r, q, b)
    BY <1>9, <2>4, <2>5, <2>6, <2>7 DEF ThinkBegins, s, said
  <2> QED BY <2>2, <2>7, <2>8 DEF q
<1>10. CASE ~ s.tool /\ ~ s.think /\ tool # 0 /\ (think = 0 \/ tool < think)
  <2> DEFINE b == Before(s.buf, tool)
             c == From(s.buf, tool + Len(ToolOpen))
             n == [s EXCEPT !.buf = c, !.tool = TRUE]
             said == r.content \o b
  <2>2. b \in Text /\ c \in Text /\ said \in Text
    BY <1>1, <1>6, <1>10, Joined
  <2>3. q = [r EXCEPT !.content = said, !.splitter = n]
    <3>1. ~ (s.tool /\ close # 0) /\ ~ (~ s.tool /\ s.think /\ close # 0)
      BY <1>10
    <3>2. ~ (~ s.tool /\ ~ s.think /\ think # 0 /\ (tool = 0 \/ think < tool))
      BY <1>5, <1>6, <1>10
    <3> QED BY <1>3, <1>10, <3>1, <3>2
  <2>5. s.buf = b \o (ToolOpen \o c) /\ NotIn(ToolOpen, s.buf, Len(b))
    BY <1>6, <1>10
  <2>4. NotIn(ThinkOpen, s.buf, Len(b))
    <3>1. CASE think = 0
      <4>1. Len(b) \in Int
        BY <1>6, <1>10
      <4> QED BY <1>5, <3>1, <4>1, AbsentNotIn
    <3>2. CASE think # 0
      <4>1. tool \in Nat /\ tool <= think
        BY <1>5, <1>6, <1>10, <3>2
      <4> QED BY <1>5, <1>6, <1>10, <3>2, <4>1
    <3> QED BY <3>1, <3>2
  <2> HIDE DEF b, c, said
  <2>6. /\ n \in Splitter /\ n.buf = c /\ n.tool /\ ~ n.think
        /\ n.body = s.body /\ n.calls = s.calls
    BY <1>0, <1>10, <2>2 DEF Splitter
  <2> HIDE DEF n
  <2>7. q \in Release /\ q.splitter = n /\ q.content = said /\ q.reasoning = r.reasoning
    BY <2>2, <2>3, <2>6 DEF Release
  <2>8. ToolBegins(r, q, b)
    BY <1>10, <2>4, <2>5, <2>6, <2>7 DEF ToolBegins, s, said
  <2> QED BY <2>2, <2>7, <2>8 DEF q
<1>11. CASE /\ ~ (s.tool /\ close # 0)
            /\ ~ (~ s.tool /\ s.think /\ close # 0)
            /\ ~ (~ s.tool /\ ~ s.think /\ think # 0 /\ (tool = 0 \/ think < tool))
            /\ ~ (~ s.tool /\ ~ s.think /\ tool # 0 /\ (think = 0 \/ tool < think))
  <2>1. q = r
    BY <1>3, <1>11
  <2>2. think # 0 /\ tool # 0 => think # tool
    BY <1>1, <1>5, <1>6, OpensApart
  <2>3. ~ s.tool /\ ~ s.think => think = 0 /\ tool = 0
    BY <1>5, <1>6, <1>11, <2>2
  <2>4. NoTag(s)
    BY <1>4, <1>5, <1>6, <1>11, <2>3 DEF NoTag, end
  <2> QED BY <2>1, <2>4 DEF q, s
<1> QED BY <1>7, <1>8, <1>9, <1>10, <1>11

(* A tag that was cut out of a buffer stood in it.                         *)
LEMMA StoodThere ==
  ASSUME NEW b \in Text, NEW t \in Text, NEW c \in Text
  PROVE  /\ Here(t, b \o (t \o c), Len(b) + 1) /\ Len(b) + 1 \in Nat \ {0}
         /\ Len(b \o (t \o c)) = (Len(b) + Len(t)) + Len(c)
<1> DEFINE s == b \o (t \o c)
<1>1. /\ Len(b) \in Nat /\ Len(t) \in Nat /\ Len(c) \in Nat
      /\ t \o c \in Text /\ Len(t \o c) = Len(t) + Len(c)
      /\ \A i \in 1 .. Len(t) : (t \o c)[i] = t[i]
  BY Bytes, Joined
<1>2. /\ Len(s) = Len(b) + Len(t \o c)
      /\ \A i \in 1 .. Len(t \o c) : s[Len(b) + i] = (t \o c)[i]
  BY <1>1, Joined
<1> HIDE DEF s
<1>3. \A i \in 1 .. Len(t) : i \in 1 .. Len(t \o c) /\ ((Len(b) + 1) + i) - 1 = Len(b) + i
  BY <1>1
<1>4. Here(t, s, Len(b) + 1) /\ Len(s) = (Len(b) + Len(t)) + Len(c)
  BY <1>1, <1>2, <1>3 DEF Here
<1> QED BY <1>1, <1>4 DEF s

LEMMA TakesLess ==
  ASSUME NEW r \in Release
  PROVE  \/ Take(r) = r /\ NoTag(r.splitter)
         \/ /\ ~ NoTag(r.splitter)
            /\ Len(Take(r).splitter.buf) + 1 <= Len(r.splitter.buf)
<1> DEFINE q == Take(r)
           s == r.splitter.buf
           c == q.splitter.buf
<1>1. q \in Release /\ s \in Text /\ c \in Text
  BY TakeIs DEF Release, Splitter
<1> HIDE DEF s, c
<1>2. ASSUME NEW tag \in Tags, NEW b \in Text, s = b \o (tag \o c)
      PROVE  ~ Absent(tag, s) /\ Len(c) + 1 <= Len(s)
  <2>1. tag \in Text /\ Len(tag) \in Nat \ {0}
    BY TagTypes
  <2>2. /\ Here(tag, s, Len(b) + 1) /\ Len(b) + 1 \in Nat \ {0}
        /\ Len(s) = (Len(b) + Len(tag)) + Len(c)
    <3>1. c \in Text /\ b \in Text /\ s = b \o (tag \o c)
      BY <1>1, <1>2
    <3>2. tag \in Text
      BY <2>1
    <3>3. /\ Here(tag, b \o (tag \o c), Len(b) + 1) /\ Len(b) + 1 \in Nat \ {0}
          /\ Len(b \o (tag \o c)) = (Len(b) + Len(tag)) + Len(c)
      BY <3>1, <3>2, StoodThere
    <3> QED BY <3>1, <3>3
  <2>3. Len(b) \in Nat /\ Len(c) \in Nat
    BY <1>1, Bytes
  <2> QED BY <2>1, <2>2, <2>3 DEF Absent
<1>3. ASSUME NEW b \in Text, \/ ToolEnds(r, q, b) \/ ThinkEnds(r, q, b)
                             \/ ThinkBegins(r, q, b) \/ ToolBegins(r, q, b)
      PROVE  ~ NoTag(r.splitter) /\ Len(c) + 1 <= Len(s)
  <2> HIDE DEF q
  <2>1. CASE ToolEnds(r, q, b)
    BY <1>2, <2>1, TagTypes DEF ToolEnds, NoTag, s, c
  <2>2. CASE ThinkEnds(r, q, b)
    BY <1>2, <2>2, TagTypes DEF ThinkEnds, NoTag, s, c
  <2>3. CASE ThinkBegins(r, q, b)
    BY <1>2, <2>3, TagTypes DEF ThinkBegins, NoTag, s, c
  <2>4. CASE ToolBegins(r, q, b)
    BY <1>2, <2>4, TagTypes DEF ToolBegins, NoTag, s, c
  <2> QED BY <1>3, <2>1, <2>2, <2>3, <2>4
<1> QED BY <1>3, TakeIs DEF s, c

Takes == [q \in Release |-> Take(q)]

LEMMA ScanIs ==
  ASSUME NEW r \in Release
  PROVE  \E g \in Steps(Release, Takes, r, Len(r.splitter.buf)) :
           Scan(r) = g[Len(r.splitter.buf)]
<1> DEFINE N == Len(r.splitter.buf)
           after[n \in 0 .. N] == IF n = 0 THEN r ELSE Take(after[n - 1])
<1>1. N \in Nat
  BY Bytes DEF Release, Splitter
<1>2. Takes \in [Release -> Release]
  BY TakeIs DEF Takes
<1>3. PICK g \in Steps(Release, Takes, r, N) : TRUE
  BY <1>1, <1>2, StepsExist
<1>4. g \in [0 .. N -> Release] /\ g[0] = r /\ \A k \in 1 .. N : g[k] = Take(g[k - 1])
  <2>1. g \in [0 .. N -> Release] /\ g[0] = r /\ \A k \in 1 .. N : g[k] = Takes[g[k - 1]]
    BY <1>3 DEF Steps
  <2>2. \A k \in 1 .. N : k - 1 \in 0 .. N
    BY <1>1
  <2> QED BY <2>1, <2>2 DEF Takes
<1>5. g = [n \in 0 .. N |-> IF n = 0 THEN r ELSE Take(g[n - 1])]
  <2>1. \A n \in 0 .. N : n # 0 => n \in 1 .. N
    BY <1>1
  <2> QED BY <1>4, <2>1
<1>6. after = [n \in 0 .. N |-> IF n = 0 THEN r ELSE Take(after[n - 1])]
  BY <1>5
<1>7. Scan(r) = after[N]
  BY DEF Scan
<1> HIDE DEF after, N
<1> DEFINE P == {k \in Nat : k \in 0 .. N => after[k] = g[k]}
<1>8. 0 \in P
  BY <1>1, <1>4, <1>6
<1>9. ASSUME NEW k \in Nat, k \in P PROVE k + 1 \in P
  <2> SUFFICES ASSUME k + 1 \in 0 .. N PROVE after[k + 1] = g[k + 1]
    OBVIOUS
  <2>1. (k + 1) - 1 = k /\ k + 1 # 0 /\ k \in 0 .. N
    BY <1>1
  <2>2. after[k + 1] = IF k + 1 = 0 THEN r ELSE Take(after[(k + 1) - 1])
    BY <1>6
  <2>3. g[k + 1] = IF k + 1 = 0 THEN r ELSE Take(g[(k + 1) - 1])
    BY <1>5
  <2> QED BY <1>9, <2>1, <2>2, <2>3
<1> HIDE DEF P
<1>10. N \in P /\ N \in 0 .. N
  BY <1>1, <1>8, <1>9, Induction
<1>11. after[N] = g[N]
  BY <1>10 DEF P
<1> QED BY <1>3, <1>7, <1>11 DEF N

(* What every turn keeps holds behind the loop.                            *)
LEMMA ScanKeeps ==
  ASSUME NEW r \in Release, NEW P, r \in P, \A q \in Release : q \in P => Take(q) \in P
  PROVE  Scan(r) \in P
<1>1. PICK g \in Steps(Release, Takes, r, Len(r.splitter.buf)) :
        Scan(r) = g[Len(r.splitter.buf)]
  BY ScanIs
<1>2. Len(r.splitter.buf) \in Nat
  BY Bytes DEF Release, Splitter
<1>3. Takes \in [Release -> Release] /\ \A q \in Release : q \in P => Takes[q] \in P
  BY TakeIs DEF Takes
<1>4. \A n \in 0 .. Len(r.splitter.buf) : g[n] \in P
  BY <1>2, <1>3, StepsStay
<1> QED BY <1>1, <1>2, <1>4

(* No tag is left behind the loop: it makes as many turns as it needs.     *)
LEMMA ScanEnds ==
  ASSUME NEW r \in Release
  PROVE  Scan(r) \in Release /\ NoTag(Scan(r).splitter)
<1> DEFINE N == Len(r.splitter.buf)
<1>1. PICK g \in Steps(Release, Takes, r, N) : Scan(r) = g[N]
  BY ScanIs
<1>2. N \in Nat /\ \A q \in Release : q.splitter.buf \in Text /\ Len(q.splitter.buf) \in Nat
  BY Bytes DEF Release, Splitter
<1>3. g \in [0 .. N -> Release] /\ g[0] = r /\ \A k \in 1 .. N : g[k] = Take(g[k - 1])
  <2>1. g \in [0 .. N -> Release] /\ g[0] = r /\ \A k \in 1 .. N : g[k] = Takes[g[k - 1]]
    BY <1>1 DEF Steps
  <2>2. \A k \in 1 .. N : k - 1 \in 0 .. N
    BY <1>2
  <2> QED BY <2>1, <2>2 DEF Takes
<1> HIDE DEF N
<1> DEFINE P == {k \in Nat : k \in 0 .. N => \/ NoTag(g[k].splitter)
                                              \/ Len(g[k].splitter.buf) + k <= N}
<1>4. 0 \in P
  BY <1>2, <1>3 DEF N
<1>5. ASSUME NEW k \in Nat, k \in P PROVE k + 1 \in P
  <2> SUFFICES ASSUME k + 1 \in 0 .. N
               PROVE  \/ NoTag(g[k + 1].splitter)
                      \/ Len(g[k + 1].splitter.buf) + (k + 1) <= N
    <3>1. k + 1 \in Nat
      OBVIOUS
    <3> QED BY <3>1, Zenon
  <2>1. (k + 1) - 1 = k /\ k + 1 \in 1 .. N /\ k \in 0 .. N
    BY <1>2
  <2>2. g[k + 1] = Take(g[k]) /\ g[k] \in Release /\ g[k + 1] \in Release
    BY <1>3, <2>1
  <2>3. CASE g[k + 1] = g[k] /\ NoTag(g[k].splitter)
    BY <2>3
  <2>4. CASE /\ ~ NoTag(g[k].splitter)
             /\ Len(g[k + 1].splitter.buf) + 1 <= Len(g[k].splitter.buf)
    <3> DEFINE x == Len(g[k].splitter.buf)
               y == Len(g[k + 1].splitter.buf)
    <3>1. x + k <= N
      BY <1>5, <2>1, <2>4
    <3>2. y \in Nat /\ x \in Nat /\ y + 1 <= x
      BY <1>2, <2>2, <2>4
    <3> HIDE DEF x, y
    <3>3. y + (k + 1) <= N
      BY <1>2, <3>1, <3>2
    <3> QED BY <3>3 DEF y
  <2>5. \/ Take(g[k]) = g[k] /\ NoTag(g[k].splitter)
        \/ /\ ~ NoTag(g[k].splitter)
           /\ Len(Take(g[k]).splitter.buf) + 1 <= Len(g[k].splitter.buf)
    BY <2>2, TakesLess
  <2> QED BY <2>2, <2>3, <2>4, <2>5
<1> HIDE DEF P
<1>6. N \in P /\ N \in 0 .. N
  BY <1>2, <1>4, <1>5, Induction
<1>7. NoTag(g[N].splitter) \/ Len(g[N].splitter.buf) + N <= N
  BY <1>6 DEF P
<1>8. g[N] \in Release
  BY <1>3, <1>6
<1>9. ASSUME Len(g[N].splitter.buf) + N <= N PROVE NoTag(g[N].splitter)
  <2>1. Len(g[N].splitter.buf) = 0
    BY <1>2, <1>8, <1>9
  <2>2. ASSUME NEW t \in Tags, NEW i \in Nat \ {0} PROVE ~ Here(t, g[N].splitter.buf, i)
    BY <2>1, TagTypes DEF Here
  <2> QED BY <2>2, TagTypes DEF NoTag, Absent
<1> QED BY <1>1, <1>7, <1>8, <1>9

-----------------------------------------------------------------------------
(* What is released behind the loop, and what is held back.                *)
LEMMA HoldsTags == Hold \in Nat /\ \A t \in Tags : Len(t) <= Hold + 1
<1> DEFINE L == {Len(t) : t \in Tags}
<1>1. /\ L = {Len(ThinkOpen), Len(ThinkClose), Len(ToolOpen), Len(ToolClose)}
      /\ Len(ThinkOpen) \in Nat \ {0} /\ Len(ThinkClose) \in Nat \ {0}
      /\ Len(ToolOpen) \in Nat \ {0} /\ Len(ToolClose) \in Nat \ {0}
      /\ \A t \in Tags : Len(t) \in L
  BY TagTypes DEF Tags
<1> HIDE DEF L
<1>2. \E x \in L : \A y \in L : x >= y
  <2> DEFINE m == IF Len(ThinkOpen) >= Len(ThinkClose) THEN Len(ThinkOpen) ELSE Len(ThinkClose)
             n == IF Len(ToolOpen) >= Len(ToolClose) THEN Len(ToolOpen) ELSE Len(ToolClose)
             x == IF m >= n THEN m ELSE n
  <2>1. x \in L /\ \A y \in L : x >= y
    BY <1>1
  <2> QED BY <2>1
<1>3. Max(L) \in L /\ \A y \in L : Max(L) >= y
  BY <1>2 DEF Max
<1>4. Hold = Max({Len(t) : t \in Tags}) - 1
  BY DEF Hold
<1>5. L = {Len(t) : t \in Tags}
  BY DEF L
<1>6. Max({Len(t) : t \in Tags}) = Max(L)
  BY <1>5, Zenon
<1>7. Max(L) \in Nat \ {0} /\ \A t \in Tags : Max(L) >= Len(t) /\ Len(t) \in Nat
  BY <1>1, <1>3, TagTypes
<1>8. Hold = Max(L) - 1
  BY <1>4, <1>6
<1> QED BY <1>7, <1>8

Emits(r, q, out) ==
  /\ r.splitter.buf = out \o q.splitter.buf
  /\ (q.splitter.tool <=> r.splitter.tool) /\ (q.splitter.think <=> r.splitter.think)
  /\ q.splitter.calls = r.splitter.calls
  /\ q.splitter.body = IF r.splitter.tool THEN r.splitter.body \o out ELSE r.splitter.body
  /\ q.reasoning = IF ~ r.splitter.tool /\ r.splitter.think
                   THEN r.reasoning \o out ELSE r.reasoning
  /\ q.content = IF ~ r.splitter.tool /\ ~ r.splitter.think
                 THEN r.content \o out ELSE r.content

Fed(s, piece) ==
  [splitter |-> [s EXCEPT !.buf = @ \o piece], content |-> <<>>, reasoning |-> <<>>]

LEMMA FedIs ==
  ASSUME NEW s \in Splitter, NEW piece \in Text
  PROVE  /\ Fed(s, piece) \in Release
         /\ Fed(s, piece).splitter.buf = s.buf \o piece
         /\ Fed(s, piece).splitter.tool = s.tool /\ Fed(s, piece).splitter.think = s.think
         /\ Fed(s, piece).splitter.body = s.body /\ Fed(s, piece).splitter.calls = s.calls
         /\ Fed(s, piece).content = <<>> /\ Fed(s, piece).reasoning = <<>>
<1> DEFINE t == s.buf \o piece
           n == [s EXCEPT !.buf = t]
<1>1. s.buf \in Text
  BY DEF Splitter
<1>2. t \in Text
  BY <1>1, Joined
<1>3. Fed(s, piece) = [splitter |-> n, content |-> <<>>, reasoning |-> <<>>]
  BY DEF Fed
<1> HIDE DEF t
<1>4. /\ n \in Splitter /\ n.buf = t /\ n.tool = s.tool /\ n.think = s.think
      /\ n.body = s.body /\ n.calls = s.calls
  BY <1>2 DEF Splitter
<1> HIDE DEF n
<1> QED BY <1>3, <1>4, NoText DEF Release, t

LEMMA FeedIs ==
  ASSUME splitter \in Splitter, NEW piece \in Text, NEW final \in BOOLEAN
  PROVE  LET r == Scan(Fed(splitter, piece))
             q == Feed(piece, final)
         IN /\ Fed(splitter, piece) \in Release
            /\ r \in Release /\ NoTag(r.splitter) /\ q \in Release
            /\ \E out \in Text :
                 /\ Emits(r, q, out)
                 /\ final => q.splitter.buf = <<>>
                 /\ ~ final /\ Len(out) > 0 => Len(q.splitter.buf) = Hold
<1> DEFINE r == Scan(Fed(splitter, piece))
           s == r.splitter
           n == Len(s.buf)
           keep == IF final THEN 0 ELSE Min({Hold, n})
           out == Before(s.buf, (n - keep) + 1)
           rest == From(s.buf, (n - keep) + 1)
           kept == [s EXCEPT !.buf = rest]
           q == Feed(piece, final)
<1>1. Fed(splitter, piece) \in Release
  BY FedIs
<1>2. r \in Release /\ NoTag(r.splitter)
  BY <1>1, ScanEnds
<1>3. q = CASE s.tool -> [r EXCEPT !.splitter = [kept EXCEPT !.body = @ \o out]]
            [] ~s.tool /\ s.think -> [r EXCEPT !.splitter = kept, !.reasoning = @ \o out]
            [] OTHER -> [r EXCEPT !.splitter = kept, !.content = @ \o out]
  BY DEF Feed, Fed
<1> HIDE DEF r, q
<1>4. /\ s \in Splitter /\ s.buf \in Text /\ s.body \in Text /\ r.content \in Text
      /\ r.reasoning \in Text /\ n \in Nat /\ s.tool \in BOOLEAN /\ s.think \in BOOLEAN
  BY <1>2, Bytes DEF Release, Splitter
<1> HIDE DEF s
<1>5. keep \in 0 .. n /\ (~ final /\ keep < n => keep = Hold) /\ (final => keep = 0)
  <2>1. CASE final
    BY <1>4, <2>1
  <2>2. CASE ~ final
    <3>1. Min({Hold, n}) = IF Hold <= n THEN Hold ELSE n
      BY <1>4, HoldsTags DEF Min
    <3> QED BY <1>4, <2>2, <3>1, HoldsTags
  <2> QED BY <2>1, <2>2
<1> HIDE DEF keep
<1>6. /\ out \in Text /\ rest \in Text /\ out \o rest = s.buf
      /\ Len(out) = n - keep /\ Len(rest) = keep
  <2> DEFINE i == (n - keep) + 1
  <2>1. i \in 1 .. Len(s.buf) + 1 /\ i - 1 = n - keep /\ (n + 1) - i = keep
    BY <1>4, <1>5
  <2>2. s.buf \in Seq(Byte)
    BY <1>4 DEF Text
  <2>3. /\ out = Before(s.buf, i) /\ rest = From(s.buf, i)
    OBVIOUS
  <2> HIDE DEF i, out, rest
  <2>4. /\ Before(s.buf, i) \in Seq(Byte) /\ Len(Before(s.buf, i)) = i - 1
    BY <2>1, <2>2, CutTypes
  <2>5. From(s.buf, i) \in Seq(Byte) /\ Len(From(s.buf, i)) = (Len(s.buf) + 1) - i
    BY <2>1, <2>2, CutTypes
  <2>6. Before(s.buf, i) \o From(s.buf, i) = s.buf
    BY <2>1, <2>2, CutTypes
  <2> QED BY <2>1, <2>3, <2>4, <2>5, <2>6 DEF Text
<1> HIDE DEF out, rest
<1>7. /\ kept \in Splitter /\ kept.buf = rest /\ (kept.tool <=> s.tool)
      /\ (kept.think <=> s.think) /\ kept.body = s.body /\ kept.calls = s.calls
  BY <1>4, <1>6 DEF Splitter
<1> HIDE DEF kept
<1>8. final => rest = <<>>
  BY <1>5, <1>6, EmptySeq DEF Text
<1>9. ~ final /\ Len(out) > 0 => Len(rest) = Hold
  BY <1>4, <1>5, <1>6
<1>10. s.body \o out \in Text /\ r.reasoning \o out \in Text /\ r.content \o out \in Text
  BY <1>4, <1>6, Joined
<1>11. q \in Release /\ q.splitter.buf = rest /\ Emits(r, q, out)
  <2>1. CASE s.tool
    <3> DEFINE body == s.body \o out
               k == [kept EXCEPT !.body = body]
    <3>1. q = [r EXCEPT !.splitter = k]
      BY <1>3, <1>7, <2>1
    <3>2. body \in Text
      BY <1>10
    <3> HIDE DEF body
    <3>3. /\ k \in Splitter /\ k.buf = rest /\ (k.tool <=> s.tool)
          /\ (k.think <=> s.think) /\ k.body = body /\ k.calls = s.calls
      BY <1>7, <3>2 DEF Splitter
    <3> HIDE DEF k
    <3>4. q \in Release /\ q.splitter = k /\ q.content = r.content /\ q.reasoning = r.reasoning
      BY <1>2, <3>1, <3>3 DEF Release
    <3> QED BY <1>6, <2>1, <3>3, <3>4 DEF Emits, s, body
  <2>2. CASE ~ s.tool /\ s.think
    <3> DEFINE said == r.reasoning \o out
    <3>1. q = [r EXCEPT !.splitter = kept, !.reasoning = said] /\ said \in Text
      BY <1>3, <1>10, <2>2
    <3> HIDE DEF said
    <3>2. q \in Release /\ q.splitter = kept /\ q.content = r.content /\ q.reasoning = said
      BY <1>2, <1>7, <3>1 DEF Release
    <3> QED BY <1>6, <1>7, <2>2, <3>2 DEF Emits, s, said
  <2>3. CASE ~ s.tool /\ ~ s.think
    <3> DEFINE said == r.content \o out
    <3>1. q = [r EXCEPT !.splitter = kept, !.content = said] /\ said \in Text
      BY <1>3, <1>10, <2>3
    <3> HIDE DEF said
    <3>2. q \in Release /\ q.splitter = kept /\ q.content = said /\ q.reasoning = r.reasoning
      BY <1>2, <1>7, <3>1 DEF Release
    <3> QED BY <1>6, <1>7, <2>3, <3>2 DEF Emits, s, said
  <2> QED BY <2>1, <2>2, <2>3
<1> QED BY <1>1, <1>2, <1>6, <1>8, <1>9, <1>11 DEF r, q

-----------------------------------------------------------------------------
(* Texts put together.                                                     *)
LEMMA Assoc ==
  ASSUME NEW a \in Text, NEW b \in Text, NEW c \in Text
  PROVE  (a \o b) \o c = a \o (b \o c)
<1>1. a \in Seq(Byte) /\ b \in Seq(Byte) /\ c \in Seq(Byte)
  BY DEF Text
<1> QED BY <1>1, ConcatAssociative

LEMMA Padded ==
  ASSUME NEW a \in Text
  PROVE  a \o <<>> = a /\ <<>> \o a = a
<1>1. a \in Seq(Byte)
  BY DEF Text
<1> QED BY <1>1, ConcatEmptySeq

LEMMA TextJoined == ASSUME NEW a \in Text, NEW b \in Text PROVE a \o b \in Text
BY Joined

LEMMA WholeIs == ASSUME NEW s \in Text PROVE Whole(s) \in 0 .. Len(s)
<1> DEFINE n == Len(s)
           leads == {i \in 1 .. n : i > n - 4 /\ CharLen[s[i]] # 0}
<1>1. n \in Nat
  BY Bytes
<1>2. LastCharStart(s) = IF leads = {} THEN n + 1 ELSE Max(leads)
  BY DEF LastCharStart
<1>3. leads # {} => Max(leads) \in 1 .. n
  <2>1. leads \subseteq 1 .. n
    OBVIOUS
  <2> HIDE DEF leads, n
  <2> QED BY <1>1, <2>1, Latest
<1> HIDE DEF leads, n
<1>4. LastCharStart(s) \in 1 .. n + 1
  BY <1>1, <1>2, <1>3
<1>5. Whole(s) = n \/ (LastCharStart(s) <= n /\ Whole(s) = LastCharStart(s) - 1)
  BY <1>1, <1>4 DEF Whole, n
<1> QED BY <1>1, <1>4, <1>5 DEF n

(* What one stream passes on of `add`, and what it then carries.           *)
PassesOn(old, add, now, kept) ==
  IF add = <<>> THEN now = <<>> /\ kept = old
  ELSE now = Before(old \o add, Whole(old \o add) + 1) /\ kept = Carried(old \o add)

LEMMA PassesWhole ==
  ASSUME NEW old \in Text, NEW add \in Text, NEW now, NEW kept, PassesOn(old, add, now, kept)
  PROVE  /\ now \in Text /\ kept \in Text /\ now \o kept = old \o add
         /\ WellBegun(old \o add) /\ (WellFormed(old) => old = <<>>) =>
              /\ WellFormed(now) /\ (WellFormed(kept) => kept = <<>>)
              /\ WellFormed(old \o add) => kept = <<>>
<1> DEFINE s == old \o add
<1>1. s \in Text /\ <<>> \in Text /\ old \o <<>> = old /\ <<>> \o old = old
  BY TextJoined, Padded, NoText
<1>2. CASE add = <<>>
  BY <1>1, <1>2, NoText DEF PassesOn
<1>3. CASE add # <<>>
  <2>1. now = Before(s, Whole(s) + 1) /\ kept = Carried(s)
    BY <1>3 DEF PassesOn
  <2> HIDE DEF s
  <2>2. s \in Seq(Byte) /\ Whole(s) + 1 \in 1 .. Len(s) + 1
    BY <1>1, WholeIs, Bytes DEF Text
  <2>3. Before(s, Whole(s) + 1) \in Seq(Byte)
    BY <2>2, CutTypes
  <2>4. From(s, Whole(s) + 1) \in Seq(Byte)
    BY <2>2, CutTypes
  <2>5. Before(s, Whole(s) + 1) \o From(s, Whole(s) + 1) = s
    BY <2>2, CutTypes
  <2>6. now \in Text /\ kept \in Text /\ now \o kept = s
    BY <2>1, <2>3, <2>4, <2>5 DEF Carried, Text
  <2>7. ASSUME WellBegun(s)
        PROVE  /\ WellFormed(now) /\ (WellFormed(kept) => kept = <<>>)
               /\ WellFormed(s) => kept = <<>>
    <3>1. WellFormed(now) /\ (WellFormed(s) => kept = <<>>)
      BY <1>1, <2>1, <2>7, CutsWhole
    <3>2. WellFormed(kept) => WellFormed(now \o kept)
      BY <2>6, <3>1, GoesOnWell
    <3> QED BY <2>6, <3>1, <3>2
  <2> QED BY <2>6, <2>7 DEF s
<1> QED BY <1>2, <1>3

LEMMA ReleasedIs ==
  ASSUME carry \in Delta, alive \in BOOLEAN, NEW c \in Text, NEW th \in Text, Released(c, th)
  PROVE  \E nowC, nowTh \in Text :
           /\ carry' \in Delta /\ alive' \in BOOLEAN
           /\ PassesOn(carry.content, c, nowC, carry'.content)
           /\ PassesOn(carry.reasoning, th, nowTh, carry'.reasoning)
           /\ \/ ~ alive' /\ sent' = sent
              \/ alive' = alive /\ sent' = sent /\ nowC = <<>> /\ nowTh = <<>>
              \/ /\ alive /\ alive' = alive
                 /\ sent' = Append(sent, [content |-> nowC, reasoning |-> nowTh])
<1>1. carry.content \in Text /\ carry.reasoning \in Text /\ <<>> \in Text
  BY NoText DEF Delta
<1>2. CASE c = <<>> /\ th = <<>>
  <2>1. carry' = carry /\ sent' = sent /\ alive' = alive
    BY <1>2 DEF Released
  <2> QED BY <1>1, <1>2, <2>1 DEF PassesOn
<1>3. CASE ~ (c = <<>> /\ th = <<>>)
  <2> DEFINE textC == carry.content \o c
             textTh == carry.reasoning \o th
             nowC == IF c = <<>> THEN <<>> ELSE Before(textC, Whole(textC) + 1)
             nowTh == IF th = <<>> THEN <<>> ELSE Before(textTh, Whole(textTh) + 1)
             keptC == IF c = <<>> THEN carry.content ELSE Carried(textC)
             keptTh == IF th = <<>> THEN carry.reasoning ELSE Carried(textTh)
             delta == [content |-> nowC, reasoning |-> nowTh]
  <2>1. OnDelta(c, th)
    BY <1>3 DEF Released
  <2>2. /\ carry' = [content |-> keptC, reasoning |-> keptTh]
        /\ IF delta = NoDelta THEN UNCHANGED <<sent, alive>>
           ELSE \/ alive /\ sent' = Append(sent, delta) /\ UNCHANGED alive
                \/ alive' = FALSE /\ UNCHANGED sent
    BY <2>1 DEF OnDelta
  <2>3. PassesOn(carry.content, c, nowC, keptC) /\ PassesOn(carry.reasoning, th, nowTh, keptTh)
    BY DEF PassesOn
  <2> HIDE DEF nowC, nowTh, keptC, keptTh
  <2>4. nowC \in Text /\ keptC \in Text /\ nowTh \in Text /\ keptTh \in Text
    BY <1>1, <2>3, PassesWhole
  <2>5. /\ carry' \in Delta /\ carry'.content = keptC /\ carry'.reasoning = keptTh
    BY <2>2, <2>4 DEF Delta
  <2>6. CASE delta = NoDelta
    <3>1. nowC = <<>> /\ nowTh = <<>>
      <4>1. delta.content = NoDelta.content /\ delta.reasoning = NoDelta.reasoning
        BY <2>6, Zenon
      <4> QED BY <4>1 DEF NoDelta
    <3>2. alive' = alive /\ sent' = sent
      BY <2>2, <2>6
    <3> QED BY <2>3, <2>4, <2>5, <3>1, <3>2
  <2>7. CASE delta # NoDelta
    <3>1. \/ alive /\ sent' = Append(sent, delta) /\ alive' = alive
          \/ alive' = FALSE /\ sent' = sent
      BY <2>2, <2>7
    <3> QED BY <2>3, <2>4, <2>5, <3>1
  <2> QED BY <2>6, <2>7
<1> QED BY <1>2, <1>3

LEMMA StopAtIs ==
  ASSUME NEW text \in Text, NEW before \in Nat
  PROVE  /\ StopAt(text, before) \in Nat
         /\ StopAt(text, before) # 0 => StopAt(text, before) \in 1 .. Len(text) + 1
<1> DEFINE cuts(k) == /\ Stops[k] # <<>>
                      /\ Find(text, Stops[k], SearchFrom(before, Stops[k])) # 0
           hits == {k \in 1 .. Len(Stops) : cuts(k)}
           m == Min(hits)
           i == Find(text, Stops[m], SearchFrom(before, Stops[m]))
<1>1. StopAt(text, before) = IF hits = {} THEN 0 ELSE i
  BY DEF StopAt
<1>2. ASSUME hits # {} PROVE i \in Nat /\ i \in 1 .. Len(text) + 1
  <2>1. hits \subseteq Nat
    OBVIOUS
  <2>2. PICK k \in hits : \A y \in hits : k <= y
    BY <1>2, <2>1, Least
  <2>3. m \in hits
    BY <2>2 DEF Min
  <2>4. m \in 1 .. Len(Stops) /\ i # 0
    BY <2>3
  <2> HIDE DEF m, hits
  <2>5. Stops[m] \in Seq(Byte) /\ text \in Seq(Byte) /\ Len(Stops[m]) \in Nat /\ Len(text) \in Nat
    BY <2>4, TextAssumption, ElementOfSeq, LenProperties DEF Text
  <2>6. SearchFrom(before, Stops[m]) \in Nat \ {0}
    BY <2>5 DEF SearchFrom
  <2>7. i \in Nat /\ Here(Stops[m], text, i)
    BY <2>4, <2>5, <2>6, Finds
  <2> QED BY <2>4, <2>5, <2>7 DEF Here
<1> QED BY <1>1, <1>2

LEMMA BeforeIs ==
  ASSUME NEW text \in Text, NEW i \in 1 .. Len(text) + 1
  PROVE  Before(text, i) \in Text
<1>1. text \in Seq(Byte)
  BY DEF Text
<1> QED BY <1>1, CutTypes DEF Text

-----------------------------------------------------------------------------
(* Every variable keeps its type, and no answer is longer than it may be.  *)
TypeInv == TypeOK /\ (phase = "decode" => count < MaxNew)

(* A call of the splitter, for the state it is made in.                    *)
LEMMA FeedTypes ==
  ASSUME TypeOK, NEW piece \in Text, NEW final \in BOOLEAN
  PROVE  LET q == Feed(piece, final)
         IN /\ q.splitter \in Splitter /\ q.content \in Text /\ q.reasoning \in Text
            /\ content \o q.content \in Text /\ reasoning \o q.reasoning \in Text
<1> DEFINE q == Feed(piece, final)
<1>1. splitter \in Splitter /\ content \in Text /\ reasoning \in Text
  BY DEF TypeOK, Splitter
<1>2. q \in Release
  BY <1>1, FeedIs
<1> HIDE DEF q
<1>3. q.splitter \in Splitter /\ q.content \in Text /\ q.reasoning \in Text
  BY <1>2 DEF Release
<1> QED BY <1>1, <1>3, Joined DEF q

LEMMA ReleaseTypes ==
  ASSUME TypeOK, NEW c \in Text, NEW th \in Text, Released(c, th)
  PROVE  carry' \in Delta /\ alive' \in BOOLEAN /\ sent' \in Seq(Delta)
<1>1. carry \in Delta /\ alive \in BOOLEAN /\ sent \in Seq(Delta)
  BY DEF TypeOK
<1>2. PICK nowC \in Text, nowTh \in Text :
        /\ carry' \in Delta /\ alive' \in BOOLEAN
        /\ \/ ~ alive' /\ sent' = sent
           \/ alive' = alive /\ sent' = sent /\ nowC = <<>> /\ nowTh = <<>>
           \/ /\ alive /\ alive' = alive
              /\ sent' = Append(sent, [content |-> nowC, reasoning |-> nowTh])
  BY <1>1, ReleasedIs
<1>3. [content |-> nowC, reasoning |-> nowTh] \in Delta
  BY DEF Delta
<1> QED BY <1>1, <1>2, <1>3, AppendProperties

LEMMA TypesInit == Init => TypeInv
<1> SUFFICES ASSUME Init PROVE TypeInv
  OBVIOUS
<1>1. <<>> \in Text /\ <<>> \in Seq(Text) /\ <<>> \in Seq(Delta)
  BY NoText, EmptySeq
<1>2. splitter = [buf |-> <<>>, think |-> thinking, tool |-> FALSE, body |-> <<>>, calls |-> <<>>]
      /\ thinking \in BOOLEAN
  BY DEF Init
<1>3. splitter \in [buf : Text, think : BOOLEAN, tool : BOOLEAN, body : Text, calls : Seq(Text)]
  BY <1>1, <1>2
<1>4. carry \in Delta
  BY <1>1 DEF Init, NoDelta, Delta
<1>5. count \in 0 .. MaxNew /\ count < MaxNew
  BY TextAssumption DEF Init
<1> QED BY <1>1, <1>3, <1>4, <1>5 DEF Init, TypeInv, TypeOK

LEMMA TypesToken ==
  ASSUME TypeInv, NEW piece \in Pieces, Token(piece)
  PROVE  TypeInv'
<1> DEFINE q == Feed(piece, FALSE)
           text == content \o q.content
           cut == StopAt(text, Len(content))
<1>1. /\ TypeOK /\ piece \in Text /\ count \in 0 .. MaxNew /\ count < MaxNew /\ MaxNew \in Nat
      /\ all \in Text /\ thinking \in BOOLEAN /\ content \in Text
      /\ hitStop \in BOOLEAN /\ finish \in {"length", "stop", "abort"}
  BY TextAssumption DEF TypeInv, TypeOK, Token, Text
<1>2. /\ q.splitter \in Splitter /\ q.content \in Text /\ q.reasoning \in Text
      /\ text \in Text /\ reasoning \o q.reasoning \in Text
  BY <1>1, FeedTypes
<1>3. all \o piece \in Text
  BY <1>1, Joined
<1>4. /\ all' = all \o piece /\ splitter' = q.splitter /\ thinking' = thinking
      /\ reasoning' = reasoning \o q.reasoning /\ Released(q.content, q.reasoning)
      /\ \/ /\ finish' = "abort" /\ phase' = "flush" /\ content' = text
            /\ hitStop' = hitStop /\ count' = count
         \/ /\ cut # 0
            /\ hitStop' = TRUE /\ finish' = "stop" /\ phase' = "flush"
            /\ content' = Before(text, cut) /\ count' = count
         \/ /\ content' = text /\ count' = count + 1
            /\ phase' = IF LastOne(count + 1) THEN "flush" ELSE "decode"
            /\ hitStop' = hitStop /\ finish' = finish
  BY DEF Token
<1> HIDE DEF q
<1>5. carry' \in Delta /\ alive' \in BOOLEAN /\ sent' \in Seq(Delta)
  BY <1>1, <1>2, <1>4, ReleaseTypes
<1>6. cut # 0 => Before(text, cut) \in Text
  BY <1>1, <1>2, Bytes, StopAtIs, BeforeIs
<1>7. content' \in Text
  BY <1>2, <1>4, <1>6
<1> HIDE DEF text, cut
<1>8. /\ count' \in 0 .. MaxNew /\ hitStop' \in BOOLEAN
      /\ finish' \in {"length", "stop", "abort"} /\ phase' \in {"decode", "flush", "tail", "done"}
      /\ phase' = "decode" => count' < MaxNew
  <2>1. count' \in 0 .. MaxNew /\ (phase' = "decode" => count' < MaxNew)
    BY <1>1, <1>4 DEF LastOne
  <2>2. finish' \in {"length", "stop", "abort"} /\ phase' \in {"decode", "flush", "tail", "done"}
    BY <1>1, <1>4
  <2>3. hitStop' \in BOOLEAN
    BY <1>1, <1>4
  <2> QED BY <2>1, <2>2, <2>3
<1>9. /\ all' \in Text /\ thinking' \in BOOLEAN /\ reasoning' \in Text
      /\ splitter' \in Splitter
  BY <1>1, <1>2, <1>3, <1>4
<1> QED BY <1>5, <1>7, <1>8, <1>9 DEF TypeInv, TypeOK, Splitter

LEMMA TypesFlush == ASSUME TypeInv, Flush PROVE TypeInv'
<1> DEFINE q == Feed(<<>>, TRUE)
           text == content \o q.content
           cut == FlushScan(text, Len(content))
<1>1. /\ TypeOK /\ <<>> \in Text /\ TRUE \in BOOLEAN /\ hitStop \in BOOLEAN
      /\ content \in Text /\ reasoning \in Text
      /\ carry \in Delta /\ sent \in Seq(Delta) /\ alive \in BOOLEAN
      /\ finish \in {"length", "stop", "abort"}
      /\ all \in Text /\ thinking \in BOOLEAN /\ count \in 0 .. MaxNew
  BY NoText DEF TypeInv, TypeOK
<1>2. /\ q.splitter \in Splitter /\ q.content \in Text /\ q.reasoning \in Text
      /\ text \in Text /\ reasoning \o q.reasoning \in Text
  BY <1>1, FeedTypes
<1>3. /\ phase' = "tail" /\ splitter' = q.splitter /\ all' = all /\ thinking' = thinking
      /\ count' = count
      /\ IF hitStop
         THEN /\ content' = content /\ reasoning' = reasoning /\ carry' = carry
              /\ sent' = sent /\ alive' = alive /\ hitStop' = hitStop /\ finish' = finish
         ELSE /\ reasoning' = reasoning \o q.reasoning
              /\ content' = IF cut # 0 THEN Before(text, cut) ELSE text
              /\ hitStop' = (cut # 0)
              /\ finish' = IF cut # 0 THEN "stop" ELSE finish
              /\ Released(IF cut # 0 THEN <<>> ELSE q.content, q.reasoning)
  BY DEF Flush
<1> HIDE DEF q
<1>4. cut # 0 => Before(text, cut) \in Text
  BY <1>1, <1>2, Bytes, StopAtIs, BeforeIs DEF FlushScan
<1>5. ~ hitStop => carry' \in Delta /\ alive' \in BOOLEAN /\ sent' \in Seq(Delta)
  <2>1. (IF cut # 0 THEN <<>> ELSE q.content) \in Text
    BY <1>1, <1>2
  <2> HIDE DEF cut
  <2> QED BY <1>1, <1>2, <1>3, <2>1, ReleaseTypes
<1> HIDE DEF text, cut
<1>6. carry' \in Delta /\ alive' \in BOOLEAN /\ sent' \in Seq(Delta)
  BY <1>1, <1>3, <1>5
<1>7. content' \in Text /\ reasoning' \in Text
  BY <1>1, <1>2, <1>3, <1>4
<1>8. hitStop' \in BOOLEAN /\ finish' \in {"length", "stop", "abort"}
  BY <1>1, <1>3
<1>9. /\ all' \in Text /\ thinking' \in BOOLEAN /\ count' \in 0 .. MaxNew
      /\ splitter' \in Splitter /\ phase' = "tail"
  BY <1>1, <1>2, <1>3
<1> QED BY <1>6, <1>7, <1>8, <1>9 DEF TypeInv, TypeOK, Splitter

LEMMA TypesTail == ASSUME TypeInv, FlushTail PROVE TypeInv'
<1> DEFINE mark(c) == IF c = <<>> THEN <<>> ELSE <<Replacement>>
           delta == [content |-> mark(carry.content), reasoning |-> mark(carry.reasoning)]
<1>1. carry \in Delta /\ sent \in Seq(Delta) /\ alive \in BOOLEAN
  BY DEF TypeInv, TypeOK
<1>2. <<>> \in Text /\ <<Replacement>> \in Text
  BY NoText, TextAssumption DEF Text
<1>3. delta \in Delta /\ NoDelta \in Delta
  BY <1>2 DEF Delta, NoDelta
<1>4. IF alive /\ carry # NoDelta
      THEN /\ \/ sent' = Append(sent, delta) /\ alive' = alive
              \/ alive' = FALSE /\ sent' = sent
           /\ carry' = NoDelta
      ELSE sent' = sent /\ alive' = alive /\ carry' = carry
  BY DEF FlushTail
<1> HIDE DEF delta
<1>5. carry' \in Delta /\ sent' \in Seq(Delta) /\ alive' \in BOOLEAN
  <2>1. Append(sent, delta) \in Seq(Delta)
    BY <1>1, <1>3, AppendProperties
  <2>2. carry' \in Delta
    BY <1>1, <1>3, <1>4
  <2>3. sent' \in Seq(Delta)
    BY <1>1, <1>4, <2>1
  <2>4. alive' \in BOOLEAN
    BY <1>1, <1>4
  <2> QED BY <2>2, <2>3, <2>4
<1> QED BY <1>5 DEF FlushTail, TypeInv, TypeOK

LEMMA TypesStep == ASSUME TypeInv, [Next]_vars PROVE TypeInv'
<1>1. CASE \E piece \in Pieces : Token(piece)
  BY <1>1, TypesToken
<1>2. CASE StopToken
  BY <1>2 DEF StopToken, TypeInv, TypeOK
<1>3. CASE Flush
  BY <1>3, TypesFlush
<1>4. CASE FlushTail
  BY <1>4, TypesTail
<1>5. CASE UNCHANGED vars
  BY <1>5 DEF vars, TypeInv, TypeOK
<1> QED BY <1>1, <1>2, <1>3, <1>4, <1>5 DEF Next

(* Every variable of the way from tokens to text has its type (generate    *)
(* and ReasoningSplitter in src/server).                                   *)
THEOREM TypeCorrect == Spec => []TypeOK
<1>1. Init => TypeInv
  BY TypesInit
<1>2. TypeInv /\ [Next]_vars => TypeInv'
  BY TypesStep
<1>3. TypeInv => TypeOK
  BY DEF TypeInv
<1> QED BY <1>1, <1>2, <1>3, PTL DEF Spec

-----------------------------------------------------------------------------
(* The lemmas about texts put together, with an operator the provers do    *)
(* not look into.                                                          *)
a ++ b == a \o b

LEMMA Closed == \A a, b \in Text : a ++ b \in Text
BY TextJoined DEF ++

LEMMA AssocT ==
  ASSUME NEW a \in Text, NEW b \in Text, NEW c \in Text
  PROVE  (a ++ b) ++ c = a ++ (b ++ c)
BY Assoc DEF ++

LEMMA PaddedT == ASSUME NEW a \in Text PROVE a ++ <<>> = a /\ <<>> ++ a = a
BY Padded DEF ++

LEMMA BeginsT ==
  ASSUME NEW p \in Text, NEW q \in Text, WellBegun(p ++ q)
  PROVE  WellBegun(p)
BY BeginsWell DEF ++

LEMMA GoesOnT ==
  ASSUME NEW p \in Text, NEW q \in Text, WellFormed(p)
  PROVE  /\ WellBegun(p ++ q) <=> WellBegun(q)
         /\ WellFormed(p ++ q) <=> WellFormed(q)
BY GoesOnWell DEF ++

LEMMA WholeBeforeT ==
  ASSUME NEW p \in Text, NEW q \in Text, WellBegun(p ++ q), Len(q) > 0, CharLen[q[1]] # 0
  PROVE  WellFormed(p)
BY WholeBefore DEF ++

(* Where the splitter is in the text a: behind whole characters p, in a    *)
(* stretch g between two tags of which it has released all but its buffer. *)
(* What it released earlier ends with a whole character, in both streams.  *)
Along(a, s, C, R) ==
  \E p, o, g \in Text :
    /\ a = p ++ (g ++ s.buf) /\ WellFormed(p) /\ WellFormed(o)
    /\ s.tool => WellFormed(C) /\ WellFormed(R)
    /\ ~ s.tool /\ s.think => WellFormed(C) /\ R = o ++ g
    /\ ~ s.tool /\ ~ s.think => WellFormed(R) /\ C = o ++ g

(* Tags are made of characters of one byte: what stands around one is      *)
(* whole, if the text is.                                                  *)
LEMMA AroundTag ==
  ASSUME NEW p \in Text, NEW g \in Text, NEW b \in Text, NEW t \in Tags, NEW c \in Text,
         WellFormed(p), WellBegun(p ++ (g ++ (b ++ (t ++ c))))
  PROVE  LET q == (p ++ (g ++ b)) ++ t
         IN /\ WellFormed(g ++ b) /\ q \in Text /\ WellFormed(q)
            /\ p ++ (g ++ (b ++ (t ++ c))) = q ++ (<<>> ++ c)
<1> DEFINE m == g ++ b
           e == p ++ m
           f == t ++ c
           q == e ++ t
<1>1. t \in Text /\ Len(t) \in Nat \ {0} /\ \A i \in 1 .. Len(t) : CharLen[t[i]] = 1
  BY TagTypes, TagAssumption
<1>2. m \in Text /\ f \in Text /\ WellFormed(t)
  BY <1>1, Closed, PlainText
<1>3. e \in Text
  BY <1>2, Closed
<1>4. q \in Text
  BY <1>1, <1>3, Closed
<1>5. p ++ (g ++ (b ++ f)) = e ++ f
  <2>1. g ++ (b ++ f) = m ++ f
    BY <1>2, AssocT
  <2>2. p ++ (m ++ f) = e ++ f
    BY <1>2, AssocT
  <2> QED BY <2>1, <2>2
<1>6. e ++ f = q ++ c /\ <<>> ++ c = c
  <2>1. e ++ f = q ++ c
    BY <1>1, <1>3, AssocT
  <2>2. <<>> ++ c = c
    BY PaddedT
  <2> QED BY <2>1, <2>2
<1>7. Len(f) > 0 /\ CharLen[f[1]] # 0
  <2>1. Len(f) = Len(t) + Len(c) /\ Len(c) \in Nat /\ \A i \in 1 .. Len(t) : f[i] = t[i]
    BY <1>1, Joined, Bytes DEF ++
  <2>2. 1 \in 1 .. Len(t)
    BY <1>1
  <2> QED BY <1>1, <2>1, <2>2
<1>8. WellBegun(e ++ f)
  BY <1>5
<1> HIDE DEF m, e, f, q
<1>9. WellFormed(e)
  BY <1>2, <1>3, <1>7, <1>8, WholeBeforeT
<1>10. WellFormed(m)
  BY <1>2, <1>9, GoesOnT DEF e
<1>11. WellFormed(q)
  BY <1>1, <1>2, <1>3, <1>9, GoesOnT DEF q
<1>12. p ++ (g ++ (b ++ (t ++ c))) = q ++ (<<>> ++ c)
  BY <1>5, <1>6 DEF f
<1> QED BY <1>4, <1>10, <1>11, <1>12 DEF q, e, m

LEMMA AlongTake ==
  ASSUME NEW r \in Release, NEW a \in Text, NEW C \in Text, NEW R \in Text, WellBegun(a),
         Along(a, r.splitter, C ++ r.content, R ++ r.reasoning)
  PROVE  Along(a, Take(r).splitter, C ++ Take(r).content, R ++ Take(r).reasoning)
<1> DEFINE q == Take(r)
           Cr == C ++ r.content
           Rr == R ++ r.reasoning
<1>1. PICK p, o, g :
        /\ p \in Text /\ o \in Text /\ g \in Text
        /\ a = p ++ (g ++ r.splitter.buf) /\ WellFormed(p) /\ WellFormed(o)
        /\ r.splitter.tool => WellFormed(Cr) /\ WellFormed(Rr)
        /\ ~ r.splitter.tool /\ r.splitter.think => WellFormed(Cr) /\ Rr = o ++ g
        /\ ~ r.splitter.tool /\ ~ r.splitter.think => WellFormed(Rr) /\ Cr = o ++ g
  BY DEF Along
<1>2. q \in Release
  BY TakeIs
<1>3. /\ r.content \in Text /\ r.reasoning \in Text /\ q.splitter.buf \in Text
      /\ q.content \in Text /\ q.reasoning \in Text /\ <<>> \in Text /\ WellFormed(<<>>)
  BY <1>2, NoText DEF Release, Splitter
<1>4. Cr \in Text /\ Rr \in Text /\ Cr ++ <<>> = Cr /\ Rr ++ <<>> = Rr
      /\ Cr = C ++ r.content /\ Rr = R ++ r.reasoning
  BY <1>3, Closed, PaddedT
<1> HIDE DEF q, Cr, Rr
<1>0. p \in Text /\ o \in Text /\ g \in Text
  BY <1>1
<1>5. ASSUME NEW b \in Text
      PROVE  Cr ++ b = C ++ (r.content ++ b) /\ Rr ++ b = R ++ (r.reasoning ++ b)
  <2>1. (C ++ r.content) ++ b = C ++ (r.content ++ b)
    BY <1>3, <1>5, AssocT
  <2>2. (R ++ r.reasoning) ++ b = R ++ (r.reasoning ++ b)
    BY <1>3, <1>5, AssocT
  <2> QED BY <1>4, <2>1, <2>2, Zenon
<1>6. ASSUME NEW b \in Text, NEW t \in Tags, r.splitter.buf = b ++ (t ++ q.splitter.buf)
      PROVE  /\ WellFormed(g ++ b)
             /\ \E e \in Text : WellFormed(e) /\ a = e ++ (<<>> ++ q.splitter.buf)
  <2> DEFINE c == q.splitter.buf
  <2>1. a = p ++ (g ++ (b ++ (t ++ c))) /\ c \in Text
    BY <1>1, <1>3, <1>6
  <2> HIDE DEF c
  <2>2. WellBegun(p ++ (g ++ (b ++ (t ++ c))))
    BY <2>1
  <2>3. WellFormed(g ++ b)
    BY <1>1, <1>6, <2>1, <2>2, AroundTag
  <2>4. LET e == (p ++ (g ++ b)) ++ t
        IN e \in Text /\ WellFormed(e) /\ p ++ (g ++ (b ++ (t ++ c))) = e ++ (<<>> ++ c)
    BY <1>1, <1>6, <2>1, <2>2, AroundTag
  <2> QED BY <2>1, <2>3, <2>4 DEF c
<1>7. ASSUME NEW b \in Text PROVE /\ (o ++ g) ++ b = o ++ (g ++ b) /\ g ++ b \in Text
                                  /\ WellFormed(g ++ b) => WellFormed(o ++ (g ++ b))
  <2>1. (o ++ g) ++ b = o ++ (g ++ b)
    BY <1>0, <1>7, AssocT
  <2>2. g ++ b \in Text
    BY <1>1, <1>7, Closed
  <2> QED BY <1>1, <1>7, <2>1, <2>2, GoesOnT
<1>8. CASE q = r
  BY <1>8 DEF q
<1>9. ASSUME NEW b \in Text, ToolEnds(r, q, b)
      PROVE  Along(a, q.splitter, C ++ q.content, R ++ q.reasoning)
  <2>1. r.splitter.buf = b ++ (ToolClose ++ q.splitter.buf) /\ r.splitter.tool
        /\ ~ q.splitter.tool /\ q.content = r.content /\ q.reasoning = r.reasoning
    BY <1>9 DEF ToolEnds, ++
  <2>2. PICK e \in Text : WellFormed(e) /\ a = e ++ (<<>> ++ q.splitter.buf)
    BY <1>6, <2>1, TagTypes
  <2>3. WellFormed(Cr) /\ WellFormed(Rr)
    BY <1>1, <2>1
  <2>4. CASE q.splitter.think
    BY <1>3, <1>4, <2>1, <2>2, <2>3, <2>4 DEF Along, Cr, Rr
  <2>5. CASE ~ q.splitter.think
    BY <1>3, <1>4, <2>1, <2>2, <2>3, <2>5 DEF Along, Cr, Rr
  <2> QED BY <2>4, <2>5
<1>10. ASSUME NEW b \in Text, ThinkEnds(r, q, b)
       PROVE  Along(a, q.splitter, C ++ q.content, R ++ q.reasoning)
  <2>1. /\ r.splitter.buf = b ++ (ThinkClose ++ q.splitter.buf) /\ ~ r.splitter.tool
        /\ r.splitter.think /\ ~ q.splitter.tool /\ ~ q.splitter.think
        /\ q.content = r.content /\ q.reasoning = r.reasoning ++ b
    BY <1>10 DEF ThinkEnds, ++
  <2>2. PICK e \in Text : WellFormed(e) /\ a = e ++ (<<>> ++ q.splitter.buf)
    BY <1>6, <2>1, TagTypes
  <2>3. WellFormed(g ++ b)
    BY <1>6, <2>1, TagTypes
  <2>4. WellFormed(Cr) /\ Rr = o ++ g
    BY <1>1, <2>1
  <2>5. WellFormed(R ++ q.reasoning)
    <3>1. R ++ q.reasoning = Rr ++ b
      BY <1>5, <2>1
    <3>2. Rr ++ b = o ++ (g ++ b)
      BY <1>7, <2>4
    <3> QED BY <1>7, <2>3, <3>1, <3>2
  <2>6. C ++ q.content = Cr ++ <<>>
    BY <1>4, <2>1 DEF Cr
  <2> QED BY <1>3, <1>4, <2>1, <2>2, <2>4, <2>5, <2>6 DEF Along
<1>11. ASSUME NEW b \in Text, NEW t \in Tags,
              /\ r.splitter.buf = b ++ (t ++ q.splitter.buf) /\ ~ r.splitter.tool
              /\ ~ r.splitter.think /\ (q.splitter.tool \/ q.splitter.think)
              /\ q.content = r.content ++ b /\ q.reasoning = r.reasoning
       PROVE  Along(a, q.splitter, C ++ q.content, R ++ q.reasoning)
  <2>2. PICK e \in Text : WellFormed(e) /\ a = e ++ (<<>> ++ q.splitter.buf)
    BY <1>6, <1>11
  <2>3. WellFormed(g ++ b)
    BY <1>6, <1>11
  <2>4. WellFormed(Rr) /\ Cr = o ++ g
    BY <1>1, <1>11
  <2>5. WellFormed(C ++ q.content)
    <3>1. C ++ q.content = Cr ++ b
      BY <1>5, <1>11
    <3>2. Cr ++ b = o ++ (g ++ b)
      BY <1>7, <2>4
    <3> QED BY <1>7, <2>3, <3>1, <3>2
  <2>6. R ++ q.reasoning = Rr ++ <<>> /\ WellFormed(R ++ q.reasoning)
    BY <1>4, <1>11, <2>4 DEF Rr
  <2>7. CASE q.splitter.tool
    BY <1>3, <1>4, <2>2, <2>4, <2>5, <2>6, <2>7 DEF Along
  <2>8. CASE ~ q.splitter.tool
    BY <1>3, <1>4, <1>11, <2>2, <2>4, <2>5, <2>6, <2>8 DEF Along
  <2> QED BY <2>7, <2>8
<1>12. ASSUME NEW b \in Text, ThinkBegins(r, q, b) \/ ToolBegins(r, q, b)
       PROVE  Along(a, q.splitter, C ++ q.content, R ++ q.reasoning)
  BY <1>11, <1>12, TagTypes DEF ThinkBegins, ToolBegins, ++
<1> QED BY <1>8, <1>9, <1>10, <1>12, TakeIs DEF q

LEMMA AlongOut ==
  ASSUME NEW r \in Release, NEW q \in Release, NEW out \in Text, Emits(r, q, out),
         NEW a \in Text, NEW C \in Text, NEW R \in Text,
         Along(a, r.splitter, C ++ r.content, R ++ r.reasoning)
  PROVE  Along(a, q.splitter, C ++ q.content, R ++ q.reasoning)
<1> DEFINE Cr == C ++ r.content
           Rr == R ++ r.reasoning
<1>1. PICK p, o, g :
        /\ p \in Text /\ o \in Text /\ g \in Text
        /\ a = p ++ (g ++ r.splitter.buf) /\ WellFormed(p) /\ WellFormed(o)
        /\ r.splitter.tool => WellFormed(Cr) /\ WellFormed(Rr)
        /\ ~ r.splitter.tool /\ r.splitter.think => WellFormed(Cr) /\ Rr = o ++ g
        /\ ~ r.splitter.tool /\ ~ r.splitter.think => WellFormed(Rr) /\ Cr = o ++ g
  BY DEF Along
<1>2. r.content \in Text /\ r.reasoning \in Text /\ q.splitter.buf \in Text
  BY DEF Release, Splitter
<1>0. p \in Text /\ o \in Text /\ g \in Text
      /\ Cr = C ++ r.content /\ Rr = R ++ r.reasoning
  BY <1>1
<1> HIDE DEF Cr, Rr
<1>3. /\ g ++ out \in Text /\ (o ++ g) ++ out = o ++ (g ++ out)
      /\ g ++ (out ++ q.splitter.buf) = (g ++ out) ++ q.splitter.buf
      /\ Cr ++ out = C ++ (r.content ++ out) /\ Rr ++ out = R ++ (r.reasoning ++ out)
  <2>0. g ++ out \in Text
    BY <1>0, Closed
  <2>1. (o ++ g) ++ out = o ++ (g ++ out)
    BY <1>0, AssocT
  <2>2. g ++ (out ++ q.splitter.buf) = (g ++ out) ++ q.splitter.buf
    BY <1>0, <1>2, AssocT
  <2>3. (C ++ r.content) ++ out = C ++ (r.content ++ out)
    BY <1>2, AssocT
  <2>4. (R ++ r.reasoning) ++ out = R ++ (r.reasoning ++ out)
    BY <1>2, AssocT
  <2> QED BY <1>0, <2>0, <2>1, <2>2, <2>3, <2>4, Zenon
<1>e. /\ r.splitter.buf = out ++ q.splitter.buf
      /\ (q.splitter.tool <=> r.splitter.tool) /\ (q.splitter.think <=> r.splitter.think)
      /\ q.reasoning = IF ~ r.splitter.tool /\ r.splitter.think
                       THEN r.reasoning ++ out ELSE r.reasoning
      /\ q.content = IF ~ r.splitter.tool /\ ~ r.splitter.think
                     THEN r.content ++ out ELSE r.content
  BY DEF Emits, ++
<1>4. a = p ++ ((g ++ out) ++ q.splitter.buf)
  BY <1>1, <1>3, <1>e
<1>5. CASE r.splitter.tool
  <2>1. C ++ q.content = Cr /\ R ++ q.reasoning = Rr /\ q.splitter.tool
    BY <1>0, <1>5, <1>e
  <2> QED BY <1>1, <1>3, <1>4, <1>5, <2>1 DEF Along
<1>6. CASE ~ r.splitter.tool /\ r.splitter.think
  <2>1. C ++ q.content = Cr /\ R ++ q.reasoning = Rr ++ out /\ ~ q.splitter.tool /\ q.splitter.think
    BY <1>0, <1>3, <1>6, <1>e
  <2>2. WellFormed(Cr) /\ Rr ++ out = o ++ (g ++ out)
    BY <1>1, <1>3, <1>6
  <2> QED BY <1>1, <1>3, <1>4, <2>1, <2>2 DEF Along
<1>7. CASE ~ r.splitter.tool /\ ~ r.splitter.think
  <2>1. /\ C ++ q.content = Cr ++ out /\ R ++ q.reasoning = Rr /\ ~ q.splitter.tool
        /\ ~ q.splitter.think
    BY <1>0, <1>3, <1>7, <1>e
  <2>2. WellFormed(Rr) /\ Cr ++ out = o ++ (g ++ out)
    BY <1>1, <1>3, <1>7
  <2> QED BY <1>1, <1>3, <1>4, <2>1, <2>2 DEF Along
<1> QED BY <1>5, <1>6, <1>7

LEMMA AlongFeed ==
  ASSUME splitter \in Splitter, NEW piece \in Text, NEW final \in BOOLEAN,
         NEW a \in Text, NEW C \in Text, NEW R \in Text,
         WellBegun(a ++ piece), Along(a, splitter, C, R)
  PROVE  LET q == Feed(piece, final)
         IN Along(a ++ piece, q.splitter, C ++ q.content, R ++ q.reasoning)
<1> DEFINE f == Fed(splitter, piece)
           r == Scan(f)
           q == Feed(piece, final)
           b == a ++ piece
           P == {x \in Release : Along(b, x.splitter, C ++ x.content, R ++ x.reasoning)}
<1>1. f \in Release /\ r \in Release /\ q \in Release /\ \E out \in Text : Emits(r, q, out)
  BY FeedIs
<1>2. b \in Text /\ C ++ <<>> = C /\ R ++ <<>> = R /\ splitter.buf \in Text
  BY Closed, PaddedT DEF Splitter
<1>3. /\ f.splitter.buf = splitter.buf ++ piece
      /\ f.splitter.tool = splitter.tool /\ f.splitter.think = splitter.think
      /\ f.content = <<>> /\ f.reasoning = <<>>
  BY FedIs DEF ++
<1>4. WellBegun(b)
  OBVIOUS
<1>5. Along(b, f.splitter, C ++ f.content, R ++ f.reasoning)
  <2>1. PICK p, o, g :
          /\ p \in Text /\ o \in Text /\ g \in Text
          /\ a = p ++ (g ++ splitter.buf) /\ WellFormed(p) /\ WellFormed(o)
          /\ splitter.tool => WellFormed(C) /\ WellFormed(R)
          /\ ~ splitter.tool /\ splitter.think => WellFormed(C) /\ R = o ++ g
          /\ ~ splitter.tool /\ ~ splitter.think => WellFormed(R) /\ C = o ++ g
    BY DEF Along
  <2> HIDE DEF f, r, q, b, P
  <2>0. p \in Text /\ o \in Text /\ g \in Text
    BY <2>1
  <2>2. (p ++ (g ++ splitter.buf)) ++ piece = p ++ (g ++ (splitter.buf ++ piece))
    <3>0. g ++ splitter.buf \in Text
      BY <1>2, <2>0, Closed
    <3>1. (g ++ splitter.buf) ++ piece = g ++ (splitter.buf ++ piece)
      BY <1>2, <2>0, AssocT
    <3>2. (p ++ (g ++ splitter.buf)) ++ piece = p ++ ((g ++ splitter.buf) ++ piece)
      BY <2>0, <3>0, AssocT
    <3> QED BY <3>1, <3>2
  <2>3. b = p ++ (g ++ f.splitter.buf)
    BY <1>3, <2>1, <2>2 DEF b
  <2> QED BY <1>2, <1>3, <2>1, <2>3 DEF Along
<1> HIDE DEF f, q, b
<1>6. f \in P /\ \A x \in Release : x \in P => Take(x) \in P
  BY <1>1, <1>2, <1>4, <1>5, TakeIs, AlongTake
<1> HIDE DEF P
<1>7. r \in P
  BY <1>1, <1>6, ScanKeeps
<1> HIDE DEF r
<1> QED BY <1>1, <1>2, <1>7, AlongOut DEF P, q, b

LEMMA AlongWell ==
  ASSUME NEW a \in Text, NEW s \in Splitter, NEW C \in Text, NEW R \in Text,
         WellBegun(a), Along(a, s, C, R)
  PROVE  /\ WellBegun(C) /\ WellBegun(R)
         /\ s.buf = <<>> /\ WellFormed(a) => WellFormed(C) /\ WellFormed(R)
<1>1. PICK p, o, g :
        /\ p \in Text /\ o \in Text /\ g \in Text
        /\ a = p ++ (g ++ s.buf) /\ WellFormed(p) /\ WellFormed(o)
        /\ s.tool => WellFormed(C) /\ WellFormed(R)
        /\ ~ s.tool /\ s.think => WellFormed(C) /\ R = o ++ g
        /\ ~ s.tool /\ ~ s.think => WellFormed(R) /\ C = o ++ g
  BY DEF Along
<1>2. s.buf \in Text /\ g ++ s.buf \in Text
  BY <1>1, Closed DEF Splitter
<1>3. WellBegun(g ++ s.buf) /\ (WellFormed(a) => WellFormed(g ++ s.buf))
  BY <1>1, <1>2, GoesOnT
<1>4. WellBegun(g)
  BY <1>1, <1>2, <1>3, BeginsT
<1>5. s.buf = <<>> /\ WellFormed(a) => WellFormed(g)
  BY <1>1, <1>3, PaddedT
<1>6. WellBegun(o ++ g) /\ (WellFormed(g) => WellFormed(o ++ g))
  BY <1>1, <1>4, GoesOnT
<1>7. \A x : WellFormed(x) => WellBegun(x)
  BY DEF WellFormed
<1> QED BY <1>1, <1>5, <1>6, <1>7

-----------------------------------------------------------------------------
(* What a stream has had of a text, and what it carries.                   *)
Follows(text, streamed, carried) ==
  /\ text = streamed ++ carried
  /\ WellFormed(streamed)
  /\ WellFormed(carried) => carried = <<>>

SentWell ==
  \A i \in 1 .. Len(sent) : WellFormed(sent[i].content) /\ WellFormed(sent[i].reasoning)

StreamInv ==
  WellBegun(all) =>
    /\ SentWell
    /\ alive /\ ~ hitStop /\ phase \in {"decode", "flush"} =>
         /\ Along(all, splitter, content, reasoning)
         /\ Follows(content, Streamed("content"), carry.content)
         /\ Follows(reasoning, Streamed("reasoning"), carry.reasoning)
    /\ alive /\ ~ hitStop /\ phase \in {"tail", "done"} /\ WellFormed(all) =>
         /\ carry.content = <<>> /\ carry.reasoning = <<>>
         /\ Streamed("content") = content /\ Streamed("reasoning") = reasoning

Undecided == phase = "decode" => alive /\ ~ hitStop

LEMMA FollowsOn ==
  ASSUME NEW text \in Text, NEW streamed \in Text, NEW old \in Text, NEW add \in Text,
         NEW now, NEW kept, Follows(text, streamed, old), PassesOn(old, add, now, kept),
         WellBegun(text ++ add)
  PROVE  /\ now \in Text /\ WellFormed(now)
         /\ Follows(text ++ add, streamed ++ now, kept)
         /\ WellFormed(text ++ add) => kept = <<>>
<1>1. text = streamed ++ old /\ WellFormed(streamed) /\ (WellFormed(old) => old = <<>>)
  BY DEF Follows
<1>2. old ++ add \in Text
  BY Closed
<1>3. text ++ add = streamed ++ (old ++ add)
  BY <1>1, AssocT
<1>4. /\ WellBegun(old ++ add)
      /\ WellFormed(text ++ add) <=> WellFormed(old ++ add)
  BY <1>1, <1>2, <1>3, GoesOnT
<1>5. /\ now \in Text /\ kept \in Text /\ now ++ kept = old ++ add
      /\ WellFormed(now) /\ (WellFormed(kept) => kept = <<>>)
      /\ WellFormed(old ++ add) => kept = <<>>
  BY <1>1, <1>4, PassesWhole DEF ++
<1>6. (streamed ++ now) ++ kept = streamed ++ (now ++ kept)
  BY <1>5, AssocT
<1>7. WellFormed(streamed ++ now)
  BY <1>1, <1>5, GoesOnT
<1> QED BY <1>3, <1>4, <1>5, <1>6, <1>7 DEF Follows

LEMMA StreamedOn ==
  ASSUME sent \in Seq(Delta)
  PROVE  /\ Streamed("content") \in Text /\ Streamed("reasoning") \in Text
         /\ \A d \in Delta : sent' = Append(sent, d) =>
              /\ Streamed("content")' = Streamed("content") ++ d.content
              /\ Streamed("reasoning")' = Streamed("reasoning") ++ d.reasoning
<1> DEFINE n == Len(sent)
           c == [i \in 1 .. n |-> sent[i].content]
           t == [i \in 1 .. n |-> sent[i].reasoning]
<1>1. n \in Nat /\ \A i \in 1 .. n : sent[i].content \in Text /\ sent[i].reasoning \in Text
  <2>1. n \in Nat /\ \A i \in 1 .. n : sent[i] \in Delta
    BY LenProperties, ElementOfSeq
  <2> QED BY <2>1 DEF Delta
<1>2. c \in Seq(Text) /\ t \in Seq(Text) /\ Len(c) = n /\ Len(t) = n
  BY <1>1, SeqDef, LenProperties
<1>3. Streamed("content") = FlattenSeq(c) /\ Streamed("reasoning") = FlattenSeq(t)
  BY DEF Streamed
<1>4. ASSUME NEW d \in Delta, sent' = Append(sent, d)
      PROVE  /\ Streamed("content")' = FlattenSeq(Append(c, d.content))
             /\ Streamed("reasoning")' = FlattenSeq(Append(t, d.reasoning))
  <2>0. d.content \in Text /\ d.reasoning \in Text
    BY <1>4 DEF Delta
  <2>1. /\ sent' \in Seq(Delta) /\ Len(sent') = n + 1 /\ sent'[n + 1] = d
        /\ \A i \in 1 .. n : sent'[i] = sent[i]
    BY <1>4, AppendProperties
  <2>2. /\ Append(c, d.content) \in Seq(Text) /\ Len(Append(c, d.content)) = n + 1
        /\ Append(c, d.content)[n + 1] = d.content
        /\ \A i \in 1 .. n : Append(c, d.content)[i] = c[i]
    BY <1>2, <2>0, AppendProperties
  <2>3. /\ Append(t, d.reasoning) \in Seq(Text) /\ Len(Append(t, d.reasoning)) = n + 1
        /\ Append(t, d.reasoning)[n + 1] = d.reasoning
        /\ \A i \in 1 .. n : Append(t, d.reasoning)[i] = t[i]
    BY <1>2, <2>0, AppendProperties
  <2> DEFINE cc == [i \in 1 .. Len(sent') |-> sent'[i].content]
             tt == [i \in 1 .. Len(sent') |-> sent'[i].reasoning]
  <2>4. /\ \A i \in 1 .. n + 1 : i \in 1 .. n \/ i = n + 1
        /\ 1 .. Len(sent') = 1 .. n + 1
    BY <1>1, <2>1
  <2>5. /\ \A i \in 1 .. n + 1 : cc[i] = Append(c, d.content)[i]
        /\ \A i \in 1 .. n + 1 : tt[i] = Append(t, d.reasoning)[i]
    BY <2>1, <2>2, <2>3, <2>4
  <2>6. cc \in Seq(Text) /\ Len(cc) = n + 1 /\ tt \in Seq(Text) /\ Len(tt) = n + 1
    <3>1. n + 1 \in Nat /\ \A i \in 1 .. n + 1 : cc[i] \in Text /\ tt[i] \in Text
      BY <1>1, <2>0, <2>1, <2>4
    <3> QED BY <2>1, <3>1, SeqDef, LenProperties
  <2> HIDE DEF cc, tt, c, t, n
  <2>7. cc = Append(c, d.content)
    BY <2>2, <2>5, <2>6, SeqEqual
  <2>8. tt = Append(t, d.reasoning)
    BY <2>3, <2>5, <2>6, SeqEqual
  <2>9. Streamed("content")' = FlattenSeq(cc) /\ Streamed("reasoning")' = FlattenSeq(tt)
    BY DEF Streamed, cc, tt
  <2> QED BY <2>7, <2>8, <2>9
<1> HIDE DEF c, t
<1>5. ASSUME NEW d \in Delta
      PROVE  /\ FlattenSeq(Append(c, d.content)) = FlattenSeq(c) ++ d.content
             /\ FlattenSeq(Append(t, d.reasoning)) = FlattenSeq(t) ++ d.reasoning
  <2>1. d.content \in Text /\ d.reasoning \in Text
    BY <1>5 DEF Delta
  <2>2. FlattenSeq(Append(c, d.content)) = FlattenSeq(c) ++ d.content
    BY <1>2, <2>1, FlattensOn DEF ++
  <2>3. FlattenSeq(Append(t, d.reasoning)) = FlattenSeq(t) ++ d.reasoning
    BY <1>2, <2>1, FlattensOn DEF ++
  <2> QED BY <2>2, <2>3
<1>6. FlattenSeq(c) \in Text /\ FlattenSeq(t) \in Text
  BY <1>2, NoText, FlattensOn
<1> QED BY <1>3, <1>4, <1>5, <1>6

(* One release, on its way through the carries.                            *)
LEMMA StreamOn ==
  ASSUME TypeOK, SentWell, NEW c \in Text, NEW th \in Text, Released(c, th),
         WellBegun(content ++ c), WellBegun(reasoning ++ th),
         Follows(content, Streamed("content"), carry.content),
         Follows(reasoning, Streamed("reasoning"), carry.reasoning)
  PROVE  /\ SentWell'
         /\ alive' =>
              /\ Follows(content ++ c, Streamed("content")', carry'.content)
              /\ Follows(reasoning ++ th, Streamed("reasoning")', carry'.reasoning)
              /\ WellFormed(content ++ c) => carry'.content = <<>>
              /\ WellFormed(reasoning ++ th) => carry'.reasoning = <<>>
<1>1. /\ carry \in Delta /\ alive \in BOOLEAN /\ sent \in Seq(Delta)
      /\ content \in Text /\ reasoning \in Text
      /\ carry.content \in Text /\ carry.reasoning \in Text
  BY DEF TypeOK, Delta
<1>2. PICK nowC \in Text, nowTh \in Text :
        /\ PassesOn(carry.content, c, nowC, carry'.content)
        /\ PassesOn(carry.reasoning, th, nowTh, carry'.reasoning)
        /\ \/ ~ alive' /\ sent' = sent
           \/ alive' = alive /\ sent' = sent /\ nowC = <<>> /\ nowTh = <<>>
           \/ /\ alive /\ alive' = alive
              /\ sent' = Append(sent, [content |-> nowC, reasoning |-> nowTh])
  BY <1>1, ReleasedIs
<1> DEFINE d == [content |-> nowC, reasoning |-> nowTh]
<1>3. Streamed("content") \in Text /\ Streamed("reasoning") \in Text
  BY <1>1, StreamedOn
<1>4. /\ WellFormed(nowC)
      /\ Follows(content ++ c, Streamed("content") ++ nowC, carry'.content)
      /\ WellFormed(content ++ c) => carry'.content = <<>>
  BY <1>1, <1>2, <1>3, FollowsOn
<1>5. /\ WellFormed(nowTh)
      /\ Follows(reasoning ++ th, Streamed("reasoning") ++ nowTh, carry'.reasoning)
      /\ WellFormed(reasoning ++ th) => carry'.reasoning = <<>>
  BY <1>1, <1>2, <1>3, FollowsOn
<1>6. d \in Delta /\ d.content = nowC /\ d.reasoning = nowTh
  BY <1>2 DEF Delta
<1> HIDE DEF d
<1>7. CASE sent' = Append(sent, d)
  <2>1. /\ Streamed("content")' = Streamed("content") ++ nowC
        /\ Streamed("reasoning")' = Streamed("reasoning") ++ nowTh
    BY <1>1, <1>6, <1>7, StreamedOn
  <2>2. /\ Len(sent) \in Nat /\ Len(sent') = Len(sent) + 1 /\ sent'[Len(sent) + 1] = d
        /\ \A i \in 1 .. Len(sent) : sent'[i] = sent[i]
    BY <1>1, <1>6, <1>7, AppendProperties, LenProperties
  <2>3. ASSUME NEW i \in 1 .. Len(sent')
        PROVE  WellFormed(sent'[i].content) /\ WellFormed(sent'[i].reasoning)
    <3>1. i \in 1 .. Len(sent) \/ i = Len(sent) + 1
      BY <2>2
    <3>2. CASE i \in 1 .. Len(sent)
      BY <2>2, <3>2 DEF SentWell
    <3>3. CASE i = Len(sent) + 1
      BY <1>4, <1>5, <1>6, <2>2, <3>3
    <3> QED BY <3>1, <3>2, <3>3
  <2> QED BY <1>4, <1>5, <2>1, <2>3 DEF SentWell
<1>8. CASE sent' = sent
  <2>1. SentWell' /\ Streamed("content")' = Streamed("content")
        /\ Streamed("reasoning")' = Streamed("reasoning")
    BY <1>8 DEF SentWell, Streamed
  <2>2. CASE nowC = <<>> /\ nowTh = <<>>
    BY <1>3, <1>4, <1>5, <2>1, <2>2, PaddedT
  <2>3. CASE ~ alive'
    BY <2>1, <2>3
  <2>4. CASE alive /\ alive' = alive /\ sent' = Append(sent, d)
    BY <1>7, <2>4
  <2> QED BY <1>2, <2>2, <2>3, <2>4 DEF d
<1> QED BY <1>2, <1>7, <1>8 DEF d

-----------------------------------------------------------------------------
(* Every step keeps what is known of a stream.                             *)
LEMMA StreamToken ==
  ASSUME TypeInv, StreamInv, Undecided, NEW piece \in Pieces, Token(piece)
  PROVE  StreamInv' /\ Undecided'
<1> DEFINE q == Feed(piece, FALSE)
           text == content \o q.content
           cut == StopAt(text, Len(content))
<1>1. /\ TypeOK /\ piece \in Text /\ FALSE \in BOOLEAN /\ alive \in BOOLEAN /\ all \in Text
      /\ content \in Text /\ reasoning \in Text /\ splitter \in Splitter
  BY TextAssumption DEF TypeInv, TypeOK, Text, Splitter
<1>2. /\ q.splitter \in Splitter /\ q.content \in Text /\ q.reasoning \in Text
      /\ content ++ q.content \in Text /\ reasoning ++ q.reasoning \in Text
  BY <1>1, FeedTypes DEF ++
<1>3. /\ phase = "decode" /\ alive /\ ~ hitStop
      /\ all' = all ++ piece /\ splitter' = q.splitter
      /\ reasoning' = reasoning ++ q.reasoning /\ Released(q.content, q.reasoning)
  BY DEF Token, Undecided, ++
<1>4. \/ /\ ~ alive' /\ phase' = "flush"
      \/ /\ hitStop' = TRUE /\ phase' = "flush"
      \/ /\ alive' /\ content' = content ++ q.content /\ hitStop' = hitStop
         /\ phase' \in {"flush", "decode"}
  BY DEF Token, ++
<1>5. ASSUME WellBegun(all ++ piece), Along(all, splitter, content, reasoning)
      PROVE  /\ Along(all ++ piece, q.splitter, content ++ q.content, reasoning ++ q.reasoning)
  BY <1>1, <1>5, AlongFeed
<1> HIDE DEF q, text, cut
<1>6. Undecided'
  BY <1>3, <1>4 DEF Undecided
<1>7. ASSUME WellBegun(all')
      PROVE  /\ SentWell'
             /\ alive' /\ ~ hitStop' /\ phase' \in {"decode", "flush"} =>
                  /\ Along(all, splitter, content, reasoning)'
                  /\ Follows(content, Streamed("content"), carry.content)'
                  /\ Follows(reasoning, Streamed("reasoning"), carry.reasoning)'
             /\ phase' \in {"decode", "flush"}
  <2>1. WellBegun(all)
    BY <1>1, <1>3, <1>7, BeginsT
  <2>2. /\ SentWell /\ Along(all, splitter, content, reasoning)
        /\ Follows(content, Streamed("content"), carry.content)
        /\ Follows(reasoning, Streamed("reasoning"), carry.reasoning)
    BY <1>3, <2>1 DEF StreamInv
  <2>3. Along(all', splitter', content ++ q.content, reasoning ++ q.reasoning)
    BY <1>3, <1>5, <1>7, <2>2
  <2>4. WellBegun(content ++ q.content) /\ WellBegun(reasoning ++ q.reasoning)
    <3>1. all' \in Text /\ splitter' \in Splitter
      BY <1>1, <1>2, <1>3, Closed
    <3> QED BY <1>2, <1>7, <2>3, <3>1, AlongWell
  <2>5. /\ SentWell'
        /\ alive' =>
             /\ Follows(content ++ q.content, Streamed("content")', carry'.content)
             /\ Follows(reasoning ++ q.reasoning, Streamed("reasoning")', carry'.reasoning)
    BY <1>1, <1>2, <1>3, <2>2, <2>4, StreamOn
  <2>6. /\ alive' /\ ~ hitStop' => content' = content ++ q.content
        /\ phase' \in {"decode", "flush"}
    BY <1>4
  <2> QED BY <1>3, <2>3, <2>5, <2>6
<1> QED BY <1>6, <1>7 DEF StreamInv

LEMMA StreamFlush ==
  ASSUME TypeInv, StreamInv, Flush
  PROVE  StreamInv' /\ Undecided'
<1> DEFINE q == Feed(<<>>, TRUE)
           text == content \o q.content
           cut == FlushScan(text, Len(content))
           c == IF cut # 0 THEN <<>> ELSE q.content
           ct == content ++ q.content
           rt == reasoning ++ q.reasoning
<1>1. /\ TypeOK /\ <<>> \in Text /\ TRUE \in BOOLEAN /\ alive \in BOOLEAN /\ all \in Text
      /\ content \in Text /\ reasoning \in Text /\ splitter \in Splitter
      /\ all ++ <<>> = all /\ content ++ <<>> = content /\ hitStop \in BOOLEAN
  BY NoText, PaddedT DEF TypeInv, TypeOK, Splitter
<1>2. /\ q.splitter \in Splitter /\ q.content \in Text /\ q.reasoning \in Text
      /\ ct \in Text /\ rt \in Text
  BY <1>1, FeedTypes DEF ++
<1>3. /\ phase = "flush" /\ phase' = "tail" /\ all' = all /\ splitter' = q.splitter
      /\ hitStop => sent' = sent /\ hitStop'
      /\ ~ hitStop => /\ reasoning' = rt
                      /\ hitStop' = (cut # 0)
                      /\ cut = 0 => content' = ct
                      /\ Released(c, q.reasoning)
  BY DEF Flush, ++
<1>4. q.splitter.buf = <<>>
  BY <1>1, FeedIs
<1>5. ASSUME WellBegun(all), Along(all, splitter, content, reasoning)
      PROVE  Along(all, q.splitter, ct, rt)
  <2>1. WellBegun(all ++ <<>>)
    BY <1>1, <1>5
  <2>2. Along(all ++ <<>>, q.splitter, content ++ q.content, reasoning ++ q.reasoning)
    BY <1>1, <1>5, <2>1, AlongFeed
  <2> QED BY <1>1, <2>2
<1>6. c \in Text /\ (c = <<>> \/ c = q.content) /\ (cut = 0 => c = q.content)
  BY <1>1, <1>2
<1> HIDE DEF q, text, cut, c
<1>7. ASSUME WellBegun(all'), hitStop PROVE SentWell' /\ hitStop' = TRUE
  <2>1. SentWell /\ sent' = sent
    BY <1>3, <1>7 DEF StreamInv
  <2> QED BY <1>3, <1>7, <2>1 DEF SentWell
<1>8. ASSUME WellBegun(all'), ~ hitStop, ~ alive PROVE SentWell' /\ ~ alive'
  <2>1. SentWell
    BY <1>3, <1>8 DEF StreamInv
  <2>2. carry \in Delta
    BY <1>1 DEF TypeOK
  <2>3. sent' = sent /\ ~ alive'
    BY <1>1, <1>2, <1>3, <1>6, <1>8, <2>2, ReleasedIs
  <2> QED BY <2>1, <2>3 DEF SentWell
<1>9. ASSUME WellBegun(all'), ~ hitStop, alive
      PROVE  /\ SentWell'
             /\ alive' /\ ~ hitStop' /\ WellFormed(all') =>
                  /\ carry'.content = <<>> /\ carry'.reasoning = <<>>
                  /\ Streamed("content")' = content' /\ Streamed("reasoning")' = reasoning'
  <2>1. /\ SentWell /\ Along(all, splitter, content, reasoning)
        /\ Follows(content, Streamed("content"), carry.content)
        /\ Follows(reasoning, Streamed("reasoning"), carry.reasoning)
    BY <1>3, <1>9 DEF StreamInv
  <2>2. Along(all, q.splitter, ct, rt)
    BY <1>3, <1>5, <1>9, <2>1
  <2>3. /\ WellBegun(ct) /\ WellBegun(rt) /\ WellBegun(content)
        /\ WellFormed(all) => WellFormed(ct) /\ WellFormed(rt)
    <3>1. /\ WellBegun(ct) /\ WellBegun(rt)
          /\ q.splitter.buf = <<>> /\ WellFormed(all) => WellFormed(ct) /\ WellFormed(rt)
      <4> HIDE DEF ct, rt
      <4> QED BY <1>1, <1>2, <1>3, <1>9, <2>2, AlongWell
    <3>2. WellBegun(content)
      BY <1>1, <1>2, <3>1, BeginsT
    <3> QED BY <1>4, <3>1, <3>2
  <2>4. WellBegun(content ++ c)
    BY <1>1, <1>6, <2>3
  <2>5. /\ SentWell'
        /\ alive' =>
             /\ Follows(content ++ c, Streamed("content")', carry'.content)
             /\ Follows(reasoning ++ q.reasoning, Streamed("reasoning")', carry'.reasoning)
             /\ WellFormed(content ++ c) => carry'.content = <<>>
             /\ WellFormed(reasoning ++ q.reasoning) => carry'.reasoning = <<>>
    BY <1>1, <1>2, <1>3, <1>6, <1>9, <2>1, <2>3, <2>4, StreamOn
  <2>6. ASSUME alive', ~ hitStop', WellFormed(all')
        PROVE  /\ carry'.content = <<>> /\ carry'.reasoning = <<>>
               /\ Streamed("content")' = content' /\ Streamed("reasoning")' = reasoning'
    <3>1. cut = 0 /\ content' = ct /\ reasoning' = rt /\ content ++ c = ct
      BY <1>3, <1>6, <1>9, <2>6
    <3>2. /\ Follows(ct, Streamed("content")', carry'.content)
          /\ Follows(rt, Streamed("reasoning")', carry'.reasoning)
          /\ carry'.content = <<>> /\ carry'.reasoning = <<>>
      BY <1>3, <2>3, <2>5, <2>6, <3>1
    <3>3. Streamed("content")' \in Text /\ Streamed("reasoning")' \in Text
      <4>1. sent' \in Seq(Delta)
        BY <1>1, <1>2, <1>3, <1>6, <1>9, ReleaseTypes
      <4>2. (sent \in Seq(Delta) => Streamed("content") \in Text /\ Streamed("reasoning") \in Text)'
        BY StreamedOn, PTL
      <4> QED BY <4>1, <4>2
    <3> QED BY <3>1, <3>2, <3>3, PaddedT DEF Follows
  <2> QED BY <2>5, <2>6
<1> QED BY <1>1, <1>3, <1>7, <1>8, <1>9 DEF StreamInv, Undecided

LEMMA StreamTail ==
  ASSUME TypeInv, StreamInv, FlushTail
  PROVE  StreamInv' /\ Undecided'
<1> DEFINE mark(x) == IF x = <<>> THEN <<>> ELSE <<Replacement>>
           d == [content |-> mark(carry.content), reasoning |-> mark(carry.reasoning)]
<1>1. /\ carry \in Delta /\ sent \in Seq(Delta) /\ alive \in BOOLEAN
  BY DEF TypeInv, TypeOK
<1>2. <<Replacement>> \in Text /\ WellFormed(<<Replacement>>) /\ WellFormed(<<>>) /\ <<>> \in Text
  <2>1. <<Replacement>> \in Text /\ Len(<<Replacement>>) = 1 /\ <<Replacement>>[1] = Replacement
        /\ CharLen[Replacement] = 1
    BY TextAssumption DEF Text
  <2>2. \A i \in 1 .. Len(<<Replacement>>) : CharLen[<<Replacement>>[i]] = 1
    BY <2>1
  <2> QED BY <2>1, <2>2, PlainText, NoText
<1>3. d \in Delta /\ WellFormed(d.content) /\ WellFormed(d.reasoning)
  BY <1>2 DEF Delta
<1>4. /\ phase = "tail" /\ phase' = "done" /\ all' = all /\ content' = content
      /\ reasoning' = reasoning /\ hitStop' = hitStop
      /\ IF alive /\ carry # NoDelta
         THEN /\ \/ sent' = Append(sent, d) /\ alive' = alive
                 \/ alive' = FALSE /\ sent' = sent
              /\ carry' = NoDelta
         ELSE sent' = sent /\ alive' = alive /\ carry' = carry
  BY DEF FlushTail
<1> HIDE DEF d
<1>5. ASSUME WellBegun(all') PROVE SentWell'
  <2>1. SentWell
    BY <1>4, <1>5 DEF StreamInv
  <2>2. CASE sent' = sent
    BY <2>1, <2>2 DEF SentWell
  <2>3. CASE sent' = Append(sent, d)
    <3>1. /\ Len(sent) \in Nat /\ Len(sent') = Len(sent) + 1 /\ sent'[Len(sent) + 1] = d
          /\ \A i \in 1 .. Len(sent) : sent'[i] = sent[i]
      BY <1>1, <1>3, <2>3, AppendProperties, LenProperties
    <3>2. ASSUME NEW i \in 1 .. Len(sent')
          PROVE  WellFormed(sent'[i].content) /\ WellFormed(sent'[i].reasoning)
      <4>1. i \in 1 .. Len(sent) \/ i = Len(sent) + 1
        BY <3>1
      <4>2. CASE i \in 1 .. Len(sent)
        BY <2>1, <3>1, <4>2 DEF SentWell
      <4>3. CASE i = Len(sent) + 1
        BY <1>3, <3>1, <4>3
      <4> QED BY <4>1, <4>2, <4>3
    <3> QED BY <3>2 DEF SentWell
  <2> QED BY <1>4, <2>2, <2>3
<1>6. ASSUME WellBegun(all'), alive', ~ hitStop', WellFormed(all')
      PROVE  /\ carry'.content = <<>> /\ carry'.reasoning = <<>>
             /\ Streamed("content")' = content' /\ Streamed("reasoning")' = reasoning'
  <2>1. alive
    BY <1>1, <1>4, <1>6
  <2>2. /\ carry.content = <<>> /\ carry.reasoning = <<>>
        /\ Streamed("content") = content /\ Streamed("reasoning") = reasoning
    BY <1>4, <1>6, <2>1 DEF StreamInv
  <2>3. carry = NoDelta
    BY <1>1, <2>2 DEF Delta, NoDelta
  <2>4. sent' = sent /\ carry' = carry
    BY <1>4, <2>3
  <2> QED BY <1>4, <2>2, <2>4 DEF Streamed
<1> QED BY <1>4, <1>5, <1>6 DEF StreamInv, Undecided

LEMMA StreamInit == Init => StreamInv /\ Undecided
<1> SUFFICES ASSUME Init PROVE StreamInv /\ Undecided
  OBVIOUS
<1>1. /\ all = <<>> /\ content = <<>> /\ reasoning = <<>> /\ sent = <<>>
      /\ alive = TRUE /\ hitStop = FALSE /\ phase = "decode"
      /\ splitter.buf = <<>> /\ splitter.tool = FALSE /\ splitter.think = thinking
      /\ carry.content = <<>> /\ carry.reasoning = <<>>
  BY DEF Init, NoDelta
<1>2. <<>> \in Text /\ WellFormed(<<>>) /\ <<>> ++ <<>> = <<>>
  BY NoText, PaddedT
<1>3. Along(all, splitter, content, reasoning)
  <2>1. all = <<>> ++ (<<>> ++ splitter.buf) /\ content = <<>> ++ <<>> /\ reasoning = <<>> ++ <<>>
    BY <1>1, <1>2
  <2> QED BY <1>1, <1>2, <2>1 DEF Along
<1>4. Streamed("content") = <<>> /\ Streamed("reasoning") = <<>>
  <2>1. Len(sent) = 0 /\ [i \in 1 .. 0 |-> sent[i].content] = <<>>
        /\ [i \in 1 .. 0 |-> sent[i].reasoning] = <<>>
    BY <1>1
  <2>2. FlattenSeq(<<>>) = <<>>
    BY DEF FlattenSeq
  <2> QED BY <2>1, <2>2 DEF Streamed
<1>5. SentWell
  BY <1>1 DEF SentWell
<1> QED BY <1>1, <1>2, <1>3, <1>4, <1>5 DEF StreamInv, Undecided, Follows

LEMMA StreamStep == ASSUME TypeInv, StreamInv, Undecided, [Next]_vars PROVE StreamInv' /\ Undecided'
<1>1. CASE \E piece \in Pieces : Token(piece)
  BY <1>1, StreamToken
<1>2. CASE StopToken
  BY <1>2 DEF StopToken, StreamInv, Undecided, SentWell, Streamed
<1>3. CASE Flush
  BY <1>3, StreamFlush
<1>4. CASE FlushTail
  BY <1>4, StreamTail
<1>5. CASE UNCHANGED vars
  BY <1>5 DEF vars, StreamInv, Undecided, SentWell, Streamed
<1> QED BY <1>1, <1>2, <1>3, <1>4, <1>5 DEF Next

LEMMA StreamAlways == Spec => [](TypeInv /\ StreamInv /\ Undecided)
<1>1. Init => TypeInv /\ StreamInv /\ Undecided
  BY TypesInit, StreamInit
<1>2. TypeInv /\ StreamInv /\ Undecided /\ [Next]_vars => (TypeInv /\ StreamInv /\ Undecided)'
  BY TypesStep, StreamStep
<1> QED BY <1>1, <1>2, PTL DEF Spec

(* No delta of a stream starts or ends inside a character, however the     *)
(* text was cut into tokens (utf8_flush and on_delta of src/server), if    *)
(* the model writes well-formed text.                                      *)
THEOREM NeverHalfAlways == Spec => []NeverHalf
<1>1. StreamInv => NeverHalf
  BY DEF StreamInv, NeverHalf, SentWell
<1> QED BY <1>1, StreamAlways, PTL

(* The deltas of a stream that was neither stopped nor cut add up to the   *)
(* answer: no carry loses or repeats a byte, and none is left at the end.  *)
THEOREM StreamAddsUpAlways == Spec => []StreamAddsUp
<1>1. StreamInv => StreamAddsUp
  BY DEF StreamInv, StreamAddsUp, WellFormed
<1> QED BY <1>1, StreamAlways, PTL

-----------------------------------------------------------------------------
(* The reading of the whole text.                                          *)
Modes == {"text", "think", "tool"}
Reading == [rest : Text, mode : Modes, text : Text, think : Text, tool : Text,
            calls : Seq(Text)]

Counts(mode, t) ==
  \/ mode = "text" /\ (t = ThinkOpen \/ t = ToolOpen)
  \/ mode = "think" /\ t = ThinkClose
  \/ mode = "tool" /\ t = ToolClose

(* y is x after the bytes b.                                               *)
Moved(x, y, b) ==
  /\ x.rest = b ++ y.rest
  /\ y.mode = x.mode /\ y.calls = x.calls
  /\ y.text = IF x.mode = "text" THEN x.text ++ b ELSE x.text
  /\ y.think = IF x.mode = "think" THEN x.think ++ b ELSE x.think
  /\ y.tool = IF x.mode = "tool" THEN x.tool ++ b ELSE x.tool

(* y is x after the tag t.                                                 *)
PassedTag(x, y, t) ==
  /\ x.rest = t ++ y.rest
  /\ y.mode = IF x.mode # "text" THEN "text" ELSE IF t = ThinkOpen THEN "think" ELSE "tool"
  /\ y.text = x.text /\ y.think = x.think
  /\ y.tool = IF x.mode = "tool" THEN <<>> ELSE x.tool
  /\ y.calls = IF x.mode = "tool" THEN Reported(x.calls, x.tool) ELSE x.calls

LEMMA ReadingEqual ==
  ASSUME NEW x \in Reading, NEW y \in Reading,
         x.rest = y.rest, x.mode = y.mode, x.text = y.text, x.think = y.think,
         x.tool = y.tool, x.calls = y.calls
  PROVE  x = y
BY DEF Reading

LEMMA ReadingTypes ==
  ASSUME NEW x \in Reading
  PROVE  /\ x.rest \in Text /\ x.mode \in Modes /\ x.text \in Text /\ x.think \in Text
         /\ x.tool \in Text /\ x.calls \in Seq(Text)
BY DEF Reading

LEMMA ReportedIs ==
  ASSUME NEW calls \in Seq(Text), NEW body \in Text
  PROVE  Reported(calls, body) \in Seq(Text)
BY AppendProperties DEF Reported

(* What stands in front of a tag.                                          *)
LEMMA BehindTag ==
  ASSUME NEW s \in Text, NEW t \in Tags, IsPrefix(t, s)
  PROVE  /\ From(s, Len(t) + 1) \in Text /\ s = t ++ From(s, Len(t) + 1)
         /\ s # <<>> /\ Len(From(s, Len(t) + 1)) + 1 <= Len(s)
<1>1. t \in Text /\ t \in Seq(Byte) /\ s \in Seq(Byte) /\ Len(t) \in Nat \ {0} /\ Len(s) \in Nat
  BY TagTypes, Bytes DEF Text
<1>2. Here(t, s, 1)
  BY <1>1, PrefixHere
<1>3. /\ Before(s, 1) \in Text /\ From(s, 1 + Len(t)) \in Text /\ Len(Before(s, 1)) = 1 - 1
      /\ s = Before(s, 1) \o (t \o From(s, 1 + Len(t)))
  BY <1>1, <1>2, CutOut
<1>4. Before(s, 1) = <<>> /\ 1 + Len(t) = Len(t) + 1
  BY <1>1, <1>3, EmptySeq DEF Text
<1> DEFINE f == From(s, Len(t) + 1)
<1>5. f \in Text /\ s = <<>> \o (t \o f)
  BY <1>3, <1>4
<1> HIDE DEF f
<1>6. t \o f \in Text
  BY <1>1, <1>5, Joined
<1>7. s = t \o f
  BY <1>5, <1>6, Padded
<1>8. Len(s) = Len(t) + Len(f) /\ Len(f) \in Nat
  BY <1>1, <1>5, <1>7, Joined, Bytes
<1>9. s # <<>> /\ Len(f) + 1 <= Len(s)
  BY <1>1, <1>8, NoText
<1> QED BY <1>5, <1>7, <1>9 DEF f, ++

LEMMA FirstByte ==
  ASSUME NEW s \in Text, s # <<>>
  PROVE  /\ Head(s) \in Byte /\ <<Head(s)>> \in Text /\ Len(<<Head(s)>>) = 1
         /\ Tail(s) \in Text /\ Len(Tail(s)) + 1 = Len(s)
         /\ s = <<Head(s)>> ++ Tail(s)
         /\ \A i \in 1 .. Len(Tail(s)) : Tail(s)[i] = s[i + 1]
<1>1. s \in Seq(Byte) /\ Len(s) \in Nat
  BY Bytes DEF Text
<1>2. /\ Head(s) \in Byte /\ Tail(s) \in Seq(Byte) /\ s = <<Head(s)>> \o Tail(s)
      /\ Len(Tail(s)) = Len(s) - 1 /\ \A i \in 1 .. Len(Tail(s)) : Tail(s)[i] = s[i + 1]
  BY <1>1, HeadTailProperties
<1>3. <<Head(s)>> \in Text /\ Len(<<Head(s)>>) = 1
  BY <1>2 DEF Text
<1> QED BY <1>1, <1>2, <1>3 DEF Text, ++

LEMMA AppendIs == ASSUME NEW s \in Text, NEW e \in Byte PROVE Append(s, e) = s ++ <<e>>
<1>1. s \in Seq(Byte)
  BY DEF Text
<1> QED BY <1>1, AppendIsConcat DEF ++

(* The two opening tags do not begin the same text.                        *)
LEMMA OneOpens == ASSUME NEW s \in Text, IsPrefix(ThinkOpen, s) PROVE ~ IsPrefix(ToolOpen, s)
<1>1. s \in Seq(Byte) /\ ThinkOpen \in Seq(Byte) /\ ToolOpen \in Seq(Byte) /\ 1 \in Nat \ {0}
  BY TagTypes DEF Text
<1>2. Here(ThinkOpen, s, 1)
  BY <1>1, PrefixHere
<1>3. ~ Here(ToolOpen, s, 1)
  BY <1>1, <1>2, OpensApart
<1> QED BY <1>1, <1>3, PrefixHere

LEMMA ReadIs ==
  ASSUME NEW x \in Reading
  PROVE  LET y == Read(x)
         IN \/ x.rest = <<>> /\ y = x
            \/ /\ y \in Reading /\ Len(y.rest) + 1 <= Len(x.rest) /\ x.rest # <<>>
               /\ \/ /\ \A t \in Tags : Counts(x.mode, t) => ~ IsPrefix(t, x.rest)
                     /\ Moved(x, y, <<Head(x.rest)>>)
                  \/ \E t \in Tags : /\ Counts(x.mode, t) /\ IsPrefix(t, x.rest)
                                     /\ PassedTag(x, y, t)
<1> DEFINE y == Read(x)
           s == x.rest
           past(tag) == From(s, Len(tag) + 1)
<1>1. /\ s \in Text /\ x.mode \in Modes /\ x.text \in Text /\ x.think \in Text
      /\ x.tool \in Text /\ x.calls \in Seq(Text) /\ <<>> \in Text
  BY ReadingTypes, NoText
<1>2. y = CASE s = <<>> -> x
            [] x.mode = "text" /\ IsPrefix(ThinkOpen, s) ->
                 [x EXCEPT !.rest = past(ThinkOpen), !.mode = "think"]
            [] x.mode = "text" /\ IsPrefix(ToolOpen, s) ->
                 [x EXCEPT !.rest = past(ToolOpen), !.mode = "tool"]
            [] x.mode = "think" /\ IsPrefix(ThinkClose, s) ->
                 [x EXCEPT !.rest = past(ThinkClose), !.mode = "text"]
            [] x.mode = "tool" /\ IsPrefix(ToolClose, s) ->
                 [x EXCEPT !.rest = past(ToolClose), !.mode = "text", !.tool = <<>>,
                   !.calls = IF Find(x.tool, CallMark, 1) # 0 THEN Append(@, x.tool) ELSE @]
            [] OTHER -> [x EXCEPT !.rest = Tail(@), ![x.mode] = Append(@, Head(s))]
  BY DEF Read
<1>3. ASSUME NEW t \in Tags, IsPrefix(t, s)
      PROVE  /\ past(t) \in Text /\ s = t ++ past(t) /\ s # <<>> /\ Len(past(t)) + 1 <= Len(s)
  BY <1>1, <1>3, BehindTag
<1>4. IsPrefix(ThinkOpen, s) => ~ IsPrefix(ToolOpen, s)
  BY <1>1, OneOpens
<1> HIDE DEF y, s, past
<1>5. CASE s = <<>>
  <2>1. \A t \in Tags : ~ IsPrefix(t, s)
    BY <1>3, <1>5
  <2>2. y = x
    BY <1>2, <1>5, <2>1, TagTypes
  <2> QED BY <1>5, <2>2 DEF y, s
<1>6. CASE x.mode = "text" /\ IsPrefix(ThinkOpen, s)
  <2> DEFINE f == past(ThinkOpen)
  <2>1. f \in Text /\ s = ThinkOpen ++ f /\ s # <<>> /\ Len(f) + 1 <= Len(s)
    BY <1>3, <1>6, TagTypes
  <2>2. y = [x EXCEPT !.rest = f, !.mode = "think"]
    BY <1>2, <1>4, <1>6, <2>1
  <2> HIDE DEF f
  <2>3. /\ y \in Reading /\ y.rest = f /\ y.mode = "think" /\ y.text = x.text
        /\ y.think = x.think /\ y.tool = x.tool /\ y.calls = x.calls
    BY <2>1, <2>2 DEF Reading, Modes
  <2>4. PassedTag(x, y, ThinkOpen) /\ Counts(x.mode, ThinkOpen)
    BY <1>6, <2>1, <2>3 DEF PassedTag, Counts, s
  <2> QED BY <1>6, <2>1, <2>3, <2>4, TagTypes DEF y, s
<1>7. CASE x.mode = "text" /\ IsPrefix(ToolOpen, s)
  <2> DEFINE f == past(ToolOpen)
  <2>1. f \in Text /\ s = ToolOpen ++ f /\ s # <<>> /\ Len(f) + 1 <= Len(s)
    BY <1>3, <1>7, TagTypes
  <2>2. y = [x EXCEPT !.rest = f, !.mode = "tool"]
    BY <1>2, <1>4, <1>7, <2>1
  <2> HIDE DEF f
  <2>3. /\ y \in Reading /\ y.rest = f /\ y.mode = "tool" /\ y.text = x.text
        /\ y.think = x.think /\ y.tool = x.tool /\ y.calls = x.calls
    BY <2>1, <2>2 DEF Reading, Modes
  <2>5. ToolOpen # ThinkOpen
    BY <1>4, <1>7
  <2>4. PassedTag(x, y, ToolOpen) /\ Counts(x.mode, ToolOpen)
    BY <1>7, <2>1, <2>3, <2>5 DEF PassedTag, Counts, s
  <2> QED BY <1>7, <2>1, <2>3, <2>4, TagTypes DEF y, s
<1>8. CASE x.mode = "think" /\ IsPrefix(ThinkClose, s)
  <2> DEFINE f == past(ThinkClose)
  <2>1. f \in Text /\ s = ThinkClose ++ f /\ s # <<>> /\ Len(f) + 1 <= Len(s)
    BY <1>3, <1>8, TagTypes
  <2>2. y = [x EXCEPT !.rest = f, !.mode = "text"]
    BY <1>2, <1>8, <2>1
  <2> HIDE DEF f
  <2>3. /\ y \in Reading /\ y.rest = f /\ y.mode = "text" /\ y.text = x.text
        /\ y.think = x.think /\ y.tool = x.tool /\ y.calls = x.calls
    BY <2>1, <2>2 DEF Reading, Modes
  <2>4. PassedTag(x, y, ThinkClose) /\ Counts(x.mode, ThinkClose)
    BY <1>8, <2>1, <2>3 DEF PassedTag, Counts, s
  <2> QED BY <1>8, <2>1, <2>3, <2>4, TagTypes DEF y, s
<1>9. CASE x.mode = "tool" /\ IsPrefix(ToolClose, s)
  <2> DEFINE f == past(ToolClose)
             k == Reported(x.calls, x.tool)
  <2>1. f \in Text /\ s = ToolClose ++ f /\ s # <<>> /\ Len(f) + 1 <= Len(s)
    BY <1>3, <1>9, TagTypes
  <2>2. y = [x EXCEPT !.rest = f, !.mode = "text", !.tool = <<>>, !.calls = k]
    BY <1>2, <1>9, <2>1 DEF Reported
  <2>5. k \in Seq(Text)
    BY <1>1, ReportedIs
  <2> HIDE DEF f, k
  <2>3. /\ y \in Reading /\ y.rest = f /\ y.mode = "text" /\ y.text = x.text
        /\ y.think = x.think /\ y.tool = <<>> /\ y.calls = k
    BY <1>1, <2>1, <2>2, <2>5 DEF Reading, Modes
  <2>4. PassedTag(x, y, ToolClose) /\ Counts(x.mode, ToolClose)
    BY <1>9, <2>1, <2>3 DEF PassedTag, Counts, s, k
  <2> QED BY <1>9, <2>1, <2>3, <2>4, TagTypes DEF y, s
<1>10. CASE /\ s # <<>>
            /\ ~ (x.mode = "text" /\ IsPrefix(ThinkOpen, s))
            /\ ~ (x.mode = "text" /\ IsPrefix(ToolOpen, s))
            /\ ~ (x.mode = "think" /\ IsPrefix(ThinkClose, s))
            /\ ~ (x.mode = "tool" /\ IsPrefix(ToolClose, s))
  <2> DEFINE e == Head(s)
             f == Tail(s)
  <2>1. /\ e \in Byte /\ <<e>> \in Text /\ f \in Text /\ Len(f) + 1 = Len(s)
        /\ s = <<e>> ++ f
    BY <1>1, <1>10, FirstByte
  <2>2. y = [x EXCEPT !.rest = Tail(@), ![x.mode] = Append(@, Head(s))]
    BY <1>2, <1>10
  <2>3. /\ y.rest = f /\ y.mode = x.mode /\ y.calls = x.calls
        /\ y.text = IF x.mode = "text" THEN Append(x.text, e) ELSE x.text
        /\ y.think = IF x.mode = "think" THEN Append(x.think, e) ELSE x.think
        /\ y.tool = IF x.mode = "tool" THEN Append(x.tool, e) ELSE x.tool
    BY <1>1, <2>2 DEF Reading, Modes, s
  <2>4. /\ Append(x.text, e) = x.text ++ <<e>> /\ Append(x.think, e) = x.think ++ <<e>>
        /\ Append(x.tool, e) = x.tool ++ <<e>>
    BY <1>1, <2>1, AppendIs
  <2>5. x.text ++ <<e>> \in Text /\ x.think ++ <<e>> \in Text /\ x.tool ++ <<e>> \in Text
    BY <1>1, <2>1, Closed
  <2>6. y \in Reading
    <3>1. y \in [rest : Text, mode : Modes, text : Text, think : Text, tool : Text,
                 calls : Seq(Text)]
      <4>1. CASE x.mode = "text"
        BY <1>1, <2>1, <2>2, <2>4, <2>5, <4>1 DEF Reading, s
      <4>2. CASE x.mode = "think"
        BY <1>1, <2>1, <2>2, <2>4, <2>5, <4>2 DEF Reading, s
      <4>3. CASE x.mode = "tool"
        BY <1>1, <2>1, <2>2, <2>4, <2>5, <4>3 DEF Reading, s
      <4> QED BY <1>1, <4>1, <4>2, <4>3 DEF Modes
    <3> QED BY <3>1 DEF Reading
  <2> HIDE DEF e, f
  <2>7. Moved(x, y, <<e>>)
    BY <2>1, <2>3, <2>4 DEF Moved, s
  <2>8. Len(y.rest) + 1 <= Len(s)
    <3>1. Len(s) \in Nat
      BY <1>1, Bytes
    <3> QED BY <2>1, <2>3, <3>1
  <2>9. \A t \in Tags : Counts(x.mode, t) => ~ IsPrefix(t, s)
    BY <1>10 DEF Counts
  <2> QED BY <1>10, <2>6, <2>7, <2>8, <2>9 DEF y, s, e
<1> QED BY <1>5, <1>6, <1>7, <1>8, <1>9, <1>10

Reads == [x \in Reading |-> Read(x)]

LEMMA ReadsTypes ==
  /\ Reads \in [Reading -> Reading]
  /\ \A x \in Reading :
       /\ Reads[x] = Read(x) /\ Read(x) \in Reading
       /\ Len(x.rest) \in Nat /\ (x.rest = <<>> <=> Len(x.rest) = 0)
       /\ x.rest = <<>> => Read(x) = x
       /\ x.rest # <<>> => Len(Read(x).rest) + 1 <= Len(x.rest)
<1>1. ASSUME NEW x \in Reading
      PROVE  /\ Read(x) \in Reading
             /\ Len(x.rest) \in Nat /\ (x.rest = <<>> <=> Len(x.rest) = 0)
             /\ x.rest = <<>> => Read(x) = x
             /\ x.rest # <<>> => Len(Read(x).rest) + 1 <= Len(x.rest)
  <2>1. x.rest \in Seq(Byte) /\ Len(x.rest) \in Nat
    BY <1>1, ReadingTypes, Bytes DEF Text
  <2>2. x.rest = <<>> <=> Len(x.rest) = 0
    BY <2>1, EmptySeq
  <2> QED BY <1>1, <2>1, <2>2, ReadIs
<1> QED BY <1>1 DEF Reads

(* Reading goes to the end, and stays there.                               *)
LEMMA ReadOn ==
  ASSUME NEW x \in Reading, NEW N \in Nat, Len(x.rest) <= N, NEW g \in Steps(Reading, Reads, x, N)
  PROVE  AllRead(x) = g[N] /\ g[N] \in Reading /\ g[N].rest = <<>>
<1> DEFINE n == Len(x.rest)
           after[k \in 0 .. n] == IF k = 0 THEN x ELSE Read(after[k - 1])
<1>1. n \in Nat /\ n <= N
  BY ReadsTypes
<1>2. /\ g[0] = x /\ \A k \in 0 .. N : g[k] \in Reading
      /\ \A k \in 1 .. N : g[k] = Read(g[k - 1])
  <2>1. g \in [0 .. N -> Reading] /\ g[0] = x /\ \A k \in 1 .. N : g[k] = Reads[g[k - 1]]
    BY DEF Steps
  <2>2. \A k \in 1 .. N : k - 1 \in 0 .. N
    OBVIOUS
  <2> QED BY <2>1, <2>2, ReadsTypes
<1> DEFINE h == [k \in 0 .. n |-> g[k]]
<1>3. h = [k \in 0 .. n |-> IF k = 0 THEN x ELSE Read(h[k - 1])]
  <2>1. \A k \in 0 .. n : k # 0 => k \in 1 .. N /\ k - 1 \in 0 .. n
    BY <1>1
  <2> QED BY <1>2, <2>1
<1> HIDE DEF h
<1>4. after = [k \in 0 .. n |-> IF k = 0 THEN x ELSE Read(after[k - 1])]
  BY <1>3
<1>5. AllRead(x) = after[n]
  BY DEF AllRead
<1> HIDE DEF after, n
<1> DEFINE P == {k \in Nat : k \in 0 .. n => after[k] = h[k]}
<1>6. 0 \in P
  BY <1>1, <1>3, <1>4
<1>7. ASSUME NEW k \in Nat, k \in P PROVE k + 1 \in P
  <2> SUFFICES ASSUME k + 1 \in 0 .. n PROVE after[k + 1] = h[k + 1]
    OBVIOUS
  <2>1. (k + 1) - 1 = k /\ k + 1 # 0 /\ k \in 0 .. n
    BY <1>1
  <2>2. after[k + 1] = IF k + 1 = 0 THEN x ELSE Read(after[(k + 1) - 1])
    BY <1>4
  <2>3. h[k + 1] = IF k + 1 = 0 THEN x ELSE Read(h[(k + 1) - 1])
    BY <1>3
  <2> QED BY <1>7, <2>1, <2>2, <2>3
<1> HIDE DEF P
<1>8. n \in P /\ n \in 0 .. n
  BY <1>1, <1>6, <1>7, Induction
<1>9. AllRead(x) = g[n]
  BY <1>5, <1>8 DEF P, h
<1> DEFINE Q == {k \in Nat : k \in 0 .. N => g[k].rest = <<>> \/ Len(g[k].rest) + k <= n}
<1>10. 0 \in Q
  BY <1>1, <1>2 DEF n
<1>11. ASSUME NEW k \in Nat, k \in Q PROVE k + 1 \in Q
  <2> SUFFICES ASSUME k + 1 \in 0 .. N
               PROVE  g[k + 1].rest = <<>> \/ Len(g[k + 1].rest) + (k + 1) <= n
    <3>1. k + 1 \in Nat
      OBVIOUS
    <3> QED BY <3>1, Zenon
  <2>1. (k + 1) - 1 = k /\ k + 1 \in 1 .. N /\ k \in 0 .. N
    OBVIOUS
  <2>2. g[k + 1] = Read(g[k]) /\ g[k] \in Reading /\ g[k + 1] \in Reading
    BY <1>2, <2>1
  <2>3. CASE g[k].rest = <<>>
    BY <2>2, <2>3, ReadsTypes
  <2>4. CASE g[k].rest # <<>>
    <3> DEFINE u == Len(g[k].rest)
               v == Len(g[k + 1].rest)
    <3>1. u + k <= n
      BY <1>11, <2>1, <2>4
    <3>2. v \in Nat /\ u \in Nat /\ v + 1 <= u
      BY <2>2, <2>4, ReadsTypes
    <3> HIDE DEF u, v
    <3>3. v + (k + 1) <= n
      BY <1>1, <3>1, <3>2
    <3> QED BY <3>3 DEF v
  <2> QED BY <2>3, <2>4
<1> HIDE DEF Q
<1>12. \A k \in Nat : k \in Q
  BY <1>10, <1>11, Induction
<1>13. g[n].rest = <<>>
  <2>1. n \in 0 .. N /\ n \in Q
    BY <1>1, <1>12
  <2>2. g[n] \in Reading /\ (g[n].rest = <<>> \/ Len(g[n].rest) + n <= n)
    BY <1>2, <2>1 DEF Q
  <2>3. Len(g[n].rest) \in Nat /\ (g[n].rest = <<>> <=> Len(g[n].rest) = 0)
    BY <2>2, ReadsTypes
  <2> QED BY <1>1, <2>2, <2>3
<1> DEFINE Z == {k \in Nat : n + k <= N => g[n + k] = g[n]}
<1>14. 0 \in Z
  BY <1>1
<1>15. ASSUME NEW k \in Nat, k \in Z PROVE k + 1 \in Z
  <2> SUFFICES ASSUME n + (k + 1) <= N PROVE g[n + (k + 1)] = g[n]
    OBVIOUS
  <2>1. (n + (k + 1)) - 1 = n + k /\ n + (k + 1) \in 1 .. N /\ n + k <= N /\ n \in 0 .. N
    BY <1>1
  <2>2. g[n + (k + 1)] = Read(g[n + k])
    BY <1>2, <2>1
  <2>3. g[n + k] = g[n] /\ g[n] \in Reading
    BY <1>2, <1>15, <2>1
  <2> QED BY <1>13, <2>2, <2>3, ReadsTypes
<1> HIDE DEF Z
<1>16. N - n \in Nat /\ n + (N - n) = N
  BY <1>1
<1>17. N - n \in Z
  BY <1>14, <1>15, <1>16, Induction
<1>18. g[N] = g[n]
  BY <1>16, <1>17 DEF Z
<1>19. n \in 0 .. N
  BY <1>1
<1> QED BY <1>2, <1>9, <1>13, <1>18, <1>19

(* Reading on from a later point gives the same.                           *)
LEMMA ReadFromHere ==
  ASSUME NEW x \in Reading
  PROVE  AllRead(Read(x)) = AllRead(x)
<1> DEFINE n == Len(x.rest)
           y == Read(x)
<1>1. n \in Nat /\ y \in Reading /\ Len(y.rest) \in Nat /\ Len(y.rest) <= n
  BY ReadsTypes
<1>2. n + 1 \in Nat /\ n <= n + 1
  BY <1>1
<1> HIDE DEF n, y
<1>3. PICK g \in Steps(Reading, Reads, x, n + 1) : TRUE
  BY <1>2, ReadsTypes, StepsExist
<1>4. AllRead(x) = g[n + 1]
  BY <1>2, ReadOn DEF n
<1>5. g \in [0 .. n + 1 -> Reading] /\ g[0] = x /\ \A k \in 1 .. n + 1 : g[k] = Reads[g[k - 1]]
  BY <1>3 DEF Steps
<1> DEFINE h == [k \in 0 .. n |-> g[k + 1]]
<1>6. h \in Steps(Reading, Reads, y, n)
  <2>1. \A k \in 0 .. n : k + 1 \in 1 .. n + 1 /\ k + 1 \in 0 .. n + 1 /\ (k + 1) - 1 = k
    BY <1>1
  <2>2. h \in [0 .. n -> Reading]
    BY <1>5, <2>1
  <2>3. h[0] = y
    <3>1. 0 \in 0 .. n /\ 0 + 1 = 1 /\ 1 \in 1 .. n + 1 /\ 1 - 1 = 0
      BY <1>1
    <3>2. h[0] = g[1] /\ g[1] = Reads[g[0]]
      BY <1>5, <3>1
    <3> QED BY <1>5, <3>2, ReadsTypes DEF y
  <2>4. ASSUME NEW k \in 1 .. n PROVE h[k] = Reads[h[k - 1]]
    <3>1. k \in 0 .. n /\ k - 1 \in 0 .. n /\ k + 1 \in 1 .. n + 1 /\ (k + 1) - 1 = (k - 1) + 1
      BY <1>1
    <3> QED BY <1>5, <3>1
  <2> HIDE DEF h
  <2> QED BY <2>2, <2>3, <2>4 DEF Steps
<1>7. h[n] = g[n + 1]
  BY <1>1
<1> HIDE DEF h
<1>8. AllRead(y) = h[n]
  BY <1>1, <1>6, ReadOn
<1> QED BY <1>4, <1>7, <1>8 DEF y

LEMMA ReadToEnd ==
  ASSUME NEW x \in Reading
  PROVE  /\ AllRead(x) \in Reading
         /\ x.rest = <<>> => AllRead(x) = x
<1>1. Len(x.rest) \in Nat
  BY ReadsTypes
<1>2. PICK g \in Steps(Reading, Reads, x, Len(x.rest)) : TRUE
  BY <1>1, ReadsTypes, StepsExist
<1>3. AllRead(x) = g[Len(x.rest)] /\ g[Len(x.rest)] \in Reading
  BY <1>1, ReadOn
<1>4. x.rest = <<>> => Len(x.rest) = 0
  BY ReadsTypes
<1>5. g[0] = x
  BY <1>2 DEF Steps
<1> QED BY <1>3, <1>4, <1>5

LEMMA ReadKeeps ==
  ASSUME NEW x \in Reading, NEW P, x \in P, \A y \in Reading : y \in P => Read(y) \in P
  PROVE  AllRead(x) \in P
<1>1. Len(x.rest) \in Nat
  BY ReadsTypes
<1>2. PICK g \in Steps(Reading, Reads, x, Len(x.rest)) : TRUE
  BY <1>1, ReadsTypes, StepsExist
<1>3. AllRead(x) = g[Len(x.rest)]
  BY <1>1, ReadOn
<1>4. \A y \in Reading : y \in P => Reads[y] \in P
  BY ReadsTypes
<1>5. \A k \in 0 .. Len(x.rest) : g[k] \in P
  BY <1>1, <1>2, <1>4, ReadsTypes, StepsStay
<1> QED BY <1>1, <1>3, <1>5

LEMMA SameBehind ==
  ASSUME NEW p \in Text, NEW q \in Text, NEW r \in Text, p ++ q = p ++ r
  PROVE  q = r
<1>1. /\ Len(p) \in Nat /\ Len(q) \in Nat /\ Len(r) \in Nat
      /\ Len(p ++ q) = Len(p) + Len(q) /\ Len(p ++ r) = Len(p) + Len(r)
      /\ \A i \in 1 .. Len(q) : (p ++ q)[Len(p) + i] = q[i]
      /\ \A i \in 1 .. Len(r) : (p ++ r)[Len(p) + i] = r[i]
  BY Bytes, Joined DEF ++
<1>2. Len(q) = Len(r)
  BY <1>1
<1>3. \A i \in 1 .. Len(q) : q[i] = r[i]
  BY <1>1, <1>2
<1>4. q \in Seq(Byte) /\ r \in Seq(Byte)
  BY DEF Text
<1> QED BY <1>2, <1>3, <1>4, SeqEqual

(* What stands in a text stands at the shifted place behind another one;   *)
(* what stands in the first of two stands there in both together.          *)
LEMMA HereBehind ==
  ASSUME NEW p \in Text, NEW s \in Text, NEW t \in Text, NEW i \in Nat \ {0}, Here(t, s, i)
  PROVE  Here(t, p ++ s, Len(p) + i)
<1>1. /\ Len(p) \in Nat /\ Len(s) \in Nat /\ Len(t) \in Nat /\ Len(p ++ s) = Len(p) + Len(s)
      /\ \A j \in 1 .. Len(s) : (p ++ s)[Len(p) + j] = s[j]
  BY Bytes, Joined DEF ++
<1>2. i + Len(t) <= Len(s) + 1 /\ \A k \in 1 .. Len(t) : s[(i + k) - 1] = t[k]
  BY DEF Here
<1>3. (Len(p) + i) + Len(t) <= Len(p ++ s) + 1
  BY <1>1, <1>2
<1>4. ASSUME NEW k \in 1 .. Len(t) PROVE (p ++ s)[((Len(p) + i) + k) - 1] = t[k]
  <2>1. (i + k) - 1 \in 1 .. Len(s) /\ ((Len(p) + i) + k) - 1 = Len(p) + ((i + k) - 1)
    BY <1>1, <1>2
  <2> QED BY <1>1, <1>2, <1>4, <2>1
<1> QED BY <1>3, <1>4 DEF Here

LEMMA HereWithin ==
  ASSUME NEW s \in Text, NEW q \in Text, NEW t \in Text, NEW i \in Nat \ {0},
         i + Len(t) <= Len(s) + 1
  PROVE  Here(t, s ++ q, i) <=> Here(t, s, i)
<1>1. /\ Len(s) \in Nat /\ Len(q) \in Nat /\ Len(t) \in Nat /\ Len(s ++ q) = Len(s) + Len(q)
      /\ \A j \in 1 .. Len(s) : (s ++ q)[j] = s[j]
  BY Bytes, Joined DEF ++
<1>2. i + Len(t) <= Len(s ++ q) + 1
  BY <1>1
<1>3. \A k \in 1 .. Len(t) : (i + k) - 1 \in 1 .. Len(s)
  BY <1>1
<1> QED BY <1>1, <1>2, <1>3 DEF Here

LEMMA MovedOn ==
  ASSUME NEW x \in Reading, NEW y \in Reading, NEW z \in Reading, NEW p \in Text, NEW q \in Text,
         Moved(x, y, p ++ q), Moved(x, z, p)
  PROVE  Moved(z, y, q)
<1>1. /\ x.text \in Text /\ x.think \in Text /\ x.tool \in Text /\ y.rest \in Text
      /\ z.rest \in Text
  BY ReadingTypes
<1>2. z.rest = q ++ y.rest
  <2>1. (p ++ q) ++ y.rest = p ++ (q ++ y.rest)
    BY <1>1, AssocT
  <2>2. q ++ y.rest \in Text
    BY <1>1, Closed
  <2>3. p ++ z.rest = p ++ (q ++ y.rest)
    BY <2>1 DEF Moved
  <2> QED BY <1>1, <2>2, <2>3, SameBehind
<1>3. /\ x.text ++ (p ++ q) = (x.text ++ p) ++ q /\ x.think ++ (p ++ q) = (x.think ++ p) ++ q
      /\ x.tool ++ (p ++ q) = (x.tool ++ p) ++ q
  BY <1>1, AssocT
<1> QED BY <1>2, <1>3 DEF Moved

LEMMA FirstIs ==
  ASSUME NEW s \in Text, NEW e \in Byte, NEW u \in Text, s = <<e>> ++ u
  PROVE  s # <<>> /\ Head(s) = e
<1>1. ASSUME NEW f \in Byte, NEW v \in Text, s = <<f>> ++ v
      PROVE  s[1] = f /\ Len(s) > 0
  <2> DEFINE w == <<f>>
  <2>1. w \in Text /\ Len(w) = 1 /\ w[1] = f
    BY DEF Text
  <2>2. s = w ++ v
    BY <1>1
  <2> HIDE DEF w
  <2>3. /\ Len(w ++ v) = Len(w) + Len(v) /\ Len(v) \in Nat
        /\ \A i \in 1 .. Len(w) : (w ++ v)[i] = w[i]
    BY <1>1, <2>1, Joined, Bytes DEF ++
  <2>4. 1 \in 1 .. Len(w)
    BY <2>1
  <2> QED BY <2>1, <2>2, <2>3, <2>4
<1>2. s[1] = e /\ s # <<>>
  BY <1>1, NoText
<1>3. Head(s) \in Byte /\ Tail(s) \in Text /\ s = <<Head(s)>> ++ Tail(s)
  BY <1>2, FirstByte
<1>4. s[1] = Head(s)
  BY <1>1, <1>3
<1> QED BY <1>2, <1>4

(* Bytes among which no tag counts are read one after the other.           *)
LEMMA BytesRead ==
  ASSUME NEW b \in Text
  PROVE  \A x, y \in Reading :
           Moved(x, y, b) /\ (\A t \in Tags : Counts(x.mode, t) => NotIn(t, x.rest, Len(b)))
             => AllRead(x) = AllRead(y)
<1> DEFINE Good(x, y, c) == /\ Moved(x, y, c)
                            /\ \A t \in Tags : Counts(x.mode, t) => NotIn(t, x.rest, Len(c))
           S == {n \in Nat : \A c \in Text : Len(c) = n =>
                   \A x, y \in Reading : Good(x, y, c) => AllRead(x) = AllRead(y)}
<1>1. 0 \in S
  <2> SUFFICES ASSUME NEW c \in Text, Len(c) = 0, NEW x \in Reading, NEW y \in Reading, Moved(x, y, c)
               PROVE  x = y
    OBVIOUS
  <2>1. c = <<>>
    <3>1. c \in Seq(Byte)
      BY DEF Text
    <3> QED BY <3>1, EmptySeq
  <2>2. /\ x.text \in Text /\ x.think \in Text /\ x.tool \in Text /\ y.rest \in Text
    BY ReadingTypes
  <2>3. /\ x.text ++ c = x.text /\ x.think ++ c = x.think /\ x.tool ++ c = x.tool
        /\ c ++ y.rest = y.rest
    BY <2>1, <2>2, PaddedT
  <2> QED BY <2>3, ReadingEqual DEF Moved
<1>2. ASSUME NEW n \in Nat, n \in S PROVE n + 1 \in S
  <2> SUFFICES ASSUME NEW c \in Text, Len(c) = n + 1, NEW x \in Reading, NEW y \in Reading,
                      Good(x, y, c)
               PROVE  AllRead(x) = AllRead(y)
    <3>1. n + 1 \in Nat
      OBVIOUS
    <3> QED BY <3>1
  <2> DEFINE z == Read(x)
             e == Head(x.rest)
             d == Tail(c)
  <2>1. /\ x.rest \in Text /\ y.rest \in Text /\ Moved(x, y, c) /\ x.rest = c ++ y.rest
        /\ \A t \in Tags : Counts(x.mode, t) => NotIn(t, x.rest, n + 1)
    BY ReadingTypes DEF Moved
  <2>2. c # <<>> /\ 1 \in 1 .. n + 1
    OBVIOUS
  <2>3. /\ Head(c) \in Byte /\ <<Head(c)>> \in Text /\ d \in Text /\ Len(d) + 1 = n + 1
        /\ c = <<Head(c)>> ++ d
    BY <2>2, FirstByte
  <2>4. x.rest # <<>> /\ e = Head(c)
    <3>1. d ++ y.rest \in Text
      BY <2>1, <2>3, Closed
    <3>2. (<<Head(c)>> ++ d) ++ y.rest = <<Head(c)>> ++ (d ++ y.rest)
      BY <2>1, <2>3, AssocT
    <3>3. x.rest = <<Head(c)>> ++ (d ++ y.rest)
      BY <2>1, <2>3, <3>2
    <3> QED BY <2>1, <2>3, <3>1, <3>3, FirstIs
  <2>5. ASSUME NEW t \in Tags, Counts(x.mode, t) PROVE ~ IsPrefix(t, x.rest)
    <3>1. NotIn(t, x.rest, n + 1)
      BY <2>1, <2>5
    <3>2. ~ Here(t, x.rest, 1)
      BY <2>2, <3>1 DEF NotIn
    <3>3. t \in Seq(Byte) /\ x.rest \in Seq(Byte)
      BY <2>1, <2>5, TagTypes DEF Text
    <3> QED BY <3>2, <3>3, PrefixHere
  <2> HIDE DEF z, e, d, Good
  <2>6. z \in Reading /\ Moved(x, z, <<e>>)
    BY <2>4, <2>5, ReadIs DEF z, e
  <2>7. Moved(z, y, d)
    BY <2>1, <2>3, <2>4, <2>6, MovedOn
  <2>8. z.mode = x.mode /\ x.rest = <<e>> ++ z.rest /\ z.rest \in Text
    BY <2>6, ReadingTypes DEF Moved
  <2>9. ASSUME NEW t \in Tags, Counts(z.mode, t) PROVE NotIn(t, z.rest, Len(d))
    <3> SUFFICES ASSUME NEW i \in 1 .. Len(d), Here(t, z.rest, i) PROVE FALSE
      BY DEF NotIn
    <3>1. i \in Nat \ {0} /\ Len(<<e>>) = 1 /\ 1 + i \in 1 .. n + 1 /\ t \in Text
      BY <2>3, <2>9, TagTypes
    <3>2. Here(t, x.rest, 1 + i)
      BY <2>3, <2>4, <2>8, <3>1, HereBehind
    <3>3. NotIn(t, x.rest, n + 1)
      BY <2>1, <2>8, <2>9
    <3> QED BY <3>1, <3>2, <3>3 DEF NotIn
  <2>10. Good(z, y, d) /\ Len(d) = n
    <3>1. Len(d) \in Nat
      BY <2>3, Bytes
    <3> QED BY <2>3, <2>7, <2>9, <3>1 DEF Good
  <2>11. AllRead(z) = AllRead(y)
    BY <1>2, <2>3, <2>6, <2>10
  <2> QED BY <2>11, ReadFromHere DEF z
<1> HIDE DEF S
<1>3. Len(b) \in Nat
  BY Bytes
<1>4. Len(b) \in S
  BY <1>1, <1>2, <1>3, Induction
<1> QED BY <1>4 DEF S

(* A tag that counts is read as one.                                       *)
LEMMA TagRead ==
  ASSUME NEW x \in Reading, NEW y \in Reading, NEW t \in Tags, Counts(x.mode, t), PassedTag(x, y, t)
  PROVE  AllRead(x) = AllRead(y)
<1> DEFINE z == Read(x)
<1>1. /\ x.rest \in Text /\ y.rest \in Text /\ t \in Text /\ x.rest = t ++ y.rest
      /\ x.rest \in Seq(Byte) /\ t \in Seq(Byte)
  BY ReadingTypes, TagTypes DEF PassedTag, Text
<1>2. IsPrefix(t, x.rest)
  <2>1. <<>> \in Text /\ Len(<<>>) + 1 = 1 /\ t \o y.rest \in Text
    BY <1>1, NoText, Joined
  <2>2. Here(t, <<>> \o (t \o y.rest), 1)
    <3>1. Here(t, <<>> \o (t \o y.rest), Len(<<>>) + 1)
      BY <1>1, <2>1, StoodThere
    <3> QED BY <2>1, <3>1
  <2>3. Here(t, x.rest, 1)
    BY <1>1, <2>1, <2>2, Padded DEF ++
  <2> QED BY <1>1, <2>3, PrefixHere
<1>3. PICK u \in Tags : z \in Reading /\ Counts(x.mode, u) /\ IsPrefix(u, x.rest) /\ PassedTag(x, z, u)
  <2>1. x.rest # <<>>
    BY <1>1, <1>2, BehindTag
  <2> QED BY <1>2, <2>1, ReadIs
<1>4. u = t
  BY <1>1, <1>2, <1>3, OneOpens DEF Counts
<1> HIDE DEF z
<1>5. z.rest = y.rest
  <2>1. z.rest \in Text /\ t ++ z.rest = t ++ y.rest
    BY <1>1, <1>3, <1>4, ReadingTypes DEF PassedTag
  <2> QED BY <1>1, <2>1, SameBehind
<1>6. z = y
  BY <1>3, <1>4, <1>5, ReadingEqual DEF PassedTag
<1> QED BY <1>6, ReadFromHere DEF z

LEMMA TagCrossed ==
  ASSUME NEW x \in Reading, NEW z \in Reading, NEW y \in Reading, NEW b \in Text, NEW t \in Tags,
         Counts(x.mode, t), Moved(x, z, b), PassedTag(z, y, t),
         \A u \in Tags : Counts(x.mode, u) => NotIn(u, x.rest, Len(b))
  PROVE  AllRead(x) = AllRead(y)
<1>1. AllRead(x) = AllRead(z)
  BY BytesRead
<1>2. z.mode = x.mode
  BY DEF Moved
<1> QED BY <1>1, <1>2, TagRead

(* A tag that does not begin before another one does not when text is      *)
(* added: no tag has the first byte of one inside.                         *)
LEMMA TagStays ==
  ASSUME NEW b \in Text, NEW u \in Tags, NEW c \in Text, NEW rest \in Text, NEW t \in Tags,
         NotIn(t, b ++ (u ++ c), Len(b))
  PROVE  NotIn(t, (b ++ (u ++ c)) ++ rest, Len(b))
<1> DEFINE s == b ++ (u ++ c)
<1>1. /\ u \in Text /\ t \in Text /\ Len(u) \in Nat \ {0} /\ Len(t) \in Nat \ {0}
      /\ Len(b) \in Nat /\ Len(c) \in Nat
  BY Bytes, TagTypes
<1>2. u ++ c \in Text /\ s \in Text
  BY <1>1, Closed
<1>3. Here(u, s, Len(b) + 1) /\ Len(s) = (Len(b) + Len(u)) + Len(c)
  BY <1>1, StoodThere DEF ++
<1>4. s[Len(b) + 1] = u[1]
  <2>1. 1 \in 1 .. Len(u) /\ ((Len(b) + 1) + 1) - 1 = Len(b) + 1
    BY <1>1
  <2> QED BY <1>3, <2>1 DEF Here
<1>5. \A j \in 1 .. Len(s) : (s ++ rest)[j] = s[j]
  BY <1>2, Joined DEF ++
<1> HIDE DEF s
<1> SUFFICES ASSUME NEW i \in 1 .. Len(b), Here(t, s ++ rest, i) PROVE FALSE
  BY DEF NotIn, s
<1>6. ~ Here(t, s, i)
  BY DEF NotIn, s
<1>7. ~ (i + Len(t) <= Len(s) + 1)
  <2>1. i \in Nat \ {0}
    BY <1>1
  <2> QED BY <1>1, <1>2, <1>6, <2>1, HereWithin
<1> DEFINE k == (Len(b) + 2) - i
<1>8. k \in 1 .. Len(t) /\ k # 1 /\ (i + k) - 1 = Len(b) + 1 /\ Len(b) + 1 \in 1 .. Len(s)
  BY <1>1, <1>3, <1>7
<1> HIDE DEF k
<1>9. t[k] = u[1]
  BY <1>4, <1>5, <1>8 DEF Here
<1> QED BY <1>8, <1>9, TagAssumption

-----------------------------------------------------------------------------
(* Where the splitter is in the reading of the whole text, when it has put *)
(* out C and R and `rest` is still to come.                                *)
Mode(s) == IF s.tool THEN "tool" ELSE IF s.think THEN "think" ELSE "text"
View(s, C, R, rest) ==
  [rest |-> s.buf ++ rest, mode |-> Mode(s), text |-> C, think |-> R,
   tool |-> s.body, calls |-> s.calls]

OneMode(s) == ~ (s.tool /\ s.think)

LEMMA ViewTypes ==
  ASSUME NEW s \in Splitter, NEW C \in Text, NEW R \in Text, NEW rest \in Text
  PROVE  /\ View(s, C, R, rest) \in Reading
         /\ View(s, C, R, rest).rest = s.buf ++ rest /\ View(s, C, R, rest).mode = Mode(s)
         /\ View(s, C, R, rest).text = C /\ View(s, C, R, rest).think = R
         /\ View(s, C, R, rest).tool = s.body /\ View(s, C, R, rest).calls = s.calls
         /\ s.buf \in Text /\ s.body \in Text /\ s.calls \in Seq(Text)
<1>1. s.buf \in Text /\ s.body \in Text /\ s.calls \in Seq(Text)
  BY DEF Splitter
<1>2. s.buf ++ rest \in Text /\ Mode(s) \in Modes
  BY <1>1, Closed DEF Mode, Modes
<1> QED BY <1>1, <1>2 DEF View, Reading

(* Taking a tag out of the buffer is reading up to it and past it.         *)
LEMMA TakeReads ==
  ASSUME NEW r \in Release, OneMode(r.splitter), NEW C \in Text, NEW R \in Text, NEW rest \in Text
  PROVE  /\ OneMode(Take(r).splitter)
         /\ AllRead(View(Take(r).splitter, C ++ Take(r).content, R ++ Take(r).reasoning, rest))
              = AllRead(View(r.splitter, C ++ r.content, R ++ r.reasoning, rest))
<1> DEFINE q == Take(r)
           s == r.splitter
           v == q.splitter
           Cr == C ++ r.content
           Rr == R ++ r.reasoning
           x == View(s, Cr, Rr, rest)
           y == View(v, C ++ q.content, R ++ q.reasoning, rest)
<1>1. q \in Release /\ s \in Splitter /\ v \in Splitter
      /\ r.content \in Text /\ r.reasoning \in Text /\ q.content \in Text /\ q.reasoning \in Text
  BY TakeIs DEF Release
<1>2. Cr \in Text /\ Rr \in Text /\ C ++ q.content \in Text /\ R ++ q.reasoning \in Text
  BY <1>1, Closed
<1> HIDE DEF q, s, v, Cr, Rr
<1>3. /\ x \in Reading /\ y \in Reading /\ s.buf \in Text /\ v.buf \in Text
      /\ s.body \in Text /\ s.calls \in Seq(Text)
      /\ x.rest = s.buf ++ rest /\ x.mode = Mode(s) /\ x.text = Cr /\ x.think = Rr
      /\ x.tool = s.body /\ x.calls = s.calls
      /\ y.rest = v.buf ++ rest /\ y.mode = Mode(v) /\ y.text = C ++ q.content
      /\ y.think = R ++ q.reasoning /\ y.tool = v.body /\ y.calls = v.calls
  <2>1. /\ x \in Reading /\ s.buf \in Text /\ s.body \in Text /\ s.calls \in Seq(Text)
        /\ x.rest = s.buf ++ rest /\ x.mode = Mode(s) /\ x.text = Cr /\ x.think = Rr
        /\ x.tool = s.body /\ x.calls = s.calls
    BY <1>1, <1>2, ViewTypes
  <2> DEFINE Cq == C ++ q.content
             Rq == R ++ q.reasoning
             yq == View(v, Cq, Rq, rest)
  <2>2. /\ yq \in Reading /\ v.buf \in Text
        /\ yq.rest = v.buf ++ rest /\ yq.mode = Mode(v) /\ yq.text = Cq
        /\ yq.think = Rq /\ yq.tool = v.body /\ yq.calls = v.calls
    <3>1. Cq \in Text /\ Rq \in Text
      BY <1>2
    <3> HIDE DEF Cq, Rq
    <3> QED BY <1>1, <3>1, ViewTypes
  <2> QED BY <2>1, <2>2
<1>4. ASSUME NEW b \in Text
      PROVE  Cr ++ b = C ++ (r.content ++ b) /\ Rr ++ b = R ++ (r.reasoning ++ b)
  <2>1. (C ++ r.content) ++ b = C ++ (r.content ++ b)
    BY <1>1, <1>4, AssocT
  <2>2. (R ++ r.reasoning) ++ b = R ++ (r.reasoning ++ b)
    BY <1>1, <1>4, AssocT
  <2> QED BY <2>1, <2>2 DEF Cr, Rr
<1> HIDE DEF x, y
<1>5. Cr ++ <<>> = Cr /\ Rr ++ <<>> = Rr /\ Cr = C ++ r.content /\ Rr = R ++ r.reasoning
  BY <1>2, PaddedT DEF Cr, Rr
<1>6. ASSUME NEW b \in Text, NEW t \in Tags, s.buf = b ++ (t ++ v.buf), Counts(Mode(s), t),
             \A u \in Tags : Counts(Mode(s), u) => NotIn(u, s.buf, Len(b)),
             Mode(v) = IF Mode(s) # "text" THEN "text" ELSE IF t = ThinkOpen THEN "think" ELSE "tool",
             C ++ q.content = IF Mode(s) = "text" THEN Cr ++ b ELSE Cr,
             R ++ q.reasoning = IF Mode(s) = "think" THEN Rr ++ b ELSE Rr,
             v.body = IF Mode(s) = "tool" THEN <<>> ELSE s.body,
             v.calls = IF Mode(s) = "tool" THEN Reported(s.calls, s.body ++ b) ELSE s.calls
      PROVE  AllRead(x) = AllRead(y)
  <2> DEFINE left == t ++ (v.buf ++ rest)
             body == IF x.mode = "tool" THEN x.tool ++ b ELSE x.tool
             z == [rest |-> left, mode |-> x.mode, text |-> C ++ q.content,
                   think |-> R ++ q.reasoning, tool |-> body, calls |-> x.calls]
  <2>1. t \in Text /\ left \in Text /\ body \in Text /\ x.mode \in Modes /\ v.buf ++ rest \in Text
    <3>1. t \in Text /\ v.buf ++ rest \in Text /\ x.tool \in Text /\ x.mode \in Modes
      BY <1>3, <1>6, TagTypes, Closed, ReadingTypes
    <3> QED BY <1>6, <3>1, Closed
  <2>2. x.rest = b ++ left
    <3>1. (b ++ (t ++ v.buf)) ++ rest = b ++ ((t ++ v.buf) ++ rest)
      <4>1. t ++ v.buf \in Text
        BY <1>3, <2>1, Closed
      <4> QED BY <1>6, <4>1, AssocT
    <3>2. (t ++ v.buf) ++ rest = t ++ (v.buf ++ rest)
      BY <1>3, <2>1, AssocT
    <3> QED BY <1>3, <1>6, <3>1, <3>2
  <2>3. ASSUME NEW u \in Tags, Counts(x.mode, u) PROVE NotIn(u, x.rest, Len(b))
    <3>1. NotIn(u, b ++ (t ++ v.buf), Len(b))
      BY <1>3, <1>6, <2>3
    <3>2. NotIn(u, (b ++ (t ++ v.buf)) ++ rest, Len(b))
      BY <1>3, <1>6, <2>3, <3>1, TagStays
    <3> QED BY <1>3, <1>6, <3>2
  <2> HIDE DEF left, body
  <2>4. /\ z \in Reading /\ z.rest = left /\ z.mode = x.mode /\ z.text = C ++ q.content
        /\ z.think = R ++ q.reasoning /\ z.tool = body /\ z.calls = x.calls
    BY <1>2, <1>3, <2>1 DEF Reading
  <2> HIDE DEF z
  <2>5. Moved(x, z, b)
    BY <1>3, <1>6, <2>2, <2>4 DEF Moved, body
  <2>6. PassedTag(z, y, t)
    BY <1>3, <1>6, <2>4 DEF PassedTag, left, body
  <2>7. Counts(x.mode, t)
    BY <1>3, <1>6
  <2> QED BY <1>3, <1>6, <2>3, <2>4, <2>5, <2>6, <2>7, TagCrossed
<1>7. ASSUME NEW b \in Text, ToolEnds(r, q, b)
      PROVE  OneMode(v) /\ AllRead(x) = AllRead(y)
  <2>1. /\ s.buf = b ++ (ToolClose ++ v.buf) /\ NotIn(ToolClose, s.buf, Len(b))
        /\ s.tool /\ ~ v.tool /\ (v.think <=> s.think) /\ v.body = <<>>
        /\ v.calls = Reported(s.calls, s.body ++ b)
        /\ q.content = r.content /\ q.reasoning = r.reasoning
    BY <1>7 DEF ToolEnds, ++, s, v
  <2>2. Mode(s) = "tool" /\ ~ v.think /\ Mode(v) = "text"
    BY <2>1 DEF OneMode, Mode, s
  <2>3. Counts(Mode(s), ToolClose) /\ \A u \in Tags : Counts(Mode(s), u) => u = ToolClose
    BY <2>2 DEF Counts
  <2>4. AllRead(x) = AllRead(y)
    BY <1>5, <1>6, <2>1, <2>2, <2>3, TagTypes
  <2> QED BY <2>1, <2>4 DEF OneMode
<1>8. ASSUME NEW b \in Text, ThinkEnds(r, q, b)
      PROVE  OneMode(v) /\ AllRead(x) = AllRead(y)
  <2>1. /\ s.buf = b ++ (ThinkClose ++ v.buf) /\ NotIn(ThinkClose, s.buf, Len(b))
        /\ ~ s.tool /\ s.think /\ ~ v.tool /\ ~ v.think
        /\ v.body = s.body /\ v.calls = s.calls
        /\ q.content = r.content /\ q.reasoning = r.reasoning ++ b
    BY <1>8 DEF ThinkEnds, ++, s, v
  <2>2. Mode(s) = "think" /\ Mode(v) = "text"
    BY <2>1 DEF Mode
  <2>3. Counts(Mode(s), ThinkClose) /\ \A u \in Tags : Counts(Mode(s), u) => u = ThinkClose
    BY <2>2 DEF Counts
  <2>4. R ++ q.reasoning = Rr ++ b /\ C ++ q.content = Cr
    BY <1>4, <1>5, <2>1
  <2>5. AllRead(x) = AllRead(y)
    BY <1>6, <2>1, <2>2, <2>3, <2>4, TagTypes
  <2> QED BY <2>1, <2>5 DEF OneMode
<1>9. ASSUME NEW b \in Text, ThinkBegins(r, q, b) \/ ToolBegins(r, q, b)
      PROVE  OneMode(v) /\ AllRead(x) = AllRead(y)
  <2> DEFINE t == IF v.think THEN ThinkOpen ELSE ToolOpen
  <2>1. /\ s.buf = b ++ (t ++ v.buf) /\ NotIn(ThinkOpen, s.buf, Len(b))
        /\ NotIn(ToolOpen, s.buf, Len(b))
        /\ ~ s.tool /\ ~ s.think /\ (v.tool <=> ~ v.think)
        /\ v.body = s.body /\ v.calls = s.calls
        /\ q.content = r.content ++ b /\ q.reasoning = r.reasoning
    BY <1>9 DEF ThinkBegins, ToolBegins, ++, s, v
  <2>2. t \in Tags /\ ToolOpen # ThinkOpen
    <3>1. ThinkOpen \in Text /\ IsPrefix(ThinkOpen, ThinkOpen)
      <4>1. ThinkOpen \in Text /\ ThinkOpen \in Seq(Byte)
        BY TagTypes DEF Text
      <4>2. Len(ThinkOpen) \in Nat /\ SubSeq(ThinkOpen, 1, Len(ThinkOpen)) = ThinkOpen
        BY <4>1, LenProperties, SubSeqFull
      <4> QED BY <4>1, <4>2 DEF IsPrefix
    <3> QED BY <3>1, TagTypes, OneOpens
  <2>3. Mode(s) = "text" /\ Mode(v) = IF t = ThinkOpen THEN "think" ELSE "tool"
    BY <2>1, <2>2 DEF Mode
  <2>4. Counts(Mode(s), t) /\ \A u \in Tags : Counts(Mode(s), u) => u = ThinkOpen \/ u = ToolOpen
    BY <2>3 DEF Counts
  <2>5. C ++ q.content = Cr ++ b /\ R ++ q.reasoning = Rr
    BY <1>4, <1>5, <2>1
  <2> HIDE DEF t
  <2>6. AllRead(x) = AllRead(y)
    BY <1>6, <2>1, <2>2, <2>3, <2>4, <2>5
  <2> QED BY <2>1, <2>6 DEF OneMode
<1>10. \/ q = r
       \/ \E b \in Text : \/ ToolEnds(r, q, b) \/ ThinkEnds(r, q, b)
                          \/ ThinkBegins(r, q, b) \/ ToolBegins(r, q, b)
  BY TakeIs DEF q
<1>11. OneMode(v) /\ AllRead(x) = AllRead(y)
  <2>1. CASE q = r
    BY <2>1 DEF q, s, v, x, y, Cr, Rr
  <2>2. CASE q # r
    BY <1>7, <1>8, <1>9, <1>10, <2>2
  <2> QED BY <2>1, <2>2
<1> QED BY <1>11 DEF q, s, v, x, y, Cr, Rr

(* So is putting out all that no tag can begin in.                         *)
LEMMA OutReads ==
  ASSUME NEW r \in Release, NEW q \in Release, NEW out \in Text, Emits(r, q, out),
         NoTag(r.splitter), OneMode(r.splitter),
         NEW C \in Text, NEW R \in Text, NEW rest \in Text,
         rest = <<>> \/ Len(out) = 0 \/ Len(q.splitter.buf) = Hold
  PROVE  /\ OneMode(q.splitter)
         /\ AllRead(View(q.splitter, C ++ q.content, R ++ q.reasoning, rest))
              = AllRead(View(r.splitter, C ++ r.content, R ++ r.reasoning, rest))
<1> DEFINE s == r.splitter
           v == q.splitter
           Cr == C ++ r.content
           Rr == R ++ r.reasoning
           x == View(s, Cr, Rr, rest)
           y == View(v, C ++ q.content, R ++ q.reasoning, rest)
<1>1. /\ s \in Splitter /\ v \in Splitter
      /\ r.content \in Text /\ r.reasoning \in Text /\ q.content \in Text /\ q.reasoning \in Text
  BY DEF Release
<1>2. Cr \in Text /\ Rr \in Text /\ C ++ q.content \in Text /\ R ++ q.reasoning \in Text
  BY <1>1, Closed
<1>4. Cr ++ out = C ++ (r.content ++ out) /\ Rr ++ out = R ++ (r.reasoning ++ out)
  <2>1. (C ++ r.content) ++ out = C ++ (r.content ++ out)
    BY <1>1, AssocT
  <2>2. (R ++ r.reasoning) ++ out = R ++ (r.reasoning ++ out)
    BY <1>1, AssocT
  <2> QED BY <2>1, <2>2
<1>5. /\ s.buf = out ++ v.buf /\ (v.tool <=> s.tool) /\ (v.think <=> s.think)
      /\ v.calls = s.calls
      /\ v.body = IF s.tool THEN s.body ++ out ELSE s.body
      /\ q.reasoning = IF ~ s.tool /\ s.think THEN r.reasoning ++ out ELSE r.reasoning
      /\ q.content = IF ~ s.tool /\ ~ s.think THEN r.content ++ out ELSE r.content
  BY DEF Emits, ++
<1>6. Cr = C ++ r.content /\ Rr = R ++ r.reasoning
  OBVIOUS
<1>7. \A t \in Tags : Counts(Mode(s), t) => Absent(t, s.buf)
  BY DEF NoTag, Counts, Mode
<1>8. OneMode(s)
  OBVIOUS
<1>9. rest = <<>> \/ Len(out) = 0 \/ Len(v.buf) = Hold
  OBVIOUS
<1> HIDE DEF s, v, Cr, Rr
<1>3. /\ x \in Reading /\ y \in Reading /\ s.buf \in Text /\ v.buf \in Text
      /\ s.body \in Text /\ s.calls \in Seq(Text)
      /\ x.rest = s.buf ++ rest /\ x.mode = Mode(s) /\ x.text = Cr /\ x.think = Rr
      /\ x.tool = s.body /\ x.calls = s.calls
      /\ y.rest = v.buf ++ rest /\ y.mode = Mode(v) /\ y.text = C ++ q.content
      /\ y.think = R ++ q.reasoning /\ y.tool = v.body /\ y.calls = v.calls
  <2>1. /\ x \in Reading /\ s.buf \in Text /\ s.body \in Text /\ s.calls \in Seq(Text)
        /\ x.rest = s.buf ++ rest /\ x.mode = Mode(s) /\ x.text = Cr /\ x.think = Rr
        /\ x.tool = s.body /\ x.calls = s.calls
    BY <1>1, <1>2, ViewTypes
  <2> DEFINE Cq == C ++ q.content
             Rq == R ++ q.reasoning
             yq == View(v, Cq, Rq, rest)
  <2>2. /\ yq \in Reading /\ v.buf \in Text
        /\ yq.rest = v.buf ++ rest /\ yq.mode = Mode(v) /\ yq.text = Cq
        /\ yq.think = Rq /\ yq.tool = v.body /\ yq.calls = v.calls
    <3>1. Cq \in Text /\ Rq \in Text
      BY <1>2
    <3> HIDE DEF Cq, Rq
    <3> QED BY <1>1, <3>1, ViewTypes
  <2> QED BY <2>1, <2>2
<1> HIDE DEF x, y
<1>10. Moved(x, y, out)
  <2>1. x.rest = out ++ y.rest
    <3>1. (out ++ v.buf) ++ rest = out ++ (v.buf ++ rest)
      BY <1>3, AssocT
    <3> QED BY <1>3, <1>5, <3>1
  <2>2. Mode(v) = Mode(s) /\ (Mode(s) = "tool" <=> s.tool)
        /\ (Mode(s) = "think" <=> ~ s.tool /\ s.think)
        /\ (Mode(s) = "text" <=> ~ s.tool /\ ~ s.think)
    BY <1>5 DEF Mode
  <2> QED BY <1>3, <1>4, <1>5, <1>6, <2>1, <2>2 DEF Moved
<1>11. ASSUME NEW t \in Tags, Counts(x.mode, t) PROVE NotIn(t, x.rest, Len(out))
  <2>1. Absent(t, s.buf) /\ t \in Text
    BY <1>3, <1>7, <1>11, TagTypes
  <2> SUFFICES ASSUME NEW i \in 1 .. Len(out), Here(t, s.buf ++ rest, i) PROVE FALSE
    BY <1>3 DEF NotIn
  <2>2. i \in Nat \ {0} /\ Len(out) \in Nat /\ Len(v.buf) \in Nat /\ Len(out) # 0
    BY <1>3, Bytes
  <2>3. CASE rest = <<>>
    <3>1. s.buf ++ rest = s.buf
      BY <1>3, <2>3, PaddedT
    <3> QED BY <2>1, <2>2, <3>1 DEF Absent
  <2>4. CASE Len(v.buf) = Hold
    <3>1. Len(s.buf) = Len(out) + Len(v.buf)
      BY <1>3, <1>5, Joined DEF ++
    <3>2. Len(t) <= Hold + 1 /\ Len(t) \in Nat /\ Hold \in Nat
      BY <1>11, HoldsTags, TagTypes
    <3>3. i + Len(t) <= Len(s.buf) + 1
      BY <2>2, <2>4, <3>1, <3>2
    <3>4. Here(t, s.buf, i)
      BY <1>3, <2>1, <2>2, <3>3, HereWithin
    <3> QED BY <2>1, <2>2, <3>4 DEF Absent
  <2> QED BY <1>9, <2>2, <2>3, <2>4
<1>12. AllRead(x) = AllRead(y)
  BY <1>3, <1>10, <1>11, BytesRead
<1>13. OneMode(v)
  BY <1>5, <1>8 DEF OneMode
<1> QED BY <1>12, <1>13 DEF s, v, Cr, Rr, x, y

(* One call of the splitter reads the piece it is given, up to what it     *)
(* holds back.                                                             *)
LEMMA FeedReads ==
  ASSUME splitter \in Splitter, OneMode(splitter), NEW piece \in Text, NEW final \in BOOLEAN,
         NEW C \in Text, NEW R \in Text, NEW rest \in Text, final => Len(rest) = 0
  PROVE  LET q == Feed(piece, final)
         IN /\ OneMode(q.splitter) /\ q \in Release
            /\ final => q.splitter.buf = <<>>
            /\ AllRead(View(q.splitter, C ++ q.content, R ++ q.reasoning, rest))
                 = AllRead(View(splitter, C, R, piece ++ rest))
<1> DEFINE f == Fed(splitter, piece)
           r == Scan(f)
           q == Feed(piece, final)
           V(x) == View(x.splitter, C ++ x.content, R ++ x.reasoning, rest)
           P == {x \in Release : OneMode(x.splitter) /\ AllRead(V(x)) = AllRead(V(f))}
<1>1. /\ f \in Release /\ r \in Release /\ NoTag(r.splitter) /\ q \in Release
      /\ \E out \in Text : /\ Emits(r, q, out)
                           /\ final => q.splitter.buf = <<>>
                           /\ ~ final /\ Len(out) > 0 => Len(q.splitter.buf) = Hold
  BY FeedIs
<1>2. /\ f.splitter.buf = splitter.buf ++ piece /\ splitter.buf \in Text
      /\ f.splitter.tool = splitter.tool /\ f.splitter.think = splitter.think
      /\ f.splitter.body = splitter.body /\ f.splitter.calls = splitter.calls
      /\ f.content = <<>> /\ f.reasoning = <<>> /\ C ++ <<>> = C /\ R ++ <<>> = R
  BY FedIs, PaddedT DEF ++, Splitter
<1> HIDE DEF f, q
<1>3. OneMode(f.splitter)
  BY <1>2 DEF OneMode
<1>4. V(f) = View(splitter, C, R, piece ++ rest)
  <2>1. (splitter.buf ++ piece) ++ rest = splitter.buf ++ (piece ++ rest)
    BY <1>2, AssocT
  <2>2. Mode(f.splitter) = Mode(splitter)
    BY <1>2 DEF Mode
  <2> QED BY <1>2, <2>1, <2>2 DEF View
<1>5. f \in P /\ \A x \in Release : x \in P => Take(x) \in P
  BY <1>1, <1>3, TakeIs, TakeReads
<1> HIDE DEF P, V
<1>6. r \in P
  BY <1>1, <1>5, ScanKeeps
<1>7. OneMode(r.splitter) /\ AllRead(V(r)) = AllRead(V(f))
  BY <1>6 DEF P
<1> HIDE DEF r
<1>8. PICK out \in Text : /\ Emits(r, q, out)
                          /\ final => q.splitter.buf = <<>>
                          /\ ~ final /\ Len(out) > 0 => Len(q.splitter.buf) = Hold
  BY <1>1
<1>9. rest = <<>> \/ Len(out) = 0 \/ Len(q.splitter.buf) = Hold
  <2>1. rest \in Seq(Byte)
    BY DEF Text
  <2>2. final => rest = <<>>
    BY <2>1, EmptySeq
  <2> QED BY <1>8, <2>2, Bytes
<1>10. OneMode(q.splitter) /\ AllRead(V(q)) = AllRead(V(r))
  BY <1>1, <1>7, <1>8, <1>9, OutReads DEF V
<1> QED BY <1>1, <1>4, <1>7, <1>8, <1>10 DEF V, q

-----------------------------------------------------------------------------
(* The first occurrence of a stop string stays where it is when text is    *)
(* added behind it.                                                        *)
LEMMA FindStays ==
  ASSUME NEW s \in Text, NEW add \in Text, NEW t \in Text, Find(s, t, 1) # 0
  PROVE  /\ Find(s ++ add, t, 1) = Find(s, t, 1)
         /\ Before(s ++ add, Find(s, t, 1)) = Before(s, Find(s, t, 1))
<1> DEFINE u == s ++ add
           i == Find(s, t, 1)
           j == Find(u, t, 1)
<1>1. u \in Text /\ s \in Seq(Byte) /\ u \in Seq(Byte) /\ t \in Seq(Byte) /\ 1 \in Nat \ {0}
  BY Closed DEF Text
<1>2. /\ Len(s) \in Nat /\ Len(t) \in Nat /\ Len(add) \in Nat /\ Len(u) = Len(s) + Len(add)
      /\ \A k \in 1 .. Len(s) : u[k] = s[k]
  BY <1>1, Joined, Bytes DEF ++
<1>3. /\ i \in Nat /\ 1 <= i /\ Here(t, s, i)
      /\ \A k \in Nat : 1 <= k /\ Here(t, s, k) => i <= k
  BY <1>1, Finds
<1>4. i \in Nat \ {0} /\ i + Len(t) <= Len(s) + 1
  BY <1>3 DEF Here
<1>5. Here(t, u, i)
  BY <1>3, <1>4, HereWithin
<1>6. /\ j \in Nat /\ (j = 0 => \A k \in Nat : 1 <= k => ~ Here(t, u, k))
      /\ j # 0 => /\ 1 <= j /\ Here(t, u, j)
                  /\ \A k \in Nat : 1 <= k /\ Here(t, u, k) => j <= k
  BY <1>1, Finds
<1> HIDE DEF i, j
<1>7. j # 0 /\ j <= i /\ j \in Nat \ {0} /\ Here(t, u, j)
  BY <1>3, <1>5, <1>6
<1>8. j + Len(t) <= Len(s) + 1
  BY <1>2, <1>4, <1>7
<1>9. Here(t, s, j)
  BY <1>7, <1>8, HereWithin DEF u
<1>10. j = i
  BY <1>3, <1>6, <1>7, <1>9
<1>11. i \in 1 .. Len(s) + 1 /\ i \in 1 .. Len(u) + 1
  BY <1>2, <1>4
<1> HIDE DEF u
<1>12. /\ Before(s, i) \in Seq(Byte) /\ Len(Before(s, i)) = i - 1
       /\ \A k \in 1 .. i - 1 : Before(s, i)[k] = s[k]
  BY <1>1, <1>11, CutTypes
<1>13. /\ Before(u, i) \in Seq(Byte) /\ Len(Before(u, i)) = i - 1
       /\ \A k \in 1 .. i - 1 : Before(u, i)[k] = u[k]
  BY <1>1, <1>11, CutTypes
<1>14. \A k \in 1 .. i - 1 : u[k] = s[k]
  BY <1>2, <1>11
<1>15. Before(u, i) = Before(s, i)
  <2>1. \A k \in 1 .. Len(Before(u, i)) : Before(u, i)[k] = Before(s, i)[k]
    BY <1>12, <1>13, <1>14
  <2> QED BY <1>12, <1>13, <2>1, SeqEqual
<1> QED BY <1>10, <1>15 DEF u, i, j

OneStop == Len(Stops) = 1 /\ Stops[1] # <<>>

LEMMA StopIs == ASSUME OneStop PROVE Stops[1] \in Text
<1>1. Stops \in Seq(Seq(Byte)) /\ 1 \in 1 .. Len(Stops)
  BY TextAssumption DEF OneStop
<1> QED BY <1>1, ElementOfSeq DEF Text

(* The search may begin where the stop string could end behind the old     *)
(* text: it has been through the rest.                                     *)
LEMMA StopFirst ==
  ASSUME OneStop, NEW text \in Text, NEW add \in Text, Absent(Stops[1], text)
  PROVE  StopAt(text ++ add, Len(text)) = Find(text ++ add, Stops[1], 1)
<1> DEFINE w == Stops[1]
           u == text ++ add
           from == SearchFrom(Len(text), w)
<1>1. /\ w \in Text /\ w \in Seq(Byte) /\ u \in Text /\ u \in Seq(Byte) /\ w # <<>>
      /\ Len(w) \in Nat /\ Len(text) \in Nat /\ Len(Stops) = 1
  BY StopIs, Closed, Bytes DEF Text, OneStop
<1>2. from \in Nat \ {0} /\ 1 \in Nat \ {0}
      /\ \A i \in Nat \ {0} : ~ (from <= i) => i + Len(w) <= Len(text) + 1
  BY <1>1 DEF SearchFrom
<1>3. \A i \in Nat \ {0} : ~ Here(w, text, i)
  BY DEF Absent
<1> HIDE DEF from, w
<1>4. ASSUME NEW i \in Nat \ {0}, Here(w, u, i) PROVE from <= i
  <2> SUFFICES ASSUME ~ (from <= i) PROVE FALSE
    OBVIOUS
  <2>1. i + Len(w) <= Len(text) + 1
    BY <1>2
  <2>2. Here(w, text, i)
    BY <1>1, <1>4, <2>1, HereWithin
  <2> QED BY <1>3, <2>2
<1> HIDE DEF u
<1>5. Occurrences(u, w, from) = {i \in Nat : from <= i /\ Here(w, u, i)}
  BY <1>1, <1>2, Occurs
<1>6. Occurrences(u, w, 1) = {i \in Nat : 1 <= i /\ Here(w, u, i)}
  BY <1>1, <1>2, Occurs
<1>7. \A i : i \in {k \in Nat : from <= k /\ Here(w, u, k)} <=> i \in {k \in Nat : 1 <= k /\ Here(w, u, k)}
  <2>1. ASSUME NEW i \in Nat PROVE from <= i /\ Here(w, u, i) <=> 1 <= i /\ Here(w, u, i)
    <3>1. 1 <= i => i \in Nat \ {0}
      OBVIOUS
    <3> QED BY <1>2, <1>4, <3>1
  <2> QED BY <2>1
<1>8. Find(u, w, from) = Find(u, w, 1)
  BY <1>5, <1>6, <1>7 DEF Find
<1> DEFINE cuts(k) == /\ Stops[k] # <<>>
                      /\ Find(u, Stops[k], SearchFrom(Len(text), Stops[k])) # 0
           hits == {k \in 1 .. Len(Stops) : cuts(k)}
<1>9. StopAt(u, Len(text)) =
        IF hits = {} THEN 0
        ELSE Find(u, Stops[Min(hits)], SearchFrom(Len(text), Stops[Min(hits)]))
  BY DEF StopAt
<1>10. hits = IF Find(u, w, from) # 0 THEN {1} ELSE {}
  <2>1. \A k : k \in 1 .. Len(Stops) <=> k = 1
    BY <1>1
  <2>2. cuts(1) <=> Find(u, w, from) # 0
    BY <1>1 DEF w, from
  <2> HIDE DEF cuts
  <2> QED BY <2>1, <2>2
<1>11. Min({1}) = 1
  <2>1. Min({1}) = CHOOSE x \in {1} : \A y \in {1} : x <= y
    BY DEF Min
  <2>2. 1 \in {1} /\ \A y \in {1} : 1 <= y
    OBVIOUS
  <2> QED BY <2>1, <2>2
<1> HIDE DEF hits
<1>12. StopAt(u, Len(text)) = Find(u, w, from)
  <2>1. CASE Find(u, w, from) # 0
    <3>1. Min(hits) = 1 /\ hits # {}
      BY <1>10, <1>11, <2>1
    <3> QED BY <1>9, <3>1 DEF w, from
  <2>2. CASE Find(u, w, from) = 0
    BY <1>9, <1>10, <2>2
  <2> QED BY <2>1, <2>2
<1> QED BY <1>8, <1>12 DEF u, w

LEMMA NotFound ==
  ASSUME NEW s \in Text, NEW t \in Text, Find(s, t, 1) = 0
  PROVE  Absent(t, s)
<1>1. s \in Seq(Byte) /\ t \in Seq(Byte) /\ 1 \in Nat \ {0}
  BY DEF Text
<1>2. \A i \in Nat : 1 <= i => ~ Here(t, s, i)
  BY <1>1, Finds
<1>3. \A i \in Nat \ {0} : i \in Nat /\ 1 <= i
  OBVIOUS
<1> QED BY <1>2, <1>3 DEF Absent

-----------------------------------------------------------------------------
(* The parts of the answer so far, as a place in the reading of the whole  *)
(* text: c is the content as the splitter puts it out, the answer's own    *)
(* unless a stop string has cut it.                                        *)
Opened(a, th) ==
  [rest |-> a, mode |-> IF th THEN "think" ELSE "text",
   text |-> <<>>, think |-> <<>>, tool |-> <<>>, calls |-> <<>>]

AsWhole(s, c, R, a, th) ==
  \A rest \in Text : AllRead(View(s, c, R, rest)) = AllRead(Opened(a ++ rest, th))

CutAt(live, hit, answer, c) ==
  live /\ OneStop =>
    /\ ~ hit => Absent(Stops[1], c)
    /\ hit => Find(c, Stops[1], 1) # 0 /\ answer = Before(c, Find(c, Stops[1], 1))

WholeRead == AllRead(Opened(all, thinking))

Complete ==
  /\ splitter.calls = WholeRead.calls /\ IsPrefix(reasoning, WholeRead.think)
  /\ ~ hitStop => content = WholeRead.text /\ reasoning = WholeRead.think

Exact ==
  alive /\ OneStop =>
    LET i == Find(WholeRead.text, Stops[1], 1)
    IN content = IF i = 0 THEN WholeRead.text ELSE Before(WholeRead.text, i)

Partly ==
  \E c \in Text : /\ AsWhole(splitter, c, reasoning, all, thinking)
                  /\ CutAt(alive, hitStop, content, c)
                  /\ ~ hitStop => content = c

SplitInv ==
  /\ phase \in {"decode", "flush"} => OneMode(splitter) /\ Partly
  /\ phase \in {"tail", "done"} => Complete /\ Exact

LEMMA SplitInit == Init => SplitInv
<1> SUFFICES ASSUME Init PROVE SplitInv
  OBVIOUS
<1>1. /\ all = <<>> /\ content = <<>> /\ reasoning = <<>> /\ thinking \in BOOLEAN
      /\ hitStop = FALSE /\ phase = "decode" /\ splitter.buf = <<>> /\ splitter.tool = FALSE
      /\ splitter.think = thinking /\ splitter.body = <<>> /\ splitter.calls = <<>>
  BY DEF Init
<1>2. <<>> \in Text
  BY NoText
<1>3. AsWhole(splitter, <<>>, reasoning, all, thinking)
  BY <1>1 DEF AsWhole, View, Mode, Opened
<1>4. CutAt(alive, hitStop, content, <<>>)
  <2> SUFFICES ASSUME OneStop PROVE Absent(Stops[1], <<>>)
    BY <1>1 DEF CutAt
  <2>1. Stops[1] \in Text /\ Stops[1] # <<>>
    BY StopIs DEF OneStop
  <2>2. Len(Stops[1]) \in Nat \ {0} /\ Len(<<>>) = 0
    <3>1. Stops[1] \in Seq(Byte)
      BY <2>1 DEF Text
    <3> QED BY <2>1, <3>1, EmptySeq, LenProperties, NoText
  <2>3. \A i \in Nat \ {0} : ~ (i + Len(Stops[1]) <= Len(<<>>) + 1)
    BY <2>2
  <2> QED BY <2>3 DEF Absent, Here
<1>5. OneMode(splitter)
  BY <1>1 DEF OneMode
<1> QED BY <1>1, <1>2, <1>3, <1>4, <1>5 DEF SplitInv, Partly

LEMMA FeedReadsOn ==
  ASSUME splitter \in Splitter, OneMode(splitter), NEW piece \in Text, NEW C \in Text,
         NEW R \in Text, NEW rest \in Text
  PROVE  /\ OneMode(Feed(piece, FALSE).splitter)
         /\ AllRead(View(Feed(piece, FALSE).splitter, C ++ Feed(piece, FALSE).content,
                         R ++ Feed(piece, FALSE).reasoning, rest))
              = AllRead(View(splitter, C, R, piece ++ rest))
<1> DEFINE final == FALSE
<1>1. final \in BOOLEAN /\ (final => Len(rest) = 0) /\ final = FALSE
  OBVIOUS
<1> HIDE DEF final
<1>2. /\ OneMode(Feed(piece, final).splitter)
      /\ AllRead(View(Feed(piece, final).splitter, C ++ Feed(piece, final).content,
                      R ++ Feed(piece, final).reasoning, rest))
           = AllRead(View(splitter, C, R, piece ++ rest))
  BY <1>1, FeedReads
<1> QED BY <1>2 DEF final

LEMMA FeedReadsLast ==
  ASSUME splitter \in Splitter, OneMode(splitter), NEW piece \in Text, NEW C \in Text,
         NEW R \in Text, NEW rest \in Text, Len(rest) = 0
  PROVE  /\ Feed(piece, TRUE).splitter.buf = <<>>
         /\ AllRead(View(Feed(piece, TRUE).splitter, C ++ Feed(piece, TRUE).content,
                         R ++ Feed(piece, TRUE).reasoning, rest))
              = AllRead(View(splitter, C, R, piece ++ rest))
<1> DEFINE final == TRUE
<1>1. final \in BOOLEAN /\ (final => Len(rest) = 0)
  OBVIOUS
<1>0. final = TRUE
  OBVIOUS
<1> HIDE DEF final
<1>2. AllRead(View(Feed(piece, final).splitter, C ++ Feed(piece, final).content,
                   R ++ Feed(piece, final).reasoning, rest))
        = AllRead(View(splitter, C, R, piece ++ rest))
  BY <1>1, FeedReads
<1>3. Feed(piece, final).splitter.buf = <<>>
  BY <1>0, <1>1, FeedIs
<1> QED BY <1>2, <1>3 DEF final

LEMMA FeedReadsOut ==
  ASSUME splitter \in Splitter, OneMode(splitter), NEW C \in Text, NEW R \in Text
  PROVE  /\ Feed(<<>>, TRUE).splitter.buf = <<>>
         /\ AllRead(View(Feed(<<>>, TRUE).splitter, C ++ Feed(<<>>, TRUE).content,
                         R ++ Feed(<<>>, TRUE).reasoning, <<>>))
              = AllRead(View(splitter, C, R, <<>>))
<1>1. <<>> \in Text /\ <<>> ++ <<>> = <<>>
  BY NoText, PaddedT
<1> DEFINE e == <<>>
<1>2. e \in Text /\ Len(e) = 0
  BY <1>1, NoText
<1>3. e ++ e = e
  BY <1>1
<1> HIDE DEF e
<1>4. /\ Feed(e, TRUE).splitter.buf = <<>>
      /\ AllRead(View(Feed(e, TRUE).splitter, C ++ Feed(e, TRUE).content,
                      R ++ Feed(e, TRUE).reasoning, e))
           = AllRead(View(splitter, C, R, e ++ e))
  BY <1>2, FeedReadsLast
<1> QED BY <1>3, <1>4 DEF e

LEMMA SplitToken ==
  ASSUME TypeInv, SplitInv, Undecided, NEW piece \in Pieces, Token(piece)
  PROVE  SplitInv'
<1> DEFINE q == Feed(piece, FALSE)
           text == content ++ q.content
           cut == StopAt(text, Len(content))
<1>1. /\ TypeOK /\ piece \in Text /\ FALSE \in BOOLEAN /\ all \in Text
      /\ content \in Text /\ reasoning \in Text /\ splitter \in Splitter
  BY TextAssumption DEF TypeInv, TypeOK, Text, Splitter
<1>2. /\ q.splitter \in Splitter /\ q.content \in Text /\ q.reasoning \in Text /\ text \in Text
  BY <1>1, FeedTypes DEF ++
<1>3. /\ phase = "decode" /\ alive /\ ~ hitStop
      /\ all' = all ++ piece /\ splitter' = q.splitter /\ thinking' = thinking
      /\ reasoning' = reasoning ++ q.reasoning
  BY DEF Token, Undecided, ++
<1>4. /\ phase' \in {"decode", "flush"}
      /\ \/ ~ alive' /\ content' = text /\ hitStop' = hitStop
         \/ cut # 0 /\ hitStop' = TRUE /\ content' = Before(text, cut)
         \/ cut = 0 /\ content' = text /\ hitStop' = hitStop
  BY DEF Token, ++
<1>5. /\ OneMode(splitter) /\ AsWhole(splitter, content, reasoning, all, thinking)
      /\ CutAt(alive, hitStop, content, content)
  <2>1. phase \in {"decode", "flush"} /\ ~ hitStop
    BY <1>3
  <2>2. PICK c \in Text : /\ AsWhole(splitter, c, reasoning, all, thinking)
                          /\ CutAt(alive, hitStop, content, c)
                          /\ ~ hitStop => content = c
    <3>1. Partly
      BY <2>1 DEF SplitInv
    <3> QED BY <3>1, Zenon DEF Partly
  <2>3. OneMode(splitter)
    BY <2>1 DEF SplitInv
  <2>4. content = c
    BY <2>1, <2>2
  <2> QED BY <2>2, <2>3, <2>4, Zenon
<1>6. ASSUME NEW rest \in Text
      PROVE  /\ OneMode(q.splitter)
             /\ AllRead(View(q.splitter, text, reasoning ++ q.reasoning, rest))
                  = AllRead(View(splitter, content, reasoning, piece ++ rest))
  <2>1. /\ splitter \in Splitter /\ OneMode(splitter) /\ piece \in Text
        /\ content \in Text /\ reasoning \in Text /\ rest \in Text
    BY <1>1, <1>5, <1>6
  <2> QED BY <2>1, FeedReadsOn
<1> HIDE DEF q, cut, text
<1>7. AsWhole(splitter', text, reasoning', all', thinking')
  <2> SUFFICES ASSUME NEW rest \in Text
               PROVE  AllRead(View(splitter', text, reasoning', rest))
                        = AllRead(Opened(all' ++ rest, thinking'))
    BY DEF AsWhole
  <2>1. piece ++ rest \in Text
    BY <1>1, Closed
  <2>2. AllRead(View(splitter, content, reasoning, piece ++ rest))
          = AllRead(Opened(all ++ (piece ++ rest), thinking))
    BY <1>5, <2>1 DEF AsWhole
  <2>3. (all ++ piece) ++ rest = all ++ (piece ++ rest)
    BY <1>1, AssocT
  <2> QED BY <1>3, <1>6, <2>2, <2>3
<1>8. OneMode(splitter')
  <2>1. <<>> \in Text
    BY NoText
  <2> QED BY <1>3, <1>6, <2>1
<1>9. CutAt(alive', hitStop', content', text)
  <2> SUFFICES ASSUME alive', OneStop
               PROVE  /\ ~ hitStop' => Absent(Stops[1], text)
                      /\ hitStop' => /\ Find(text, Stops[1], 1) # 0
                                     /\ content' = Before(text, Find(text, Stops[1], 1))
    BY DEF CutAt
  <2>1. Absent(Stops[1], content)
    BY <1>3, <1>5 DEF CutAt
  <2>2. cut = Find(text, Stops[1], 1)
    BY <1>1, <1>2, <2>1, StopFirst DEF cut, text
  <2>3. cut = 0 => Absent(Stops[1], text)
    BY <1>2, <2>2, StopIs, NotFound
  <2> QED BY <1>3, <1>4, <2>2, <2>3
<1>10. ~ hitStop' => content' = text
  BY <1>4
<1>11. Partly'
  BY <1>2, <1>7, <1>9, <1>10 DEF Partly
<1> QED BY <1>4, <1>8, <1>11 DEF SplitInv, OneMode

LEMMA SplitFlush == ASSUME TypeInv, SplitInv, Flush PROVE SplitInv'
<1> DEFINE q == Feed(<<>>, TRUE)
           text == content ++ q.content
           cut == StopAt(text, Len(content))
           rt == reasoning ++ q.reasoning
           w == WholeRead
<1>1. /\ TypeOK /\ <<>> \in Text /\ TRUE \in BOOLEAN /\ all \in Text
      /\ content \in Text /\ reasoning \in Text /\ splitter \in Splitter /\ carry \in Delta
      /\ alive \in BOOLEAN /\ hitStop \in BOOLEAN /\ all ++ <<>> = all /\ <<>> ++ <<>> = <<>>
  BY NoText, PaddedT DEF TypeInv, TypeOK, Splitter
<1>2. /\ q.splitter \in Splitter /\ q.content \in Text /\ q.reasoning \in Text
      /\ text \in Text /\ rt \in Text
  BY <1>1, FeedTypes DEF ++
<1>3. /\ phase = "flush" /\ phase' = "tail" /\ all' = all /\ thinking' = thinking
      /\ splitter' = q.splitter
      /\ hitStop => /\ content' = content /\ reasoning' = reasoning /\ alive' = alive
                    /\ hitStop'
      /\ ~ hitStop => /\ reasoning' = rt
                      /\ content' = IF cut # 0 THEN Before(text, cut) ELSE text
                      /\ hitStop' = (cut # 0)
                      /\ Released(IF cut # 0 THEN <<>> ELSE q.content, q.reasoning)
  BY DEF Flush, FlushScan, ++
<1>4. PICK c \in Text : /\ AsWhole(splitter, c, reasoning, all, thinking)
                        /\ CutAt(alive, hitStop, content, c)
                        /\ ~ hitStop => content = c
  <2>1. phase \in {"decode", "flush"}
    BY <1>3
  <2>2. Partly
    BY <2>1 DEF SplitInv
  <2> QED BY <2>2, Zenon DEF Partly
<1>5. OneMode(splitter)
  BY <1>3 DEF SplitInv
<1>6. /\ q.splitter.buf = <<>>
      /\ AllRead(View(q.splitter, c ++ q.content, rt, <<>>)) = w
  <2>1. /\ q.splitter.buf = <<>>
        /\ AllRead(View(q.splitter, c ++ q.content, rt, <<>>))
             = AllRead(View(splitter, c, reasoning, <<>>))
    <3>1. splitter \in Splitter /\ OneMode(splitter) /\ c \in Text /\ reasoning \in Text
      BY <1>1, <1>4, <1>5
    <3> QED BY <3>1, FeedReadsOut
  <2>2. AllRead(View(splitter, c, reasoning, <<>>)) = AllRead(Opened(all ++ <<>>, thinking))
    BY <1>1, <1>4 DEF AsWhole
  <2> QED BY <1>1, <2>1, <2>2 DEF WholeRead
<1> HIDE DEF q, cut, w
<1>7. w.text = c ++ q.content /\ w.think = rt /\ w.calls = q.splitter.calls
      /\ c ++ q.content \in Text
  <2> DEFINE ct == c ++ q.content
             x == View(q.splitter, ct, rt, <<>>)
  <2>1. ct \in Text
    BY <1>2, <1>4, Closed
  <2> HIDE DEF ct, rt
  <2>2. /\ x \in Reading /\ x.rest = q.splitter.buf ++ <<>> /\ x.text = ct /\ x.think = rt
        /\ x.calls = q.splitter.calls
    <3> DEFINE e == <<>>
    <3>1. e \in Text
      BY <1>1
    <3> HIDE DEF e
    <3>2. LET y == View(q.splitter, ct, rt, e)
          IN /\ y \in Reading /\ y.rest = q.splitter.buf ++ e /\ y.text = ct /\ y.think = rt
             /\ y.calls = q.splitter.calls
      <4>1. q.splitter \in Splitter /\ ct \in Text /\ rt \in Text /\ e \in Text
        BY <1>2, <2>1, <3>1
      <4> QED BY <4>1, ViewTypes
    <3> QED BY <3>2 DEF e
  <2>3. x.rest = <<>>
    BY <1>1, <1>6, <2>2
  <2> HIDE DEF x
  <2>4. AllRead(x) = x
    BY <2>2, <2>3, ReadToEnd
  <2>5. AllRead(x) = w
    BY <1>6 DEF x, ct
  <2> QED BY <2>1, <2>2, <2>4, <2>5 DEF ct
<1>8. WholeRead' = w
  BY <1>3 DEF WholeRead, w
<1>9. IsPrefix(reasoning, rt) /\ IsPrefix(rt, rt)
  <2>1. \A p, x \in Text : IsPrefix(p, p ++ x)
    <3> SUFFICES ASSUME NEW p \in Text, NEW x \in Text PROVE IsPrefix(p, p ++ x)
      OBVIOUS
    <3>1. /\ Len(p) \in Nat /\ Len(x) \in Nat /\ p ++ x \in Text /\ Len(p ++ x) = Len(p) + Len(x)
          /\ \A i \in 1 .. Len(p) : (p ++ x)[i] = p[i]
      BY Joined, Bytes DEF ++
    <3>2. Here(p, p ++ x, 1)
      BY <3>1 DEF Here
    <3>3. p \in Seq(Byte) /\ p ++ x \in Seq(Byte)
      BY <3>1 DEF Text
    <3> QED BY <3>2, <3>3, PrefixHere
  <2>2. rt ++ <<>> = rt
    BY <1>2, PaddedT
  <2> HIDE DEF rt
  <2>3. IsPrefix(rt, rt)
    BY <1>1, <1>2, <2>1, <2>2
  <2>4. IsPrefix(reasoning, rt)
    BY <1>1, <1>2, <2>1 DEF rt
  <2> QED BY <2>3, <2>4
<1>10. alive' => alive
  <2>1. CASE hitStop
    BY <1>3, <2>1
  <2>2. CASE ~ hitStop
    <3> DEFINE d == IF cut # 0 THEN <<>> ELSE q.content
    <3>1. d \in Text /\ Released(d, q.reasoning)
      BY <1>1, <1>2, <1>3, <2>2
    <3> HIDE DEF d
    <3>2. \/ ~ alive' /\ sent' = sent
          \/ alive' = alive
      BY <1>1, <1>2, <3>1, ReleasedIs
    <3> QED BY <3>2
  <2> QED BY <2>1, <2>2
<1>11. Complete'
  <2>1. CASE hitStop
    BY <1>3, <1>7, <1>8, <1>9, <2>1 DEF Complete
  <2>2. CASE ~ hitStop
    BY <1>3, <1>4, <1>7, <1>8, <1>9, <2>2 DEF Complete
  <2> QED BY <2>1, <2>2
<1>12. Exact'
  <2> SUFFICES ASSUME alive', OneStop
               PROVE  content' = IF Find(w.text, Stops[1], 1) = 0 THEN w.text
                                 ELSE Before(w.text, Find(w.text, Stops[1], 1))
    BY <1>8 DEF Exact
  <2>1. alive
    BY <1>10
  <2>2. CASE hitStop
    <3>1. Find(c, Stops[1], 1) # 0 /\ content = Before(c, Find(c, Stops[1], 1))
      BY <1>4, <2>1, <2>2 DEF CutAt
    <3>2. /\ Find(w.text, Stops[1], 1) = Find(c, Stops[1], 1)
          /\ Before(w.text, Find(c, Stops[1], 1)) = Before(c, Find(c, Stops[1], 1))
      BY <1>2, <1>4, <1>7, <3>1, StopIs, FindStays
    <3> QED BY <1>3, <2>2, <3>1, <3>2
  <2>3. CASE ~ hitStop
    <3>1. Absent(Stops[1], content) /\ w.text = text
      BY <1>4, <1>7, <2>1, <2>3 DEF CutAt
    <3>2. cut = Find(text, Stops[1], 1)
      BY <1>1, <1>2, <3>1, StopFirst DEF cut
    <3> QED BY <1>3, <2>3, <3>1, <3>2
  <2> QED BY <2>2, <2>3
<1> QED BY <1>3, <1>11, <1>12 DEF SplitInv

LEMMA SplitTail == ASSUME TypeInv, SplitInv, FlushTail PROVE SplitInv'
<1>1. /\ phase = "tail" /\ phase' = "done" /\ all' = all /\ thinking' = thinking
      /\ splitter' = splitter /\ content' = content /\ reasoning' = reasoning
      /\ hitStop' = hitStop /\ (alive' => alive)
  BY DEF FlushTail
<1>2. Complete /\ Exact
  BY <1>1 DEF SplitInv
<1>3. WholeRead' = WholeRead
  BY <1>1 DEF WholeRead
<1> QED BY <1>1, <1>2, <1>3 DEF SplitInv, Complete, Exact

LEMMA SplitStep == ASSUME TypeInv, SplitInv, Undecided, [Next]_vars PROVE SplitInv'
<1>1. CASE \E piece \in Pieces : Token(piece)
  BY <1>1, SplitToken
<1>2. CASE StopToken
  BY <1>2 DEF StopToken, SplitInv, Partly
<1>3. CASE Flush
  BY <1>3, SplitFlush
<1>4. CASE FlushTail
  BY <1>4, SplitTail
<1>5. CASE UNCHANGED vars
  BY <1>5 DEF vars, SplitInv, Partly, Complete, Exact, WholeRead
<1> QED BY <1>1, <1>2, <1>3, <1>4, <1>5 DEF Next

LEMMA SplitAlways == Spec => []SplitInv
<1>1. Init => SplitInv
  BY SplitInit
<1>2. TypeInv /\ Undecided /\ SplitInv /\ [Next]_vars => SplitInv'
  BY SplitStep
<1> QED BY <1>1, <1>2, StreamAlways, PTL DEF Spec

LEMMA ParsedIs == Parsed = WholeRead
BY DEF Parsed, WholeRead, Unread, Opened

(* However the text of an answer was cut into tokens, the calls of the     *)
(* splitter (ReasoningSplitter::feed and flush) part it as reading the     *)
(* whole text at once does; a stop string only shortens the parts.         *)
THEOREM SplitsAsWholeAlways == Spec => []SplitsAsWhole
<1>1. SplitInv => SplitsAsWhole
  BY ParsedIs DEF SplitInv, Complete, SplitsAsWhole
<1> QED BY <1>1, SplitAlways, PTL

(* With one stop string, scan_stops cuts the answer at the first place     *)
(* where it occurs in the whole content, although each search begins only  *)
(* a little before the text that is new.                                   *)
THEOREM StopsExactlyAlways == Spec => []StopsExactly
<1>1. SplitInv => StopsExactly
  BY ParsedIs DEF SplitInv, Exact, StopsExactly, OneStop
<1> QED BY <1>1, SplitAlways, PTL
================================================================================
