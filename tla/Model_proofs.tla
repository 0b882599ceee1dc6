----------------------------- MODULE Model_proofs ------------------------------
(***************************************************************************)
(* Proofs about what the model is given and what it stands on. The images  *)
(* of a prompt (MultiModal), for prompts and images of any length and      *)
(* size, and any way to cut a prompt into chunks: expand_image_pads and    *)
(* mrope_positions are loops over tokens, whose invariants (Laid, Walked)  *)
(* say what is laid out after each turn; the copies of a chunk follow from *)
(* the first; the size of an image is arithmetic, two sides scaled by the  *)
(* same number and rounded. And a forward pass (PassFunctions), for every  *)
(* model, context and sequence of calls: each section says what its part   *)
(* leaves, and the theorems put the parts together.                        *)
(***************************************************************************)
EXTENDS MultiModal, PassFunctions, Loops_proofs, SequenceTheorems

LEMMA Max3 ==
  ASSUME NEW a \in Int, NEW b \in Int, NEW c \in Int
  PROVE  /\ Max({a, b, c}) \in {a, b, c}
         /\ a <= Max({a, b, c}) /\ b <= Max({a, b, c}) /\ c <= Max({a, b, c})
<1>1. \E m \in {a, b, c} : \A k \in {a, b, c} : k <= m
  <2>1. CASE a <= b /\ c <= b
    BY <2>1
  <2>2. CASE a <= c /\ b <= c
    BY <2>2
  <2>3. CASE b <= a /\ c <= a
    BY <2>3
  <2> QED BY <2>1, <2>2, <2>3
<1>2. PICK m \in {a, b, c} : \A k \in {a, b, c} : k <= m
  BY <1>1
<1>3. Max({a, b, c}) = m
  <2>1. {a, b, c} \subseteq Int
    OBVIOUS
  <2> QED BY <1>2, <2>1, MaxOf
<1> QED BY <1>2, <1>3

-----------------------------------------------------------------------------
(* A prompt with its images: spans one behind the other, and placeholders  *)
(* in them and nowhere else.                                               *)
Spot == [start : Nat, n : Nat \ {0}, h : Nat \ {0}, w : Nat \ {0}]

In(s, i) == s.start <= i /\ i < s.start + s.n

PadsIn(out, i) == {j \in 1 .. i : out[j] = Pad}

Laid(out, spans) ==
  /\ out \in Seq(Vocabulary \cup {Pad}) /\ spans \in Seq(Spot)
  /\ \A k \in 1 .. Len(spans) :
       /\ spans[k].n = spans[k].h * spans[k].w
       /\ spans[k].start + spans[k].n <= Len(out)
       /\ Cardinality(PadsIn(out, spans[k].start)) = OffsetOf(spans, k)
  /\ \A k \in 1 .. Len(spans) - 1 : spans[k].start + spans[k].n <= spans[k + 1].start
  /\ \A i \in 1 .. Len(out) :
       out[i] = Pad <=> \E k \in 1 .. Len(spans) : In(spans[k], i - 1)
  /\ Cardinality(PadsIn(out, Len(out))) = OffsetOf(spans, Len(spans) + 1)

LEMMA PadsFinite ==
  ASSUME NEW out, NEW i \in Nat
  PROVE  IsFiniteSet(PadsIn(out, i)) /\ Cardinality(PadsIn(out, i)) \in Nat
<1>1. IsFiniteSet(1 .. i)
  BY FS_Interval
<1>2. PadsIn(out, i) \subseteq 1 .. i
  BY DEF PadsIn
<1> QED BY <1>1, <1>2, FS_Subset, FS_CardinalityType

(* Behind m placeholders in a row there are m more.                        *)
LEMMA PadsBehind ==
  ASSUME NEW out, NEW i \in Nat, NEW m \in Nat, \A j \in i + 1 .. i + m : out[j] = Pad
  PROVE  Cardinality(PadsIn(out, i + m)) = Cardinality(PadsIn(out, i)) + m
<1> DEFINE new == i + 1 .. i + m
<1>1. PadsIn(out, i + m) = PadsIn(out, i) \cup new
  BY DEF PadsIn
<1>2. PadsIn(out, i) \cap new = {}
  BY DEF PadsIn
<1>3. IsFiniteSet(new) /\ Cardinality(new) = m
  <2>1. i + 1 \in Int /\ i + m \in Int
    OBVIOUS
  <2>2. IsFiniteSet(new) /\ Cardinality(new) = IF i + 1 > i + m THEN 0 ELSE (i + m) - (i + 1) + 1
    BY <2>1, FS_Interval
  <2> HIDE DEF new
  <2> QED BY <2>2
<1> HIDE DEF new
<1>4. IsFiniteSet(PadsIn(out, i)) /\ Cardinality(PadsIn(out, i)) \in Nat
  BY PadsFinite
<1>5. Cardinality(PadsIn(out, i) \cup new)
        = Cardinality(PadsIn(out, i)) + Cardinality(new) - Cardinality(PadsIn(out, i) \cap new)
  BY <1>3, <1>4, FS_Union
<1>6. Cardinality(PadsIn(out, i) \cap new) = 0
  BY <1>2, FS_EmptySet
<1>7. Cardinality(PadsIn(out, i + m))
        = Cardinality(PadsIn(out, i)) + Cardinality(new) - Cardinality(PadsIn(out, i) \cap new)
  BY <1>1, <1>5
<1> QED BY <1>3, <1>4, <1>6, <1>7

LEMMA SpotTypes ==
  ASSUME NEW spans \in Seq(Spot)
  PROVE  /\ Len(spans) \in Nat /\ DOMAIN spans = 1 .. Len(spans)
         /\ \A k \in 1 .. Len(spans) :
              /\ spans[k] \in Spot
              /\ spans[k].start \in Nat /\ spans[k].n \in Nat \ {0}
              /\ spans[k].h \in Nat \ {0} /\ spans[k].w \in Nat \ {0}
<1>1. Len(spans) \in Nat /\ DOMAIN spans = 1 .. Len(spans)
      /\ \A k \in 1 .. Len(spans) : spans[k] \in Spot
  BY LenProperties, ElementOfSeq
<1> QED BY <1>1 DEF Spot

(* Embeddings in front of a span: a span more adds its own.                *)
LEMMA OffsetTypes ==
  ASSUME NEW spans \in Seq(Spot)
  PROVE  /\ OffsetOf(spans, 1) = 0
         /\ \A k \in 1 .. Len(spans) + 1 : OffsetOf(spans, k) \in Nat
         /\ \A k \in 1 .. Len(spans) : OffsetOf(spans, k + 1) = OffsetOf(spans, k) + spans[k].n
<1> DEFINE f == [j \in DOMAIN spans |-> spans[j].n]
<1>1. Len(spans) \in Nat /\ \A j \in 1 .. Len(spans) : f[j] \in Nat /\ f[j] = spans[j].n
  BY SpotTypes
<1>2. \A k : OffsetOf(spans, k) = Sum(f, k - 1)
  BY DEF OffsetOf
<1> HIDE DEF f
<1>3. OffsetOf(spans, 1) = 0
  BY <1>2, SumEmpty
<1>4. ASSUME NEW k \in 1 .. Len(spans) + 1 PROVE OffsetOf(spans, k) \in Nat
  <2>1. k - 1 \in Nat /\ \A j \in 1 .. k - 1 : f[j] \in Nat
    BY <1>1
  <2> QED BY <1>2, <2>1, SumNat
<1>5. ASSUME NEW k \in 1 .. Len(spans) PROVE OffsetOf(spans, k + 1) = OffsetOf(spans, k) + spans[k].n
  <2>1. k - 1 \in Nat /\ (k - 1) + 1 = k /\ (k + 1) - 1 = k
        /\ \A j \in 1 .. (k - 1) + 1 : f[j] \in Int
    BY <1>1
  <2>2. Sum(f, (k - 1) + 1) = Sum(f, k - 1) + f[(k - 1) + 1]
    BY <2>1, SumNext
  <2> QED BY <1>1, <1>2, <2>1, <2>2
<1> QED BY <1>3, <1>4, <1>5

(* A span more does not move the offsets of those before it.               *)
LEMMA OffsetStays ==
  ASSUME NEW spans \in Seq(Spot), NEW s \in Spot, NEW k \in 1 .. Len(spans) + 1
  PROVE  OffsetOf(Append(spans, s), k) = OffsetOf(spans, k)
<1> DEFINE more == Append(spans, s)
           f == [j \in DOMAIN spans |-> spans[j].n]
           g == [j \in DOMAIN more |-> more[j].n]
<1>1. Len(spans) \in Nat /\ DOMAIN spans = 1 .. Len(spans)
      /\ \A j \in 1 .. Len(spans) : spans[j].n \in Nat
  BY SpotTypes
<1>2. DOMAIN more = 1 .. Len(spans) + 1 /\ \A j \in 1 .. Len(spans) : more[j] = spans[j]
  <2>1. more \in Seq(Spot) /\ Len(more) = Len(spans) + 1
        /\ \A j \in 1 .. Len(spans) : more[j] = spans[j]
    BY AppendProperties
  <2>2. DOMAIN more = 1 .. Len(more)
    BY <2>1, LenProperties
  <2> QED BY <2>1, <2>2
<1> HIDE DEF more
<1>3. k - 1 \in Nat /\ \A j \in 1 .. k - 1 : f[j] \in Int /\ g[j] = f[j]
  <2>1. \A j \in 1 .. k - 1 : j \in 1 .. Len(spans) /\ j \in 1 .. Len(spans) + 1
    BY <1>1
  <2> QED BY <1>1, <1>2, <2>1
<1>4. OffsetOf(spans, k) = Sum(f, k - 1) /\ OffsetOf(more, k) = Sum(g, k - 1)
  BY DEF OffsetOf
<1> HIDE DEF f, g
<1>5. Sum(f, k - 1) = Sum(g, k - 1)
  BY <1>3, SumSame
<1> QED BY <1>4, <1>5 DEF more

LEMMA PadsStay ==
  ASSUME NEW out, NEW more, NEW n \in Nat, \A j \in 1 .. n : more[j] = out[j], NEW i \in 0 .. n
  PROVE  PadsIn(more, i) = PadsIn(out, i)
BY DEF PadsIn

Token == Vocabulary \cup {Pad}

(* The loop starts with nothing, and lays out a token or an image.         *)
LEMMA NothingLaid == Laid(<<>>, <<>>)
<1>1. <<>> \in Seq(Token) /\ <<>> \in Seq(Spot) /\ Len(<<>>) = 0
  BY EmptySeq
<1>2. PadsIn(<<>>, 0) = {}
  BY DEF PadsIn
<1>3. Cardinality(PadsIn(<<>>, Len(<<>>))) = OffsetOf(<<>>, Len(<<>>) + 1)
  <2>1. Cardinality(PadsIn(<<>>, Len(<<>>))) = 0
    BY <1>1, <1>2, FS_EmptySet
  <2>2. OffsetOf(<<>>, 1) = 0
    BY <1>1, OffsetTypes
  <2>3. Len(<<>>) + 1 = 1
    BY <1>1
  <2> QED BY <2>1, <2>2, <2>3
<1> QED BY <1>1, <1>3 DEF Laid, Token

LEMMA TokenLaid ==
  ASSUME NEW out, NEW spans, Laid(out, spans), NEW token \in Vocabulary, token # Pad
  PROVE  Laid(Append(out, token), spans)
<1> DEFINE more == Append(out, token)
           n == Len(out)
<1>1. out \in Seq(Token) /\ spans \in Seq(Spot) /\ n \in Nat /\ token \in Token
  BY LenProperties DEF Laid, Token
<1>2. /\ more \in Seq(Token) /\ Len(more) = n + 1
      /\ \A i \in 1 .. n : more[i] = out[i]
      /\ more[n + 1] = token
  BY <1>1, AppendProperties
<1> HIDE DEF more, n
<1>3. \A k \in 1 .. Len(spans) : spans[k].start \in Nat /\ spans[k].n \in Nat \ {0}
  BY <1>1, SpotTypes
<1>4. /\ \A k \in 1 .. Len(spans) :
           /\ spans[k].n = spans[k].h * spans[k].w
           /\ spans[k].start + spans[k].n <= n
           /\ Cardinality(PadsIn(out, spans[k].start)) = OffsetOf(spans, k)
      /\ \A k \in 1 .. Len(spans) - 1 : spans[k].start + spans[k].n <= spans[k + 1].start
      /\ \A i \in 1 .. n : out[i] = Pad <=> \E k \in 1 .. Len(spans) : In(spans[k], i - 1)
      /\ Cardinality(PadsIn(out, n)) = OffsetOf(spans, Len(spans) + 1)
  BY DEF Laid, n
<1>5. ASSUME NEW k \in 1 .. Len(spans)
      PROVE  /\ spans[k].start + spans[k].n <= Len(more)
             /\ Cardinality(PadsIn(more, spans[k].start)) = OffsetOf(spans, k)
  <2>1. spans[k].start \in 0 .. n /\ spans[k].start + spans[k].n <= n + 1
    BY <1>1, <1>3, <1>4
  <2>2. PadsIn(more, spans[k].start) = PadsIn(out, spans[k].start)
    BY <1>1, <1>2, <2>1, PadsStay
  <2> QED BY <1>2, <1>4, <2>1, <2>2
<1>6. ASSUME NEW i \in 1 .. Len(more)
      PROVE  more[i] = Pad <=> \E k \in 1 .. Len(spans) : In(spans[k], i - 1)
  <2>1. CASE i \in 1 .. n
    BY <1>2, <1>4, <2>1
  <2>2. CASE i = n + 1
    <3>1. \A k \in 1 .. Len(spans) : ~ In(spans[k], i - 1)
      BY <1>1, <1>3, <1>4, <2>2 DEF In
    <3> QED BY <1>2, <2>2, <3>1
  <2> QED BY <1>1, <1>2, <2>1, <2>2
<1>7. Cardinality(PadsIn(more, Len(more))) = OffsetOf(spans, Len(spans) + 1)
  <2>1. n + 1 \notin PadsIn(more, n + 1)
    BY <1>2 DEF PadsIn
  <2>2. PadsIn(more, n + 1) = PadsIn(out, n)
    BY <1>1, <1>2, <2>1 DEF PadsIn
  <2> QED BY <1>2, <1>4, <2>2
<1> QED BY <1>1, <1>2, <1>4, <1>5, <1>6, <1>7 DEF Laid, Token, more

LEMMA SpanTypes ==
  ASSUME NEW image \in Images, NEW start \in Nat, NEW s, s = Span(image, start)
  PROVE  s \in Spot /\ s.start = start /\ s.n = s.h * s.w /\ s.h = image.h /\ s.w = image.w
<1>1. image.t = 1 /\ image.h \in Nat \ {0} /\ image.w \in Nat \ {0}
  BY MultiModalAssumption
<1> DEFINE h == image.h
           w == image.w
<1>2. s = [start |-> start, n |-> image.t * h * w, h |-> h, w |-> w]
  BY DEF Span
<1>3. h \in Nat \ {0} /\ w \in Nat \ {0} /\ image.t = 1
  BY <1>1
<1> HIDE DEF h, w
<1>4. 1 * h * w = h * w /\ h * w \in Nat \ {0}
  BY <1>3
<1>5. s = [start |-> start, n |-> h * w, h |-> h, w |-> w]
  BY <1>2, <1>3, <1>4
<1> QED BY <1>3, <1>4, <1>5 DEF Spot, h, w

LEMMA ImageLaid ==
  ASSUME NEW out, NEW spans, Laid(out, spans), NEW image \in Images,
         NEW s, s = Span(image, Len(out))
  PROVE  Laid(out \o [j \in 1 .. s.n |-> Pad], Append(spans, s))
<1> DEFINE pads == [j \in 1 .. s.n |-> Pad]
           more == out \o pads
           all == Append(spans, s)
           n == Len(out)
           N == Len(spans)
<1>1. out \in Seq(Token) /\ spans \in Seq(Spot) /\ n \in Nat /\ N \in Nat
  BY LenProperties DEF Laid, Token
<1>2. /\ s \in Spot /\ s.start = n /\ s.n = s.h * s.w
      /\ s.n \in Nat \ {0} /\ s.start \in Nat
  <2>1. s \in Spot /\ s.start = n /\ s.n = s.h * s.w
    BY <1>1, SpanTypes
  <2> QED BY <2>1 DEF Spot
<1>3. pads \in Seq(Token) /\ Len(pads) = s.n /\ \A j \in 1 .. s.n : pads[j] = Pad
  <2>1. s.n \in Nat /\ \A j \in 1 .. s.n : Pad \in Token
    BY <1>2 DEF Token
  <2>2. pads \in Seq(Token) /\ Len(pads) = s.n
    BY <2>1, IsASeq
  <2> QED BY <2>2
<1> HIDE DEF pads, n, N
<1>4. /\ more \in Seq(Token) /\ Len(more) = n + s.n
      /\ \A i \in 1 .. n : more[i] = out[i]
      /\ \A i \in n + 1 .. n + s.n : more[i] = Pad
  <2>1. /\ more \in Seq(Token) /\ Len(more) = n + s.n
        /\ \A i \in 1 .. n + s.n : more[i] = IF i <= n THEN out[i] ELSE pads[i - n]
    BY <1>1, <1>3, ConcatProperties, SMTT(30) DEF n
  <2>2. \A i \in n + 1 .. n + s.n : i \in 1 .. n + s.n /\ ~ (i <= n) /\ i - n \in 1 .. s.n
    BY <1>1, <1>2
  <2>3. \A i \in 1 .. n : i \in 1 .. n + s.n /\ i <= n
    BY <1>1, <1>2
  <2> QED BY <1>3, <2>1, <2>2, <2>3
<1>5. /\ all \in Seq(Spot) /\ Len(all) = N + 1
      /\ \A k \in 1 .. N : all[k] = spans[k]
      /\ all[N + 1] = s
  BY <1>1, <1>2, AppendProperties DEF N
<1>6. \A k \in 1 .. N : spans[k].start \in Nat /\ spans[k].n \in Nat \ {0}
  BY <1>1, SpotTypes DEF N
<1>7. \A k \in 1 .. N + 1 : OffsetOf(all, k) = OffsetOf(spans, k)
  BY <1>1, <1>2, OffsetStays DEF N
<1>8. OffsetOf(all, N + 2) = OffsetOf(spans, N + 1) + s.n
  <2>1. N + 1 \in 1 .. Len(all) /\ (N + 1) + 1 = N + 2 /\ N + 1 \in 1 .. N + 1
    BY <1>1, <1>5
  <2>2. OffsetOf(all, (N + 1) + 1) = OffsetOf(all, N + 1) + all[N + 1].n
    BY <1>5, <2>1, OffsetTypes
  <2>3. OffsetOf(all, N + 1) = OffsetOf(spans, N + 1)
    BY <1>7, <2>1
  <2> QED BY <1>5, <2>1, <2>2, <2>3
<1> HIDE DEF more, all
<1>9. /\ \A k \in 1 .. N :
           /\ spans[k].n = spans[k].h * spans[k].w
           /\ spans[k].start + spans[k].n <= n
           /\ Cardinality(PadsIn(out, spans[k].start)) = OffsetOf(spans, k)
      /\ \A k \in 1 .. N - 1 : spans[k].start + spans[k].n <= spans[k + 1].start
      /\ \A i \in 1 .. n : out[i] = Pad <=> \E k \in 1 .. N : In(spans[k], i - 1)
      /\ Cardinality(PadsIn(out, n)) = OffsetOf(spans, N + 1)
  BY DEF Laid, n, N
<1>10. ASSUME NEW k \in 1 .. Len(all)
       PROVE  /\ all[k].n = all[k].h * all[k].w
              /\ all[k].start + all[k].n <= Len(more)
              /\ Cardinality(PadsIn(more, all[k].start)) = OffsetOf(all, k)
  <2>1. CASE k \in 1 .. N
    <3>1. spans[k].start \in 0 .. n /\ spans[k].start + spans[k].n <= n + s.n
      BY <1>1, <1>2, <1>6, <1>9, <2>1, SMTT(30)
    <3>2. PadsIn(more, spans[k].start) = PadsIn(out, spans[k].start)
      BY <1>1, <1>4, <3>1, PadsStay
    <3>3. k \in 1 .. N + 1
      BY <1>1, <2>1
    <3> QED BY <1>4, <1>5, <1>7, <1>9, <2>1, <3>1, <3>2, <3>3
  <2>2. CASE k = N + 1
    <3>1. n \in 0 .. n
      BY <1>1
    <3>2. PadsIn(more, n) = PadsIn(out, n)
      BY <1>1, <1>4, <3>1, PadsStay
    <3>3. N + 1 \in 1 .. N + 1 /\ n + s.n <= n + s.n
      BY <1>1, <1>2
    <3>4. all[k] = s /\ OffsetOf(all, k) = OffsetOf(spans, N + 1)
      BY <1>5, <1>7, <2>2, <3>3
    <3> QED BY <1>2, <1>4, <1>9, <3>2, <3>3, <3>4
  <2> QED BY <1>1, <1>5, <2>1, <2>2
<1>11. ASSUME NEW k \in 1 .. Len(all) - 1
       PROVE  all[k].start + all[k].n <= all[k + 1].start
  <2>1. k \in 1 .. N /\ all[k] = spans[k]
    BY <1>1, <1>5
  <2>2. CASE k + 1 \in 1 .. N
    <3>1. k \in 1 .. N - 1 /\ all[k + 1] = spans[k + 1]
      BY <1>1, <1>5, <2>1, <2>2
    <3> QED BY <1>9, <2>1, <3>1
  <2>3. CASE k + 1 = N + 1
    BY <1>2, <1>5, <1>9, <2>1, <2>3
  <2> QED BY <1>1, <2>1, <2>2, <2>3
<1>12. ASSUME NEW i \in 1 .. Len(more)
       PROVE  more[i] = Pad <=> \E k \in 1 .. Len(all) : In(all[k], i - 1)
  <2>1. CASE i \in 1 .. n
    <3>1. ~ In(s, i - 1)
      BY <1>1, <1>2, <2>1 DEF In
    <3>2. \A k \in 1 .. Len(all) : k \in 1 .. N \/ k = N + 1
      BY <1>1, <1>5
    <3>3. \A k \in 1 .. N : k \in 1 .. Len(all)
      BY <1>1, <1>5
    <3>4. (\E k \in 1 .. Len(all) : In(all[k], i - 1)) <=> \E k \in 1 .. N : In(spans[k], i - 1)
      BY <1>5, <3>1, <3>2, <3>3
    <3> QED BY <1>4, <1>9, <2>1, <3>4
  <2>2. CASE i \in n + 1 .. n + s.n
    <3>1. In(all[N + 1], i - 1) /\ N + 1 \in 1 .. Len(all)
      BY <1>1, <1>2, <1>5, <2>2 DEF In
    <3> QED BY <1>4, <2>2, <3>1
  <2> QED BY <1>1, <1>2, <1>4, <2>1, <2>2
<1>13. Cardinality(PadsIn(more, Len(more))) = OffsetOf(all, Len(all) + 1)
  <2>1. Cardinality(PadsIn(more, n + s.n)) = Cardinality(PadsIn(more, n)) + s.n
    <3>1. s.n \in Nat
      BY <1>2
    <3> QED BY <1>1, <1>4, <3>1, PadsBehind
  <2>2. n \in 0 .. n
    BY <1>1
  <2>3. PadsIn(more, n) = PadsIn(out, n)
    BY <1>1, <1>4, <2>2, PadsStay
  <2>4. Len(all) + 1 = N + 2
    BY <1>1, <1>5
  <2> QED BY <1>4, <1>8, <1>9, <2>1, <2>3, <2>4
<1> QED BY <1>4, <1>5, <1>10, <1>11, <1>12, <1>13 DEF Laid, Token, more, pads, all

(* The loop of expand_image_pads, for a prompt with as many placeholders   *)
(* as there are images.                                                    *)
Prompts ==
  {q \in [ids : Seq(Vocabulary), images : Seq(Images)] : ~Mismatch(q.ids, q.images)}

LEMMA PadsNext ==
  ASSUME NEW ids, NEW i \in Nat
  PROVE  /\ ids[i + 1] # Pad => PadsIn(ids, i + 1) = PadsIn(ids, i)
         /\ ids[i + 1] = Pad => Cardinality(PadsIn(ids, i + 1)) = Cardinality(PadsIn(ids, i)) + 1
<1>1. ids[i + 1] # Pad => PadsIn(ids, i + 1) = PadsIn(ids, i)
  BY DEF PadsIn
<1>2. ASSUME ids[i + 1] = Pad PROVE Cardinality(PadsIn(ids, i + 1)) = Cardinality(PadsIn(ids, i)) + 1
  <2>1. PadsIn(ids, i + 1) = PadsIn(ids, i) \cup {i + 1} /\ i + 1 \notin PadsIn(ids, i)
    BY <1>2 DEF PadsIn
  <2>2. IsFiniteSet(PadsIn(ids, i))
    BY PadsFinite
  <2> QED BY <2>1, <2>2, FS_AddElement
<1> QED BY <1>1, <1>2

(* A turn of the loop, which takes the next image at a placeholder.        *)
LEMMA PlacedIs ==
  ASSUME NEW ids \in Seq(Vocabulary), NEW images \in Seq(Images), ~Mismatch(ids, images),
         NEW i \in Nat, i < Len(ids),
         NEW b \in [out : Seq(Token), spans : Seq(Spot)], Laid(b.out, b.spans),
         Len(b.spans) = Cardinality(PadsIn(ids, i)),
         NEW c, c = Placed(b, ids[i + 1], images)
  PROVE  /\ c \in [out : Seq(Token), spans : Seq(Spot)] /\ Laid(c.out, c.spans)
         /\ Len(c.spans) = Cardinality(PadsIn(ids, i + 1))
<1> DEFINE token == ids[i + 1]
           k == Len(b.spans) + 1
           s == Span(images[k], Len(b.out))
<1>1. /\ Len(ids) \in Nat /\ token \in Vocabulary
      /\ Len(images) \in Nat /\ \A j \in 1 .. Len(images) : images[j] \in Images
  <2>1. Len(ids) \in Nat /\ \A j \in 1 .. Len(ids) : ids[j] \in Vocabulary
    BY LenProperties, ElementOfSeq
  <2>2. i + 1 \in 1 .. Len(ids)
    BY <2>1
  <2> QED BY <2>1, <2>2, LenProperties, ElementOfSeq
<1>2. b.out \in Seq(Token) /\ b.spans \in Seq(Spot) /\ Len(b.spans) \in Nat
  BY LenProperties
<1>3. CASE token # Pad
  <2>1. c = [b EXCEPT !.out = Append(b.out, token)]
    BY <1>3 DEF Placed
  <2>2. c.out = Append(b.out, token) /\ c.spans = b.spans
    BY <2>1
  <2>3. Laid(c.out, c.spans)
    BY <1>1, <1>3, <2>2, TokenLaid
  <2>4. c.out \in Seq(Token) /\ c.spans \in Seq(Spot)
    BY <2>3 DEF Laid, Token
  <2>5. c \in [out : Seq(Token), spans : Seq(Spot)]
    BY <2>1, <2>2, <2>4
  <2>6. PadsIn(ids, i + 1) = PadsIn(ids, i)
    BY <1>3, PadsNext
  <2> QED BY <2>2, <2>3, <2>5, <2>6
<1>4. CASE token = Pad
  <2>1. Cardinality(PadsIn(ids, i + 1)) = Cardinality(PadsIn(ids, i)) + 1
    BY <1>4, PadsNext
  <2>2. Cardinality(PadsIn(ids, i + 1)) <= Len(images)
    <3>1. PadsIn(ids, i + 1) \subseteq PadsIn(ids, Len(ids))
      BY <1>1 DEF PadsIn
    <3>2. IsFiniteSet(PadsIn(ids, Len(ids)))
      BY <1>1, PadsFinite
    <3>3. Cardinality(PadsIn(ids, Len(ids))) = Len(images)
      BY DEF Mismatch, PadsIn
    <3> QED BY <3>1, <3>2, <3>3, FS_Subset
  <2>3. k \in 1 .. Len(images)
    <3>1. Len(b.spans) + 1 <= Len(images)
      BY <2>1, <2>2
    <3> QED BY <1>1, <1>2, <3>1
  <2>4. images[k] \in Images
    BY <1>1, <2>3
  <2>5. c = [out |-> b.out \o [j \in 1 .. s.n |-> Pad], spans |-> Append(b.spans, s)]
    BY <1>4 DEF Placed
  <2> HIDE DEF k
  <2>6. Laid(b.out \o [j \in 1 .. s.n |-> Pad], Append(b.spans, s))
    <3>1. s = Span(images[k], Len(b.out))
      OBVIOUS
    <3> HIDE DEF s
    <3> QED BY <2>4, <3>1, ImageLaid
  <2>7. s \in Spot
    <3>1. Len(b.out) \in Nat /\ s = Span(images[k], Len(b.out))
      BY <1>2, LenProperties
    <3> HIDE DEF s
    <3> QED BY <2>4, <3>1, SpanTypes
  <2> HIDE DEF s
  <2>8. c.out = b.out \o [j \in 1 .. s.n |-> Pad] /\ c.spans = Append(b.spans, s)
    <3> DEFINE o == b.out \o [j \in 1 .. s.n |-> Pad]
               p == Append(b.spans, s)
    <3>1. c = [out |-> o, spans |-> p]
      BY <2>5
    <3> HIDE DEF o, p
    <3>2. c.out = o /\ c.spans = p
      BY <3>1
    <3> QED BY <3>2 DEF o, p
  <2>9. c.out \in Seq(Token) /\ c.spans \in Seq(Spot)
    BY <2>6, <2>8 DEF Laid, Token
  <2>10. Len(c.spans) = Len(b.spans) + 1
    BY <1>2, <2>7, <2>8, AppendProperties
  <2>11. c \in [out : Seq(Token), spans : Seq(Spot)]
    BY <2>5, <2>8, <2>9
  <2> QED BY <2>1, <2>6, <2>8, <2>10, <2>11
<1> QED BY <1>3, <1>4

(* After all tokens: as many spans as images.                              *)
LEMMA ExpandIs ==
  ASSUME NEW ids \in Seq(Vocabulary), NEW images \in Seq(Images), ~Mismatch(ids, images),
         NEW e, e = Expand(ids, images)
  PROVE  Laid(e.out, e.spans)
<1> DEFINE N == Len(ids)
           S == [out : Seq(Token), spans : Seq(Spot)]
           start == [out |-> <<>>, spans |-> <<>>]
           upTo[i \in 0 .. N] == IF i = 0 THEN start ELSE Placed(upTo[i - 1], ids[i], images)
<1>1. N \in Nat
  BY LenProperties
<1>2. start \in S /\ Laid(start.out, start.spans) /\ Len(start.spans) = Cardinality(PadsIn(ids, 0))
  <2>1. <<>> \in Seq(Token) /\ <<>> \in Seq(Spot) /\ Len(<<>>) = 0
    BY EmptySeq
  <2>2. PadsIn(ids, 0) = {}
    BY DEF PadsIn
  <2>3. Cardinality(PadsIn(ids, 0)) = 0
    BY <2>2, FS_EmptySet
  <2> QED BY <2>1, <2>3, NothingLaid
<1>3. upTo = [i \in 0 .. N |-> IF i = 0 THEN start ELSE Placed(upTo[i - 1], ids[i], images)]
  <2> DEFINE G(b, i) == IF /\ b \in S /\ Laid(b.out, b.spans)
                           /\ Len(b.spans) = Cardinality(PadsIn(ids, i - 1))
                        THEN Placed(b, ids[i], images) ELSE b
             Turns == [i \in 1 .. N |-> [b \in S |-> G(b, i)]]
             Good(b, i) == /\ Laid(b.out, b.spans)
                           /\ Len(b.spans) = Cardinality(PadsIn(ids, i))
  <2>1. ASSUME NEW i \in 1 .. N, NEW b \in S
        PROVE  /\ G(b, i) \in S
               /\ Good(b, i - 1) => G(b, i) = Placed(b, ids[i], images) /\ Good(G(b, i), i)
    <3>1. i - 1 \in Nat /\ i - 1 < N /\ (i - 1) + 1 = i
      BY <1>1
    <3>2. ASSUME Good(b, i - 1)
          PROVE  /\ G(b, i) = Placed(b, ids[i], images) /\ Placed(b, ids[i], images) \in S
                 /\ Good(Placed(b, ids[i], images), i)
      <4> DEFINE c == Placed(b, ids[(i - 1) + 1], images)
      <4>1. c = Placed(b, ids[i], images)
        BY <3>1
      <4>2. c \in S /\ Laid(c.out, c.spans) /\ Len(c.spans) = Cardinality(PadsIn(ids, (i - 1) + 1))
        <5> DEFINE h == i - 1
        <5>1. h \in Nat /\ h < Len(ids) /\ c = Placed(b, ids[h + 1], images)
          BY <3>1
        <5>2. /\ b \in [out : Seq(Token), spans : Seq(Spot)] /\ Laid(b.out, b.spans)
              /\ Len(b.spans) = Cardinality(PadsIn(ids, h))
          BY <3>2
        <5> HIDE DEF c, h
        <5>3. /\ c \in [out : Seq(Token), spans : Seq(Spot)] /\ Laid(c.out, c.spans)
              /\ Len(c.spans) = Cardinality(PadsIn(ids, h + 1))
          BY <5>1, <5>2, PlacedIs
        <5> QED BY <5>3 DEF h
      <4> HIDE DEF c
      <4> QED BY <3>1, <3>2, <4>1, <4>2
    <3>3. ~ Good(b, i - 1) => G(b, i) = b
      OBVIOUS
    <3> HIDE DEF G, Good
    <3> QED BY <3>2, <3>3
  <2>2. Turns \in [1 .. N -> [S -> S]] /\ \A i \in 1 .. N : \A b \in S : Turns[i][b] = G(b, i)
    <3> HIDE DEF G, S, Good
    <3> QED BY <2>1
  <2> HIDE DEF Turns, G, S, Good
  <2>3. PICK g : g \in Runs(S, Turns, start, N)
    <3> HIDE DEF start, N
    <3> QED BY <1>1, <1>2, <2>2, RunsExist
  <2>4. g \in [0 .. N -> S] /\ g[0] = start /\ \A i \in 1 .. N : g[i] = Turns[i][g[i - 1]]
    BY <2>3 DEF Runs
  <2>5. \A i \in 1 .. N : i - 1 \in 0 .. N /\ g[i] = G(g[i - 1], i)
    <3>1. \A i \in 1 .. N : i - 1 \in 0 .. N
      BY <1>1
    <3> QED BY <2>2, <2>4, <3>1
  <2> DEFINE P == {i \in Nat : i <= N => Good(g[i], i)}
  <2>6. 0 \in P
    BY <1>2, <2>4 DEF Good
  <2>7. ASSUME NEW i \in Nat, i \in P PROVE i + 1 \in P
    <3> SUFFICES ASSUME i + 1 <= N PROVE Good(g[i + 1], i + 1)
      OBVIOUS
    <3>1. i <= N /\ i + 1 \in 1 .. N /\ (i + 1) - 1 = i /\ i \in 0 .. N
      BY <1>1
    <3>2. g[i] \in S /\ g[i + 1] = G(g[i], i + 1) /\ Good(g[i], (i + 1) - 1)
      BY <2>4, <2>5, <2>7, <3>1
    <3> QED BY <2>1, <3>1, <3>2
  <2> HIDE DEF P
  <2>8. \A i \in Nat : i \in P
    BY <2>6, <2>7, Induction
  <2>9. \A i \in 1 .. N : g[i] = Placed(g[i - 1], ids[i], images)
    <3> SUFFICES ASSUME NEW i \in 1 .. N PROVE g[i] = Placed(g[i - 1], ids[i], images)
      OBVIOUS
    <3>1. i - 1 \in Nat /\ i - 1 <= N /\ i - 1 \in 0 .. N
      BY <1>1
    <3>2. Good(g[i - 1], i - 1) /\ g[i - 1] \in S
      BY <2>4, <2>8, <3>1 DEF P
    <3> QED BY <2>1, <2>5, <3>2
  <2>10. \A i \in 0 .. N : i # 0 => i \in 1 .. N
    BY <1>1
  <2>11. g = [i \in 0 .. N |-> IF i = 0 THEN start ELSE Placed(g[i - 1], ids[i], images)]
    BY <2>4, <2>9, <2>10
  <2> QED BY <2>11
<1>4. e = upTo[N]
  BY DEF Expand
<1> HIDE DEF upTo
<1> DEFINE P == {i \in Nat : i <= N => /\ upTo[i] \in S /\ Laid(upTo[i].out, upTo[i].spans)
                                       /\ Len(upTo[i].spans) = Cardinality(PadsIn(ids, i))}
<1>5. 0 \in P
  <2>1. upTo[0] = start
    BY <1>1, <1>3
  <2> QED BY <1>2, <2>1
<1>6. ASSUME NEW i \in Nat, i \in P PROVE i + 1 \in P
  <2> SUFFICES ASSUME i + 1 <= N
               PROVE  /\ upTo[i + 1] \in S /\ Laid(upTo[i + 1].out, upTo[i + 1].spans)
                      /\ Len(upTo[i + 1].spans) = Cardinality(PadsIn(ids, i + 1))
    OBVIOUS
  <2> DEFINE b == upTo[i]
             c == upTo[i + 1]
  <2>1. i <= N /\ i < Len(ids) /\ i + 1 \in 0 .. N /\ i + 1 # 0 /\ (i + 1) - 1 = i
    BY <1>1
  <2>2. b \in S /\ Laid(b.out, b.spans) /\ Len(b.spans) = Cardinality(PadsIn(ids, i))
    BY <1>6, <2>1
  <2>3. c = Placed(b, ids[i + 1], images)
    BY <1>3, <2>1
  <2> HIDE DEF b, c
  <2>4. /\ c \in S /\ Laid(c.out, c.spans)
        /\ Len(c.spans) = Cardinality(PadsIn(ids, i + 1))
    BY <2>1, <2>2, <2>3, PlacedIs
  <2> QED BY <2>4 DEF c
<1> HIDE DEF P
<1>7. N \in P /\ N <= N
  BY <1>1, <1>5, <1>6, Induction
<1> QED BY <1>4, <1>7 DEF P
-----------------------------------------------------------------------------
(* Positions.                                                              *)
LEMMA SpansInOrder ==
  ASSUME NEW out, NEW spans, Laid(out, spans),
         NEW j \in 1 .. Len(spans), NEW k \in 1 .. Len(spans), j < k
  PROVE  spans[j].start + spans[j].n <= spans[k].start
<1>1. Len(spans) \in Nat /\ \A i \in 1 .. Len(spans) : spans[i].start \in Nat /\ spans[i].n \in Nat \ {0}
  BY SpotTypes DEF Laid
<1>2. \A i \in 1 .. Len(spans) - 1 : spans[i].start + spans[i].n <= spans[i + 1].start
  BY DEF Laid
<1> DEFINE Q == {d \in Nat : j + d + 1 <= Len(spans) =>
                               spans[j].start + spans[j].n <= spans[j + d + 1].start}
<1>3. 0 \in Q
  BY <1>1, <1>2
<1>4. ASSUME NEW d \in Nat, d \in Q PROVE d + 1 \in Q
  <2> SUFFICES ASSUME j + (d + 1) + 1 <= Len(spans)
               PROVE  spans[j].start + spans[j].n <= spans[j + (d + 1) + 1].start
    OBVIOUS
  <2> DEFINE m == j + d + 1
  <2>1. m \in 1 .. Len(spans) - 1 /\ m \in 1 .. Len(spans) /\ m + 1 \in 1 .. Len(spans)
        /\ j + (d + 1) + 1 = m + 1 /\ m <= Len(spans)
    BY <1>1
  <2>2. spans[j].start + spans[j].n <= spans[m].start
    BY <1>4, <2>1
  <2> HIDE DEF m
  <2>3. spans[m].start + spans[m].n <= spans[m + 1].start
    BY <1>2, <2>1
  <2>4. /\ spans[j].start \in Nat /\ spans[j].n \in Nat /\ spans[m].start \in Nat
        /\ spans[m].n \in Nat /\ spans[m + 1].start \in Nat
    BY <1>1, <2>1
  <2>5. spans[j].start + spans[j].n <= spans[m + 1].start
    <3> DEFINE a == spans[j].start + spans[j].n
               b == spans[m].start
               c == spans[m].n
               d2 == spans[m + 1].start
    <3>1. a \in Int /\ b \in Nat /\ c \in Nat /\ d2 \in Nat /\ a <= b /\ b + c <= d2
      BY <2>2, <2>3, <2>4
    <3> HIDE DEF a, b, c, d2
    <3>2. a <= d2
      BY <3>1
    <3> QED BY <3>2 DEF a, d2
  <2> QED BY <2>1, <2>5
<1> HIDE DEF Q
<1>5. k - j - 1 \in Nat /\ j + (k - j - 1) + 1 = k
  BY <1>1
<1>6. \A d \in Nat : d \in Q
  BY <1>3, <1>4, Induction
<1>7. k - j - 1 \in Q
  BY <1>5, <1>6
<1> QED BY <1>1, <1>5, <1>7 DEF Q

Place == [t : Nat, h : Nat, w : Nat]

LEMMA LargestIs ==
  ASSUME NEW p \in Place
  PROVE  /\ Largest(p) \in Nat /\ Largest(p) \in {p.t, p.h, p.w}
         /\ p.t <= Largest(p) /\ p.h <= Largest(p) /\ p.w <= Largest(p)
<1>1. p.t \in Nat /\ p.h \in Nat /\ p.w \in Nat
  BY DEF Place
<1> DEFINE x == p.t
           y == p.h
           z == p.w
<1>2. x \in Nat /\ y \in Nat /\ z \in Nat /\ Largest(p) = Max({x, y, z})
  BY <1>1 DEF Largest
<1> HIDE DEF x, y, z
<1>3. x \in Int /\ y \in Int /\ z \in Int
  BY <1>2
<1>4. Max({x, y, z}) \in {x, y, z} /\ x <= Max({x, y, z}) /\ y <= Max({x, y, z}) /\ z <= Max({x, y, z})
  BY <1>3, Max3
<1> QED BY <1>2, <1>4 DEF x, y, z

(* The extent of a span bounds its sides, and is one of them.              *)
LEMMA ExtentIs ==
  ASSUME NEW s \in Spot
  PROVE  /\ Extent(s) \in Nat \ {0} /\ s.h <= Extent(s) /\ s.w <= Extent(s)
         /\ Extent(s) \in {s.h, s.w}
<1>1. s.h \in Nat \ {0} /\ s.w \in Nat \ {0}
  BY DEF Spot
<1> DEFINE x == s.h
           y == s.w
<1>2. x \in Nat \ {0} /\ y \in Nat \ {0} /\ Extent(s) = Max({x, y})
  BY <1>1 DEF Extent
<1> HIDE DEF x, y
<1>3. Max({x, y}) = IF x <= y THEN y ELSE x
  BY <1>2, Max2
<1>4. Extent(s) \in Nat \ {0} /\ x <= Extent(s) /\ y <= Extent(s) /\ Extent(s) \in {x, y}
  BY <1>2, <1>3
<1> QED BY <1>4 DEF x, y

(* The positions of an image: all behind those in front of it and within   *)
(* its extent, which one of them reaches; and no two alike.                *)
Boxed(box, s, cur) ==
  /\ box \in Seq(Place) /\ Len(box) = s.n
  /\ \A j \in 1 .. s.n : cur <= Largest(box[j]) /\ Largest(box[j]) < cur + Extent(s)
  /\ \E j \in 1 .. s.n : Largest(box[j]) = cur + Extent(s) - 1
  /\ \A i, j \in 1 .. s.n : i < j => box[i] # box[j]

LEMMA BoxIs ==
  ASSUME NEW s \in Spot, s.n = s.h * s.w, NEW cur \in Nat, NEW box, box = Box(s, cur, s.n)
  PROVE  Boxed(box, s, cur)
<1> DEFINE h == s.h
           w == s.w
           n == s.n
<1>1. h \in Nat \ {0} /\ w \in Nat \ {0} /\ n \in Nat \ {0} /\ n = h * w
  BY DEF Spot
<1>2. /\ Extent(s) \in Nat \ {0} /\ h <= Extent(s) /\ w <= Extent(s) /\ Extent(s) \in {h, w}
  BY ExtentIs
<1> DEFINE at(j) == [t |-> cur + ((j - 1) \div (h * w)), h |-> cur + (((j - 1) \div w) % h),
                     w |-> cur + ((j - 1) % w)]
<1>3. box = [j \in 1 .. n |-> at(j)]
  BY DEF Box
<1>4. ASSUME NEW j \in 1 .. n
      PROVE  /\ at(j) \in Place /\ at(j).t = cur /\ at(j).h = cur + ((j - 1) \div w)
             /\ at(j).w = cur + ((j - 1) % w)
             /\ (j - 1) \div w \in Nat /\ (j - 1) % w \in Nat
             /\ (j - 1) \div w < h /\ (j - 1) % w < w
             /\ j - 1 = w * ((j - 1) \div w) + ((j - 1) % w)
  <2> DEFINE x == j - 1
             q == x \div w
             r == x % w
  <2>1. x \in Nat /\ x < h * w
    BY <1>1
  <2> HIDE DEF x, h, w, n
  <2>2. q \in Nat /\ r \in Nat /\ r < w /\ x = w * q + r
    BY <1>1, <2>1, DivMod
  <2> HIDE DEF q, r
  <2>3. q < h
    <3>1. CASE h <= q
      <4>1. w * h <= w * q
        BY <1>1, <2>2, <3>1
      <4>2. h * w = w * h
        BY <1>1
      <4>3. w * h \in Int /\ w * q \in Int
        BY <1>1, <2>2
      <4> QED BY <2>1, <2>2, <4>1, <4>2, <4>3
    <3> QED BY <1>1, <2>2, <3>1
  <2>4. q % h = q
    <3>1. h * 0 + q = q
      BY <1>1, <2>2
    <3>2. (h * 0 + q) % h = q
      BY <1>1, <2>2, <2>3, DivUnique
    <3> QED BY <3>1, <3>2
  <2>5. x \div (h * w) = 0
    <3>1. h * w \in Nat \ {0}
      BY <1>1
    <3> DEFINE m == h * w
    <3>2. m \in Nat \ {0} /\ x < m
      BY <2>1, <3>1
    <3> HIDE DEF m
    <3>3. m * 0 + x = x
      BY <2>1, <3>2
    <3>4. (m * 0 + x) \div m = 0
      BY <2>1, <3>2, DivUnique
    <3> QED BY <3>3, <3>4 DEF m
  <2>6. cur + 0 = cur /\ cur + q \in Nat /\ cur + r \in Nat
    BY <2>2
  <2>7. at(j) = [t |-> cur + (x \div (h * w)), h |-> cur + ((x \div w) % h), w |-> cur + (x % w)]
    BY DEF x
  <2>8. at(j) = [t |-> cur, h |-> cur + q, w |-> cur + r]
    <3>1. x \div w = q /\ x % w = r
      BY DEF q, r
    <3> HIDE DEF at
    <3> QED BY <2>4, <2>5, <2>6, <2>7, <3>1
  <2> HIDE DEF at
  <2>9. at(j).t = cur /\ at(j).h = cur + q /\ at(j).w = cur + r /\ at(j) \in Place
    BY <2>6, <2>8 DEF Place
  <2> QED BY <2>2, <2>3, <2>9 DEF x, q, r
<1> HIDE DEF at
<1>5. box \in Seq(Place) /\ Len(box) = n /\ \A j \in 1 .. n : box[j] = at(j)
  <2>1. n \in Nat /\ \A j \in 1 .. n : at(j) \in Place
    BY <1>1, <1>4
  <2> HIDE DEF n
  <2>2. box \in Seq(Place) /\ Len(box) = n
    BY <1>3, <2>1, IsASeq
  <2> QED BY <1>3, <2>2
<1> HIDE DEF h, w, n
<1>6. ASSUME NEW j \in 1 .. n
      PROVE  cur <= Largest(box[j]) /\ Largest(box[j]) < cur + Extent(s)
  <2>1. Largest(at(j)) \in Nat /\ Largest(at(j)) \in {at(j).t, at(j).h, at(j).w} /\ at(j).t <= Largest(at(j))
    BY <1>4, LargestIs
  <2>2. /\ at(j).t = cur /\ at(j).h < cur + h /\ at(j).w < cur + w /\ at(j).h \in Nat /\ at(j).w \in Nat
    <3> DEFINE q == (j - 1) \div w
               r == (j - 1) % w
    <3>1. q \in Nat /\ r \in Nat /\ q < h /\ r < w
      BY <1>4
    <3>2. at(j).h = cur + q /\ at(j).w = cur + r /\ at(j).t = cur
      BY <1>4
    <3> HIDE DEF q, r
    <3> QED BY <1>1, <3>1, <3>2
  <2> DEFINE l == Largest(at(j))
  <2>3. l \in Nat /\ cur <= l /\ (l = cur \/ l < cur + h \/ l < cur + w)
    BY <2>1, <2>2
  <2>4. Largest(box[j]) = l
    BY <1>5
  <2> HIDE DEF l
  <2> QED BY <1>1, <1>2, <2>3, <2>4
<1>7. \E j \in 1 .. n : Largest(box[j]) = cur + Extent(s) - 1
  <2>1. n \in 1 .. n /\ n - 1 = w * (h - 1) + (w - 1)
    BY <1>1
  <2>2. (n - 1) \div w = h - 1 /\ (n - 1) % w = w - 1
    <3> DEFINE p == h - 1
               q == w - 1
    <3>1. p \in Nat /\ q \in Nat /\ q < w
      BY <1>1
    <3> HIDE DEF p, q
    <3>2. (w * p + q) \div w = p /\ (w * p + q) % w = q
      BY <1>1, <3>1, DivUnique
    <3> QED BY <2>1, <3>2 DEF p, q
  <2>3. /\ at(n) \in Place /\ at(n).t = cur /\ at(n).h = cur + (h - 1) /\ at(n).w = cur + (w - 1)
    BY <1>4, <2>1, <2>2
  <2> DEFINE l == Largest(at(n))
  <2>4. l \in Nat /\ l \in {at(n).t, at(n).h, at(n).w} /\ at(n).h <= l /\ at(n).w <= l
    BY <2>3, LargestIs
  <2>5. l \in Nat /\ l \in {cur, cur + (h - 1), cur + (w - 1)} /\ cur + (h - 1) <= l /\ cur + (w - 1) <= l
    BY <2>3, <2>4
  <2>6. Largest(box[n]) = l
    BY <1>5, <2>1
  <2> HIDE DEF l
  <2>7. l = cur + Extent(s) - 1
    BY <1>1, <1>2, <2>5
  <2> QED BY <2>1, <2>6, <2>7
<1>8. ASSUME NEW i \in 1 .. n, NEW j \in 1 .. n, i < j PROVE box[i] # box[j]
  <2> SUFFICES ASSUME at(i) = at(j) PROVE FALSE
    BY <1>5
  <2> DEFINE p == (i - 1) \div w
             q == (j - 1) \div w
  <2>1. p \in Nat /\ q \in Nat /\ cur + p = cur + q /\ i - 1 = w * p + ((i - 1) % w)
        /\ j - 1 = w * q + ((j - 1) % w) /\ cur + ((i - 1) % w) = cur + ((j - 1) % w)
        /\ (i - 1) % w \in Nat /\ (j - 1) % w \in Nat
    BY <1>4
  <2> HIDE DEF p, q
  <2>2. p = q /\ (i - 1) % w = (j - 1) % w
    BY <2>1
  <2>3. i - 1 = j - 1
    BY <2>1, <2>2
  <2> QED BY <1>8, <2>3
<1>9. /\ box \in Seq(Place) /\ Len(box) = n
      /\ \A j \in 1 .. n : cur <= Largest(box[j]) /\ Largest(box[j]) < cur + Extent(s)
      /\ \E j \in 1 .. n : Largest(box[j]) = cur + Extent(s) - 1
      /\ \A i, j \in 1 .. n : i < j => box[i] # box[j]
  BY <1>5, <1>6, <1>7, <1>8
<1> QED BY <1>9 DEF n, Boxed
(* The loop of mrope_positions.                                            *)
Walk == [at : Seq(Place), cur : Nat, si : Nat]

IsWalk(n, spans, g) ==
  /\ g \in [0 .. n -> Walk]
  /\ g[0] = [at |-> <<>>, cur |-> 0, si |-> 0]
  /\ \A k \in 1 .. n : k - 1 \in 0 .. n /\ g[k] = Turn(g[k - 1], n, spans)
  /\ mrope_positions(n, spans) = g[n].at

TextTurn(b) ==
  [b EXCEPT !.at = Append(@, [t |-> b.cur, h |-> b.cur, w |-> b.cur]), !.cur = @ + 1]
ImageTurn(b, n, s) ==
  [at |-> b.at \o Box(s, b.cur, Min({s.n, n - Len(b.at)})), cur |-> b.cur + Extent(s),
   si |-> b.si + 1]
AtSpan(b, spans) == b.si < Len(spans) /\ spans[b.si + 1].start = Len(b.at)

LEMMA TurnIs ==
  ASSUME NEW b, NEW n, NEW spans
  PROVE  Turn(b, n, spans) = IF Len(b.at) >= n THEN b
                             ELSE IF AtSpan(b, spans) THEN ImageTurn(b, n, spans[b.si + 1])
                             ELSE TextTurn(b)
BY DEF Turn, TextTurn, ImageTurn, AtSpan

LEMMA BoxTypes ==
  ASSUME NEW s \in Spot, NEW cur \in Nat, NEW m \in Nat
  PROVE  Box(s, cur, m) \in Seq(Place) /\ Len(Box(s, cur, m)) = m
<1> DEFINE h == s.h
           w == s.w
           at(j) == [t |-> cur + ((j - 1) \div (h * w)), h |-> cur + (((j - 1) \div w) % h),
                     w |-> cur + ((j - 1) % w)]
<1>1. h \in Nat \ {0} /\ w \in Nat \ {0}
  BY DEF Spot
<1>2. Box(s, cur, m) = [j \in 1 .. m |-> at(j)]
  BY DEF Box
<1> HIDE DEF h, w
<1>3. ASSUME NEW j \in 1 .. m PROVE at(j) \in Place
  <2> DEFINE x == j - 1
  <2>1. x \in Nat /\ h * w \in Nat \ {0}
    BY <1>1
  <2> HIDE DEF x
  <2>2. x \div (h * w) \in Nat
    BY <2>1, DivMod
  <2>3. x \div w \in Nat /\ x % w \in Nat
    BY <1>1, <2>1, DivMod
  <2>4. (x \div w) % h \in Nat
    BY <1>1, <2>3, DivMod
  <2> DEFINE p == x \div (h * w)
             q == (x \div w) % h
             r == x % w
  <2>5. at(j) = [t |-> cur + p, h |-> cur + q, w |-> cur + r]
    BY DEF x
  <2>6. cur + p \in Nat /\ cur + q \in Nat /\ cur + r \in Nat
    BY <2>2, <2>3, <2>4
  <2> HIDE DEF at, p, q, r
  <2> QED BY <2>5, <2>6 DEF Place
<1> HIDE DEF at
<1>4. \A j \in 1 .. m : at(j) \in Place
  BY <1>3
<1> QED BY <1>2, <1>4, IsASeq

LEMMA TurnTypes ==
  ASSUME NEW n \in Nat, NEW spans \in Seq(Spot), NEW b \in Walk
  PROVE  Turn(b, n, spans) \in Walk
<1>1. b.at \in Seq(Place) /\ b.cur \in Nat /\ b.si \in Nat /\ Len(b.at) \in Nat
  BY LenProperties DEF Walk
<1>2. ASSUME ~ (Len(b.at) >= n), AtSpan(b, spans) PROVE ImageTurn(b, n, spans[b.si + 1]) \in Walk
  <2> DEFINE s == spans[b.si + 1]
             m == Min({s.n, n - Len(b.at)})
  <2>1. b.si + 1 \in 1 .. Len(spans)
    BY <1>1, <1>2, SpotTypes DEF AtSpan
  <2>2. s \in Spot /\ s.n \in Nat
    BY <2>1, SpotTypes
  <2> HIDE DEF s
  <2>3. m \in Nat
    <3> DEFINE x == s.n
               y == n - Len(b.at)
    <3>1. x \in Nat /\ y \in Nat
      BY <1>1, <1>2, <2>2
    <3>2. m = Min({x, y})
      OBVIOUS
    <3> HIDE DEF x, y, m
    <3> QED BY <3>1, <3>2, Min2
  <2>4. Box(s, b.cur, m) \in Seq(Place) /\ Extent(s) \in Nat
    <3> HIDE DEF m
    <3> QED BY <1>1, <2>2, <2>3, BoxTypes, ExtentIs
  <2>5. ImageTurn(b, n, s) = [at |-> b.at \o Box(s, b.cur, m), cur |-> b.cur + Extent(s), si |-> b.si + 1]
    BY DEF ImageTurn
  <2> DEFINE x == Box(s, b.cur, m)
  <2>6. b.at \o x \in Seq(Place)
    <3> HIDE DEF x
    <3> QED BY <1>1, <2>4, ConcatProperties DEF x
  <2> HIDE DEF x, m
  <2>7. b.cur + Extent(s) \in Nat /\ b.si + 1 \in Nat
    BY <1>1, <2>4
  <2>8. ImageTurn(b, n, s) \in Walk
    BY <2>5, <2>6, <2>7 DEF Walk, x
  <2> QED BY <2>8 DEF s
<1>3. TextTurn(b) \in Walk
  <2> DEFINE p == [t |-> b.cur, h |-> b.cur, w |-> b.cur]
  <2>1. p \in Place
    BY <1>1 DEF Place
  <2>2. TextTurn(b) = [b EXCEPT !.at = Append(b.at, p), !.cur = b.cur + 1]
    BY DEF TextTurn
  <2> HIDE DEF p
  <2>3. Append(b.at, p) \in Seq(Place) /\ b.cur + 1 \in Nat
    BY <1>1, <2>1, AppendProperties
  <2> QED BY <2>2, <2>3 DEF Walk
<1> QED BY <1>2, <1>3, TurnIs

(* The loop is a run of its turns.                                         *)
LEMMA WalkRuns ==
  ASSUME NEW n \in Nat, NEW spans \in Seq(Spot)
  PROVE  \E g : IsWalk(n, spans, g)
<1> DEFINE Turns == [k \in 1 .. n |-> [b \in Walk |-> Turn(b, n, spans)]]
           x == [at |-> <<>>, cur |-> 0, si |-> 0]
           after[k \in 0 .. n] == IF k = 0 THEN x ELSE Turn(after[k - 1], n, spans)
<1>1. Turns \in [1 .. n -> [Walk -> Walk]]
  BY TurnTypes
<1>2. \A k \in 1 .. n : \A b \in Walk : Turns[k][b] = Turn(b, n, spans)
  OBVIOUS
<1>3. x \in Walk
  <2>1. <<>> \in Seq(Place)
    BY EmptySeq
  <2> QED BY <2>1 DEF Walk
<1> HIDE DEF Turns, x
<1>4. PICK g : g \in Runs(Walk, Turns, x, n)
  BY <1>1, <1>3, RunsExist
<1>5. g \in [0 .. n -> Walk] /\ g[0] = x /\ \A k \in 1 .. n : g[k] = Turns[k][g[k - 1]]
  BY <1>4 DEF Runs
<1>6. \A k \in 1 .. n : k - 1 \in 0 .. n
  OBVIOUS
<1>7. \A k \in 1 .. n : g[k] = Turn(g[k - 1], n, spans)
  BY <1>2, <1>5, <1>6
<1>8. \A k \in 0 .. n : k # 0 => k \in 1 .. n
  OBVIOUS
<1>9. g = [k \in 0 .. n |-> IF k = 0 THEN x ELSE Turn(g[k - 1], n, spans)]
  BY <1>5, <1>7, <1>8
<1>10. after = [k \in 0 .. n |-> IF k = 0 THEN x ELSE Turn(after[k - 1], n, spans)]
  BY <1>9
<1>11. mrope_positions(n, spans) = after[n].at
  BY DEF mrope_positions, x
<1> HIDE DEF after
<1>12. after[n] = g[n]
  <2>1. after[0] = g[0]
    BY <1>5, <1>10
  <2>2. \A k \in 1 .. n : k \in 0 .. n /\ k # 0
    OBVIOUS
  <2>3. ASSUME NEW k \in 1 .. n, after[k - 1] = g[k - 1] PROVE after[k] = g[k]
    BY <1>7, <1>10, <2>2, <2>3
  <2> QED BY <2>1, <2>3, Alike
<1>13. IsWalk(n, spans, g)
  BY <1>5, <1>6, <1>7, <1>11, <1>12 DEF IsWalk, x
<1> QED BY <1>13
(* After some turns: the positions given so far, with the position that    *)
(* comes next behind all of them and next to the largest, and the spans    *)
(* before the next one behind the loop, the others in front of it.         *)
Walked(b, out, spans) ==
  /\ b \in Walk /\ Len(b.at) <= Len(out) /\ b.si <= Len(spans)
  /\ \A k \in 1 .. b.si : spans[k].start + spans[k].n <= Len(b.at)
  /\ \A k \in b.si + 1 .. Len(spans) : spans[k].start >= Len(b.at)
  /\ \A j \in 1 .. Len(b.at) : Largest(b.at[j]) < b.cur
  /\ Len(b.at) > 0 => \E j \in 1 .. Len(b.at) : Largest(b.at[j]) = b.cur - 1
  /\ \A j, k \in 1 .. Len(b.at) : j < k =>
       b.at[j] # b.at[k] /\ (out[k] # Pad => Largest(b.at[k]) > Largest(b.at[j]))

(* The positions of a turn, behind those of the turns before it.           *)
LEMMA PositionsBehind ==
  ASSUME NEW out, NEW at \in Seq(Place), NEW new \in Seq(Place), NEW cur \in Nat, NEW next \in Nat,
         \A j \in 1 .. Len(at) : Largest(at[j]) < cur,
         \A j, k \in 1 .. Len(at) : j < k =>
           at[j] # at[k] /\ (out[k] # Pad => Largest(at[k]) > Largest(at[j])),
         cur <= next,
         \A j \in 1 .. Len(new) : cur <= Largest(new[j]) /\ Largest(new[j]) < next,
         \E j \in 1 .. Len(new) : Largest(new[j]) = next - 1,
         \A j, k \in 1 .. Len(new) : j < k =>
           new[j] # new[k] /\ out[Len(at) + k] = Pad
  PROVE  LET all == at \o new
         IN /\ all \in Seq(Place) /\ Len(all) = Len(at) + Len(new)
            /\ \A j \in 1 .. Len(all) : Largest(all[j]) < next
            /\ \E j \in 1 .. Len(all) : Largest(all[j]) = next - 1
            /\ \A j, k \in 1 .. Len(all) : j < k =>
                 all[j] # all[k] /\ (out[k] # Pad => Largest(all[k]) > Largest(all[j]))
<1> DEFINE all == at \o new
           i == Len(at)
           m == Len(new)
<1>1. /\ i \in Nat /\ m \in Nat /\ \A j \in 1 .. i : at[j] \in Place
      /\ \A j \in 1 .. m : new[j] \in Place
  BY LenProperties, ElementOfSeq
<1>2. /\ all \in Seq(Place) /\ Len(all) = i + m
      /\ \A j \in 1 .. i + m : all[j] = IF j <= i THEN at[j] ELSE new[j - i]
  BY ConcatProperties
<1>3. \A j \in 1 .. i + m : (j <= i /\ j \in 1 .. i) \/ (~ (j <= i) /\ j - i \in 1 .. m)
  BY <1>1
<1>4. /\ \A j \in 1 .. i : Largest(at[j]) < cur /\ Largest(at[j]) \in Nat
      /\ \A j \in 1 .. m : cur <= Largest(new[j]) /\ Largest(new[j]) < next /\ Largest(new[j]) \in Nat
  BY <1>1, LargestIs
<1> HIDE DEF all, i, m
<1>5. ASSUME NEW j \in 1 .. i + m PROVE Largest(all[j]) < next
  <2>1. CASE j <= i
    <3>1. all[j] = at[j] /\ Largest(at[j]) < cur /\ Largest(at[j]) \in Nat
      BY <1>2, <1>3, <1>4, <2>1
    <3> QED BY <3>1
  <2>2. CASE ~ (j <= i)
    BY <1>2, <1>3, <1>4, <2>2
  <2> QED BY <2>1, <2>2
<1>6. \E j \in 1 .. i + m : Largest(all[j]) = next - 1
  <2>1. PICK j \in 1 .. m : Largest(new[j]) = next - 1
    BY DEF m
  <2>2. i + j \in 1 .. i + m /\ ~ (i + j <= i) /\ (i + j) - i = j
    BY <1>1
  <2>3. all[i + j] = new[j]
    BY <1>2, <2>2
  <2> QED BY <2>1, <2>2, <2>3
<1>7. ASSUME NEW j \in 1 .. i + m, NEW k \in 1 .. i + m, j < k
      PROVE  all[j] # all[k] /\ (out[k] # Pad => Largest(all[k]) > Largest(all[j]))
  <2>1. CASE k <= i
    <3>1. j \in 1 .. i /\ k \in 1 .. i /\ all[j] = at[j] /\ all[k] = at[k]
      BY <1>1, <1>2, <1>7, <2>1
    <3> QED BY <1>7, <3>1 DEF i
  <2>2. CASE ~ (k <= i) /\ j <= i
    <3>1. all[j] = at[j] /\ all[k] = new[k - i] /\ j \in 1 .. i /\ k - i \in 1 .. m
      BY <1>2, <1>3, <2>2
    <3>2. Largest(all[j]) < cur /\ cur <= Largest(all[k]) /\ Largest(all[j]) \in Nat
          /\ Largest(all[k]) \in Nat
      BY <1>4, <3>1
    <3>3. Largest(all[k]) > Largest(all[j])
      BY <3>2
    <3> QED BY <3>2, <3>3
  <2>3. CASE ~ (k <= i) /\ ~ (j <= i)
    <3>1. all[j] = new[j - i] /\ all[k] = new[k - i] /\ j - i \in 1 .. m /\ k - i \in 1 .. m
      BY <1>2, <1>3, <2>3
    <3>2. j - i < k - i /\ i + (k - i) = k
      BY <1>1, <1>7
    <3>3. new[j - i] # new[k - i] /\ out[i + (k - i)] = Pad
      BY <3>1, <3>2 DEF i, m
    <3> QED BY <3>1, <3>2, <3>3
  <2> QED BY <2>1, <2>2, <2>3
<1> QED BY <1>2, <1>5, <1>6, <1>7 DEF all, i, m

(* A turn keeps the invariant: a token of text takes one position, an      *)
(* image a box of them.                                                    *)
LEMMA TurnKeeps ==
  ASSUME NEW out, NEW spans, Laid(out, spans), NEW b, Walked(b, out, spans),
         Len(b.at) < Len(out), NEW c, c = Turn(b, Len(out), spans)
  PROVE  Walked(c, out, spans) /\ Len(c.at) > Len(b.at)
<1> DEFINE i == Len(b.at)
           n == Len(out)
<1>1. /\ b \in Walk /\ b.at \in Seq(Place) /\ b.cur \in Nat /\ b.si \in Nat /\ i \in Nat /\ n \in Nat
      /\ spans \in Seq(Spot) /\ Len(spans) \in Nat /\ i < n /\ b.si <= Len(spans)
  BY LenProperties, SpotTypes DEF Walked, Walk, Laid
<1>2. \A k \in 1 .. Len(spans) : spans[k].start \in Nat /\ spans[k].n \in Nat \ {0} /\ spans[k] \in Spot
  BY <1>1, SpotTypes
<1>3. /\ \A k \in 1 .. b.si : spans[k].start + spans[k].n <= i
      /\ \A k \in b.si + 1 .. Len(spans) : spans[k].start >= i
      /\ \A j \in 1 .. i : Largest(b.at[j]) < b.cur
      /\ \A j, k \in 1 .. i : j < k =>
           b.at[j] # b.at[k] /\ (out[k] # Pad => Largest(b.at[k]) > Largest(b.at[j]))
  BY DEF Walked
<1>4. \A j \in 1 .. n : out[j] = Pad <=> \E k \in 1 .. Len(spans) : In(spans[k], j - 1)
  BY DEF Laid
<1>5. CASE AtSpan(b, spans)
  <2> DEFINE k == b.si + 1
             s == spans[k]
             box == Box(s, b.cur, s.n)
  <2>1. k \in 1 .. Len(spans) /\ s.start = i /\ s \in Spot /\ s.n \in Nat \ {0}
    BY <1>1, <1>2, <1>5 DEF AtSpan
  <2>2. s.n = s.h * s.w /\ i + s.n <= n
    BY <2>1 DEF Laid
  <2>3. Min({s.n, n - i}) = s.n
    <3> DEFINE x == s.n
               y == n - i
    <3>1. x \in Int /\ y \in Int /\ x <= y
      BY <1>1, <2>1, <2>2
    <3> HIDE DEF x, y
    <3>2. Min({x, y}) = x
      BY <3>1, Min2
    <3> QED BY <3>2 DEF x, y
  <2>4. c = [at |-> b.at \o box, cur |-> b.cur + Extent(s), si |-> k]
    <3>1. c = ImageTurn(b, n, s)
      BY <1>1, <1>5, TurnIs
    <3> QED BY <2>3, <3>1 DEF ImageTurn
  <2>5. c \in Walk
    BY <1>1, TurnTypes
  <2> HIDE DEF s, k
  <2>6. /\ box \in Seq(Place) /\ Len(box) = s.n
        /\ \A j \in 1 .. s.n : b.cur <= Largest(box[j]) /\ Largest(box[j]) < b.cur + Extent(s)
        /\ \E j \in 1 .. s.n : Largest(box[j]) = b.cur + Extent(s) - 1
        /\ \A j, l \in 1 .. s.n : j < l => box[j] # box[l]
    <3> DEFINE cur == b.cur
    <3>1. cur \in Nat /\ box = Box(s, cur, s.n) /\ s \in Spot /\ s.n = s.h * s.w
      BY <1>1, <2>1, <2>2
    <3> HIDE DEF box, cur
    <3>2. Boxed(box, s, cur)
      BY <3>1, BoxIs
    <3> QED BY <3>2 DEF Boxed, cur
  <2>7. \A j \in 1 .. s.n : out[i + j] = Pad
    <3> SUFFICES ASSUME NEW j \in 1 .. s.n PROVE out[i + j] = Pad
      OBVIOUS
    <3>1. i + j \in 1 .. n /\ s.start <= (i + j) - 1 /\ (i + j) - 1 < s.start + s.n
      BY <1>1, <2>1, <2>2
    <3>2. In(spans[k], (i + j) - 1)
      BY <3>1 DEF In, s
    <3> QED BY <1>4, <2>1, <3>1, <3>2
  <2> HIDE DEF box
  <2> DEFINE next == b.cur + Extent(s)
             all == b.at \o box
  <2>8. next \in Nat /\ b.cur <= next
    BY <1>1, <2>1, ExtentIs
  <2>9. /\ \A j \in 1 .. Len(box) : b.cur <= Largest(box[j]) /\ Largest(box[j]) < next
        /\ \E j \in 1 .. Len(box) : Largest(box[j]) = next - 1
        /\ \A j, l \in 1 .. Len(box) : j < l => box[j] # box[l] /\ out[Len(b.at) + l] = Pad
    <3>1. Len(box) = s.n
      BY <2>6
    <3>2. \A j \in 1 .. s.n : b.cur <= Largest(box[j]) /\ Largest(box[j]) < next
      BY <2>6
    <3>3. \E j \in 1 .. s.n : Largest(box[j]) = next - 1
      <4>1. PICK j \in 1 .. s.n : Largest(box[j]) = b.cur + Extent(s) - 1
        BY <2>6
      <4>2. next - 1 = b.cur + Extent(s) - 1
        <5>1. b.cur \in Nat /\ Extent(s) \in Nat
          BY <1>1, <2>1, ExtentIs
        <5> QED BY <5>1
      <4> HIDE DEF next
      <4>3. Largest(box[j]) = next - 1
        BY <4>1, <4>2
      <4> QED BY <4>3
    <3>4. \A j, l \in 1 .. s.n : j < l => box[j] # box[l] /\ out[Len(b.at) + l] = Pad
      BY <2>6, <2>7
    <3> HIDE DEF next
    <3> QED BY <3>1, <3>2, <3>3, <3>4
  <2> HIDE DEF next
  <2>10. /\ all \in Seq(Place) /\ Len(all) = i + Len(box)
         /\ \A j \in 1 .. Len(all) : Largest(all[j]) < next
         /\ \E j \in 1 .. Len(all) : Largest(all[j]) = next - 1
         /\ \A j, l \in 1 .. Len(all) : j < l =>
              all[j] # all[l] /\ (out[l] # Pad => Largest(all[l]) > Largest(all[j]))
    <3> DEFINE at == b.at
               cur == b.cur
    <3>1. /\ at \in Seq(Place) /\ box \in Seq(Place) /\ cur \in Nat /\ next \in Nat /\ cur <= next
          /\ i = Len(at) /\ all = at \o box
      BY <1>1, <2>6, <2>8
    <3>2. /\ \A j \in 1 .. Len(at) : Largest(at[j]) < cur
          /\ \A j, k2 \in 1 .. Len(at) : j < k2 =>
               at[j] # at[k2] /\ (out[k2] # Pad => Largest(at[k2]) > Largest(at[j]))
      BY <1>3
    <3>3. /\ \A j \in 1 .. Len(box) : cur <= Largest(box[j]) /\ Largest(box[j]) < next
          /\ \E j \in 1 .. Len(box) : Largest(box[j]) = next - 1
          /\ \A j, l \in 1 .. Len(box) : j < l => box[j] # box[l] /\ out[Len(at) + l] = Pad
      BY <2>9
    <3> HIDE DEF at, cur, all, i
    <3>4. LET both == at \o box
          IN /\ both \in Seq(Place) /\ Len(both) = Len(at) + Len(box)
             /\ \A j \in 1 .. Len(both) : Largest(both[j]) < next
             /\ \E j \in 1 .. Len(both) : Largest(both[j]) = next - 1
             /\ \A j, l \in 1 .. Len(both) : j < l =>
                  both[j] # both[l] /\ (out[l] # Pad => Largest(both[l]) > Largest(both[j]))
      BY <3>1, <3>2, <3>3, PositionsBehind, ZenonT(60)
    <3> QED BY <3>1, <3>4
  <2> HIDE DEF all
  <2>11. c.at = all /\ c.cur = next /\ c.si = k
    BY <2>4 DEF all, next
  <2>12. Len(all) = i + s.n /\ Len(all) <= n /\ Len(all) > i /\ k <= Len(spans)
    BY <1>1, <2>1, <2>2, <2>6, <2>10
  <2>13. \A l \in 1 .. k : spans[l].start + spans[l].n <= i + s.n
    <3> SUFFICES ASSUME NEW l \in 1 .. k PROVE spans[l].start + spans[l].n <= i + s.n
      OBVIOUS
    <3>1. CASE l = k
      <4>1. spans[l].start + spans[l].n = i + s.n
        BY <2>1, <3>1 DEF s
      <4> QED BY <1>1, <2>1, <4>1
    <3>2. CASE l # k
      <4>1. l \in 1 .. b.si /\ l \in 1 .. Len(spans)
        BY <1>1, <2>1, <3>2 DEF k
      <4> DEFINE x == spans[l].start + spans[l].n
      <4>2. x <= i /\ x \in Nat
        BY <1>2, <1>3, <4>1
      <4> HIDE DEF x
      <4>3. x <= i + s.n
        BY <1>1, <2>1, <4>2
      <4> QED BY <4>3 DEF x
    <3> QED BY <3>1, <3>2
  <2>14. \A l \in k + 1 .. Len(spans) : spans[l].start >= i + s.n
    <3> SUFFICES ASSUME NEW l \in k + 1 .. Len(spans) PROVE spans[l].start >= i + s.n
      OBVIOUS
    <3>1. l \in 1 .. Len(spans) /\ k < l
      BY <1>1, <2>1
    <3>2. spans[k].start + spans[k].n <= spans[l].start
      BY <2>1, <3>1, SpansInOrder
    <3>3. spans[k].start + spans[k].n = i + s.n
      BY <2>1 DEF s
    <3> DEFINE x == i + s.n
    <3>4. x \in Nat /\ spans[l].start \in Nat /\ x <= spans[l].start
      BY <1>1, <1>2, <2>1, <3>1, <3>2, <3>3
    <3> HIDE DEF x
    <3>5. spans[l].start >= x
      BY <3>4
    <3> QED BY <3>5 DEF x
  <2> HIDE DEF i
  <2>15. Len(c.at) = i + s.n /\ Len(c.at) > i
    BY <2>11, <2>12
  <2>16. /\ c \in Walk /\ Len(c.at) <= Len(out) /\ c.si <= Len(spans)
         /\ \A l \in 1 .. c.si : spans[l].start + spans[l].n <= Len(c.at)
         /\ \A l \in c.si + 1 .. Len(spans) : spans[l].start >= Len(c.at)
    BY <2>5, <2>11, <2>12, <2>13, <2>14, <2>15
  <2>17. /\ \A j \in 1 .. Len(c.at) : Largest(c.at[j]) < c.cur
         /\ \E j \in 1 .. Len(c.at) : Largest(c.at[j]) = c.cur - 1
         /\ \A j, l \in 1 .. Len(c.at) : j < l =>
              c.at[j] # c.at[l] /\ (out[l] # Pad => Largest(c.at[l]) > Largest(c.at[j]))
    BY <2>10, <2>11
  <2> QED BY <2>15, <2>16, <2>17 DEF Walked, i
<1>6. CASE ~ AtSpan(b, spans)
  <2> DEFINE p == [t |-> b.cur, h |-> b.cur, w |-> b.cur]
             all == Append(b.at, p)
             next == b.cur + 1
  <2>1. c = [b EXCEPT !.at = all, !.cur = next]
    <3>1. c = TextTurn(b)
      BY <1>1, <1>6, TurnIs
    <3> QED BY <3>1 DEF TextTurn
  <2>2. c \in Walk
    BY <1>1, TurnTypes
  <2>3. p \in Place /\ Largest(p) = b.cur
    <3>1. p \in Place /\ p.t = b.cur /\ p.h = b.cur /\ p.w = b.cur
      BY <1>1 DEF Place
    <3> HIDE DEF p
    <3> QED BY <3>1, LargestIs
  <2> HIDE DEF p
  <2>4. /\ all \in Seq(Place) /\ Len(all) = i + 1 /\ all[i + 1] = p
        /\ \A j \in 1 .. i : all[j] = b.at[j]
    BY <1>1, <2>3, AppendProperties
  <2> HIDE DEF all
  <2>5. c.at = all /\ c.cur = next /\ c.si = b.si
    BY <1>1, <2>1 DEF Walk
  <2>6. i + 1 <= n /\ next \in Nat /\ \A j \in 1 .. i + 1 : j \in 1 .. i \/ j = i + 1
    BY <1>1
  <2>7. \A j \in 1 .. i : Largest(b.at[j]) \in Nat /\ Largest(b.at[j]) < b.cur
    <3>1. \A j \in 1 .. i : b.at[j] \in Place
      BY <1>1, ElementOfSeq
    <3> QED BY <1>3, <3>1, LargestIs
  <2>8. \A j \in 1 .. i + 1 : Largest(all[j]) < next
    <3> SUFFICES ASSUME NEW j \in 1 .. i + 1 PROVE Largest(all[j]) < next
      OBVIOUS
    <3>1. CASE j \in 1 .. i
      BY <1>1, <2>4, <2>7, <3>1
    <3>2. CASE j = i + 1
      BY <1>1, <2>3, <2>4, <3>2
    <3> QED BY <2>6, <3>1, <3>2
  <2>9. i + 1 \in 1 .. i + 1 /\ Largest(all[i + 1]) = next - 1
    BY <1>1, <2>3, <2>4
  <2>10. ASSUME NEW j \in 1 .. i + 1, NEW l \in 1 .. i + 1, j < l
         PROVE  all[j] # all[l] /\ (out[l] # Pad => Largest(all[l]) > Largest(all[j]))
    <3>1. CASE l \in 1 .. i
      <4>1. j \in 1 .. i
        BY <1>1, <2>10, <3>1
      <4> QED BY <1>3, <2>4, <2>10, <3>1, <4>1
    <3>2. CASE l = i + 1
      <4>1. j \in 1 .. i
        BY <1>1, <2>10, <3>2
      <4>2. Largest(all[l]) = b.cur /\ Largest(all[j]) < b.cur /\ Largest(all[j]) \in Nat
        BY <2>3, <2>4, <2>7, <3>2, <4>1
      <4>3. Largest(all[l]) > Largest(all[j])
        BY <1>1, <4>2
      <4> QED BY <4>3, <4>2, <1>1
    <3> QED BY <2>6, <3>1, <3>2
  <2>11. \A l \in 1 .. b.si : spans[l].start + spans[l].n <= i + 1
    <3> SUFFICES ASSUME NEW l \in 1 .. b.si PROVE spans[l].start + spans[l].n <= i + 1
      OBVIOUS
    <3> DEFINE x == spans[l].start + spans[l].n
    <3>1. x <= i /\ x \in Nat
      <4>1. l \in 1 .. Len(spans)
        BY <1>1
      <4> QED BY <1>2, <1>3, <4>1
    <3> HIDE DEF x
    <3>2. x <= i + 1
      BY <1>1, <3>1
    <3> QED BY <3>2 DEF x
  <2>12. \A l \in b.si + 1 .. Len(spans) : spans[l].start >= i + 1
    <3> SUFFICES ASSUME NEW l \in b.si + 1 .. Len(spans) PROVE spans[l].start >= i + 1
      OBVIOUS
    <3> DEFINE k == b.si + 1
    <3>1. k \in 1 .. Len(spans) /\ l \in 1 .. Len(spans) /\ k <= l /\ b.si < Len(spans)
      BY <1>1
    <3>2. spans[k].start # i /\ spans[k].start >= i /\ spans[k].start \in Nat
      <4>1. k \in b.si + 1 .. Len(spans)
        BY <1>1, <3>1
      <4> QED BY <1>2, <1>3, <1>6, <3>1, <4>1 DEF AtSpan
    <3> HIDE DEF k
    <3>3. spans[k].start >= i + 1
      <4> DEFINE x == spans[k].start
      <4>1. x \in Nat /\ x # i /\ x >= i
        BY <3>2
      <4> HIDE DEF x
      <4>2. x >= i + 1
        BY <1>1, <4>1
      <4> QED BY <4>2 DEF x
    <3>4. CASE k = l
      BY <3>3, <3>4
    <3>5. CASE k < l
      <4>1. spans[k].start + spans[k].n <= spans[l].start
        BY <3>1, <3>5, SpansInOrder
      <4> DEFINE x == spans[k].start
                 y == spans[k].n
                 z == spans[l].start
      <4>2. x \in Nat /\ y \in Nat /\ z \in Nat /\ x + y <= z /\ x >= i + 1
        BY <1>2, <3>1, <3>3, <4>1
      <4> HIDE DEF x, y, z
      <4>3. z >= i + 1
        BY <1>1, <4>2
      <4> QED BY <4>3 DEF z
    <3> QED BY <1>1, <3>1, <3>4, <3>5 DEF k
  <2> HIDE DEF i, next
  <2>13. Len(c.at) = i + 1 /\ Len(c.at) > i
    BY <1>1, <2>4, <2>5
  <2>14. /\ c \in Walk /\ Len(c.at) <= Len(out) /\ c.si <= Len(spans)
         /\ \A l \in 1 .. c.si : spans[l].start + spans[l].n <= Len(c.at)
         /\ \A l \in c.si + 1 .. Len(spans) : spans[l].start >= Len(c.at)
    BY <1>1, <2>2, <2>5, <2>6, <2>11, <2>12, <2>13
  <2>15. /\ \A j \in 1 .. Len(c.at) : Largest(c.at[j]) < c.cur
         /\ \E j \in 1 .. Len(c.at) : Largest(c.at[j]) = c.cur - 1
         /\ \A j, l \in 1 .. Len(c.at) : j < l =>
              c.at[j] # c.at[l] /\ (out[l] # Pad => Largest(c.at[l]) > Largest(c.at[j]))
    BY <2>5, <2>8, <2>9, <2>10, <2>13
  <2> QED BY <2>13, <2>14, <2>15 DEF Walked, i
<1> QED BY <1>5, <1>6
(* All turns: each of them that finds tokens left brings at least one.     *)
LEMMA PositionsAre ==
  ASSUME NEW out, NEW spans, Laid(out, spans),
         NEW at, at = mrope_positions(Len(out), spans)
  PROVE  \E cur \in Nat :
           /\ at \in Seq(Place) /\ Len(at) = Len(out)
           /\ \A j \in 1 .. Len(at) : Largest(at[j]) < cur
           /\ Len(at) > 0 => \E j \in 1 .. Len(at) : Largest(at[j]) = cur - 1
           /\ \A j, k \in 1 .. Len(at) : j < k =>
                at[j] # at[k] /\ (out[k] # Pad => Largest(at[k]) > Largest(at[j]))
<1> DEFINE n == Len(out)
<1>1. n \in Nat /\ spans \in Seq(Spot) /\ Len(spans) \in Nat
  BY LenProperties DEF Laid
<1>2. PICK g : IsWalk(n, spans, g)
  BY <1>1, WalkRuns
<1>3. /\ g \in [0 .. n -> Walk] /\ g[0] = [at |-> <<>>, cur |-> 0, si |-> 0]
      /\ \A k \in 1 .. n : k - 1 \in 0 .. n /\ g[k] = Turn(g[k - 1], n, spans)
      /\ at = g[n].at
  BY <1>2 DEF IsWalk
<1> HIDE DEF n
<1> DEFINE Q == {k \in Nat : k <= n => Walked(g[k], out, spans) /\ k <= Len(g[k].at)}
<1>4. 0 \in Q
  <2> DEFINE b == g[0]
  <2>1. b.at = <<>> /\ b.cur = 0 /\ b.si = 0 /\ b \in Walk
    BY <1>1, <1>3
  <2>2. Len(<<>>) = 0
    OBVIOUS
  <2> HIDE DEF b
  <2>3. Len(b.at) = 0
    BY <2>1, <2>2
  <2>4. \A k \in 1 .. Len(spans) : spans[k].start \in Nat
    BY <1>1, SpotTypes
  <2>5. 0 <= Len(out) /\ 0 <= Len(spans) /\ \A k \in b.si + 1 .. Len(spans) : k \in 1 .. Len(spans)
    BY <1>1, <2>1 DEF n
  <2>6. \A k \in b.si + 1 .. Len(spans) : spans[k].start >= Len(b.at)
    BY <2>3, <2>4, <2>5
  <2>7. (\A k \in 1 .. b.si : FALSE) /\ (\A k \in 1 .. Len(b.at) : FALSE) /\ ~ (Len(b.at) > 0)
    BY <2>1, <2>3
  <2>8. Walked(b, out, spans)
    BY <2>1, <2>3, <2>5, <2>6, <2>7 DEF Walked
  <2> QED BY <2>3, <2>8 DEF b
<1>5. ASSUME NEW k \in Nat, k \in Q PROVE k + 1 \in Q
  <2> SUFFICES ASSUME k + 1 <= n
               PROVE  Walked(g[k + 1], out, spans) /\ k + 1 <= Len(g[k + 1].at)
    OBVIOUS
  <2> DEFINE b == g[k]
             c == g[k + 1]
  <2>1. k <= n /\ k + 1 \in 1 .. n /\ (k + 1) - 1 = k
    BY <1>1
  <2>2. Walked(b, out, spans) /\ k <= Len(b.at) /\ c = Turn(b, n, spans)
    BY <1>3, <1>5, <2>1
  <2> HIDE DEF b, c
  <2>3. Len(b.at) \in Nat /\ Len(b.at) <= n
    BY <2>2, LenProperties DEF Walked, Walk, n
  <2>4. CASE Len(b.at) < n
    <3>1. Walked(c, out, spans) /\ Len(c.at) > Len(b.at)
      BY <2>2, <2>4, TurnKeeps DEF n
    <3>2. Len(c.at) \in Nat
      BY <3>1, LenProperties DEF Walked, Walk
    <3> QED BY <2>2, <2>3, <3>1, <3>2 DEF c
  <2>5. CASE ~ (Len(b.at) < n)
    <3>1. c = b
      BY <1>1, <2>2, <2>3, <2>5, TurnIs
    <3> QED BY <1>1, <2>2, <2>3, <2>5, <3>1 DEF c
  <2> QED BY <2>4, <2>5
<1> HIDE DEF Q
<1>6. n \in Q /\ n <= n
  <2>1. \A k \in Nat : k \in Q
    BY <1>4, <1>5, Induction
  <2> QED BY <1>1, <2>1
<1>7. Walked(g[n], out, spans) /\ n <= Len(g[n].at)
  BY <1>6 DEF Q
<1> DEFINE b == g[n]
<1>8. Walked(b, out, spans) /\ n <= Len(b.at) /\ at = b.at
  BY <1>3, <1>7
<1> HIDE DEF b
<1>9. /\ at \in Seq(Place) /\ b.cur \in Nat /\ Len(at) \in Nat /\ Len(at) <= n
      /\ \A j \in 1 .. Len(at) : Largest(at[j]) < b.cur
      /\ Len(at) > 0 => \E j \in 1 .. Len(at) : Largest(at[j]) = b.cur - 1
      /\ \A j, k \in 1 .. Len(at) : j < k =>
           at[j] # at[k] /\ (out[k] # Pad => Largest(at[k]) > Largest(at[j]))
  BY <1>8, LenProperties DEF Walked, Walk, n
<1>10. Len(at) = Len(out)
  BY <1>1, <1>8, <1>9 DEF n
<1> QED BY <1>9, <1>10

(* The next position after the prompt.                                     *)
LEMMA DeltaIs ==
  ASSUME NEW at \in Seq(Place), Len(at) > 0, NEW cur \in Nat,
         \A j \in 1 .. Len(at) : Largest(at[j]) < cur,
         \E j \in 1 .. Len(at) : Largest(at[j]) = cur - 1
  PROVE  Delta(at) = cur - Len(at)
<1>1. Len(at) \in Nat /\ DOMAIN at = 1 .. Len(at) /\ \A j \in 1 .. Len(at) : at[j] \in Place
  BY LenProperties, ElementOfSeq
<1>2. at # <<>>
  <2>1. Len(<<>>) = 0
    OBVIOUS
  <2> QED BY <2>1
<1> DEFINE S == {0} \cup {Largest(at[i]) : i \in DOMAIN at}
           m == cur - 1
<1>3. PICK j \in 1 .. Len(at) : Largest(at[j]) = m
  OBVIOUS
<1>4. \A i \in 1 .. Len(at) : Largest(at[i]) \in Nat /\ Largest(at[i]) <= m
  <2> SUFFICES ASSUME NEW i \in 1 .. Len(at) PROVE Largest(at[i]) \in Nat /\ Largest(at[i]) <= m
    OBVIOUS
  <2> DEFINE l == Largest(at[i])
  <2>1. l \in Nat /\ l < cur
    BY <1>1, LargestIs
  <2> HIDE DEF l
  <2>2. l \in Nat /\ l <= cur - 1
    BY <2>1
  <2> QED BY <2>2 DEF l
<1>5. m \in S /\ m \in Nat
  BY <1>1, <1>3, <1>4
<1>6. S \subseteq Int /\ \A k \in S : k <= m
  <2> HIDE DEF m
  <2> QED BY <1>1, <1>4, <1>5
<1> HIDE DEF S, m
<1>7. Max(S) = m
  BY <1>5, <1>6, MaxOf
<1>8. Delta(at) = Max(S) + 1 - Len(at)
  BY <1>2 DEF Delta, S
<1> QED BY <1>1, <1>7, <1>8 DEF m

LEMMA TextIs ==
  ASSUME NEW chars, NEW n, NEW text \in Texts(chars, n)
  PROVE  text \in Seq(chars)
<1>1. PICK k \in 0 .. n : text \in [1 .. k -> chars]
  BY DEF Texts
<1>2. k \in Nat /\ \A i \in 1 .. k : text[i] \in chars
  BY <1>1
<1>3. [i \in 1 .. k |-> text[i]] \in Seq(chars)
  BY <1>2, IsASeq
<1>4. text = [i \in 1 .. k |-> text[i]]
  BY <1>1
<1> QED BY <1>3, <1>4

ExpandQuestions ==
  {q \in [op : {"expand"}, ids : Seq(Vocabulary), images : Seq(Images)] : ~Mismatch(q.ids, q.images)}

(* Every token of every prompt has a position of its own, with text behind *)
(* all that is in front of it, and decoding goes on where the prompt ends  *)
(* (PositionsDistinct).                                                    *)
LEMMA PositionsFor ==
  ASSUME asked \in ExpandQuestions
  PROVE  PositionsDistinct
<1> DEFINE e == Expand(asked.ids, asked.images)
           out == e.out
           n == Len(out)
           at == mrope_positions(n, e.spans)
           next == n + Delta(at)
<1>1. /\ asked.ids \in Seq(Vocabulary) /\ asked.images \in Seq(Images)
      /\ ~Mismatch(asked.ids, asked.images)
  BY DEF ExpandQuestions
<1>2. Laid(e.out, e.spans)
  <2>1. e = Expand(asked.ids, asked.images)
    OBVIOUS
  <2> HIDE DEF e
  <2> QED BY <1>1, <2>1, ExpandIs
<1> HIDE DEF e
<1>3. n \in Nat /\ at = mrope_positions(Len(out), e.spans) /\ Laid(out, e.spans)
  BY <1>2, LenProperties DEF Laid
<1> HIDE DEF out, at
<1>4. PICK cur \in Nat :
        /\ at \in Seq(Place) /\ Len(at) = Len(out)
        /\ \A j \in 1 .. Len(at) : Largest(at[j]) < cur
        /\ Len(at) > 0 => \E j \in 1 .. Len(at) : Largest(at[j]) = cur - 1
        /\ \A j, k \in 1 .. Len(at) : j < k =>
             at[j] # at[k] /\ (out[k] # Pad => Largest(at[k]) > Largest(at[j]))
  BY <1>3, PositionsAre
<1>5. ASSUME n > 0 PROVE next = cur
  <2>1. Len(at) > 0 /\ \E j \in 1 .. Len(at) : Largest(at[j]) = cur - 1
    BY <1>4, <1>5
  <2>2. Delta(at) = cur - Len(at)
    BY <1>4, <2>1, DeltaIs
  <2> QED BY <1>3, <1>4, <2>2
<1> HIDE DEF next
<1>6. \A i \in 1 .. n : n > 0
  BY <1>3
<1>7. /\ Len(at) = n
      /\ \A i, j \in 1 .. n : i < j =>
           at[i] # at[j] /\ (out[j] # Pad => Largest(at[j]) > Largest(at[i]))
      /\ \A i \in 1 .. n : Largest(at[i]) < next
      /\ n > 0 => \E i \in 1 .. n : Largest(at[i]) = next - 1
  BY <1>4, <1>5, <1>6
<1> QED BY <1>7 DEF PositionsDistinct, e, out, at, next
-----------------------------------------------------------------------------
(* Embeddings.                                                             *)

(* What a chunk of m tokens from pos on copies of span k.                  *)
Row(spans, k, i) == <<i, OffsetOf(spans, k) + (i - spans[k].start)>>
RowsIn(spans, k, pos, m) == {Row(spans, k, i) : i \in {i \in pos .. pos + m - 1 : In(spans[k], i)}}
Spliced(spans, k, pos, m) == {<<pos + s.dst, s.src>> : s \in Splice(spans, k, pos, m)}

(* Row by row, the copies from one span.                                   *)
LEMMA SpliceIs ==
  ASSUME NEW spans \in Seq(Spot), NEW k \in 1 .. Len(spans), NEW pos \in Nat, NEW m \in Nat
  PROVE  Spliced(spans, k, pos, m) = RowsIn(spans, k, pos, m)
<1> DEFINE start == spans[k].start
           end == start + spans[k].n
           off == OffsetOf(spans, k)
           a == Max({start, pos})
           b == Min({end, pos + m})
           copies == {[dst |-> a - pos + r, src |-> off + (a - start) + r] : r \in 0 .. b - a - 1}
           rows == {i \in pos .. pos + m - 1 : In(spans[k], i)}
<1>1. start \in Nat /\ end \in Nat /\ off \in Nat
  <2>1. spans[k].start \in Nat /\ spans[k].n \in Nat /\ k \in 1 .. Len(spans) + 1
    BY SpotTypes
  <2> QED BY <2>1, OffsetTypes
<1>2. /\ a = (IF start <= pos THEN pos ELSE start)
      /\ b = (IF end <= pos + m THEN end ELSE pos + m)
  <2> HIDE DEF start, end
  <2>1. a = IF start <= pos THEN pos ELSE start
    BY <1>1, Max2
  <2>2. pos + m \in Int /\ end \in Int
    BY <1>1
  <2> DEFINE p == pos + m
  <2>3. p \in Int /\ b = Min({end, p})
    BY <2>2
  <2> HIDE DEF p, b
  <2>4. b = IF end <= p THEN end ELSE p
    BY <2>2, <2>3, Min2
  <2> QED BY <2>1, <2>4 DEF p
<1>3. Splice(spans, k, pos, m) = copies
  BY DEF Splice
<1>4. rows = {i \in pos .. pos + m - 1 : start <= i /\ i < end}
  BY DEF In
<1> HIDE DEF rows
<1>5. rows = {i \in Nat : a <= i /\ i < b}
  <2> HIDE DEF start, end, a, b
  <2> QED BY <1>1, <1>2, <1>4
<1>6. a \in Nat /\ b \in Nat
  <2> HIDE DEF start, end, a, b
  <2> QED BY <1>1, <1>2
<1>7. {<<pos + s.dst, s.src>> : s \in copies} = {<<i, off + (i - start)>> : i \in rows}
  <2> HIDE DEF start, end, a, b, off
  <2> DEFINE copy(r) == [dst |-> a - pos + r, src |-> off + (a - start) + r]
  <2>1. ASSUME NEW r \in 0 .. b - a - 1
        PROVE  /\ a + r \in rows
               /\ <<pos + copy(r).dst, copy(r).src>> = <<a + r, off + ((a + r) - start)>>
    <3>1. r \in Nat /\ a + r \in Nat /\ a <= a + r /\ a + r < b
      BY <1>6
    <3>2. copy(r).dst = a - pos + r /\ copy(r).src = off + (a - start) + r
      OBVIOUS
    <3> HIDE DEF copy
    <3>3. pos + copy(r).dst = a + r
      BY <1>6, <3>1, <3>2
    <3>4. copy(r).src = off + ((a + r) - start)
      BY <1>1, <1>6, <3>1, <3>2
    <3> QED BY <1>5, <3>1, <3>3, <3>4
  <2>2. ASSUME NEW i \in rows
        PROVE  i - a \in 0 .. b - a - 1 /\ a + (i - a) = i
    BY <1>5, <1>6
  <2>3. copies = {copy(r) : r \in 0 .. b - a - 1}
    OBVIOUS
  <2> HIDE DEF copies, copy
  <2>4. ASSUME NEW s \in copies
        PROVE  <<pos + s.dst, s.src>> \in {<<i, off + (i - start)>> : i \in rows}
    <3>1. PICK r \in 0 .. b - a - 1 : s = copy(r)
      BY <2>3
    <3> QED BY <2>1, <3>1
  <2>5. ASSUME NEW i \in rows
        PROVE  <<i, off + (i - start)>> \in {<<pos + s.dst, s.src>> : s \in copies}
    <3> DEFINE r == i - a
    <3>1. r \in 0 .. b - a - 1 /\ a + r = i
      BY <2>2
    <3> HIDE DEF r
    <3>2. copy(r) \in copies /\ <<pos + copy(r).dst, copy(r).src>> = <<i, off + (i - start)>>
      BY <2>1, <2>3, <3>1
    <3> QED BY <3>2
  <2> QED BY <2>4, <2>5
<1>8. {<<i, off + (i - start)>> : i \in rows} = {Row(spans, k, i) : i \in rows}
  BY DEF Row
<1> HIDE DEF copies
<1> QED BY <1>3, <1>7, <1>8 DEF rows, Spliced, RowsIn

(* A row of a prompt is the place of a placeholder that has as many others *)
(* in front of it as there are embeddings in front of its own.             *)
LEMMA RankIs ==
  ASSUME NEW out, NEW spans, Laid(out, spans), NEW k \in 1 .. Len(spans), NEW i \in Nat,
         In(spans[k], i)
  PROVE  /\ i < Len(out) /\ out[i + 1] = Pad
         /\ Cardinality(PadsIn(out, i)) = OffsetOf(spans, k) + (i - spans[k].start)
<1> DEFINE start == spans[k].start
           n == spans[k].n
           m == i - start
<1>1. start \in Nat /\ n \in Nat /\ Len(out) \in Nat
  BY SpotTypes, LenProperties DEF Laid
<1>2. start + n <= Len(out) /\ Cardinality(PadsIn(out, start)) = OffsetOf(spans, k)
  BY DEF Laid
<1>3. start <= i /\ i < start + n
  BY DEF In
<1>4. ASSUME NEW j \in start + 1 .. i + 1 PROVE out[j] = Pad
  <2>1. j \in 1 .. Len(out) /\ start <= j - 1 /\ j - 1 < start + n
    <3> HIDE DEF start, n
    <3> QED BY <1>1, <1>2, <1>3
  <2>2. In(spans[k], j - 1)
    BY <2>1 DEF In
  <2> QED BY <2>1, <2>2 DEF Laid
<1> HIDE DEF start, n
<1>5. m \in Nat /\ start + m = i /\ i < Len(out) /\ i + 1 \in start + 1 .. i + 1
      /\ \A j \in start + 1 .. start + m : j \in start + 1 .. i + 1
  BY <1>1, <1>2, <1>3
<1> HIDE DEF m
<1>6. Cardinality(PadsIn(out, start + m)) = Cardinality(PadsIn(out, start)) + m
  BY <1>1, <1>4, <1>5, PadsBehind
<1> QED BY <1>2, <1>4, <1>5, <1>6 DEF m, start

(* Each row of a prompt is in one chunk.                                   *)
LEMMA ChunkOf ==
  ASSUME NEW from \in Nat, NEW n \in Nat, NEW chunk \in Nat \ {0}, NEW i \in from .. n - 1
  PROVE  \E pos \in Starts(from, chunk, n) : pos <= i /\ i < pos + Min({chunk, n - pos})
<1> DEFINE d == i - from
           q == d \div chunk
           r == d % chunk
           pos == from + chunk * q
<1>1. d \in Nat
  OBVIOUS
<1> HIDE DEF d
<1>2. q \in Nat /\ r \in Nat /\ r < chunk /\ d = chunk * q + r
  BY <1>1, DivMod
<1> HIDE DEF q, r
<1>3. chunk * q \in Nat
  BY <1>2
<1> DEFINE c == chunk * q
<1>4. c \in Nat /\ d = c + r /\ pos = from + c
  BY <1>2, <1>3
<1>5. c % chunk = 0
  <2>1. 0 \in Nat /\ 0 < chunk
    OBVIOUS
  <2>2. (chunk * q + 0) % chunk = 0
    BY <1>2, <2>1, DivUnique
  <2>3. chunk * q + 0 = c
    BY <1>3
  <2> QED BY <2>2, <2>3
<1> HIDE DEF c, pos
<1>6. i = pos + r /\ pos \in from .. n - 1 /\ pos - from = c
  BY <1>1, <1>2, <1>4 DEF d
<1>7. Min({chunk, n - pos}) = IF chunk <= n - pos THEN chunk ELSE n - pos
  <2> DEFINE y == n - pos
  <2>1. y \in Int /\ chunk \in Int
    BY <1>6
  <2> HIDE DEF y
  <2>2. Min({chunk, y}) = IF chunk <= y THEN chunk ELSE y
    BY <2>1, Min2
  <2> QED BY <2>2 DEF y
<1>8. pos \in Starts(from, chunk, n)
  BY <1>5, <1>6 DEF Starts
<1>9. pos <= i /\ i < pos + Min({chunk, n - pos})
  BY <1>2, <1>6, <1>7
<1> QED BY <1>8, <1>9

(* So that a row of all chunks is a row of one of the spans.               *)
LEMMA CopiesAre ==
  ASSUME NEW out, NEW spans, Laid(out, spans), NEW chunk \in Nat \ {0},
         NEW from \in 0 .. Len(out) - 1
  PROVE  Copies(spans, from, chunk, Len(out))
           = {<<i, Cardinality(PadsIn(out, i))>> : i \in {i \in from .. Len(out) - 1 : out[i + 1] = Pad}}
<1> DEFINE n == Len(out)
           want == {<<i, Cardinality(PadsIn(out, i))>> : i \in {i \in from .. n - 1 : out[i + 1] = Pad}}
           len(pos) == Min({chunk, n - pos})
           rows(k, pos) == {<<pos + s.dst, s.src>> : s \in Splice(spans, k, pos, len(pos))}
           part(pos) == {<<pos + s.dst, s.src>> : s \in Splices(spans, pos, len(pos))}
<1>1. n \in Nat /\ spans \in Seq(Spot) /\ Len(spans) \in Nat /\ DOMAIN spans = 1 .. Len(spans)
  BY LenProperties DEF Laid
<1> HIDE DEF n
<1>2. ASSUME NEW pos \in Starts(from, chunk, n)
      PROVE  /\ pos \in Nat /\ from <= pos /\ len(pos) \in Nat /\ pos + len(pos) <= n
  <2>1. pos \in from .. n - 1 /\ from \in Nat
    BY DEF Starts
  <2> DEFINE y == n - pos
  <2>2. pos \in Nat /\ from <= pos /\ y \in Nat /\ pos + y = n
    BY <1>1, <2>1
  <2> HIDE DEF y
  <2>3. Min({chunk, y}) = IF chunk <= y THEN chunk ELSE y
    BY <2>2, Min2
  <2>4. len(pos) = Min({chunk, y})
    BY DEF y
  <2> HIDE DEF len
  <2>5. len(pos) \in Nat /\ pos + len(pos) <= n
    BY <1>1, <2>2, <2>3, <2>4
  <2> QED BY <2>2, <2>5
<1>3. ASSUME NEW pos \in Starts(from, chunk, n), NEW k \in 1 .. Len(spans)
      PROVE  rows(k, pos) = {Row(spans, k, i) : i \in {i \in pos .. pos + len(pos) - 1 : In(spans[k], i)}}
  <2> DEFINE m == len(pos)
  <2>1. m \in Nat /\ pos \in Nat
    BY <1>2
  <2> HIDE DEF m
  <2>2. Spliced(spans, k, pos, m) = RowsIn(spans, k, pos, m)
    BY <1>1, <2>1, SpliceIs
  <2> QED BY <2>2 DEF m, Spliced, RowsIn
<1>4. Copies(spans, from, chunk, n) = UNION {part(pos) : pos \in Starts(from, chunk, n)}
  BY DEF Copies
<1>5. ASSUME NEW pos PROVE part(pos) = UNION {rows(k, pos) : k \in 1 .. Len(spans)}
  <2> DEFINE m == len(pos)
  <2>1. Splices(spans, pos, m) = UNION {Splice(spans, k, pos, m) : k \in 1 .. Len(spans)}
    BY <1>1 DEF Splices
  <2> HIDE DEF m
  <2>2. {<<pos + s.dst, s.src>> : s \in UNION {Splice(spans, k, pos, m) : k \in 1 .. Len(spans)}}
          = UNION {{<<pos + s.dst, s.src>> : s \in Splice(spans, k, pos, m)} : k \in 1 .. Len(spans)}
    OBVIOUS
  <2>3. {<<pos + s.dst, s.src>> : s \in Splices(spans, pos, m)}
          = UNION {{<<pos + s.dst, s.src>> : s \in Splice(spans, k, pos, m)} : k \in 1 .. Len(spans)}
    BY <2>1, <2>2
  <2> QED BY <2>3 DEF m
<1>6. ASSUME NEW k \in 1 .. Len(spans), NEW i \in Nat, In(spans[k], i)
      PROVE  i < n /\ out[i + 1] = Pad /\ Row(spans, k, i) = <<i, Cardinality(PadsIn(out, i))>>
  BY <1>6, RankIs DEF Row, n
<1> HIDE DEF len, rows, part
<1>7. ASSUME NEW x \in Copies(spans, from, chunk, n) PROVE x \in want
  <2>1. PICK pos \in Starts(from, chunk, n) : x \in part(pos)
    BY <1>4
  <2>2. PICK k \in 1 .. Len(spans) : x \in rows(k, pos)
    BY <1>5, <2>1
  <2>3. PICK i \in pos .. pos + len(pos) - 1 : In(spans[k], i) /\ x = Row(spans, k, i)
    BY <1>3, <2>2
  <2>4. i \in Nat /\ i \in from .. n - 1
    BY <1>1, <1>2, <2>3
  <2>5. out[i + 1] = Pad /\ x = <<i, Cardinality(PadsIn(out, i))>>
    BY <1>6, <2>3, <2>4
  <2> QED BY <2>4, <2>5
<1>8. ASSUME NEW x \in want PROVE x \in Copies(spans, from, chunk, n)
  <2>1. PICK i \in from .. n - 1 : out[i + 1] = Pad /\ x = <<i, Cardinality(PadsIn(out, i))>>
    OBVIOUS
  <2>2. i \in Nat /\ i + 1 \in 1 .. n /\ (i + 1) - 1 = i /\ from \in Nat
    BY <1>1
  <2>3. PICK k \in 1 .. Len(spans) : In(spans[k], i)
    <3>1. \E k \in 1 .. Len(spans) : In(spans[k], (i + 1) - 1)
      BY <2>1, <2>2 DEF Laid, n
    <3> QED BY <2>2, <3>1
  <2>4. PICK pos \in Starts(from, chunk, n) : pos <= i /\ i < pos + len(pos)
    BY <1>1, <2>2, ChunkOf DEF len
  <2>5. i \in pos .. pos + len(pos) - 1
    BY <1>2, <2>2, <2>4
  <2>6. x = Row(spans, k, i)
    BY <1>6, <2>1, <2>2, <2>3
  <2>7. x \in rows(k, pos)
    BY <1>3, <2>3, <2>4, <2>5, <2>6
  <2>8. x \in part(pos)
    BY <1>5, <2>7
  <2> QED BY <1>4, <2>4, <2>8
<1>9. Copies(spans, from, chunk, n) = want
  BY <1>7, <1>8
<1> QED BY <1>9 DEF n

(* Every image token of a prompt gets its own embedding, once, wherever    *)
(* the prompt is cut (EmbeddingsInPlace).                                  *)
LEMMA EmbeddingsFor ==
  ASSUME asked \in ExpandQuestions
  PROVE  EmbeddingsInPlace
<1> DEFINE e == Expand(asked.ids, asked.images)
           out == e.out
           spans == e.spans
           n == Len(out)
<1>1. /\ asked.ids \in Seq(Vocabulary) /\ asked.images \in Seq(Images)
      /\ ~Mismatch(asked.ids, asked.images)
  BY DEF ExpandQuestions
<1>2. Laid(e.out, e.spans)
  <2>1. e = Expand(asked.ids, asked.images)
    OBVIOUS
  <2> HIDE DEF e
  <2> QED BY <1>1, <2>1, ExpandIs
<1> HIDE DEF e
<1>3. Laid(out, spans)
  BY <1>2
<1> HIDE DEF out, spans
<1>4. ASSUME NEW from \in 0 .. n - 1, NEW chunk \in Chunks
      PROVE  Copies(spans, from, chunk, n)
               = {<<i, Cardinality({j \in 1 .. i : out[j] = Pad})>> :
                    i \in {i \in from .. n - 1 : out[i + 1] = Pad}}
  <2>1. chunk \in Nat \ {0}
    BY MultiModalAssumption
  <2>2. Copies(spans, from, chunk, n)
          = {<<i, Cardinality(PadsIn(out, i))>> : i \in {i \in from .. n - 1 : out[i + 1] = Pad}}
    BY <1>3, <2>1, CopiesAre
  <2> QED BY <2>2 DEF PadsIn
<1> HIDE DEF n
<1> QED BY <1>4 DEF EmbeddingsInPlace, e, out, spans, n
-----------------------------------------------------------------------------
(* Sizes. Two sides whose squares are bounded against each other have an   *)
(* area that is bounded.                                                   *)
LEMMA MulMono ==
  ASSUME NEW a \in Nat, NEW b \in Nat, NEW c \in Nat, NEW d \in Nat, a <= b, c <= d
  PROVE  a * c <= b * d
<1>1. a * c <= b * c
  OBVIOUS
<1>2. b * c <= b * d
  OBVIOUS
<1>3. a * c \in Nat /\ b * c \in Nat /\ b * d \in Nat
  OBVIOUS
<1> QED BY <1>1, <1>2, <1>3

LEMMA MulLess ==
  ASSUME NEW a \in Nat, NEW b \in Nat, NEW c \in Nat \ {0}, a < b
  PROVE  a * c < b * c
<1>1. (a + 1) * c <= b * c
  BY MulMono
<1>2. (a + 1) * c = a * c + c
  OBVIOUS
<1>3. a * c \in Nat /\ b * c \in Nat
  OBVIOUS
<1> QED BY <1>1, <1>2, <1>3

\* Products of numbers with larger ones are larger: the contrapositives.
LEMMA CancelFactor ==
  ASSUME NEW a \in Nat, NEW b \in Nat, NEW c \in Nat \ {0}, a * c <= b * c
  PROVE  a <= b
<1>1. ASSUME b < a PROVE FALSE
  <2>1. b * c < a * c
    BY <1>1, MulLess
  <2>2. a * c \in Nat /\ b * c \in Nat
    OBVIOUS
  <2> QED BY <2>1, <2>2
<1> QED BY <1>1

(* Products of numbers with larger ones are larger; so squares tell.       *)
LEMMA SquareRoot ==
  ASSUME NEW a \in Nat, NEW b \in Nat, a * a <= b * b
  PROVE  a <= b
<1>1. ASSUME b < a PROVE FALSE
  <2>1. b * b <= b * a
    BY <1>1, MulMono
  <2>2. b * a < a * a
    <3>1. a \in Nat \ {0}
      BY <1>1
    <3> QED BY <1>1, <3>1, MulLess
  <2>3. a * a \in Nat /\ b * b \in Nat /\ b * a \in Nat
    OBVIOUS
  <2> QED BY <2>1, <2>2, <2>3
<1> QED BY <1>1

LEMMA Rearranged ==
  ASSUME NEW a \in Nat, NEW b \in Nat, NEW h \in Nat, NEW w \in Nat
  PROVE  (a * a * w) * (b * b * h) = ((a * b) * (a * b)) * (h * w)
OBVIOUS

(* With the squares of two sides, their area is bounded too.               *)
LEMMA AreaAtMost ==
  ASSUME NEW a \in Nat, NEW b \in Nat, NEW h \in Nat \ {0}, NEW w \in Nat \ {0}, NEW m \in Nat,
         a * a * w <= m * h, b * b * h <= m * w
  PROVE  a * b <= m
<1>1. a * a * w \in Nat /\ b * b * h \in Nat /\ m * h \in Nat /\ m * w \in Nat
  OBVIOUS
<1>2. (a * a * w) * (b * b * h) <= (m * h) * (m * w)
  BY <1>1, MulMono
<1>3. (m * h) * (m * w) = (m * m) * (h * w)
  OBVIOUS
<1>4. h * w \in Nat \ {0} /\ (a * b) * (a * b) \in Nat /\ m * m \in Nat /\ a * b \in Nat
  OBVIOUS
<1>5. ((a * b) * (a * b)) * (h * w) <= (m * m) * (h * w)
  <2>1. (a * a * w) * (b * b * h) = ((a * b) * (a * b)) * (h * w)
    BY Rearranged
  <2> QED BY <1>2, <1>3, <2>1
<1>6. (a * b) * (a * b) <= m * m
  BY <1>4, <1>5, CancelFactor
<1> QED BY <1>4, <1>6, SquareRoot

LEMMA AreaAtLeast ==
  ASSUME NEW a \in Nat, NEW b \in Nat, NEW h \in Nat \ {0}, NEW w \in Nat \ {0}, NEW m \in Nat,
         m * h <= a * a * w, m * w <= b * b * h
  PROVE  m <= a * b
<1>1. a * a * w \in Nat /\ b * b * h \in Nat /\ m * h \in Nat /\ m * w \in Nat
  OBVIOUS
<1>2. (m * h) * (m * w) <= (a * a * w) * (b * b * h)
  BY <1>1, MulMono
<1>3. (m * h) * (m * w) = (m * m) * (h * w)
  OBVIOUS
<1>4. h * w \in Nat \ {0} /\ (a * b) * (a * b) \in Nat /\ m * m \in Nat /\ a * b \in Nat
  OBVIOUS
<1>5. (m * m) * (h * w) <= ((a * b) * (a * b)) * (h * w)
  <2>1. (a * a * w) * (b * b * h) = ((a * b) * (a * b)) * (h * w)
    BY Rearranged
  <2> QED BY <1>2, <1>3, <2>1
<1>6. m * m <= (a * b) * (a * b)
  BY <1>4, <1>5, CancelFactor
<1> QED BY <1>4, <1>6, SquareRoot

(* Rounding is off by at most half of a factor.                            *)
LEMMA RoundToIs ==
  ASSUME NEW side \in Nat \ {0}
  PROVE  /\ \E q \in Nat : RoundTo(side) = Factor * q
         /\ RoundTo(side) \in Nat /\ RoundTo(side) <= Factor * side
<1> DEFINE f == Factor
           q == (2 * side + f) \div (2 * f)
           r == (2 * side + f) % (2 * f)
<1>1. f \in Nat /\ f >= 2
  BY MultiModalAssumption
<1> HIDE DEF f
<1>2. 2 * side + f \in Nat /\ 2 * f \in Nat \ {0}
  BY <1>1
<1>3. q \in Nat /\ r \in Nat /\ 2 * side + f = (2 * f) * q + r
  <2> DEFINE x == 2 * side + f
             y == 2 * f
  <2>1. x \in Nat /\ y \in Nat \ {0}
    BY <1>2
  <2> HIDE DEF x, y
  <2>2. x \div y \in Nat /\ x % y \in Nat /\ x = y * (x \div y) + (x % y)
    BY <2>1, DivMod
  <2> QED BY <2>2 DEF x, y
<1> HIDE DEF q, r
<1>4. RoundTo(side) = f * q
  <2>1. RoundTo(side) = q * f
    BY DEF RoundTo, q, f
  <2> QED BY <1>1, <1>3, <2>1
<1> DEFINE p == f * q
<1>5. p \in Nat /\ 2 * p <= 2 * side + f
  <2>1. f * q \in Nat /\ (2 * f) * q = 2 * (f * q)
    BY <1>1, <1>3
  <2> HIDE DEF p
  <2>2. p \in Nat /\ 2 * p + r = 2 * side + f
    BY <1>3, <2>1 DEF p
  <2> QED BY <1>1, <1>3, <2>2
<1>6. p <= f * side
  <2>1. (f - 2) * 1 <= (f - 2) * (2 * side - 1)
    BY <1>1
  <2>2. (f - 2) * (2 * side - 1) = 2 * (f * side) - f - 4 * side + 2
    BY <1>1
  <2>3. f * side \in Nat
    BY <1>1
  <2> DEFINE c == f * side
  <2>4. c \in Nat /\ f - 2 <= 2 * c - f - 4 * side + 2
    BY <1>1, <2>1, <2>2, <2>3
  <2> HIDE DEF c, p
  <2>5. p <= c
    BY <1>1, <1>5, <2>4
  <2> QED BY <2>5 DEF c
<1> QED BY <1>3, <1>4, <1>5, <1>6 DEF p, f
\* Multiples of the factor.
LEMMA MultipleIs ==
  ASSUME NEW k \in Nat
  PROVE  /\ Factor * k \in Nat /\ (Factor * k) % Factor = 0
         /\ k > 0 => Factor * k >= Factor /\ Max({Factor, Factor * k}) = Factor * k
<1>1. Factor \in Nat \ {0}
  BY MultiModalAssumption
<1>2. Factor * k \in Nat
  BY <1>1
<1>3. (Factor * k) % Factor = 0
  <2>1. 0 \in Nat /\ 0 < Factor
    BY <1>1
  <2>2. (Factor * k + 0) % Factor = 0
    BY <1>1, <2>1, DivUnique
  <2>3. Factor * k + 0 = Factor * k
    BY <1>2
  <2> QED BY <2>2, <2>3
<1>4. ASSUME k > 0 PROVE Factor * k >= Factor /\ Max({Factor, Factor * k}) = Factor * k
  <2> DEFINE p == Factor * k
  <2>1. Factor * 1 <= Factor * k
    BY <1>1, <1>4
  <2>2. p \in Nat /\ Factor <= p
    BY <1>1, <1>2, <2>1
  <2> HIDE DEF p
  <2>3. Max({Factor, p}) = p
    <3>1. Max({Factor, p}) = IF Factor <= p THEN p ELSE Factor
      BY <1>1, <2>2, Max2
    <3> QED BY <2>2, <3>1
  <2> QED BY <1>1, <2>2, <2>3 DEF p
<1> QED BY <1>2, <1>3, <1>4

\* Sides of an image that is not refused.
Sides(h, w) == h \in Nat \ {0} /\ w \in Nat \ {0} /\ h <= Aspect * w /\ w <= Aspect * h

LEMMA PartIs ==
  ASSUME NEW k \in Nat, NEW w \in Nat
  PROVE  Part(k, w) = (Factor * k) * (Factor * k) * w /\ Part(k, w) \in Nat
<1> DEFINE f == Factor
<1>1. f \in Nat
  BY MultiModalAssumption
<1> HIDE DEF f
<1>2. k * f = f * k /\ f * k \in Nat
  BY <1>1
<1>3. Part(k, w) = (f * k) * (f * k) * w
  BY <1>2 DEF Part, f
<1>4. (f * k) * (f * k) * w \in Nat
  BY <1>2
<1> QED BY <1>3, <1>4 DEF f

(* The sides that smart_resize looks for are there, and are bounded.       *)
LEMMA ShrinkIs ==
  ASSUME NEW h, NEW w, Sides(h, w)
  PROVE  \E k \in 1 .. h :
           /\ Shrink(h, w) = Factor * k
           /\ (Factor * k) * (Factor * k) * w <= MaxPixels * h
           /\ k < h => MaxPixels * h <= (Factor * (k + 1)) * (Factor * (k + 1)) * w
<1> DEFINE f == Factor
           M == MaxPixels
           S == {k \in 0 .. h : Part(k, w) <= M * h}
<1>1. f \in Nat \ {0} /\ M \in Nat /\ Aspect \in Nat \ {0} /\ Aspect * f * f <= M
  BY MultiModalAssumption
<1>2. h \in Nat \ {0} /\ w \in Nat \ {0} /\ w <= Aspect * h
  BY DEF Sides
<1>3. \A k \in Nat : Part(k, w) = (f * k) * (f * k) * w /\ Part(k, w) \in Nat
  BY <1>2, PartIs
<1>4. Shrink(h, w) = f * Max(S)
  BY DEF Shrink
<1> HIDE DEF f, M
<1>5. 1 \in S
  <2>1. Part(1, w) = f * f * w
    <3>1. f * 1 = f
      BY <1>1
    <3> QED BY <1>3, <3>1
  <2>2. f * f * w <= M * h
    <3> DEFINE c == f * f
               d == Aspect * h
    <3>1. c \in Nat /\ d \in Nat
      BY <1>1, <1>2
    <3>2. c * w <= c * d
      <4> HIDE DEF c, d
      <4>1. c <= c /\ w <= d
        BY <1>2, <3>1 DEF d
      <4> QED BY <1>2, <3>1, <4>1, MulMono
    <3>3. c * d = (Aspect * f * f) * h
      BY <1>1, <1>2
    <3>4. (Aspect * f * f) * h <= M * h
      <4> DEFINE x == Aspect * f * f
      <4>1. x \in Nat /\ x <= M
        BY <1>1
      <4> HIDE DEF x
      <4>2. x * h <= M * h
        BY <1>1, <1>2, <4>1, MulMono
      <4> QED BY <4>2 DEF x
    <3>5. c * w \in Nat /\ c * d \in Nat /\ M * h \in Nat
      BY <1>1, <1>2
    <3>6. c * w <= M * h
      <4> HIDE DEF c, d
      <4> QED BY <3>2, <3>3, <3>4, <3>5
    <3> QED BY <3>6
  <2>3. 1 \in 0 .. h
    BY <1>2
  <2> QED BY <2>1, <2>2, <2>3
<1> DEFINE m == Max(S)
<1>6. m \in S /\ \A k \in S : k <= m
  <2>1. h \in Nat /\ S \subseteq 0 .. h /\ S # {}
    BY <1>2, <1>5
  <2> HIDE DEF S
  <2> QED BY <2>1, GreatestIn
<1>7. m \in 1 .. h /\ m \in Nat /\ Part(m, w) <= M * h
  <2> HIDE DEF m
  <2>1. m \in 0 .. h /\ Part(m, w) <= M * h /\ 1 <= m
    BY <1>5, <1>6
  <2> QED BY <1>2, <2>1
<1>8. m < h => M * h <= Part(m + 1, w)
  <2> SUFFICES ASSUME m < h PROVE M * h <= Part(m + 1, w)
    OBVIOUS
  <2>1. m + 1 \in 0 .. h /\ m + 1 \in Nat /\ ~ (m + 1 <= m)
    <3> HIDE DEF m
    <3> QED BY <1>2, <1>7
  <2>2. m + 1 \notin S
    <3> HIDE DEF m, S
    <3> QED BY <1>6, <2>1
  <2>3. ~ (Part(m + 1, w) <= M * h) /\ Part(m + 1, w) \in Nat /\ M * h \in Nat
    <3> HIDE DEF m
    <3> QED BY <1>1, <1>2, <1>3, <2>1, <2>2
  <2> HIDE DEF m
  <2> QED BY <2>3
<1> HIDE DEF m, S
<1>9. m + 1 \in Nat
  BY <1>7
<1>10. Shrink(h, w) = f * m
  BY <1>4 DEF m
<1> QED BY <1>3, <1>7, <1>8, <1>9, <1>10 DEF f, M

LEMMA GrowIs ==
  ASSUME NEW h, NEW w, Sides(h, w)
  PROVE  \E k \in Nat \ {0} :
           /\ Grow(h, w) = Factor * k
           /\ MinPixels * h <= (Factor * k) * (Factor * k) * w
           /\ (Factor * (k - 1)) * (Factor * (k - 1)) * w < MinPixels * h
<1> DEFINE f == Factor
           M == MinPixels
           S == {k \in 0 .. M : Part(k, w) >= M * h}
<1>1. f \in Nat \ {0} /\ M \in Nat \ {0} /\ Aspect \in Nat \ {0} /\ Aspect <= M
  BY MultiModalAssumption
<1>2. h \in Nat \ {0} /\ w \in Nat \ {0} /\ h <= Aspect * w
  BY DEF Sides
<1>3. \A k \in Nat : Part(k, w) = (f * k) * (f * k) * w /\ Part(k, w) \in Nat
  BY <1>2, PartIs
<1>4. Grow(h, w) = f * Min(S)
  BY DEF Grow
<1> HIDE DEF f, M
<1>5. M \in S
  <2>1. h <= M * w
    <3>1. Aspect * w <= M * w
      BY <1>1, <1>2, MulMono
    <3>2. Aspect * w \in Nat /\ M * w \in Nat
      BY <1>1, <1>2
    <3> QED BY <1>2, <3>1, <3>2
  <2> DEFINE x == M * w
             y == M * x
             ff == f * f
  <2>2. x \in Nat /\ y \in Nat /\ ff \in Nat \ {0}
    BY <1>1, <1>2
  <2>3. M * h <= y
    <3>1. h <= x
      BY <2>1
    <3> HIDE DEF x
    <3> QED BY <1>1, <1>2, <2>2, <3>1, MulMono
  <2>4. y <= ff * y
    <3> HIDE DEF y, ff
    <3>1. 1 * y <= ff * y
      BY <2>2, MulMono
    <3> QED BY <2>2, <3>1
  <2>5. (f * M) * (f * M) * w = ff * y
    BY <1>1, <1>2
  <2>6. Part(M, w) = ff * y
    BY <1>1, <1>3, <2>5
  <2>7. ff * y \in Nat /\ M * h \in Nat /\ M * h <= ff * y
    <3>1. M * h \in Nat
      BY <1>1, <1>2
    <3> HIDE DEF ff, y
    <3>2. ff * y \in Nat
      BY <2>2
    <3> QED BY <2>2, <2>3, <2>4, <3>1, <3>2
  <2>8. M \in 0 .. M
    BY <1>1
  <2> HIDE DEF ff, y
  <2> QED BY <2>6, <2>7, <2>8
<1> DEFINE m == Min(S)
<1>6. m \in S /\ \A k \in S : m <= k
  <2>1. S \subseteq Nat /\ S # {}
    BY <1>5
  <2> HIDE DEF S
  <2> QED BY <2>1, LeastIn
<1>7. m \in 0 .. M /\ m \in Nat /\ M * h <= Part(m, w)
  <2> HIDE DEF m
  <2>1. m \in 0 .. M /\ Part(m, w) >= M * h
    BY <1>6
  <2> QED BY <2>1
<1>8. m # 0
  <2> SUFFICES ASSUME m = 0 PROVE FALSE
    OBVIOUS
  <2>1. Part(0, w) = (f * 0) * (f * 0) * w
    BY <1>3
  <2>2. (f * 0) * (f * 0) * w = 0
    BY <1>1, <1>2
  <2>3. M * h \in Nat \ {0} /\ M * h <= 0
    <3> HIDE DEF m
    <3>1. M * h <= 0
      BY <1>7, <2>1, <2>2
    <3>2. M * h \in Nat \ {0}
      BY <1>1, <1>2
    <3> QED BY <3>1, <3>2
  <2> QED BY <2>3
<1> HIDE DEF m
<1>9. Part(m - 1, w) < M * h
  <2>1. m - 1 \in Nat /\ m - 1 \in 0 .. M /\ ~ (m <= m - 1)
    BY <1>1, <1>7, <1>8
  <2>2. m - 1 \notin S
    <3> HIDE DEF S
    <3> QED BY <1>6, <2>1
  <2>3. ~ (Part(m - 1, w) >= M * h) /\ Part(m - 1, w) \in Nat /\ M * h \in Nat
    BY <1>1, <1>2, <1>3, <2>1, <2>2
  <2> QED BY <2>3
<1>10. m \in Nat \ {0} /\ m - 1 \in Nat /\ Grow(h, w) = f * m
  BY <1>4, <1>7, <1>8 DEF m
<1> HIDE DEF S
<1> QED BY <1>3, <1>7, <1>9, <1>10 DEF f, M
\* What is within the bounds of an area.
Fits(a, b) == MinPixels <= a * b /\ a * b <= MaxPixels

(* A shrunk image fits if both sides are rounded down, and neither is      *)
(* flat.                                                                   *)
LEMMA ShrunkFits ==
  ASSUME NEW h, NEW w, Sides(h, w), RoundTo(h) * RoundTo(w) > MaxPixels
  PROVE  \E k, l \in Nat \ {0} :
           Shrink(h, w) = Factor * k /\ Shrink(w, h) = Factor * l /\ Fits(Factor * k, Factor * l)
<1> DEFINE f == Factor
           M == MaxPixels
<1>1. f \in Nat \ {0} /\ M \in Nat /\ MinPixels \in Nat /\ 4 * MinPixels <= M
  BY MultiModalAssumption
<1>2. h \in Nat \ {0} /\ w \in Nat \ {0} /\ Sides(w, h)
  BY DEF Sides
<1>3. PICK k \in 1 .. h :
        /\ Shrink(h, w) = f * k /\ (f * k) * (f * k) * w <= M * h
        /\ k < h => M * h <= (f * (k + 1)) * (f * (k + 1)) * w
  BY ShrinkIs
<1>4. PICK l \in 1 .. w :
        /\ Shrink(w, h) = f * l /\ (f * l) * (f * l) * h <= M * w
        /\ l < w => M * w <= (f * (l + 1)) * (f * (l + 1)) * h
  BY <1>2, ShrinkIs
<1>5. /\ RoundTo(h) \in Nat /\ RoundTo(h) <= f * h
      /\ RoundTo(w) \in Nat /\ RoundTo(w) <= f * w
  BY <1>2, RoundToIs
<1> HIDE DEF f, M
<1>6. k \in Nat \ {0} /\ l \in Nat \ {0} /\ f * k \in Nat /\ f * l \in Nat /\ f * h \in Nat /\ f * w \in Nat
  BY <1>1, <1>2, <1>3, <1>4
<1>7. (f * k) * (f * l) <= M
  BY <1>1, <1>2, <1>3, <1>4, <1>6, AreaAtMost
\* A side that is not scaled down leaves no room for an area that is too large.
<1>8. (f * h) * (f * w) > M
  <2> DEFINE a == RoundTo(h)
             b == RoundTo(w)
             c == f * h
             d == f * w
  <2>1. a \in Nat /\ b \in Nat /\ c \in Nat /\ d \in Nat /\ a <= c /\ b <= d /\ a * b > M
    BY <1>5, <1>6 DEF M
  <2> HIDE DEF a, b, c, d
  <2>2. a * b <= c * d /\ a * b \in Nat /\ c * d \in Nat
    BY <2>1, MulMono
  <2>3. c * d > M
    BY <1>1, <2>1, <2>2
  <2> QED BY <2>3 DEF c, d
<1>9. k < h
  <2> SUFFICES ASSUME k = h PROVE FALSE
    BY <1>2, <1>6, <1>3
  <2> DEFINE c == (f * h) * (f * w)
  <2>1. (f * h) * (f * h) * w <= M * h
    BY <1>3
  <2>2. (f * h) * (f * h) * w = c * h /\ c \in Nat
    BY <1>1, <1>2
  <2> HIDE DEF c
  <2>3. c * h <= M * h
    BY <2>1, <2>2
  <2>4. c <= M
    BY <1>1, <1>2, <2>2, <2>3, CancelFactor
  <2>5. c > M
    BY <1>8 DEF c
  <2> QED BY <1>1, <2>2, <2>4, <2>5
<1>10. l < w
  <2> SUFFICES ASSUME l = w PROVE FALSE
    BY <1>2, <1>6, <1>4
  <2> DEFINE c == (f * h) * (f * w)
  <2>1. (f * w) * (f * w) * h <= M * w
    BY <1>4
  <2>2. (f * w) * (f * w) * h = c * w /\ c \in Nat
    BY <1>1, <1>2
  <2> HIDE DEF c
  <2>3. c * w <= M * w
    BY <2>1, <2>2
  <2>4. c <= M
    BY <1>1, <1>2, <2>2, <2>3, CancelFactor
  <2>5. c > M
    BY <1>8 DEF c
  <2> QED BY <1>1, <2>2, <2>4, <2>5
<1>11. M <= (f * (k + 1)) * (f * (l + 1))
  <2> DEFINE a == f * (k + 1)
             b == f * (l + 1)
  <2>1. a \in Nat /\ b \in Nat
    BY <1>1, <1>6
  <2>2. M * h <= a * a * w /\ M * w <= b * b * h
    BY <1>3, <1>4, <1>9, <1>10
  <2> HIDE DEF a, b
  <2>3. M <= a * b
    BY <1>1, <1>2, <2>1, <2>2, AreaAtLeast
  <2> QED BY <2>3 DEF a, b
<1>12. (f * (k + 1)) * (f * (l + 1)) <= 4 * ((f * k) * (f * l))
  <2>1. (k + 1) * (l + 1) <= (2 * k) * (2 * l)
    <3> DEFINE a == k + 1
               b == l + 1
               c == 2 * k
               d == 2 * l
    <3>1. a \in Nat /\ b \in Nat /\ c \in Nat /\ d \in Nat /\ a <= c /\ b <= d
      BY <1>6
    <3> HIDE DEF a, b, c, d
    <3>2. a * b <= c * d
      BY <3>1, MulMono
    <3> QED BY <3>2 DEF a, b, c, d
  <2> DEFINE p == (k + 1) * (l + 1)
             q == (2 * k) * (2 * l)
             ff == f * f
  <2>2. p \in Nat /\ q \in Nat /\ ff \in Nat /\ p <= q
    BY <1>1, <1>6, <2>1
  <2>3. (f * (k + 1)) * (f * (l + 1)) = ff * p
    BY <1>1, <1>6
  <2>4. 4 * ((f * k) * (f * l)) = ff * q
    BY <1>1, <1>6
  <2> HIDE DEF p, q, ff
  <2>5. ff * p <= ff * q
    BY <2>2, MulMono
  <2> QED BY <2>3, <2>4, <2>5
<1>13. MinPixels <= (f * k) * (f * l)
  <2> DEFINE a == (f * (k + 1)) * (f * (l + 1))
             c == (f * k) * (f * l)
  <2>1. a \in Nat /\ c \in Nat
    BY <1>1, <1>6
  <2>2. M <= a /\ a <= 4 * c
    BY <1>11, <1>12
  <2> HIDE DEF a, c
  <2>3. MinPixels <= c
    BY <1>1, <2>1, <2>2
  <2> QED BY <2>3 DEF c
<1>14. Shrink(h, w) = f * k /\ Shrink(w, h) = f * l
  BY <1>3, <1>4
<1> QED BY <1>6, <1>7, <1>13, <1>14 DEF Fits, f, M

\* An image that is one factor high grows no wider than the aspect allows.
LEMMA FlatFits ==
  ASSUME NEW h \in Nat \ {0}, NEW w \in Nat \ {0}, w <= Aspect * h, NEW l \in Nat \ {0},
         (Factor * (l - 1)) * (Factor * (l - 1)) * h < MinPixels * w
  PROVE  Factor * (Factor * l) <= MaxPixels
<1> DEFINE f == Factor
           m == MinPixels
           M == MaxPixels
           Area == Aspect
<1>1. /\ f \in Nat \ {0} /\ M \in Nat /\ m \in Nat /\ Area \in Nat \ {0}
      /\ 4 * m <= M /\ Area * f * f <= M
  BY MultiModalAssumption
<1>2. w <= Area * h /\ (f * (l - 1)) * (f * (l - 1)) * h < m * w
  OBVIOUS
<1> HIDE DEF f, m, M, Area
<1>3. CASE l = 1
  <2>1. f * (f * l) = 1 * (f * f) /\ f * f \in Nat
    BY <1>1, <1>3
  <2> DEFINE ff == f * f
  <2>2. ff \in Nat /\ Area * f * f = Area * ff
    BY <1>1
  <2> HIDE DEF ff
  <2>3. 1 * ff <= Area * ff /\ Area * ff <= M /\ 1 * ff \in Nat /\ Area * ff \in Nat
    BY <1>1, <2>2, MulMono
  <2>4. 1 * ff <= M
    BY <1>1, <2>3
  <2> QED BY <2>1, <2>4 DEF f, M, ff
<1>4. CASE l # 1
  <2> DEFINE b == f * (l - 1)
  <2>1. l - 1 \in Nat \ {0} /\ b \in Nat
    BY <1>1, <1>4
  <2>2. b * b * h < m * w
    BY <1>2
  <2>3. l <= 2 * (l - 1) /\ 2 * (l - 1) \in Nat
    BY <1>4
  <2>4. f * (f * l) <= 2 * f * b
    <3> DEFINE c == 2 * (l - 1)
               ff == f * f
    <3>1. l <= c /\ c \in Nat /\ ff \in Nat
      BY <1>1, <2>3
    <3>2. f * (f * l) = ff * l /\ 2 * f * b = ff * c
      BY <1>1, <2>1
    <3> HIDE DEF c, ff, b
    <3>3. ff * l <= ff * c
      BY <3>1, MulMono
    <3> QED BY <3>2, <3>3
  <2> HIDE DEF b
  <2>5. b * b <= m * Area
    <3>1. m * w <= m * (Area * h)
      <4> DEFINE x == Area * h
      <4>1. x \in Nat /\ w <= x
        BY <1>1, <1>2
      <4> HIDE DEF x
      <4>2. m * w <= m * x
        BY <1>1, <4>1, MulMono
      <4> QED BY <4>2 DEF x
    <3>2. m * (Area * h) = (m * Area) * h /\ m * w \in Nat /\ (m * Area) * h \in Nat /\ b * b * h \in Nat
      BY <1>1, <2>1
    <3> DEFINE x == b * b
               y == m * Area
    <3>3. x \in Nat /\ y \in Nat
      BY <1>1, <2>1
    <3>4. x * h <= y * h
      <4>1. x * h < m * w /\ m * w <= y * h /\ m * w \in Nat /\ y * h \in Nat /\ x * h \in Nat
        BY <2>2, <3>1, <3>2
      <4> HIDE DEF x, y
      <4> QED BY <4>1
    <3> HIDE DEF x, y
    <3>5. x <= y
      BY <3>3, <3>4, CancelFactor
    <3> QED BY <3>5 DEF x, y
  <2>6. (2 * f * b) * (2 * f * b) <= M * M
    <3> DEFINE x == b * b
               y == m * Area
               c == 4 * f * f
               p == 4 * m
               q == Area * f * f
    <3>1. x \in Nat /\ y \in Nat /\ c \in Nat /\ p \in Nat /\ q \in Nat /\ x <= y /\ p <= M /\ q <= M
      BY <1>1, <2>1, <2>5
    <3>2. (2 * f * b) * (2 * f * b) = c * x
      BY <1>1, <2>1
    <3>3. c * y = p * q
      BY <1>1
    <3> HIDE DEF x, y, c, p, q
    <3>4. c * x <= c * y
      BY <3>1, MulMono
    <3>5. p * q <= M * M
      BY <1>1, <3>1, MulMono
    <3>6. c * x \in Nat /\ c * y \in Nat /\ M * M \in Nat
      BY <1>1, <3>1
    <3> QED BY <3>2, <3>3, <3>4, <3>5, <3>6
  <2>7. 2 * f * b \in Nat /\ f * (f * l) \in Nat
    BY <1>1, <2>1
  <2>8. 2 * f * b <= M
    <3> DEFINE x == 2 * f * b
    <3>1. x \in Nat /\ x * x <= M * M
      BY <2>6, <2>7
    <3> HIDE DEF x
    <3>2. x <= M
      BY <1>1, <3>1, SquareRoot
    <3> QED BY <3>2 DEF x
  <2>9. f * (f * l) <= M
    <3> DEFINE x == 2 * f * b
               y == f * (f * l)
    <3>1. x \in Nat /\ y \in Nat /\ x <= M /\ y <= x
      BY <2>4, <2>7, <2>8
    <3> HIDE DEF x, y
    <3>2. y <= M
      BY <1>1, <3>1
    <3> QED BY <3>2 DEF y
  <2> QED BY <2>9 DEF f, M
<1> QED BY <1>3, <1>4

(* A grown image fits: rounding up adds less than the bounds are apart.    *)
LEMMA GrownFits ==
  ASSUME NEW h, NEW w, Sides(h, w)
  PROVE  \E k, l \in Nat \ {0} :
           Grow(h, w) = Factor * k /\ Grow(w, h) = Factor * l /\ Fits(Factor * k, Factor * l)
<1> DEFINE f == Factor
           m == MinPixels
           M == MaxPixels
<1>1. f \in Nat \ {0} /\ M \in Nat /\ m \in Nat /\ 4 * m <= M
  BY MultiModalAssumption
<1>2. h \in Nat \ {0} /\ w \in Nat \ {0} /\ Sides(w, h) /\ h <= Aspect * w /\ w <= Aspect * h
  BY DEF Sides
<1>3. PICK k \in Nat \ {0} :
        /\ Grow(h, w) = f * k /\ m * h <= (f * k) * (f * k) * w
        /\ (f * (k - 1)) * (f * (k - 1)) * w < m * h
  BY GrowIs
<1>4. PICK l \in Nat \ {0} :
        /\ Grow(w, h) = f * l /\ m * w <= (f * l) * (f * l) * h
        /\ (f * (l - 1)) * (f * (l - 1)) * h < m * w
  BY <1>2, GrowIs
<1>5. k = 1 => f * (f * l) <= M
  BY <1>2, <1>4, FlatFits
<1>6. l = 1 => f * (f * k) <= M
  BY <1>2, <1>3, FlatFits
<1> HIDE DEF f, m, M
<1>7. f * k \in Nat /\ f * l \in Nat /\ f * (k - 1) \in Nat /\ f * (l - 1) \in Nat
  BY <1>1
<1>8. m <= (f * k) * (f * l)
  BY <1>1, <1>2, <1>3, <1>4, <1>7, AreaAtLeast
<1>9. (f * k) * (f * l) <= M
  <2>1. CASE k = 1
    <3>1. (f * k) * (f * l) = f * (f * l)
      BY <1>1, <2>1
    <3> QED BY <1>5, <2>1, <3>1
  <2>2. CASE l = 1
    <3>1. (f * k) * (f * l) = f * (f * k)
      BY <1>1, <2>2
    <3> QED BY <1>6, <2>2, <3>1
  <2>3. CASE k # 1 /\ l # 1
    <3> DEFINE a == f * (k - 1)
               b == f * (l - 1)
    <3>1. a * a * w <= m * h /\ b * b * h <= m * w
      <4>1. a * a * w < m * h /\ b * b * h < m * w
        BY <1>3, <1>4
      <4>2. a \in Nat /\ b \in Nat
        BY <1>7
      <4> HIDE DEF a, b
      <4>3. a * a * w \in Nat /\ b * b * h \in Nat /\ m * h \in Nat /\ m * w \in Nat
        BY <1>1, <1>2, <4>2
      <4> QED BY <4>1, <4>3
    <3>2. a * b <= m
      <4> HIDE DEF a, b
      <4> QED BY <1>1, <1>2, <1>7, <3>1, AreaAtMost DEF a, b
    <3>3. k * l <= (2 * (k - 1)) * (2 * (l - 1))
      <4> DEFINE c == 2 * (k - 1)
                 d == 2 * (l - 1)
      <4>1. c \in Nat /\ d \in Nat /\ k <= c /\ l <= d
        BY <2>3
      <4> HIDE DEF c, d
      <4>2. k * l <= c * d
        BY <4>1, MulMono
      <4> QED BY <4>2 DEF c, d
    <3> DEFINE p == k * l
               q == (2 * (k - 1)) * (2 * (l - 1))
               ff == f * f
    <3>4. p \in Nat /\ q \in Nat /\ ff \in Nat /\ p <= q
      <4>1. k - 1 \in Nat /\ l - 1 \in Nat
        OBVIOUS
      <4> QED BY <1>1, <3>3, <4>1
    <3>5. (f * k) * (f * l) = ff * p /\ 4 * (a * b) = ff * q
      BY <1>1
    <3> HIDE DEF p, q, ff
    <3>6. ff * p <= ff * q
      BY <3>4, MulMono
    <3> DEFINE x == a * b
               y == (f * k) * (f * l)
    <3>7. x \in Nat /\ y \in Nat /\ y <= 4 * x /\ x <= m
      BY <1>7, <3>2, <3>5, <3>6
    <3> HIDE DEF x, y
    <3>8. y <= M
      BY <1>1, <3>7
    <3> QED BY <3>8 DEF y
  <2> QED BY <2>1, <2>2, <2>3
<1>10. Grow(h, w) = f * k /\ Grow(w, h) = f * l
  BY <1>3, <1>4
<1> QED BY <1>8, <1>9, <1>10 DEF Fits, f, m, M

ResizeQuestions ==
  {q \in [op : {"resize"}, h : Nat \ {0}, w : Nat \ {0}] : q.h <= Aspect * q.w /\ q.w <= Aspect * q.h}

(* All cases.                                                              *)
LEMMA ResizeIs ==
  ASSUME NEW h, NEW w, Sides(h, w)
  PROVE  \E k, l \in Nat \ {0} : /\ SmartResize(h, w) = [h |-> Factor * k, w |-> Factor * l]
                                 /\ Fits(Factor * k, Factor * l)
<1> DEFINE f == Factor
           M == MaxPixels
           m == MinPixels
           area == RoundTo(h) * RoundTo(w)
           scaled(s, o) == IF area > M THEN Shrink(s, o) ELSE IF area < m THEN Grow(s, o) ELSE RoundTo(s)
<1>1. f \in Nat \ {0} /\ M \in Nat /\ m \in Nat \ {0} /\ 4 * m <= M
  BY MultiModalAssumption
<1>2. h \in Nat \ {0} /\ w \in Nat \ {0}
  BY DEF Sides
<1>3. SmartResize(h, w) = [h |-> Max({f, scaled(h, w)}), w |-> Max({f, scaled(w, h)})]
  BY DEF SmartResize
<1>4. \E k, l \in Nat \ {0} : scaled(h, w) = f * k /\ scaled(w, h) = f * l /\ Fits(f * k, f * l)
  <2>1. CASE area > M
    <3>1. scaled(h, w) = Shrink(h, w) /\ scaled(w, h) = Shrink(w, h)
      BY <2>1
    <3> QED BY <2>1, <3>1, ShrunkFits
  <2>2. CASE ~ (area > M) /\ area < m
    <3>1. scaled(h, w) = Grow(h, w) /\ scaled(w, h) = Grow(w, h)
      BY <2>2
    <3> QED BY <3>1, GrownFits
  <2>3. CASE ~ (area > M) /\ ~ (area < m)
    <3>1. scaled(h, w) = RoundTo(h) /\ scaled(w, h) = RoundTo(w)
      BY <2>3
    <3>2. PICK k \in Nat : RoundTo(h) = f * k
      BY <1>2, RoundToIs
    <3>3. PICK l \in Nat : RoundTo(w) = f * l
      BY <1>2, RoundToIs
    <3> DEFINE x == (f * k) * (f * l)
    <3>4. area = x /\ x \in Nat
      BY <1>1, <3>2, <3>3
    <3>5. m <= x /\ x <= M
      <4> HIDE DEF x, area, f, M, m, scaled
      <4> QED BY <1>1, <2>3, <3>4
    <3>6. k # 0 /\ l # 0
      <4>1. k = 0 => x = 0
        BY <1>1
      <4>2. l = 0 => x = 0
        BY <1>1
      <4> HIDE DEF x, m
      <4> QED BY <1>1, <3>5, <4>1, <4>2
    <3>7. Fits(f * k, f * l)
      BY <3>5 DEF Fits
    <3> HIDE DEF f, scaled
    <3> QED BY <3>1, <3>2, <3>3, <3>6, <3>7
  <2> QED BY <2>1, <2>2, <2>3
<1> HIDE DEF scaled
<1>5. PICK k, l \in Nat \ {0} : scaled(h, w) = f * k /\ scaled(w, h) = f * l /\ Fits(f * k, f * l)
  BY <1>4
<1>6. Max({f, f * k}) = f * k /\ Max({f, f * l}) = f * l
  <2>1. k \in Nat /\ l \in Nat /\ k > 0 /\ l > 0
    OBVIOUS
  <2> QED BY <2>1, MultipleIs
<1>7. SmartResize(h, w) = [h |-> f * k, w |-> f * l]
  BY <1>3, <1>5, <1>6
<1> QED BY <1>5, <1>7
LEMMA ResizeFor ==
  ASSUME asked \in ResizeQuestions
  PROVE  ImagesFitTokens
<1> DEFINE h == asked.h
           w == asked.w
           r == SmartResize(h, w)
<1>1. Sides(h, w)
  BY DEF ResizeQuestions, Sides
<1>2. Is("resize") /\ ~Is("patches")
  BY DEF ResizeQuestions, Is
<1> HIDE DEF h, w
<1>3. PICK k, l \in Nat \ {0} : r = [h |-> Factor * k, w |-> Factor * l] /\ Fits(Factor * k, Factor * l)
  BY <1>1, ResizeIs
<1>4. /\ r.h = Factor * k /\ r.w = Factor * l
  BY <1>3
<1> DEFINE a == Factor * k
           b == Factor * l
<1>5. /\ a \in Nat /\ b \in Nat /\ a % Factor = 0 /\ b % Factor = 0
      /\ a >= Factor /\ b >= Factor
  <2>1. k \in Nat /\ l \in Nat /\ k > 0 /\ l > 0
    OBVIOUS
  <2> QED BY <2>1, MultipleIs
<1>6. MinPixels <= a * b /\ a * b <= MaxPixels
  BY <1>3 DEF Fits
<1>7. a > 0 /\ b > 0
  <2>1. Factor \in Nat /\ Factor >= 2
    BY MultiModalAssumption
  <2> HIDE DEF a, b
  <2> QED BY <1>5, <2>1
<1>8. r.h = a /\ r.w = b
  BY <1>4
<1> HIDE DEF a, b, r
<1>9. /\ r.h > 0 /\ r.w > 0 /\ r.h % Factor = 0 /\ r.w % Factor = 0
      /\ MinPixels <= r.h * r.w /\ r.h * r.w <= MaxPixels
  BY <1>5, <1>6, <1>7, <1>8
<1> QED BY <1>2, <1>9 DEF ImagesFitTokens, h, w, r

-----------------------------------------------------------------------------
(* Patches.                                                                *)
LEMMA NestedDiv ==
  ASSUME NEW p \in Nat, NEW a \in Nat \ {0}, NEW b \in Nat \ {0}
  PROVE  p \div (a * b) = (p \div a) \div b
<1> DEFINE q == p \div a
           s == p % a
           t == q \div b
           v == q % b
           c == a * b
           r == a * v + s
<1>1. q \in Nat /\ s \in Nat /\ s < a /\ p = a * q + s
  BY DivMod
<1> HIDE DEF q, s
<1>2. t \in Nat /\ v \in Nat /\ v < b /\ q = b * t + v
  BY <1>1, DivMod
<1> HIDE DEF t, v
<1>3. c \in Nat \ {0} /\ r \in Nat
  BY <1>1, <1>2
<1>4. p = c * t + r
  <2>1. a * (b * t + v) + s = c * t + r
    BY <1>1, <1>2
  <2> QED BY <1>1, <1>2, <2>1
<1>5. r < c
  <2>1. a * (v + 1) <= a * b
    <3>1. v + 1 \in Nat /\ v + 1 <= b
      BY <1>2
    <3> QED BY <3>1, MulMono
  <2>2. a * (v + 1) = a * v + a /\ a * v \in Nat
    BY <1>2
  <2> DEFINE d == a * v
  <2>3. d \in Nat /\ d + a <= c /\ r = d + s
    BY <2>1, <2>2
  <2> HIDE DEF d, c, r
  <2> QED BY <1>1, <1>3, <2>3
<1> HIDE DEF c, r
<1>6. p \div c = t
  BY <1>2, <1>3, <1>4, <1>5, DivUnique
<1> QED BY <1>6 DEF c, t, q

(* Patch p is patch (r, c) of the block in row y and column x: the block   *)
(* of the token that it is merged into.                                    *)
LEMMA PatchIs ==
  ASSUME NEW m \in Nat \ {0}, NEW w \in Nat \ {0}, NEW p \in Nat
  PROVE  LET j == p \div (m * m)
             r == (p \div m) % m
             c == p % m
             at == PatchAt(p, m, w * m)
         IN /\ j \in Nat /\ r \in Nat /\ r < m /\ c \in Nat /\ c < m
            /\ p = m * (m * j + r) + c
            /\ at = [row |-> (j \div w) * m + r, col |-> (j % w) * m + c]
<1> DEFINE u == p \div m
           j == p \div (m * m)
           r == u % m
           c == p % m
<1>1. u \in Nat /\ c \in Nat /\ c < m /\ p = m * u + c
  BY DivMod
<1>2. j = u \div m
  BY NestedDiv
<1>3. r \in Nat /\ r < m /\ u \div m \in Nat /\ u = m * (u \div m) + r
  <2> HIDE DEF u
  <2> QED BY <1>1, DivMod
<1>4. j \in Nat /\ p = m * (m * j + r) + c
  <2> HIDE DEF u, j, r, c
  <2> QED BY <1>1, <1>2, <1>3
<1>5. (w * m) \div m = w
  <2>1. 0 \in Nat /\ 0 < m
    OBVIOUS
  <2>2. (m * w + 0) \div m = w
    BY <2>1, DivUnique
  <2>3. m * w + 0 = w * m
    OBVIOUS
  <2> QED BY <2>2, <2>3
<1>6. p \div (m * m * w) = j \div w
  <2> DEFINE a == m * m
  <2>1. a \in Nat \ {0} /\ m * m * w = a * w
    OBVIOUS
  <2> HIDE DEF a
  <2>2. p \div (a * w) = (p \div a) \div w
    BY <2>1, NestedDiv
  <2> QED BY <2>1, <2>2 DEF a
<1>7. PatchAt(p, m, w * m) = [row |-> (j \div w) * m + r, col |-> (j % w) * m + c]
  BY <1>5, <1>6 DEF PatchAt
<1> HIDE DEF u, j, r, c
<1> QED BY <1>1, <1>3, <1>4, <1>7 DEF u, j, r, c

PatchQuestions == [op : {"patches"}, m : Nat \ {0}, h : Nat \ {0}, w : Nat \ {0}]

(* Patches come in the order of their tokens, no two at one place.         *)
LEMMA PatchesFor ==
  ASSUME asked \in PatchQuestions
  PROVE  ImagesFitTokens
<1> DEFINE m == asked.m
           h == asked.h
           w == asked.w
           gw == w * m
           n == h * m * gw
           at(p) == PatchAt(p, m, gw)
           tokens == h * w
           image == [t |-> 1, h |-> h, w |-> w]
           box == Box(Span(image, 0), 0, tokens)
           token(p) == box[1 + (p \div (m * m))]
           j(p) == p \div (m * m)
           r(p) == (p \div m) % m
           c(p) == p % m
<1>1. m \in Nat \ {0} /\ h \in Nat \ {0} /\ w \in Nat \ {0}
  BY DEF PatchQuestions
<1>2. Is("patches") /\ ~Is("resize")
  BY DEF PatchQuestions, Is
<1> HIDE DEF m, h, w
<1>3. ASSUME NEW p \in 0 .. n - 1
      PROVE  /\ j(p) \in Nat /\ r(p) \in Nat /\ r(p) < m /\ c(p) \in Nat /\ c(p) < m
             /\ p = m * (m * j(p) + r(p)) + c(p)
             /\ at(p) = [row |-> (j(p) \div w) * m + r(p), col |-> (j(p) % w) * m + c(p)]
  <2>1. p \in Nat
    OBVIOUS
  <2> QED BY <1>1, <2>1, PatchIs
<1>4. n \in Nat /\ n = (h * w) * (m * m) /\ tokens \in Nat
  BY <1>1
<1>5. ASSUME NEW p \in 0 .. n - 1 PROVE j(p) \in 0 .. tokens - 1
  <2> DEFINE q == j(p)
             mm == m * m
             s == m * r(p) + c(p)
  <2>1. q \in Nat /\ mm \in Nat \ {0} /\ s \in Nat /\ r(p) \in Nat /\ c(p) \in Nat
    BY <1>1, <1>3
  <2>2. p = mm * q + s
    <3>1. p = m * (m * q + r(p)) + c(p)
      BY <1>3
    <3> HIDE DEF q, r, c
    <3>2. m * (m * q + r(p)) + c(p) = mm * q + s
      BY <1>1, <2>1
    <3> QED BY <3>1, <3>2
  <2>3. p < tokens * mm /\ p \in Nat
    <3>1. p < n /\ p \in Nat
      BY <1>4
    <3> HIDE DEF n, tokens
    <3> QED BY <1>4, <3>1 DEF tokens
  <2> HIDE DEF q, mm, s, tokens
  <2>4. ASSUME tokens <= q PROVE FALSE
    <3>1. tokens * mm <= q * mm
      BY <1>4, <2>1, <2>4, MulMono
    <3>2. q * mm = mm * q /\ q * mm \in Nat /\ tokens * mm \in Nat
      BY <1>4, <2>1
    <3> DEFINE x == q * mm
               y == tokens * mm
    <3>3. x \in Nat /\ y \in Nat /\ y <= x /\ p = x + s /\ p < y
      BY <2>2, <2>3, <3>1, <3>2
    <3> HIDE DEF x, y
    <3> QED BY <2>1, <3>3
  <2>5. q \in 0 .. tokens - 1
    BY <1>4, <2>1, <2>4
  <2> QED BY <2>5 DEF q
<1>6. ASSUME NEW i \in 0 .. tokens - 1
      PROVE  /\ box[1 + i].h = i \div w /\ box[1 + i].w = i % w
             /\ i \div w \in Nat /\ i % w \in Nat
  <2> DEFINE s == Span(image, 0)
  <2>1. s.h = h /\ s.w = w
    BY DEF Span
  <2> HIDE DEF s
  <2>2. box = [k \in 1 .. tokens |-> [t |-> 0 + ((k - 1) \div (s.h * s.w)),
                                      h |-> 0 + (((k - 1) \div s.w) % s.h),
                                      w |-> 0 + ((k - 1) % s.w)]]
    BY DEF Box, s
  <2>3. 1 + i \in 1 .. tokens /\ (1 + i) - 1 = i /\ i \in Nat
    BY <1>4
  <2> HIDE DEF box
  <2>4. box[1 + i].h = 0 + ((i \div w) % h) /\ box[1 + i].w = 0 + (i % w)
    BY <2>1, <2>2, <2>3
  <2> DEFINE q == i \div w
             v == i % w
  <2>5. q \in Nat /\ v \in Nat /\ v < w /\ i = w * q + v
    BY <1>1, <2>3, DivMod
  <2>6. i < h * w
    <3> HIDE DEF q, v
    <3> QED BY <1>4
  <2> HIDE DEF q, v
  <2>7. q < h
    <3> SUFFICES ASSUME h <= q PROVE FALSE
      BY <1>1, <2>5
    <3>1. h * w <= q * w /\ h * w \in Nat /\ q * w \in Nat /\ q * w = w * q
      BY <1>1, <2>5, MulMono
    <3> DEFINE x == h * w
               y == q * w
    <3>2. x \in Nat /\ y \in Nat /\ x <= y /\ i = y + v /\ i < x
      BY <2>5, <2>6, <3>1
    <3> HIDE DEF x, y
    <3> QED BY <2>5, <3>2
  <2>8. q % h = q
    <3>1. (h * 0 + q) % h = q /\ h * 0 + q = q
      BY <1>1, <2>5, <2>7, DivUnique
    <3> QED BY <3>1
  <2>9. box[1 + i].h = 0 + (q % h) /\ box[1 + i].w = 0 + v
    BY <2>4 DEF q, v
  <2>10. box[1 + i].h = q /\ box[1 + i].w = v
    BY <2>5, <2>8, <2>9
  <2> QED BY <2>5, <2>10 DEF q, v
<1> HIDE DEF box, n, tokens
<1>7. ASSUME NEW p \in 0 .. n - 1
      PROVE  /\ j(p) \div w \in Nat /\ j(p) % w \in Nat
             /\ at(p).row = (j(p) \div w) * m + r(p) /\ at(p).col = (j(p) % w) * m + c(p)
             /\ at(p).row \div m = j(p) \div w /\ at(p).row % m = r(p)
             /\ at(p).col \div m = j(p) % w /\ at(p).col % m = c(p)
             /\ token(p).h = j(p) \div w /\ token(p).w = j(p) % w
  <2> DEFINE q == j(p)
             y == q \div w
             x == q % w
             a == r(p)
             b == c(p)
  <2>1. /\ q \in 0 .. tokens - 1 /\ a \in Nat /\ a < m /\ b \in Nat /\ b < m
        /\ at(p) = [row |-> y * m + a, col |-> x * m + b]
    BY <1>3, <1>5
  <2>2. at(p).row = y * m + a /\ at(p).col = x * m + b
    BY <2>1
  <2>3. token(p) = box[1 + q]
    OBVIOUS
  <2> HIDE DEF q, a, b, at, token
  <2>4. token(p).h = y /\ token(p).w = x /\ y \in Nat /\ x \in Nat
    BY <1>6, <2>1, <2>3
  <2> HIDE DEF x, y
  <2>5. /\ (m * y + a) \div m = y /\ (m * y + a) % m = a
        /\ (m * x + b) \div m = x /\ (m * x + b) % m = b
    BY <1>1, <2>1, <2>4, DivUnique
  <2>6. m * y + a = y * m + a /\ m * x + b = x * m + b
    BY <1>1, <2>1, <2>4
  <2>7. /\ at(p).row \div m = y /\ at(p).row % m = a
        /\ at(p).col \div m = x /\ at(p).col % m = b
    BY <2>2, <2>5, <2>6
  <2> QED BY <2>2, <2>4, <2>7 DEF x, y, q, a, b
<1>8. ASSUME NEW p \in 0 .. n - 1, NEW q \in 0 .. n - 1, at(p) = at(q) PROVE p = q
  <2> DEFINE s == at(p)
  <2>1. j(p) \div w = s.row \div m /\ r(p) = s.row % m /\ j(p) % w = s.col \div m /\ c(p) = s.col % m
    BY <1>7
  <2>2. j(q) \div w = s.row \div m /\ r(q) = s.row % m /\ j(q) % w = s.col \div m /\ c(q) = s.col % m
    BY <1>7, <1>8
  <2> HIDE DEF s, at
  <2>3. j(p) = j(q)
    <3> DEFINE x == j(p)
               y == j(q)
    <3>1. x \in Nat /\ y \in Nat /\ x \div w = y \div w /\ x % w = y % w
      BY <1>3, <2>1, <2>2
    <3> HIDE DEF x, y
    <3>2. x = w * (x \div w) + (x % w) /\ y = w * (y \div w) + (y % w)
      BY <1>1, <3>1, DivMod
    <3>3. x = y
      BY <3>1, <3>2
    <3> QED BY <3>3 DEF x, y
  <2>4. p = m * (m * j(p) + r(p)) + c(p) /\ q = m * (m * j(q) + r(q)) + c(q)
    BY <1>3
  <2> HIDE DEF j, r, c
  <2> QED BY <2>1, <2>2, <2>3, <2>4
<1> HIDE DEF j, r, c
<1>9. /\ \A p, q \in 0 .. n - 1 : at(p) = at(q) => p = q
      /\ \A p \in 0 .. n - 1 : at(p).row \div m = token(p).h /\ at(p).col \div m = token(p).w
  BY <1>7, <1>8
<1> QED BY <1>2, <1>9 DEF ImagesFitTokens, m, h, w, n, tokens, box

-----------------------------------------------------------------------------
(* The questions that are asked, and the answers.                          *)
Nothing == {[op |-> "nothing"]}

(* There are no other questions.                                           *)
LEMMA ImagesAsked ==
  MultiModalSpec =>
    [](asked \in Nothing \cup ExpandQuestions \cup ResizeQuestions \cup PatchQuestions)
<1> DEFINE I == asked \in Nothing \cup ExpandQuestions \cup ResizeQuestions \cup PatchQuestions
<1>1. Init => I
  BY DEF Init, Nothing
<1>2. AskExpand => I'
  <2> SUFFICES ASSUME NEW ids \in Texts(Vocabulary, MaxPrompt), NEW images \in Texts(Images, MaxPrompt),
                      ~Mismatch(ids, images),
                      asked' = [op |-> "expand", ids |-> ids, images |-> images]
               PROVE  asked' \in ExpandQuestions
    BY DEF AskExpand
  <2>1. ids \in Seq(Vocabulary) /\ images \in Seq(Images)
    BY TextIs
  <2> DEFINE q == [op |-> "expand", ids |-> ids, images |-> images]
  <2>2. /\ q \in [op : {"expand"}, ids : Seq(Vocabulary), images : Seq(Images)]
        /\ ~Mismatch(q.ids, q.images)
    BY <2>1
  <2>3. asked' = q
    OBVIOUS
  <2> HIDE DEF q
  <2> QED BY <2>2, <2>3 DEF ExpandQuestions
<1>3. AskResize => I'
  <2> SUFFICES ASSUME NEW h \in 1 .. MaxSide, NEW w \in 1 .. MaxSide,
                      h <= Aspect * w, w <= Aspect * h,
                      asked' = [op |-> "resize", h |-> h, w |-> w]
               PROVE  asked' \in ResizeQuestions
    BY DEF AskResize
  <2> DEFINE q == [op |-> "resize", h |-> h, w |-> w]
  <2>1. h \in Nat \ {0} /\ w \in Nat \ {0}
    BY MultiModalAssumption
  <2>2. /\ q \in [op : {"resize"}, h : Nat \ {0}, w : Nat \ {0}]
        /\ q.h <= Aspect * q.w /\ q.w <= Aspect * q.h
    BY <2>1
  <2>3. asked' = q
    OBVIOUS
  <2> HIDE DEF q
  <2> QED BY <2>2, <2>3 DEF ResizeQuestions
<1>4. AskPatches => I'
  <2> SUFFICES ASSUME NEW m \in 1 .. MaxGrid, NEW h \in 1 .. MaxGrid, NEW w \in 1 .. MaxGrid,
                      asked' = [op |-> "patches", m |-> m, h |-> h, w |-> w]
               PROVE  asked' \in PatchQuestions
    BY DEF AskPatches
  <2>1. m \in Nat \ {0} /\ h \in Nat \ {0} /\ w \in Nat \ {0}
    BY MultiModalAssumption
  <2> QED BY <2>1 DEF PatchQuestions
<1>5. I /\ UNCHANGED asked => I'
  OBVIOUS
<1> HIDE DEF I
<1>6. I /\ [Ask /\ AskImages]_asked => I'
  BY <1>2, <1>3, <1>4, <1>5 DEF AskImages
<1>7. MultiModalSpec => []I
  BY <1>1, <1>6, PTL DEF MultiModalSpec
<1> QED BY <1>7 DEF I

(* Whatever images stand where in a prompt of any length, each token has a *)
(* position of its own, text behind all that is in front of it, and the    *)
(* first decoded token the next one (PositionsDistinct).                   *)
THEOREM Positions == MultiModalSpec => []PositionsDistinct
<1>1. ASSUME asked \in Nothing \cup ExpandQuestions \cup ResizeQuestions \cup PatchQuestions
      PROVE  PositionsDistinct
  <2>1. CASE asked \in ExpandQuestions
    BY <2>1, PositionsFor
  <2>2. CASE asked \in Nothing \cup ResizeQuestions \cup PatchQuestions
    <3>1. ~Is("expand")
      BY <2>2 DEF Is, Nothing, ResizeQuestions, PatchQuestions
    <3> QED BY <3>1 DEF PositionsDistinct
  <2> QED BY <1>1, <2>1, <2>2
<1> QED BY <1>1, ImagesAsked, PTL

(* Each image token gets its own embedding, once, however a prompt is cut  *)
(* into chunks and wherever a cached prefix of it ends (EmbeddingsInPlace).*)
THEOREM Embeddings == MultiModalSpec => []EmbeddingsInPlace
<1>1. ASSUME asked \in Nothing \cup ExpandQuestions \cup ResizeQuestions \cup PatchQuestions
      PROVE  EmbeddingsInPlace
  <2>1. CASE asked \in ExpandQuestions
    BY <2>1, EmbeddingsFor
  <2>2. CASE asked \in Nothing \cup ResizeQuestions \cup PatchQuestions
    <3>1. ~Is("expand")
      BY <2>2 DEF Is, Nothing, ResizeQuestions, PatchQuestions
    <3> QED BY <3>1 DEF EmbeddingsInPlace
  <2> QED BY <1>1, <2>1, <2>2
<1> QED BY <1>1, ImagesAsked, PTL

(* An image that is not refused is resized to positive multiples of the    *)
(* factor with an area within the bounds, and the patches of any grid lie  *)
(* where the positions of their tokens say (ImagesFitTokens).              *)
THEOREM Sizes == MultiModalSpec => []ImagesFitTokens
<1>1. ASSUME asked \in Nothing \cup ExpandQuestions \cup ResizeQuestions \cup PatchQuestions
      PROVE  ImagesFitTokens
  <2>1. CASE asked \in ResizeQuestions
    BY <2>1, ResizeFor
  <2>2. CASE asked \in PatchQuestions
    BY <2>2, PatchesFor
  <2>3. CASE asked \in Nothing \cup ExpandQuestions
    <3>1. ~Is("resize") /\ ~Is("patches")
      BY <2>3 DEF Is, Nothing, ExpandQuestions
    <3> QED BY <3>1 DEF ImagesFitTokens
  <2> QED BY <1>1, <2>1, <2>2, <2>3
<1> QED BY <1>1, ImagesAsked, PTL

-----------------------------------------------------------------------------
LEMMA Instances ==
  /\ \A S : MR!Min(S) = Min(S) /\ MR!Max(S) = Max(S) /\ F!Min(S) = Min(S) /\ F!Max(S) = Max(S)
             /\ A!Min(S) = Min(S) /\ A!Max(S) = Max(S)
  /\ \A n : A!Pow2(n) = Pow2(n)
BY DEF MR!Min, Min, MR!Max, Max, F!Min, F!Max, A!Min, A!Max, A!Pow2, Pow2

(* What a product needs of the room for partial sums. A number of splits   *)
(* divides the groups, and the divisor before it did not fill the machine. *)
LEMMA SplitsChosenFill ==
  ASSUME NEW machine \in Machines, NEW G \in GroupCounts, NEW blocks \in Nat \ {0}
  PROVE  LET s == MR!gemv_choose_splits(32 * blocks, G, machine)
         IN s \in Nat \ {0} /\ (s = 1 \/ blocks * s < 64 * machine)
<1> DEFINE enough == {s \in 1 .. G : G % s = 0 /\ blocks * s >= 8 * machine}
           s == MR!gemv_choose_splits(32 * blocks, G, machine)
<1>0. machine \in Nat \ {0} /\ G \in Nat \ {0}
  BY RoomAssumption
<1>1. (32 * blocks + 32 - 1) \div 32 = blocks
  OBVIOUS
<1>2. s = IF enough = {} THEN G ELSE Min(enough)
  BY <1>1, Instances DEF MR!gemv_choose_splits, MR!WARP
<1> HIDE DEF s
<1>3. CASE enough = {}
  <2>1. G % G = 0 /\ G \in 1 .. G
    BY <1>0
  <2>2. ~(blocks * G >= 8 * machine)
    BY <1>3, <2>1
  <2>3. blocks * G \in Nat
    BY <1>0
  <2> QED BY <1>0, <1>2, <1>3, <2>2, <2>3 DEF s
<1>4. CASE enough # {}
  <2>1. enough \subseteq Nat
    OBVIOUS
  <2>2. s \in enough /\ \A k \in enough : s <= k
    <3> HIDE DEF enough
    <3> QED BY <1>2, <1>4, <2>1, LeastIn
  <2>3. s \in 1 .. G /\ G % s = 0
    BY <2>2
  <2>4. CASE s # 1
    <3> DEFINE below == {d \in 1 .. s - 1 : G % d = 0}
    <3>1. 1 \in below /\ below \subseteq 0 .. s /\ s \in Nat
      <4>1. G % 1 = 0
        BY <1>0
      <4> QED BY <2>3, <2>4, <4>1
    <3> DEFINE d == Max(below)
    <3>2. d \in below /\ \A k \in below : k <= d
      <4> HIDE DEF below
      <4> QED BY <3>1, GreatestIn
    <3>3. d \in 1 .. s - 1 /\ G % d = 0
      <4> HIDE DEF d
      <4> QED BY <3>2
    <3> HIDE DEF d
    <3>4. d \in 1 .. G - 1
      BY <2>3, <3>3, <1>0
    <3>5. PICK e \in d + 1 .. 8 * d : G % e = 0
      BY <3>3, <3>4, RoomAssumption
    <3>6. e >= s
      <4>1. SUFFICES ASSUME e < s PROVE FALSE
        BY <2>3, <3>3, <3>5
      <4>2. e \in below
        BY <2>3, <3>3, <3>5, <4>1
      <4>3. e <= d
        BY <3>2, <4>2
      <4> QED BY <3>3, <3>5, <4>3
    <3>7. s <= 8 * d
      BY <2>3, <3>3, <3>5, <3>6
    <3>8. d \notin enough
      BY <2>2, <2>3, <3>3
    <3>9. blocks * d < 8 * machine
      <4>1. ~(blocks * d >= 8 * machine)
        <5>1. d \in 1 .. G /\ G % d = 0
          BY <1>0, <3>3, <3>4
        <5> QED BY <3>8, <5>1, Zenon DEF enough
      <4>2. blocks * d \in Nat
        BY <3>3
      <4> QED BY <1>0, <4>1, <4>2
    <3>10. blocks * s <= 8 * (blocks * d)
      <4>1. blocks * s <= blocks * (8 * d)
        BY <2>3, <3>3, <3>7
      <4> QED BY <3>3, <4>1
    <3>11. blocks * s \in Nat /\ blocks * d \in Nat
      BY <2>3, <3>3
    <3> QED BY <1>0, <2>3, <3>9, <3>10, <3>11 DEF s
  <2> QED BY <2>3, <2>4 DEF s
<1> QED BY <1>3, <1>4

LEMMA PartialsFit ==
  ASSUME NEW machine \in Machines, NEW G \in GroupCounts, NEW blocks \in Nat \ {0},
         NEW M \in 1 .. 16, NEW widest \in Nat, 32 * blocks <= widest
  PROVE  MR!gemv_choose_splits(32 * blocks, G, machine) * (32 * blocks) * M
           <= MR!partial_elems(widest, machine)
<1> DEFINE s == MR!gemv_choose_splits(32 * blocks, G, machine)
           room == MR!partial_elems(widest, machine)
<1>1. s \in Nat \ {0} /\ (s = 1 \/ blocks * s < 64 * machine)
  BY SplitsChosenFill
<1>2. machine \in Nat
  BY RoomAssumption
<1>3. room = (IF 2048 * machine > widest THEN 2048 * machine ELSE widest) * 16
  BY <1>2 DEF MR!partial_elems, MR!WARP
<1> HIDE DEF s, room
<1>4. room \in Nat /\ room >= widest * 16 /\ room >= 32768 * machine
  BY <1>2, <1>3
<1> DEFINE n == blocks * s
<1>5. n \in Nat /\ s * (32 * blocks) = 32 * n
  BY <1>1
<1> HIDE DEF n
<1>6. (32 * n) * M <= 16 * (32 * n)
  BY <1>5
<1>7. s = 1 => (32 * n) * M <= room
  <2> HAVE s = 1
  <2>1. n = blocks
    BY DEF n
  <2>2. 16 * (32 * n) <= room
    BY <1>4, <2>1
  <2>3. (32 * n) * M <= room
    BY <1>4, <1>5, <1>6, <2>2
  <2> QED BY <2>3
<1>8. n < 64 * machine => (32 * n) * M <= room
  <2> HAVE n < 64 * machine
  <2>1. 16 * (32 * n) <= room
    BY <1>2, <1>4, <1>5
  <2>2. (32 * n) * M <= room
    BY <1>4, <1>5, <1>6, <2>1
  <2> QED BY <2>2
<1>9. s = 1 \/ n < 64 * machine
  BY <1>1 DEF n
<1>10. s * (32 * blocks) * M <= room
  BY <1>5, <1>7, <1>8, <1>9
<1> QED BY <1>10 DEF s, room

(* The tensor-core kernel takes only splits that fit.                      *)
LEMMA TilesFit ==
  ASSUME NEW machine \in Nat \ {0}, NEW in \in Nat, in >= 64, NEW out \in Nat \ {0}, NEW M \in 1 .. 16,
         NEW widest \in Nat
  PROVE  LET s == MR!gemm_mma_splits(out, in, M, widest, machine)
         IN s = 1 \/ s * out * M <= MR!partial_elems(widest, machine)
<1> DEFINE bn == (out + 128 - 1) \div 128
           wanted == (8 * machine + bn - 1) \div bn
           most == IF wanted < in \div 64 THEN wanted ELSE in \div 64
           fit == {k \in 1 .. most : k = 1 \/ k * out * M <= MR!partial_elems(widest, machine)}
<1>1. MR!gemm_mma_splits(out, in, M, widest, machine) = Max(fit)
  BY Instances DEF MR!gemm_mma_splits, MR!Min2
<1>2. bn \in Nat \ {0} /\ in \div 64 \in Nat \ {0}
  OBVIOUS
<1> HIDE DEF bn
<1>3. wanted \in Nat \ {0}
  <2>1. 8 * machine + bn - 1 \in Nat /\ 8 * machine + bn - 1 >= bn
    BY <1>2
  <2> DEFINE a == 8 * machine + bn - 1
  <2> HIDE DEF a
  <2>2. a \div bn \in Nat /\ a = bn * (a \div bn) + (a % bn) /\ a % bn < bn /\ a % bn \in Nat
    BY <1>2, <2>1, DivMod DEF a
  <2>3. a \div bn # 0
    BY <1>2, <2>1, <2>2 DEF a
  <2> QED BY <2>2, <2>3 DEF a
<1>4. most \in Nat \ {0}
  BY <1>2, <1>3
<1> HIDE DEF most
<1>5. 1 \in fit /\ fit \subseteq 0 .. most
  BY <1>4
<1> HIDE DEF fit
<1>6. Max(fit) \in fit
  <2>1. fit # {} /\ most \in Nat
    BY <1>4, <1>5
  <2> QED BY <1>5, <2>1, GreatestIn
<1> QED BY <1>1, <1>6 DEF fit

-----------------------------------------------------------------------------
(* Splits of a decoded token grow with its context.                        *)
LEMMA SplitsGrow ==
  ASSUME NEW a \in Nat, NEW b \in Nat, a <= b
  PROVE  /\ F!attn_decode_splits(a) \in Nat \ {0} /\ F!attn_decode_splits(b) \in Nat \ {0}
         /\ F!attn_decode_splits(a) <= F!attn_decode_splits(b)
<1> DEFINE few(c) == LET n == IF sms * 2 <= (c + 255) \div 256 THEN sms * 2
                              ELSE (c + 255) \div 256
                     IN IF 1 <= n THEN n ELSE 1
<1>1. sms \in Nat \ {0}
  BY ModelAssumption
<1>2. ASSUME NEW c \in Nat PROVE F!attn_decode_splits(c) = few(c)
  <2>1. (sms * 8) \div 4 = sms * 2 /\ sms * 2 \in Int
    BY <1>1
  <2> DEFINE blocks == (c + 255) \div 256
             n == IF sms * 2 <= blocks THEN sms * 2 ELSE blocks
  <2>2. blocks \in Int
    OBVIOUS
  <2> HIDE DEF blocks
  <2>3. Min({sms * 2, blocks}) = n
    BY <2>1, <2>2, Min2
  <2>4. Max({1, n}) = IF 1 <= n THEN n ELSE 1
    <3> n \in Int
      BY <2>1, <2>2
    <3> HIDE DEF n
    <3> QED BY Max2
  <2>5. F!attn_decode_splits(c) = Max({1, Min({sms * 2, blocks})})
    BY <2>1, Instances DEF F!attn_decode_splits, blocks
  <2>6. F!attn_decode_splits(c) = IF 1 <= n THEN n ELSE 1
    <3> HIDE DEF n
    <3> QED BY <2>3, <2>4, <2>5
  <2> QED BY <2>6 DEF blocks
<1>3. few(a) \in Nat \ {0} /\ few(b) \in Nat \ {0} /\ few(a) <= few(b)
  BY <1>1
<1> HIDE DEF few
<1> QED BY <1>2, <1>3

(* What capture leaves: one graph to each of some contexts, none of them   *)
(* above the largest, with the splits of that context.                     *)
IsGraphOf(g, max_ctx) ==
  /\ g.ctx \in Nat /\ g.ctx <= max_ctx
  /\ g.splits = F!attn_decode_splits(g.ctx)

LEMMA CaptureIs ==
  ASSUME NEW m, m.max_ctx \in Nat, DOMAIN m = DOMAIN F!model_load(0, 0)
  PROVE  LET ready == F!model_graph_capture(m)
             n == F!n_graphs(m.max_ctx)
         IN /\ n \in 1 .. 3 /\ DOMAIN ready.graphs = 1 .. n /\ Len(ready.graphs) = n
            /\ \A g \in 1 .. n : IsGraphOf(ready.graphs[g], m.max_ctx)
            /\ ready.graph_splits = ready.graphs[n].splits
            /\ ready = [m EXCEPT !.graphs = ready.graphs, !.graph_splits = ready.graph_splits]
<1> DEFINE n == F!n_graphs(m.max_ctx)
           below == {g \in 1 .. 3 : \A i \in 1 .. g - 1 : F!Buckets[i] < m.max_ctx}
           bound(g) == F!Min({F!Buckets[g], m.max_ctx})
           graphs == [g \in 1 .. n |-> [ctx |-> bound(g), splits |-> F!attn_decode_splits(bound(g))]]
           ready == F!model_graph_capture(m)
<1>1. n = Max(below)
  BY Instances DEF F!n_graphs
<1>2. n \in below
  <2>1. 1 \in below /\ below \subseteq 0 .. 3
    OBVIOUS
  <2> HIDE DEF below
  <2> QED BY <1>1, <2>1, GreatestIn
<1>3. n \in 1 .. 3
  BY <1>2
<1> HIDE DEF n
<1>4. Len(graphs) = n /\ DOMAIN graphs = 1 .. n
  BY <1>3
<1>5. ready = [m EXCEPT !.graphs = graphs, !.graph_splits = graphs[n].splits]
  BY <1>4, Zenon DEF F!model_graph_capture, n
<1>6. ASSUME NEW g \in 1 .. n PROVE IsGraphOf(graphs[g], m.max_ctx)
  <2>1. F!Buckets[g] \in Nat
    BY <1>3 DEF F!Buckets
  <2> DEFINE b == F!Buckets[g]
             c == m.max_ctx
  <2>2. bound(g) = IF b <= c THEN b ELSE c
    <3>1. b \in Int /\ c \in Int
      BY <2>1
    <3> HIDE DEF b, c
    <3>2. Min({b, c}) = IF b <= c THEN b ELSE c
      BY <3>1, Min2
    <3> QED BY <3>2, Instances, Zenon DEF b, c
  <2>3. bound(g) \in Nat /\ bound(g) <= c
    <3> HIDE DEF bound
    <3> QED BY <2>1, <2>2
  <2>4. graphs[g].ctx = bound(g) /\ graphs[g].splits = F!attn_decode_splits(bound(g))
    <3> HIDE DEF bound
    <3> QED OBVIOUS
  <2> HIDE DEF bound, graphs
  <2> QED BY <2>3, <2>4 DEF IsGraphOf
<1> HIDE DEF graphs
<1>7. {"graphs", "graph_splits"} \subseteq DOMAIN m
  BY DEF F!model_load
<1>8. ready.graphs = graphs /\ ready.graph_splits = graphs[n].splits
  BY <1>5, <1>7
<1> HIDE DEF ready
<1>9. ready = [m EXCEPT !.graphs = ready.graphs, !.graph_splits = ready.graph_splits]
  BY <1>5, <1>8
<1>10. DOMAIN ready.graphs = 1 .. n /\ Len(ready.graphs) = n
  BY <1>4, <1>8
<1>11. \A g \in 1 .. n : IsGraphOf(ready.graphs[g], m.max_ctx)
  BY <1>6, <1>8
<1>12. ready.graph_splits = ready.graphs[n].splits
  BY <1>8
<1> QED BY <1>3, <1>9, <1>10, <1>11, <1>12 DEF n, ready

(* A server that starts has a context, and a workspace for all of it.      *)
LEMMA LoadedIs ==
  ASSUME NEW limit \in Limits, NEW free \in Frees, F!Starts(limit, free)
  PROVE  LET m == F!model_load(limit, free)
         IN /\ m.max_ctx \in Nat /\ m.workspace \in Nat
            /\ F!Margin + PerToken * m.max_ctx <= free
            /\ m.graph_splits = F!attn_decode_splits(m.max_ctx)
            /\ \A c \in 0 .. m.max_ctx : F!attn_decode_splits(c) \in 1 .. m.workspace
<1> DEFINE m == F!model_load(limit, free)
           ctx == F!ContextFor(limit, free)
           whole == IF limit <= 0 THEN MaxPosition ELSE limit
<1>1. limit \in Int /\ free \in Nat /\ MaxPosition \in Nat /\ PerToken \in Nat \ {0}
  BY ModelAssumption
<1>2. m.max_ctx = ctx /\ m.workspace = F!attn_decode_splits(whole)
      /\ m.graph_splits = F!attn_decode_splits(ctx)
  BY DEF F!model_load
<1>3. ctx \in Nat /\ whole \in Nat /\ ctx <= whole
  <2>1. CASE limit > 0
    BY <1>1, <2>1 DEF F!ContextFor
  <2>2. CASE limit <= 0
    <3> DEFINE room == IF free > F!Margin THEN free - F!Margin ELSE 0
               fits == ((room \div PerToken) \div 256) * 256
    <3>1. room \in Nat
      BY <1>1 DEF F!Margin
    <3> HIDE DEF room
    <3>2. room \div PerToken \in Nat
      BY <1>1, <3>1
    <3>3. fits \in Nat
      BY <3>2
    <3> HIDE DEF fits
    <3>4. F!ContextFor(limit, free) = F!Min({fits, MaxPosition})
      BY <2>2, Zenon DEF F!ContextFor, fits, room
    <3>5. Min({fits, MaxPosition}) = IF fits <= MaxPosition THEN fits ELSE MaxPosition
      BY <1>1, <3>3, Min2
    <3>6. ctx = IF fits <= MaxPosition THEN fits ELSE MaxPosition
      BY <3>4, <3>5, Instances
    <3> HIDE DEF ctx
    <3> QED BY <1>1, <2>2, <3>3, <3>6
  <2> QED BY <1>1, <2>1, <2>2
<1>4. F!Margin + PerToken * ctx <= free
  <2>1. free - PerToken * ctx >= F!Margin
    BY DEF F!Starts
  <2> HIDE DEF ctx
  <2>2. PerToken * ctx \in Nat /\ F!Margin \in Nat
    BY <1>1, <1>3 DEF F!Margin
  <2> QED BY <1>1, <2>1, <2>2
<1> HIDE DEF ctx, whole, m
<1>5. ASSUME NEW c \in 0 .. m.max_ctx PROVE F!attn_decode_splits(c) \in 1 .. m.workspace
  <2>1. c \in Nat /\ c <= whole
    BY <1>2, <1>3
  <2> QED BY <1>2, <1>3, <2>1, SplitsGrow
<1>6. m.workspace \in Nat
  BY <1>2, <1>3, SplitsGrow
<1> QED BY <1>2, <1>3, <1>4, <1>5, <1>6 DEF m

LEMMA ContextFits ==
  ASSUME NEW limit \in Limits, NEW free \in Frees, F!Starts(limit, free)
  PROVE  LET m == F!model_load(limit, free)
             ready == F!model_graph_capture(m)
         IN /\ F!Margin + PerToken * m.max_ctx <= free
            /\ \A x \in {m, ready} : x.graph_splits <= m.workspace
            /\ \A g \in DOMAIN ready.graphs : /\ ready.graphs[g].splits <= m.workspace
                                              /\ ready.graphs[g].ctx <= m.max_ctx
<1> DEFINE m == F!model_load(limit, free)
           ready == F!model_graph_capture(m)
           n == F!n_graphs(m.max_ctx)
           Splits(c) == F!attn_decode_splits(c)
<1>1. /\ m.max_ctx \in Nat /\ m.workspace \in Nat
      /\ F!Margin + PerToken * m.max_ctx <= free
      /\ m.graph_splits = Splits(m.max_ctx)
      /\ \A c \in 0 .. m.max_ctx : Splits(c) \in 1 .. m.workspace
  BY LoadedIs
<1>2. DOMAIN m = DOMAIN F!model_load(0, 0)
  BY DEF F!model_load
<1> HIDE DEF m
<1>3. /\ n \in 1 .. 3 /\ DOMAIN ready.graphs = 1 .. n
      /\ \A g \in 1 .. n : IsGraphOf(ready.graphs[g], m.max_ctx)
      /\ ready.graph_splits = ready.graphs[n].splits
  BY <1>1, <1>2, CaptureIs
<1> HIDE DEF ready, n
<1>4. ASSUME NEW g \in 1 .. n
      PROVE  ready.graphs[g].splits <= m.workspace /\ ready.graphs[g].ctx <= m.max_ctx
  <2> DEFINE graph == ready.graphs[g]
  <2>1. /\ graph.ctx \in Nat /\ graph.ctx <= m.max_ctx
        /\ graph.splits = Splits(graph.ctx)
    BY <1>3 DEF IsGraphOf
  <2> HIDE DEF graph, Splits
  <2>2. graph.ctx \in 0 .. m.max_ctx
    BY <1>1, <2>1
  <2>3. graph.splits \in 1 .. m.workspace
    BY <1>1, <2>1, <2>2
  <2> QED BY <1>1, <2>1, <2>3 DEF graph
<1>5. m.graph_splits <= m.workspace
  <2> HIDE DEF Splits
  <2>1. m.max_ctx \in 0 .. m.max_ctx
    BY <1>1
  <2> QED BY <1>1, <2>1
<1>6. ready.graph_splits <= m.workspace
  BY <1>3, <1>4
<1> QED BY <1>1, <1>3, <1>4, <1>5, <1>6 DEF m, ready

-----------------------------------------------------------------------------
(* The questions there are.                                                *)
RoomAsked ==
  \E machine \in Machines, G \in GroupCounts, blocks \in 1 .. MaxBlocks :
    asked = [op |-> "room", sms |-> machine, G |-> G, out |-> 32 * blocks]
ContextAsked ==
  \E limit \in Limits, free \in Frees :
    asked = [op |-> "context", limit |-> limit, free |-> free]
CacheAsked == \E fmt \in {"FP8", "INT4"} : asked = [op |-> "cache", fmt |-> fmt]
Fp8Asked == \E e \in MinExp .. MaxExp : asked = [op |-> "fp8", e |-> e]
RopeAsked == \E pos \in Points : asked = [op |-> "rope", pos |-> pos]
PassAsked ==
  \E limit \in Limits, free \in Frees, captured \in BOOLEAN, delta \in Deltas,
     before \in Texts(PriorCalls, MaxCalls), at \in Places :
    /\ F!Starts(limit, free)
    /\ asked = [op |-> "pass", limit |-> limit, free |-> free, captured |-> captured,
                delta |-> delta, before |-> before, at |-> at]

SomeAsked ==
  \/ asked = [op |-> "nothing"]
  \/ RoomAsked \/ ContextAsked \/ CacheAsked \/ Fp8Asked \/ RopeAsked \/ PassAsked

LEMMA Kinds ==
  /\ RoomAsked => asked.op = "room"
  /\ ContextAsked => asked.op = "context"
  /\ CacheAsked => asked.op = "cache"
  /\ Fp8Asked => asked.op = "fp8"
  /\ RopeAsked => asked.op = "rope"
  /\ PassAsked => asked.op = "pass"
<1>1. RoomAsked => asked.op = "room"
  BY DEF RoomAsked
<1>2. ContextAsked => asked.op = "context"
  BY DEF ContextAsked
<1>3. CacheAsked => asked.op = "cache"
  BY DEF CacheAsked
<1>4. Fp8Asked => asked.op = "fp8"
  BY DEF Fp8Asked
<1>5. RopeAsked => asked.op = "rope"
  BY DEF RopeAsked
<1>6. PassAsked => asked.op = "pass"
  BY DEF PassAsked
<1> QED BY <1>1, <1>2, <1>3, <1>4, <1>5, <1>6

LEMMA PassQuestions == PassSpec => []SomeAsked
<1>1. Init => SomeAsked
  BY DEF Init, SomeAsked
<1>2. AskRoom => SomeAsked'
  BY DEF AskRoom, SomeAsked, RoomAsked, ContextAsked
<1>3. AskCache => SomeAsked'
  BY DEF AskCache, SomeAsked, CacheAsked, Fp8Asked
<1>4. AskPass => SomeAsked'
  BY Zenon DEF AskPass, SomeAsked, RopeAsked, PassAsked
<1>5. SomeAsked /\ UNCHANGED asked => SomeAsked'
  BY DEF SomeAsked, RoomAsked, ContextAsked, CacheAsked, Fp8Asked, RopeAsked, PassAsked
<1> QED BY <1>1, <1>2, <1>3, <1>4, <1>5, PTL DEF PassSpec

(* No launch needs more scratch than was allocated, for every machine, all *)
(* shapes of a model and every limit on the context (ScratchFits).         *)
THEOREM Scratch == PassSpec => []ScratchFits
<1>1. RoomAsked => ScratchFits
  <2> SUFFICES ASSUME NEW machine \in Machines, NEW G \in GroupCounts, NEW blocks \in 1 .. MaxBlocks,
                      asked = [op |-> "room", sms |-> machine, G |-> G, out |-> 32 * blocks]
               PROVE  ScratchFits
    BY DEF RoomAsked
  <2> DEFINE out == 32 * blocks
             in == 128 * G
             widest == IF out > VocabSize THEN out ELSE VocabSize
  <2>1. blocks \in Nat \ {0} /\ machine \in Nat \ {0} /\ G \in Nat \ {0} /\ VocabSize \in Nat
    BY RoomAssumption
  <2>2. widest \in Nat /\ out <= widest /\ in \in Nat /\ in >= 64 /\ out \in Nat \ {0}
    BY <2>1
  <2>3. asked.op = "room" /\ asked.sms = machine /\ asked.G = G /\ asked.out = out
    OBVIOUS
  <2> HIDE DEF widest, in
  <2>4. ASSUME NEW M \in Batches
        PROVE  /\ MR!gemv_choose_splits(out, G, machine) * out * M <= MR!partial_elems(widest, machine)
               /\ LET s == MR!gemm_mma_splits(out, in, M, widest, machine)
                  IN s = 1 \/ s * out * M <= MR!partial_elems(widest, machine)
    <3>1. M \in 1 .. 16
      BY RoomAssumption
    <3>2. MR!gemv_choose_splits(out, G, machine) * out * M <= MR!partial_elems(widest, machine)
      BY <2>1, <2>2, <3>1, PartialsFit
    <3>3. LET s == MR!gemm_mma_splits(out, in, M, widest, machine)
          IN s = 1 \/ s * out * M <= MR!partial_elems(widest, machine)
      <4> HIDE DEF out
      <4> QED BY <2>1, <2>2, <3>1, TilesFit
    <3> QED BY <3>2, <3>3
  <2> HIDE DEF out
  <2> QED BY <2>3, <2>4 DEF ScratchFits, Is, in, widest
<1>2. ContextAsked => ScratchFits
  <2> SUFFICES ASSUME NEW limit \in Limits, NEW free \in Frees,
                      asked = [op |-> "context", limit |-> limit, free |-> free]
               PROVE  ScratchFits
    BY DEF ContextAsked
  <2>1. asked.op = "context" /\ asked.limit = limit /\ asked.free = free
    OBVIOUS
  <2>2. F!Starts(limit, free) =>
          LET m == F!model_load(limit, free)
              ready == F!model_graph_capture(m)
          IN /\ F!Margin + PerToken * m.max_ctx <= free
             /\ \A x \in {m, ready} : x.graph_splits <= m.workspace
             /\ \A g \in DOMAIN ready.graphs : /\ ready.graphs[g].splits <= m.workspace
                                               /\ ready.graphs[g].ctx <= m.max_ctx
    BY ContextFits
  <2>3. ~ Is("room")
    BY <2>1 DEF Is
  <2> QED BY <2>1, <2>2, <2>3, Zenon DEF ScratchFits
<1>3. SomeAsked => ScratchFits
  <2>1. ASSUME asked.op \notin {"room", "context"} PROVE ScratchFits
    BY <2>1 DEF ScratchFits, Is
  <2>2. asked = [op |-> "nothing"] => asked.op = "nothing"
    OBVIOUS
  <2> QED BY <1>1, <1>2, <2>1, <2>2, Kinds DEF SomeAsked
<1> QED BY <1>3, PassQuestions, PTL

-----------------------------------------------------------------------------
(* A model that can be called: in every way a decode can go, the splits    *)
(* fit into the workspace.                                                 *)
Ready(x) ==
  /\ x.max_ctx \in Nat /\ x.workspace \in Nat /\ x.mrope_delta \in Int
  /\ x.graph_splits \in 1 .. x.workspace
  /\ \/ x.graphs = <<>>
     \/ \E n \in 1 .. 3 :
          /\ DOMAIN x.graphs = 1 .. n /\ Len(x.graphs) = n
          /\ \A g \in 1 .. n : x.graphs[g].ctx \in Nat /\ x.graphs[g].splits \in 1 .. x.workspace

(* What calls make of it: only with graphs, the splits change, which every *)
(* decode then sets itself.                                                *)
Kept(x) ==
  {y \in [max_ctx : {x.max_ctx}, workspace : {x.workspace}, graph_splits : Nat,
          graphs : {x.graphs}, use_graph : BOOLEAN, mrope_delta : {x.mrope_delta}, ctx_len : Nat] :
     y.graphs = <<>> => y.graph_splits = x.graph_splits}

FreshModel(limit, free, captured, delta) ==
  LET loaded == [F!model_load(limit, free) EXCEPT !.mrope_delta = delta]
  IN IF captured THEN F!model_graph_capture(loaded) ELSE loaded

LEMMA FreshIs ==
  ASSUME NEW limit \in Limits, NEW free \in Frees, F!Starts(limit, free),
         NEW captured \in BOOLEAN, NEW delta \in Deltas
  PROVE  LET fresh == FreshModel(limit, free, captured, delta)
         IN Ready(fresh) /\ fresh \in Kept(fresh) /\ fresh.mrope_delta = delta
<1> DEFINE m == F!model_load(limit, free)
           loaded == [m EXCEPT !.mrope_delta = delta]
           ready == F!model_graph_capture(loaded)
<1>0. delta \in Int
  BY ModelAssumption
<1>1. /\ m.max_ctx \in Nat /\ m.workspace \in Nat
      /\ m.graph_splits = F!attn_decode_splits(m.max_ctx)
      /\ \A c \in 0 .. m.max_ctx : F!attn_decode_splits(c) \in 1 .. m.workspace
  BY LoadedIs
<1>2. m.graph_splits \in 1 .. m.workspace
  <2>1. m.max_ctx \in 0 .. m.max_ctx
    BY <1>1
  <2> HIDE DEF m
  <2> QED BY <1>1, <2>1
<1>4. loaded = [max_ctx |-> m.max_ctx, workspace |-> m.workspace, graph_splits |-> m.graph_splits,
                graphs |-> <<>>, use_graph |-> FALSE, mrope_delta |-> delta, ctx_len |-> 0]
  <2> DEFINE a == m.max_ctx
             b == m.workspace
             s == m.graph_splits
             none == <<>>
             no == FALSE
             zero == 0
  <2>1. m = [max_ctx |-> a, workspace |-> b, graph_splits |-> s,
             graphs |-> none, use_graph |-> no, mrope_delta |-> zero, ctx_len |-> zero]
    BY DEF F!model_load
  <2> HIDE DEF m, a, b, s, none, no, zero
  <2>2. loaded = [max_ctx |-> a, workspace |-> b, graph_splits |-> s,
                  graphs |-> none, use_graph |-> no, mrope_delta |-> delta, ctx_len |-> zero]
    BY <1>0, <2>1
  <2> HIDE DEF loaded
  <2> QED BY <2>2 DEF a, b, s, none, no, zero
<1> HIDE DEF m
<1> HIDE DEF loaded
<1>5. Ready(loaded) /\ loaded \in Kept(loaded) /\ loaded.mrope_delta = delta
  <2>1. Ready(loaded)
    BY <1>0, <1>1, <1>2, <1>4 DEF Ready
  <2>2. loaded \in Kept(loaded)
    BY <1>1, <1>2, <1>4 DEF Kept
  <2> QED BY <1>4, <2>1, <2>2
<1>6. Ready(ready) /\ ready \in Kept(ready) /\ ready.mrope_delta = delta
  <2> DEFINE n == F!n_graphs(loaded.max_ctx)
             graphs == ready.graphs
             splits == ready.graph_splits
  <2>1. loaded.max_ctx \in Nat /\ DOMAIN loaded = DOMAIN F!model_load(0, 0)
    BY <1>1, <1>4 DEF F!model_load
  <2>2. /\ n \in 1 .. 3 /\ DOMAIN graphs = 1 .. n /\ Len(graphs) = n
        /\ \A g \in 1 .. n : IsGraphOf(graphs[g], loaded.max_ctx)
        /\ splits = graphs[n].splits
        /\ ready = [loaded EXCEPT !.graphs = graphs, !.graph_splits = splits]
    BY <2>1, CaptureIs
  <2> HIDE DEF graphs, splits, n, ready
  <2>3. ready = [max_ctx |-> m.max_ctx, workspace |-> m.workspace, graph_splits |-> splits,
                 graphs |-> graphs, use_graph |-> FALSE, mrope_delta |-> delta, ctx_len |-> 0]
    BY <1>4, <2>2
  <2>4. ASSUME NEW g \in 1 .. n
        PROVE  graphs[g].ctx \in Nat /\ graphs[g].splits \in 1 .. m.workspace
    <3> DEFINE graph == graphs[g]
    <3>1. graph.ctx \in Nat /\ graph.ctx <= m.max_ctx
          /\ graph.splits = F!attn_decode_splits(graph.ctx)
      BY <1>4, <2>2 DEF IsGraphOf
    <3> HIDE DEF graph
    <3>2. graph.ctx \in 0 .. m.max_ctx
      BY <1>1, <3>1
    <3>3. graph.splits \in 1 .. m.workspace
      BY <1>1, <3>1, <3>2
    <3> QED BY <3>1, <3>3 DEF graph
  <2>5. splits \in 1 .. m.workspace
    BY <2>2, <2>4
  <2>6. Ready(ready)
    <3>1. /\ ready.max_ctx = m.max_ctx /\ ready.workspace = m.workspace /\ ready.mrope_delta = delta
          /\ ready.graph_splits = splits /\ ready.graphs = graphs
      BY <2>3
    <3> QED BY <1>0, <1>1, <2>2, <2>4, <2>5, <3>1 DEF Ready
  <2>7. graphs # <<>>
    BY <2>2
  <2>8. ready \in Kept(ready)
    <3>1. splits \in Nat
      BY <1>1, <2>5
    <3> QED BY <2>3, <2>7, <3>1 DEF Kept
  <2> QED BY <2>3, <2>6, <2>8
<1> QED BY <1>5, <1>6 DEF FreshModel, ready, loaded, m

(* The pass of a decode, whichever way it goes.                            *)
Decoded(x, at) ==
  [rows |-> <<[slot |-> at, at |-> at + x.mrope_delta]>>, ctx |-> at + 1,
   splits |-> IF x.graphs = <<>> THEN x.graph_splits
              ELSE x.graphs[F!model_graph_bucket(x, at + 1)].splits]

LEMMA BucketIn ==
  ASSUME NEW x, Ready(x), x.graphs # <<>>, NEW c \in Nat
  PROVE  x.graphs[F!model_graph_bucket(x, c)].splits \in 1 .. x.workspace
<1>1. PICK n \in 1 .. 3 :
        /\ DOMAIN x.graphs = 1 .. n /\ Len(x.graphs) = n
        /\ \A g \in 1 .. n : x.graphs[g].ctx \in Nat /\ x.graphs[g].splits \in 1 .. x.workspace
  BY DEF Ready
<1> DEFINE fit == {g \in DOMAIN x.graphs : c <= x.graphs[g].ctx}
           b == F!model_graph_bucket(x, c)
<1>2. b = IF fit = {} THEN n ELSE Min(fit)
  BY <1>1, Instances DEF F!model_graph_bucket
<1>3. fit \subseteq 1 .. n /\ fit \subseteq Nat
  BY <1>1
<1> HIDE DEF fit, b
<1>4. b \in 1 .. n
  <2>1. CASE fit = {}
    BY <1>2, <2>1
  <2>2. CASE fit # {}
    <3>1. Min(fit) \in fit
      BY <1>3, <2>2, LeastIn
    <3> QED BY <1>2, <1>3, <2>2, <3>1
  <2> QED BY <2>1, <2>2
<1> QED BY <1>1, <1>4 DEF b

LEMMA RowsOne ==
  ASSUME NEW at \in Nat, NEW shift \in Int
  PROVE  F!Rows(1, at, shift) = <<[slot |-> at, at |-> at + shift]>>
<1>1. \A i \in 1 .. 1 : at + i - 1 = at /\ at + i - 1 + shift = at + shift
  OBVIOUS
<1>2. F!Rows(1, at, shift) = [i \in 1 .. 1 |-> [slot |-> at, at |-> at + shift]]
  BY <1>1 DEF F!Rows
<1> DEFINE row == [slot |-> at, at |-> at + shift]
<1> HIDE DEF row
<1>3. [i \in 1 .. 1 |-> row] = <<row>>
  OBVIOUS
<1> QED BY <1>2, <1>3 DEF row

LEMMA DecodedIs ==
  ASSUME NEW x, Ready(x), NEW m \in Kept(x), NEW graph \in BOOLEAN, NEW at \in Nat
  PROVE  LET done == F!model_decode([m EXCEPT !.use_graph = graph], at)
         IN done.pass = Decoded(x, at) /\ done.m \in Kept(x)
<1> DEFINE y == [m EXCEPT !.use_graph = graph]
           done == F!model_decode(y, at)
           b == F!model_graph_bucket(x, at + 1)
           row == [slot |-> at, at |-> at + x.mrope_delta]
<1>1. /\ y = [max_ctx |-> x.max_ctx, workspace |-> x.workspace, graph_splits |-> m.graph_splits,
              graphs |-> x.graphs, use_graph |-> graph, mrope_delta |-> x.mrope_delta,
              ctx_len |-> m.ctx_len]
      /\ m.graph_splits \in Nat /\ m.ctx_len \in Nat
      /\ x.graphs = <<>> => m.graph_splits = x.graph_splits
  BY DEF Kept
<1> HIDE DEF y
<1>2. F!model_graph_bucket(y, at + 1) = b
  BY <1>1 DEF F!model_graph_bucket
<1>3. x.mrope_delta \in Int
  BY DEF Ready
<1>4. F!Rows(1, at, x.mrope_delta) = <<row>>
  BY <1>3, RowsOne
<1> HIDE DEF row, b
<1>5. x.graphs # <<>> => x.graphs[b].splits \in Nat
  <2> HAVE x.graphs # <<>>
  <2>1. at + 1 \in Nat
    OBVIOUS
  <2>2. x.graphs[b].splits \in 1 .. x.workspace
    BY <2>1, BucketIn DEF b
  <2> QED BY <2>2
<1>6. CASE graph /\ x.graphs # <<>>
  <2> DEFINE s == x.graphs[b].splits
             next == [max_ctx |-> x.max_ctx, workspace |-> x.workspace, graph_splits |-> s,
                      graphs |-> x.graphs, use_graph |-> graph, mrope_delta |-> x.mrope_delta,
                      ctx_len |-> at + 1]
  <2>1. done = [m |-> [y EXCEPT !.graph_splits = s, !.ctx_len = at + 1],
                pass |-> [rows |-> <<row>>, ctx |-> at + 1, splits |-> s]]
    BY <1>1, <1>2, <1>6 DEF F!model_decode, row
  <2>2. done.m = next
    <3>1. done.m = [y EXCEPT !.graph_splits = s, !.ctx_len = at + 1]
      BY <2>1
    <3> HIDE DEF s, done
    <3> QED BY <1>1, <3>1
  <2>3. next \in Kept(x)
    <3> s \in Nat
      BY <1>5, <1>6
    <3> HIDE DEF s
    <3> QED BY <1>6 DEF Kept
  <2>4. done.pass = Decoded(x, at)
    BY <1>6, <2>1 DEF Decoded, row, b
  <2> QED BY <2>2, <2>3, <2>4 DEF y
<1>7. CASE ~ (graph /\ x.graphs # <<>>)
  <2> DEFINE s == IF x.graphs = <<>> THEN x.graph_splits ELSE x.graphs[b].splits
             z == F!SplitsChosen(y, at)
  <2>1. done = F!model_prefill(z, 1, at)
    BY <1>1, <1>7 DEF F!model_decode
  <2>2. z = [max_ctx |-> x.max_ctx, workspace |-> x.workspace, graph_splits |-> s,
             graphs |-> x.graphs, use_graph |-> graph, mrope_delta |-> x.mrope_delta,
             ctx_len |-> m.ctx_len]
    BY <1>1, <1>2 DEF F!SplitsChosen
  <2>3. s \in Nat
    BY <1>1, <1>5
  <2>4. z.graph_splits = s /\ z.mrope_delta = x.mrope_delta
    BY <2>2
  <2> DEFINE pass == [rows |-> <<row>>, ctx |-> at + 1, splits |-> s]
  <2> HIDE DEF s, z
  <2>5. F!Pass(z, 1, at, z.mrope_delta) = pass
    BY <1>4, <2>4 DEF F!Pass
  <2>6. done = [m |-> [z EXCEPT !.ctx_len = at + 1], pass |-> pass]
    BY <2>1, <2>5 DEF F!model_prefill, F!Done
  <2>7. done.m = [max_ctx |-> x.max_ctx, workspace |-> x.workspace, graph_splits |-> s,
                  graphs |-> x.graphs, use_graph |-> graph, mrope_delta |-> x.mrope_delta,
                  ctx_len |-> at + 1]
    BY <2>2, <2>6
  <2>8. done.m \in Kept(x)
    <3> HIDE DEF done
    <3>1. x.graphs = <<>> => s = x.graph_splits
      BY DEF s
    <3> QED BY <2>3, <2>7, <3>1 DEF Kept
  <2>9. done.pass = Decoded(x, at)
    BY <2>6 DEF Decoded, row, b, s
  <2> QED BY <2>8, <2>9 DEF y
<1> QED BY <1>6, <1>7

LEMMA DoneKeeps ==
  ASSUME NEW x, NEW m \in Kept(x), NEW pass, pass.ctx \in Nat
  PROVE  F!Done(m, pass).m \in Kept(x) /\ F!Done(m, pass).pass = pass
<1> DEFINE c == pass.ctx
<1>1. F!Done(m, pass).m = [m EXCEPT !.ctx_len = c] /\ F!Done(m, pass).pass = pass
  BY DEF F!Done
<1> HIDE DEF c
<1>2. [m EXCEPT !.ctx_len = c] \in Kept(x)
  <2>1. c \in Nat
    BY DEF c
  <2> QED BY <2>1 DEF Kept
<1> QED BY <1>1, <1>2

LEMMA PassesKeep ==
  ASSUME NEW x, NEW m \in Kept(x), NEW T \in Nat \ {0}, NEW at \in Nat
  PROVE  /\ F!model_prefill(m, T, at).m \in Kept(x)
         /\ F!model_prefill(m, T, at).pass.rows = F!Rows(T, at, x.mrope_delta)
         /\ F!model_forward_all_logits(m, T, at).m \in Kept(x)
         /\ F!model_forward_all_logits(m, T, at).pass.rows = F!Rows(T, at, 0)
<1>1. ASSUME NEW shift
      PROVE  LET pass == F!Pass(m, T, at, shift)
             IN pass.ctx \in Nat /\ pass.rows = F!Rows(T, at, shift)
  BY DEF F!Pass
<1>2. m.mrope_delta = x.mrope_delta
  BY DEF Kept
<1>3. F!Pass(m, T, at, m.mrope_delta).ctx \in Nat /\ F!Pass(m, T, at, 0).ctx \in Nat
  BY <1>1
<1> QED BY <1>1, <1>2, <1>3, DoneKeeps DEF F!model_prefill, F!model_forward_all_logits

LEMMA CallKeeps ==
  ASSUME NEW x, Ready(x), NEW m \in Kept(x), NEW c \in PriorCalls
  PROVE  Called(m, c).m \in Kept(x)
<1>1. c.kind \in {"decode", "prefill", "verify"} /\ c.T \in Nat \ {0} /\ c.at \in Nat
      /\ c.graph \in BOOLEAN
  BY ModelAssumption
<1>2. CASE c.kind = "decode"
  <2>1. Called(m, c) = F!model_decode([m EXCEPT !.use_graph = c.graph], c.at)
    BY <1>2 DEF Called
  <2> QED BY <1>1, <2>1, DecodedIs
<1>3. CASE c.kind = "prefill"
  <2>1. Called(m, c) = F!model_prefill(m, c.T, c.at)
    BY <1>3 DEF Called
  <2> QED BY <1>1, <2>1, PassesKeep
<1>4. CASE c.kind = "verify"
  <2>1. Called(m, c) = F!model_forward_all_logits(m, c.T, c.at)
    BY <1>4 DEF Called
  <2> QED BY <1>1, <2>1, PassesKeep
<1> QED BY <1>1, <1>2, <1>3, <1>4

(* By induction over the calls: they leave what a decode goes by.          *)
LEMMA CallsKeep ==
  ASSUME NEW x, Ready(x), x \in Kept(x), NEW calls \in Texts(PriorCalls, MaxCalls)
  PROVE  After(x, calls) \in Kept(x)
<1> DEFINE N == Len(calls)
           S == Kept(x)
           Step == [k \in 1 .. N |-> [y \in S |-> Called(y, calls[k]).m]]
<1>1. calls \in Seq(PriorCalls) /\ N \in Nat /\ \A k \in 1 .. N : calls[k] \in PriorCalls
  <2>1. PICK k \in 0 .. MaxCalls : calls \in [1 .. k -> PriorCalls]
    BY DEF Texts
  <2>2. k \in Nat
    BY <2>1, ModelAssumption
  <2>3. calls \in Seq(PriorCalls) /\ Len(calls) = k
    BY <2>1, <2>2
  <2> QED BY <2>1, <2>2, <2>3
<1> HIDE DEF N
<1>2. Step \in [1 .. N -> [S -> S]]
  BY <1>1, CallKeeps
<1>3. \A k \in 1 .. N : \A y \in S : Step[k][y] = Called(y, calls[k]).m
  OBVIOUS
<1> HIDE DEF Step, S
<1>4. x \in S
  BY DEF S
<1>5. PICK g : g \in Runs(S, Step, x, N)
  BY <1>1, <1>2, <1>4, RunsExist
<1>6. g \in [0 .. N -> S] /\ g[0] = x /\ \A k \in 1 .. N : g[k] = Step[k][g[k - 1]]
  BY <1>5 DEF Runs
<1> DEFINE IsAfter(h) ==
             h = [n \in 0 .. N |-> IF n = 0 THEN x ELSE Called(h[n - 1], calls[n]).m]
           after == CHOOSE h : IsAfter(h)
<1>7. IsAfter(g)
  <2>1. ASSUME NEW n \in 0 .. N PROVE g[n] = IF n = 0 THEN x ELSE Called(g[n - 1], calls[n]).m
    <3>1. CASE n = 0
      BY <1>6, <3>1
    <3>2. CASE n # 0
      <4>1. n \in 1 .. N /\ n - 1 \in 0 .. N
        BY <1>1, <3>2
      <4>2. g[n - 1] \in S
        BY <1>6, <4>1
      <4> QED BY <1>3, <1>6, <3>2, <4>1, <4>2
    <3> QED BY <3>1, <3>2
  <2> QED BY <1>6, <2>1
<1>8. IsAfter(after)
  BY <1>7
<1>9. After(x, calls) = after[N]
  BY DEF After, N
<1> HIDE DEF after
<1>10. after[0] = x /\ \A n \in 1 .. N : after[n] = Called(after[n - 1], calls[n]).m
  BY <1>1, <1>8
<1>11. ASSUME NEW k \in 1 .. N, after[k - 1] = g[k - 1] PROVE after[k] = g[k]
  <2>1. k - 1 \in 0 .. N
    BY <1>1
  <2>2. g[k - 1] \in S
    BY <1>6, <2>1
  <2> QED BY <1>3, <1>6, <1>10, <1>11, <2>2
<1>12. after[N] = g[N]
  BY <1>1, <1>6, <1>10, <1>11, Alike
<1>13. N \in 0 .. N
  BY <1>1
<1> QED BY <1>6, <1>9, <1>12, <1>13 DEF S

(* The row of a position, of however many rows it is one.                  *)
LEMMA RowIs ==
  ASSUME NEW n \in Nat \ {0}, NEW from \in Nat, NEW at \in Nat, from <= at, at < from + n,
         NEW shift \in Int
  PROVE  LET rows == F!Rows(n, from, shift)
         IN rows[CHOOSE i \in DOMAIN rows : rows[i].slot = at]
              = [slot |-> at, at |-> at + shift]
<1> DEFINE rows == F!Rows(n, from, shift)
           i == CHOOSE i \in DOMAIN rows : rows[i].slot = at
<1>1. rows = [k \in 1 .. n |-> [slot |-> from + k - 1, at |-> from + k - 1 + shift]]
  BY DEF F!Rows
<1> HIDE DEF rows
<1>2. DOMAIN rows = 1 .. n /\ \A k \in 1 .. n : /\ rows[k].slot = from + k - 1
                                                /\ rows[k].at = from + k - 1 + shift
  BY <1>1
<1>3. at - from + 1 \in 1 .. n /\ from + (at - from + 1) - 1 = at
  OBVIOUS
<1>4. \E k \in DOMAIN rows : rows[k].slot = at
  BY <1>2, <1>3
<1>5. i \in DOMAIN rows /\ rows[i].slot = at
  BY <1>4
<1> HIDE DEF i
<1>6. i \in 1 .. n /\ from + i - 1 = at
  BY <1>2, <1>5
<1>7. rows[i] = [slot |-> from + i - 1, at |-> from + i - 1 + shift]
  BY <1>1, <1>6
<1> QED BY <1>6, <1>7 DEF i, rows

-----------------------------------------------------------------------------
(* Sums over pairs of terms `half` apart, and a rest.                      *)
SamePairs(f, h, n, half) ==
  /\ \A i \in 1 .. n : f[i] \in Int /\ h[i] \in Int
  /\ \A i \in 1 .. half : f[i] + f[half + i] = h[i] + h[half + i]
  /\ \A i \in 1 .. n : i > 2 * half => f[i] = h[i]

LEMMA SumStep ==
  ASSUME NEW f, NEW h, NEW n \in Nat, \A i \in 1 .. n : f[i] \in Int /\ h[i] \in Int,
         NEW k \in 1 .. n
  PROVE  /\ Sum(f, k) = Sum(f, k - 1) + f[k] /\ Sum(h, k) = Sum(h, k - 1) + h[k]
         /\ Sum(f, k - 1) \in Int /\ Sum(h, k - 1) \in Int
         /\ f[k] \in Int /\ h[k] \in Int
<1> DEFINE j == k - 1
<1>1. j \in Nat /\ j + 1 = k
  OBVIOUS
<1>2. \A i \in 1 .. k : f[i] \in Int /\ h[i] \in Int
  OBVIOUS
<1>3. \A i \in 1 .. j : f[i] \in Int /\ h[i] \in Int
  OBVIOUS
<1> HIDE DEF j
<1>4. Sum(f, j + 1) = Sum(f, j) + f[j + 1] /\ Sum(h, j + 1) = Sum(h, j) + h[j + 1]
  BY <1>1, <1>2, SumNext
<1>5. Sum(f, j) \in Int /\ Sum(h, j) \in Int
  BY <1>1, <1>3, SumInt
<1>6. f[k] \in Int /\ h[k] \in Int
  BY <1>2
<1> QED BY <1>1, <1>4, <1>5, <1>6 DEF j

LEMMA SumPairs ==
  ASSUME NEW f, NEW h, NEW n \in Nat, NEW half \in Nat, 2 * half <= n, SamePairs(f, h, n, half)
  PROVE  Sum(f, n) = Sum(h, n)
<1> DEFINE Lead(k) == Sum(f, k) - Sum(h, k)
           P == {k \in Nat : k <= half => Lead(half + k) = Lead(half) - Lead(k)}
           R == {k \in Nat : 2 * half + k <= n => Lead(2 * half + k) = 0}
<1>1. /\ \A i \in 1 .. n : f[i] \in Int /\ h[i] \in Int
      /\ \A i \in 1 .. half : f[i] + f[half + i] = h[i] + h[half + i]
      /\ \A i \in 1 .. n : i > 2 * half => f[i] = h[i]
  BY DEF SamePairs
<1>2. ASSUME NEW k \in 1 .. n
      PROVE  Lead(k) = Lead(k - 1) + (f[k] - h[k]) /\ Lead(k - 1) \in Int /\ Lead(k) \in Int
  <2>1. /\ Sum(f, k) = Sum(f, k - 1) + f[k] /\ Sum(h, k) = Sum(h, k - 1) + h[k]
        /\ Sum(f, k - 1) \in Int /\ Sum(h, k - 1) \in Int
        /\ f[k] \in Int /\ h[k] \in Int
    BY <1>1, SumStep
  <2> QED BY <2>1
<1>3. Lead(0) = 0
  BY SumEmpty
<1>4. \A k \in 0 .. n : Lead(k) \in Int
  <2> SUFFICES ASSUME NEW k \in 0 .. n PROVE Lead(k) \in Int
    OBVIOUS
  <2>1. CASE k = 0
    BY <1>3, <2>1
  <2>2. CASE k # 0
    BY <1>2, <2>2
  <2> QED BY <2>1, <2>2
<1> HIDE DEF Lead
<1>5. 0 \in P
  <2>1. half \in 0 .. n /\ half + 0 = half
    OBVIOUS
  <2> QED BY <1>3, <1>4, <2>1
<1>6. ASSUME NEW k \in Nat, k \in P PROVE k + 1 \in P
  <2> SUFFICES ASSUME k + 1 <= half PROVE Lead(half + (k + 1)) = Lead(half) - Lead(k + 1)
    OBVIOUS
  <2> DEFINE a == k + 1
             b == half + a
  <2>1. a \in 1 .. n /\ a \in 1 .. half /\ b \in 1 .. n /\ a - 1 = k /\ b - 1 = half + k
    OBVIOUS
  <2>2. half \in 0 .. n /\ k \in 0 .. n /\ half + k \in 0 .. n /\ k <= half
    OBVIOUS
  <2>3. f[a] + f[b] = h[a] + h[b]
    BY <1>1, <2>1
  <2>4. /\ f[a] \in Int /\ f[b] \in Int /\ h[a] \in Int /\ h[b] \in Int
        /\ Lead(half) \in Int /\ Lead(k) \in Int /\ Lead(half + k) \in Int
    BY <1>1, <1>4, <2>1, <2>2
  <2>5. Lead(a) = Lead(k) + (f[a] - h[a])
    BY <1>2, <2>1
  <2>6. Lead(b) = Lead(half + k) + (f[b] - h[b])
    BY <1>2, <2>1
  <2>7. Lead(half + k) = Lead(half) - Lead(k)
    BY <1>6, <2>2
  <2> HIDE DEF a, b
  <2>8. Lead(b) = Lead(half) - Lead(a)
    BY <2>3, <2>4, <2>5, <2>6, <2>7
  <2> QED BY <2>8 DEF a, b
<1>7. half \in P
  <2> HIDE DEF P
  <2> QED BY <1>5, <1>6, Induction
<1>8. Lead(2 * half) = 0
  <2>1. half + half = 2 * half /\ half \in 0 .. n
    OBVIOUS
  <2>2. Lead(half) \in Int
    BY <1>4, <2>1
  <2> QED BY <1>7, <2>1, <2>2
<1>9. 0 \in R
  BY <1>8
<1>10. ASSUME NEW k \in Nat, k \in R PROVE k + 1 \in R
  <2> SUFFICES ASSUME 2 * half + (k + 1) <= n PROVE Lead(2 * half + (k + 1)) = 0
    OBVIOUS
  <2> DEFINE b == 2 * half + (k + 1)
  <2>1. b \in 1 .. n /\ b - 1 = 2 * half + k /\ b > 2 * half /\ 2 * half + k <= n
    OBVIOUS
  <2>2. f[b] = h[b] /\ f[b] \in Int
    BY <1>1, <2>1
  <2>3. Lead(b - 1) = 0
    BY <1>10, <2>1
  <2>4. Lead(b) = Lead(b - 1) + (f[b] - h[b])
    BY <1>2, <2>1
  <2> HIDE DEF b
  <2>5. Lead(b) = 0
    BY <2>2, <2>3, <2>4
  <2> QED BY <2>5 DEF b
<1>11. \A k \in Nat : k \in R
  <2> HIDE DEF R
  <2> QED BY <1>9, <1>10, Induction
<1>12. Lead(n) = 0
  <2> DEFINE k == n - 2 * half
  <2>1. k \in Nat /\ 2 * half + k = n
    OBVIOUS
  <2>2. k \in R
    BY <1>11, <2>1
  <2> QED BY <2>1, <2>2
<1>13. Sum(f, n) \in Int /\ Sum(h, n) \in Int
  BY <1>1, SumInt
<1> QED BY <1>12, <1>13 DEF Lead

-----------------------------------------------------------------------------
(* Turns.                                                                  *)
LEMMA QuarterTurns ==
  ASSUME NEW a \in Int, NEW d \in Int
  PROVE  /\ A!Cos(a) \in Int /\ A!Sin(a) \in Int
         /\ \/ A!Cos(a + d) = A!Cos(a) /\ A!Sin(a + d) = A!Sin(a) /\ d % 4 = 0
            \/ A!Cos(a + d) = -A!Sin(a) /\ A!Sin(a + d) = A!Cos(a) /\ d % 4 = 1
            \/ A!Cos(a + d) = -A!Cos(a) /\ A!Sin(a + d) = -A!Sin(a) /\ d % 4 = 2
            \/ A!Cos(a + d) = A!Sin(a) /\ A!Sin(a + d) = -A!Cos(a) /\ d % 4 = 3
<1> DEFINE r == a % 4
           s == d % 4
           t == (a + d) % 4
<1>1. r \in 0 .. 3 /\ s \in 0 .. 3 /\ t = IF r + s < 4 THEN r + s ELSE r + s - 4
  OBVIOUS
<1>2. A!Cos(a) = <<1, 0, -1, 0>>[1 + r] /\ A!Sin(a) = <<0, 1, 0, -1>>[1 + r]
  BY DEF A!Cos, A!Sin
<1>3. A!Cos(a + d) = <<1, 0, -1, 0>>[1 + t] /\ A!Sin(a + d) = <<0, 1, 0, -1>>[1 + t]
  BY DEF A!Cos, A!Sin
<1> HIDE DEF r, t
<1> DEFINE C(x) == <<1, 0, -1, 0>>[1 + x]
           S(x) == <<0, 1, 0, -1>>[1 + x]
<1>4. /\ C(0) = 1 /\ C(1) = 0 /\ C(2) = -1 /\ C(3) = 0
      /\ S(0) = 0 /\ S(1) = 1 /\ S(2) = 0 /\ S(3) = -1
  OBVIOUS
<1>5. /\ A!Cos(a) = C(r) /\ A!Sin(a) = S(r) /\ A!Cos(a + d) = C(t) /\ A!Sin(a + d) = S(t)
  BY <1>2, <1>3
<1> HIDE DEF C, S, s
<1>6. r \in {0, 1, 2, 3} /\ s \in {0, 1, 2, 3}
  BY <1>1
<1>7. CASE s = 0
  BY <1>1, <1>4, <1>5, <1>6, <1>7 DEF s
<1>8. CASE s = 1
  BY <1>1, <1>4, <1>5, <1>6, <1>8 DEF s
<1>9. CASE s = 2
  BY <1>1, <1>4, <1>5, <1>6, <1>9 DEF s
<1>10. CASE s = 3
  BY <1>1, <1>4, <1>5, <1>6, <1>10 DEF s
<1> QED BY <1>6, <1>7, <1>8, <1>9, <1>10

(* Two pairs that are turned by the same angle keep their product.         *)
First(x, x2, a) == x * A!Cos(a) - x2 * A!Sin(a)
Second(x, x2, a) == x2 * A!Cos(a) + x * A!Sin(a)

IsTurn(p, q, p2, q2, r) ==
  /\ p \in Int /\ q \in Int /\ p2 \in Int /\ q2 \in Int
  /\ r = 0 => p2 = p /\ q2 = q
  /\ r = 1 => p2 = -q /\ q2 = p
  /\ r = 2 => p2 = -p /\ q2 = -q
  /\ r = 3 => p2 = q /\ q2 = -p

LEMMA TurnedFurther ==
  ASSUME NEW x \in Int, NEW x2 \in Int, NEW a \in Int, NEW d \in Int
  PROVE  IsTurn(First(x, x2, a), Second(x, x2, a), First(x, x2, a + d), Second(x, x2, a + d), d % 4)
<1> DEFINE c == A!Cos(a)
           s == A!Sin(a)
           c2 == A!Cos(a + d)
           s2 == A!Sin(a + d)
           r == d % 4
<1>1. /\ c \in Int /\ s \in Int
      /\ \/ c2 = c /\ s2 = s /\ r = 0
         \/ c2 = -s /\ s2 = c /\ r = 1
         \/ c2 = -c /\ s2 = -s /\ r = 2
         \/ c2 = s /\ s2 = -c /\ r = 3
  BY QuarterTurns
<1>2. c2 \in Int /\ s2 \in Int
  BY <1>1
<1> HIDE DEF c, s, c2, s2, r
<1>3. x * c - x2 * s \in Int /\ x2 * c + x * s \in Int /\ x * c2 - x2 * s2 \in Int /\ x2 * c2 + x * s2 \in Int
  BY <1>1, <1>2
<1>4. /\ x * (-s) - x2 * c = -(x2 * c + x * s) /\ x2 * (-s) + x * c = x * c - x2 * s
      /\ x * (-c) - x2 * (-s) = -(x * c - x2 * s) /\ x2 * (-c) + x * (-s) = -(x2 * c + x * s)
      /\ x * s - x2 * (-c) = x2 * c + x * s /\ x2 * s + x * (-c) = -(x * c - x2 * s)
  BY <1>1
<1>5. /\ r = 0 => x * c2 - x2 * s2 = x * c - x2 * s /\ x2 * c2 + x * s2 = x2 * c + x * s
      /\ r = 1 => x * c2 - x2 * s2 = -(x2 * c + x * s) /\ x2 * c2 + x * s2 = x * c - x2 * s
      /\ r = 2 => x * c2 - x2 * s2 = -(x * c - x2 * s) /\ x2 * c2 + x * s2 = -(x2 * c + x * s)
      /\ r = 3 => x * c2 - x2 * s2 = x2 * c + x * s /\ x2 * c2 + x * s2 = -(x * c - x2 * s)
  BY <1>1, <1>4
<1> QED BY <1>3, <1>5 DEF IsTurn, First, Second, c, s, c2, s2, r

LEMMA PairsKeep ==
  ASSUME NEW p, NEW q, NEW p2, NEW q2, NEW s, NEW t, NEW s2, NEW t2, NEW r \in 0 .. 3,
         IsTurn(p, q, p2, q2, r), IsTurn(s, t, s2, t2, r)
  PROVE  p * s + q * t = p2 * s2 + q2 * t2
<1>1. (-q) * (-t) = q * t /\ (-p) * (-s) = p * s
  BY DEF IsTurn
<1>2. r \in {0, 1, 2, 3}
  OBVIOUS
<1> QED BY <1>1, <1>2 DEF IsTurn

(* A rotated head is made of such pairs.                                   *)
Half == Rot \div 2

LEMMA HalfIs == Half \in Nat /\ 2 * Half = Rot /\ Rot <= D /\ D \in Nat
BY HeadAssumption DEF Half

IsRotated(l, x, angle) ==
  /\ \A j \in 0 .. Half - 1 : /\ l[j] = First(x[j], x[Half + j], angle[j])
                              /\ l[Half + j] = Second(x[j], x[Half + j], angle[j])
  /\ \A d \in 0 .. D - 1 : d >= Rot => l[d] = x[d]

LEMMA RotatedIs ==
  ASSUME NEW x \in [0 .. D - 1 -> Int], NEW angle \in [0 .. Half - 1 -> Int]
  PROVE  IsRotated(A!Rotated(x, angle), x, angle)
<1> DEFINE l == A!Rotated(x, angle)
<1>0. Half \in Nat /\ 2 * Half = Rot /\ Rot <= D /\ D \in Nat
  BY HalfIs
<1>1. ASSUME NEW d \in 0 .. D - 1
      PROVE  l[d] = IF d >= Rot THEN x[d]
                    ELSE IF d < Half
                    THEN x[d] * A!Cos(angle[d % Half]) - x[d + Half] * A!Sin(angle[d % Half])
                    ELSE x[d] * A!Cos(angle[d % Half]) + x[d - Half] * A!Sin(angle[d % Half])
  BY DEF A!Rotated, Half
<1> HIDE DEF l
<1>2. ASSUME NEW j \in 0 .. Half - 1
      PROVE  /\ l[j] = First(x[j], x[Half + j], angle[j])
             /\ l[Half + j] = Second(x[j], x[Half + j], angle[j])
  <2> DEFINE k == Half + j
             c == A!Cos(angle[j])
             s == A!Sin(angle[j])
  <2>1. /\ j \in 0 .. D - 1 /\ k \in 0 .. D - 1 /\ ~ (j >= Rot) /\ ~ (k >= Rot)
        /\ j < Half /\ ~ (k < Half) /\ j + Half = k /\ k - Half = j /\ Half \in Nat \ {0}
    BY <1>0
  <2>2. j % Half = j /\ k % Half = j
    <3> DEFINE none == 0
               one == 1
    <3> HIDE DEF none, one
    <3>1. (Half * none + j) % Half = j /\ (Half * one + j) % Half = j
      <4>1. none \in Nat /\ one \in Nat /\ j \in Nat
        BY DEF none, one
      <4> QED BY <2>1, <4>1, DivUnique
    <3>2. Half * none + j = j /\ Half * one + j = k
      BY <1>0 DEF none, one
    <3> QED BY <3>1, <3>2
  <2> HIDE DEF k
  <2>3. l[j] = x[j] * c - x[k] * s
    BY <1>1, <2>1, <2>2
  <2>4. l[k] = x[k] * c + x[j] * s
    BY <1>1, <2>1, <2>2
  <2> QED BY <2>3, <2>4 DEF First, Second, k
<1>3. \A d \in 0 .. D - 1 : d >= Rot => l[d] = x[d]
  BY <1>1
<1> QED BY <1>2, <1>3 DEF IsRotated, l

LEMMA AnglesAre ==
  ASSUME NEW u \in [1 .. 3 -> Int]
  PROVE  /\ A!Angles(Freq, u) \in [0 .. Half - 1 -> Int]
         /\ \A j \in 0 .. Half - 1 : /\ 1 + (j % 3) \in 1 .. 3 /\ Freq[j] \in Int
                                     /\ A!Angles(Freq, u)[j] = Freq[j] * u[1 + (j % 3)]
<1>1. Freq \in [0 .. Half - 1 -> Int]
  BY HeadAssumption DEF Half
<1>2. \A j \in 0 .. Half - 1 : 1 + (j % 3) \in 1 .. 3
  BY HalfIs
<1>3. A!Angles(Freq, u) = [j \in 0 .. Half - 1 |-> Freq[j] * u[1 + (j % 3)]]
  BY DEF A!Angles, Half
<1>4. ASSUME NEW j \in 0 .. Half - 1 PROVE Freq[j] \in Int /\ Freq[j] * u[1 + (j % 3)] \in Int
  <2> DEFINE a == 1 + (j % 3)
  <2>1. a \in 1 .. 3
    BY <1>2
  <2> HIDE DEF a
  <2>2. Freq[j] \in Int /\ u[a] \in Int
    BY <1>1, <2>1
  <2>3. Freq[j] * u[a] \in Int
    BY <2>2
  <2> QED BY <2>2, <2>3 DEF a
<1> QED BY <1>2, <1>3, <1>4

Moved(u, v) == [i \in 1 .. 3 |-> u[i] + v[i]]

(* Scores depend on distances.                                             *)
LEMMA ScoreMoves ==
  ASSUME NEW x \in [0 .. D - 1 -> Int], NEW y \in [0 .. D - 1 -> Int],
         NEW u \in [1 .. 3 -> Int], NEW v \in [1 .. 3 -> Int], NEW by \in [1 .. 3 -> Int]
  PROVE  Score(x, u, y, v) = Score(x, Moved(u, by), y, Moved(v, by))
<1> DEFINE a == A!Angles(Freq, u)
           b == A!Angles(Freq, v)
           a2 == A!Angles(Freq, Moved(u, by))
           b2 == A!Angles(Freq, Moved(v, by))
           l == A!Rotated(x, a)
           r == A!Rotated(y, b)
           l2 == A!Rotated(x, a2)
           r2 == A!Rotated(y, b2)
           f == [d \in 1 .. D |-> l[d - 1] * r[d - 1]]
           h == [d \in 1 .. D |-> l2[d - 1] * r2[d - 1]]
<1>0. Half \in Nat /\ 2 * Half = Rot /\ Rot <= D /\ D \in Nat
  BY HalfIs
<1>1. Moved(u, by) \in [1 .. 3 -> Int] /\ Moved(v, by) \in [1 .. 3 -> Int]
  BY SMTT(30) DEF Moved
<1>2. /\ a \in [0 .. Half - 1 -> Int] /\ b \in [0 .. Half - 1 -> Int]
      /\ a2 \in [0 .. Half - 1 -> Int] /\ b2 \in [0 .. Half - 1 -> Int]
  BY <1>1, AnglesAre
<1>3. ASSUME NEW j \in 0 .. Half - 1
      PROVE  \E d \in Int : a2[j] = a[j] + d /\ b2[j] = b[j] + d
  <2> DEFINE i == 1 + (j % 3)
             d == Freq[j] * by[i]
  <2>1. /\ i \in 1 .. 3 /\ Freq[j] \in Int
        /\ a[j] = Freq[j] * u[i] /\ b[j] = Freq[j] * v[i]
        /\ a2[j] = Freq[j] * Moved(u, by)[i] /\ b2[j] = Freq[j] * Moved(v, by)[i]
    BY <1>1, AnglesAre
  <2> HIDE DEF i
  <2>2. Moved(u, by)[i] = u[i] + by[i] /\ Moved(v, by)[i] = v[i] + by[i]
    BY <2>1 DEF Moved
  <2>3. u[i] \in Int /\ v[i] \in Int /\ by[i] \in Int
    BY <2>1
  <2> DEFINE q == Freq[j]
             ui == u[i]
             vi == v[i]
             bi == by[i]
  <2>4. q \in Int /\ ui \in Int /\ vi \in Int /\ bi \in Int
    BY <2>1, <2>3
  <2>5. a2[j] = q * (ui + bi) /\ b2[j] = q * (vi + bi) /\ a[j] = q * ui /\ b[j] = q * vi
    BY <2>1, <2>2
  <2> HIDE DEF q, ui, vi, bi, a, b, a2, b2
  <2>6. q * (ui + bi) = q * ui + q * bi /\ q * (vi + bi) = q * vi + q * bi /\ q * bi \in Int
    BY <2>4
  <2> DEFINE e == q * bi
  <2> HIDE DEF e
  <2>7. e \in Int /\ a2[j] = a[j] + e /\ b2[j] = b[j] + e
    BY <2>5, <2>6 DEF e
  <2> QED BY <2>7
<1>4. /\ IsRotated(l, x, a) /\ IsRotated(r, y, b) /\ IsRotated(l2, x, a2) /\ IsRotated(r2, y, b2)
  BY <1>2, RotatedIs
<1> HIDE DEF a, b, a2, b2, l, r, l2, r2
<1>5. ASSUME NEW j \in 0 .. Half - 1
      PROVE  /\ l[j] * r[j] + l[Half + j] * r[Half + j]
                  = l2[j] * r2[j] + l2[Half + j] * r2[Half + j]
             /\ {l[j], r[j], l2[j], r2[j], l[Half + j], r[Half + j], l2[Half + j], r2[Half + j]}
                  \subseteq Int
  <2> DEFINE k == Half + j
             aj == a[j]
             bj == b[j]
             x1 == x[j]
             x2 == x[k]
             y1 == y[j]
             y2 == y[k]
  <2>1. j \in 0 .. D - 1 /\ k \in 0 .. D - 1
    BY <1>0
  <2>2. x1 \in Int /\ x2 \in Int /\ y1 \in Int /\ y2 \in Int /\ aj \in Int /\ bj \in Int
    <3> HIDE DEF k
    <3> QED BY <1>2, <2>1
  <2>3. PICK d \in Int : a2[j] = aj + d /\ b2[j] = bj + d
    BY <1>3
  <2>4. /\ l[j] = First(x1, x2, aj) /\ l[k] = Second(x1, x2, aj)
        /\ r[j] = First(y1, y2, bj) /\ r[k] = Second(y1, y2, bj)
        /\ l2[j] = First(x1, x2, aj + d) /\ l2[k] = Second(x1, x2, aj + d)
        /\ r2[j] = First(y1, y2, bj + d) /\ r2[k] = Second(y1, y2, bj + d)
    BY <1>4, <2>3 DEF IsRotated
  <2> HIDE DEF k, aj, bj, x1, x2, y1, y2
  <2>5. /\ IsTurn(l[j], l[k], l2[j], l2[k], d % 4)
        /\ IsTurn(r[j], r[k], r2[j], r2[k], d % 4)
    BY <2>2, <2>4, TurnedFurther, ZenonT(60)
  <2>6. l[j] * r[j] + l[k] * r[k] = l2[j] * r2[j] + l2[k] * r2[k]
    <3>1. d % 4 \in 0 .. 3
      OBVIOUS
    <3> DEFINE turns == d % 4
    <3> HIDE DEF turns
    <3>2. turns \in 0 .. 3 /\ IsTurn(l[j], l[k], l2[j], l2[k], turns)
          /\ IsTurn(r[j], r[k], r2[j], r2[k], turns)
      BY <2>5, <3>1 DEF turns
    <3> QED BY <3>2, PairsKeep
  <2>7. {l[j], r[j], l2[j], r2[j], l[k], r[k], l2[k], r2[k]} \subseteq Int
    BY <2>5 DEF IsTurn
  <2> QED BY <2>6, <2>7 DEF k
<1>6. ASSUME NEW d \in 0 .. D - 1, d >= Rot
      PROVE  l[d] = l2[d] /\ r[d] = r2[d] /\ l[d] \in Int /\ r[d] \in Int
  BY <1>4, <1>6 DEF IsRotated
<1>7. ASSUME NEW i \in 1 .. D PROVE f[i] \in Int /\ h[i] \in Int
  <2> DEFINE d == i - 1
  <2>1. d \in 0 .. D - 1 /\ f[i] = l[d] * r[d] /\ h[i] = l2[d] * r2[d]
    BY <1>0
  <2> HIDE DEF d, f, h
  <2>2. l[d] \in Int /\ r[d] \in Int /\ l2[d] \in Int /\ r2[d] \in Int
    <3>1. CASE d >= Rot
      BY <1>6, <2>1, <3>1
    <3>2. CASE d < Half
      <4>1. d \in 0 .. Half - 1
        BY <1>0, <2>1, <3>2
      <4> QED BY <1>5, <4>1
    <3>3. CASE ~ (d >= Rot) /\ ~ (d < Half)
      <4> DEFINE j == d - Half
      <4>1. j \in 0 .. Half - 1 /\ Half + j = d
        BY <1>0, <2>1, <3>3
      <4> HIDE DEF j
      <4> QED BY <1>5, <4>1
    <3> QED BY <3>1, <3>2, <3>3
  <2>3. l[d] * r[d] \in Int /\ l2[d] * r2[d] \in Int
    <3>1. \A m, n \in Int : m * n \in Int
      OBVIOUS
    <3> QED BY <2>2, <3>1, Zenon
  <2> QED BY <2>1, <2>3
<1>8. ASSUME NEW i \in 1 .. Half PROVE f[i] + f[Half + i] = h[i] + h[Half + i]
  <2> DEFINE j == i - 1
  <2>1. j \in 0 .. Half - 1 /\ i \in 1 .. D /\ Half + i \in 1 .. D /\ (Half + i) - 1 = Half + j
    BY <1>0
  <2>2. f[i] = l[j] * r[j] /\ h[i] = l2[j] * r2[j]
    BY <2>1
  <2>3. f[Half + i] = l[Half + j] * r[Half + j] /\ h[Half + i] = l2[Half + j] * r2[Half + j]
    BY <2>1
  <2> HIDE DEF j, f, h
  <2> QED BY <1>5, <2>1, <2>2, <2>3
<1>9. ASSUME NEW i \in 1 .. D, i > 2 * Half PROVE f[i] = h[i]
  <2> DEFINE d == i - 1
  <2>1. d \in 0 .. D - 1 /\ d >= Rot /\ f[i] = l[d] * r[d] /\ h[i] = l2[d] * r2[d]
    BY <1>0, <1>9
  <2> HIDE DEF d, f, h
  <2>2. l[d] = l2[d] /\ r[d] = r2[d]
    BY <1>6, <2>1
  <2> QED BY <2>1, <2>2
<1>10. SamePairs(f, h, D, Half)
  <2> HIDE DEF f, h
  <2> QED BY <1>7, <1>8, <1>9 DEF SamePairs
<1>11. Score(x, u, y, v) = Sum(f, D) /\ Score(x, Moved(u, by), y, Moved(v, by)) = Sum(h, D)
  BY Zenon DEF Score, a, b, a2, b2, l, r, l2, r2
<1> HIDE DEF f, h
<1>12. Sum(f, D) = Sum(h, D)
  BY <1>0, <1>10, SumPairs
<1> QED BY <1>11, <1>12

-----------------------------------------------------------------------------
RowAt(done, at) ==
  LET rows == done.pass.rows
  IN rows[CHOOSE i \in DOMAIN rows : rows[i].slot = at]

(* After any calls, a position is decoded as at first, and stored and      *)
(* rotated as by a pass of more rows.                                      *)
LEMMA DecodesAlike ==
  ASSUME NEW x, Ready(x), x \in Kept(x), NEW m \in Kept(x), NEW at \in Nat
  PROVE  /\ F!model_decode([m EXCEPT !.use_graph = FALSE], at).pass = Decoded(x, at)
         /\ F!model_decode([m EXCEPT !.use_graph = TRUE], at).pass = Decoded(x, at)
         /\ F!model_decode([x EXCEPT !.use_graph = TRUE], at).pass = Decoded(x, at)
         /\ Decoded(x, at).splits \in 1 .. x.workspace
<1>1. Decoded(x, at).splits = IF x.graphs = <<>> THEN x.graph_splits
                              ELSE x.graphs[F!model_graph_bucket(x, at + 1)].splits
  BY DEF Decoded
<1>2. Decoded(x, at).splits \in 1 .. x.workspace
  <2>1. CASE x.graphs = <<>>
    BY <1>1, <2>1 DEF Ready
  <2>2. CASE x.graphs # <<>>
    <3>1. at + 1 \in Nat
      OBVIOUS
    <3>2. x.graphs[F!model_graph_bucket(x, at + 1)].splits \in 1 .. x.workspace
      BY <2>2, <3>1, BucketIn
    <3> QED BY <1>1, <2>2, <3>2
  <2> QED BY <2>1, <2>2
<1>3. TRUE \in BOOLEAN /\ FALSE \in BOOLEAN
  OBVIOUS
<1> QED BY <1>2, <1>3, DecodedIs, Zenon

LEMMA RowsAlike ==
  ASSUME NEW x, Ready(x), NEW m \in Kept(x), NEW at \in Nat,
         NEW n \in Nat \ {0}, NEW from \in Nat, from <= at, at < from + n
  PROVE  /\ RowAt(F!model_prefill(m, n, from), at) = Decoded(x, at).rows[1]
         /\ x.mrope_delta = 0 =>
              RowAt(F!model_forward_all_logits(m, n, from), at) = Decoded(x, at).rows[1]
<1> DEFINE delta == x.mrope_delta
           row(shift) == [slot |-> at, at |-> at + shift]
<1>1. delta \in Int
  BY DEF Ready
<1>2. Decoded(x, at).rows[1] = row(delta)
  BY DEF Decoded
<1>3. /\ F!model_prefill(m, n, from).pass.rows = F!Rows(n, from, delta)
      /\ F!model_forward_all_logits(m, n, from).pass.rows = F!Rows(n, from, 0)
  BY PassesKeep
<1> HIDE DEF delta
<1>4. RowAt(F!model_prefill(m, n, from), at) = row(delta)
  BY <1>1, <1>3, RowIs DEF RowAt
<1>5. RowAt(F!model_forward_all_logits(m, n, from), at) = row(0)
  BY <1>3, RowIs DEF RowAt
<1> QED BY <1>2, <1>4, <1>5 DEF delta

(* What PassesAgree says of a pass, and of a rotation.                     *)
PassAgrees(limit, free, captured, delta, before, at) ==
  LET fresh == FreshModel(limit, free, captured, delta)
      m == After(fresh, before)
      decode(x, graph) == F!model_decode([x EXCEPT !.use_graph = graph], at)
      pass == decode(m, TRUE).pass
  IN at < fresh.max_ctx =>
       /\ decode(m, FALSE).pass = pass
       /\ decode(fresh, TRUE).pass = pass
       /\ pass.splits \in 1 .. fresh.workspace
       /\ \A n \in 1 .. MaxRows : \A from \in {p \in at - n + 1 .. at : p >= 0} :
            /\ RowAt(F!model_prefill(m, n, from), at) = pass.rows[1]
            /\ delta = 0 => RowAt(F!model_forward_all_logits(m, n, from), at) = pass.rows[1]

RopeAgrees(pos) ==
  /\ \A x, y \in Vectors, by, v \in Points :
       Score(x, pos, y, v) = Score(x, Moved(pos, by), y, Moved(v, by))
  /\ A!AnglesDev(Freq, pos[1]) = A!Angles(Freq, <<pos[1], pos[1], pos[1]>>)

LEMMA AgreeIs ==
  /\ Is("pass") => PassAgrees(asked.limit, asked.free, asked.captured, asked.delta, asked.before,
                              asked.at)
  /\ Is("rope") => RopeAgrees(asked.pos)
  => PassesAgree
BY Zenon DEF PassesAgree, PassAgrees, RopeAgrees, FreshModel, RowAt, Moved

(* However a row is computed, and whatever was called before, it has the   *)
(* same slot, rotation and splits; and scores depend on distances only:    *)
(* for every model, context, number of calls and position (PassesAgree).   *)
THEOREM Passes == PassSpec => []PassesAgree
<1>1. PassAsked => PassesAgree
  <2> SUFFICES ASSUME NEW limit \in Limits, NEW free \in Frees, NEW captured \in BOOLEAN,
                      NEW delta \in Deltas, NEW before \in Texts(PriorCalls, MaxCalls),
                      NEW at \in Places, F!Starts(limit, free),
                      asked = [op |-> "pass", limit |-> limit, free |-> free,
                               captured |-> captured, delta |-> delta, before |-> before,
                               at |-> at]
               PROVE  PassesAgree
    BY DEF PassAsked
  <2> DEFINE fresh == FreshModel(limit, free, captured, delta)
             m == After(fresh, before)
             decode(x, graph) == F!model_decode([x EXCEPT !.use_graph = graph], at)
             pass == decode(m, TRUE).pass
  <2>1. Ready(fresh) /\ fresh \in Kept(fresh) /\ fresh.mrope_delta = delta
    BY FreshIs
  <2>2. at \in Nat /\ MaxRows \in Nat
    BY ModelAssumption
  <2>3. /\ asked.op = "pass" /\ asked.limit = limit /\ asked.free = free
        /\ asked.captured = captured /\ asked.delta = delta /\ asked.before = before
        /\ asked.at = at
    OBVIOUS
  <2> HIDE DEF fresh
  <2>4. m \in Kept(fresh)
    BY <2>1, CallsKeep
  <2> HIDE DEF m
  <2>5. /\ decode(m, FALSE).pass = Decoded(fresh, at) /\ pass = Decoded(fresh, at)
        /\ decode(fresh, TRUE).pass = Decoded(fresh, at)
        /\ Decoded(fresh, at).splits \in 1 .. fresh.workspace
    BY <2>1, <2>2, <2>4, DecodesAlike
  <2> HIDE DEF decode, pass
  <2>6. ASSUME NEW n \in 1 .. MaxRows, NEW from \in {p \in at - n + 1 .. at : p >= 0}
        PROVE  /\ RowAt(F!model_prefill(m, n, from), at) = pass.rows[1]
               /\ delta = 0 => RowAt(F!model_forward_all_logits(m, n, from), at) = pass.rows[1]
    <3>1. n \in Nat \ {0} /\ from \in Nat /\ from <= at /\ at < from + n
      BY <2>2
    <3> QED BY <2>1, <2>2, <2>4, <2>5, <3>1, RowsAlike
  <2>7. /\ decode(m, FALSE).pass = pass
        /\ decode(fresh, TRUE).pass = pass
        /\ pass.splits \in 1 .. fresh.workspace
        /\ \A n \in 1 .. MaxRows : \A from \in {p \in at - n + 1 .. at : p >= 0} :
             /\ RowAt(F!model_prefill(m, n, from), at) = pass.rows[1]
             /\ delta = 0 => RowAt(F!model_forward_all_logits(m, n, from), at) = pass.rows[1]
    BY <2>5, <2>6
  <2>8. ~ Is("rope")
    BY <2>3 DEF Is
  <2>9. PassAgrees(limit, free, captured, delta, before, at)
    BY <2>7, Zenon DEF PassAgrees, pass, decode, m, fresh
  <2> QED BY <2>3, <2>8, <2>9, AgreeIs
<1>2. RopeAsked => PassesAgree
  <2> SUFFICES ASSUME NEW pos \in Points, asked = [op |-> "rope", pos |-> pos]
               PROVE  PassesAgree
    BY DEF RopeAsked
  <2>1. asked.op = "rope" /\ asked.pos = pos
    OBVIOUS
  <2>2. /\ Points \subseteq [1 .. 3 -> Int] /\ Vectors \subseteq [0 .. D - 1 -> Int]
    BY HeadAssumption
  <2>3. ASSUME NEW x \in Vectors, NEW y \in Vectors, NEW by \in Points, NEW v \in Points
        PROVE  Score(x, pos, y, v) = Score(x, Moved(pos, by), y, Moved(v, by))
    BY <2>2, ScoreMoves
  <2> DEFINE p == pos[1]
  <2>4. A!AnglesDev(Freq, p) = A!Angles(Freq, <<p, p, p>>)
    <3> HIDE DEF p
    <3>1. \A j \in 0 .. Rot \div 2 - 1 : <<p, p, p>>[1 + (j % 3)] = p
      <4> SUFFICES ASSUME NEW j \in 0 .. Rot \div 2 - 1 PROVE <<p, p, p>>[1 + (j % 3)] = p
        OBVIOUS
      <4>1. j \in Nat
        BY HeadAssumption
      <4>2. 1 + (j % 3) \in {1, 2, 3}
        BY <4>1
      <4> DEFINE i == 1 + (j % 3)
      <4> HIDE DEF i
      <4>3. i \in {1, 2, 3}
        BY <4>2 DEF i
      <4>4. <<p, p, p>>[i] = p
        BY <4>3
      <4> QED BY <4>4 DEF i
    <3>2. A!Angles(Freq, <<p, p, p>>)
            = [j \in 0 .. Rot \div 2 - 1 |-> Freq[j] * <<p, p, p>>[1 + (j % 3)]]
      BY DEF A!Angles
    <3>3. A!AnglesDev(Freq, p) = [j \in 0 .. Rot \div 2 - 1 |-> Freq[j] * p]
      BY DEF A!AnglesDev
    <3> QED BY <3>1, <3>2, <3>3
  <2>5. ~ Is("pass")
    BY <2>1 DEF Is
  <2>6. RopeAgrees(pos)
    BY <2>3, <2>4 DEF RopeAgrees
  <2> QED BY <2>1, <2>5, <2>6, AgreeIs
<1>3. SomeAsked => PassesAgree
  <2>1. ASSUME asked.op \notin {"pass", "rope"} PROVE PassesAgree
    BY <2>1 DEF PassesAgree, Is
  <2>2. asked = [op |-> "nothing"] => asked.op = "nothing"
    OBVIOUS
  <2> QED BY <1>1, <1>2, <2>1, <2>2, Kinds DEF SomeAsked
<1> QED BY <1>3, PassQuestions, PTL

-----------------------------------------------------------------------------
(* Where a number of the cache lies.                                       *)
LEMMA Dimensions == \E w \in Nat \ {0} : D = 32 * w /\ D \div 2 = 16 * w /\ D \div 32 = w
<1>1. D \in Nat \ {0} /\ D % 32 = 0
  BY HeadAssumption
<1>2. D \div 32 \in Nat \ {0} /\ D = 32 * (D \div 32) /\ D \div 2 = 16 * (D \div 32)
  BY <1>1
<1> QED BY <1>2

PlaceOf(fmt, vec, d) ==
  IF fmt = "FP8" THEN [byte |-> vec * D + d, half |-> 0, scale |-> "none"]
  ELSE [byte |-> vec * (D \div 2) + d \div 2, half |-> d % 2, scale |-> vec * (D \div 32) + d \div 32]

LEMMA StoreIs ==
  ASSUME NEW fmt, NEW p, NEW h, NEW d \in Nat
  PROVE  A!store_kv(fmt, p, h, d) = PlaceOf(fmt, p * NKV + h, d)
<1>1. CASE fmt = "FP8"
  BY <1>1 DEF A!store_kv, A!Place, PlaceOf
<1>2. CASE fmt # "FP8"
  <2> DEFINE packer == d - (d % 2)
             byte(n) == (p * NKV + h) * (D \div 2) + n \div 2
             scale(n) == (p * NKV + h) * (D \div 32) + n \div 32
  <2>1. packer \div 2 = d \div 2 /\ packer \div 32 = d \div 32 /\ d - packer = d % 2
    OBVIOUS
  <2>2. A!store_kv(fmt, p, h, d) = [[byte |-> byte(packer), half |-> packer % 2, scale |-> scale(packer)]
                                      EXCEPT !.half = d - packer]
    BY <1>2, Zenon DEF A!store_kv, A!Place
  <2>3. byte(packer) = byte(d) /\ scale(packer) = scale(d)
    BY <2>1
  <2>4. PlaceOf(fmt, p * NKV + h, d) = [byte |-> byte(d), half |-> d % 2, scale |-> scale(d)]
    BY <1>2 DEF PlaceOf
  <2> HIDE DEF byte, scale, packer
  <2> QED BY <2>1, <2>2, <2>3, <2>4
<1> QED BY <1>1, <1>2

LEMMA LoadIs ==
  ASSUME NEW fmt, NEW p \in Nat, NEW h \in Nat, NEW d \in Nat
  PROVE  A!load_kv8(fmt, p, h, d - (d % 8), d % 8) = PlaceOf(fmt, p * NKV + h, d)
<1> DEFINE first == d - (d % 8)
           i == d % 8
           vec == p * NKV + h
<1>1. NKV \in Nat /\ D \in Nat
  BY HeadAssumption
<1>2. vec \in Nat /\ D \div 2 \in Nat /\ D \div 32 \in Nat
  BY <1>1
<1> HIDE DEF vec
<1>3. CASE fmt = "FP8"
  <2>1. first + 4 * (i \div 4) + (i % 4) = d
    OBVIOUS
  <2> DEFINE n == vec * D
  <2>2. n \in Nat
    BY <1>1, <1>2
  <2> HIDE DEF n
  <2>3. n + first + 4 * (i \div 4) + (i % 4) = n + d
    BY <2>1, <2>2
  <2>4. A!load_kv8(fmt, p, h, first, i) =
          [[byte |-> n + first, half |-> 0, scale |-> "none"]
             EXCEPT !.byte = n + first + 4 * (i \div 4) + (i % 4)]
    BY <1>3 DEF A!load_kv8, A!Place, vec, n
  <2>5. PlaceOf(fmt, vec, d) = [byte |-> n + d, half |-> 0, scale |-> "none"]
    BY <1>3 DEF PlaceOf, n
  <2> DEFINE zero == 0
             none == "none"
             b == n + first
             c == n + first + 4 * (i \div 4) + (i % 4)
  <2>6. [[byte |-> b, half |-> zero, scale |-> none] EXCEPT !.byte = c]
          = [byte |-> c, half |-> zero, scale |-> none]
    <3> HIDE DEF zero, none, b, c
    <3> QED OBVIOUS
  <2> QED BY <2>3, <2>4, <2>5, <2>6 DEF vec
<1>4. CASE fmt # "FP8"
  <2> DEFINE n == vec * (D \div 2)
             k == vec * (D \div 32)
             b == n + first \div 2
             byte == n + first \div 2 + i \div 2
             half == i % 2
             old == first % 2
             scale == k + first \div 32
  <2>1. n \in Nat /\ k \in Nat
    BY <1>2
  <2>2. A!load_kv8(fmt, p, h, first, i) =
          [[byte |-> b, half |-> old, scale |-> scale] EXCEPT !.byte = byte, !.half = half]
    BY <1>4 DEF A!load_kv8, A!Place, vec
  <2>3. first \div 2 + i \div 2 = d \div 2 /\ i % 2 = d % 2 /\ first \div 32 = d \div 32
    OBVIOUS
  <2> HIDE DEF n, k
  <2>4. byte = n + d \div 2 /\ half = d % 2 /\ scale = k + d \div 32
    BY <2>1, <2>3
  <2>5. PlaceOf(fmt, vec, d) = [byte |-> n + d \div 2, half |-> d % 2, scale |-> k + d \div 32]
    BY <1>4 DEF PlaceOf, n, k
  <2>6. [[byte |-> b, half |-> old, scale |-> scale] EXCEPT !.byte = byte, !.half = half]
          = [byte |-> byte, half |-> half, scale |-> scale]
    <3> DEFINE r == [byte |-> b, half |-> old, scale |-> scale]
               r1 == [r EXCEPT !.byte = byte]
               r2 == [r1 EXCEPT !.half = half]
    <3>1. r1 = [byte |-> byte, half |-> old, scale |-> scale]
      <4> HIDE DEF b, old, scale, byte, half
      <4> QED OBVIOUS
    <3>2. r2 = [byte |-> byte, half |-> half, scale |-> scale]
      <4> HIDE DEF r1, b, old, scale, byte, half
      <4> QED BY <3>1
    <3>3. [r EXCEPT !.byte = byte, !.half = half] = r2
      <4> HIDE DEF r, b, old, scale, byte, half
      <4> QED OBVIOUS
    <3> HIDE DEF r2, b, old, scale, byte, half
    <3> QED BY <3>2, <3>3
  <2>7. [byte |-> byte, half |-> half, scale |-> scale] = PlaceOf(fmt, vec, d)
    <3> HIDE DEF byte, half, scale
    <3> QED BY <2>4, <2>5
  <2>8. A!load_kv8(fmt, p, h, first, i) = PlaceOf(fmt, vec, d)
    BY <2>2, <2>6, <2>7, Zenon
  <2> QED BY <2>8 DEF vec
<1> QED BY <1>3, <1>4

LEMMA DequantIs ==
  ASSUME NEW fmt, NEW p \in Nat, NEW h \in Nat, NEW d \in Nat, NEW kv0 \in 0 .. p
  PROVE  A!k_kv_deq(fmt, kv0, A!TileElement(p - kv0, h, d)) = PlaceOf(fmt, p * NKV + h, d)
<1> DEFINE s == kv0 * NKV
           n == (p - kv0) * NKV + h
           i == A!TileElement(p - kv0, h, d)
<1>1. NKV \in Nat
  BY HeadAssumption
<1>2. PICK w \in Nat \ {0} : D = 32 * w /\ D \div 2 = 16 * w /\ D \div 32 = w
  BY Dimensions
<1>3. s \in Nat /\ n \in Nat /\ p * NKV + h = s + n
  BY <1>1
<1>4. i = n * D + d
  <2>1. i = (p - kv0) * (NKV * D) + h * D + d
    BY DEF A!TileElement
  <2>2. p - kv0 \in Nat /\ D \in Nat
    BY <1>2
  <2> DEFINE j == p - kv0
  <2> HIDE DEF j
  <2>3. j * (NKV * D) + h * D = (j * NKV + h) * D
    BY <1>1, <2>2 DEF j
  <2> QED BY <2>1, <2>3 DEF j
<1> HIDE DEF s, n, i
<1> DEFINE u == n * w
           t == s * w
<1>5. u \in Nat /\ t \in Nat /\ n * D = 32 * u /\ s * D = 32 * t /\ (s + n) * D = 32 * t + 32 * u
      /\ s * (16 * w) = 16 * t /\ (s + n) * (16 * w) = 16 * t + 16 * u /\ (s + n) * w = t + u
  BY <1>2, <1>3
<1> HIDE DEF u, t
<1>6. i = 32 * u + d
  BY <1>4, <1>5
<1>7. i \div 2 = 16 * u + d \div 2 /\ i % 2 = d % 2 /\ i \div 32 = u + d \div 32
  BY <1>5, <1>6
<1>8. s * (D \div 2) = 16 * t /\ s * (D \div 32) = t
      /\ (s + n) * (D \div 2) = 16 * t + 16 * u /\ (s + n) * (D \div 32) = t + u
  BY <1>2, <1>5 DEF t
<1>9. CASE fmt = "FP8"
  <2>1. A!k_kv_deq(fmt, kv0, i) = [byte |-> s * D + i, half |-> 0, scale |-> "none"]
    BY <1>9 DEF A!k_kv_deq, s
  <2>2. PlaceOf(fmt, s + n, d) = [byte |-> (s + n) * D + d, half |-> 0, scale |-> "none"]
    BY <1>9 DEF PlaceOf
  <2>3. s * D + i = (s + n) * D + d
    BY <1>5, <1>6
  <2> QED BY <1>3, <2>1, <2>2, <2>3 DEF i
<1>10. CASE fmt # "FP8"
  <2>1. A!k_kv_deq(fmt, kv0, i) = [byte |-> s * (D \div 2) + i \div 2, half |-> i % 2,
                                   scale |-> s * (D \div 32) + i \div 32]
    BY <1>10 DEF A!k_kv_deq, s
  <2>2. PlaceOf(fmt, s + n, d) = [byte |-> (s + n) * (D \div 2) + d \div 2, half |-> d % 2,
                                  scale |-> (s + n) * (D \div 32) + d \div 32]
    BY <1>10 DEF PlaceOf
  <2>3. s * (D \div 2) + i \div 2 = (s + n) * (D \div 2) + d \div 2
        /\ s * (D \div 32) + i \div 32 = (s + n) * (D \div 32) + d \div 32
    BY <1>5, <1>7, <1>8
  <2> QED BY <1>3, <1>7, <2>1, <2>2, <2>3 DEF i
<1> QED BY <1>9, <1>10

(* No two numbers have one place.                                          *)
Numbers == (0 .. KvSlots - 1) \X (0 .. NKV - 1) \X (0 .. D - 1)
Home(fmt, e) == A!store_kv(fmt, e[1], e[2], e[3])
Slot(fmt, e) == <<Home(fmt, e).byte, Home(fmt, e).half>>

LEMMA MixedRadix ==
  ASSUME NEW n \in Nat \ {0}, NEW a \in Nat, NEW b \in Nat, NEW x \in 0 .. n - 1, NEW y \in 0 .. n - 1,
         a * n + x = b * n + y
  PROVE  a = b /\ x = y
<1>1. a * n = n * a /\ b * n = n * b
  OBVIOUS
<1>2. (n * a + x) \div n = a /\ (n * a + x) % n = x
  BY DivUnique
<1>3. (n * b + y) \div n = b /\ (n * b + y) % n = y
  BY DivUnique
<1>4. n * a + x = n * b + y
  BY <1>1
<1> DEFINE u == n * a + x
           v == n * b + y
<1> HIDE DEF u, v
<1>5. u = v /\ u \div n = a /\ u % n = x /\ v \div n = b /\ v % n = y
  BY <1>2, <1>3, <1>4 DEF u, v
<1> QED BY <1>5

LEMMA SpotsDiffer ==
  ASSUME NEW fmt, NEW e \in Numbers, NEW f \in Numbers, Slot(fmt, e) = Slot(fmt, f)
  PROVE  e = f
<1>1. NKV \in Nat \ {0} /\ D \in Nat \ {0} /\ KvSlots \in Nat
  BY HeadAssumption
<1> DEFINE vec(g) == g[1] * NKV + g[2]
<1>2. ASSUME NEW g \in Numbers
      PROVE  /\ g = <<g[1], g[2], g[3]>> /\ g[1] \in Nat /\ g[2] \in 0 .. NKV - 1 /\ g[3] \in 0 .. D - 1
             /\ vec(g) \in Nat /\ Home(fmt, g) = PlaceOf(fmt, vec(g), g[3])
  <2>1. g = <<g[1], g[2], g[3]>> /\ g[1] \in Nat /\ g[2] \in 0 .. NKV - 1 /\ g[3] \in 0 .. D - 1
    BY <1>1 DEF Numbers
  <2>2. vec(g) \in Nat /\ g[3] \in Nat
    BY <1>1, <2>1
  <2>3. Home(fmt, g) = PlaceOf(fmt, vec(g), g[3])
    BY <2>2, StoreIs DEF Home
  <2> QED BY <2>1, <2>2, <2>3
<1> DEFINE a == vec(e)
           b == vec(f)
           x == e[3]
           y == f[3]
<1>3. a \in Nat /\ b \in Nat /\ x \in 0 .. D - 1 /\ y \in 0 .. D - 1
  BY <1>2
<1>4. PlaceOf(fmt, a, x).byte = PlaceOf(fmt, b, y).byte /\ PlaceOf(fmt, a, x).half = PlaceOf(fmt, b, y).half
  BY <1>2 DEF Slot
<1> HIDE DEF vec
<1>5. a = b /\ x = y
  <2> HIDE DEF a, b, x, y
  <2>1. CASE fmt = "FP8"
    <3>1. a * D + x = b * D + y
      BY <1>4, <2>1 DEF PlaceOf
    <3> QED BY <1>1, <1>3, <3>1, MixedRadix
  <2>2. CASE fmt # "FP8"
    <3>1. PICK w \in Nat \ {0} : D = 32 * w /\ D \div 2 = 16 * w /\ D \div 32 = w
      BY Dimensions
    <3> DEFINE n == D \div 2
    <3>2. n \in Nat \ {0} /\ x \div 2 \in 0 .. n - 1 /\ y \div 2 \in 0 .. n - 1
      BY <1>3, <3>1
    <3>3. a * n + x \div 2 = b * n + y \div 2 /\ x % 2 = y % 2
      BY <1>4, <2>2 DEF PlaceOf
    <3> HIDE DEF n
    <3>4. a = b /\ x \div 2 = y \div 2
      BY <1>3, <3>2, <3>3, MixedRadix
    <3> QED BY <1>3, <3>3, <3>4
  <2> QED BY <2>1, <2>2
<1>6. e[1] = f[1] /\ e[2] = f[2]
  <2>1. e[1] * NKV + e[2] = f[1] * NKV + f[2]
    BY <1>5 DEF a, b, vec
  <2> DEFINE e1 == e[1]
             e2 == e[2]
             f1 == f[1]
             f2 == f[2]
  <2>2. e1 \in Nat /\ f1 \in Nat /\ e2 \in 0 .. NKV - 1 /\ f2 \in 0 .. NKV - 1
    BY <1>2
  <2>3. e1 * NKV + e2 = f1 * NKV + f2
    BY <2>1
  <2> HIDE DEF e1, e2, f1, f2
  <2>4. e1 = f1 /\ e2 = f2
    BY <1>1, <2>2, <2>3, MixedRadix
  <2> QED BY <2>4 DEF e1, e2, f1, f2
<1> QED BY <1>2, <1>5, <1>6 DEF x, y

LEMMA NumbersFinite == IsFiniteSet(Numbers)
<1> DEFINE P == 0 .. KvSlots - 1
           Q == 0 .. NKV - 1
           R == 0 .. D - 1
           f == [e \in P \X Q \X R |-> <<<<e[1], e[2]>>, e[3]>>]
<1>1. KvSlots \in Nat /\ NKV \in Nat /\ D \in Nat
  BY HeadAssumption
<1>2. IsFiniteSet(P) /\ IsFiniteSet(Q) /\ IsFiniteSet(R)
  BY <1>1, FS_Interval
<1> HIDE DEF P, Q, R
<1>3. IsFiniteSet((P \X Q) \X R)
  BY <1>2, FS_Product
<1>4. f \in Injection(P \X Q \X R, (P \X Q) \X R)
  <2>1. f \in [P \X Q \X R -> (P \X Q) \X R]
    OBVIOUS
  <2>2. ASSUME NEW a \in P \X Q \X R, NEW b \in P \X Q \X R, f[a] = f[b] PROVE a = b
    <3>1. <<<<a[1], a[2]>>, a[3]>> = <<<<b[1], b[2]>>, b[3]>>
      BY <2>2
    <3>2. <<a[1], a[2]>> = <<b[1], b[2]>> /\ a[3] = b[3]
      BY <3>1
    <3>3. a[1] = b[1] /\ a[2] = b[2]
      BY <3>2
    <3> QED BY <3>2, <3>3
  <2> QED BY <2>1, <2>2 DEF Injection, IsInjective
<1>5. IsFiniteSet(P \X Q \X R)
  <2> HIDE DEF f
  <2> QED BY <1>3, <1>4, FS_Injection
<1> QED BY <1>5 DEF Numbers, P, Q, R

LEMMA SpotsEnough ==
  ASSUME NEW fmt
  PROVE  Cardinality({Slot(fmt, e) : e \in Numbers}) = Cardinality(Numbers)
<1> DEFINE T == {Slot(fmt, e) : e \in Numbers}
           f == [e \in Numbers |-> Slot(fmt, e)]
<1>1. f \in [Numbers -> T] /\ \A e \in Numbers : f[e] = Slot(fmt, e)
  OBVIOUS
<1>2. \A t \in T : \E e \in Numbers : t = Slot(fmt, e)
  OBVIOUS
<1> HIDE DEF f, T
<1>3. f \in Surjection(Numbers, T)
  BY <1>1, <1>2 DEF Surjection
<1>4. f \in Injection(Numbers, T)
  <2>1. ASSUME NEW a \in Numbers, NEW b \in Numbers, f[a] = f[b] PROVE a = b
    BY <1>1, <2>1, SpotsDiffer
  <2> QED BY <1>1, <2>1 DEF Injection, IsInjective
<1>5. Cardinality(T) = Cardinality(Numbers)
  BY <1>3, <1>4, NumbersFinite, FS_Surjection
<1> QED BY <1>5 DEF T

LEMMA CardinalityIn == \A S : F!Cardinality(S) = Cardinality(S)
BY Zenon DEF F!Cardinality, Cardinality

-----------------------------------------------------------------------------
(* Which part of the cache a layer has, and which state.                   *)
AttnBelow(n) == {j \in 0 .. n - 1 : F!IsAttn(j)}

LEMMA BelowGrows ==
  ASSUME NEW i \in Nat, NEW n \in Nat, i < n, F!IsAttn(i)
  PROVE  /\ Cardinality(AttnBelow(i)) \in Nat /\ Cardinality(AttnBelow(n)) \in Nat
         /\ Cardinality(AttnBelow(i)) + 1 <= Cardinality(AttnBelow(n))
<1>1. ASSUME NEW k \in Nat PROVE IsFiniteSet(AttnBelow(k)) /\ Cardinality(AttnBelow(k)) \in Nat
  <2>1. IsFiniteSet(0 .. k - 1)
    BY FS_Interval
  <2>2. AttnBelow(k) \in SUBSET (0 .. k - 1)
    BY DEF AttnBelow
  <2>3. IsFiniteSet(AttnBelow(k))
    BY <2>1, <2>2, FS_Subset
  <2> QED BY <2>3, FS_CardinalityType
<1>2. i \notin AttnBelow(i) /\ AttnBelow(i) \cup {i} \in SUBSET AttnBelow(n)
  BY DEF AttnBelow
<1>3. Cardinality(AttnBelow(i) \cup {i}) = Cardinality(AttnBelow(i)) + 1
  BY <1>1, <1>2, FS_AddElement
<1>4. Cardinality(AttnBelow(i) \cup {i}) <= Cardinality(AttnBelow(n))
  BY <1>1, <1>2, FS_Subset
<1> QED BY <1>1, <1>3, <1>4

LEMMA PartsApart ==
  LET attn == {i \in F!LayerIds : F!IsAttn(i)}
      base(i) == F!KvBase(i, KvSlots, NKV * D)
  IN /\ \A i, j \in attn : i < j => base(i) + KvSlots * (NKV * D) <= base(j)
     /\ \A i \in attn : base(i) \in 0 .. (F!num_attn_layers - 1) * KvSlots * (NKV * D)
<1> DEFINE attn == {i \in F!LayerIds : F!IsAttn(i)}
           base(i) == F!KvBase(i, KvSlots, NKV * D)
           len == Len(LayerTypes)
           slot(i) == Cardinality(AttnBelow(i))
           per == NKV * D
           part == KvSlots * per
<1>1. len \in Nat /\ F!LayerIds = 0 .. len - 1
  BY ModelAssumption, LenProperties DEF F!LayerIds
<1>2. per \in Nat /\ KvSlots \in Nat /\ part \in Nat
  BY HeadAssumption
<1> HIDE DEF per
<1>3. F!num_attn_layers = slot(len)
  BY <1>1, CardinalityIn DEF F!num_attn_layers, AttnBelow
<1>4. ASSUME NEW i \in attn
      PROVE  /\ i \in Nat /\ i < len /\ F!IsAttn(i) /\ slot(i) \in Nat /\ slot(len) \in Nat
             /\ slot(i) + 1 <= slot(len) /\ base(i) = slot(i) * part
  <2>1. i \in Nat /\ i < len /\ F!IsAttn(i)
    BY <1>1
  <2>2. slot(i) \in Nat /\ slot(len) \in Nat /\ slot(i) + 1 <= slot(len)
    BY <1>1, <2>1, BelowGrows
  <2>3. base(i) = slot(i) * KvSlots * per
    BY <2>1, CardinalityIn DEF F!KvBase, F!attn_slot, AttnBelow, per
  <2> HIDE DEF base, slot
  <2>4. slot(i) * KvSlots * per = slot(i) * part
    BY <1>2, <2>2
  <2> QED BY <2>1, <2>2, <2>3, <2>4
<1> HIDE DEF attn, base, slot, len, part
<1>5. ASSUME NEW i \in attn, NEW j \in attn, i < j PROVE base(i) + part <= base(j)
  <2>1. slot(i) + 1 <= slot(j)
    BY <1>4, <1>5, BelowGrows DEF slot
  <2>2. (slot(i) + 1) * part <= slot(j) * part
    BY <1>2, <1>4, <2>1
  <2> QED BY <1>2, <1>4, <2>2
<1>6. ASSUME NEW i \in attn PROVE base(i) \in 0 .. (F!num_attn_layers - 1) * KvSlots * per
  <2> DEFINE s == slot(i)
             n == slot(len) - 1
  <2>1. s \in Nat /\ n \in Nat /\ s <= n /\ base(i) = s * part
    BY <1>4
  <2> HIDE DEF s, n
  <2>2. s * part \in Nat /\ s * part <= n * part
    BY <1>2, <2>1
  <2>3. n * KvSlots * per = n * part
    BY <1>2, <2>1 DEF part
  <2> QED BY <1>3, <2>1, <2>2, <2>3 DEF n
<1> QED BY <1>5, <1>6 DEF attn, base, part, per

LEMMA StatesDense ==
  LET attn == {i \in F!LayerIds : F!IsAttn(i)}
  IN {F!gdn_idx(i) : i \in F!LayerIds \ attn} = 0 .. F!num_gdn_layers - 1
<1> DEFINE len == Len(LayerTypes)
           G == {i \in F!LayerIds : ~ F!IsAttn(i)}
           N == len - len \div 4
           f == [i \in G |-> i - i \div 4]
<1>1. len \in Nat /\ F!LayerIds = 0 .. len - 1
  BY ModelAssumption, LenProperties DEF F!LayerIds
<1>2. G = {i \in 0 .. len - 1 : i % 4 # 3}
  BY <1>1, ModelAssumption
<1>3. N \in Nat
  BY <1>1
<1> HIDE DEF len, G
<1>4. f \in [G -> 0 .. N - 1]
  <2>1. ASSUME NEW i \in G PROVE i - i \div 4 \in 0 .. N - 1
    BY <1>1, <1>2
  <2> QED BY <2>1
<1>5. ASSUME NEW k \in 0 .. N - 1 PROVE \E i \in G : i - i \div 4 = k
  <2> DEFINE i == 4 * (k \div 3) + (k % 3)
  <2>1. k \in Nat /\ k <= N - 1
    BY <1>3
  <2>2. i \div 4 = k \div 3 /\ i % 4 = k % 3 /\ i - i \div 4 = k /\ i \in Nat
    BY <2>1
  <2>3. i < len
    BY <1>1, <2>1, <2>2
  <2>4. i \in G
    BY <1>1, <1>2, <2>1, <2>2, <2>3
  <2> QED BY <2>2, <2>4
<1>6. ASSUME NEW i \in G, NEW j \in G, f[i] = f[j] PROVE i = j
  <2>1. i \in Nat /\ j \in Nat /\ i % 4 # 3 /\ j % 4 # 3 /\ i - i \div 4 = j - j \div 4
    BY <1>1, <1>2, <1>6
  <2> QED BY <2>1
<1> HIDE DEF f
<1>7. Cardinality(G) = N
  <2>1. f \in Injection(G, 0 .. N - 1)
    BY <1>4, <1>6 DEF Injection, IsInjective
  <2>2. f \in Surjection(G, 0 .. N - 1)
    BY <1>4, <1>5 DEF Surjection, f
  <2>3. IsFiniteSet(0 .. N - 1) /\ Cardinality(0 .. N - 1) = N
    <3> HIDE DEF N
    <3>1. 0 \in Int /\ N - 1 \in Int
      BY <1>3
    <3>2. /\ IsFiniteSet(0 .. N - 1)
          /\ Cardinality(0 .. N - 1) = IF 0 > N - 1 THEN 0 ELSE (N - 1) - 0 + 1
      BY <3>1, FS_Interval
    <3> QED BY <1>3, <3>2
  <2> QED BY <2>1, <2>2, <2>3, FS_Injection
<1>8. F!num_gdn_layers = N
  BY <1>7, CardinalityIn DEF F!num_gdn_layers, G
<1>9. {F!gdn_idx(i) : i \in G} = 0 .. N - 1
  <2>1. \A i \in G : F!gdn_idx(i) = i - i \div 4 /\ i - i \div 4 \in 0 .. N - 1
    BY <1>4 DEF f, F!gdn_idx
  <2> QED BY <1>5, <2>1
<1>10. F!LayerIds \ {i \in F!LayerIds : F!IsAttn(i)} = G
  BY DEF G
<1> QED BY <1>8, <1>9, <1>10

-----------------------------------------------------------------------------
(* INT4: nothing is clamped, the nearest multiple is found and read back.  *)
LEMMA DivModInt ==
  ASSUME NEW a \in Int, NEW d \in Nat \ {0}
  PROVE  /\ a \div d \in Int /\ a % d \in Nat /\ a % d < d
         /\ a = d * (a \div d) + (a % d)
OBVIOUS

LEMMA QuartersNear ==
  ASSUME NEW a \in Nat \ {0}, NEW x \in -a .. a
  PROVE  LET q == A!QuantI4(x, a)
         IN /\ A!kv_i4_decode(A!kv_i4_encode(q)) = q
            /\ -a <= 14 * x - 2 * q * a /\ 14 * x - 2 * q * a <= a
<1> DEFINE t == 14 * x + a
           d == 2 * a
           q == t \div d
           r == t % d
           rounded == IF r = 0 /\ q % 2 = 1 THEN q - 1 ELSE q
<1>1. q \in Int /\ r \in Nat /\ r < d /\ t = d * q + r
  <2>1. t \in Int /\ d \in Nat \ {0}
    OBVIOUS
  <2> HIDE DEF t, d
  <2> QED BY <2>1, DivModInt
<1>2. t \in Int /\ t >= -13 * a /\ t <= 15 * a
  OBVIOUS
<1> HIDE DEF q, r
<1> DEFINE p == a * q
<1>3. d * q = 2 * p /\ p \in Int
  BY <1>1
<1>4. q >= -7 /\ q <= 7
  <2>1. q <= -8 => p <= -8 * a
    BY <1>1
  <2>2. q >= 8 => p >= 8 * a
    BY <1>1
  <2> HIDE DEF p
  <2> QED BY <1>1, <1>2, <1>3, <2>1, <2>2
<1>5. q = -7 => p = -7 * a
  BY DEF p
<1> HIDE DEF p
<1>6. q = -7 => r # 0
  BY <1>1, <1>2, <1>3, <1>5
<1>7. rounded \in -7 .. 7
  BY <1>1, <1>4, <1>6
<1>8. A!QuantI4(x, a) = rounded
  <2>1. A!QuantI4(x, a) = Max({-7, Min({7, rounded})})
    BY Instances DEF A!QuantI4, q, r
  <2> HIDE DEF rounded
  <2>2. Min({7, rounded}) = rounded
    <3>1. 7 \in Int /\ rounded \in Int
      BY <1>7
    <3>2. Min({7, rounded}) = IF 7 <= rounded THEN 7 ELSE rounded
      BY <3>1, Min2
    <3> QED BY <1>7, <3>2
  <2>3. Max({-7, rounded}) = rounded
    <3>1. -7 \in Int /\ rounded \in Int
      BY <1>7
    <3>2. Max({-7, rounded}) = IF -7 <= rounded THEN rounded ELSE -7
      BY <3>1, Max2
    <3> QED BY <1>7, <3>2
  <2> QED BY <2>1, <2>2, <2>3
<1>9. A!kv_i4_decode(A!kv_i4_encode(rounded)) = rounded
  <2> HIDE DEF rounded
  <2> QED BY <1>7 DEF A!kv_i4_decode, A!kv_i4_encode
<1>10. -a <= 14 * x - 2 * rounded * a /\ 14 * x - 2 * rounded * a <= a
  <2>1. CASE r = 0 /\ q % 2 = 1
    <3>1. rounded = q - 1
      BY <2>1
    <3>2. 2 * (q - 1) * a = 2 * p - 2 * a
      BY <1>1 DEF p
    <3> HIDE DEF rounded
    <3> QED BY <1>1, <1>3, <2>1, <3>1, <3>2
  <2>2. CASE ~ (r = 0 /\ q % 2 = 1)
    <3>1. rounded = q
      BY <2>2
    <3>2. 2 * q * a = 2 * p
      BY <1>1 DEF p
    <3> HIDE DEF rounded
    <3> QED BY <1>1, <1>3, <3>1, <3>2
  <2> QED BY <2>1, <2>2
<1> HIDE DEF rounded
<1> QED BY <1>8, <1>9, <1>10

-----------------------------------------------------------------------------
(* The numbers of e4m3 in order, and the distance from one to the next.    *)
Value(c) == A!e4m3_to_f32(c)

LEMMA ValueSteps ==
  /\ \A c \in 0 .. 8 : Value(c) = c
  /\ \A E \in Nat \ {0}, M \in 0 .. 7 :
       /\ Value(8 * E + M) = (8 + M) * Pow2(E - 1)
       /\ Value(8 * E + M + 1) = (9 + M) * Pow2(E - 1)
<1>1. ASSUME NEW E \in Nat \ {0}, NEW M \in 0 .. 7 PROVE Value(8 * E + M) = (8 + M) * Pow2(E - 1)
  <2> DEFINE c == 8 * E + M
  <2>1. c \div 8 = E /\ c % 8 = M
    OBVIOUS
  <2> HIDE DEF c
  <2>2. Value(c) = (8 + M) * Pow2(E - 1)
    BY <2>1, Instances DEF Value, A!e4m3_to_f32
  <2> QED BY <2>2 DEF c
<1>2. ASSUME NEW E \in Nat \ {0}, NEW M \in 0 .. 7 PROVE Value(8 * E + M + 1) = (9 + M) * Pow2(E - 1)
  <2>1. CASE M < 7
    <3>1. M + 1 \in 0 .. 7 /\ 8 + (M + 1) = 9 + M /\ 8 * E + M + 1 = 8 * E + (M + 1)
      BY <2>1
    <3> DEFINE k == M + 1
    <3> HIDE DEF k
    <3>2. Value(8 * E + k) = (8 + k) * Pow2(E - 1)
      BY <1>1, <3>1 DEF k
    <3> QED BY <3>1, <3>2 DEF k
  <2>2. CASE M = 7
    <3> DEFINE F1 == E + 1
    <3>1. F1 \in Nat \ {0} /\ 0 \in 0 .. 7 /\ 8 * E + M + 1 = 8 * F1 + 0 /\ F1 - 1 = (E - 1) + 1 /\ E - 1 \in Nat
      BY <2>2
    <3> HIDE DEF F1
    <3>2. Value(8 * F1 + 0) = (8 + 0) * Pow2(F1 - 1)
      BY <1>1, <3>1
    <3>3. Pow2((E - 1) + 1) = 2 * Pow2(E - 1) /\ Pow2(E - 1) \in Nat
      BY <3>1, PowerIs
    <3> DEFINE u == Pow2(E - 1)
               v == Pow2(F1 - 1)
    <3>4. v = 2 * u /\ u \in Nat
      BY <3>1, <3>3
    <3> HIDE DEF u, v
    <3>5. (8 + 0) * v = (9 + M) * u
      BY <2>2, <3>4
    <3> QED BY <3>1, <3>2, <3>5 DEF u, v
  <2> QED BY <2>1, <2>2
<1>3. ASSUME NEW c \in 0 .. 7 PROVE Value(c) = c
  <2>1. c \div 8 = 0 /\ c % 8 = c
    OBVIOUS
  <2> QED BY <2>1 DEF Value, A!e4m3_to_f32
<1>4. Value(8) = 8
  <2>1. Value(8 * 1 + 0) = (8 + 0) * Pow2(1 - 1)
    BY <1>1
  <2>2. Pow2(0) = 1
    BY PowerIs
  <2> QED BY <2>1, <2>2
<1> QED BY <1>1, <1>2, <1>3, <1>4

LEMMA ValueGrows == \A c \in Nat : Value(c) \in Nat /\ Value(c) < Value(c + 1)
<1>1. ASSUME NEW c \in Nat PROVE Value(c) \in Nat /\ Value(c) < Value(c + 1)
  <2>1. CASE c < 8
    <3>1. c \in 0 .. 8 /\ c + 1 \in 0 .. 8
      BY <2>1
    <3>2. Value(c) = c /\ Value(c + 1) = c + 1
      BY <3>1, ValueSteps
    <3> QED BY <3>2
  <2>2. CASE c >= 8
    <3> DEFINE E == c \div 8
               M == c % 8
               u == Pow2(E - 1)
    <3>1. E \in Nat \ {0} /\ M \in 0 .. 7 /\ c = 8 * E + M /\ E - 1 \in Nat
      BY <2>2
    <3> HIDE DEF E, M
    <3>2. u \in Nat \ {0}
      BY <3>1, PowerIs
    <3>3. Value(8 * E + M) = (8 + M) * u /\ Value(8 * E + M + 1) = (9 + M) * u
      BY <3>1, ValueSteps
    <3> HIDE DEF u
    <3>4. (8 + M) * u \in Nat /\ (9 + M) * u = (8 + M) * u + u
      BY <3>1, <3>2
    <3>5. Value(c) = (8 + M) * u /\ Value(c + 1) = (9 + M) * u
      BY <3>1, <3>3
    <3> QED BY <3>2, <3>4, <3>5
  <2> QED BY <2>1, <2>2
<1> QED BY <1>1

LEMMA ValueMonotone == \A a, b \in Nat : a <= b => Value(a) <= Value(b)
<1> SUFFICES ASSUME NEW a \in Nat PROVE \A b \in Nat : a <= b => Value(a) <= Value(b)
  OBVIOUS
<1> DEFINE P == {n \in Nat : Value(a) <= Value(a + n)}
<1>1. 0 \in P
  BY ValueGrows
<1>2. ASSUME NEW n \in Nat, n \in P PROVE n + 1 \in P
  <2> DEFINE k == a + n
             j == k + 1
  <2>1. k \in Nat /\ j = a + (n + 1) /\ j \in Nat
    OBVIOUS
  <2>2. Value(a) <= Value(k)
    BY <1>2
  <2>3. Value(k) \in Nat /\ Value(k) < Value(k + 1) /\ Value(a) \in Nat /\ Value(j) \in Nat
    BY <2>1, ValueGrows
  <2> HIDE DEF k
  <2>4. Value(a) <= Value(j)
    BY <2>2, <2>3
  <2> HIDE DEF j
  <2> QED BY <2>1, <2>4
<1> HIDE DEF P
<1>3. \A n \in Nat : n \in P
  BY <1>1, <1>2, Induction
<1>4. ASSUME NEW b \in Nat, a <= b PROVE Value(a) <= Value(b)
  <2>1. b - a \in Nat /\ a + (b - a) = b
    BY <1>4
  <2> DEFINE n == b - a
  <2>2. n \in P
    BY <1>3, <2>1
  <2> HIDE DEF n
  <2>3. Value(a) <= Value(a + n)
    BY <2>2 DEF P
  <2> QED BY <2>1, <2>3 DEF n
<1> QED BY <1>4

(* How far a number is from a value, in units u of the smallest value.     *)
Away(c, u, x) == LET v == Value(c) * u IN IF v > x THEN v - x ELSE x - v

IsNearest(code, u, x) ==
  /\ code \in 0 .. 126
  /\ \A c \in (0 .. 126) \ {code} :
       \/ Away(code, u, x) < Away(c, u, x)
       \/ Away(code, u, x) = Away(c, u, x) /\ code % 2 = 0

(* Between two neighbours the nearer one is nearest of all.                *)
LEMMA BetweenTwo ==
  ASSUME NEW u \in Nat \ {0}, NEW x \in Nat, NEW low \in 0 .. 126,
         Value(low) * u <= x, x < Value(low + 1) * u
  PROVE  LET both == (Value(low) + Value(low + 1)) * u
         IN /\ (2 * x < both \/ (2 * x = both /\ low % 2 = 0)) => IsNearest(low, u, x)
            /\ (low < 126 /\ (2 * x > both \/ (2 * x = both /\ (low + 1) % 2 = 0)))
                 => IsNearest(low + 1, u, x)
<1> DEFINE at(c) == Value(c) * u
           up == low + 1
           both == (Value(low) + Value(up)) * u
<1>1. \A c \in Nat : at(c) \in Nat
  BY ValueGrows
<1>2. ASSUME NEW a \in Nat, NEW b \in Nat, a <= b PROVE at(a) <= at(b)
  <2>1. Value(a) <= Value(b) /\ Value(a) \in Nat /\ Value(b) \in Nat
    BY <1>2, ValueGrows, ValueMonotone
  <2> QED BY <2>1
<1>3. ASSUME NEW a \in Nat PROVE at(a) < at(a + 1)
  <2> DEFINE b == a + 1
  <2>1. Value(a) < Value(b) /\ Value(a) \in Nat /\ b \in Nat
    BY ValueGrows
  <2>2. Value(b) \in Nat
    BY <2>1, ValueGrows
  <2> DEFINE p == Value(a)
             q == Value(b)
  <2> HIDE DEF b, p, q
  <2>3. p \in Nat /\ q \in Nat /\ p < q
    BY <2>1, <2>2 DEF p, q
  <2>4. p * u < q * u
    BY <2>3
  <2> QED BY <2>4 DEF p, q, b
<1>4. both = at(low) + at(up)
  <2>1. Value(low) \in Nat /\ Value(up) \in Nat
    BY ValueGrows
  <2> QED BY <2>1
<1>5. at(low) <= x /\ x < at(up) /\ up \in Nat /\ low \in Nat
  OBVIOUS
<1>6. \A c \in 0 .. 126 : c < low => at(c) < at(low)
  <2> SUFFICES ASSUME NEW c \in 0 .. 126, c < low PROVE at(c) < at(low)
    OBVIOUS
  <2>1. at(c) < at(c + 1)
    BY <1>3
  <2>2. at(c + 1) <= at(low)
    <3> DEFINE k == c + 1
    <3>1. k \in Nat /\ k <= low
      OBVIOUS
    <3> HIDE DEF k
    <3>2. at(k) <= at(low)
      BY <1>2, <1>5, <3>1
    <3> QED BY <3>2 DEF k
  <2>3. at(c) \in Nat /\ at(c + 1) \in Nat /\ at(low) \in Nat
    BY <1>1
  <2> HIDE DEF at
  <2> QED BY <2>1, <2>2, <2>3
<1>7. \A c \in 0 .. 126 : c > up => at(up) < at(c)
  <2> SUFFICES ASSUME NEW c \in 0 .. 126, c > up PROVE at(up) < at(c)
    OBVIOUS
  <2>1. at(up) < at(up + 1)
    BY <1>3, <1>5
  <2>2. at(up + 1) <= at(c)
    <3> DEFINE k == up + 1
    <3>1. k \in Nat /\ k <= c
      OBVIOUS
    <3> HIDE DEF k
    <3>2. at(k) <= at(c)
      BY <1>2, <3>1
    <3> QED BY <3>2 DEF k
  <2>3. at(up) \in Nat /\ at(up + 1) \in Nat /\ at(c) \in Nat
    BY <1>1
  <2> HIDE DEF at
  <2> QED BY <2>1, <2>2, <2>3
<1>8. ASSUME NEW c \in 0 .. 126
      PROVE  /\ c < low => Away(c, u, x) = x - at(c)
             /\ c > up => Away(c, u, x) = at(c) - x
  BY <1>1, <1>5, <1>6, <1>7 DEF Away
<1>9. Away(low, u, x) = x - at(low) /\ Away(up, u, x) = at(up) - x
  BY <1>1, <1>5 DEF Away
<1>10. \A c \in 0 .. 126 : c < low \/ c = low \/ c = up \/ c > up
  OBVIOUS
<1>11. \A c \in 0 .. 126 : at(c) \in Int
  BY <1>1
<1>12. at(low) \in Int /\ at(up) \in Int
  BY <1>1
<1> HIDE DEF at, both
<1>13. ASSUME 2 * x < both \/ (2 * x = both /\ low % 2 = 0) PROVE IsNearest(low, u, x)
  <2> SUFFICES ASSUME NEW c \in 0 .. 126, c # low
               PROVE  \/ Away(low, u, x) < Away(c, u, x)
                      \/ Away(low, u, x) = Away(c, u, x) /\ low % 2 = 0
    BY DEF IsNearest
  <2>1. CASE c < low
    BY <1>4, <1>5, <1>6, <1>8, <1>9, <1>11, <1>12, <2>1
  <2>2. CASE c = up
    BY <1>4, <1>5, <1>9, <1>12, <1>13, <2>2
  <2>3. CASE c > up
    BY <1>4, <1>5, <1>7, <1>8, <1>9, <1>11, <1>12, <1>13, <2>3
  <2> QED BY <1>10, <2>1, <2>2, <2>3
<1>14. ASSUME low < 126, 2 * x > both \/ (2 * x = both /\ up % 2 = 0) PROVE IsNearest(up, u, x)
  <2> SUFFICES ASSUME NEW c \in 0 .. 126, c # up
               PROVE  \/ Away(up, u, x) < Away(c, u, x)
                      \/ Away(up, u, x) = Away(c, u, x) /\ up % 2 = 0
    BY <1>14 DEF IsNearest
  <2>1. CASE c < low
    BY <1>4, <1>5, <1>6, <1>8, <1>9, <1>11, <1>12, <1>14, <2>1
  <2>2. CASE c = low
    BY <1>4, <1>5, <1>9, <1>12, <1>14, <2>2
  <2>3. CASE c > up
    BY <1>4, <1>5, <1>7, <1>8, <1>9, <1>11, <1>12, <2>3
  <2> QED BY <1>10, <2>1, <2>2, <2>3
<1> QED BY <1>13, <1>14 DEF both

LEMMA Units ==
  /\ Wide \in Nat \ {0} /\ MinExp \in Int /\ MaxExp \in Int /\ MinExp <= Wide - 6
  /\ \E h \in Nat \ {0} : /\ A!Pow2(Wide - 1) = h /\ A!Pow2(Wide) = 2 * h /\ A!Hidden = 16 * h
                          /\ Pow2(Wide) = 2 * h
<1>1. Wide \in Nat \ {0} /\ MinExp \in Int /\ MaxExp \in Int /\ MinExp <= Wide - 6
  BY HeadAssumption
<1> DEFINE h == Pow2(Wide - 1)
<1>2. Wide - 1 \in Nat /\ (Wide - 1) + 1 = Wide
  BY <1>1
<1>3. h \in Nat \ {0} /\ Pow2((Wide - 1) + 1) = 2 * h
  BY <1>2, PowerIs
<1>4. Pow2(Wide) = 2 * h
  BY <1>2, <1>3
<1> DEFINE a == Wide + 1
           b == a + 1
           c == b + 1
<1>5. Wide \in Nat /\ a \in Nat /\ b \in Nat /\ c = 3 + Wide
  BY <1>1
<1>6. Pow2(a) = 2 * Pow2(Wide)
  BY <1>5, PowerIs
<1>7. Pow2(b) = 2 * Pow2(a)
  <2> HIDE DEF a
  <2> QED BY <1>5, PowerIs
<1>8. Pow2(c) = 2 * Pow2(b)
  <2> HIDE DEF b
  <2> QED BY <1>5, PowerIs
<1>9. Pow2(3 + Wide) = Pow2(c)
  BY <1>5
<1> HIDE DEF a, b, c, h
<1>10. A!Hidden = 16 * h
  <2>1. A!Hidden = Pow2(3 + Wide)
    BY Instances DEF A!Hidden
  <2> QED BY <1>3, <1>4, <1>6, <1>7, <1>8, <1>9, <2>1
<1>11. A!Pow2(Wide - 1) = h /\ A!Pow2(Wide) = 2 * h
  BY <1>4, Instances DEF h
<1> QED BY <1>1, <1>3, <1>4, <1>10, <1>11

(* Half a unit less one is added, and one more if the digit is odd.        *)
InNormal(h, M, l, m, e) ==
  /\ h \in Nat \ {0} /\ M \in 0 .. 7 /\ l \in 0 .. 2 * h - 1 /\ m = M * (2 * h) + l
  /\ e \in -6 .. 8 /\ (e = 8 => m <= 6 * (2 * h))
  /\ A!Pow2(Wide - 1) = h /\ A!Pow2(Wide) = 2 * h /\ A!Hidden = 16 * h

LEMMA RoundsToEven ==
  ASSUME NEW h, NEW M, NEW l, NEW m, NEW e, InNormal(h, M, l, m, e)
  PROVE  A!Normal(e, m) = 8 * (e + 7) + M + (IF l + (M % 2) > h THEN 1 ELSE 0)
<1> DEFINE W == 2 * h
           odd == M % 2
           rest == l + odd + h - 1
           m1 == m + ((m \div W) % 2) + h - 1
           up == IF l + odd > h THEN 1 ELSE 0
           p == M * W
<1>0. /\ h \in Nat \ {0} /\ M \in 0 .. 7 /\ l \in 0 .. 2 * h - 1 /\ m = M * (2 * h) + l
      /\ e \in -6 .. 8 /\ (e = 8 => m <= 6 * (2 * h))
      /\ A!Pow2(Wide - 1) = h /\ A!Pow2(Wide) = 2 * h /\ A!Hidden = 16 * h
  BY DEF InNormal
<1>1. W \in Nat \ {0} /\ p \in Nat /\ m = p + l /\ odd \in 0 .. 1 /\ p = W * M
  BY <1>0
<1>2. m \div W = M
  <2>1. (W * M + l) \div W = M
    <3> HIDE DEF W
    <3>1. M \in Nat /\ l \in Nat /\ l < W
      BY <1>0 DEF W
    <3> QED BY <1>1, <3>1, DivUnique
  <2>2. m = W * M + l
    BY <1>1
  <2> QED BY <2>1, <2>2
<1>3. m1 = p + rest
  <2>1. m1 = m + odd + h - 1
    BY <1>0, <1>2
  <2> HIDE DEF p, m1, odd
  <2> QED BY <1>0, <1>1, <2>1
<1>4. rest \in Nat /\ rest < 2 * W /\ (rest >= W <=> up = 1) /\ up \in 0 .. 1
  <2> HIDE DEF odd
  <2> QED BY <1>0, <1>1
<1>5. M = 7 => p = 7 * W
  BY <1>0
<1>6. M <= 6 => p <= 6 * W
  BY <1>0
<1>7. m1 >= 16 * h <=> M = 7 /\ up = 1
  <2>1. 16 * h = 8 * W
    BY <1>0
  <2> HIDE DEF p, rest, W, up, m1
  <2> QED BY <1>0, <1>1, <1>3, <1>4, <1>5, <1>6, <2>1
<1>8. ~ (M = 7 /\ up = 1) => m1 \div W = M + up
  <2>1. rest - up * W \in Nat /\ rest - up * W < W
    <3> HIDE DEF rest, W
    <3> QED BY <1>0, <1>1, <1>4
  <2> DEFINE r == rest - up * W
             q == M + up
  <2>2. W * q = p + up * W /\ q \in Nat
    <3> HIDE DEF up, W
    <3> QED BY <1>0, <1>1, <1>4
  <2>3. m1 = W * q + r
    <3> HIDE DEF q, W, p, rest, m1
    <3> QED BY <1>0, <1>1, <1>3, <1>4, <2>2
  <2>4. (W * q + r) \div W = q
    <3> HIDE DEF q, W, rest, up
    <3> QED BY <1>0, <1>1, <2>1, <2>2, DivUnique
  <2> QED BY <1>0, <2>3, <2>4
<1>9. e = 8 => M + up <= 6
  <2> HAVE e = 8
  <2>1. p + l <= 6 * W
    BY <1>0, <1>1
  <2>2. M <= 6
    <3> HIDE DEF p, W
    <3> QED BY <1>0, <1>1, <1>5, <2>1
  <2>3. M = 6 => p = 6 * W
    BY <1>0
  <2>4. M = 6 => l = 0
    <3> HIDE DEF p, W
    <3> QED BY <1>0, <1>1, <2>1, <2>3
  <2>5. M = 6 => up = 0
    BY <1>0, <2>4
  <2> HIDE DEF up
  <2> QED BY <1>0, <1>4, <2>2, <2>5
<1> DEFINE carry == m1 >= 16 * h
           e1 == IF carry THEN e + 1 ELSE e
           mm == IF carry THEN 0 ELSE m1 \div W
           least == Min({mm, IF e1 = 8 THEN 6 ELSE 7})
<1>10. A!Normal(e, m) = IF e1 > 8 THEN 126 ELSE (e1 + 7) * 8 + least
  BY <1>0, Instances DEF A!Normal
<1> HIDE DEF m1, up, p, rest, W
<1>11. CASE M = 7 /\ up = 1
  <2>1. e1 = e + 1 /\ mm = 0 /\ e # 8
    BY <1>0, <1>7, <1>9, <1>11
  <2> DEFINE bound == IF e1 = 8 THEN 6 ELSE 7
  <2>2. bound \in Int /\ 0 <= bound
    BY <1>0
  <2> HIDE DEF bound
  <2>3. Min({0, bound}) = 0
    <3>1. Min({0, bound}) = IF 0 <= bound THEN 0 ELSE bound
      BY <1>0, <2>2, Min2
    <3> QED BY <1>0, <2>2, <3>1
  <2>4. least = 0
    BY <1>0, <2>1, <2>3 DEF bound
  <2> HIDE DEF least, e1, mm
  <2> QED BY <1>0, <1>10, <1>11, <2>1, <2>4 DEF up
<1>12. CASE ~ (M = 7 /\ up = 1)
  <2>1. e1 = e /\ mm = M + up
    BY <1>0, <1>7, <1>8, <1>12
  <2> DEFINE bound == IF e1 = 8 THEN 6 ELSE 7
             k == M + up
  <2>2. bound \in Int /\ k \in Int /\ k <= bound
    BY <1>0, <1>4, <1>9, <1>12, <2>1
  <2> HIDE DEF bound, k
  <2>3. Min({k, bound}) = k
    <3>1. Min({k, bound}) = IF k <= bound THEN k ELSE bound
      BY <1>0, <2>2, Min2
    <3> QED BY <1>0, <2>2, <3>1
  <2>4. least = k
    BY <1>0, <2>1, <2>3 DEF bound, k
  <2> HIDE DEF least, e1, mm
  <2>5. A!Normal(e, m) = (e + 7) * 8 + (M + up)
    BY <1>0, <1>10, <2>1, <2>4 DEF k
  <2>6. A!Normal(e, m) = 8 * (e + 7) + M + up
    BY <1>0, <1>4, <2>5
  <2> QED BY <1>0, <2>6 DEF up
<1> QED BY <1>0, <1>11, <1>12

LEMMA NormalNear ==
  ASSUME NEW e \in MinExp .. MaxExp, e >= -6, e <= 8, NEW m \in 0 .. A!Hidden - 1,
         e = 8 => m <= 6 * A!Pow2(Wide)
  PROVE  IsNearest(A!Normal(e, m), Pow2(Wide - 6 - MinExp), (A!Hidden + m) * Pow2(e - MinExp))
<1> DEFINE u == Pow2(Wide - 6 - MinExp)
           P == Pow2(e - MinExp)
           K == Pow2(e + 6)
<1>1. PICK h \in Nat \ {0} : /\ A!Pow2(Wide - 1) = h /\ A!Pow2(Wide) = 2 * h /\ A!Hidden = 16 * h
                             /\ Pow2(Wide) = 2 * h
  BY Units
<1>2. e \in Int /\ MinExp \in Int /\ Wide \in Nat /\ e - MinExp \in Nat /\ Wide - 6 - MinExp \in Nat
      /\ e + 6 \in Nat
  BY Units
<1>3. u \in Nat \ {0} /\ P \in Nat \ {0} /\ K \in Nat \ {0}
  BY <1>2, PowerIs
<1>4. (2 * h) * P = K * u
  <2>1. Pow2(Wide + (e - MinExp)) = Pow2(Wide) * P
    BY <1>2, PowerAdds
  <2>2. Pow2((e + 6) + (Wide - 6 - MinExp)) = K * u
    BY <1>2, PowerAdds
  <2>3. Wide + (e - MinExp) = (e + 6) + (Wide - 6 - MinExp)
    BY <1>2
  <2> QED BY <1>1, <2>1, <2>2, <2>3
<1> DEFINE W == 2 * h
           M == m \div W
           l == m % W
<1>5. W \in Nat \ {0} /\ m \in Nat /\ m < 8 * W
  BY <1>1
<1>6. M \in Nat /\ l \in 0 .. W - 1 /\ m = W * M + l
  <2> HIDE DEF W
  <2> QED BY <1>5, DivMod
<1>7. M \in 0 .. 7 /\ m = M * W + l
  <2> HIDE DEF M, l, W
  <2>1. W * M <= m /\ W * M = M * W
    BY <1>5, <1>6
  <2>2. M >= 8 => W * M >= W * 8
    BY <1>5, <1>6
  <2> QED BY <1>5, <1>6, <2>1, <2>2
<1> HIDE DEF M, l
<1> DEFINE up == IF l + (M % 2) > h THEN 1 ELSE 0
           low == 8 * (e + 7) + M
<1>8. A!Normal(e, m) = low + up
  <2>1. e \in -6 .. 8 /\ (e = 8 => m <= 6 * (2 * h))
    BY <1>1, <1>2
  <2>2. l \in 0 .. 2 * h - 1 /\ m = M * (2 * h) + l
    BY <1>6, <1>7
  <2>3. M \in 0 .. 7 /\ e \in -6 .. 8 /\ l \in 0 .. 2 * h - 1
    BY <1>7, <2>1, <2>2
  <2>4. A!Normal(e, m) = 8 * (e + 7) + M + (IF l + (M % 2) > h THEN 1 ELSE 0)
    <3>1. InNormal(h, M, l, m, e)
      BY <1>1, <2>1, <2>2, <2>3 DEF InNormal
    <3> QED BY <3>1, RoundsToEven
  <2> QED BY <2>4
<1> DEFINE x == (A!Hidden + m) * P
           Q == W * P
           lP == l * P
           at == Value(low) * u
           next == Value(low + 1) * u
           both == (Value(low) + Value(low + 1)) * u
<1>9. at = (8 + M) * Q /\ next = (9 + M) * Q /\ both = (17 + 2 * M) * Q
  <2> DEFINE E == e + 7
  <2>1. E \in Nat \ {0} /\ E - 1 = e + 6
    BY <1>2
  <2> HIDE DEF E
  <2>2. Value(8 * E + M) = (8 + M) * Pow2(E - 1) /\ Value(8 * E + M + 1) = (9 + M) * Pow2(E - 1)
    BY <1>7, <2>1, ValueSteps
  <2>3. Value(low) = (8 + M) * K /\ Value(low + 1) = (9 + M) * K
    BY <2>1, <2>2 DEF E
  <2> DEFINE a == 8 + M
             b == 9 + M
             c == 17 + 2 * M
  <2>4. a \in Nat /\ b \in Nat /\ c \in Nat /\ a + b = c
    BY <1>7
  <2> HIDE DEF a, b, c, K, u, P, W, low
  <2>5. (a * K) * u = a * (K * u) /\ (b * K) * u = b * (K * u)
    BY <1>3, <2>4
  <2>6. a * K + b * K = c * K /\ (c * K) * u = c * (K * u)
    BY <1>3, <2>4
  <2>7. K * u = Q
    BY <1>4 DEF W
  <2> HIDE DEF Q
  <2> QED BY <2>3, <2>5, <2>6, <2>7 DEF a, b, c
<1>10. Q \in Nat \ {0} /\ lP \in Nat /\ lP < Q /\ x = (8 + M) * Q + lP
  <2>1. Q \in Nat \ {0}
    <3> HIDE DEF W, P
    <3> QED BY <1>3, <1>5
  <2>2. lP \in Nat /\ lP < Q
    <3> HIDE DEF W, P
    <3>1. l \in Nat /\ l < W /\ P \in Nat \ {0}
      BY <1>3, <1>5, <1>6
    <3> QED BY <1>5, <3>1
  <2>3. A!Hidden + m = (8 + M) * W + l
    <3>1. A!Hidden = 8 * W
      BY <1>1
    <3>2. (8 + M) * W = 8 * W + M * W
      BY <1>5, <1>7
    <3> HIDE DEF W
    <3> QED BY <1>5, <1>6, <1>7, <3>1, <3>2
  <2> DEFINE a == 8 + M
  <2>4. (a * W + l) * P = a * (W * P) + l * P
    <3>1. a \in Nat /\ l \in Nat
      BY <1>6, <1>7
    <3> HIDE DEF a, W, P
    <3> QED BY <1>3, <1>5, <3>1
  <2>5. x = a * Q + lP
    BY <2>3, <2>4
  <2> QED BY <2>1, <2>2, <2>5
<1> DEFINE hP == h * P
<1>11. hP \in Nat \ {0} /\ Q = 2 * hP
  <2> HIDE DEF P
  <2> QED BY <1>3
<1>12. /\ l > h => lP > hP
       /\ l < h => lP < hP
       /\ l = h => lP = hP
  <2>1. l \in Nat /\ P \in Nat \ {0}
    BY <1>3, <1>6
  <2> HIDE DEF P
  <2> QED BY <2>1
<1>13. low \in 0 .. 126 /\ low % 2 = M % 2 /\ (low + 1) % 2 = (M + 1) % 2
  <2>1. e = 8 => M <= 6
    <3> HAVE e = 8
    <3>1. m <= 6 * W
      BY <1>1
    <3>2. M = 7 => M * W = 7 * W
      OBVIOUS
    <3> HIDE DEF W
    <3> QED BY <1>5, <1>6, <1>7, <3>1, <3>2
  <2> QED BY <1>2, <1>7, <2>1
<1>14. low = 126 => up = 0
  <2> HAVE low = 126
  <2>1. e = 8 /\ M = 6
    BY <1>2, <1>7
  <2>2. m <= 6 * W /\ 6 * W \in Nat
    BY <1>1, <2>1
  <2>3. m = 6 * W + l
    BY <1>7, <2>1
  <2>4. l = 0
    <3> HIDE DEF W
    <3> QED BY <1>5, <1>6, <2>2, <2>3
  <2> QED BY <2>1, <2>4
<1> DEFINE MQ == M * Q
<1>15. /\ (8 + M) * Q = 8 * Q + MQ /\ (9 + M) * Q = 9 * Q + MQ
       /\ (17 + 2 * M) * Q = 17 * Q + 2 * MQ /\ MQ \in Nat
  <2> HIDE DEF Q
  <2> QED BY <1>7, <1>10
<1> HIDE DEF W, Q, lP, x, at, next, both, hP, low, P, u, K, MQ
<1>16. /\ at <= x /\ x < next /\ x \in Nat
  BY <1>9, <1>10, <1>15
<1>17. up = 0 => 2 * x < both \/ (2 * x = both /\ low % 2 = 0)
  <2> HAVE up = 0
  <2>1. l + (M % 2) <= h
    BY <1>6, <1>7
  <2>2. l < h \/ (l = h /\ M % 2 = 0)
    BY <1>6, <1>7, <2>1
  <2>3. lP < hP \/ (lP = hP /\ M % 2 = 0)
    BY <1>12, <2>2
  <2> QED BY <1>9, <1>10, <1>11, <1>13, <1>15, <2>3
<1>18. up = 1 => 2 * x > both \/ (2 * x = both /\ (low + 1) % 2 = 0)
  <2> HAVE up = 1
  <2>1. l + (M % 2) > h
    OBVIOUS
  <2>2. l > h \/ (l = h /\ M % 2 = 1)
    BY <1>6, <1>7, <2>1
  <2>3. lP > hP \/ (lP = hP /\ M % 2 = 1)
    BY <1>12, <2>2
  <2>4. M % 2 = 1 => (M + 1) % 2 = 0
    BY <1>7
  <2> QED BY <1>9, <1>10, <1>11, <1>13, <1>15, <2>3, <2>4
<1>19. /\ (2 * x < both \/ (2 * x = both /\ low % 2 = 0)) => IsNearest(low, u, x)
       /\ (low < 126 /\ (2 * x > both \/ (2 * x = both /\ (low + 1) % 2 = 0)))
            => IsNearest(low + 1, u, x)
  <2>1. Value(low) * u <= x /\ x < Value(low + 1) * u
    BY <1>16 DEF at, next
  <2> QED BY <1>3, <1>13, <1>16, <2>1, BetweenTwo DEF both
<1>20. up = 0 \/ up = 1
  OBVIOUS
<1> HIDE DEF up
<1>21. CASE up = 0
  <2>1. IsNearest(low, u, x) /\ low + up = low
    BY <1>13, <1>17, <1>19, <1>21
  <2>2. IsNearest(A!Normal(e, m), u, x)
    BY <1>8, <2>1
  <2> QED BY <2>2 DEF u, x, P
<1>22. CASE up = 1
  <2>1. low < 126
    BY <1>13, <1>14, <1>22
  <2>2. IsNearest(low + 1, u, x) /\ low + up = low + 1
    BY <1>18, <1>19, <1>22, <2>1
  <2>3. IsNearest(A!Normal(e, m), u, x)
    BY <1>8, <2>2
  <2> QED BY <2>3 DEF u, x, P
<1> QED BY <1>20, <1>21, <1>22

(* Below the normal numbers: a quotient is rounded to the nearest whole.   *)
LEMMA NearestIs ==
  ASSUME NEW num \in Nat, NEW den \in Nat \ {0}
  PROVE  LET c == num \div den
             r == num % den
         IN A!Nearest(num, den) =
              IF 2 * r < den \/ (2 * r = den /\ c % 2 = 0) THEN c ELSE c + 1
<1> DEFINE c == num \div den
           r == num % den
           d == 2 * den
           t == 2 * num + den
           p == den * c
<1>1. c \in Nat /\ r \in Nat /\ r < den /\ num = p + r
  BY DivMod
<1> HIDE DEF c, r
<1>2. p \in Nat /\ d * c = 2 * p /\ d * (c + 1) = 2 * p + d /\ d \in Nat \ {0}
  BY <1>1
<1>3. A!Nearest(num, den) = IF t % d = 0 /\ (t \div d) % 2 = 1 THEN (t \div d) - 1 ELSE t \div d
  BY DEF A!Nearest
<1>4. t = 2 * p + 2 * r + den
  <2> HIDE DEF p
  <2> QED BY <1>1, <1>2
<1>5. CASE 2 * r < den
  <2> DEFINE s == 2 * r + den
  <2>1. s \in Nat /\ s < d /\ s # 0
    BY <1>1, <1>5
  <2>2. t = d * c + s
    <3> HIDE DEF p, t
    <3> QED BY <1>1, <1>2, <1>4
  <2> HIDE DEF s, d, t, p
  <2>3. (d * c + s) \div d = c /\ (d * c + s) % d = s
    BY <1>1, <1>2, <2>1, DivUnique
  <2>4. t \div d = c /\ t % d # 0
    BY <2>1, <2>2, <2>3
  <2> QED BY <1>3, <1>5, <2>4 DEF c, r
<1>6. CASE ~ (2 * r < den)
  <2> DEFINE s == 2 * r - den
             k == c + 1
  <2>1. s \in Nat /\ s < d /\ (s = 0 <=> 2 * r = den) /\ k \in Nat
    BY <1>1, <1>6
  <2>2. t = d * k + s
    <3> HIDE DEF p, t, d
    <3>1. d * k = 2 * p + d
      BY <1>2
    <3> QED BY <1>1, <1>2, <1>4, <3>1 DEF d
  <2> HIDE DEF s, d, t, p, k
  <2>3. (d * k + s) \div d = k /\ (d * k + s) % d = s
    BY <1>2, <2>1, DivUnique
  <2>4. t \div d = k /\ t % d = s
    BY <2>2, <2>3
  <2>5. A!Nearest(num, den) = IF 2 * r = den /\ k % 2 = 1 THEN k - 1 ELSE k
    BY <1>3, <2>1, <2>4
  <2>6. k % 2 = 1 <=> c % 2 = 0
    BY <1>1 DEF k
  <2>7. k - 1 = c
    BY <1>1 DEF k
  <2>8. A!Nearest(num, den) = IF 2 * r = den /\ c % 2 = 0 THEN c ELSE c + 1
    BY <2>5, <2>6, <2>7 DEF k
  <2> QED BY <1>6, <2>8 DEF c, r
<1> QED BY <1>5, <1>6

LEMMA SubnormalNear ==
  ASSUME NEW e \in MinExp .. MaxExp, e < -6, NEW m \in 0 .. A!Hidden - 1
  PROVE  IsNearest(A!Subnormal(e, m), Pow2(Wide - 6 - MinExp), (A!Hidden + m) * Pow2(e - MinExp))
<1> DEFINE u == Pow2(Wide - 6 - MinExp)
           P == Pow2(e - MinExp)
           den == Pow2(Wide - 6 - e)
           num == A!Hidden + m
           W == Pow2(Wide)
           c == num \div den
           r == num % den
           x == num * P
<1>1. PICK h \in Nat \ {0} : /\ A!Hidden = 16 * h /\ W = 2 * h
  BY Units
<1>2. e \in Int /\ MinExp \in Int /\ Wide \in Nat /\ e - MinExp \in Nat /\ Wide - 6 - MinExp \in Nat
      /\ Wide - 6 - e \in Nat /\ -7 - e \in Nat
  BY Units
<1>3. u \in Nat \ {0} /\ P \in Nat \ {0} /\ den \in Nat \ {0} /\ W \in Nat \ {0}
  BY <1>2, PowerIs
<1>4. den * P = u
  <2>1. Pow2((Wide - 6 - e) + (e - MinExp)) = den * P
    BY <1>2, PowerAdds
  <2>2. (Wide - 6 - e) + (e - MinExp) = Wide - 6 - MinExp
    BY <1>2
  <2> QED BY <2>1, <2>2
<1>5. den >= 2 * W
  <2>1. Pow2(Wide + 1) = 2 * W
    BY <1>2, PowerIs
  <2> DEFINE a == Wide + 1
             b == -7 - e
  <2>2. a \in Nat /\ b \in Nat /\ a + b = Wide - 6 - e
    BY <1>2
  <2> HIDE DEF a, b
  <2>3. Pow2(a + b) = Pow2(a) * Pow2(b) /\ Pow2(b) \in Nat \ {0} /\ Pow2(a) \in Nat
    BY <2>2, PowerAdds, PowerIs
  <2> DEFINE y == Pow2(a)
             z == Pow2(b)
  <2>4. den = y * z /\ z \in Nat \ {0} /\ y \in Nat
    BY <2>2, <2>3
  <2>5. y = 2 * W
    BY <2>1 DEF a
  <2> HIDE DEF y, z, den, W
  <2>6. y * z >= y
    BY <2>4
  <2> QED BY <2>4, <2>5, <2>6
<1>6. num \in Nat /\ num < 8 * den
  <2>1. num \in Nat /\ num < 16 * W
    BY <1>1
  <2> HIDE DEF num, den, W
  <2> QED BY <1>3, <1>5, <2>1
<1> HIDE DEF u, P, den, num, W
<1>7. c \in Nat /\ r \in Nat /\ r < den /\ num = den * c + r
  BY <1>3, <1>6, DivMod
<1> DEFINE q == IF 2 * r < den \/ (2 * r = den /\ c % 2 = 0) THEN c ELSE c + 1
<1>8. A!Nearest(num, den) = q
  BY <1>3, <1>6, NearestIs
<1> HIDE DEF c, r
<1>9. c <= 7
  <2> DEFINE p == den * c
  <2>1. c >= 8 => p >= den * 8
    BY <1>3, <1>7
  <2>2. p <= num
    <3>1. p \in Nat
      BY <1>3, <1>7
    <3> HIDE DEF p
    <3> QED BY <1>7, <3>1 DEF p
  <2>3. p \in Nat
    BY <1>3, <1>7
  <2> HIDE DEF p
  <2> QED BY <1>3, <1>6, <1>7, <2>1, <2>2, <2>3
<1>10. A!Subnormal(e, m) = q
  <2>1. A!Subnormal(e, m) = IF q > 7 THEN 8 ELSE q
    BY <1>8, Instances DEF A!Subnormal, num, den
  <2>2. q \in 0 .. 8
    BY <1>7, <1>9
  <2> HIDE DEF q
  <2> QED BY <2>1, <2>2
<1> DEFINE at == Value(c) * u
           next == Value(c + 1) * u
           both == (Value(c) + Value(c + 1)) * u
           rP == r * P
           p == c * u
<1>11. Value(c) = c /\ Value(c + 1) = c + 1
  <2> DEFINE k == c + 1
  <2>1. c \in 0 .. 8 /\ k \in 0 .. 8
    BY <1>7, <1>9
  <2> HIDE DEF k
  <2>2. Value(c) = c /\ Value(k) = k
    BY <2>1, ValueSteps
  <2> QED BY <2>2 DEF k
<1>12. at = p /\ next = p + u /\ both = 2 * p + u /\ p \in Nat
  BY <1>3, <1>7, <1>11
<1>13. x = p + rP /\ rP \in Nat /\ rP < u
  <2>1. (den * c + r) * P = c * (den * P) + r * P
    BY <1>3, <1>7
  <2>2. r * P \in Nat /\ r * P < den * P
    BY <1>3, <1>7
  <2> QED BY <1>4, <1>7, <2>1, <2>2
<1>14. /\ 2 * r < den => 2 * rP < u
       /\ 2 * r = den => 2 * rP = u
       /\ 2 * r > den => 2 * rP > u
  <2> DEFINE s == 2 * r
  <2>1. s \in Nat /\ s * P = 2 * rP
    BY <1>3, <1>7
  <2> HIDE DEF s, rP
  <2>2. /\ s < den => s * P < den * P
        /\ s = den => s * P = den * P
        /\ s > den => s * P > den * P
    BY <1>3, <2>1
  <2> QED BY <1>4, <2>1, <2>2 DEF s
<1> HIDE DEF at, next, both, rP, p, x
<1>15. at <= x /\ x < next /\ x \in Nat
  BY <1>3, <1>12, <1>13
<1>16. /\ (2 * x < both \/ (2 * x = both /\ c % 2 = 0)) => IsNearest(c, u, x)
       /\ (c < 126 /\ (2 * x > both \/ (2 * x = both /\ (c + 1) % 2 = 0))) => IsNearest(c + 1, u, x)
  <2>1. Value(c) * u <= x /\ x < Value(c + 1) * u
    BY <1>15 DEF at, next
  <2>2. c \in 0 .. 126
    BY <1>7, <1>9
  <2> QED BY <1>3, <1>15, <2>1, <2>2, BetweenTwo DEF both
<1>17. CASE 2 * r < den \/ (2 * r = den /\ c % 2 = 0)
  <2>1. q = c
    BY <1>17
  <2>2. 2 * x < both \/ (2 * x = both /\ c % 2 = 0)
    BY <1>3, <1>12, <1>13, <1>14, <1>17
  <2>3. IsNearest(c, u, x)
    BY <1>16, <2>2
  <2> HIDE DEF q
  <2>4. IsNearest(A!Subnormal(e, m), u, x)
    BY <1>10, <2>1, <2>3
  <2> QED BY <2>4 DEF u, x, P, num
<1>18. CASE ~ (2 * r < den \/ (2 * r = den /\ c % 2 = 0))
  <2>1. q = c + 1
    BY <1>18
  <2>2. 2 * r > den \/ (2 * r = den /\ (c + 1) % 2 = 0)
    BY <1>3, <1>7, <1>18
  <2>3. 2 * x > both \/ (2 * x = both /\ (c + 1) % 2 = 0)
    BY <1>3, <1>12, <1>13, <1>14, <2>2
  <2>4. c < 126
    BY <1>7, <1>9
  <2>5. IsNearest(c + 1, u, x)
    BY <1>16, <2>3, <2>4
  <2> HIDE DEF q
  <2>6. IsNearest(A!Subnormal(e, m), u, x)
    BY <1>10, <2>1, <2>5
  <2> QED BY <2>6 DEF u, x, P, num
<1> QED BY <1>17, <1>18

(* Above them all: the largest number, which is what is encoded.           *)
LEMMA Fourteen == Pow2(14) = 16384 /\ Value(126) = 448 * 512
<1>1. Pow2(0 + 1) = 2 * Pow2(0) /\ Pow2(0) = 1
  BY PowerIs
<1>2. Pow2(1) = 2
  BY <1>1
<1>3. Pow2(1 + 1) = Pow2(1) * Pow2(1)
  BY PowerAdds
<1>4. Pow2(2) = 4
  BY <1>2, <1>3
<1>5. Pow2(2 + 1) = Pow2(2) * Pow2(1)
  BY PowerAdds
<1>6. Pow2(3) = 8
  BY <1>2, <1>4, <1>5
<1>7. Pow2(3 + 3) = Pow2(3) * Pow2(3)
  BY PowerAdds
<1>8. Pow2(6) = 64
  BY <1>6, <1>7
<1>9. Pow2(6 + 1) = Pow2(6) * Pow2(1)
  BY PowerAdds
<1>10. Pow2(7) = 128
  BY <1>2, <1>8, <1>9
<1>11. Pow2(7 + 7) = Pow2(7) * Pow2(7)
  BY PowerAdds
<1>12. Pow2(14) = 16384
  <2>1. 7 + 7 = 14 /\ 128 * 128 = 16384
    OBVIOUS
  <2> QED BY <1>10, <1>11, <2>1
<1>13. \A E \in Nat \ {0}, M \in 0 .. 7 : Value(8 * E + M) = (8 + M) * Pow2(E - 1)
  BY ValueSteps
<1>14. Value(126) = 14 * Pow2(14)
  <2>1. PICK E \in Nat \ {0} : E = 15
    OBVIOUS
  <2>2. PICK M \in 0 .. 7 : M = 6
    OBVIOUS
  <2>3. Value(8 * E + M) = (8 + M) * Pow2(E - 1)
    BY <1>13
  <2>4. 8 * E + M = 126 /\ 8 + M = 14 /\ E - 1 = 14
    BY <2>1, <2>2
  <2> QED BY <2>3, <2>4
<1> QED BY <1>12, <1>14

LEMMA Clipped ==
  ASSUME NEW e \in MinExp .. MaxExp, NEW m \in 0 .. A!Hidden - 1
  PROVE  LET y == (A!Hidden + m) * Pow2(e - MinExp)
             limit == 448 * 512 * Pow2(Wide - 6 - MinExp)
         IN /\ y \in Nat /\ limit \in Nat
            /\ (e > 8 \/ (e = 8 /\ m > 6 * A!Pow2(Wide))) => y >= limit
            /\ ~ (e > 8 \/ (e = 8 /\ m > 6 * A!Pow2(Wide))) => y <= limit
<1> DEFINE u == Pow2(Wide - 6 - MinExp)
           P == Pow2(e - MinExp)
           W == A!Pow2(Wide)
           n == A!Hidden + m
           y == n * P
           limit == 448 * 512 * u
<1>1. PICK h \in Nat \ {0} : A!Hidden = 16 * h /\ W = 2 * h /\ Pow2(Wide) = W
  BY Units
<1>2. e \in Int /\ MinExp \in Int /\ Wide \in Nat /\ e - MinExp \in Nat /\ Wide - 6 - MinExp \in Nat
  BY Units
<1>3. u \in Nat \ {0} /\ P \in Nat \ {0} /\ W \in Nat \ {0}
  BY <1>1, <1>2, PowerIs
<1>4. n \in Nat /\ n >= 8 * W /\ n < 16 * W /\ (m > 6 * W <=> n > 14 * W)
  BY <1>1
<1>5. y \in Nat /\ limit \in Nat
  <2> HIDE DEF n, P, u
  <2> QED BY <1>3, <1>4
<1>6. e >= 8 => (e > 8 \/ m > 6 * W => y >= limit) /\ (e = 8 /\ ~ (m > 6 * W) => y <= limit)
  <2> HAVE e >= 8
  <2> DEFINE a == e - 8
             b == Wide - 6 - MinExp
             k == e - MinExp
             j == a + 14
             Q == Pow2(a)
  <2>1. a \in Nat /\ b \in Nat /\ k \in Nat /\ j \in Nat /\ Wide + k = b + j
    BY <1>2
  <2> HIDE DEF a, b, k
  <2>2. Pow2(Wide + k) = Pow2(Wide) * Pow2(k)
    BY <1>2, <2>1, PowerAdds
  <2>3. Pow2(a + 14) = Pow2(a) * Pow2(14)
    BY <2>1, PowerAdds
  <2>4. Pow2(b + j) = Pow2(b) * Pow2(j)
    <3> HIDE DEF j
    <3> QED BY <2>1, PowerAdds
  <2>5. W * P = u * (Q * 16384)
    BY <1>1, <2>1, <2>2, <2>3, <2>4, Fourteen DEF b, k
  <2>6. Q \in Nat \ {0} /\ (a = 0 => Q = 1) /\ (a # 0 => Q >= 2)
    <3>1. Q \in Nat \ {0} /\ (a = 0 => Q = 1)
      BY <2>1, PowerIs
    <3>2. a # 0 => Q >= 2
      <4> HAVE a # 0
      <4>1. a - 1 \in Nat /\ (a - 1) + 1 = a
        BY <2>1
      <4>2. Pow2((a - 1) + 1) = 2 * Pow2(a - 1) /\ Pow2(a - 1) \in Nat \ {0}
        BY <4>1, PowerIs
      <4> DEFINE z == Pow2(a - 1)
      <4>3. Q = 2 * z /\ z \in Nat \ {0}
        BY <4>1, <4>2
      <4> HIDE DEF z, Q
      <4> QED BY <4>3
    <3> QED BY <3>1, <3>2
  <2> HIDE DEF Q, u, P, W, n
  <2> DEFINE t == W * P
             v == u * 16384
  <2>7. t = v * Q /\ v \in Nat /\ limit = 14 * v
    BY <1>3, <2>5, <2>6
  <2>8. /\ y >= 8 * t
        /\ n > 14 * W => y >= 14 * t
        /\ ~ (n > 14 * W) => y <= 14 * t
    <3>1. 8 * t = (8 * W) * P /\ 14 * t = (14 * W) * P
      BY <1>3
    <3> DEFINE c == 8 * W
               d == 14 * W
    <3>2. c \in Nat /\ d \in Nat /\ n >= c
      BY <1>3, <1>4
    <3> HIDE DEF c, d
    <3>3. n * P >= c * P /\ (n > d => n * P >= d * P) /\ (~ (n > d) => n * P <= d * P)
      BY <1>3, <1>4, <3>2
    <3> QED BY <3>1, <3>3 DEF c, d
  <2>9. a = 0 => t = v
    BY <2>6, <2>7
  <2>10. a # 0 => t >= 2 * v
    BY <2>6, <2>7
  <2>11. t \in Nat
    BY <1>3
  <2> HIDE DEF t, v, y, limit
  <2>12. e > 8 => a # 0
    BY <1>2 DEF a
  <2>13. e = 8 => a = 0
    BY <1>2 DEF a
  <2> QED BY <1>2, <1>4, <1>5, <2>7, <2>8, <2>9, <2>10, <2>11, <2>12, <2>13
<1>7. e < 8 => y <= limit
  <2> HAVE e < 8
  <2> DEFINE a == 7 - e
             b == Wide - 6 - MinExp
             k == e - MinExp
             Q == Pow2(a)
  <2>1. a \in Nat /\ b \in Nat /\ k \in Nat /\ Wide + k + (a + 1) = b + 14 /\ Wide + k \in Nat /\ a + 1 \in Nat
    BY <1>2
  <2> HIDE DEF a, b, k
  <2>2. Pow2(Wide + k) = Pow2(Wide) * Pow2(k)
    BY <1>2, <2>1, PowerAdds
  <2>3. Pow2((Wide + k) + (a + 1)) = Pow2(Wide + k) * Pow2(a + 1)
    <3> DEFINE f == Wide + k
               g == a + 1
    <3>1. f \in Nat /\ g \in Nat
      BY <2>1
    <3> HIDE DEF f, g
    <3>2. Pow2(f + g) = Pow2(f) * Pow2(g)
      BY <3>1, PowerAdds
    <3> QED BY <3>2 DEF f, g
  <2>4. Pow2(b + 14) = Pow2(b) * Pow2(14)
    BY <2>1, PowerAdds
  <2>5. Pow2(a + 1) = 2 * Q /\ Q \in Nat \ {0}
    BY <2>1, PowerIs
  <2>6. (W * P) * (2 * Q) = u * 16384
    BY <1>1, <2>1, <2>2, <2>3, <2>4, <2>5, Fourteen DEF b, k
  <2> HIDE DEF Q, u, P, W, n
  <2> DEFINE t == W * P
             v == u * 16384
  <2>7. t \in Nat /\ v \in Nat /\ limit = 14 * v
    BY <1>3
  <2>8. 2 * t <= v
    <3>1. t * (2 * Q) = v
      BY <2>6
    <3> HIDE DEF t, v
    <3>2. t * (2 * Q) >= 2 * t
      BY <2>5, <2>7
    <3> QED BY <3>1, <3>2
  <2>9. y <= 16 * t
    <3>1. 16 * t = (16 * W) * P
      BY <1>3
    <3> DEFINE c == 16 * W
    <3>2. c \in Nat /\ n <= c
      BY <1>3, <1>4
    <3> HIDE DEF c
    <3>3. n * P <= c * P
      BY <1>3, <1>4, <3>2
    <3> QED BY <3>1, <3>3 DEF c
  <2> HIDE DEF t, v, y, limit
  <2> QED BY <1>5, <2>7, <2>8, <2>9
<1> HIDE DEF y, limit
<1>8. (e > 8 \/ (e = 8 /\ m > 6 * W)) => y >= limit
  BY <1>2, <1>6
<1>9. ~ (e > 8 \/ (e = 8 /\ m > 6 * W)) => y <= limit
  <2> HIDE DEF W
  <2> QED BY <1>2, <1>6, <1>7
<1> QED BY <1>5, <1>8, <1>9 DEF y, limit

(* So the code of a float is nearest to it, or to the largest there is.    *)
Encoded(e, m) ==
  LET u == Pow2(Wide - 6 - MinExp)
  IN IsNearest(A!f32_to_e4m3(e, m), u,
               Min({(A!Hidden + m) * Pow2(e - MinExp), 448 * 512 * u}))

LEMMA EncodedNear ==
  ASSUME NEW e \in MinExp .. MaxExp, NEW m \in 0 .. A!Hidden - 1
  PROVE  Encoded(e, m)
<1> DEFINE u == Pow2(Wide - 6 - MinExp)
           P == Pow2(e - MinExp)
           W == A!Pow2(Wide)
           y == (A!Hidden + m) * P
           limit == 448 * 512 * u
           over == e > 8 \/ (e = 8 /\ m > 6 * W)
           x == Min({y, limit})
           code == A!f32_to_e4m3(e, m)
<1>1. y \in Nat /\ limit \in Nat /\ (over => y >= limit) /\ (~ over => y <= limit)
  BY Clipped
<1>2. x = IF y <= limit THEN y ELSE limit
  <2>1. y \in Int /\ limit \in Int
    BY <1>1
  <2> HIDE DEF y, limit
  <2> QED BY <2>1, Min2
<1>3. x = IF over THEN limit ELSE y
  <2> HIDE DEF x, y, limit, over
  <2> QED BY <1>1, <1>2
<1>4. PICK h \in Nat \ {0} : A!Pow2(Wide - 1) = h /\ W = 2 * h /\ A!Hidden = 16 * h
  BY Units
<1>5. e \in Int /\ Wide - 6 - MinExp \in Nat
  BY Units
<1>6. code = LET ee == IF over THEN 8 ELSE e
                 mm == IF over THEN 6 * W ELSE m
             IN IF ee < -6 THEN A!Subnormal(ee, mm) ELSE A!Normal(ee, mm)
  BY Zenon DEF A!f32_to_e4m3
<1> HIDE DEF x, code
<1>7. CASE over
  <2>1. code = A!Normal(8, 6 * W)
    BY <1>6, <1>7
  <2> DEFINE six == 6 * W
  <2>2. InNormal(h, 6, 0, six, 8)
    <3> HIDE DEF W
    <3> QED BY <1>4, <1>5 DEF InNormal, W
  <2>3. A!Normal(8, six) = 8 * (8 + 7) + 6 + (IF 0 + (6 % 2) > h THEN 1 ELSE 0)
    <3> HIDE DEF six
    <3> QED BY <2>2, RoundsToEven
  <2>4. code = 126
    <3> HIDE DEF W
    <3> QED BY <2>1, <2>3, <1>4
  <2>5. x = Value(126) * u
    <3>1. x = limit
      BY <1>3, <1>7
    <3> QED BY <3>1, Fourteen
  <2>6. Value(126) \in Nat /\ Value(126) < Value(126 + 1)
    BY ValueGrows
  <2>7. Value(126 + 1) \in Nat
    <3>1. 126 + 1 \in Nat
      OBVIOUS
    <3> QED BY <3>1, ValueGrows
  <2>8. u \in Nat \ {0}
    BY <1>5, PowerIs
  <2> HIDE DEF u
  <2> DEFINE a == Value(126)
             b == Value(126 + 1)
  <2>9. a \in Nat /\ b \in Nat /\ a < b /\ x = a * u
    BY <2>5, <2>6, <2>7
  <2> HIDE DEF a, b
  <2>10. x \in Nat /\ a * u <= x /\ x < b * u /\ 2 * x < (a + b) * u
    BY <2>8, <2>9
  <2>11. IsNearest(126, u, x)
    <3>1. 126 \in 0 .. 126 /\ Value(126) * u <= x /\ x < Value(126 + 1) * u
          /\ 2 * x < (Value(126) + Value(126 + 1)) * u
      BY <2>10 DEF a, b
    <3> QED BY <2>8, <2>10, <3>1, BetweenTwo
  <2>12. IsNearest(code, u, x)
    BY <2>4, <2>11
  <2> QED BY <2>12 DEF Encoded, code, x, y, limit, u, P
<1>8. CASE ~ over
  <2>1. code = IF e < -6 THEN A!Subnormal(e, m) ELSE A!Normal(e, m)
    BY <1>6, <1>8
  <2>2. x = y
    BY <1>3, <1>8
  <2>3. IsNearest(code, u, y)
    <3>1. CASE e < -6
      <4>1. IsNearest(A!Subnormal(e, m), u, y)
        BY <3>1, SubnormalNear
      <4> QED BY <2>1, <3>1, <4>1
    <3>2. CASE ~ (e < -6)
      <4>1. e >= -6 /\ e <= 8 /\ (e = 8 => m <= 6 * A!Pow2(Wide))
        <5>1. m \in Int /\ 6 * W \in Int
          <6> HIDE DEF W
          <6> QED BY <1>4
        <5> HIDE DEF W
        <5> QED BY <1>5, <1>8, <3>2, <5>1 DEF W
      <4>2. IsNearest(A!Normal(e, m), u, y)
        BY <4>1, NormalNear
      <4> QED BY <2>1, <3>2, <4>2
    <3> QED BY <3>1, <3>2
  <2>4. IsNearest(code, u, x)
    <3> HIDE DEF y, u
    <3> QED BY <2>2, <2>3
  <2> QED BY <2>4 DEF Encoded, code, x, y, limit, u, P
<1> QED BY <1>7, <1>8

(* CacheReadBack, of the format and the exponent that are asked about.     *)
CacheHolds(fmt) ==
  LET numbers == (0 .. KvSlots - 1) \X (0 .. NKV - 1) \X (0 .. D - 1)
      place(e) == A!store_kv(fmt, e[1], e[2], e[3])
      attn == {i \in F!LayerIds : F!IsAttn(i)}
      base(i) == F!KvBase(i, KvSlots, NKV * D)
  IN /\ \A e \in numbers :
          /\ A!load_kv8(fmt, e[1], e[2], e[3] - (e[3] % 8), e[3] % 8) = place(e)
          /\ \A kv0 \in 0 .. e[1] :
               A!k_kv_deq(fmt, kv0, A!TileElement(e[1] - kv0, e[2], e[3])) = place(e)
     /\ Cardinality({<<place(e).byte, place(e).half>> : e \in numbers}) = Cardinality(numbers)
     /\ \A i, j \in attn : i < j => base(i) + KvSlots * (NKV * D) <= base(j)
     /\ \A i \in attn : base(i) \in 0 .. (F!num_attn_layers - 1) * KvSlots * (NKV * D)
     /\ {F!gdn_idx(i) : i \in F!LayerIds \ attn} = 0 .. F!num_gdn_layers - 1
     /\ \A a \in Peaks : \A x \in -a .. a :
          LET q == A!QuantI4(x, a)
          IN /\ A!kv_i4_decode(A!kv_i4_encode(q)) = q
             /\ -a <= 14 * x - 2 * q * a /\ 14 * x - 2 * q * a <= a

Fp8Holds(exp) ==
  \A m \in 0 .. A!Hidden - 1 :
    LET unit == Pow2(Wide - 6 - MinExp)
        x == Min({(A!Hidden + m) * Pow2(exp - MinExp), 448 * 512 * unit})
        code == A!f32_to_e4m3(exp, m)
        distance(c) == LET v == A!e4m3_to_f32(c) * unit IN IF v > x THEN v - x ELSE x - v
    IN /\ code \in 0 .. 126
       /\ \A c \in (0 .. 126) \ {code} :
            \/ distance(code) < distance(c)
            \/ distance(code) = distance(c) /\ code % 2 = 0

LEMMA ReadBackIs ==
  CacheReadBack <=> /\ Is("cache") => CacheHolds(asked.fmt)
                    /\ Is("fp8") => Fp8Holds(asked.e)
BY Zenon DEF CacheReadBack, CacheHolds, Fp8Holds

LEMMA CacheRight == ASSUME NEW fmt PROVE CacheHolds(fmt)
<1> DEFINE place(e) == A!store_kv(fmt, e[1], e[2], e[3])
<1>1. ASSUME NEW e \in Numbers
      PROVE  /\ A!load_kv8(fmt, e[1], e[2], e[3] - (e[3] % 8), e[3] % 8) = place(e)
             /\ \A kv0 \in 0 .. e[1] :
                  A!k_kv_deq(fmt, kv0, A!TileElement(e[1] - kv0, e[2], e[3])) = place(e)
  <2> DEFINE p == e[1]
             h == e[2]
             d == e[3]
  <2>1. p \in Nat /\ h \in Nat /\ d \in Nat
    BY HeadAssumption DEF Numbers
  <2> HIDE DEF p, h, d
  <2>2. A!store_kv(fmt, p, h, d) = PlaceOf(fmt, p * NKV + h, d)
    BY <2>1, StoreIs
  <2>3. A!load_kv8(fmt, p, h, d - (d % 8), d % 8) = PlaceOf(fmt, p * NKV + h, d)
    BY <2>1, LoadIs
  <2>4. ASSUME NEW kv0 \in 0 .. p
        PROVE  A!k_kv_deq(fmt, kv0, A!TileElement(p - kv0, h, d)) = PlaceOf(fmt, p * NKV + h, d)
    BY <2>1, DequantIs
  <2>5. /\ A!load_kv8(fmt, p, h, d - (d % 8), d % 8) = A!store_kv(fmt, p, h, d)
        /\ \A kv0 \in 0 .. p :
             A!k_kv_deq(fmt, kv0, A!TileElement(p - kv0, h, d)) = A!store_kv(fmt, p, h, d)
    BY <2>2, <2>3, <2>4
  <2> QED BY <2>5 DEF p, h, d
<1>2. Cardinality({<<place(e).byte, place(e).half>> : e \in Numbers}) = Cardinality(Numbers)
  BY SpotsEnough, Zenon DEF Slot, Home
<1>3. \A a \in Peaks : \A x \in -a .. a :
        LET q == A!QuantI4(x, a)
        IN /\ A!kv_i4_decode(A!kv_i4_encode(q)) = q
           /\ -a <= 14 * x - 2 * q * a /\ 14 * x - 2 * q * a <= a
  <2> SUFFICES ASSUME NEW a \in Peaks, NEW x \in -a .. a
               PROVE  LET q == A!QuantI4(x, a)
                      IN /\ A!kv_i4_decode(A!kv_i4_encode(q)) = q
                         /\ -a <= 14 * x - 2 * q * a /\ 14 * x - 2 * q * a <= a
    BY Zenon
  <2>1. a \in Nat \ {0}
    BY HeadAssumption
  <2> QED BY <2>1, QuartersNear
<1>4. \A e \in Numbers :
        /\ A!load_kv8(fmt, e[1], e[2], e[3] - (e[3] % 8), e[3] % 8) = place(e)
        /\ \A kv0 \in 0 .. e[1] :
             A!k_kv_deq(fmt, kv0, A!TileElement(e[1] - kv0, e[2], e[3])) = place(e)
  <2> HIDE DEF place
  <2> QED BY <1>1, Zenon
<1> QED BY <1>2, <1>3, <1>4, PartsApart, StatesDense, Zenon DEF CacheHolds, Numbers

LEMMA Fp8Right == ASSUME NEW exp \in MinExp .. MaxExp PROVE Fp8Holds(exp)
<1>1. \A m \in 0 .. A!Hidden - 1 : Encoded(exp, m)
  BY EncodedNear
<1> QED BY <1>1, ZenonT(60) DEF Fp8Holds, Encoded, IsNearest, Away, Value

(* The cache gives back what was stored in it, nearest to the number it    *)
(* was (CacheReadBack).                                                    *)
THEOREM Cache == PassSpec => []CacheReadBack
<1>1. CacheAsked => CacheReadBack
  <2> SUFFICES ASSUME NEW fmt \in {"FP8", "INT4"}, asked = [op |-> "cache", fmt |-> fmt]
               PROVE  CacheReadBack
    BY DEF CacheAsked
  <2>1. asked.op = "cache" /\ asked.fmt = fmt
    OBVIOUS
  <2>2. ~ Is("fp8")
    BY <2>1 DEF Is
  <2> QED BY <2>1, <2>2, CacheRight, ReadBackIs
<1>2. Fp8Asked => CacheReadBack
  <2> SUFFICES ASSUME NEW exp \in MinExp .. MaxExp, asked = [op |-> "fp8", e |-> exp]
               PROVE  CacheReadBack
    BY DEF Fp8Asked
  <2>1. asked.op = "fp8" /\ asked.e = exp
    OBVIOUS
  <2>2. ~ Is("cache")
    BY <2>1 DEF Is
  <2> QED BY <2>1, <2>2, Fp8Right, ReadBackIs
<1>3. SomeAsked => CacheReadBack
  <2>1. ASSUME asked.op \notin {"cache", "fp8"} PROVE CacheReadBack
    BY <2>1 DEF CacheReadBack, Is
  <2>2. asked = [op |-> "nothing"] => asked.op = "nothing"
    OBVIOUS
  <2> QED BY <1>1, <1>2, <2>1, <2>2, Kinds DEF SomeAsked
<1> QED BY <1>3, PassQuestions, PTL
================================================================================
