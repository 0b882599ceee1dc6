-------------------------- MODULE Speculation_proofs --------------------------
(***************************************************************************)
(* Speculative rounds are lossless, whatever is drafted: a round leaves    *)
(* the device where feeding the tokens one by one would have, and hands    *)
(* out the model's own tokens only. For any vocabulary, any model, any     *)
(* convolution, and any length of prompts, chunks, drafts and answers.     *)
(*                                                                         *)
(* The recurrent half carries the argument: the rows of a convolution and  *)
(* the window behind them do not depend on how a text is cut into calls    *)
(* (ConvJoins, WindowJoins), so what was captured of a block is what the   *)
(* rows of the accepted prefix would have been.                            *)
(***************************************************************************)
EXTENDS Speculation, SequenceTheorems, TLAPS

(* The head of the model has one logit for each token of the vocabulary.   *)
ArgmaxIsToken == \A s \in Logits : Argmax(s) \in Token

Upto(s, n) == SubSeq(s, 1, n)

(* What the model has been fed behind the first n tokens of s.             *)
StandsAt(s, n) ==
  /\ n <= Len(s) /\ n <= MaxCtx
  /\ state = StateOf(Upto(s, n))
  /\ window = WindowAfter(Quiet, s, n)
  /\ \A p \in 1 .. n : kv[p] = s[p]

(* The committed tokens up to pos, and the block behind them.              *)
Tried == Upto(Committed, pos) \o block

(* Every token behind the prompt is the model's own after all before it.   *)
Chosen == \A k \in Len(prompt) + 1 .. Len(Committed) :
            Committed[k] = Argmax(Upto(Committed, k - 1))

(* The free token is committed but not fed.                                *)
Ahead ==
  /\ pos = Len(Committed) - 1
  /\ Len(out) <= MaxNew
  /\ block # <<>>
  /\ block[1] = Committed[pos + 1]

(* What a verification has captured.                                       *)
Verified ==
  /\ StandsAt(Tried, pos + Len(block))
  /\ stateBak = StateOf(Upto(Tried, pos))
  /\ windowBak = WindowAfter(Quiet, Tried, pos)
  /\ Len(blockLogits) = Len(block)
  /\ \A i \in 1 .. Len(block) :
       /\ preConv[i] = block[i]
       /\ postConv[i] = StateOf(Tried)[pos + i]
       /\ blockLogits[i] = Upto(Tried, pos + i)

SpecInv ==
  /\ Chosen
  /\ pc = "prefill" => /\ out = <<>> /\ StandsAt(prompt, pos)
                       /\ pos > 0 => logits = Upto(prompt, pos)
                       /\ pos < Len(prompt)
  /\ pc = "head" => /\ pos = Len(Committed) /\ StandsAt(Committed, pos)
                    /\ logits = Committed
  /\ pc = "draft" => Ahead /\ Len(block) = 1 /\ StandsAt(Committed, pos)
  /\ pc = "verify" => /\ Ahead /\ Len(block) \in 2 .. MaxK + 1 /\ StandsAt(Committed, pos)
                      /\ stateBak = state /\ windowBak = window
  /\ pc = "commit" => Ahead /\ Len(block) \in 2 .. MaxK + 1 /\ Verified

-----------------------------------------------------------------------------
(* Beginnings of sequences.                                                *)
LEMMA UptoIs ==
  ASSUME NEW S, NEW s \in Seq(S), NEW n \in Nat, n <= Len(s)
  PROVE  /\ Upto(s, n) \in Seq(S)
         /\ Len(Upto(s, n)) = n
         /\ \A k \in 1 .. n : Upto(s, n)[k] = s[k]
<1>1. Len(s) \in Nat
  BY LenProperties
<1>2. \A k \in 1 .. n : s[k] \in S
  BY <1>1, ElementOfSeq
<1>3. /\ SubSeq(s, 1, n) \in Seq(S)
      /\ Len(SubSeq(s, 1, n)) = IF 1 <= n THEN n - 1 + 1 ELSE 0
      /\ \A k \in 1 .. n - 1 + 1 : SubSeq(s, 1, n)[k] = s[1 + k - 1]
  BY <1>1, <1>2, SubSeqProperties
<1> DEFINE u == SubSeq(s, 1, n)
<1> HIDE DEF u
<1>4. u \in Seq(S) /\ Len(u) = n /\ \A k \in 1 .. n : u[k] = s[k]
  <2>1. \A k \in 1 .. n : 1 + k - 1 = k
    OBVIOUS
  <2> QED
    BY <1>3, <2>1 DEF u
<1> QED
  BY <1>4 DEF u, Upto

LEMMA UptoSame ==
  ASSUME NEW S, NEW a \in Seq(S), NEW b \in Seq(S), NEW n \in Nat,
         n <= Len(a), n <= Len(b), \A k \in 1 .. n : a[k] = b[k]
  PROVE  Upto(a, n) = Upto(b, n)
<1>1. Upto(a, n) \in Seq(S) /\ Upto(b, n) \in Seq(S)
      /\ Len(Upto(a, n)) = n /\ Len(Upto(b, n)) = n
      /\ \A k \in 1 .. n : Upto(a, n)[k] = Upto(b, n)[k]
  BY UptoIs
<1> QED
  BY <1>1, SeqEqual

LEMMA UptoAll ==
  ASSUME NEW S, NEW s \in Seq(S)
  PROVE  Upto(s, Len(s)) = s
<1>1. Len(s) \in Nat
  BY LenProperties
<1>2. Upto(s, Len(s)) \in Seq(S) /\ Len(Upto(s, Len(s))) = Len(s)
      /\ \A k \in 1 .. Len(s) : Upto(s, Len(s))[k] = s[k]
  BY <1>1, UptoIs
<1> QED
  BY <1>2, SeqEqual

(* Some tokens behind a beginning make a longer one.                       *)
LEMMA UptoMore ==
  ASSUME NEW S, NEW a \in Seq(S), NEW t \in Seq(S), NEW p \in Nat,
         p + Len(t) <= Len(a), \A k \in 1 .. Len(t) : a[p + k] = t[k]
  PROVE  Upto(a, p) \o t = Upto(a, p + Len(t))
<1>1. Len(a) \in Nat /\ Len(t) \in Nat /\ p + Len(t) \in Nat /\ p <= Len(a)
  BY LenProperties
<1> DEFINE u == Upto(a, p)
           v == Upto(a, p + Len(t))
<1>2. u \in Seq(S) /\ Len(u) = p /\ \A k \in 1 .. p : u[k] = a[k]
  BY <1>1, UptoIs
<1>3. v \in Seq(S) /\ Len(v) = p + Len(t) /\ \A k \in 1 .. p + Len(t) : v[k] = a[k]
  BY <1>1, UptoIs
<1> HIDE DEF u, v
<1>4. /\ u \o t \in Seq(S) /\ Len(u \o t) = p + Len(t)
      /\ \A k \in 1 .. p + Len(t) : (u \o t)[k] = IF k <= p THEN u[k] ELSE t[k - p]
  <2>1. /\ u \o t \in Seq(S) /\ Len(u \o t) = Len(u) + Len(t)
        /\ \A k \in 1 .. Len(u) + Len(t) :
             (u \o t)[k] = IF k <= Len(u) THEN u[k] ELSE t[k - Len(u)]
    BY <1>2, ConcatProperties
  <2> QED
    BY <1>2, <2>1, Zenon
<1>5. ASSUME NEW k \in 1 .. p + Len(t)
      PROVE  (u \o t)[k] = v[k]
  <2>1. CASE k <= p
    <3>1. k \in 1 .. p
      BY <1>1, <2>1
    <3> QED
      BY <1>2, <1>3, <1>4, <2>1, <3>1
  <2>2. CASE ~ (k <= p)
    <3>1. k - p \in 1 .. Len(t) /\ p + (k - p) = k
      BY <1>1, <2>2
    <3>2. t[k - p] = a[k]
      BY <3>1
    <3> QED
      BY <1>3, <1>4, <2>2, <3>2
  <2> QED
    BY <2>1, <2>2
<1>6. u \o t = v
  BY <1>3, <1>4, <1>5, SeqEqual
<1> QED
  BY <1>6 DEF u, v

-----------------------------------------------------------------------------
(* The convolution, input by input.                                        *)
LEMMA ConvIs ==
  ASSUME NEW w \in Window, NEW s \in Seq(Input)
  PROVE  /\ Conv(w, s) \in Seq(Row) /\ Len(Conv(w, s)) = Len(s)
         /\ \A t \in 1 .. Len(s), j \in 1 .. ConvK :
              Conv(w, s)[t][j] = IF t + j - ConvK >= 1 THEN s[t + j - ConvK] ELSE w[t + j - 1]
<1>1. Len(s) \in Nat
  BY LenProperties
<1>2. ASSUME NEW t \in 1 .. Len(s)
      PROVE  [j \in 1 .. ConvK |->
                IF t + j - ConvK >= 1 THEN s[t + j - ConvK] ELSE w[t + j - 1]] \in Row
  <2>1. ASSUME NEW j \in 1 .. ConvK
        PROVE  (IF t + j - ConvK >= 1 THEN s[t + j - ConvK] ELSE w[t + j - 1]) \in Input
    <3>1. CASE t + j - ConvK >= 1
      <4>1. t + j - ConvK \in 1 .. Len(s)
        BY <1>1, <3>1, RecurrenceAssumption
      <4> QED
        BY <3>1, <4>1, ElementOfSeq
    <3>2. CASE ~ (t + j - ConvK >= 1)
      <4>1. t + j - 1 \in 1 .. ConvK - 1
        BY <1>1, <3>2, RecurrenceAssumption
      <4> QED
        BY <3>2, <4>1 DEF Window
    <3> QED
      BY <3>1, <3>2
  <2> QED
    BY <2>1 DEF Row
<1> DEFINE r(t) == [j \in 1 .. ConvK |->
                      IF t + j - ConvK >= 1 THEN s[t + j - ConvK] ELSE w[t + j - 1]]
           c == [t \in 1 .. Len(s) |-> r(t)]
<1>3. c \in Seq(Row) /\ Len(c) = Len(s)
  <2> HIDE DEF r
  <2>1. c \in [1 .. Len(s) -> Row]
    BY <1>2 DEF r
  <2> QED
    BY <1>1, <2>1, SeqDef, LenProperties
<1> QED
  BY <1>3 DEF Conv

LEMMA WindowTyped ==
  /\ Quiet \in Window
  /\ \A w \in Window, s \in Seq(Input), n \in Nat : n <= Len(s) => WindowAfter(w, s, n) \in Window
<1>1. Quiet \in Window
  BY DEF Quiet, Window, Input
<1>2. ASSUME NEW w \in Window, NEW s \in Seq(Input), NEW n \in Nat, n <= Len(s)
      PROVE  WindowAfter(w, s, n) \in Window
  <2>1. Len(s) \in Nat
    BY LenProperties
  <2>2. ASSUME NEW j \in 1 .. ConvK - 1
        PROVE  (IF n - (ConvK - 1) + j >= 1 THEN s[n - (ConvK - 1) + j] ELSE w[n + j]) \in Input
    <3>1. CASE n - (ConvK - 1) + j >= 1
      <4>1. n - (ConvK - 1) + j \in 1 .. Len(s)
        BY <1>2, <2>1, <3>1, RecurrenceAssumption
      <4> QED
        BY <3>1, <4>1, ElementOfSeq
    <3>2. CASE ~ (n - (ConvK - 1) + j >= 1)
      <4>1. n + j \in 1 .. ConvK - 1
        BY <3>2, RecurrenceAssumption
      <4> QED
        BY <3>2, <4>1 DEF Window
    <3> QED
      BY <3>1, <3>2
  <2> QED
    BY <2>2 DEF WindowAfter, Window
<1> QED
  BY <1>1, <1>2

(* Both kernels of gdn_conv give the same rows and leave the same window.  *)
LEMMA KernelsAgree ==
  ASSUME NEW w \in Window, NEW s \in Seq(Input), s # <<>>
  PROVE  ConvRows(w, s) = Conv(w, s) /\ ConvWindow(w, s) = WindowAfter(w, s, Len(s))
<1>1. CASE Len(s) = 1
  <2>1. StepRow(w, s[1]) =
          [j \in 1 .. ConvK |-> IF 1 + j - ConvK >= 1 THEN s[1 + j - ConvK] ELSE w[1 + j - 1]]
    <3>1. \A j \in 1 .. ConvK :
            (IF j < ConvK THEN w[j] ELSE s[1])
              = IF 1 + j - ConvK >= 1 THEN s[1 + j - ConvK] ELSE w[1 + j - 1]
      BY RecurrenceAssumption
    <3> QED
      BY <3>1 DEF StepRow
  <2>2. ConvRows(w, s) = Conv(w, s)
    <3>1. ConvRows(w, s) = <<StepRow(w, s[1])>>
      BY <1>1 DEF ConvRows
    <3>2. Conv(w, s) = [t \in 1 .. 1 |-> StepRow(w, s[1])]
      BY <1>1, <2>1 DEF Conv
    <3> HIDE DEF StepRow
    <3> QED
      BY <3>1, <3>2
  <2>3. ConvWindow(w, s) = WindowAfter(w, s, Len(s))
    <3>1. \A j \in 1 .. ConvK - 1 :
            (IF j < ConvK - 1 THEN w[j + 1] ELSE s[1])
              = IF 1 - (ConvK - 1) + j >= 1 THEN s[1 - (ConvK - 1) + j] ELSE w[1 + j]
      BY RecurrenceAssumption
    <3> QED
      BY <1>1, <3>1 DEF ConvWindow, StepWindow, WindowAfter
  <2> QED
    BY <2>2, <2>3
<1>2. CASE Len(s) # 1
  BY <1>2 DEF ConvRows, ConvWindow
<1> QED
  BY <1>1, <1>2

(* A window depends on the inputs up to it, however they are stored.       *)
LEMMA WindowOfSame ==
  ASSUME NEW w, NEW a, NEW b, NEW n \in Nat, \A k \in 1 .. n : a[k] = b[k]
  PROVE  WindowAfter(w, a, n) = WindowAfter(w, b, n)
<1>1. \A j \in 1 .. ConvK - 1 :
        (IF n - (ConvK - 1) + j >= 1 THEN a[n - (ConvK - 1) + j] ELSE w[n + j])
          = IF n - (ConvK - 1) + j >= 1 THEN b[n - (ConvK - 1) + j] ELSE w[n + j]
  BY RecurrenceAssumption
<1> QED
  BY <1>1 DEF WindowAfter

LEMMA WindowOfNothing ==
  ASSUME NEW s
  PROVE  WindowAfter(Quiet, s, 0) = Quiet
<1>1. \A j \in 1 .. ConvK - 1 : ~ (0 - (ConvK - 1) + j >= 1) /\ 0 + j = j
  BY RecurrenceAssumption
<1> QED
  BY <1>1 DEF WindowAfter, Quiet

(* The window behind a and n of b, and the rows of a and b, in two calls.  *)
LEMMA WindowJoins ==
  ASSUME NEW s \in Seq(Input), NEW b \in Seq(Input), NEW p \in Nat, NEW n \in Nat,
         p + n <= Len(s), n <= Len(b), \A k \in 1 .. n : s[p + k] = b[k]
  PROVE  WindowAfter(WindowAfter(Quiet, s, p), b, n) = WindowAfter(Quiet, s, p + n)
<1> DEFINE w == WindowAfter(Quiet, s, p)
<1>1. \A j \in 1 .. ConvK - 1 :
        w[j] = IF p - (ConvK - 1) + j >= 1 THEN s[p - (ConvK - 1) + j] ELSE NoToken
  <2>1. ASSUME NEW j \in 1 .. ConvK - 1, ~ (p - (ConvK - 1) + j >= 1)
        PROVE  Quiet[p + j] = NoToken
    <3>1. p + j \in 1 .. ConvK - 1
      BY <2>1, RecurrenceAssumption
    <3> QED
      BY <3>1 DEF Quiet
  <2> QED
    BY <2>1 DEF WindowAfter
<1> HIDE DEF w
<1>2. ASSUME NEW j \in 1 .. ConvK - 1
      PROVE  (IF n - (ConvK - 1) + j >= 1 THEN b[n - (ConvK - 1) + j] ELSE w[n + j])
               = IF (p + n) - (ConvK - 1) + j >= 1
                 THEN s[(p + n) - (ConvK - 1) + j] ELSE Quiet[(p + n) + j]
  <2>1. CASE n - (ConvK - 1) + j >= 1
    <3> DEFINE k == n - (ConvK - 1) + j
    <3>1. k \in 1 .. n /\ (p + n) - (ConvK - 1) + j = p + k /\ p + k >= 1
      BY <2>1, RecurrenceAssumption
    <3>2. s[p + k] = b[k]
      BY <3>1
    <3> QED
      BY <2>1, <3>1, <3>2
  <2>2. CASE ~ (n - (ConvK - 1) + j >= 1)
    <3>1. n + j \in 1 .. ConvK - 1
      BY <2>2, RecurrenceAssumption
    <3>5. p - (ConvK - 1) + (n + j) = (p + n) - (ConvK - 1) + j
      BY RecurrenceAssumption
    <3>2. w[n + j] = IF (p + n) - (ConvK - 1) + j >= 1
                     THEN s[(p + n) - (ConvK - 1) + j] ELSE NoToken
      BY <1>1, <3>1, <3>5
    <3>3. CASE (p + n) - (ConvK - 1) + j >= 1
      BY <2>2, <3>2, <3>3
    <3>4. CASE ~ ((p + n) - (ConvK - 1) + j >= 1)
      <4>1. (p + n) + j \in 1 .. ConvK - 1
        BY <3>4, RecurrenceAssumption
      <4>2. Quiet[(p + n) + j] = NoToken
        BY <4>1 DEF Quiet
      <4> QED
        BY <2>2, <3>2, <3>4, <4>2
    <3> QED
      BY <3>3, <3>4
  <2> QED
    BY <2>1, <2>2
<1>3. WindowAfter(w, b, n) = WindowAfter(Quiet, s, p + n)
  <2> DEFINE f(j) == IF n - (ConvK - 1) + j >= 1 THEN b[n - (ConvK - 1) + j] ELSE w[n + j]
             g(j) == IF (p + n) - (ConvK - 1) + j >= 1
                     THEN s[(p + n) - (ConvK - 1) + j] ELSE Quiet[(p + n) + j]
  <2>1. /\ WindowAfter(w, b, n) = [j \in 1 .. ConvK - 1 |-> f(j)]
        /\ WindowAfter(Quiet, s, p + n) = [j \in 1 .. ConvK - 1 |-> g(j)]
    BY DEF WindowAfter
  <2>2. \A j \in 1 .. ConvK - 1 : f(j) = g(j)
    BY <1>2
  <2> HIDE DEF f, g
  <2> QED
    BY <2>1, <2>2
<1> QED
  BY <1>3 DEF w

(* What a row of StateOf is: ConvK inputs that end with its own.           *)
LEMMA StateIs ==
  ASSUME NEW s \in Seq(Input)
  PROVE  /\ StateOf(s) \in Seq(Row) /\ Len(StateOf(s)) = Len(s)
         /\ \A t \in 1 .. Len(s), j \in 1 .. ConvK :
              StateOf(s)[t][j] = IF t + j - ConvK >= 1 THEN s[t + j - ConvK] ELSE NoToken
<1>1. Len(s) \in Nat
  BY LenProperties
<1>2. ASSUME NEW t \in 1 .. Len(s), NEW j \in 1 .. ConvK, ~ (t + j - ConvK >= 1)
      PROVE  Quiet[t + j - 1] = NoToken
  <2>1. t + j - 1 \in 1 .. ConvK - 1
    BY <1>1, <1>2, RecurrenceAssumption
  <2> QED
    BY <2>1 DEF Quiet
<1>3. Quiet \in Window
  BY WindowTyped
<1>4. /\ StateOf(s) \in Seq(Row) /\ Len(StateOf(s)) = Len(s)
      /\ \A t \in 1 .. Len(s), j \in 1 .. ConvK :
           StateOf(s)[t][j] = IF t + j - ConvK >= 1 THEN s[t + j - ConvK] ELSE Quiet[t + j - 1]
  BY <1>3, ConvIs DEF StateOf
<1> QED
  BY <1>2, <1>4

(* Two rows with the same inputs are the same.                             *)
LEMMA RowEqual ==
  ASSUME NEW a \in Row, NEW b \in Row, \A j \in 1 .. ConvK : a[j] = b[j]
  PROVE  a = b
<1>1. a = [j \in 1 .. ConvK |-> a[j]] /\ b = [j \in 1 .. ConvK |-> b[j]]
  BY DEF Row
<1> QED
  BY <1>1

LEMMA ConvJoins ==
  ASSUME NEW s \in Seq(Input), NEW b \in Seq(Input), NEW p \in Nat,
         p + Len(b) <= Len(s), \A k \in 1 .. Len(b) : s[p + k] = b[k]
  PROVE  /\ \A t \in 1 .. Len(b) : Conv(WindowAfter(Quiet, s, p), b)[t] = StateOf(s)[p + t]
         /\ StateOf(Upto(s, p)) = Upto(StateOf(s), p)
         /\ StateOf(Upto(s, p)) \o Conv(WindowAfter(Quiet, s, p), b) = StateOf(Upto(s, p + Len(b)))
<1> DEFINE w == WindowAfter(Quiet, s, p)
           c == Conv(w, b)
           st == StateOf(s)
<1>1. Len(s) \in Nat /\ Len(b) \in Nat /\ p <= Len(s) /\ p + Len(b) \in Nat
  BY LenProperties
<1>2. w \in Window
  BY <1>1, WindowTyped
<1>3. /\ c \in Seq(Row) /\ Len(c) = Len(b)
      /\ \A t \in 1 .. Len(b), j \in 1 .. ConvK :
           c[t][j] = IF t + j - ConvK >= 1 THEN b[t + j - ConvK] ELSE w[t + j - 1]
  BY <1>2, ConvIs
<1>4. /\ st \in Seq(Row) /\ Len(st) = Len(s)
      /\ \A t \in 1 .. Len(s), j \in 1 .. ConvK :
           st[t][j] = IF t + j - ConvK >= 1 THEN s[t + j - ConvK] ELSE NoToken
  BY StateIs
<1>5. \A j \in 1 .. ConvK - 1 :
        w[j] = IF p - (ConvK - 1) + j >= 1 THEN s[p - (ConvK - 1) + j] ELSE NoToken
  <2>1. ASSUME NEW j \in 1 .. ConvK - 1, ~ (p - (ConvK - 1) + j >= 1)
        PROVE  Quiet[p + j] = NoToken
    <3>1. p + j \in 1 .. ConvK - 1
      BY <2>1, RecurrenceAssumption
    <3> QED
      BY <3>1 DEF Quiet
  <2> QED
    BY <2>1 DEF WindowAfter
<1> HIDE DEF w, c, st
<1>6. ASSUME NEW t \in 1 .. Len(b)
      PROVE  c[t] = st[p + t]
  <2>1. p + t \in 1 .. Len(s) /\ t \in 1 .. Len(c) /\ p + t \in 1 .. Len(st)
    BY <1>1, <1>3, <1>4
  <2>2. c[t] \in Row /\ st[p + t] \in Row
    BY <1>3, <1>4, <2>1, ElementOfSeq
  <2>3. ASSUME NEW j \in 1 .. ConvK
        PROVE  c[t][j] = st[p + t][j]
    <3>1. st[p + t][j] = IF p + t + j - ConvK >= 1 THEN s[p + t + j - ConvK] ELSE NoToken
      BY <1>4, <2>1
    <3>2. CASE t + j - ConvK >= 1
      <4>1. t + j - ConvK \in 1 .. Len(b) /\ p + (t + j - ConvK) = p + t + j - ConvK
            /\ p + t + j - ConvK >= 1
        BY <1>1, <3>2, RecurrenceAssumption
      <4>2. s[p + t + j - ConvK] = b[t + j - ConvK]
        BY <4>1
      <4> QED
        BY <1>3, <3>1, <3>2, <4>1, <4>2
    <3>3. CASE ~ (t + j - ConvK >= 1)
      <4>1. t + j - 1 \in 1 .. ConvK - 1 /\ p - (ConvK - 1) + (t + j - 1) = p + t + j - ConvK
        BY <1>1, <3>3, RecurrenceAssumption
      <4>2. c[t][j] = w[t + j - 1]
        BY <1>3, <3>3
      <4> QED
        BY <1>5, <3>1, <4>1, <4>2
    <3> QED
      BY <3>2, <3>3
  <2> QED
    BY <2>2, <2>3, RowEqual
<1>7. ASSUME NEW n \in Nat, n <= Len(s)
      PROVE  StateOf(Upto(s, n)) = Upto(st, n)
  <2> DEFINE u == Upto(s, n)
             v == StateOf(u)
             x == Upto(st, n)
  <2>1. u \in Seq(Input) /\ Len(u) = n /\ \A k \in 1 .. n : u[k] = s[k]
    BY <1>7, UptoIs
  <2>2. /\ v \in Seq(Row) /\ Len(v) = n
        /\ \A t \in 1 .. n, j \in 1 .. ConvK :
             v[t][j] = IF t + j - ConvK >= 1 THEN u[t + j - ConvK] ELSE NoToken
    BY <2>1, StateIs
  <2>3. x \in Seq(Row) /\ Len(x) = n /\ \A k \in 1 .. n : x[k] = st[k]
    BY <1>4, <1>7, UptoIs
  <2> HIDE DEF u, v, x
  <2>4. ASSUME NEW t \in 1 .. n
        PROVE  v[t] = x[t]
    <3>1. v[t] \in Row /\ x[t] \in Row
      BY <2>2, <2>3, ElementOfSeq
    <3>2. ASSUME NEW j \in 1 .. ConvK
          PROVE  v[t][j] = x[t][j]
      <4>1. x[t][j] = IF t + j - ConvK >= 1 THEN s[t + j - ConvK] ELSE NoToken
        <5>1. t \in 1 .. Len(s)
          BY <1>1, <1>7
        <5> QED
          BY <1>4, <2>3, <5>1
      <4>2. t + j - ConvK >= 1 => t + j - ConvK \in 1 .. n
        BY RecurrenceAssumption
      <4> QED
        BY <2>1, <2>2, <4>1, <4>2
    <3> QED
      BY <3>1, <3>2, RowEqual
  <2>5. v = x
    BY <2>2, <2>3, <2>4, SeqEqual
  <2> QED
    BY <2>5 DEF u, v, x
<1>8. Upto(st, p) \o c = Upto(st, p + Len(c))
  <2>1. p + Len(c) <= Len(st)
    BY <1>1, <1>3, <1>4
  <2>2. \A k \in 1 .. Len(c) : st[p + k] = c[k]
    BY <1>3, <1>6
  <2> QED
    BY <1>3, <1>4, <2>1, <2>2, UptoMore
<1>9. StateOf(Upto(s, p)) = Upto(st, p)
  BY <1>1, <1>7
<1>10. StateOf(Upto(s, p)) \o c = StateOf(Upto(s, p + Len(b)))
  BY <1>1, <1>3, <1>7, <1>8, <1>9
<1> QED
  BY <1>6, <1>9, <1>10 DEF w, c, st

LEMMA StateUpto ==
  ASSUME NEW s \in Seq(Input), NEW n \in Nat, n <= Len(s)
  PROVE  StateOf(Upto(s, n)) = Upto(StateOf(s), n)
<1>1. <<>> \in Seq(Input) /\ Len(<<>>) = 0 /\ n + 0 <= Len(s)
  BY EmptySeq, LenProperties
<1> DEFINE b == <<>>
<1>2. b \in Seq(Input) /\ n + Len(b) <= Len(s) /\ \A k \in 1 .. Len(b) : s[n + k] = b[k]
  BY <1>1
<1> HIDE DEF b
<1> QED
  BY <1>2, ConvJoins

(* The replay of a block's rows behind the state before it.                *)
LEMMA Replayed ==
  ASSUME NEW s \in Seq(Input), NEW p \in Nat, NEW r \in Seq(Row),
         p + Len(r) <= Len(s), \A k \in 1 .. Len(r) : r[k] = StateOf(s)[p + k]
  PROVE  Scan(StateOf(Upto(s, p)), r) = StateOf(Upto(s, p + Len(r)))
<1>1. Len(s) \in Nat /\ Len(r) \in Nat
  BY LenProperties
<1>2. p <= Len(s) /\ p + Len(r) \in Nat
  BY <1>1
<1>3. StateOf(s) \in Seq(Row) /\ Len(StateOf(s)) = Len(s)
  BY StateIs
<1>4. Upto(StateOf(s), p) \o r = Upto(StateOf(s), p + Len(r))
  BY <1>3, UptoMore
<1> QED
  BY <1>2, <1>4, StateUpto DEF Scan

-----------------------------------------------------------------------------
LEMMA TokensAreInputs == \A s \in Seq(Token) : s \in Seq(Input)
<1> SUFFICES ASSUME NEW s \in Seq(Token)
             PROVE  s \in Seq(Input)
  OBVIOUS
<1>1. Token \subseteq Input
  BY DEF Input
<1> QED
  BY <1>1, SeqMonotonic

LEMMA TokensAreLogits == \A s \in Seq(Token) : s \in Logits
BY DEF Logits

LEMMA Joined ==
  ASSUME NEW a \in Seq(Token), NEW b \in Seq(Token)
  PROVE  /\ a \o b \in Seq(Token) /\ Len(a \o b) = Len(a) + Len(b)
         /\ Len(a) \in Nat /\ Len(b) \in Nat
         /\ \A k \in 1 .. Len(a) : (a \o b)[k] = a[k]
         /\ \A k \in 1 .. Len(b) : (a \o b)[Len(a) + k] = b[k]
<1>1. Len(a) \in Nat /\ Len(b) \in Nat
  BY LenProperties
<1> DEFINE c == a \o b
<1>2. /\ c \in Seq(Token) /\ Len(c) = Len(a) + Len(b)
      /\ \A k \in 1 .. Len(a) + Len(b) : c[k] = IF k <= Len(a) THEN a[k] ELSE b[k - Len(a)]
  BY ConcatProperties
<1> HIDE DEF c
<1>3. \A k \in 1 .. Len(a) : c[k] = a[k]
  BY <1>1, <1>2
<1>4. ASSUME NEW k \in 1 .. Len(b)
      PROVE  c[Len(a) + k] = b[k]
  <2>1. Len(a) + k \in 1 .. Len(a) + Len(b) /\ ~ (Len(a) + k <= Len(a)) /\ (Len(a) + k) - Len(a) = k
    BY <1>1
  <2> QED
    BY <1>2, <2>1
<1> QED
  BY <1>1, <1>2, <1>3, <1>4 DEF c

(* The distribution from a state and KV rows that belong to the same       *)
(* tokens is theirs.                                                       *)
LEMMA Faithful ==
  ASSUME NEW c \in Seq(Token), NEW n \in Nat, n <= Len(c), NEW k,
         \A p \in 1 .. n : k[p] = c[p]
  PROVE  Distribution(StateOf(Upto(c, n)), k, n) = Upto(c, n)
<1>1. Len(c) \in Nat
  BY LenProperties
<1>2. Upto(c, n) \in Seq(Token) /\ Len(Upto(c, n)) = n /\ \A p \in 1 .. n : Upto(c, n)[p] = c[p]
  BY UptoIs
<1> DEFINE seen == [p \in 1 .. n |-> k[p]]
           u == Upto(c, n)
<1> HIDE DEF u
<1>3. u = [p \in 1 .. n |-> u[p]]
  BY <1>2, LenProperties DEF u
<1>4. \A p \in 1 .. n : u[p] = k[p]
  BY <1>2 DEF u
<1>5. seen = u
  BY <1>3, <1>4
<1>6. \A p \in 1 .. n : k[p] \in Token
  <2>1. \A p \in 1 .. n : c[p] \in Token
    BY <1>1, ElementOfSeq
  <2> QED
    BY <2>1
<1> QED
  BY <1>5, <1>6 DEF Distribution, u

(* A forward pass over the next tokens b of c, behind pos of them.         *)
LEMMA Feed ==
  ASSUME TypeOK, NEW c \in Seq(Token), NEW b \in Seq(Token), b # <<>>,
         StandsAt(c, pos), pos + Len(b) <= Len(c), pos + Len(b) <= MaxCtx,
         \A k \in 1 .. Len(b) : c[pos + k] = b[k],
         Absorb(b)
  PROVE  /\ pos + Len(b) \in Nat
         /\ state' \in Seq(Row) /\ state' = StateOf(Upto(c, pos + Len(b)))
         /\ window' \in Window /\ window' = WindowAfter(Quiet, c, pos + Len(b))
         /\ kv' \in [1 .. MaxCtx -> Input] /\ \A p \in 1 .. pos + Len(b) : kv'[p] = c[p]
         /\ ConvRows(Seed, b) \in Seq(Row) /\ Len(ConvRows(Seed, b)) = Len(b)
         /\ \A t \in 1 .. Len(b) : ConvRows(Seed, b)[t] = StateOf(c)[pos + t]
<1>1. /\ pos \in Nat /\ Len(b) \in Nat /\ Len(c) \in Nat /\ MaxCtx \in Nat
      /\ c \in Seq(Input) /\ b \in Seq(Input)
  BY LenProperties, TokensAreInputs, SpeculationAssumption DEF TypeOK
<1>2. Seed = WindowAfter(Quiet, c, pos)
  <2>1. CASE pos > 0
    BY <2>1 DEF Seed, StandsAt
  <2>2. CASE ~ (pos > 0)
    <3>1. pos = 0
      BY <1>1, <2>2
    <3> QED
      BY <3>1, WindowOfNothing DEF Seed
  <2> QED
    BY <2>1, <2>2
<1>3. Seed \in Window
  BY <1>1, <1>2, WindowTyped DEF StandsAt
<1>4. ConvRows(Seed, b) = Conv(Seed, b) /\ ConvWindow(Seed, b) = WindowAfter(Seed, b, Len(b))
  BY <1>1, <1>3, KernelsAgree
<1>5. Conv(Seed, b) \in Seq(Row) /\ Len(Conv(Seed, b)) = Len(b)
  BY <1>1, <1>3, ConvIs
<1>6. \A t \in 1 .. Len(b) : Conv(Seed, b)[t] = StateOf(c)[pos + t]
  BY <1>1, <1>2, ConvJoins
<1>7. state' = StateOf(Upto(c, pos + Len(b)))
  <2>1. state' = Scan(StateOf(Upto(c, pos)), Conv(Seed, b))
    BY <1>4 DEF Absorb, StandsAt
  <2> QED
    BY <1>1, <1>5, <1>6, <2>1, Replayed
<1>8. window' = WindowAfter(Quiet, c, pos + Len(b))
  <2>1. window' = WindowAfter(WindowAfter(Quiet, c, pos), b, Len(b))
    BY <1>2, <1>4 DEF Absorb
  <2>2. Len(b) <= Len(b)
    BY <1>1
  <2>3. WindowAfter(WindowAfter(Quiet, c, pos), b, Len(b)) = WindowAfter(Quiet, c, pos + Len(b))
    BY <1>1, <2>2, WindowJoins
  <2> QED
    BY <2>1, <2>3
<1>9. window' \in Window
  BY <1>1, <1>8, WindowTyped
<1>10. state' \in Seq(Row)
  <2>1. Upto(c, pos + Len(b)) \in Seq(Input)
    BY <1>1, UptoIs
  <2> QED
    BY <1>7, <2>1, StateIs
<1>11. kv' = [p \in 1 .. MaxCtx |-> IF p - pos \in 1 .. Len(b) THEN b[p - pos] ELSE kv[p]]
  BY DEF Absorb, Written
<1>12. kv' \in [1 .. MaxCtx -> Input]
  <2>1. \A k \in 1 .. Len(b) : b[k] \in Input
    BY <1>1, ElementOfSeq
  <2>2. kv \in [1 .. MaxCtx -> Input]
    BY DEF TypeOK
  <2> QED
    BY <1>11, <2>1, <2>2
<1>13. ASSUME NEW p \in 1 .. pos + Len(b)
       PROVE  kv'[p] = c[p]
  <2>1. p \in 1 .. MaxCtx
    BY <1>1
  <2>2. CASE p - pos \in 1 .. Len(b)
    <3>1. pos + (p - pos) = p
      BY <1>1
    <3> QED
      BY <1>11, <2>1, <2>2, <3>1
  <2>3. CASE ~ (p - pos \in 1 .. Len(b))
    <3>1. p \in 1 .. pos
      BY <1>1, <2>3
    <3> QED
      BY <1>11, <2>1, <2>3, <3>1 DEF StandsAt
  <2> QED
    BY <2>2, <2>3
<1> QED
  BY <1>1, <1>4, <1>5, <1>6, <1>7, <1>8, <1>9, <1>10, <1>12, <1>13

(* Where the model stands depends on what it has been fed only.            *)
LEMMA StandsAtSame ==
  ASSUME NEW a \in Seq(Token), NEW b \in Seq(Token), NEW n \in Nat,
         StandsAt(a, n), n <= Len(b), \A k \in 1 .. n : a[k] = b[k]
  PROVE  StandsAt(b, n)
<1>1. n <= Len(a)
  BY DEF StandsAt
<1>2. Upto(a, n) = Upto(b, n)
  BY <1>1, UptoSame
<1>3. WindowAfter(Quiet, a, n) = WindowAfter(Quiet, b, n)
  BY WindowOfSame
<1> QED
  BY <1>2, <1>3 DEF StandsAt

-----------------------------------------------------------------------------
LEMMA AppendBehind ==
  ASSUME NEW a \in Seq(Token), NEW b \in Seq(Token), NEW x \in Token
  PROVE  Append(a \o b, x) = a \o Append(b, x)
<1> DEFINE y == <<x>>
<1>1. y \in Seq(Token) /\ a \o b \in Seq(Token)
  BY ConcatProperties
<1>2. Append(a \o b, x) = (a \o b) \o y /\ Append(b, x) = b \o y
  BY <1>1, AppendIsConcat
<1> HIDE DEF y
<1>3. (a \o b) \o y = a \o (b \o y)
  BY <1>1, ConcatAssociative
<1> QED
  BY <1>2, <1>3

(* What tokens t do that are committed behind the others.                  *)
LEMMA Grown ==
  ASSUME prompt \in Seq(Token), out \in Seq(Token), NEW t \in Seq(Token),
         out' = out \o t, prompt' = prompt
  PROVE  /\ Committed \in Seq(Token) /\ Len(Committed) = Len(prompt) + Len(out)
         /\ Len(prompt) \in Nat /\ Len(out) \in Nat /\ Len(t) \in Nat
         /\ out' \in Seq(Token) /\ Len(out') = Len(out) + Len(t)
         /\ Committed' \in Seq(Token) /\ Len(Committed') = Len(Committed) + Len(t)
         /\ \A k \in 1 .. Len(Committed) : Committed'[k] = Committed[k]
         /\ \A k \in 1 .. Len(t) : Committed'[Len(Committed) + k] = t[k]
<1>1. /\ Committed \in Seq(Token) /\ Len(Committed) = Len(prompt) + Len(out)
      /\ Len(prompt) \in Nat /\ Len(out) \in Nat /\ Len(t) \in Nat
  BY Joined DEF Committed
<1>2. out' \in Seq(Token) /\ Len(out') = Len(out) + Len(t)
  BY Joined
<1>3. Committed' = Committed \o t
  <2>1. Committed' = prompt \o (out \o t)
    BY DEF Committed
  <2> QED
    BY <2>1, ConcatAssociative DEF Committed
<1>4. /\ Committed \o t \in Seq(Token) /\ Len(Committed \o t) = Len(Committed) + Len(t)
      /\ \A k \in 1 .. Len(Committed) : (Committed \o t)[k] = Committed[k]
      /\ \A k \in 1 .. Len(t) : (Committed \o t)[Len(Committed) + k] = t[k]
  BY <1>1, Joined
<1> QED
  BY <1>1, <1>2, <1>3, <1>4

(* What was the model's own stays so when the tokens behind it are.        *)
LEMMA StillChosen ==
  ASSUME Committed \in Seq(Token), Committed' \in Seq(Token), prompt' = prompt,
         prompt \in Seq(Token), Chosen, Len(Committed) <= Len(Committed'),
         \A k \in 1 .. Len(Committed) : Committed'[k] = Committed[k],
         \A k \in Len(Committed) + 1 .. Len(Committed') :
           Committed'[k] = Argmax(Upto(Committed', k - 1))
  PROVE  Chosen'
<1>1. Len(Committed) \in Nat /\ Len(Committed') \in Nat /\ Len(prompt) \in Nat
  BY LenProperties
<1> SUFFICES ASSUME NEW k \in Len(prompt) + 1 .. Len(Committed')
             PROVE  Committed'[k] = Argmax(Upto(Committed', k - 1))
  BY DEF Chosen
<1>2. CASE k <= Len(Committed)
  <2>1. /\ k \in Len(prompt) + 1 .. Len(Committed) /\ k \in 1 .. Len(Committed)
        /\ k - 1 \in Nat /\ k - 1 <= Len(Committed) /\ k - 1 <= Len(Committed')
        /\ \A j \in 1 .. k - 1 : j \in 1 .. Len(Committed)
    BY <1>1, <1>2
  <2>2. Upto(Committed, k - 1) = Upto(Committed', k - 1)
    BY <2>1, UptoSame
  <2> QED
    BY <2>1, <2>2 DEF Chosen
<1>3. CASE ~ (k <= Len(Committed))
  BY <1>1, <1>3
<1> QED
  BY <1>2, <1>3

-----------------------------------------------------------------------------
LEMMA Room ==
  ASSUME TypeOK
  PROVE  /\ prompt \in Seq(Token) /\ Len(prompt) \in Nat /\ Len(prompt) > 0
         /\ MaxCtx \in Nat /\ MaxNew \in Nat /\ MaxK \in Nat
         /\ Len(prompt) + MaxNew + MaxK <= MaxCtx
<1>1. prompt \in Prompts
  BY DEF TypeOK
<1>2. prompt \in Seq(Token)
  BY <1>1, SpeculationAssumption
<1> QED
  BY <1>1, <1>2, LenProperties, SpeculationAssumption

(* The next n tokens of a sequence.                                        *)
LEMMA ChunkIs ==
  ASSUME NEW a \in Seq(Token), NEW p \in Nat, NEW n \in Nat, p + n <= Len(a)
  PROVE  /\ SubSeq(a, p + 1, p + n) \in Seq(Token)
         /\ Len(SubSeq(a, p + 1, p + n)) = n
         /\ \A k \in 1 .. n : a[p + k] = SubSeq(a, p + 1, p + n)[k]
<1> DEFINE s == SubSeq(a, p + 1, p + n)
<1>1. Len(a) \in Nat
  BY LenProperties
<1>2. \A k \in p + 1 .. p + n : a[k] \in Token
  BY <1>1, ElementOfSeq
<1>3. /\ s \in Seq(Token)
      /\ Len(s) = IF p + 1 <= p + n THEN p + n - (p + 1) + 1 ELSE 0
      /\ \A k \in 1 .. p + n - (p + 1) + 1 : s[k] = a[p + 1 + k - 1]
  BY <1>1, <1>2, SubSeqProperties
<1> HIDE DEF s
<1>4. p + n - (p + 1) + 1 = n /\ (p + 1 <= p + n <=> n > 0)
  OBVIOUS
<1>5. \A k \in 1 .. n : p + 1 + k - 1 = p + k
  OBVIOUS
<1>6. s \in Seq(Token) /\ Len(s) = n /\ \A k \in 1 .. n : a[p + k] = s[k]
  BY <1>3, <1>4, <1>5
<1> QED
  BY <1>6 DEF s

LEMMA SpecInit == Init => TypeOK /\ SpecInv
<1> SUFFICES ASSUME Init
             PROVE  TypeOK /\ SpecInv
  OBVIOUS
<1>1. /\ pc = "prefill" /\ out = <<>> /\ pos = 0 /\ block = <<>> /\ prompt \in Prompts
      /\ state = <<>> /\ window = Quiet /\ logits = Garbled
  BY DEF Init
<1>2. /\ prompt \in Seq(Token) /\ Len(prompt) \in Nat /\ Len(prompt) > 0 /\ MaxCtx \in Nat
      /\ prompt \in Seq(Input)
  BY <1>1, SpeculationAssumption, LenProperties, TokensAreInputs
<1>3. TypeOK
  <2>1. /\ <<>> \in Seq(Row) /\ <<>> \in Seq(Token) /\ <<>> \in Seq(Logits)
    BY EmptySeq
  <2>2. kv \in [1 .. MaxCtx -> Input] /\ preConv \in [Captured -> Input]
    BY DEF Init, Input
  <2>3. postConv \in [Captured -> Row]
    BY DEF Init, Row, Input
  <2>4. logits \in Logits
    BY <1>1 DEF Logits
  <2> QED
    BY <2>1, <2>2, <2>3, <2>4, WindowTyped DEF Init, TypeOK
<1>4. Upto(prompt, 0) = <<>> /\ StateOf(<<>>) = <<>>
  <2>1. Upto(prompt, 0) \in Seq(Token) /\ Len(Upto(prompt, 0)) = 0
    BY <1>2, UptoIs
  <2>2. StateOf(<<>>) \in Seq(Row) /\ Len(StateOf(<<>>)) = 0
    BY EmptySeq, StateIs
  <2> QED
    BY <2>1, <2>2, EmptySeq
<1>5. StandsAt(prompt, pos)
  BY <1>1, <1>2, <1>4, WindowOfNothing DEF StandsAt
<1>6. Chosen
  <2>1. Committed = prompt
    BY <1>1, <1>2, ConcatEmptySeq DEF Committed
  <2> QED
    BY <1>2, <2>1 DEF Chosen
<1> QED
  BY <1>1, <1>2, <1>3, <1>5, <1>6 DEF SpecInv

(* A chunk of the prompt.                                                  *)
LEMMA SpecPrefill == TypeOK /\ SpecInv /\ Prefill => TypeOK' /\ SpecInv'
<1> SUFFICES ASSUME TypeOK, SpecInv, Prefill
             PROVE  TypeOK' /\ SpecInv'
  OBVIOUS
<1>1. /\ pc = "prefill" /\ pos < Len(prompt)
      /\ pc' = IF pos' = Len(prompt) THEN "head" ELSE "prefill"
      /\ UNCHANGED <<specVars, prompt, out, block>>
  BY DEF Prefill
<1>2. PICK n \in 1 .. MaxBatch :
        pos + n <= Len(prompt) /\ Forward(SubSeq(prompt, pos + 1, pos + n))
  BY DEF Prefill
<1> DEFINE s == SubSeq(prompt, pos + 1, pos + n)
<1>3. out = <<>> /\ StandsAt(prompt, pos) /\ pos \in Nat /\ n \in Nat /\ n > 0
  BY <1>1, SpeculationAssumption DEF SpecInv, TypeOK
<1>4. s \in Seq(Token) /\ Len(s) = n /\ \A k \in 1 .. Len(s) : prompt[pos + k] = s[k]
  <2>1. prompt \in Seq(Token)
    BY Room
  <2>2. s \in Seq(Token) /\ Len(s) = n /\ \A k \in 1 .. n : prompt[pos + k] = s[k]
    BY <1>2, <1>3, <2>1, ChunkIs
  <2> HIDE DEF s
  <2> QED
    BY <2>2
<1>5. /\ Absorb(s) /\ pos' = pos + Len(s) /\ logits' = Distribution(state', kv', pos')
  BY <1>2 DEF Forward
<1> HIDE DEF s
<1>6. s # <<>> /\ pos + Len(s) <= Len(prompt) /\ pos + Len(s) <= MaxCtx
  BY <1>2, <1>3, <1>4, Room, EmptySeq
<1>7. /\ pos + Len(s) \in Nat
      /\ state' \in Seq(Row) /\ state' = StateOf(Upto(prompt, pos + Len(s)))
      /\ window' \in Window /\ window' = WindowAfter(Quiet, prompt, pos + Len(s))
      /\ kv' \in [1 .. MaxCtx -> Input] /\ \A p \in 1 .. pos + Len(s) : kv'[p] = prompt[p]
  BY <1>3, <1>4, <1>5, <1>6, Room, Feed
<1>8. logits' = Upto(prompt, pos')
  BY <1>5, <1>6, <1>7, Room, Faithful
<1>9. logits' \in Logits
  BY <1>5, <1>6, <1>7, <1>8, Room, UptoIs, TokensAreLogits
<1>10. TypeOK'
  BY <1>1, <1>5, <1>7, <1>9 DEF TypeOK, specVars
<1>11. StandsAt(prompt, pos)'
  BY <1>1, <1>5, <1>6, <1>7 DEF StandsAt
<1>12. Committed = prompt /\ Committed' = prompt
  BY <1>1, <1>3, Room, ConcatEmptySeq DEF Committed
<1>13. Chosen'
  BY <1>1, <1>12 DEF SpecInv, Chosen
<1>14. CASE pos' = Len(prompt)
  <2>1. pc' = "head" /\ logits' = prompt
    BY <1>1, <1>8, <1>14, Room, UptoAll
  <2> QED
    BY <1>1, <1>10, <1>11, <1>12, <1>13, <1>14, <2>1 DEF SpecInv
<1>15. CASE pos' # Len(prompt)
  <2>1. pc' = "prefill" /\ pos' < Len(prompt)
    BY <1>1, <1>5, <1>6, <1>7, <1>15, Room
  <2> QED
    BY <1>1, <1>3, <1>8, <1>10, <1>11, <1>13, <2>1 DEF SpecInv
<1> QED
  BY <1>14, <1>15

(* The free token is the model's own.                                      *)
LEMMA SpecTakeFree ==
  ASSUME ArgmaxIsToken
  PROVE  TypeOK /\ SpecInv /\ TakeFree => TypeOK' /\ SpecInv'
<1> SUFFICES ASSUME TypeOK, SpecInv, TakeFree
             PROVE  TypeOK' /\ SpecInv'
  OBVIOUS
<1>1. /\ pc = "head" /\ UNCHANGED <<modelVars, specVars, prompt, pos>>
      /\ prompt' = prompt /\ pos' = pos
  BY DEF TakeFree
<1>2. /\ pos = Len(Committed) /\ StandsAt(Committed, pos) /\ logits = Committed /\ Chosen
  BY <1>1 DEF SpecInv
<1>3. CASE ~ (Len(out) < MaxNew)
  <2>1. pc' = "done" /\ UNCHANGED <<out, block>>
    BY <1>3 DEF TakeFree
  <2>2. TypeOK'
    BY <1>1, <2>1 DEF TypeOK, modelVars, specVars
  <2>3. Chosen'
    BY <1>1, <1>2, <2>1 DEF Chosen, Committed
  <2> QED
    BY <2>1, <2>2, <2>3 DEF SpecInv
<1>4. CASE Len(out) < MaxNew
  <2> DEFINE x == Argmax(logits)
             t == <<x>>
  <2>1. /\ out' = Append(out, x) /\ block' = t
        /\ pc' \in {"done", "draft"}
    BY <1>4 DEF TakeFree
  <2>2. x \in Token
    BY DEF TypeOK, ArgmaxIsToken
  <2> HIDE DEF x
  <2>3. t \in Seq(Token) /\ Len(t) = 1 /\ t[1] = x /\ t # <<>>
    BY <2>2, EmptySeq
  <2>4. prompt \in Seq(Token) /\ out \in Seq(Token) /\ out' = out \o t
    BY <2>1, <2>2, Room, AppendIsConcat DEF TypeOK
  <2> HIDE DEF t
  <2>5. /\ Committed \in Seq(Token) /\ Len(Committed) = Len(prompt) + Len(out)
        /\ Len(prompt) \in Nat /\ Len(out) \in Nat /\ Len(t) \in Nat
        /\ out' \in Seq(Token) /\ Len(out') = Len(out) + Len(t)
        /\ Committed' \in Seq(Token) /\ Len(Committed') = Len(Committed) + Len(t)
        /\ \A k \in 1 .. Len(Committed) : Committed'[k] = Committed[k]
        /\ \A k \in 1 .. Len(t) : Committed'[Len(Committed) + k] = t[k]
    BY <1>1, <2>3, <2>4, Grown
  <2>6. Committed'[pos + 1] = x
    BY <1>2, <2>3, <2>5
  <2>7. TypeOK'
    BY <1>1, <2>1, <2>3, <2>5 DEF TypeOK, modelVars, specVars
  <2>8. Upto(Committed', pos) = Committed
    <3>1. /\ pos \in Nat /\ pos <= Len(Committed) /\ pos <= Len(Committed')
          /\ \A k \in 1 .. pos : Committed'[k] = Committed[k]
      BY <1>2, <2>3, <2>5
    <3>2. Upto(Committed', pos) = Upto(Committed, pos)
      BY <2>5, <3>1, UptoSame
    <3> QED
      BY <1>2, <2>5, <3>2, UptoAll
  <2>9. Chosen'
    <3>1. ASSUME NEW k \in Len(Committed) + 1 .. Len(Committed')
          PROVE  Committed'[k] = Argmax(Upto(Committed', k - 1))
      <4>1. k = pos + 1 /\ k - 1 = pos
        BY <1>2, <2>3, <2>5
      <4> QED
        BY <1>2, <2>6, <2>8, <4>1 DEF x
    <3>2. Len(Committed) <= Len(Committed')
      BY <2>3, <2>5
    <3> QED
      BY <1>1, <1>2, <2>4, <2>5, <3>1, <3>2, StillChosen
  <2>10. Ahead'
    <3>1. pos' = Len(Committed') - 1 /\ Len(out') <= MaxNew
      BY <1>1, <1>2, <1>4, <2>3, <2>5, Room
    <3>2. block'[1] = x /\ block' # <<>>
      BY <2>1, <2>3
    <3> QED
      BY <1>1, <2>6, <3>1, <3>2 DEF Ahead
  <2>11. StandsAt(Committed, pos)'
    <3>1. pos \in Nat /\ pos <= Len(Committed')
      BY <1>2, <2>3, <2>5
    <3>2. \A k \in 1 .. pos : Committed'[k] = Committed[k]
      BY <1>2, <2>5
    <3>3. WindowAfter(Quiet, Committed, pos) = WindowAfter(Quiet, Committed', pos)
      BY <3>1, <3>2, WindowOfSame
    <3>4. Upto(Committed', pos) = Upto(Committed, pos)
      BY <1>2, <2>5, <2>8, UptoAll
    <3> QED
      BY <1>1, <1>2, <3>1, <3>2, <3>3, <3>4 DEF StandsAt, modelVars
  <2> QED
    BY <2>1, <2>3, <2>7, <2>9, <2>10, <2>11 DEF SpecInv
<1> QED
  BY <1>3, <1>4

(* Room for a block behind the committed tokens.                           *)
LEMMA AheadHas ==
  ASSUME TypeOK, Ahead
  PROVE  /\ Committed \in Seq(Token) /\ Len(Committed) = pos + 1 /\ pos \in Nat
         /\ pos + 1 + MaxK <= MaxCtx /\ MaxK \in Nat /\ MaxCtx \in Nat
         /\ block \in Seq(Token) /\ Len(block) \in Nat /\ Len(block) > 0
<1>1. prompt \in Seq(Token) /\ out \in Seq(Token) /\ pos \in Nat /\ block \in Seq(Token)
  BY Room DEF TypeOK
<1>2. /\ Committed \in Seq(Token) /\ Len(Committed) = Len(prompt) + Len(out)
      /\ Len(prompt) \in Nat /\ Len(out) \in Nat
  BY <1>1, Joined DEF Committed
<1>3. Len(block) \in Nat /\ Len(block) > 0
  BY <1>1, EmptySeq, LenProperties DEF Ahead
<1> QED
  BY <1>1, <1>2, <1>3, Room DEF Ahead

(* A plain step feeds the free token.                                      *)
LEMMA SpecDecode == TypeOK /\ SpecInv /\ Decode => TypeOK' /\ SpecInv'
<1> SUFFICES ASSUME TypeOK, SpecInv, Decode
             PROVE  TypeOK' /\ SpecInv'
  OBVIOUS
<1>1. /\ pc = "draft" /\ pc' = "head" /\ UNCHANGED <<specVars, prompt, out, block>>
      /\ Absorb(block) /\ pos' = pos + Len(block) /\ logits' = Distribution(state', kv', pos')
  BY DEF Decode, Forward
<1>2. Ahead /\ Len(block) = 1 /\ StandsAt(Committed, pos) /\ Chosen
  BY <1>1 DEF SpecInv
<1>3. /\ Committed \in Seq(Token) /\ Len(Committed) = pos + 1 /\ pos \in Nat
      /\ pos + Len(block) <= MaxCtx /\ block \in Seq(Token) /\ block # <<>>
      /\ \A k \in 1 .. Len(block) : Committed[pos + k] = block[k]
  BY <1>2, AheadHas DEF Ahead
<1> DEFINE c == Committed
<1>4. c' = c
  BY <1>1 DEF Committed
<1>5. c \in Seq(Token) /\ pos + Len(block) = Len(c) /\ pos + Len(block) <= Len(c)
  BY <1>2, <1>3
<1>6. /\ pos + Len(block) \in Nat
      /\ state' \in Seq(Row) /\ state' = StateOf(Upto(c, pos + Len(block)))
      /\ window' \in Window /\ window' = WindowAfter(Quiet, c, pos + Len(block))
      /\ kv' \in [1 .. MaxCtx -> Input] /\ \A p \in 1 .. pos + Len(block) : kv'[p] = c[p]
  BY <1>1, <1>2, <1>3, <1>5, Feed
<1>7. logits' = Upto(c, pos')
  BY <1>1, <1>5, <1>6, Faithful
<1>8. logits' = c
  BY <1>1, <1>5, <1>7, UptoAll
<1>9. logits' \in Logits
  BY <1>5, <1>8, TokensAreLogits
<1>10. TypeOK'
  BY <1>1, <1>6, <1>9 DEF TypeOK, specVars
<1>11. StandsAt(Committed, pos)'
  BY <1>1, <1>3, <1>4, <1>5, <1>6 DEF StandsAt
<1>12. Chosen'
  BY <1>1, <1>2 DEF Chosen, Committed
<1> QED
  BY <1>1, <1>4, <1>5, <1>8, <1>10, <1>11, <1>12 DEF SpecInv

(* Whatever is drafted stands behind the free token.                       *)
LEMMA SpecDraft == TypeOK /\ SpecInv /\ Draft => TypeOK' /\ SpecInv'
<1> SUFFICES ASSUME TypeOK, SpecInv, Draft
             PROVE  TypeOK' /\ SpecInv'
  OBVIOUS
<1>1. /\ pc = "draft" /\ pc' = "verify" /\ stateBak' = state /\ windowBak' = window
      /\ UNCHANGED <<modelVars, preConv, postConv, blockLogits, prompt, pos, out>>
  BY DEF Draft, BeginBlock
<1>2. PICK n \in 1 .. MaxK : \E d \in [1 .. n -> Token] : block' = block \o d
  BY DEF Draft
<1>3. PICK d \in [1 .. n -> Token] : block' = block \o d
  BY <1>2
<1>4. Ahead /\ Len(block) = 1 /\ StandsAt(Committed, pos) /\ Chosen
  BY <1>1 DEF SpecInv
<1>5. n \in Nat /\ n >= 1 /\ MaxK \in Nat
  BY SpeculationAssumption
<1>6. d \in Seq(Token) /\ Len(d) = n
  <2>1. d \in Seq(Token)
    BY <1>5, SeqDef
  <2> QED
    BY <1>5, <2>1, LenProperties
<1>7. /\ block \in Seq(Token)
      /\ block' \in Seq(Token) /\ Len(block') = 1 + n /\ block'[1] = block[1]
  <2>1. block \in Seq(Token)
    BY DEF TypeOK
  <2>2. /\ block \o d \in Seq(Token) /\ Len(block \o d) = Len(block) + Len(d)
        /\ \A k \in 1 .. Len(block) : (block \o d)[k] = block[k]
    BY <1>6, <2>1, Joined
  <2> QED
    BY <1>3, <1>4, <1>6, <2>1, <2>2
<1>8. block' # <<>> /\ Len(block') \in 2 .. MaxK + 1
  BY <1>5, <1>7, EmptySeq
<1>9. Committed' = Committed
  BY <1>1 DEF Committed
<1>10. TypeOK'
  BY <1>1, <1>7 DEF TypeOK, modelVars
<1>11. Ahead' /\ Chosen'
  BY <1>1, <1>4, <1>7, <1>8, <1>9 DEF Ahead, Chosen
<1>12. StandsAt(Committed, pos)' /\ stateBak' = state' /\ windowBak' = window'
  BY <1>1, <1>4, <1>9 DEF StandsAt, modelVars
<1> QED
  BY <1>1, <1>8, <1>10, <1>11, <1>12 DEF SpecInv

(* The block behind what it is tried behind.                               *)
LEMMA TriedIs ==
  ASSUME TypeOK, Ahead
  PROVE  /\ Tried \in Seq(Token) /\ Tried \in Seq(Input) /\ Len(Tried) = pos + Len(block)
         /\ \A k \in 1 .. pos + 1 : Tried[k] = Committed[k]
         /\ \A k \in 1 .. Len(block) : Tried[pos + k] = block[k]
<1>1. /\ Committed \in Seq(Token) /\ Len(Committed) = pos + 1 /\ pos \in Nat
      /\ block \in Seq(Token) /\ Len(block) \in Nat /\ Len(block) > 0
  BY AheadHas
<1> DEFINE u == Upto(Committed, pos)
<1>2. u \in Seq(Token) /\ Len(u) = pos /\ \A k \in 1 .. pos : u[k] = Committed[k]
  BY <1>1, UptoIs
<1> HIDE DEF u
<1>3. /\ u \o block \in Seq(Token) /\ Len(u \o block) = Len(u) + Len(block)
      /\ \A k \in 1 .. Len(u) : (u \o block)[k] = u[k]
      /\ \A k \in 1 .. Len(block) : (u \o block)[Len(u) + k] = block[k]
  BY <1>1, <1>2, Joined
<1>4. Tried = u \o block
  BY DEF Tried, u
<1>5. /\ Tried \in Seq(Token) /\ Len(Tried) = pos + Len(block)
      /\ \A k \in 1 .. pos : Tried[k] = Committed[k]
      /\ \A k \in 1 .. Len(block) : Tried[pos + k] = block[k]
  BY <1>2, <1>3, <1>4
<1>6. Tried[pos + 1] = Committed[pos + 1]
  BY <1>1, <1>5 DEF Ahead
<1>7. \A k \in 1 .. pos + 1 : Tried[k] = Committed[k]
  <2>1. \A k \in 1 .. pos + 1 : k \in 1 .. pos \/ k = pos + 1
    BY <1>1
  <2> QED
    BY <1>5, <1>6, <2>1
<1> QED
  BY <1>5, <1>7, TokensAreInputs

(* A verification captures, for every position of the block, what feeding  *)
(* the tokens up to it one by one would have given.                        *)
LEMMA SpecVerify == TypeOK /\ SpecInv /\ Verify => TypeOK' /\ SpecInv'
<1> SUFFICES ASSUME TypeOK, SpecInv, Verify
             PROVE  TypeOK' /\ SpecInv'
  OBVIOUS
<1> DEFINE c == Tried
           rows == ConvRows(Seed, block)
<1>1. /\ pc = "verify" /\ pc' = "commit" /\ Absorb(block)
      /\ preConv' = [i \in Captured |-> IF i <= Len(block) THEN block[i] ELSE preConv[i]]
      /\ postConv' = [i \in Captured |-> IF i <= Len(block) THEN rows[i] ELSE postConv[i]]
      /\ blockLogits' = [i \in 1 .. Len(block) |->
           Distribution(Scan(state, SubSeq(rows, 1, i)), kv', pos + i)]
      /\ UNCHANGED <<logits, stateBak, windowBak, prompt, pos, out, block>>
  BY DEF Verify
<1>2. /\ Ahead /\ Len(block) \in 2 .. MaxK + 1 /\ StandsAt(Committed, pos) /\ Chosen
      /\ stateBak = state /\ windowBak = window
  BY <1>1 DEF SpecInv
<1>3. /\ Committed \in Seq(Token) /\ Len(Committed) = pos + 1 /\ pos \in Nat
      /\ pos + Len(block) <= MaxCtx /\ block \in Seq(Token) /\ block # <<>>
      /\ Len(block) \in Nat /\ Len(block) <= MaxK + 1 /\ MaxK \in Nat
  BY <1>2, AheadHas DEF Ahead
<1>4. /\ c \in Seq(Token) /\ c \in Seq(Input) /\ Len(c) = pos + Len(block)
      /\ \A k \in 1 .. pos + 1 : c[k] = Committed[k]
      /\ \A k \in 1 .. Len(block) : c[pos + k] = block[k]
  BY <1>2, TriedIs
<1>5. c' = c /\ Committed' = Committed
  BY <1>1 DEF Tried, Committed
<1>6. StandsAt(c, pos)
  <2>1. pos <= Len(c) /\ \A k \in 1 .. pos : Committed[k] = c[k]
    BY <1>3, <1>4
  <2> QED
    BY <1>2, <1>3, <1>4, <2>1, StandsAtSame
<1> HIDE DEF c
<1>7. pos + Len(block) <= Len(c)
  BY <1>3, <1>4
<1>8. /\ pos + Len(block) \in Nat
      /\ state' \in Seq(Row) /\ state' = StateOf(Upto(c, pos + Len(block)))
      /\ window' \in Window /\ window' = WindowAfter(Quiet, c, pos + Len(block))
      /\ kv' \in [1 .. MaxCtx -> Input] /\ \A p \in 1 .. pos + Len(block) : kv'[p] = c[p]
      /\ rows \in Seq(Row) /\ Len(rows) = Len(block)
      /\ \A t \in 1 .. Len(block) : rows[t] = StateOf(c)[pos + t]
  BY <1>1, <1>3, <1>4, <1>6, <1>7, Feed
<1> HIDE DEF rows
<1>9. StandsAt(Tried, pos + Len(block))'
  <2>1. (Tried = c)' /\ pos' + Len(block') = pos + Len(block)
    BY <1>1, <1>5 DEF c
  <2> QED
    BY <1>1, <1>3, <1>5, <1>7, <1>8, <2>1 DEF StandsAt
<1>10. ASSUME NEW i \in 1 .. Len(block)
       PROVE  blockLogits'[i] = Upto(c, pos + i) /\ blockLogits'[i] \in Logits
  <2> DEFINE r == SubSeq(rows, 1, i)
  <2>1. i \in Nat /\ i <= Len(rows) /\ pos + i \in Nat /\ pos + i <= Len(c)
        /\ \A p \in 1 .. pos + i : p \in 1 .. pos + Len(block)
    BY <1>3, <1>4, <1>8
  <2>2. r \in Seq(Row) /\ Len(r) = i /\ \A k \in 1 .. i : r[k] = rows[k]
    <3>1. Upto(rows, i) \in Seq(Row) /\ Len(Upto(rows, i)) = i
          /\ \A k \in 1 .. i : Upto(rows, i)[k] = rows[k]
      BY <1>8, <2>1, UptoIs
    <3> QED
      BY <3>1 DEF Upto
  <2> HIDE DEF r
  <2>3. \A k \in 1 .. Len(r) : r[k] = StateOf(c)[pos + k]
    BY <1>8, <2>1, <2>2
  <2>4. Scan(StateOf(Upto(c, pos)), r) = StateOf(Upto(c, pos + i))
    BY <1>3, <1>4, <2>1, <2>2, <2>3, Replayed
  <2>5. blockLogits'[i] = Distribution(Scan(state, r), kv', pos + i)
    BY <1>1 DEF r
  <2>6. blockLogits'[i] = Distribution(StateOf(Upto(c, pos + i)), kv', pos + i)
    BY <1>6, <2>4, <2>5 DEF StandsAt
  <2>7. blockLogits'[i] = Upto(c, pos + i)
    BY <1>4, <1>8, <2>1, <2>6, Faithful
  <2>8. Upto(c, pos + i) \in Seq(Token)
    BY <1>4, <2>1, UptoIs
  <2> QED
    BY <2>7, <2>8, TokensAreLogits
<1>11. blockLogits' \in Seq(Logits) /\ Len(blockLogits') = Len(block)
  <2>1. blockLogits' \in [1 .. Len(block) -> Logits]
    BY <1>1, <1>10
  <2>2. blockLogits' \in Seq(Logits)
    BY <1>3, <2>1, SeqDef
  <2> QED
    BY <1>3, <2>1, <2>2, LenProperties
<1>12. preConv' \in [Captured -> Input] /\ \A i \in 1 .. Len(block) : preConv'[i] = block[i]
  <2>1. \A i \in 1 .. Len(block) : block[i] \in Input /\ i \in Captured
    BY <1>3, ElementOfSeq DEF Input, Captured
  <2>2. \A i \in Captured : i <= Len(block) => i \in 1 .. Len(block)
    BY <1>3 DEF Captured
  <2>3. preConv \in [Captured -> Input]
    BY DEF TypeOK
  <2> QED
    BY <1>1, <1>3, <2>1, <2>2, <2>3
<1>13. postConv' \in [Captured -> Row] /\ \A i \in 1 .. Len(block) : postConv'[i] = StateOf(c)[pos + i]
  <2>1. \A i \in 1 .. Len(block) : rows[i] \in Row /\ i \in Captured
    BY <1>3, <1>8, ElementOfSeq DEF Captured
  <2>2. \A i \in Captured : i <= Len(block) => i \in 1 .. Len(block)
    BY <1>3 DEF Captured
  <2>3. postConv \in [Captured -> Row]
    BY DEF TypeOK
  <2>4. postConv' \in [Captured -> Row] /\ \A i \in 1 .. Len(block) : postConv'[i] = rows[i]
    BY <1>1, <1>3, <2>1, <2>2, <2>3
  <2> QED
    BY <1>8, <2>4
<1>14. TypeOK'
  BY <1>1, <1>8, <1>11, <1>12, <1>13 DEF TypeOK
<1>15. stateBak' = StateOf(Upto(c, pos)) /\ windowBak' = WindowAfter(Quiet, c, pos)
  BY <1>1, <1>2, <1>6 DEF StandsAt
<1>16. Verified'
  <2>1. Tried' = c /\ pos' = pos /\ block' = block
    BY <1>1, <1>5 DEF c
  <2> QED
    BY <1>9, <1>10, <1>11, <1>12, <1>13, <1>15, <2>1 DEF Verified
<1>17. Ahead' /\ Chosen'
  BY <1>1, <1>2, <1>5 DEF Ahead, Chosen
<1> QED
  BY <1>1, <1>2, <1>14, <1>16, <1>17 DEF SpecInv

(* Taking back to a prefix of the block what was captured of it.           *)
LEMMA RolledBack ==
  ASSUME TypeOK, Ahead, Verified, Len(block) <= MaxK + 1,
         NEW n \in 1 .. Len(block) - 1, Rollback(n)
  PROVE  /\ state' = StateOf(Upto(Tried, pos + n))
         /\ window' = WindowAfter(Quiet, Tried, pos + n)
<1> DEFINE c == Tried
           r == [i \in 1 .. n |-> postConv[i]]
<1>1. /\ c \in Seq(Input) /\ Len(c) = pos + Len(block) /\ pos \in Nat /\ Len(block) \in Nat
      /\ \A k \in 1 .. Len(block) : c[pos + k] = block[k]
      /\ block \in Seq(Token) /\ MaxK \in Nat
  BY AheadHas, TriedIs
<1>2. block \in Seq(Input)
  BY <1>1, TokensAreInputs
<1>3. /\ stateBak = StateOf(Upto(c, pos)) /\ windowBak = WindowAfter(Quiet, c, pos)
      /\ \A i \in 1 .. Len(block) : preConv[i] = block[i] /\ postConv[i] = StateOf(c)[pos + i]
  BY DEF Verified
<1>4. /\ n \in Nat /\ ~ (n <= 0) /\ pos + n <= Len(c) /\ n <= Len(block)
      /\ \A k \in 1 .. n : k \in 1 .. Len(block) /\ k \in Captured
  BY <1>1 DEF Captured
<1> HIDE DEF c
<1>5. /\ state' = Scan(stateBak, r)
      /\ window' = WindowAfter(windowBak, preConv, n)
  BY <1>4 DEF Rollback
<1>6. r \in Seq(Row) /\ Len(r) = n /\ \A k \in 1 .. n : r[k] = StateOf(c)[pos + k]
  <2>1. \A k \in 1 .. n : postConv[k] \in Row
    BY <1>4 DEF TypeOK
  <2>2. r \in [1 .. n -> Row]
    BY <2>1
  <2>3. r \in Seq(Row)
    BY <1>4, <2>2, SeqDef
  <2>4. \A k \in 1 .. n : r[k] = StateOf(c)[pos + k]
    BY <1>3, <1>4
  <2>5. DOMAIN r = 1 .. n
    OBVIOUS
  <2> HIDE DEF r
  <2> QED
    BY <1>4, <2>3, <2>4, <2>5, LenProperties
<1> HIDE DEF r
<1>7. Scan(StateOf(Upto(c, pos)), r) = StateOf(Upto(c, pos + n))
  BY <1>1, <1>4, <1>6, Replayed
<1>8. WindowAfter(windowBak, preConv, n) = WindowAfter(windowBak, block, n)
  <2>1. \A k \in 1 .. n : preConv[k] = block[k]
    BY <1>3, <1>4
  <2> QED
    BY <1>4, <2>1, WindowOfSame
<1>9. WindowAfter(WindowAfter(Quiet, c, pos), block, n) = WindowAfter(Quiet, c, pos + n)
  <2>1. \A k \in 1 .. n : c[pos + k] = block[k]
    BY <1>1, <1>4
  <2> QED
    BY <1>1, <1>2, <1>4, <2>1, WindowJoins
<1> QED
  BY <1>3, <1>5, <1>7, <1>8, <1>9 DEF c

(* The tokens t that a round hands out begin with what it accepted, and    *)
(* are then what was tried.                                                *)
LEMMA Accepted ==
  ASSUME TypeOK, Ahead, NEW a \in 0 .. Len(block) - 1, NEW t \in Seq(Token), Len(t) >= a,
         \A k \in 1 .. a : t[k] = block[k + 1], out' = out \o t, prompt' = prompt
  PROVE  /\ out' \in Seq(Token) /\ Committed \in Seq(Token) /\ Committed' \in Seq(Token)
         /\ Len(Committed') = pos + 1 + Len(t) /\ Len(Committed) = pos + 1
         /\ Len(t) \in Nat
         /\ \A k \in 1 .. Len(Committed) : Committed'[k] = Committed[k]
         /\ \A k \in 1 .. Len(t) : Committed'[pos + 1 + k] = t[k]
         /\ \A k \in 1 .. pos + 1 + a : Committed'[k] = Tried[k]
         /\ \A j \in 0 .. pos + 1 + a : Upto(Committed', j) = Upto(Tried, j)
<1>1. /\ Committed \in Seq(Token) /\ Len(Committed) = pos + 1 /\ pos \in Nat
      /\ Len(block) \in Nat /\ out \in Seq(Token) /\ prompt \in Seq(Token)
  BY AheadHas, Room DEF TypeOK
<1>2. /\ out' \in Seq(Token) /\ Committed' \in Seq(Token) /\ Len(t) \in Nat
      /\ Len(Committed') = Len(Committed) + Len(t)
      /\ \A k \in 1 .. Len(Committed) : Committed'[k] = Committed[k]
      /\ \A k \in 1 .. Len(t) : Committed'[Len(Committed) + k] = t[k]
  BY <1>1, Grown
<1>3. /\ Tried \in Seq(Token) /\ Len(Tried) = pos + Len(block)
      /\ \A k \in 1 .. pos + 1 : Tried[k] = Committed[k]
      /\ \A k \in 1 .. Len(block) : Tried[pos + k] = block[k]
  BY TriedIs
<1> DEFINE d == Committed'
           c == Tried
           e == Committed
<1> HIDE DEF d, c, e
<1>4. /\ d \in Seq(Token) /\ c \in Seq(Token) /\ Len(d) = pos + 1 + Len(t)
      /\ Len(c) = pos + Len(block)
      /\ \A k \in 1 .. pos + 1 : d[k] = e[k] /\ c[k] = e[k]
      /\ \A k \in 1 .. Len(t) : d[pos + 1 + k] = t[k]
      /\ \A k \in 1 .. Len(block) : c[pos + k] = block[k]
  BY <1>1, <1>2, <1>3 DEF d, c, e
<1>5. ASSUME NEW k \in 1 .. pos + 1 + a
      PROVE  d[k] = c[k]
  <2>1. CASE k <= pos + 1
    <3>1. k \in 1 .. pos + 1
      BY <1>1, <2>1
    <3> QED
      BY <1>4, <3>1
  <2>2. CASE ~ (k <= pos + 1)
    <3> DEFINE i == k - (pos + 1)
    <3>1. /\ i \in 1 .. a /\ i \in 1 .. Len(t) /\ i + 1 \in 1 .. Len(block)
          /\ pos + 1 + i = k /\ pos + (i + 1) = k
      BY <1>1, <1>2, <2>2
    <3> HIDE DEF i
    <3>2. d[k] = t[i] /\ c[k] = block[i + 1]
      BY <1>4, <3>1
    <3> QED
      BY <3>1, <3>2
  <2> QED
    BY <2>1, <2>2
<1>6. ASSUME NEW j \in 0 .. pos + 1 + a
      PROVE  Upto(d, j) = Upto(c, j)
  <2>1. j \in Nat /\ j <= Len(d) /\ j <= Len(c) /\ \A k \in 1 .. j : k \in 1 .. pos + 1 + a
    BY <1>1, <1>2, <1>4
  <2> QED
    BY <1>4, <1>5, <2>1, UptoSame
<1> QED
  BY <1>1, <1>2, <1>4, <1>5, <1>6 DEF d, c, e

(* A round ends where plain decoding of the tokens it hands out would.     *)
LEMMA SpecCommit ==
  ASSUME ArgmaxIsToken
  PROVE  TypeOK /\ SpecInv /\ Commit => TypeOK' /\ SpecInv'
<1> SUFFICES ASSUME TypeOK, SpecInv, Commit
             PROVE  TypeOK' /\ SpecInv'
  OBVIOUS
<1>1. pc = "commit" /\ UNCHANGED <<kv, specVars, prompt, block>>
  BY DEF Commit
<1>2. PICK a \in 0 .. Drafted :
        /\ IsAccepted(a)
        /\ IF a + 1 < Len(block) THEN Rollback(a + 1) ELSE UNCHANGED <<state, window>>
        /\ pos' = pos + a + 1
        /\ logits' = blockLogits[a + 1]
        /\ IF TargetSays(a + 1) \in StopToken
           THEN /\ out' = Append(out \o SubSeq(block, 2, a + 1), TargetSays(a + 1))
                /\ pc' = "done"
           ELSE /\ out' = out \o SubSeq(block, 2, a + 1)
                /\ pc' = "head"
  BY DEF Commit
<1>3. Ahead /\ Len(block) \in 2 .. MaxK + 1 /\ Verified /\ Chosen
  BY <1>1 DEF SpecInv
<1> DEFINE c == Tried
           x == TargetSays(a + 1)
           s == SubSeq(block, 2, a + 1)
<1>4. /\ c \in Seq(Token) /\ Len(c) = pos + Len(block) /\ pos \in Nat
      /\ block \in Seq(Token) /\ Len(block) \in Nat /\ Len(block) <= MaxK + 1
      /\ \A k \in 1 .. Len(block) : c[pos + k] = block[k]
      /\ out \in Seq(Token) /\ prompt \in Seq(Token)
  <2>1. /\ c \in Seq(Token) /\ Len(c) = pos + Len(block)
        /\ \A k \in 1 .. Len(block) : c[pos + k] = block[k]
    BY <1>3, TriedIs
  <2>2. pos \in Nat /\ block \in Seq(Token) /\ Len(block) \in Nat /\ MaxK \in Nat
    BY <1>3, AheadHas
  <2>3. out \in Seq(Token) /\ prompt \in Seq(Token)
    BY Room DEF TypeOK
  <2> QED
    BY <1>3, <2>1, <2>2, <2>3
<1>5. /\ a \in Nat /\ a \in 0 .. Len(block) - 1 /\ a + 1 \in 1 .. Len(block)
      /\ a + 1 \in Nat /\ pos + (a + 1) \in Nat /\ pos + (a + 1) <= Len(c) /\ pos' = pos + (a + 1)
  BY <1>2, <1>4 DEF Drafted
<1>6. ASSUME NEW i \in 1 .. Len(block)
      PROVE  blockLogits[i] = Upto(c, pos + i) /\ TargetSays(i) = Argmax(Upto(c, pos + i))
             /\ blockLogits[i] \in Logits /\ TargetSays(i) \in Token
  <2>1. blockLogits[i] = Upto(c, pos + i)
    BY <1>3 DEF Verified
  <2>2. pos + i \in Nat /\ pos + i <= Len(c)
    BY <1>4
  <2>3. Upto(c, pos + i) \in Logits
    BY <1>4, <2>2, UptoIs, TokensAreLogits
  <2> QED
    BY <2>1, <2>3 DEF TargetSays, ArgmaxIsToken
<1>7. s \in Seq(Token) /\ Len(s) = a /\ \A k \in 1 .. a : s[k] = block[k + 1]
  <2>1. /\ SubSeq(block, 1 + 1, 1 + a) \in Seq(Token) /\ Len(SubSeq(block, 1 + 1, 1 + a)) = a
        /\ \A k \in 1 .. a : block[1 + k] = SubSeq(block, 1 + 1, 1 + a)[k]
    BY <1>4, <1>5, ChunkIs
  <2>2. 1 + 1 = 2 /\ 1 + a = a + 1 /\ \A k \in 1 .. a : 1 + k = k + 1
    BY <1>5
  <2> QED
    BY <2>1, <2>2
<1> HIDE DEF c, s
<1>8. \A i \in 1 .. a : block[i + 1] = Argmax(Upto(c, pos + i))
  <2>1. \A i \in 1 .. a : block[i + 1] = TargetSays(i) /\ i \in 1 .. Len(block)
    BY <1>2, <1>5 DEF IsAccepted
  <2> QED
    BY <1>6, <2>1
<1>9. x \in Token /\ x = Argmax(Upto(c, pos + (a + 1))) /\ blockLogits[a + 1] = Upto(c, pos + (a + 1))
      /\ blockLogits[a + 1] \in Logits
  BY <1>5, <1>6
<1>10. /\ state' = StateOf(Upto(c, pos + (a + 1)))
       /\ window' = WindowAfter(Quiet, c, pos + (a + 1))
  <2>1. CASE a + 1 < Len(block)
    <3>1. a + 1 \in 1 .. Len(block) - 1 /\ Rollback(a + 1)
      BY <1>2, <1>5, <2>1
    <3> QED
      BY <1>3, <1>4, <3>1, RolledBack DEF c
  <2>2. CASE ~ (a + 1 < Len(block))
    <3>1. a + 1 = Len(block) /\ UNCHANGED <<state, window>>
      BY <1>2, <1>5, <2>2
    <3> QED
      BY <1>3, <3>1 DEF Verified, StandsAt, c
  <2> QED
    BY <2>1, <2>2
<1> HIDE DEF x
<1>11. /\ state' \in Seq(Row) /\ window' \in Window
  <2>1. c \in Seq(Input) /\ Upto(c, pos + (a + 1)) \in Seq(Token)
    BY <1>4, <1>5, TokensAreInputs, UptoIs
  <2> QED
    BY <1>5, <1>10, <2>1, TokensAreInputs, StateIs, WindowTyped
<1>12. ASSUME out' \in Seq(Token)
       PROVE  TypeOK'
  <2>1. pc' \in {"done", "head"}
    BY <1>2
  <2> QED
    BY <1>1, <1>2, <1>5, <1>9, <1>11, <1>12, <2>1 DEF TypeOK, specVars
<1>13. CASE x \in StopToken
  <2> DEFINE t == Append(s, x)
  <2>1. pc' = "done" /\ out' = Append(out \o s, x)
    BY <1>2, <1>13 DEF s, x
  <2>2. t \in Seq(Token) /\ Len(t) = a + 1 /\ t[a + 1] = x /\ \A k \in 1 .. a : t[k] = block[k + 1]
    BY <1>7, <1>9, AppendProperties
  <2>3. out' = out \o t
    <3>1. out \in Seq(Token) /\ s \in Seq(Token)
      BY <1>4, <1>7
    <3> QED
      BY <1>9, <2>1, <3>1, AppendBehind
  <2> HIDE DEF t
  <2>4. /\ out' \in Seq(Token) /\ Committed \in Seq(Token) /\ Committed' \in Seq(Token)
        /\ Len(Committed') = pos + 1 + Len(t) /\ Len(Committed) = pos + 1
        /\ \A k \in 1 .. Len(Committed) : Committed'[k] = Committed[k]
        /\ \A k \in 1 .. Len(t) : Committed'[pos + 1 + k] = t[k]
        /\ \A j \in 0 .. pos + 1 + a : Upto(Committed', j) = Upto(c, j)
    <3>1. /\ Ahead /\ a \in 0 .. Len(block) - 1 /\ t \in Seq(Token) /\ Len(t) >= a
          /\ \A k \in 1 .. a : t[k] = block[k + 1]
          /\ out' = out \o t /\ prompt' = prompt
      BY <1>1, <1>3, <1>5, <2>2, <2>3
    <3> QED
      BY <3>1, Accepted DEF c
  <2>5. ASSUME NEW k \in Len(Committed) + 1 .. Len(Committed')
        PROVE  Committed'[k] = Argmax(Upto(Committed', k - 1))
    <3> DEFINE i == k - (pos + 1)
    <3>1. /\ i \in 1 .. a + 1 /\ pos + 1 + i = k /\ k - 1 = pos + i /\ i \in 1 .. Len(t)
          /\ k - 1 \in 0 .. pos + 1 + a
      <4>1. k \in pos + 1 + 1 .. pos + 1 + (a + 1) /\ Len(t) = a + 1
        BY <2>2, <2>4
      <4> QED
        BY <1>4, <1>5, <4>1
    <3> HIDE DEF i
    <3>2. Committed'[k] = t[i] /\ Upto(Committed', k - 1) = Upto(c, pos + i)
      BY <2>4, <3>1
    <3>3. t[i] = Argmax(Upto(c, pos + i))
      <4>1. CASE i = a + 1
        BY <1>9, <2>2, <4>1
      <4>2. CASE i # a + 1
        <5>1. i \in 1 .. a
          BY <1>5, <3>1, <4>2
        <5> QED
          BY <1>8, <2>2, <5>1
      <4> QED
        BY <4>1, <4>2
    <3> QED
      BY <3>2, <3>3
  <2>6. Len(Committed) <= Len(Committed')
    BY <1>4, <1>5, <2>2, <2>4
  <2>7. Chosen'
    BY <1>1, <1>3, <1>4, <2>4, <2>5, <2>6, StillChosen
  <2> QED
    BY <1>12, <2>1, <2>4, <2>7 DEF SpecInv
<1>14. CASE x \notin StopToken
  <2>1. pc' = "head" /\ out' = out \o s
    BY <1>2, <1>14 DEF s, x
  <2>2. /\ out' \in Seq(Token) /\ Committed \in Seq(Token) /\ Committed' \in Seq(Token)
        /\ Len(Committed') = pos + 1 + Len(s) /\ Len(Committed) = pos + 1
        /\ \A k \in 1 .. Len(Committed) : Committed'[k] = Committed[k]
        /\ \A k \in 1 .. Len(s) : Committed'[pos + 1 + k] = s[k]
        /\ \A k \in 1 .. pos + 1 + a : Committed'[k] = c[k]
        /\ \A j \in 0 .. pos + 1 + a : Upto(Committed', j) = Upto(c, j)
    <3>1. /\ Ahead /\ a \in 0 .. Len(block) - 1 /\ s \in Seq(Token) /\ Len(s) >= a
          /\ \A k \in 1 .. a : s[k] = block[k + 1]
          /\ out' = out \o s /\ prompt' = prompt
      BY <1>1, <1>3, <1>5, <1>7, <2>1
    <3> QED
      BY <3>1, Accepted DEF c
  <2>3. ASSUME NEW k \in Len(Committed) + 1 .. Len(Committed')
        PROVE  Committed'[k] = Argmax(Upto(Committed', k - 1))
    <3> DEFINE i == k - (pos + 1)
    <3>1. /\ i \in 1 .. a /\ pos + 1 + i = k /\ k - 1 = pos + i /\ i \in 1 .. Len(s)
          /\ k - 1 \in 0 .. pos + 1 + a
      <4>1. k \in pos + 1 + 1 .. pos + 1 + a /\ Len(s) = a
        BY <1>7, <2>2
      <4> QED
        BY <1>4, <1>5, <4>1
    <3> HIDE DEF i
    <3>2. Committed'[k] = s[i] /\ Upto(Committed', k - 1) = Upto(c, pos + i)
      BY <2>2, <3>1
    <3> QED
      BY <1>7, <1>8, <3>1, <3>2
  <2>4. Len(Committed) <= Len(Committed')
    BY <1>4, <1>5, <1>7, <2>2
  <2>5. Chosen'
    BY <1>1, <1>3, <1>4, <2>2, <2>3, <2>4, StillChosen
  <2>6. pos' = Len(Committed') /\ pos' = pos + (a + 1) /\ pos' \in Nat /\ pos' \in 0 .. pos + 1 + a
    BY <1>4, <1>5, <1>7, <2>2
  <2>7. Upto(c, pos') = Committed' /\ Upto(Committed', pos') = Committed'
    BY <2>2, <2>6, UptoAll
  <2>8. StandsAt(Committed, pos)'
    <3>1. state' = StateOf(Upto(Committed', pos'))
      BY <1>10, <2>6, <2>7
    <3>2. window' = WindowAfter(Quiet, Committed', pos')
      <4>1. \A k \in 1 .. pos' : Committed'[k] = c[k]
        BY <1>4, <1>5, <2>2
      <4>2. WindowAfter(Quiet, Committed', pos') = WindowAfter(Quiet, c, pos')
        BY <2>6, <4>1, WindowOfSame
      <4> QED
        BY <1>10, <2>6, <4>2
    <3>3. \A p \in 1 .. pos' : kv'[p] = Committed'[p]
      <4>1. \A p \in 1 .. pos + Len(block) : kv[p] = c[p]
        BY <1>3 DEF Verified, StandsAt, c
      <4> QED
        BY <1>1, <1>4, <1>5, <2>2, <2>6, <4>1
    <3>4. pos' <= Len(Committed') /\ pos' <= MaxCtx
      <4>1. pos + Len(block) <= MaxCtx /\ MaxCtx \in Nat
        BY <1>3, SpeculationAssumption DEF Verified, StandsAt
      <4> QED
        BY <1>4, <1>5, <2>6, <4>1
    <3> QED
      BY <3>1, <3>2, <3>3, <3>4 DEF StandsAt
  <2>9. logits' = Committed'
    BY <1>2, <1>9, <2>6, <2>7
  <2> QED
    BY <1>12, <2>1, <2>2, <2>5, <2>6, <2>8, <2>9 DEF SpecInv
<1> QED
  BY <1>13, <1>14

LEMMA SpecStutter == TypeOK /\ SpecInv /\ UNCHANGED vars => TypeOK' /\ SpecInv'
<1> SUFFICES ASSUME TypeOK, SpecInv, UNCHANGED vars
             PROVE  TypeOK' /\ SpecInv'
  OBVIOUS
<1>1. /\ UNCHANGED <<state, window, kv, logits>>
      /\ UNCHANGED <<stateBak, windowBak, preConv, postConv, blockLogits>>
      /\ UNCHANGED <<prompt, pc, pos, out, block>>
  BY DEF vars, modelVars, specVars, loopVars
<1>2. TypeOK'
  BY <1>1 DEF TypeOK
<1>3. Committed' = Committed /\ Tried' = Tried
  BY <1>1 DEF Tried, Committed
<1>4. Chosen' /\ (Ahead <=> Ahead')
  BY <1>1, <1>3 DEF SpecInv, Chosen, Ahead
<1>5. /\ StandsAt(prompt, pos) <=> StandsAt(prompt, pos)'
      /\ StandsAt(Committed, pos) <=> StandsAt(Committed, pos)'
  BY <1>1, <1>3 DEF StandsAt
<1>6. Verified <=> Verified'
  BY <1>1, <1>3 DEF Verified, StandsAt
<1> QED
  BY <1>1, <1>2, <1>3, <1>4, <1>5, <1>6 DEF SpecInv

LEMMA SpecStep ==
  ASSUME ArgmaxIsToken
  PROVE  TypeOK /\ SpecInv /\ [Next]_vars => TypeOK' /\ SpecInv'
BY SpecPrefill, SpecTakeFree, SpecDecode, SpecDraft, SpecVerify, SpecCommit, SpecStutter DEF Next

LEMMA SpecAlways ==
  ASSUME ArgmaxIsToken
  PROVE  Spec => [](TypeOK /\ SpecInv)
<1>1. Init => TypeOK /\ SpecInv
  BY SpecInit
<1>2. (TypeOK /\ SpecInv) /\ [Next]_vars => (TypeOK /\ SpecInv)'
  BY SpecStep
<1> QED
  BY <1>1, <1>2, PTL DEF Spec

-----------------------------------------------------------------------------
(* Every variable keeps its type, the answer and the block hold tokens of  *)
(* the vocabulary only: what TypeOK of the loop says (spec.cu:386-470).    *)
THEOREM TypeCorrect ==
  ASSUME ArgmaxIsToken
  PROVE  Spec => []TypeOK
BY SpecAlways, PTL

(* At the head of the loop state, window, KV rows and logits are those of  *)
(* the committed tokens, however the prompt was cut into chunks and        *)
(* whatever was drafted, accepted and rolled back on the way.              *)
THEOREM RestoredAlways ==
  ASSUME ArgmaxIsToken
  PROVE  Spec => []Restored
<1>1. TypeOK /\ SpecInv => Restored
  <2> SUFFICES ASSUME TypeOK, SpecInv, pc = "head"
               PROVE  /\ pos = Len(Committed)
                      /\ state = StateOf(Committed)
                      /\ window = WindowAfter(Quiet, Committed, Len(Committed))
                      /\ \A p \in 1 .. pos : kv[p] = Committed[p]
                      /\ logits = Committed
    BY DEF Restored
  <2>1. pos = Len(Committed) /\ StandsAt(Committed, pos) /\ logits = Committed
    BY DEF SpecInv
  <2>2. Committed \in Seq(Token)
    BY Room, Joined DEF TypeOK, Committed
  <2>3. Upto(Committed, pos) = Committed
    BY <2>1, <2>2, UptoAll
  <2> QED
    BY <2>1, <2>3 DEF StandsAt
<1> QED
  BY <1>1, SpecAlways, PTL

(* Every token handed out is the model's greedy choice after all tokens    *)
(* before it: drafts change how fast an answer is made, never what it says *)
(* (spec.h:134-136).                                                       *)
THEOREM LosslessAlways ==
  ASSUME ArgmaxIsToken
  PROVE  Spec => []Lossless
<1>1. TypeOK /\ SpecInv => Lossless
  <2> SUFFICES ASSUME TypeOK, SpecInv, NEW j \in 1 .. Len(out)
               PROVE  out[j] = Argmax(prompt \o SubSeq(out, 1, j - 1))
    BY DEF Lossless
  <2>1. prompt \in Seq(Token) /\ out \in Seq(Token)
    BY Room DEF TypeOK
  <2> DEFINE m == Len(prompt)
             t == Upto(out, j - 1)
  <2>2. /\ Committed \in Seq(Token) /\ Len(Committed) = m + Len(out)
        /\ m \in Nat /\ Len(out) \in Nat
        /\ \A k \in 1 .. m : Committed[k] = prompt[k]
        /\ \A k \in 1 .. Len(out) : Committed[m + k] = out[k]
    BY <2>1, Joined DEF Committed
  <2>3. m + j \in m + 1 .. Len(Committed) /\ (m + j) - 1 = m + (j - 1) /\ j - 1 \in Nat
        /\ j - 1 <= Len(out) /\ m <= Len(Committed) /\ m + (j - 1) <= Len(Committed) /\ m <= m
        /\ \A k \in 1 .. j - 1 : k \in 1 .. Len(out)
    BY <2>2
  <2>4. t \in Seq(Token) /\ Len(t) = j - 1 /\ \A k \in 1 .. j - 1 : t[k] = out[k]
    BY <2>1, <2>3, UptoIs
  <2>5. Upto(Committed, m) = prompt
    <3>1. Upto(Committed, m) = Upto(prompt, m)
      BY <2>1, <2>2, <2>3, UptoSame
    <3> QED
      BY <2>1, <3>1, UptoAll
  <2> HIDE DEF t
  <2>6. Upto(Committed, m) \o t = Upto(Committed, m + Len(t))
    <3>1. \A k \in 1 .. Len(t) : Committed[m + k] = t[k]
      BY <2>2, <2>3, <2>4
    <3>2. m + Len(t) <= Len(Committed)
      BY <2>3, <2>4
    <3> QED
      BY <2>2, <2>4, <3>1, <3>2, UptoMore
  <2>7. Committed[m + j] = Argmax(Upto(Committed, m + (j - 1)))
    BY <2>3 DEF SpecInv, Chosen
  <2>8. prompt \o t = Upto(Committed, m + (j - 1))
    BY <2>4, <2>5, <2>6
  <2> QED
    BY <2>2, <2>7, <2>8 DEF t, Upto
<1> QED
  BY <1>1, SpecAlways, PTL
===============================================================================
