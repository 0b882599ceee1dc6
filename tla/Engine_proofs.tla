---------------------------- MODULE Engine_proofs ----------------------------
(***************************************************************************)
(* Proofs about the request loop and its caches, in four parts that rest   *)
(* on each other: types and slots, the arena, losslessness, conversations. *)
(***************************************************************************)
EXTENDS Engine, SequenceTheorems, TLAPS

(* What the arena can hold. *)
Arena == [Layers -> [1 .. MaxCtx -> (Layers \X Token) \cup {Unwritten}]]

LEMMA SlotFields ==
  ASSUME NEW S \in Slot
  PROVE  /\ S.valid \in BOOLEAN
         /\ S.tokens \in Seq(Token)
         /\ S.state \in Seq(Token)
         /\ S.logits \in Logits
         /\ S.stamp \in Nat
BY DEF Slot

(* prefix_store leaves the slots well-formed. *)
LEMMA StoreTyped ==
  ASSUME CacheTypeOK,
         NEW tokens \in Seq(Token), NEW n \in Nat,
         NEW st \in Seq(Token), NEW lg \in Logits,
         Store(tokens, n, st, lg)
  PROVE  slots' \in [SlotIds -> Slot] /\ clock' \in Nat
<1>1. CASE NumSlots = 0 \/ n = 0 \/ n > Len(tokens)
  BY <1>1 DEF Store, CacheTypeOK
<1>2. CASE ~ (NumSlots = 0 \/ n = 0 \/ n > Len(tokens))
  <2>1. PICK i \in SlotIds :
          /\ clock' = clock + 1
          /\ slots' = [slots EXCEPT ![i] =
                         [valid |-> TRUE, tokens |-> SubSeq(tokens, 1, n),
                          state |-> st, logits |-> lg, stamp |-> clock + 1]]
    BY <1>2 DEF Store
  <2>2. SubSeq(tokens, 1, n) \in Seq(Token)
    BY <1>2, SubSeqProperties, ElementOfSeq, LenProperties
  <2>3. clock + 1 \in Nat
    BY DEF CacheTypeOK
  <2>4. [valid |-> TRUE, tokens |-> SubSeq(tokens, 1, n),
         state |-> st, logits |-> lg, stamp |-> clock + 1] \in Slot
    BY <2>2, <2>3 DEF Slot
  <2> QED
    BY <2>1, <2>3, <2>4 DEF CacheTypeOK
<1> QED
  BY <1>1, <1>2

(* So does prefix_restore. *)
LEMMA TouchTyped ==
  ASSUME CacheTypeOK, NEW i \in SlotIds, Touch(i)
  PROVE  slots' \in [SlotIds -> Slot] /\ clock' \in Nat
<1>1. /\ clock' = clock + 1
      /\ slots' = [slots EXCEPT ![i] = [@ EXCEPT !.stamp = clock + 1]]
  BY DEF Touch
<1>2. [slots[i] EXCEPT !.stamp = clock + 1] \in Slot
  <2>1. slots[i] \in Slot /\ clock + 1 \in Nat
    BY DEF CacheTypeOK
  <2>2. \A S \in Slot, n \in Nat : [S EXCEPT !.stamp = n] \in Slot
    BY DEF Slot
  <2> QED
    BY <2>1, <2>2
<1> QED
  BY <1>1, <1>2 DEF CacheTypeOK

LEMMA WrittenTyped ==
  ASSUME arena \in Arena, NEW s \in Seq(Token), NEW p \in Nat
  PROVE  Written(s, p) \in Arena
<1> USE EngineAssumption
<1> DEFINE cell(l, q) ==
             IF q - p \in 1 .. Len(s) THEN <<l, s[q - p]>>
             ELSE IF l > 1 /\ q + MaxCtx - p \in 1 .. Len(s)
                  THEN <<l - 1, s[q + MaxCtx - p]>>
             ELSE arena[l][q]
<1>a. Written(s, p) = [l \in Layers |-> [q \in 1 .. MaxCtx |-> cell(l, q)]]
  BY DEF Written
<1> SUFFICES ASSUME NEW l \in Layers, NEW q \in 1 .. MaxCtx
             PROVE  cell(l, q) \in (Layers \X Token) \cup {Unwritten}
  <2> HIDE DEF cell
  <2> QED
    BY <1>a DEF Arena
<1>0. /\ q \in Nat /\ l \in Nat /\ MaxCtx \in Nat
      /\ Len(s) \in Nat
      /\ \A k \in 1 .. Len(s) : s[k] \in Token
  BY LenProperties, ElementOfSeq DEF Layers
<1>1. CASE q - p \in 1 .. Len(s)
  <2>1. cell(l, q) = <<l, s[q - p]>>
    BY <1>1
  <2>2. s[q - p] \in Token
    <3> HIDE DEF cell
    <3>1. \A k \in 1 .. Len(s) : s[k] \in Token
      BY <1>0
    <3> QED
      BY <3>1, <1>1, Zenon
  <2> HIDE DEF cell
  <2> QED
    BY <2>1, <2>2
<1>2. CASE ~ (q - p \in 1 .. Len(s)) /\ q + MaxCtx - p \in 1 .. Len(s) /\ l > 1
  <2>1. l - 1 \in Layers
    BY <1>0, <1>2 DEF Layers
  <2> QED
    BY <1>0, <1>2, <2>1
<1>3. CASE ~ (q - p \in 1 .. Len(s)) /\ ~ (q + MaxCtx - p \in 1 .. Len(s) /\ l > 1)
  <2>1. arena[l][q] \in (Layers \X Token) \cup {Unwritten}
    BY DEF Arena
  <2> QED
    BY <1>3, <2>1
<1> QED
  BY <1>1, <1>2, <1>3

LEMMA DistributionTyped ==
  ASSUME NEW st \in Seq(Token), NEW kv, NEW n
  PROVE  Distribution(st, kv, n) \in Logits
BY DEF Distribution, Logits

(* What a forward pass does to the device and the position. *)
LEMMA ForwardTyped ==
  ASSUME TypeOK, NEW s \in Seq(Token), Forward(s)
  PROVE  /\ gdn' \in Seq(Token)
         /\ logits' \in Logits
         /\ arena' \in Arena
         /\ pos' \in Nat
<1>1. gdn' \in Seq(Token)
  BY ConcatProperties DEF TypeOK, Forward
<1>2. arena' \in Arena
  BY WrittenTyped DEF TypeOK, Forward, Arena
<1>3. pos' \in Nat
  BY LenProperties DEF TypeOK, Forward
<1>4. logits' \in Logits
  BY <1>1, DistributionTyped DEF Forward
<1> QED
  BY <1>1, <1>2, <1>3, <1>4

-----------------------------------------------------------------------------
LEMMA InitTyped == Init => TypeOK
<1> SUFFICES ASSUME Init
             PROVE  TypeOK
  OBVIOUS
<1> USE EngineAssumption, CacheAssumption
<1>0. <<>> \in Seq(Token)
  BY EmptySeq
<1>1. CacheTypeOK
  <2>1. EmptySlot \in Slot
    BY <1>0 DEF EmptySlot, Slot, Logits
  <2> QED
    BY <1>0, <2>1 DEF Init, CacheInit, CacheTypeOK
<1>2. arena \in Arena
  BY DEF Init, Arena
<1>3. logits \in Logits
  BY DEF Init, Logits
<1>4. exact \in BOOLEAN /\ specOn \in BOOLEAN
  BY DEF Init
<1> QED
  BY <1>0, <1>1, <1>2, <1>3, <1>4 DEF Init, TypeOK, Arena

LEMMA StartTyped == TypeOK /\ Start => TypeOK'
<1> SUFFICES ASSUME TypeOK, Start
             PROVE  TypeOK'
  OBVIOUS
<1> USE EngineAssumption, CacheAssumption
<1>1. PICK prompt \in Prompts, n \in 1 .. MaxNew, greedy, speculative \in BOOLEAN :
        /\ Admitted(prompt, n)
        /\ ids' = prompt /\ maxNew' = n /\ exact' \in {greedy, FALSE}
        /\ \/ /\ Resumable(prompt) = {}
              /\ reuse' = 0
              /\ gdn' = <<>>
              /\ UNCHANGED <<slots, clock, logits>>
           \/ \E i \in SlotIds :
                /\ IsBest(i, prompt)
                /\ reuse' = Len(slots[i].tokens)
                /\ gdn' = slots[i].state
                /\ logits' = slots[i].logits
                /\ Touch(i)
        /\ specOn' = (HasDraft /\ greedy /\ speculative /\ reuse' < Len(prompt))
  BY DEF Start
<1>2. /\ slots' \in [SlotIds -> Slot] /\ clock' \in Nat
      /\ reuse' \in Nat /\ gdn' \in Seq(Token) /\ logits' \in Logits
  <2>1. CASE /\ Resumable(prompt) = {}
             /\ reuse' = 0
             /\ gdn' = <<>>
             /\ UNCHANGED <<slots, clock, logits>>
    BY <2>1, EmptySeq DEF TypeOK, CacheTypeOK
  <2>2. CASE \E i \in SlotIds :
                /\ IsBest(i, prompt)
                /\ reuse' = Len(slots[i].tokens)
                /\ gdn' = slots[i].state
                /\ logits' = slots[i].logits
                /\ Touch(i)
    <3>1. PICK i \in SlotIds :
                /\ IsBest(i, prompt)
                /\ reuse' = Len(slots[i].tokens)
                /\ gdn' = slots[i].state
                /\ logits' = slots[i].logits
                /\ Touch(i)
      BY <2>2
    <3>2. slots[i] \in Slot /\ CacheTypeOK
      BY DEF TypeOK, CacheTypeOK
    <3>3. Len(slots[i].tokens) \in Nat
      BY <3>2, SlotFields, LenProperties
    <3> QED
      BY <3>1, <3>2, <3>3, SlotFields, TouchTyped
  <2> QED
    BY <1>1, <2>1, <2>2
<1>3. ids' \in Seq(Token) /\ maxNew' \in Nat
  BY <1>1
<1>4. exact' \in BOOLEAN /\ specOn' \in BOOLEAN
  BY <1>1, Zenon
<1>5. CacheTypeOK'
  BY <1>2 DEF CacheTypeOK, TypeOK, Start
<1>6. pending' \in Seq(Token) /\ emitted' \in Seq(Token)
  BY EmptySeq DEF Start
<1>7. rounds' \in 0 .. MinRounds /\ pos' \in Nat /\ served' \in 0 .. MaxRequests
  BY <1>2 DEF Start, TypeOK
<1> QED
  BY <1>2, <1>3, <1>4, <1>5, <1>6, <1>7 DEF Start, TypeOK

LEMMA PrefillChunkTyped == TypeOK /\ PrefillChunk => TypeOK'
<1> SUFFICES ASSUME TypeOK, PrefillChunk
             PROVE  TypeOK'
  OBVIOUS
<1> USE EngineAssumption
<1>1. PICK n \in 1 .. Chunk :
        /\ pos + n <= Len(ids)
        /\ Forward(SubSeq(ids, pos + 1, pos + n))
  BY DEF PrefillChunk
<1>2. SubSeq(ids, pos + 1, pos + n) \in Seq(Token)
  <2>1. ids \in Seq(Token) /\ pos \in Nat /\ n \in Nat
    BY DEF TypeOK
  <2>2. \A k \in pos + 1 .. pos + n : ids[k] \in Token
    BY <1>1, <2>1, ElementOfSeq, LenProperties
  <2> QED
    BY <2>1, <2>2, SubSeqProperties
<1>3. /\ gdn' \in Seq(Token)
      /\ logits' \in Logits
      /\ arena' \in Arena
      /\ pos' \in Nat
  BY <1>1, <1>2, ForwardTyped
<1>4. CacheTypeOK'
  BY DEF PrefillChunk, TypeOK, CacheTypeOK, cacheVars
<1> QED
  BY <1>3, <1>4 DEF PrefillChunk, TypeOK, Arena, requestVars

LEMMA EndPrefillTyped == TypeOK /\ EndPrefill => TypeOK'
<1> SUFFICES ASSUME TypeOK, EndPrefill
             PROVE  TypeOK'
  OBVIOUS
<1>1. Len(ids) \in Nat
  BY LenProperties DEF TypeOK
<1>2. CacheTypeOK'
  BY <1>1, StoreTyped DEF EndPrefill, TypeOK, CacheTypeOK
<1> QED
  BY <1>2 DEF EndPrefill, TypeOK, deviceVars, requestVars, loopVars

LEMMA RouteTyped == TypeOK /\ Route => TypeOK'
BY DEF Route, TypeOK, CacheTypeOK, cacheVars, deviceVars, requestVars

LEMMA SampleTyped == TypeOK /\ Sample => TypeOK'
<1> SUFFICES ASSUME TypeOK, Sample
             PROVE  TypeOK'
  OBVIOUS
<1>1. pending' \in Seq(Token)
  BY DEF Sample
<1> QED
  BY <1>1 DEF Sample, TypeOK, CacheTypeOK, cacheVars, deviceVars, requestVars

(* A draft is a sequence, and so is the block it is verified in. *)
LEMMA BlockTyped ==
  ASSUME NEW t0 \in Token, NEW d \in [1 .. BlockSize - 1 -> Token],
         NEW a \in 0 .. BlockSize - 1
  PROVE  /\ d \in Seq(Token) /\ Len(d) = BlockSize - 1
         /\ SubSeq(d, 1, a) \in Seq(Token) /\ Len(SubSeq(d, 1, a)) = a
         /\ <<t0>> \o d \in Seq(Token) /\ Len(<<t0>> \o d) = BlockSize
         /\ <<t0>> \o SubSeq(d, 1, a) \in Seq(Token)
         /\ Len(<<t0>> \o SubSeq(d, 1, a)) = a + 1
<1> USE EngineAssumption
<1>1. BlockSize - 1 \in Nat
  OBVIOUS
<1>2. d \in Seq(Token) /\ Len(d) = BlockSize - 1
  BY <1>1
<1>3. SubSeq(d, 1, a) \in Seq(Token) /\ Len(SubSeq(d, 1, a)) = a
  BY <1>1, <1>2, SubSeqProperties
<1>4. <<t0>> \in Seq(Token) /\ Len(<<t0>>) = 1
  OBVIOUS
<1> QED
  BY <1>1, <1>2, <1>3, <1>4, ConcatProperties

LEMMA SpecRoundTyped == TypeOK /\ SpecRound => TypeOK'
<1> SUFFICES ASSUME TypeOK, SpecRound
             PROVE  TypeOK'
  OBVIOUS
<1> USE EngineAssumption
<1>1. rounds' \in 0 .. MinRounds
  BY DEF SpecRound, TypeOK
<1>2. /\ pending' \in Seq(Token)
      /\ gdn' \in Seq(Token)
      /\ logits' \in Logits
      /\ arena' \in Arena
      /\ pos' \in Nat
  <2>1. PICK t0 \in Token :
          \/ /\ t0 \in StopToken
             /\ pending' = <<t0>>
             /\ UNCHANGED <<deviceVars, pos>>
          \/ /\ t0 \notin StopToken
             /\ \E d \in [1 .. BlockSize - 1 -> Token], a \in 0 .. BlockSize - 1 :
                  /\ arena' = Written(<<t0>> \o d, pos)
                  /\ Accepts(t0, d, a, arena')
                  /\ pending' = <<t0>> \o SubSeq(d, 1, a)
             /\ gdn' = gdn \o pending'
             /\ pos' = pos + Len(pending')
             /\ logits' = Distribution(gdn', arena', pos')
    BY Zenon DEF SpecRound
  <2>2. CASE t0 \in StopToken
    <3>1. pending' = <<t0>> /\ UNCHANGED <<deviceVars, pos>>
      BY <2>1, <2>2
    <3> QED
      BY <3>1 DEF TypeOK, Arena, deviceVars
  <2>3. CASE t0 \notin StopToken
    <3>1. PICK d \in [1 .. BlockSize - 1 -> Token], a \in 0 .. BlockSize - 1 :
            /\ arena' = Written(<<t0>> \o d, pos)
            /\ pending' = <<t0>> \o SubSeq(d, 1, a)
      BY <2>1, <2>3
    <3>2. pending' \in Seq(Token) /\ Len(pending') \in Nat
      BY <3>1, BlockTyped
    <3>3. gdn' \in Seq(Token)
      <4>1. gdn' = gdn \o pending'
        BY <2>1, <2>3
      <4>2. gdn \in Seq(Token)
        BY DEF TypeOK
      <4> QED
        BY <3>2, <4>1, <4>2, ConcatProperties
    <3>4. arena' \in Arena
      BY <3>1, BlockTyped, WrittenTyped DEF TypeOK, Arena
    <3>5. logits' \in Logits /\ pos' \in Nat
      <4>1. pos' = pos + Len(pending') /\ logits' = Distribution(gdn', arena', pos')
        BY <2>1, <2>3
      <4>2. pos \in Nat
        BY DEF TypeOK
      <4> QED
        BY <3>2, <3>3, <4>1, <4>2, DistributionTyped
    <3> QED
      BY <3>2, <3>3, <3>4, <3>5
  <2> QED
    BY <2>2, <2>3
<1>3. CacheTypeOK'
  BY DEF SpecRound, TypeOK, CacheTypeOK, cacheVars
<1> QED
  BY <1>1, <1>2, <1>3 DEF SpecRound, TypeOK, Arena, requestVars

LEMMA EmitTyped == TypeOK /\ Emit => TypeOK'
<1> SUFFICES ASSUME TypeOK, Emit
             PROVE  TypeOK'
  OBVIOUS
<1> DEFINE t == Head(pending)
<1>1. t \in Token /\ pending' \in Seq(Token)
  BY HeadTailProperties DEF Emit, TypeOK
<1>2. emitted' \in Seq(Token)
  BY <1>1, AppendProperties DEF Emit, TypeOK
<1>3. /\ gdn' \in Seq(Token)
      /\ logits' \in Logits
      /\ arena' \in Arena
      /\ pos' \in Nat
  <2>1. CASE UNCHANGED <<deviceVars, pos>>
    BY <2>1 DEF TypeOK, Arena, deviceVars
  <2>2. CASE Forward(<<t>>)
    <3>1. <<t>> \in Seq(Token)
      BY <1>1
    <3> QED
      BY <2>2, <3>1, ForwardTyped
  <2> QED
    BY <2>1, <2>2 DEF Emit
<1>4. CacheTypeOK'
  BY DEF Emit, TypeOK, CacheTypeOK, cacheVars
<1>5. phase' \in {"idle", "prefill", "decode", "finish"}
  BY DEF Emit
<1> QED
  BY <1>1, <1>2, <1>3, <1>4, <1>5 DEF Emit, TypeOK, Arena, requestVars

LEMMA FinishTyped == TypeOK /\ Finish => TypeOK'
<1> SUFFICES ASSUME TypeOK, Finish
             PROVE  TypeOK'
  OBVIOUS
<1> DEFINE seen == ids \o emitted
<1>1. seen \in Seq(Token) /\ Len(seen) \in Nat
  BY ConcatProperties, LenProperties DEF TypeOK
<1>2. Covered \in 0 .. Len(seen)
  BY <1>1 DEF Covered, TypeOK
<1>3. SubSeq(seen, 1, Covered) \in Seq(Token)
  <2>1. \A k \in 1 .. Covered : seen[k] \in Token
    BY <1>1, <1>2, ElementOfSeq
  <2> QED
    BY <1>1, <1>2, <2>1, SubSeqProperties
<1>4. CacheTypeOK'
  <2>1. CASE NumSlots > 0 /\ Covered > Len(ids)
    <3>1. /\ kvTokens' = SubSeq(seen, 1, Covered)
          /\ Store(seen, Covered, gdn, logits)
      BY <2>1 DEF Finish
    <3>2. slots' \in [SlotIds -> Slot] /\ clock' \in Nat
      <4>1. CacheTypeOK /\ gdn \in Seq(Token) /\ logits \in Logits
        BY DEF TypeOK
      <4>2. Covered \in Nat
        BY <1>1, <1>2
      <4> HIDE DEF seen
      <4> QED
        BY <1>1, <3>1, <4>1, <4>2, StoreTyped
    <3> QED
      BY <1>3, <3>1, <3>2 DEF CacheTypeOK
  <2>2. CASE ~ (NumSlots > 0 /\ Covered > Len(ids))
    BY <2>2 DEF Finish, TypeOK, CacheTypeOK, cacheVars
  <2> QED
    BY <2>1, <2>2
<1> QED
  BY <1>4 DEF Finish, TypeOK, deviceVars, requestVars, loopVars

(* Every variable keeps its type, whatever the oracle, the prompts and the  *)
(* sizes.                                                                   *)
THEOREM TypeCorrect == Spec => []TypeOK
<1>1. TypeOK /\ [Next]_vars => TypeOK'
  <2> SUFFICES ASSUME TypeOK, [Next]_vars
               PROVE  TypeOK'
    OBVIOUS
  <2>1. CASE UNCHANGED vars
    BY <2>1 DEF vars, cacheVars, deviceVars, requestVars, loopVars, TypeOK, CacheTypeOK
  <2> QED
    BY <2>1, StartTyped, PrefillChunkTyped, EndPrefillTyped, RouteTyped, SampleTyped,
       SpecRoundTyped, EmitTyped, FinishTyped DEF Next
<1> QED
  BY InitTyped, <1>1, PTL DEF Spec

-----------------------------------------------------------------------------
(* prefix_store writes the slot that holds the prefix already, if one does. *)
LEMMA StoreKeepsUnique ==
  ASSUME CacheTypeOK, NoDuplicateSlots, NEW tokens, NEW n, NEW st, NEW lg,
         Store(tokens, n, st, lg)
  PROVE  NoDuplicateSlots'
<1>1. CASE UNCHANGED slots
  BY <1>1 DEF NoDuplicateSlots
<1>2. CASE ~ UNCHANGED slots
  <2> DEFINE prefix == SubSeq(tokens, 1, n)
  <2>1. PICK i \in SlotIds :
          /\ IsTarget(i, prefix)
          /\ slots' = [slots EXCEPT ![i] =
                         [valid |-> TRUE, tokens |-> prefix,
                          state |-> st, logits |-> lg, stamp |-> clock + 1]]
    BY <1>2 DEF Store
  <2> HIDE DEF prefix
  <2>2. slots \in [SlotIds -> Slot]
    BY DEF CacheTypeOK
  <2>3. slots'[i].tokens = prefix /\ \A j \in SlotIds : j # i => slots'[j] = slots[j]
    BY <2>1, <2>2
  <2>4. ASSUME NEW j \in SlotIds, slots[j].valid, slots[j].tokens = prefix
        PROVE  j = i
    <3>1. j \in Holders(prefix)
      BY <2>4 DEF Holders
    <3>2. i \in Holders(prefix)
      BY <2>1, <3>1 DEF IsTarget
    <3> QED
      BY <2>4, <3>2 DEF NoDuplicateSlots, Holders
  <2> SUFFICES ASSUME NEW j \in SlotIds, NEW k \in SlotIds,
                      slots'[j].valid, slots'[k].valid, slots'[j].tokens = slots'[k].tokens
               PROVE  j = k
    BY DEF NoDuplicateSlots, SlotIds
  <2>5. CASE j # i /\ k # i
    BY <2>3, <2>5 DEF NoDuplicateSlots
  <2>6. CASE j = i
    BY <2>3, <2>4, <2>6
  <2>7. CASE k = i
    BY <2>3, <2>4, <2>7
  <2> QED
    BY <2>5, <2>6, <2>7
<1> QED
  BY <1>1, <1>2

(* No snapshot is stored twice, for any number of slots, any prompts and   *)
(* any sequence of requests (prefix.cu:108-119).                           *)
THEOREM NoDuplicates == Spec => []NoDuplicateSlots
<1>1. Init => NoDuplicateSlots
  <2> SUFFICES ASSUME Init
               PROVE  NoDuplicateSlots
    OBVIOUS
  <2>1. \A i \in SlotIds : slots[i].valid = FALSE
    BY DEF Init, CacheInit, EmptySlot
  <2> QED
    BY <2>1 DEF NoDuplicateSlots
<1>2. TypeOK /\ NoDuplicateSlots /\ [Next]_vars => NoDuplicateSlots'
  <2> SUFFICES ASSUME TypeOK, NoDuplicateSlots, [Next]_vars
               PROVE  NoDuplicateSlots'
    OBVIOUS
  <2>1. CacheTypeOK
    BY DEF TypeOK
  <2>2. CASE UNCHANGED slots
    BY <2>2 DEF NoDuplicateSlots
  <2>3. CASE Start
    <3>1. CASE \E i \in SlotIds : Touch(i)
      <4>1. PICK i \in SlotIds :
              slots' = [slots EXCEPT ![i] = [@ EXCEPT !.stamp = clock + 1]]
        BY <3>1 DEF Touch
      <4>2. ASSUME NEW j \in SlotIds
            PROVE  slots'[j].valid = slots[j].valid /\ slots'[j].tokens = slots[j].tokens
        BY <2>1, <4>1 DEF CacheTypeOK, Slot
      <4> QED
        BY <4>2 DEF NoDuplicateSlots, SlotIds
    <3> QED
      BY <2>2, <2>3, <3>1 DEF Start
  <2>4. CASE EndPrefill
    BY <2>1, <2>4, StoreKeepsUnique DEF EndPrefill
  <2>5. CASE Finish
    BY <2>1, <2>2, <2>5, StoreKeepsUnique DEF Finish, cacheVars
  <2>6. CASE PrefillChunk \/ Route \/ Sample \/ SpecRound \/ Emit
    BY <2>2, <2>6 DEF PrefillChunk, Route, Sample, SpecRound, Emit, cacheVars
  <2> QED
    BY <2>2, <2>3, <2>4, <2>5, <2>6 DEF Next, vars, cacheVars
<1> QED
  BY <1>1, <1>2, TypeCorrect, PTL DEF Spec

-----------------------------------------------------------------------------
(***************************************************************************)
(* What the prefix cache says of the KV arena is so, whatever requests     *)
(* come in whatever order -- provided the context leaves room for the      *)
(* rejected rows of a verification, which handle() does not see to.        *)
(***************************************************************************)

(* Room for a whole block behind the longest answer. *)
Headroom ==
  HasDraft => \A prompt \in Prompts : Len(prompt) + MaxNew + BlockSize - 1 <= MaxCtx

(* The first n rows of every layer of the arena kv hold the first n of s.  *)
Holds(kv, s, n) ==
  /\ n <= Len(s) /\ n <= MaxCtx
  /\ \A l \in Layers, q \in 1 .. n : kv[l][q] = <<l, s[q]>>

(* The prompt and everything that was committed behind it. *)
All == ids \o (emitted \o pending)

Busy ==
  /\ ids \in Prompts
  /\ Admitted(ids, maxNew)
  /\ maxNew \in 1 .. MaxNew

Prefilling ==
  /\ emitted = <<>> /\ pending = <<>>
  /\ pos <= Len(ids)
  /\ Holds(arena, ids, pos)

Recorded == kvTokens = IF NumSlots = 0 THEN <<>> ELSE ids

(* Where pos stands: behind all that is committed, or in front of the one  *)
(* token that plain decode, or a stop token, has not fed to the model.     *)
Placed ==
  /\ Len(ids) <= pos
  /\ \/ pos = Len(All)
     \/ pos = Len(All) - 1 /\ Len(pending) = 1 /\ (specOn => pending[1] \in StopToken)

Decoding ==
  /\ Recorded
  /\ Len(emitted) < maxNew
  /\ Placed
  /\ pending = <<>> => pos = Len(All)
  /\ (~specOn /\ pending # <<>>) => Len(pending) = 1 /\ pos = Len(All) - 1
  /\ Holds(arena, All, pos)

Finishing ==
  /\ Recorded
  /\ Len(ids) <= pos /\ pos <= Len(All)
  /\ Holds(arena, All, pos)

KvInv ==
  /\ TypeOK
  /\ NumSlots = 0 => kvTokens = <<>>
  /\ specOn => HasDraft
  /\ phase = "idle" => Holds(arena, kvTokens, Len(kvTokens))
  /\ phase # "idle" => Busy
  /\ phase = "prefill" => Holds(arena, ids, pos) /\ Prefilling
  /\ phase = "decode" => Decoding
  /\ phase = "finish" => Finishing

-----------------------------------------------------------------------------
(* Sequences of tokens, put together. *)
LEMMA Joined ==
  ASSUME NEW a \in Seq(Token), NEW b \in Seq(Token), NEW c \in Seq(Token)
  PROVE  /\ a \o (b \o c) \in Seq(Token)
         /\ Len(a \o (b \o c)) = Len(a) + Len(b) + Len(c)
         /\ Len(a) \in Nat /\ Len(b) \in Nat /\ Len(c) \in Nat
         /\ \A k \in 1 .. Len(a) : (a \o (b \o c))[k] = a[k]
         /\ \A k \in 1 .. Len(c) : (a \o (b \o c))[Len(a) + Len(b) + k] = c[k]
         /\ \A k \in 1 .. Len(a) + Len(b) : (a \o (b \o c))[k] = (a \o b)[k]
         /\ a \o b \in Seq(Token) /\ Len(a \o b) = Len(a) + Len(b)
<1>1. b \o c \in Seq(Token) /\ Len(b \o c) = Len(b) + Len(c)
  BY ConcatProperties
<1>2. a \o b \in Seq(Token) /\ Len(a \o b) = Len(a) + Len(b)
  BY ConcatProperties
<1>3. Len(a) \in Nat /\ Len(b) \in Nat /\ Len(c) \in Nat
  BY LenProperties
<1>4. a \o (b \o c) \in Seq(Token) /\ Len(a \o (b \o c)) = Len(a) + Len(b) + Len(c)
  BY <1>1, <1>3, ConcatProperties
<1>5. \A k \in 1 .. Len(a) + (Len(b) + Len(c)) :
        (a \o (b \o c))[k] = IF k <= Len(a) THEN a[k] ELSE (b \o c)[k - Len(a)]
  BY <1>1, ConcatProperties
<1>6. \A k \in 1 .. Len(b) + Len(c) :
        (b \o c)[k] = IF k <= Len(b) THEN b[k] ELSE c[k - Len(b)]
  BY ConcatProperties
<1>7. \A k \in 1 .. Len(a) + Len(b) :
        (a \o b)[k] = IF k <= Len(a) THEN a[k] ELSE b[k - Len(a)]
  BY ConcatProperties
<1>8. ASSUME NEW k \in 1 .. Len(a)
      PROVE  (a \o (b \o c))[k] = a[k]
  BY <1>3, <1>5
<1>9. ASSUME NEW k \in 1 .. Len(c)
      PROVE  (a \o (b \o c))[Len(a) + Len(b) + k] = c[k]
  <2> DEFINE n == Len(a) + Len(b) + k
             m == Len(b) + k
  <2>1. /\ n \in 1 .. Len(a) + (Len(b) + Len(c)) /\ ~(n <= Len(a)) /\ n - Len(a) = m
        /\ m \in 1 .. Len(b) + Len(c) /\ ~(m <= Len(b)) /\ m - Len(b) = k
    BY <1>3
  <2> HIDE DEF n, m
  <2>2. (a \o (b \o c))[n] = (b \o c)[m]
    BY <2>1, <1>5
  <2>3. (b \o c)[m] = c[k]
    BY <2>1, <1>6
  <2>4. (a \o (b \o c))[n] = c[k]
    BY <2>2, <2>3
  <2> QED
    BY <2>4 DEF n
<1>10. ASSUME NEW k \in 1 .. Len(a) + Len(b)
       PROVE  (a \o (b \o c))[k] = (a \o b)[k]
  <2>1. CASE k <= Len(a)
    BY <2>1, <1>3, <1>5, <1>7
  <2>2. CASE ~(k <= Len(a))
    <3>1. k - Len(a) \in 1 .. Len(b) + Len(c) /\ k - Len(a) <= Len(b)
      BY <2>2, <1>3
    <3>2. (b \o c)[k - Len(a)] = b[k - Len(a)]
      BY <3>1, <1>6
    <3>3. k \in 1 .. Len(a) + (Len(b) + Len(c))
      BY <1>3
    <3> QED
      BY <2>2, <3>2, <3>3, <1>5, <1>7
  <2> QED
    BY <2>1, <2>2
<1> QED
  BY <1>2, <1>3, <1>4, <1>8, <1>9, <1>10

(* Emitting a token leaves what is committed as it is. *)
LEMMA Popped ==
  ASSUME NEW a \in Seq(Token), NEW b \in Seq(Token), NEW c \in Seq(Token), c # <<>>
  PROVE  a \o (Append(b, Head(c)) \o Tail(c)) = a \o (b \o c)
<1> DEFINE h == Head(c)
<1> DEFINE r == Tail(c)
<1>1. h \in Token /\ r \in Seq(Token) /\ <<h>> \in Seq(Token)
  BY HeadTailProperties
<1>2. c = <<h>> \o r
  <2>1. Len(c) \in Nat \ {0} /\ Len(r) = Len(c) - 1
    BY HeadTailProperties, EmptySeq
  <2>2. \A k \in 1 .. Len(r) : r[k] = c[k + 1]
    BY HeadTailProperties
  <2>3. h = c[1]
    OBVIOUS
  <2>4. Len(<<h>>) = 1 /\ <<h>>[1] = h
    OBVIOUS
  <2> HIDE DEF h, r
  <2>5. /\ <<h>> \o r \in Seq(Token)
        /\ Len(<<h>> \o r) = Len(c)
        /\ \A k \in 1 .. Len(c) : (<<h>> \o r)[k] = IF k <= 1 THEN <<h>>[k] ELSE r[k - 1]
    <3>1. /\ <<h>> \o r \in Seq(Token)
          /\ Len(<<h>> \o r) = 1 + Len(r)
          /\ \A k \in 1 .. 1 + Len(r) : (<<h>> \o r)[k] = IF k <= 1 THEN <<h>>[k] ELSE r[k - 1]
      BY <1>1, <2>4, ConcatProperties, Zenon
    <3> QED
      BY <2>1, <3>1
  <2>6. ASSUME NEW k \in 1 .. Len(c)
        PROVE  c[k] = (<<h>> \o r)[k]
    <3>1. CASE k = 1
      BY <2>3, <2>4, <2>5, <3>1
    <3>2. CASE k # 1
      <4>1. k - 1 \in 1 .. Len(r) /\ (k - 1) + 1 = k /\ ~(k <= 1)
        BY <2>1, <3>2
      <4>2. r[k - 1] = c[k]
        BY <4>1, <2>2
      <4> QED
        BY <2>5, <4>1, <4>2
    <3> QED
      BY <3>1, <3>2
  <2> QED
    BY <2>5, <2>6, SeqEqual
<1>3. Append(b, h) = b \o <<h>>
  BY <1>1, AppendIsConcat
<1> HIDE DEF h, r
<1>4. (b \o <<h>>) \o r = b \o (<<h>> \o r)
  BY <1>1, ConcatAssociative
<1> QED
  BY <1>2, <1>3, <1>4 DEF h, r

(* A token in front of a draft and in front of its first a tokens.         *)
LEMMA SameBlock ==
  ASSUME NEW h \in Seq(Token), Len(h) = 1, NEW d \in Seq(Token), NEW a \in 0 .. Len(d),
         NEW k \in 1 .. a + 1
  PROVE  (h \o SubSeq(d, 1, a))[k] = (h \o d)[k]
<1>1. Len(d) \in Nat /\ a \in Nat
  BY LenProperties
<1>2. /\ SubSeq(d, 1, a) \in Seq(Token)
      /\ Len(SubSeq(d, 1, a)) = a
      /\ \A j \in 1 .. a : SubSeq(d, 1, a)[j] = d[j]
  <2>1. \A j \in 1 .. a : d[j] \in Token
    BY <1>1, ElementOfSeq
  <2>2. /\ SubSeq(d, 1, a) \in Seq(Token)
        /\ Len(SubSeq(d, 1, a)) = IF 1 <= a THEN a - 1 + 1 ELSE 0
        /\ \A j \in 1 .. a - 1 + 1 : SubSeq(d, 1, a)[j] = d[1 + j - 1]
    BY <1>1, <2>1, SubSeqProperties
  <2>3. \A j \in 1 .. a : 1 + j - 1 = j
    BY <1>1
  <2> QED
    BY <1>1, <2>2, <2>3
<1> DEFINE e == SubSeq(d, 1, a)
<1> HIDE DEF e
<1>3. (h \o e)[k] = IF k <= 1 THEN h[k] ELSE e[k - 1]
  <2>1. \A j \in 1 .. Len(h) + Len(e) : (h \o e)[j] = IF j <= Len(h) THEN h[j] ELSE e[j - Len(h)]
    BY <1>2, ConcatProperties DEF e
  <2>2. k \in 1 .. Len(h) + Len(e)
    BY <1>1, <1>2 DEF e
  <2>3. (h \o e)[k] = IF k <= Len(h) THEN h[k] ELSE e[k - Len(h)]
    BY <2>1, <2>2, Zenon
  <2> QED
    BY <2>3, Zenon
<1>4. (h \o d)[k] = IF k <= 1 THEN h[k] ELSE d[k - 1]
  <2>1. \A j \in 1 .. Len(h) + Len(d) : (h \o d)[j] = IF j <= Len(h) THEN h[j] ELSE d[j - Len(h)]
    BY ConcatProperties
  <2>2. k \in 1 .. Len(h) + Len(d)
    BY <1>1
  <2>3. (h \o d)[k] = IF k <= Len(h) THEN h[k] ELSE d[k - Len(h)]
    BY <2>1, <2>2, Zenon
  <2> QED
    BY <2>3, Zenon
<1>5. k > 1 => e[k - 1] = d[k - 1]
  BY <1>1, <1>2 DEF e
<1>6. (h \o e)[k] = (h \o d)[k]
  BY <1>1, <1>3, <1>4, <1>5
<1> QED
  BY <1>6 DEF e

(* A shorter prefix, and another sequence that starts with it. *)
LEMMA HoldsLess ==
  ASSUME NEW kv, NEW a \in Seq(Token), NEW b \in Seq(Token), NEW n \in Nat, NEW m \in Nat,
         Holds(kv, a, n), m <= n, m <= Len(b), \A k \in 1 .. m : a[k] = b[k]
  PROVE  Holds(kv, b, m)
<1>1. MaxCtx \in Nat
  BY EngineAssumption
<1> QED
  BY <1>1 DEF Holds

(* A forward pass that stays within the layer's part of the arena extends  *)
(* what the rows hold by as many of its tokens as are committed.           *)
LEMMA HoldsMore ==
  ASSUME arena \in Arena, NEW a \in Seq(Token), NEW s \in Seq(Token),
         NEW p \in Nat, NEW n \in Nat,
         Holds(arena, a, p), n <= Len(s), p + Len(s) <= MaxCtx, p + n <= Len(a),
         \A k \in 1 .. n : a[p + k] = s[k]
  PROVE  Holds(Written(s, p), a, p + n)
<1>0. MaxCtx \in Nat /\ Len(s) \in Nat /\ Len(a) \in Nat
  BY EngineAssumption, LenProperties
<1>1. ASSUME NEW l \in Layers, NEW q \in 1 .. p + n
      PROVE  Written(s, p)[l][q] = <<l, a[q]>>
  <2>1. q \in 1 .. MaxCtx /\ q \in Nat
    BY <1>0
  <2>2. ~(q + MaxCtx - p \in 1 .. Len(s))
    BY <1>0, <2>1
  <2>3. Written(s, p)[l][q] =
          IF q - p \in 1 .. Len(s) THEN <<l, s[q - p]>> ELSE arena[l][q]
    BY <2>1, <2>2 DEF Written
  <2>4. CASE q <= p
    BY <1>0, <2>1, <2>3, <2>4 DEF Holds
  <2>5. CASE q > p
    <3>1. q - p \in 1 .. n /\ q - p \in 1 .. Len(s) /\ p + (q - p) = q
      BY <1>0, <2>1, <2>5
    <3>2. a[p + (q - p)] = s[q - p]
      BY <3>1
    <3> QED
      BY <2>3, <3>1, <3>2
  <2> QED
    BY <2>1, <2>4, <2>5
<1> QED
  BY <1>0, <1>1 DEF Holds

-----------------------------------------------------------------------------
LEMMA KvInit == Init => KvInv
<1> SUFFICES ASSUME Init
             PROVE  KvInv
  OBVIOUS
<1>1. TypeOK
  BY InitTyped
<1>2. kvTokens = <<>> /\ phase = "idle" /\ ~specOn
  BY DEF Init, CacheInit
<1>3. Holds(arena, kvTokens, Len(kvTokens))
  BY <1>2, EmptySeq, EngineAssumption DEF Holds
<1> QED
  BY <1>1, <1>2, <1>3 DEF KvInv

(* A hit covers a prefix of the prompt whose rows the arena still holds.   *)
LEMMA KvStart == KvInv /\ Start => KvInv'
<1> SUFFICES ASSUME KvInv, Start
             PROVE  KvInv'
  OBVIOUS
<1>1. TypeOK /\ TypeOK'
  BY StartTyped DEF KvInv
<1>2. PICK prompt \in Prompts, n \in 1 .. MaxNew, greedy, speculative \in BOOLEAN :
        /\ Admitted(prompt, n)
        /\ ids' = prompt /\ maxNew' = n
        /\ \/ reuse' = 0
           \/ \E i \in SlotIds : IsBest(i, prompt) /\ reuse' = Len(slots[i].tokens)
        /\ specOn' = (HasDraft /\ greedy /\ speculative /\ reuse' < Len(prompt))
  BY DEF Start
<1>3. /\ pos' = reuse' /\ phase' = "prefill" /\ kvTokens' = kvTokens /\ arena' = arena
      /\ emitted' = <<>> /\ pending' = <<>> /\ phase = "idle"
  BY DEF Start
<1>4. Len(prompt) \in Nat /\ prompt \in Seq(Token) /\ MaxCtx \in Nat
  BY EngineAssumption, LenProperties
<1>5. reuse' <= Len(prompt) /\ Holds(arena, prompt, reuse')
  <2>1. CASE reuse' = 0
    BY <2>1, <1>4 DEF Holds
  <2>2. CASE \E i \in SlotIds : IsBest(i, prompt) /\ reuse' = Len(slots[i].tokens)
    <3>1. /\ Agree(prompt, kvTokens, reuse')
          /\ reuse' \in Nat
      BY <2>2, <1>1 DEF IsBest, Resumable, TypeOK
    <3>2. Holds(arena, kvTokens, Len(kvTokens)) /\ kvTokens \in Seq(Token)
          /\ Len(kvTokens) \in Nat
      BY <1>1, <1>3, LenProperties DEF KvInv, TypeOK, CacheTypeOK
    <3>3. /\ reuse' <= Len(prompt) /\ reuse' <= Len(kvTokens)
          /\ \A k \in 1 .. reuse' : kvTokens[k] = prompt[k]
      BY <3>1 DEF Agree
    <3> QED
      BY <1>4, <3>1, <3>2, <3>3, HoldsLess
  <2> QED
    BY <1>2, <2>1, <2>2
<1>6. specOn' => HasDraft
  BY <1>2
<1>7. Busy'
  BY <1>2 DEF Busy, Admitted
<1>8. Prefilling'
  BY <1>2, <1>3, <1>5 DEF Prefilling, Holds
<1>9. (NumSlots = 0 => kvTokens = <<>>)'
  BY <1>3 DEF KvInv
<1> QED
  BY <1>1, <1>3, <1>6, <1>7, <1>8, <1>9 DEF KvInv, Prefilling

LEMMA KvChunk == KvInv /\ PrefillChunk => KvInv'
<1> SUFFICES ASSUME KvInv, PrefillChunk
             PROVE  KvInv'
  OBVIOUS
<1>1. TypeOK /\ TypeOK'
  BY PrefillChunkTyped DEF KvInv
<1>2. PICK n \in 1 .. Chunk :
        /\ pos + n <= Len(ids)
        /\ Forward(SubSeq(ids, pos + 1, pos + n))
  BY DEF PrefillChunk
<1>3. /\ phase = "prefill" /\ phase' = "prefill"
      /\ UNCHANGED <<cacheVars, ids, maxNew, specOn, pending, emitted>>
  BY DEF PrefillChunk, requestVars
<1>4. Busy /\ Prefilling
  BY <1>3 DEF KvInv
<1>5. /\ ids \in Seq(Token) /\ Len(ids) \in Nat /\ pos \in Nat /\ n \in Nat
      /\ MaxCtx \in Nat /\ Len(ids) < MaxCtx
  BY <1>1, <1>4, LenProperties, EngineAssumption DEF TypeOK, Busy, Admitted
<1> DEFINE s == SubSeq(ids, pos + 1, pos + n)
<1>6. s \in Seq(Token) /\ Len(s) = n /\ \A k \in 1 .. n : ids[pos + k] = s[k]
  <2>1. \A k \in pos + 1 .. pos + n : ids[k] \in Token
    BY <1>2, <1>5, ElementOfSeq
  <2>2. /\ s \in Seq(Token)
        /\ Len(s) = IF pos + 1 <= pos + n THEN pos + n - (pos + 1) + 1 ELSE 0
        /\ \A k \in 1 .. pos + n - (pos + 1) + 1 : s[k] = ids[pos + 1 + k - 1]
    BY <1>5, <2>1, SubSeqProperties
  <2> HIDE DEF s
  <2>3. pos + n - (pos + 1) + 1 = n /\ pos + 1 <= pos + n
    BY <1>5
  <2>4. \A k \in 1 .. n : pos + 1 + k - 1 = pos + k
    BY <1>5
  <2> QED
    BY <2>2, <2>3, <2>4
<1>7. arena' = Written(s, pos) /\ pos' = pos + Len(s)
  BY <1>2 DEF Forward
<1> HIDE DEF s
<1>8. Holds(arena', ids, pos + n)
  <2>1. arena \in Arena /\ Holds(arena, ids, pos)
    BY <1>1, <1>4 DEF TypeOK, Arena, Prefilling
  <2>2. n <= Len(s) /\ pos + Len(s) <= MaxCtx
    BY <1>2, <1>5, <1>6
  <2> QED
    BY <1>2, <1>5, <1>6, <1>7, <2>1, <2>2, HoldsMore
<1>9. Prefilling'
  BY <1>2, <1>3, <1>4, <1>5, <1>6, <1>7, <1>8 DEF Prefilling
<1>10. Busy'
  BY <1>3, <1>4 DEF Busy, Admitted
<1> QED
  BY <1>1, <1>3, <1>9, <1>10 DEF KvInv, cacheVars, Prefilling

LEMMA KvEndPrefill == KvInv /\ EndPrefill => KvInv'
<1> SUFFICES ASSUME KvInv, EndPrefill
             PROVE  KvInv'
  OBVIOUS
<1>1. TypeOK /\ TypeOK'
  BY EndPrefillTyped DEF KvInv
<1>2. /\ phase = "prefill" /\ phase' = "decode" /\ pos = Len(ids)
      /\ kvTokens' = IF NumSlots = 0 THEN kvTokens ELSE ids
      /\ UNCHANGED <<arena, ids, maxNew, specOn, pending, emitted, pos>>
  BY DEF EndPrefill, deviceVars, requestVars, loopVars
<1>3. Busy /\ Prefilling /\ (NumSlots = 0 => kvTokens = <<>>)
  BY <1>2 DEF KvInv
<1>4. All = ids /\ All' = ids
  <2>1. <<>> \o <<>> = <<>> /\ ids \o <<>> = ids
    BY <1>1, ConcatEmptySeq, EmptySeq DEF TypeOK
  <2> QED
    BY <1>2, <1>3, <2>1 DEF All, Prefilling
<1>5. Recorded'
  BY <1>2, <1>3 DEF Recorded
<1>6. Len(emitted') < maxNew' /\ pending' = <<>>
  BY <1>2, <1>3, EmptySeq DEF Prefilling, Busy
<1>7. Placed' /\ pos' = Len(All')
  <2>1. Len(ids) \in Nat
    BY <1>1, LenProperties DEF TypeOK
  <2> QED
    BY <1>2, <1>4, <2>1 DEF Placed
<1>8. Holds(arena', All', pos')
  BY <1>2, <1>3, <1>4 DEF Prefilling
<1>9. Decoding'
  BY <1>5, <1>6, <1>7, <1>8 DEF Decoding
<1>10. Busy'
  BY <1>2, <1>3 DEF Busy, Admitted
<1> QED
  BY <1>1, <1>2, <1>3, <1>9, <1>10 DEF KvInv

LEMMA KvRoute == KvInv /\ Route => KvInv'
<1> SUFFICES ASSUME KvInv, Route
             PROVE  KvInv'
  OBVIOUS
<1>1. TypeOK'
  BY RouteTyped DEF KvInv
<1>2. /\ phase = "decode" /\ phase' = "decode" /\ pending = <<>>
      /\ UNCHANGED <<kvTokens, arena, ids, maxNew, pending, emitted, pos>>
      /\ specOn' = FALSE
  BY DEF Route, cacheVars, deviceVars, requestVars
<1>3. Busy /\ Decoding
  BY <1>2 DEF KvInv
<1>4. All' = All
  BY <1>2 DEF All
<1>5. Placed'
  BY <1>2, <1>3, <1>4 DEF Placed, Decoding
<1>6. Decoding'
  BY <1>2, <1>3, <1>4, <1>5 DEF Decoding, Recorded
<1>7. Busy'
  BY <1>2, <1>3 DEF Busy, Admitted
<1> QED
  BY <1>1, <1>2, <1>3, <1>6, <1>7 DEF KvInv

LEMMA KvSample == KvInv /\ Sample => KvInv'
<1> SUFFICES ASSUME KvInv, Sample
             PROVE  KvInv'
  OBVIOUS
<1>1. TypeOK /\ TypeOK'
  BY SampleTyped DEF KvInv
<1>2. /\ phase = "decode" /\ phase' = "decode" /\ pending = <<>> /\ ~specOn
      /\ UNCHANGED <<kvTokens, arena, ids, maxNew, emitted, pos, specOn>>
  BY DEF Sample, cacheVars, deviceVars, requestVars
<1>3. PICK t \in Token : pending' = <<t>>
  BY DEF Sample
<1>4. Busy /\ Decoding
  BY <1>2 DEF KvInv
<1>5. /\ All \in Seq(Token) /\ Len(All) = Len(ids) + Len(emitted) /\ Len(All) \in Nat
      /\ All' \in Seq(Token) /\ Len(All') = Len(All) + 1
      /\ \A k \in 1 .. Len(All) : All[k] = All'[k]
      /\ Len(pending') = 1
  <2>1. ids \in Seq(Token) /\ emitted \in Seq(Token) /\ <<t>> \in Seq(Token)
        /\ pending \in Seq(Token) /\ Len(<<t>>) = 1 /\ Len(pending) = 0
    BY <1>1, <1>2, EmptySeq DEF TypeOK
  <2>2. pending' \in Seq(Token) /\ Len(pending') = 1
    BY <1>3, <2>1
  <2>3. All' = ids \o (emitted \o pending')
    BY <1>2 DEF All
  <2>4. /\ All' \in Seq(Token)
        /\ Len(All') = Len(ids) + Len(emitted) + Len(pending')
        /\ \A k \in 1 .. Len(ids) + Len(emitted) : All'[k] = (ids \o emitted)[k]
    <3>1. ids \in Seq(Token) /\ emitted \in Seq(Token) /\ pending' \in Seq(Token)
      BY <2>1, <2>2
    <3> QED
      BY <2>3, <3>1, Joined DEF All
  <2>5. /\ All \in Seq(Token)
        /\ Len(All) = Len(ids) + Len(emitted) + Len(pending)
        /\ \A k \in 1 .. Len(ids) + Len(emitted) : All[k] = (ids \o emitted)[k]
        /\ Len(ids) \in Nat /\ Len(emitted) \in Nat
    BY <2>1, Joined DEF All
  <2>6. Len(All) = Len(ids) + Len(emitted) /\ Len(All) \in Nat /\ Len(All') = Len(All) + 1
    BY <2>1, <2>2, <2>4, <2>5
  <2>7. \A k \in 1 .. Len(All) : All[k] = All'[k]
    BY <2>4, <2>5, <2>6
  <2> QED
    BY <2>2, <2>4, <2>5, <2>6, <2>7
<1>6. pos = Len(All) /\ Holds(arena, All, pos)
  BY <1>2, <1>4 DEF Decoding
<1>7. Placed' /\ pos' = Len(All') - 1
  BY <1>2, <1>4, <1>5, <1>6 DEF Decoding, Placed
<1>8. Holds(arena', All', pos')
  BY <1>2, <1>5, <1>6, HoldsLess
<1>9. pending' # <<>>
  BY <1>3
<1>10. Decoding'
  BY <1>2, <1>4, <1>5, <1>7, <1>8, <1>9 DEF Decoding, Recorded
<1>11. Busy'
  BY <1>2, <1>4 DEF Busy, Admitted
<1> QED
  BY <1>1, <1>2, <1>10, <1>11 DEF KvInv

(* The rejected rows of a block stay within the layer's part of the arena; *)
(* the accepted ones hold what is committed.                               *)
LEMMA KvRound ==
  ASSUME Headroom
  PROVE  KvInv /\ SpecRound => KvInv'
<1> SUFFICES ASSUME KvInv, SpecRound
             PROVE  KvInv'
  OBVIOUS
<1>1. TypeOK /\ TypeOK'
  BY SpecRoundTyped DEF KvInv
<1>2. /\ phase = "decode" /\ phase' = "decode" /\ pending = <<>> /\ specOn
      /\ UNCHANGED <<kvTokens, ids, maxNew, emitted, specOn>>
  BY DEF SpecRound, cacheVars, requestVars
<1>3. Busy /\ Decoding /\ HasDraft
  BY <1>2 DEF KvInv
<1>4. PICK t0 \in Token :
        \/ /\ t0 \in StopToken
           /\ pending' = <<t0>>
           /\ UNCHANGED <<deviceVars, pos>>
        \/ /\ t0 \notin StopToken
           /\ \E d \in [1 .. BlockSize - 1 -> Token], a \in 0 .. BlockSize - 1 :
                /\ arena' = Written(<<t0>> \o d, pos)
                /\ Accepts(t0, d, a, arena')
                /\ pending' = <<t0>> \o SubSeq(d, 1, a)
           /\ gdn' = gdn \o pending'
           /\ pos' = pos + Len(pending')
           /\ logits' = Distribution(gdn', arena', pos')
  BY Zenon DEF SpecRound
<1>5. /\ ids \in Seq(Token) /\ emitted \in Seq(Token) /\ pending' \in Seq(Token)
      /\ pending \in Seq(Token) /\ Len(pending) = 0
  BY <1>1, <1>2, EmptySeq DEF TypeOK
<1>6. /\ All \in Seq(Token) /\ Len(All) = Len(ids) + Len(emitted) /\ Len(All) \in Nat
      /\ All' \in Seq(Token) /\ Len(All') = Len(All) + Len(pending') /\ Len(pending') \in Nat
      /\ \A k \in 1 .. Len(All) : All[k] = All'[k]
      /\ \A k \in 1 .. Len(pending') : All'[Len(All) + k] = pending'[k]
      /\ Len(ids) \in Nat /\ Len(emitted) \in Nat
  <2>1. All' = ids \o (emitted \o pending')
    BY <1>2 DEF All
  <2> QED
    BY <1>5, <2>1, Joined DEF All
<1>7. pos = Len(All) /\ Holds(arena, All, pos)
  BY <1>2, <1>3 DEF Decoding
<1>8. Placed' /\ Holds(arena', All', pos') /\ Len(pending') > 0
  <2>1. CASE t0 \in StopToken
    <3>1. pending' = <<t0>> /\ arena' = arena /\ pos' = pos
      BY <1>4, <2>1 DEF deviceVars
    <3>2. Len(pending') = 1 /\ pending'[1] = t0
      BY <3>1
    <3>3. Holds(arena', All', pos')
      BY <1>6, <1>7, <3>1, HoldsLess
    <3> QED
      BY <1>2, <1>6, <1>7, <2>1, <3>1, <3>2, <3>3 DEF Placed
  <2>2. CASE t0 \notin StopToken
    <3>1. PICK d \in [1 .. BlockSize - 1 -> Token], a \in 0 .. BlockSize - 1 :
            /\ arena' = Written(<<t0>> \o d, pos)
            /\ pending' = <<t0>> \o SubSeq(d, 1, a)
      BY <1>4, <2>2
    <3>2. pos' = pos + Len(pending')
      BY <1>4, <2>2
    <3> DEFINE s == <<t0>> \o d
    <3>3. s \in Seq(Token) /\ Len(s) = BlockSize /\ Len(pending') = a + 1
      BY <3>1, BlockTyped
    <3>4. \A k \in 1 .. a + 1 : pending'[k] = s[k]
      <4>1. d \in Seq(Token) /\ Len(d) = BlockSize - 1
        BY BlockTyped
      <4>2. <<t0>> \in Seq(Token) /\ Len(<<t0>>) = 1
        OBVIOUS
      <4>3. a \in 0 .. Len(d)
        BY <4>1
      <4> QED
        BY <3>1, <4>1, <4>2, <4>3, SameBlock
    <3> HIDE DEF s
    <3>5. pos + BlockSize <= MaxCtx
      <4>1. Len(ids) + MaxNew + BlockSize - 1 <= MaxCtx
        BY <1>3 DEF Headroom, Busy
      <4>2. Len(emitted) < maxNew /\ maxNew \in 1 .. MaxNew
        BY <1>3 DEF Decoding, Busy
      <4>3. MaxNew \in Nat /\ BlockSize \in Nat /\ MaxCtx \in Nat
        BY EngineAssumption
      <4> QED
        BY <1>6, <1>7, <4>1, <4>2, <4>3
    <3>6. Holds(Written(s, pos), All', pos + (a + 1))
      <4>1. Holds(arena, All', pos)
        BY <1>6, <1>7, HoldsLess
      <4>2. arena \in Arena /\ pos \in Nat
        BY <1>1 DEF TypeOK, Arena
      <4>3. \A k \in 1 .. a + 1 : All'[pos + k] = s[k]
        BY <1>6, <1>7, <3>3, <3>4
      <4>4. /\ a + 1 \in Nat /\ a + 1 <= Len(s) /\ pos + Len(s) <= MaxCtx
            /\ pos + (a + 1) <= Len(All')
        BY <1>6, <1>7, <3>3, <3>5, EngineAssumption
      <4> QED
        BY <1>6, <3>3, <4>1, <4>2, <4>3, <4>4, HoldsMore
    <3>7. Holds(arena', All', pos')
      BY <3>1, <3>2, <3>3, <3>6 DEF s
    <3> QED
      BY <1>2, <1>6, <1>7, <3>2, <3>3, <3>7 DEF Placed
  <2> QED
    BY <2>1, <2>2
<1>9. pending' # <<>>
  BY <1>8, EmptySeq
<1>10. Decoding'
  BY <1>2, <1>3, <1>8, <1>9 DEF Decoding, Recorded
<1>11. Busy'
  BY <1>2, <1>3 DEF Busy, Admitted
<1>12. NumSlots = 0 => kvTokens = <<>>
  BY DEF KvInv
<1> QED
  BY <1>1, <1>2, <1>3, <1>10, <1>11, <1>12 DEF KvInv

(* A token that plain decode goes on with is fed to the model; after a     *)
(* stop token the loop ends, so a speculative round's is never the last.   *)
LEMMA KvEmit == KvInv /\ Emit => KvInv'
<1> SUFFICES ASSUME KvInv, Emit
             PROVE  KvInv'
  OBVIOUS
<1>1. TypeOK /\ TypeOK'
  BY EmitTyped DEF KvInv
<1> DEFINE t == Head(pending)
<1>2. /\ phase = "decode" /\ pending # <<>>
      /\ pending' = Tail(pending) /\ emitted' = Append(emitted, t)
      /\ UNCHANGED <<kvTokens, ids, maxNew, specOn>>
      /\ \/ phase' = "finish" /\ UNCHANGED <<deviceVars, pos>>
         \/ /\ t \notin StopToken /\ Len(emitted') < maxNew /\ phase' = "decode"
            /\ IF specOn THEN UNCHANGED <<deviceVars, pos>> ELSE Forward(<<t>>)
  BY DEF Emit, cacheVars, requestVars
<1>3. Busy /\ Decoding
  BY <1>2 DEF KvInv
<1>4. /\ ids \in Seq(Token) /\ emitted \in Seq(Token) /\ pending \in Seq(Token)
      /\ arena \in Arena /\ pos \in Nat /\ t \in Token
  BY <1>1, <1>2, HeadTailProperties DEF TypeOK, Arena
<1>5. All' = All
  BY <1>2, <1>4, Popped DEF All
<1>6. /\ All \in Seq(Token) /\ Len(All) = Len(ids) + Len(emitted) + Len(pending)
      /\ \A k \in 1 .. Len(pending) : All[Len(ids) + Len(emitted) + k] = pending[k]
      /\ Len(All) \in Nat /\ Len(ids) \in Nat /\ Len(emitted) \in Nat
  BY <1>4, Joined, LenProperties DEF All
<1>7. /\ Len(pending) \in Nat \ {0} /\ Len(pending') = Len(pending) - 1 /\ t = pending[1]
      /\ Len(pending) = 1 => pending' = <<>>
  <2>1. Len(pending) \in Nat \ {0} /\ Len(pending') = Len(pending) - 1 /\ t = pending[1]
    BY <1>2, <1>4, HeadTailProperties, EmptySeq
  <2>2. pending' # <<>> => Len(pending') # 0
    BY <1>1, EmptySeq DEF TypeOK
  <2> QED
    BY <2>1, <2>2
<1>8. Recorded' /\ Busy'
  BY <1>2, <1>3 DEF Decoding, Recorded, Busy, Admitted
<1>9. Len(ids) <= pos /\ pos <= Len(All) /\ Holds(arena, All, pos)
  BY <1>3, <1>6 DEF Decoding, Placed
<1>10. specOn => HasDraft
  BY DEF KvInv
<1>11. NumSlots = 0 => kvTokens = <<>>
  BY DEF KvInv
<1> HIDE DEF t
<1>12. CASE phase' = "finish" /\ UNCHANGED <<deviceVars, pos>>
  <2>1. Finishing'
    BY <1>2, <1>5, <1>8, <1>9, <1>12 DEF Finishing, deviceVars
  <2> QED
    BY <1>1, <1>2, <1>8, <1>10, <1>11, <1>12, <2>1 DEF KvInv
<1>13. CASE /\ specOn /\ t \notin StopToken /\ Len(emitted') < maxNew /\ phase' = "decode"
            /\ UNCHANGED <<deviceVars, pos>>
  <2>1. pos = Len(All)
    BY <1>3, <1>7, <1>13 DEF Decoding, Placed
  <2>2. Placed' /\ pos' = Len(All')
    BY <1>2, <1>5, <1>9, <1>13, <2>1 DEF Placed
  <2>3. Decoding'
    BY <1>2, <1>5, <1>8, <1>9, <1>13, <2>2 DEF Decoding, deviceVars
  <2> QED
    BY <1>1, <1>2, <1>8, <1>10, <1>11, <1>13, <2>3 DEF KvInv
<1>14. CASE /\ ~specOn /\ Len(emitted') < maxNew /\ phase' = "decode"
            /\ Forward(<<t>>)
  <2>1. Len(pending) = 1 /\ pos = Len(All) - 1 /\ pending' = <<>>
    BY <1>2, <1>3, <1>7, <1>14 DEF Decoding
  <2>0. /\ pos = Len(ids) + Len(emitted) /\ Len(All) = pos + 1
        /\ pos \in Nat /\ Len(ids) \in Nat /\ Len(emitted) \in Nat
    <3>1. /\ Len(All) = Len(ids) + Len(emitted) + Len(pending)
          /\ Len(ids) \in Nat /\ Len(emitted) \in Nat
      BY <1>6
    <3> QED
      BY <2>1, <3>1
  <2> DEFINE s == <<t>>
  <2>2. s \in Seq(Token) /\ Len(s) = 1 /\ s[1] = t
    BY <1>4
  <2>3. arena' = Written(s, pos) /\ pos' = pos + Len(s)
    BY <1>14 DEF Forward
  <2> HIDE DEF s
  <2>4. \A k \in 1 .. 1 : All[pos + k] = s[k]
    <3>1. All[Len(ids) + Len(emitted) + 1] = pending[1]
      <4>1. 1 \in 1 .. Len(pending)
        BY <2>1
      <4> QED
        BY <1>6, <4>1, Zenon
    <3>2. pos + 1 = Len(ids) + Len(emitted) + 1
      BY <2>0
    <3>3. All[pos + 1] = s[1]
      BY <1>7, <2>2, <3>1, <3>2, Zenon
    <3> QED
      BY <3>3
  <2>5. pos + Len(s) <= MaxCtx
    <3>1. Len(emitted) < maxNew /\ maxNew <= MaxCtx - Len(ids) - 1
      BY <1>3 DEF Decoding, Busy, Admitted
    <3>2. maxNew \in Nat /\ MaxCtx \in Nat
      BY <1>1, EngineAssumption DEF TypeOK
    <3> QED
      BY <2>0, <2>2, <3>1, <3>2
  <2>6. Holds(Written(s, pos), All, pos + 1)
    <3>1. 1 <= Len(s) /\ pos + 1 <= Len(All) /\ 1 \in Nat
      BY <2>0, <2>2
    <3>2. All \in Seq(Token) /\ s \in Seq(Token)
      BY <1>6, <2>2
    <3> QED
      BY <1>4, <1>9, <2>4, <2>5, <3>1, <3>2, HoldsMore
  <2>7. Holds(arena', All', pos') /\ pos' = Len(All')
    <3>1. pos' = pos + 1 /\ pos' = Len(All)
      BY <2>0, <2>2, <2>3
    <3> QED
      BY <1>5, <2>3, <2>6, <3>1
  <2>8. Placed'
    BY <1>2, <1>5, <1>9, <2>1, <2>7 DEF Placed
  <2>9. Decoding'
    BY <1>2, <1>8, <1>14, <2>1, <2>7, <2>8 DEF Decoding
  <2> QED
    BY <1>1, <1>2, <1>8, <1>10, <1>11, <1>14, <2>9 DEF KvInv
<1> QED
  BY <1>2, <1>12, <1>13, <1>14

LEMMA KvFinish == KvInv /\ Finish => KvInv'
<1> SUFFICES ASSUME KvInv, Finish
             PROVE  KvInv'
  OBVIOUS
<1>1. TypeOK /\ TypeOK'
  BY FinishTyped DEF KvInv
<1> DEFINE seen == ids \o emitted
<1>2. /\ phase = "finish" /\ phase' = "idle"
      /\ kvTokens' = IF NumSlots > 0 /\ Covered > Len(ids)
                     THEN SubSeq(seen, 1, Covered) ELSE kvTokens
      /\ UNCHANGED <<arena, specOn>>
  BY DEF Finish, cacheVars, deviceVars, loopVars
<1>3. Busy /\ Finishing /\ (specOn => HasDraft) /\ (NumSlots = 0 => kvTokens = <<>>)
  BY <1>2 DEF KvInv
<1>4. /\ ids \in Seq(Token) /\ emitted \in Seq(Token) /\ pending \in Seq(Token) /\ pos \in Nat
  BY <1>1 DEF TypeOK
<1>5. /\ All \in Seq(Token) /\ Len(All) \in Nat /\ Len(ids) \in Nat
      /\ seen \in Seq(Token) /\ Len(seen) \in Nat /\ Len(ids) <= Len(seen)
      /\ \A k \in 1 .. Len(seen) : All[k] = seen[k]
      /\ \A k \in 1 .. Len(ids) : All[k] = ids[k]
  BY <1>4, Joined, LenProperties DEF All
<1>6. Len(ids) <= pos /\ Holds(arena, All, pos)
  BY <1>3 DEF Finishing
<1>7. Covered \in Nat /\ Covered <= pos /\ Covered <= Len(seen)
  BY <1>4, <1>5 DEF Covered
<1> HIDE DEF seen
<1>8. CASE NumSlots > 0 /\ Covered > Len(ids)
  <2> DEFINE r == SubSeq(seen, 1, Covered)
  <2>1. /\ r \in Seq(Token) /\ Len(r) = Covered
        /\ \A k \in 1 .. Covered : r[k] = seen[k]
    <3>1. \A k \in 1 .. Covered : seen[k] \in Token
      BY <1>5, <1>7, ElementOfSeq
    <3>2. /\ r \in Seq(Token)
          /\ Len(r) = IF 1 <= Covered THEN Covered - 1 + 1 ELSE 0
          /\ \A k \in 1 .. Covered - 1 + 1 : r[k] = seen[1 + k - 1]
      BY <1>7, <3>1, SubSeqProperties
    <3> HIDE DEF r
    <3>3. \A k \in 1 .. Covered : 1 + k - 1 = k
      BY <1>7
    <3> QED
      BY <1>7, <3>2, <3>3
  <2> HIDE DEF r
  <2>2. ASSUME NEW k \in 1 .. Covered
        PROVE  All[k] = r[k]
    <3>1. k \in 1 .. Len(seen)
      BY <1>5, <1>7
    <3>2. All[k] = seen[k]
      BY <1>5, <3>1
    <3> QED
      BY <2>1, <3>2
  <2>3. Holds(arena, r, Covered)
    <3>1. All \in Seq(Token) /\ Holds(arena, All, pos) /\ pos \in Nat /\ Covered \in Nat
      BY <1>4, <1>5, <1>6, <1>7
    <3>2. r \in Seq(Token) /\ Covered <= Len(r) /\ Covered <= pos
      BY <1>7, <2>1
    <3> QED
      BY <2>2, <3>1, <3>2, HoldsLess
  <2>4. kvTokens' = r
    BY <1>2, <1>8 DEF r
  <2>5. ~(NumSlots = 0)
    BY <1>8
  <2> QED
    BY <1>1, <1>2, <1>3, <2>1, <2>3, <2>4, <2>5 DEF KvInv
<1>9. CASE ~(NumSlots > 0 /\ Covered > Len(ids))
  <2>1. kvTokens' = kvTokens /\ (kvTokens = <<>> \/ kvTokens = ids)
    BY <1>2, <1>3, <1>9 DEF Finishing, Recorded
  <2>2. Holds(arena, kvTokens, Len(kvTokens))
    <3>1. CASE kvTokens = <<>>
      <4>1. Len(kvTokens) = 0
        BY <3>1, EmptySeq
      <4> QED
        BY <3>1, <4>1, EngineAssumption DEF Holds
    <3>2. CASE kvTokens = ids
      <4>1. /\ All \in Seq(Token) /\ Holds(arena, All, pos) /\ pos \in Nat
            /\ Len(ids) \in Nat /\ Len(ids) <= pos /\ ids \in Seq(Token)
            /\ Len(ids) <= Len(ids) /\ \A k \in 1 .. Len(ids) : All[k] = ids[k]
        BY <1>4, <1>5, <1>6
      <4>2. Holds(arena, ids, Len(ids))
        BY <4>1, HoldsLess
      <4> QED
        BY <3>2, <4>2
    <3> QED
      BY <2>1, <3>1, <3>2
  <2> QED
    BY <1>1, <1>2, <1>3, <2>1, <2>2 DEF KvInv
<1> QED
  BY <1>8, <1>9

LEMMA KvStep ==
  ASSUME Headroom
  PROVE  KvInv /\ [Next]_vars => KvInv'
<1> SUFFICES ASSUME KvInv, [Next]_vars
             PROVE  KvInv'
  OBVIOUS
<1>1. CASE UNCHANGED vars
  <2>1. TypeOK'
    BY <1>1 DEF vars, cacheVars, deviceVars, requestVars, loopVars, TypeOK, CacheTypeOK, KvInv
  <2> QED
    BY <1>1, <2>1 DEF vars, cacheVars, deviceVars, requestVars, loopVars, KvInv, Busy, Admitted,
       Prefilling, Decoding, Finishing, Recorded, Placed, All
<1> QED
  BY <1>1, KvStart, KvChunk, KvEndPrefill, KvRoute, KvSample, KvRound, KvEmit, KvFinish
     DEF Next

(* What the cache says of the arena is so outside of prefill, for every    *)
(* oracle, every vocabulary, every set of prompts and all sizes, if the    *)
(* drafter's block fits behind the longest answer (or there is none).      *)
THEOREM KvAlwaysTruthful == ASSUME Headroom PROVE Spec => []KvTruthful
<1>1. KvInv => KvTruthful
  <2> SUFFICES ASSUME KvInv, phase # "prefill"
               PROVE  Holds(arena, kvTokens, Len(kvTokens))
    <3>1. Len(kvTokens) \in Nat
      BY LenProperties DEF KvInv, TypeOK, CacheTypeOK
    <3> QED
      BY <3>1, EngineAssumption DEF Holds, KvTruthful
  <2>1. CASE phase = "idle"
    BY <2>1 DEF KvInv
  <2>2. CASE phase \in {"decode", "finish"}
    <3>1. Recorded /\ Len(ids) <= pos /\ Holds(arena, All, pos)
      BY <2>2 DEF KvInv, Decoding, Placed, Finishing
    <3>2. /\ ids \in Seq(Token) /\ emitted \in Seq(Token) /\ pending \in Seq(Token)
          /\ pos \in Nat
      BY DEF KvInv, TypeOK
    <3>3. /\ All \in Seq(Token) /\ Len(ids) \in Nat
          /\ \A k \in 1 .. Len(ids) : All[k] = ids[k]
      BY <3>2, Joined DEF All
    <3>4. CASE NumSlots = 0
      <4>1. kvTokens = <<>> /\ Len(kvTokens) = 0
        BY <3>1, <3>4, EmptySeq DEF Recorded
      <4> QED
        BY <4>1, EngineAssumption DEF Holds
    <3>5. CASE NumSlots # 0
      <4>1. kvTokens = ids
        BY <3>1, <3>5 DEF Recorded
      <4> QED
        BY <3>1, <3>2, <3>3, <4>1, HoldsLess
    <3> QED
      BY <3>4, <3>5
  <2> QED
    BY <2>1, <2>2 DEF KvInv, TypeOK
<1> QED
  BY KvInit, KvStep, <1>1, PTL DEF Spec

-----------------------------------------------------------------------------
(***************************************************************************)
(* The answer to a request of temperature 0 is the model's own, whatever   *)
(* was cached, chunked and drafted, up to the two disagreements on record: *)
(* the context leaves room for a block behind the longest answer           *)
(* (Headroom), and no block has been cut and filed yet (CutClean). A       *)
(* theorem that assumes []CutClean speaks of every behaviour up to the     *)
(* first such cut, for what happened before it may stutter from there on.  *)
(***************************************************************************)

(* No request without a prompt: the chat template never makes an empty one, *)
(* but /v1/completions admits it and would decode the logits left over from *)
(* the request before (server.cpp:873-875 and 313).                         *)
Regular ==
  /\ Headroom
  /\ <<>> \notin Prompts

(* A speculative request that leaves a snapshot ends between two blocks.   *)
(* Not so in general: server.cpp:507 files what is left of a block under   *)
(* the tokens emitted from it.                                             *)
CutClean == phase = "finish" /\ specOn /\ NumSlots > 0 => pending = <<>>

Upto(s, n) == SubSeq(s, 1, n)

(* Every token behind the prompt is the model's own after all before it.   *)
Chosen ==
  exact => \A k \in Len(ids) + 1 .. Len(All) : All[k] = Argmax(Upto(All, k - 1))

Primed ==
  /\ gdn = Upto(ids, pos)
  /\ pos > 0 => logits = gdn

Stepped ==
  /\ gdn = Upto(All, pos)
  /\ logits = gdn

TokenInv ==
  /\ SlotSound
  /\ Chosen
  /\ phase = "prefill" => Primed
  /\ phase \in {"decode", "finish"} => Stepped
  /\ phase = "decode" => \A k \in 1 .. Len(emitted) : emitted[k] \notin StopToken
  /\ phase = "finish" => emitted # <<>>
  /\ (phase = "finish" /\ ~ specOn) => pos <= Len(ids) + Len(emitted)

-----------------------------------------------------------------------------
LEMMA UptoIs ==
  ASSUME NEW s \in Seq(Token), NEW n \in Nat, n <= Len(s)
  PROVE  /\ Upto(s, n) \in Seq(Token)
         /\ Len(Upto(s, n)) = n
         /\ \A k \in 1 .. n : Upto(s, n)[k] = s[k]
<1>1. Len(s) \in Nat
  BY LenProperties
<1>2. \A k \in 1 .. n : s[k] \in Token
  BY <1>1, ElementOfSeq
<1>3. /\ SubSeq(s, 1, n) \in Seq(Token)
      /\ Len(SubSeq(s, 1, n)) = IF 1 <= n THEN n - 1 + 1 ELSE 0
      /\ \A k \in 1 .. n - 1 + 1 : SubSeq(s, 1, n)[k] = s[1 + k - 1]
  BY <1>1, <1>2, SubSeqProperties
<1> DEFINE u == SubSeq(s, 1, n)
<1> HIDE DEF u
<1>4. \A k \in 1 .. n : 1 + k - 1 = k
  OBVIOUS
<1>5. u \in Seq(Token) /\ Len(u) = n /\ \A k \in 1 .. n : u[k] = s[k]
  BY <1>3, <1>4 DEF u
<1> QED
  BY <1>5 DEF u, Upto

LEMMA UptoSame ==
  ASSUME NEW a \in Seq(Token), NEW b \in Seq(Token), NEW n \in Nat,
         n <= Len(a), n <= Len(b), \A k \in 1 .. n : a[k] = b[k]
  PROVE  Upto(a, n) = Upto(b, n)
<1>1. Upto(a, n) \in Seq(Token) /\ Upto(b, n) \in Seq(Token)
      /\ Len(Upto(a, n)) = n /\ Len(Upto(b, n)) = n
      /\ \A k \in 1 .. n : Upto(a, n)[k] = Upto(b, n)[k]
  BY UptoIs
<1> QED
  BY <1>1, SeqEqual

LEMMA UptoAll ==
  ASSUME NEW s \in Seq(Token)
  PROVE  Upto(s, Len(s)) = s
<1>1. Len(s) \in Nat
  BY LenProperties
<1>2. Upto(s, Len(s)) \in Seq(Token) /\ Len(Upto(s, Len(s))) = Len(s)
      /\ \A k \in 1 .. Len(s) : Upto(s, Len(s))[k] = s[k]
  BY <1>1, UptoIs
<1> QED
  BY <1>2, SeqEqual

LEMMA UptoMore ==
  ASSUME NEW a \in Seq(Token), NEW t \in Seq(Token), NEW p \in Nat,
         p + Len(t) <= Len(a), \A k \in 1 .. Len(t) : a[p + k] = t[k]
  PROVE  Upto(a, p) \o t = Upto(a, p + Len(t))
<1>1. Len(a) \in Nat /\ Len(t) \in Nat /\ p + Len(t) \in Nat /\ p <= Len(a)
  BY LenProperties
<1> DEFINE u == Upto(a, p)
<1> DEFINE v == Upto(a, p + Len(t))
<1>2. u \in Seq(Token) /\ Len(u) = p /\ \A k \in 1 .. p : u[k] = a[k]
  BY <1>1, UptoIs
<1>3. v \in Seq(Token) /\ Len(v) = p + Len(t) /\ \A k \in 1 .. p + Len(t) : v[k] = a[k]
  BY <1>1, UptoIs
<1> HIDE DEF u, v
<1>4. /\ u \o t \in Seq(Token) /\ Len(u \o t) = p + Len(t)
      /\ \A k \in 1 .. p + Len(t) : (u \o t)[k] = IF k <= p THEN u[k] ELSE t[k - p]
  <2>1. /\ u \o t \in Seq(Token) /\ Len(u \o t) = Len(u) + Len(t)
        /\ \A k \in 1 .. Len(u) + Len(t) :
             (u \o t)[k] = IF k <= Len(u) THEN u[k] ELSE t[k - Len(u)]
    BY <1>2, ConcatProperties
  <2> QED
    BY <1>2, <2>1, Zenon
<1>5. ASSUME NEW k \in 1 .. p + Len(t)
      PROVE  (u \o t)[k] = v[k]
  <2>1. CASE k <= p
    <3>1. k \in 1 .. p
      BY <1>1, <2>1
    <3>2. u[k] = a[k] /\ v[k] = a[k] /\ (u \o t)[k] = u[k]
      BY <1>2, <1>3, <1>4, <2>1, <3>1
    <3> QED
      BY <3>2
  <2>2. CASE ~ (k <= p)
    <3>1. k - p \in 1 .. Len(t) /\ p + (k - p) = k
      BY <1>1, <2>2
    <3>2. t[k - p] = a[k]
      BY <3>1
    <3> QED
      BY <1>3, <1>4, <2>2, <3>2
  <2> QED
    BY <2>1, <2>2
<1>6. u \o t = v
  BY <1>3, <1>4, <1>5, SeqEqual
<1> QED
  BY <1>6 DEF u, v

(* The next n tokens of a sequence, for a chunk of prefill.                *)
LEMMA ChunkIs ==
  ASSUME NEW a \in Seq(Token), NEW p \in Nat, NEW n \in Nat, n > 0, p + n <= Len(a)
  PROVE  /\ SubSeq(a, p + 1, p + n) \in Seq(Token)
         /\ Len(SubSeq(a, p + 1, p + n)) = n
         /\ \A k \in 1 .. n : a[p + k] = SubSeq(a, p + 1, p + n)[k]
<1> DEFINE s == SubSeq(a, p + 1, p + n)
<1>1. Len(a) \in Nat
  BY LenProperties
<1>2. \A k \in p + 1 .. p + n : a[k] \in Token
  BY <1>1, ElementOfSeq
<1>3. /\ s \in Seq(Token)
      /\ Len(s) = IF p + 1 <= p + n THEN p + n - (p + 1) + 1 ELSE 0
      /\ \A k \in 1 .. p + n - (p + 1) + 1 : s[k] = a[p + 1 + k - 1]
  BY <1>1, <1>2, SubSeqProperties
<1> HIDE DEF s
<1>4. p + n - (p + 1) + 1 = n /\ p + 1 <= p + n
  OBVIOUS
<1>5. \A k \in 1 .. n : p + 1 + k - 1 = p + k
  OBVIOUS
<1>6. s \in Seq(Token) /\ Len(s) = n /\ \A k \in 1 .. n : a[p + k] = s[k]
  BY <1>3, <1>4, <1>5
<1> QED
  BY <1>6 DEF s

(* A forward pass over rows and a state that belong together is not        *)
(* garbled.                                                                *)
LEMMA Faithful ==
  ASSUME NEW a \in Seq(Token), NEW n \in Nat, NEW kv, Holds(kv, a, n)
  PROVE  Distribution(Upto(a, n), kv, n) = Upto(a, n)
<1>1. MaxCtx \in Nat /\ n <= Len(a)
  BY EngineAssumption DEF Holds
<1>2. Len(Upto(a, n)) = n /\ \A k \in 1 .. n : Upto(a, n)[k] = a[k]
  BY <1>1, UptoIs
<1>3. ASSUME NEW l \in Layers, NEW q \in 1 .. MaxCtx, q <= n
      PROVE  kv[l][q] = <<l, Upto(a, n)[q]>>
  <2>1. q \in 1 .. n
    BY <1>1, <1>3
  <2> QED
    BY <1>2, <2>1 DEF Holds
<1> QED
  BY <1>2, <1>3 DEF Distribution

(* The second of three.                                                    *)
LEMMA Middle ==
  ASSUME NEW a \in Seq(Token), NEW b \in Seq(Token), NEW c \in Seq(Token)
  PROVE  \A k \in 1 .. Len(b) : (a \o (b \o c))[Len(a) + k] = b[k]
<1>1. Len(a) \in Nat /\ Len(b) \in Nat
  BY LenProperties
<1> SUFFICES ASSUME NEW k \in 1 .. Len(b)
             PROVE  (a \o (b \o c))[Len(a) + k] = b[k]
  OBVIOUS
<1>2. Len(a) + k \in 1 .. Len(a) + Len(b) /\ ~ (Len(a) + k <= Len(a)) /\ Len(a) + k - Len(a) = k
  BY <1>1
<1>3. (a \o (b \o c))[Len(a) + k] = (a \o b)[Len(a) + k]
  BY <1>2, Joined
<1>4. (a \o b)[Len(a) + k] = b[k]
  <2>1. \A j \in 1 .. Len(a) + Len(b) : (a \o b)[j] = IF j <= Len(a) THEN a[j] ELSE b[j - Len(a)]
    BY ConcatProperties
  <2> QED
    BY <1>2, <2>1
<1> QED
  BY <1>3, <1>4

(* All before and after tokens were committed to an empty deque.           *)
LEMMA Grown ==
  ASSUME ids \in Seq(Token), emitted \in Seq(Token), pending = <<>>,
         pending' \in Seq(Token), ids' = ids, emitted' = emitted
  PROVE  /\ All \in Seq(Token) /\ Len(All) = Len(ids) + Len(emitted) /\ Len(All) \in Nat
         /\ All' \in Seq(Token) /\ Len(All') = Len(All) + Len(pending') /\ Len(pending') \in Nat
         /\ \A k \in 1 .. Len(All) : All[k] = All'[k]
         /\ \A k \in 1 .. Len(pending') : All'[Len(All) + k] = pending'[k]
         /\ Len(ids) \in Nat /\ Len(emitted) \in Nat
<1>1. All' = ids \o (emitted \o pending')
  BY DEF All
<1>2. pending \in Seq(Token) /\ Len(pending) = 0
  BY EmptySeq
<1> QED
  BY <1>1, <1>2, Joined DEF All

(* Nothing before the committed tokens moves, so what was chosen stays so. *)
LEMMA StillChosen ==
  ASSUME All \in Seq(Token), All' \in Seq(Token), Len(ids) \in Nat, ids' = ids,
         exact' = exact, Chosen,
         Len(All) <= Len(All'), \A k \in 1 .. Len(All) : All[k] = All'[k],
         exact => \A k \in Len(All) + 1 .. Len(All') : All'[k] = Argmax(Upto(All', k - 1))
  PROVE  Chosen'
<1>1. Len(All) \in Nat /\ Len(All') \in Nat
  BY LenProperties
<1> SUFFICES ASSUME exact, NEW k \in Len(ids) + 1 .. Len(All')
             PROVE  All'[k] = Argmax(Upto(All', k - 1))
  BY DEF Chosen
<1>2. CASE k <= Len(All)
  <2>1. /\ k \in Len(ids) + 1 .. Len(All) /\ k \in 1 .. Len(All)
        /\ k - 1 \in Nat /\ k - 1 <= Len(All) /\ k - 1 <= Len(All')
        /\ \A j \in 1 .. k - 1 : j \in 1 .. Len(All)
    BY <1>1, <1>2
  <2>2. Upto(All, k - 1) = Upto(All', k - 1)
    BY <2>1, UptoSame
  <2> QED
    BY <2>1, <2>2 DEF Chosen
<1>3. CASE ~ (k <= Len(All))
  BY <1>1, <1>3
<1> QED
  BY <1>2, <1>3

(* prefix_store keeps the snapshots sound if what it is given belongs      *)
(* together.                                                               *)
LEMMA StoreSound ==
  ASSUME CacheTypeOK, SlotSound, NEW tokens, NEW n, NEW st, NEW lg,
         st = SubSeq(tokens, 1, n), lg = st, Store(tokens, n, st, lg)
  PROVE  SlotSound'
<1>1. CASE UNCHANGED slots
  BY <1>1 DEF SlotSound
<1>2. CASE ~ UNCHANGED slots
  <2>1. PICK i \in SlotIds :
          slots' = [slots EXCEPT ![i] =
                      [valid |-> TRUE, tokens |-> SubSeq(tokens, 1, n),
                       state |-> st, logits |-> lg, stamp |-> clock + 1]]
    BY <1>2 DEF Store
  <2>2. slots \in [SlotIds -> Slot]
    BY DEF CacheTypeOK
  <2> SUFFICES ASSUME NEW j \in SlotIds, slots'[j].valid
               PROVE  /\ slots'[j].state = slots'[j].tokens
                      /\ slots'[j].logits = slots'[j].tokens
    BY DEF SlotSound, SlotIds
  <2>3. CASE j = i
    BY <2>1, <2>2, <2>3
  <2>4. CASE j # i
    BY <2>1, <2>2, <2>4 DEF SlotSound
  <2> QED
    BY <2>3, <2>4
<1> QED
  BY <1>1, <1>2

(* prefix_restore changes nothing but the stamp.                           *)
LEMMA TouchSound ==
  ASSUME CacheTypeOK, SlotSound, NEW i \in SlotIds, Touch(i)
  PROVE  SlotSound'
<1>1. slots' = [slots EXCEPT ![i] = [@ EXCEPT !.stamp = clock + 1]]
  BY DEF Touch
<1>2. ASSUME NEW j \in SlotIds
      PROVE  /\ slots'[j].valid = slots[j].valid /\ slots'[j].tokens = slots[j].tokens
             /\ slots'[j].state = slots[j].state /\ slots'[j].logits = slots[j].logits
  BY <1>1 DEF CacheTypeOK, Slot
<1> QED
  BY <1>2 DEF SlotSound, SlotIds

-----------------------------------------------------------------------------
LEMMA TokenInit == Init => TokenInv
<1> SUFFICES ASSUME Init
             PROVE  TokenInv
  OBVIOUS
<1>1. phase = "idle" /\ All = <<>> \o (<<>> \o <<>>) /\ ids = <<>>
  BY DEF Init, All
<1>2. <<>> \in Seq(Token) /\ Len(<<>>) = 0 /\ <<>> \o <<>> = <<>>
  BY EmptySeq, ConcatEmptySeq
<1>3. All = <<>>
  BY <1>1, <1>2, Zenon
<1>4. Chosen
  BY <1>1, <1>2, <1>3 DEF Chosen
<1>5. \A i \in SlotIds : slots[i].valid = FALSE
  BY DEF Init, CacheInit, EmptySlot
<1> QED
  BY <1>1, <1>4, <1>5 DEF TokenInv, SlotSound

(* A snapshot that is resumed has absorbed a prefix of the prompt.         *)
LEMMA TokenStart == KvInv /\ KvInv' /\ TokenInv /\ Start => TokenInv'
<1> SUFFICES ASSUME KvInv, KvInv', TokenInv, Start
             PROVE  TokenInv'
  OBVIOUS
<1>1. TypeOK /\ TypeOK' /\ CacheTypeOK /\ SlotSound
  BY DEF KvInv, TypeOK, TokenInv
<1>2. /\ phase' = "prefill" /\ emitted' = <<>> /\ pending' = <<>> /\ pos' = reuse'
      /\ ids' \in Seq(Token)
  BY <1>1 DEF Start, TypeOK
<1>3. \/ /\ reuse' = 0 /\ gdn' = <<>> /\ UNCHANGED slots
      \/ \E i \in SlotIds :
           /\ IsBest(i, ids')
           /\ reuse' = Len(slots[i].tokens)
           /\ gdn' = slots[i].state
           /\ logits' = slots[i].logits
           /\ Touch(i)
  BY DEF Start
<1>4. Primed' /\ SlotSound'
  <2>1. CASE reuse' = 0 /\ gdn' = <<>> /\ UNCHANGED slots
    <3>1. Upto(ids', 0) = <<>>
      <4>1. Upto(ids', 0) \in Seq(Token) /\ Len(Upto(ids', 0)) = 0
        BY <1>2, UptoIs, LenProperties
      <4> QED
        BY <4>1, EmptySeq
    <3>2. SlotSound'
      BY <1>1, <2>1 DEF SlotSound
    <3> QED
      BY <1>2, <2>1, <3>1, <3>2 DEF Primed
  <2>2. CASE \E i \in SlotIds :
               /\ IsBest(i, ids')
               /\ reuse' = Len(slots[i].tokens)
               /\ gdn' = slots[i].state
               /\ logits' = slots[i].logits
               /\ Touch(i)
    <3>1. PICK i \in SlotIds :
            /\ IsBest(i, ids')
            /\ reuse' = Len(slots[i].tokens)
            /\ gdn' = slots[i].state
            /\ logits' = slots[i].logits
            /\ Touch(i)
      BY <2>2
    <3> DEFINE s == slots[i].tokens
    <3>2. /\ slots[i].valid /\ Agree(s, ids', Len(s)) /\ s \in Seq(Token)
      BY <1>1, <3>1, SlotFields DEF IsBest, Resumable, CacheTypeOK
    <3>3. gdn' = s /\ logits' = s
      BY <1>1, <3>1, <3>2 DEF SlotSound
    <3> HIDE DEF s
    <3>4. /\ Len(s) \in Nat /\ Len(s) <= Len(s) /\ Len(s) <= Len(ids')
          /\ \A k \in 1 .. Len(s) : s[k] = ids'[k]
      BY <3>2, LenProperties DEF Agree
    <3>5. Upto(ids', Len(s)) = s
      BY <1>2, <3>2, <3>4, UptoSame, UptoAll
    <3>6. Primed'
      BY <1>2, <3>1, <3>3, <3>5 DEF Primed, s
    <3> QED
      BY <1>1, <3>1, <3>6, TouchSound
  <2> QED
    BY <1>3, <2>1, <2>2
<1>5. All' = ids'
  <2>1. <<>> \o <<>> = <<>> /\ ids' \o <<>> = ids'
    BY <1>2, ConcatEmptySeq, EmptySeq
  <2>2. All' = ids' \o (emitted' \o pending')
    BY DEF All
  <2> QED
    BY <1>2, <2>1, <2>2, Zenon
<1>6. Chosen'
  <2>1. Len(ids') \in Nat
    BY <1>2, LenProperties
  <2> QED
    BY <1>5, <2>1 DEF Chosen
<1> QED
  BY <1>2, <1>4, <1>6 DEF TokenInv

LEMMA TokenChunk == KvInv /\ KvInv' /\ TokenInv /\ PrefillChunk => TokenInv'
<1> SUFFICES ASSUME KvInv, KvInv', TokenInv, PrefillChunk
             PROVE  TokenInv'
  OBVIOUS
<1>1. PICK n \in 1 .. Chunk :
        /\ pos + n <= Len(ids)
        /\ Forward(SubSeq(ids, pos + 1, pos + n))
  BY DEF PrefillChunk
<1>2. /\ phase = "prefill" /\ phase' = "prefill"
      /\ UNCHANGED <<slots, ids, emitted, pending, exact>>
  BY DEF PrefillChunk, requestVars, cacheVars
<1>3. /\ ids \in Seq(Token) /\ pos \in Nat /\ n \in Nat /\ Len(ids) \in Nat
      /\ Primed /\ Holds(arena', ids', pos')
  BY <1>2, EngineAssumption, LenProperties DEF KvInv, TypeOK, Prefilling, TokenInv
<1> DEFINE s == SubSeq(ids, pos + 1, pos + n)
<1>4. s \in Seq(Token) /\ Len(s) = n /\ \A k \in 1 .. n : ids[pos + k] = s[k]
  BY <1>1, <1>3, ChunkIs
<1>5. gdn' = gdn \o s /\ pos' = pos + Len(s) /\ logits' = Distribution(gdn', arena', pos')
  BY <1>1 DEF Forward
<1> HIDE DEF s
<1>6. pos + Len(s) <= Len(ids) /\ pos' \in Nat
  BY <1>1, <1>3, <1>4, <1>5
<1>7. gdn' = Upto(ids, pos')
  BY <1>3, <1>4, <1>5, <1>6, UptoMore DEF Primed
<1>8. logits' = gdn'
  BY <1>2, <1>3, <1>5, <1>6, <1>7, Faithful
<1>9. Primed'
  BY <1>2, <1>7, <1>8 DEF Primed
<1>10. Chosen' /\ SlotSound'
  BY <1>2 DEF TokenInv, Chosen, All, SlotSound
<1> QED
  BY <1>2, <1>9, <1>10 DEF TokenInv

LEMMA TokenEndPrefill ==
  ASSUME <<>> \notin Prompts
  PROVE  KvInv /\ TokenInv /\ EndPrefill => TokenInv'
<1> SUFFICES ASSUME KvInv, TokenInv, EndPrefill
             PROVE  TokenInv'
  OBVIOUS
<1>1. /\ phase = "prefill" /\ phase' = "decode" /\ pos = Len(ids)
      /\ UNCHANGED <<gdn, logits, ids, exact, pending, emitted, pos>>
      /\ Store(ids, Len(ids), gdn, logits)
  BY DEF EndPrefill, deviceVars, requestVars, loopVars
<1>2. /\ ids \in Seq(Token) /\ ids \in Prompts /\ CacheTypeOK
      /\ emitted = <<>> /\ pending = <<>> /\ Primed /\ SlotSound /\ Chosen
  BY <1>1 DEF KvInv, TypeOK, Busy, Prefilling, TokenInv
<1>3. Len(ids) \in Nat /\ Len(ids) > 0
  BY <1>2, EmptySeq, LenProperties
<1>4. gdn = ids /\ logits = gdn /\ gdn = SubSeq(ids, 1, Len(ids))
  BY <1>1, <1>2, <1>3, UptoAll DEF Primed, Upto
<1>5. SlotSound'
  BY <1>1, <1>2, <1>4, StoreSound
<1>6. All = ids /\ All' = All
  <2>1. <<>> \o <<>> = <<>> /\ ids \o <<>> = ids
    BY <1>2, ConcatEmptySeq, EmptySeq
  <2> QED
    BY <1>1, <1>2, <2>1 DEF All
<1>7. Stepped'
  BY <1>1, <1>2, <1>4, <1>6, UptoAll DEF Stepped
<1>8. Chosen'
  BY <1>1, <1>2, <1>6 DEF Chosen
<1>9. \A k \in 1 .. Len(emitted') : emitted'[k] \notin StopToken
  BY <1>1, <1>2, EmptySeq
<1> QED
  BY <1>1, <1>5, <1>7, <1>8, <1>9 DEF TokenInv

LEMMA TokenRoute == TokenInv /\ Route => TokenInv'
BY DEF Route, TokenInv, cacheVars, deviceVars, requestVars, SlotSound, Chosen, Stepped, All

LEMMA TokenSample == KvInv /\ KvInv' /\ TokenInv /\ Sample => TokenInv'
<1> SUFFICES ASSUME KvInv, KvInv', TokenInv, Sample
             PROVE  TokenInv'
  OBVIOUS
<1>1. /\ phase = "decode" /\ phase' = "decode" /\ pending = <<>>
      /\ UNCHANGED <<slots, gdn, logits, ids, exact, emitted, pos>>
  BY DEF Sample, cacheVars, deviceVars, requestVars
<1>2. PICK t \in Token : (exact => t = Argmax(logits)) /\ pending' = <<t>>
  BY DEF Sample
<1>3. /\ ids \in Seq(Token) /\ emitted \in Seq(Token) /\ pending' \in Seq(Token)
      /\ pos = Len(All) /\ Stepped /\ Chosen
  BY <1>1 DEF KvInv, TypeOK, Decoding, TokenInv
<1>4. /\ All \in Seq(Token) /\ All' \in Seq(Token) /\ Len(All) \in Nat /\ Len(ids) \in Nat
      /\ Len(All') = Len(All) + Len(pending')
      /\ \A k \in 1 .. Len(All) : All[k] = All'[k]
      /\ \A k \in 1 .. Len(pending') : All'[Len(All) + k] = pending'[k]
  BY <1>1, <1>3, Grown
<1>5. Len(pending') = 1 /\ pending'[1] = t
  BY <1>2
<1>6. Len(All) <= Len(All') /\ Len(All') = Len(All) + 1 /\ All'[Len(All) + 1] = t
  BY <1>4, <1>5
<1>7. Upto(All, pos) = Upto(All', pos)
  <2>1. Len(All) \in Nat /\ Len(All) <= Len(All) /\ Len(All) <= Len(All')
    BY <1>4, <1>6
  <2>2. Upto(All, Len(All)) = Upto(All', Len(All))
    BY <1>4, <2>1, UptoSame
  <2> QED
    BY <1>3, <2>2
<1>8. Stepped'
  BY <1>1, <1>3, <1>7 DEF Stepped
<1>9. exact => \A k \in Len(All) + 1 .. Len(All') : All'[k] = Argmax(Upto(All', k - 1))
  <2> SUFFICES ASSUME exact, NEW k \in Len(All) + 1 .. Len(All')
               PROVE  All'[k] = Argmax(Upto(All', k - 1))
    OBVIOUS
  <2>1. k = Len(All) + 1 /\ k - 1 = pos
    BY <1>3, <1>4, <1>6
  <2>2. logits = Upto(All', k - 1)
    BY <1>3, <1>7, <2>1 DEF Stepped
  <2> QED
    BY <1>2, <1>6, <2>1, <2>2
<1>10. Chosen'
  BY <1>1, <1>3, <1>4, <1>6, <1>9, StillChosen
<1>11. SlotSound'
  BY <1>1 DEF TokenInv, SlotSound
<1> QED
  BY <1>1, <1>8, <1>10, <1>11 DEF TokenInv

(* What the target says of a draft's j-th token follows from the prompt,   *)
(* the answer, the free token and the drafts before it.                    *)
LEMMA SaysAsModel ==
  ASSUME NEW a \in Seq(Token), NEW p \in Nat, NEW t \in Token, NEW d \in Seq(Token),
         NEW j \in Nat, j > 0, j - 1 <= Len(d), p + j <= Len(a),
         a[p + 1] = t, \A k \in 1 .. j - 1 : a[p + 1 + k] = d[k]
  PROVE  Upto(a, p) \o <<t>> \o SubSeq(d, 1, j - 1) = Upto(a, p + j)
<1> DEFINE h == <<t>>
<1> DEFINE e == Upto(d, j - 1)
<1>1. Len(a) \in Nat /\ Len(d) \in Nat /\ p + 1 \in Nat /\ p + 1 <= Len(a) /\ j - 1 \in Nat
  BY LenProperties
<1>2. h \in Seq(Token) /\ Len(h) = 1 /\ h[1] = t
  OBVIOUS
<1>3. e \in Seq(Token) /\ Len(e) = j - 1 /\ \A k \in 1 .. j - 1 : e[k] = d[k]
  BY <1>1, UptoIs
<1> HIDE DEF h, e
<1>4. Upto(a, p) \o h = Upto(a, p + 1)
  <2>1. p + Len(h) <= Len(a) /\ \A k \in 1 .. Len(h) : a[p + k] = h[k]
    BY <1>1, <1>2
  <2>2. Upto(a, p) \o h = Upto(a, p + Len(h))
    BY <1>2, <2>1, UptoMore
  <2> QED
    BY <1>2, <2>2
<1>5. Upto(a, p + 1) \o e = Upto(a, p + 1 + Len(e))
  <2>1. p + 1 + Len(e) <= Len(a) /\ \A k \in 1 .. Len(e) : a[p + 1 + k] = e[k]
    BY <1>1, <1>3
  <2> QED
    BY <1>1, <1>3, <2>1, UptoMore
<1>6. p + 1 + Len(e) = p + j
  BY <1>1, <1>3
<1> QED
  BY <1>4, <1>5, <1>6 DEF h, e, Upto

(* What a round commits: the free token and the accepted drafts.           *)
LEMMA CommittedIs ==
  ASSUME NEW t \in Token, NEW d \in Seq(Token), NEW a \in 0 .. Len(d),
         NEW c, c = <<t>> \o SubSeq(d, 1, a)
  PROVE  /\ c \in Seq(Token) /\ Len(c) = a + 1 /\ c[1] = t
         /\ \A j \in 1 .. a : c[1 + j] = d[j]
<1> DEFINE h == <<t>>
<1> DEFINE e == Upto(d, a)
<1>1. Len(d) \in Nat /\ a \in Nat /\ a <= Len(d)
  BY LenProperties
<1>2. h \in Seq(Token) /\ Len(h) = 1 /\ h[1] = t
  OBVIOUS
<1>3. e \in Seq(Token) /\ Len(e) = a /\ \A k \in 1 .. a : e[k] = d[k]
  BY <1>1, UptoIs
<1>4. c = h \o e
  BY DEF Upto
<1> HIDE DEF h, e
<1>5. /\ c \in Seq(Token) /\ Len(c) = Len(h) + Len(e)
      /\ \A k \in 1 .. Len(h) + Len(e) : c[k] = IF k <= Len(h) THEN h[k] ELSE e[k - Len(h)]
  BY <1>2, <1>3, <1>4, ConcatProperties
<1>6. c[1] = h[1]
  <2>1. 1 \in 1 .. Len(h) + Len(e) /\ 1 <= Len(h)
    BY <1>1, <1>2, <1>3
  <2> QED
    BY <1>5, <2>1
<1>7. ASSUME NEW j \in 1 .. a
      PROVE  c[1 + j] = d[j]
  <2>1. 1 + j \in 1 .. Len(h) + Len(e) /\ ~ (1 + j <= Len(h)) /\ 1 + j - Len(h) = j
    BY <1>1, <1>2, <1>3
  <2>2. c[1 + j] = e[j]
    BY <1>5, <2>1
  <2> QED
    BY <1>3, <2>2
<1> QED
  BY <1>1, <1>2, <1>3, <1>5, <1>6, <1>7

LEMMA TokenRound == KvInv /\ KvInv' /\ TokenInv /\ SpecRound => TokenInv'
<1> SUFFICES ASSUME KvInv, KvInv', TokenInv, SpecRound
             PROVE  TokenInv'
  OBVIOUS
<1>1. /\ phase = "decode" /\ phase' = "decode" /\ pending = <<>>
      /\ UNCHANGED <<slots, ids, exact, emitted>>
  BY DEF SpecRound, cacheVars, requestVars
<1>2. PICK t0 \in Token :
        /\ t0 = Argmax(logits)
        /\ \/ /\ pending' = <<t0>>
              /\ UNCHANGED <<deviceVars, pos>>
           \/ /\ \E d \in [1 .. BlockSize - 1 -> Token], a \in 0 .. BlockSize - 1 :
                   /\ Accepts(t0, d, a, arena')
                   /\ pending' = <<t0>> \o SubSeq(d, 1, a)
              /\ gdn' = gdn \o pending'
              /\ pos' = pos + Len(pending')
              /\ logits' = Distribution(gdn', arena', pos')
  BY Zenon DEF SpecRound
<1>3. /\ ids \in Seq(Token) /\ emitted \in Seq(Token) /\ pending' \in Seq(Token)
      /\ pos = Len(All) /\ pos \in Nat /\ pos' \in Nat /\ Stepped /\ Chosen
      /\ Holds(arena', All', pos')
  BY <1>1 DEF KvInv, TypeOK, Decoding, TokenInv
<1>4. /\ All \in Seq(Token) /\ All' \in Seq(Token) /\ Len(ids) \in Nat
      /\ Len(All') = Len(All) + Len(pending') /\ Len(pending') \in Nat
      /\ \A k \in 1 .. Len(All) : All[k] = All'[k]
      /\ \A k \in 1 .. Len(pending') : All'[Len(All) + k] = pending'[k]
  BY <1>1, <1>3, Grown
<1>5. Len(All) <= Len(All') /\ pos <= Len(All') /\ Len(All) \in Nat
  BY <1>3, <1>4
<1>6. gdn = Upto(All', pos) /\ logits = Upto(All', pos)
  <2>1. Upto(All, Len(All)) = Upto(All', Len(All))
    BY <1>4, <1>5, UptoSame
  <2> QED
    BY <1>3, <2>1 DEF Stepped
<1>7. Stepped' /\ (\A k \in Len(All) + 1 .. Len(All') : All'[k] = Argmax(Upto(All', k - 1)))
  <2>1. CASE pending' = <<t0>> /\ UNCHANGED <<deviceVars, pos>>
    <3>1. Len(pending') = 1 /\ pending'[1] = t0
      BY <2>1
    <3>2. Stepped'
      BY <1>6, <2>1 DEF Stepped, deviceVars
    <3>3. ASSUME NEW k \in Len(All) + 1 .. Len(All')
          PROVE  All'[k] = Argmax(Upto(All', k - 1))
      <4>1. k = Len(All) + 1 /\ k - 1 = pos /\ 1 \in 1 .. Len(pending')
        BY <1>3, <1>4, <3>1
      <4>2. All'[k] = t0
        BY <1>4, <3>1, <4>1
      <4> QED
        BY <1>2, <1>6, <4>1, <4>2
    <3> QED
      BY <3>2, <3>3
  <2>2. CASE /\ \E d \in [1 .. BlockSize - 1 -> Token], a \in 0 .. BlockSize - 1 :
                  /\ Accepts(t0, d, a, arena')
                  /\ pending' = <<t0>> \o SubSeq(d, 1, a)
             /\ gdn' = gdn \o pending'
             /\ pos' = pos + Len(pending')
             /\ logits' = Distribution(gdn', arena', pos')
    <3>1. PICK d \in [1 .. BlockSize - 1 -> Token], a \in 0 .. BlockSize - 1 :
            /\ Accepts(t0, d, a, arena')
            /\ pending' = <<t0>> \o SubSeq(d, 1, a)
      BY <2>2
    <3>2. d \in Seq(Token) /\ Len(d) = BlockSize - 1 /\ a \in 0 .. Len(d) /\ a \in Nat
      BY BlockTyped
    <3>3. /\ Len(pending') = a + 1 /\ pending'[1] = t0
          /\ \A j \in 1 .. a : pending'[1 + j] = d[j]
      BY <3>1, <3>2, CommittedIs
    <3>4. gdn' = Upto(All', pos')
      <4>1. pos + Len(pending') <= Len(All')
        BY <1>3, <1>4, <1>5
      <4>2. \A k \in 1 .. Len(pending') : All'[pos + k] = pending'[k]
        BY <1>3, <1>4, Zenon
      <4>3. All' \in Seq(Token) /\ pending' \in Seq(Token) /\ pos \in Nat
        BY <1>3, <1>4
      <4>4. Upto(All', pos) \o pending' = Upto(All', pos + Len(pending'))
        BY <4>1, <4>2, <4>3, UptoMore
      <4> QED
        BY <1>6, <2>2, <4>4
    <3>5. Stepped'
      <4>1. Distribution(Upto(All', pos'), arena', pos') = Upto(All', pos')
        BY <1>3, <1>4, Faithful
      <4> QED
        BY <2>2, <3>4, <4>1 DEF Stepped
    <3>6. ASSUME NEW k \in Len(All) + 1 .. Len(All')
          PROVE  All'[k] = Argmax(Upto(All', k - 1))
      <4>1. CASE k = Len(All) + 1
        <5>1. k - 1 = pos /\ 1 \in 1 .. Len(pending')
          BY <1>3, <1>5, <3>2, <3>3, <4>1
        <5>2. All'[k] = t0
          BY <1>4, <3>3, <4>1, <5>1
        <5> QED
          BY <1>2, <1>6, <5>1, <5>2
      <4>2. CASE k # Len(All) + 1
        <5> DEFINE j == k - Len(All) - 1
        <5>1. /\ j \in 1 .. a /\ j \in Nat /\ j > 0 /\ j - 1 <= Len(d)
              /\ k = Len(All) + (1 + j) /\ 1 + j \in 1 .. Len(pending')
              /\ k - 1 = pos + j /\ pos + j \in Nat
          BY <1>3, <1>4, <1>5, <3>2, <3>3, <4>2
        <5> HIDE DEF j
        <5>2. All'[k] = d[j]
          BY <1>4, <3>3, <5>1
        <5>3. d[j] = TargetSays(t0, d, j, arena')
          BY <3>1, <5>1 DEF Accepts
        <5>4. Upto(All', pos) \o <<t0>> \o SubSeq(d, 1, j - 1) = Upto(All', pos + j)
          <6>1. pos + j <= Len(All')
            BY <1>3, <1>4, <1>5, <3>2, <3>3, <5>1
          <6>2. 1 \in 1 .. Len(pending') /\ All'[pos + 1] = t0
            BY <1>3, <1>4, <3>2, <3>3
          <6>3. ASSUME NEW i \in 1 .. j - 1
                PROVE  All'[pos + 1 + i] = d[i]
            <7>1. i \in 1 .. a /\ 1 + i \in 1 .. Len(pending') /\ pos + 1 + i = Len(All) + (1 + i)
              BY <1>3, <3>2, <3>3, <5>1
            <7>2. All'[Len(All) + (1 + i)] = pending'[1 + i] /\ pending'[1 + i] = d[i]
              BY <1>4, <3>3, <7>1
            <7> QED
              BY <7>1, <7>2
          <6>4. All' \in Seq(Token) /\ pos \in Nat /\ j \in Nat /\ j > 0 /\ j - 1 <= Len(d)
            BY <1>3, <1>4, <5>1
          <6>5. \A i \in 1 .. j - 1 : All'[pos + 1 + i] = d[i]
            BY <6>3
          <6>6. d \in Seq(Token) /\ All'[pos + 1] = t0
            BY <3>2, <6>2
          <6> QED
            BY <6>1, <6>4, <6>5, <6>6, SaysAsModel, Zenon
        <5>5. Holds(arena', All', pos + j)
          <6>1. pos + j <= pos'
            BY <1>3, <2>2, <3>2, <3>3, <5>1
          <6>2. pos + j <= Len(All')
            BY <1>3, <1>4, <1>5, <3>2, <3>3, <5>1
          <6> QED
            BY <1>3, <1>4, <5>1, <6>1, <6>2, HoldsLess
        <5>6. Distribution(Upto(All', pos + j), arena', pos + j) = Upto(All', pos + j)
          BY <1>4, <5>1, <5>5, Faithful
        <5>7. TargetSays(t0, d, j, arena') = Argmax(Upto(All', pos + j))
          BY <1>6, <5>4, <5>6 DEF TargetSays
        <5> QED
          BY <5>1, <5>2, <5>3, <5>7
      <4> QED
        BY <4>1, <4>2
    <3> QED
      BY <3>5, <3>6
  <2> QED
    BY <1>2, <2>1, <2>2
<1>8. Chosen'
  BY <1>1, <1>3, <1>4, <1>5, <1>7, StillChosen
<1>9. SlotSound'
  BY <1>1 DEF TokenInv, SlotSound
<1> QED
  BY <1>1, <1>7, <1>8, <1>9 DEF TokenInv

LEMMA TokenEmit == KvInv /\ KvInv' /\ TokenInv /\ Emit => TokenInv'
<1> SUFFICES ASSUME KvInv, KvInv', TokenInv, Emit
             PROVE  TokenInv'
  OBVIOUS
<1> DEFINE t == Head(pending)
<1>1. /\ phase = "decode" /\ pending # <<>>
      /\ pending' = Tail(pending) /\ emitted' = Append(emitted, t)
      /\ UNCHANGED <<slots, ids, exact, specOn>>
      /\ \/ phase' = "finish" /\ UNCHANGED <<deviceVars, pos>>
         \/ /\ t \notin StopToken /\ phase' = "decode"
            /\ IF specOn THEN UNCHANGED <<deviceVars, pos>> ELSE Forward(<<t>>)
  BY DEF Emit, cacheVars, requestVars
<1>2. /\ ids \in Seq(Token) /\ emitted \in Seq(Token) /\ pending \in Seq(Token)
      /\ pos \in Nat /\ pos' \in Nat /\ t \in Token /\ t = pending[1]
      /\ Decoding /\ Stepped /\ Chosen
  BY <1>1, HeadTailProperties DEF KvInv, TypeOK, TokenInv
<1>3. All' = All
  BY <1>1, <1>2, Popped DEF All
<1>4. /\ All \in Seq(Token) /\ Len(All) \in Nat /\ Len(ids) \in Nat /\ Len(emitted) \in Nat
      /\ Len(All) = Len(ids) + Len(emitted) + Len(pending)
      /\ \A k \in 1 .. Len(pending) : All[Len(ids) + Len(emitted) + k] = pending[k]
  BY <1>2, Joined, LenProperties DEF All
<1> HIDE DEF t
<1>5. /\ Len(emitted') = Len(emitted) + 1 /\ emitted'[Len(emitted) + 1] = t
      /\ \A k \in 1 .. Len(emitted) : emitted'[k] = emitted[k]
  BY <1>1, <1>2, AppendProperties
<1>6. emitted' # <<>>
  BY <1>4, <1>5, EmptySeq
<1>7. Chosen' /\ SlotSound'
  BY <1>1, <1>2, <1>3 DEF Chosen, TokenInv, SlotSound
<1>8. ~ specOn => Len(pending) = 1 /\ pos = Len(ids) + Len(emitted)
  <2> SUFFICES ASSUME ~ specOn
               PROVE  Len(pending) = 1 /\ pos = Len(ids) + Len(emitted)
    OBVIOUS
  <2>1. Len(pending) = 1 /\ pos = Len(All) - 1
    BY <1>1, <1>2 DEF Decoding
  <2>2. Len(All) = Len(ids) + Len(emitted) + Len(pending) /\ Len(ids) + Len(emitted) \in Nat
    BY <1>4
  <2> QED
    BY <2>1, <2>2
<1>9. phase' = "decode" => \A k \in 1 .. Len(emitted') : emitted'[k] \notin StopToken
  <2> SUFFICES ASSUME phase' = "decode", NEW k \in 1 .. Len(emitted')
               PROVE  emitted'[k] \notin StopToken
    OBVIOUS
  <2>1. CASE k = Len(emitted) + 1
    BY <1>1, <1>5, <2>1
  <2>2. CASE k # Len(emitted) + 1
    <3>1. k \in 1 .. Len(emitted)
      BY <1>4, <1>5, <2>2
    <3>2. emitted[k] \notin StopToken
      BY <1>1, <3>1 DEF TokenInv
    <3> QED
      BY <1>5, <3>1, <3>2
  <2> QED
    BY <2>1, <2>2
<1>10. CASE UNCHANGED <<deviceVars, pos>>
  <2>1. Stepped'
    BY <1>2, <1>3, <1>10 DEF Stepped, deviceVars
  <2>2. ~ specOn => pos' <= Len(ids') + Len(emitted')
    <3>1. pos' = pos /\ Len(ids') = Len(ids)
      BY <1>1, <1>10
    <3> QED
      BY <1>2, <1>4, <1>5, <1>8, <3>1
  <2> QED
    BY <1>1, <1>6, <1>7, <1>9, <2>1, <2>2 DEF TokenInv
<1>11. CASE ~ specOn /\ phase' = "decode" /\ Forward(<<t>>)
  <2> DEFINE s == <<t>>
  <2>1. s \in Seq(Token) /\ Len(s) = 1 /\ s[1] = t
    BY <1>2
  <2>2. gdn' = gdn \o s /\ pos' = pos + Len(s) /\ logits' = Distribution(gdn', arena', pos')
    BY <1>11 DEF Forward
  <2> HIDE DEF s
  <2>3. All[pos + 1] = t
    <3>1. 1 \in 1 .. Len(pending)
      BY <1>8, <1>11
    <3>2. All[Len(ids) + Len(emitted) + 1] = pending[1]
      BY <1>4, <3>1, Zenon
    <3>3. pos = Len(ids) + Len(emitted)
      BY <1>8, <1>11
    <3> QED
      BY <1>2, <3>2, <3>3, Zenon
  <2>4. \A k \in 1 .. Len(s) : All[pos + k] = s[k]
    BY <2>1, <2>3
  <2>5. pos + Len(s) <= Len(All)
    <3>1. Len(All) = Len(ids) + Len(emitted) + Len(pending) /\ Len(All) \in Nat
      BY <1>4
    <3>2. Len(pending) = 1 /\ pos = Len(ids) + Len(emitted)
      BY <1>8, <1>11
    <3> QED
      BY <2>1, <3>1, <3>2
  <2>6. gdn' = Upto(All, pos')
    <3>1. Upto(All, pos) \o s = Upto(All, pos + Len(s))
      BY <1>2, <1>4, <2>1, <2>4, <2>5, UptoMore
    <3> QED
      BY <1>2, <2>2, <3>1 DEF Stepped
  <2>7. Holds(arena', All', pos')
    BY <1>11 DEF KvInv, Decoding
  <2>8. Stepped'
    BY <1>2, <1>3, <1>4, <2>2, <2>6, <2>7, Faithful DEF Stepped
  <2> QED
    BY <1>7, <1>9, <1>11, <2>8 DEF TokenInv
<1> QED
  BY <1>1, <1>10, <1>11

LEMMA TokenFinish ==
  KvInv /\ TokenInv /\ CutClean /\ Finish => TokenInv'
<1> SUFFICES ASSUME KvInv, TokenInv, CutClean, Finish
             PROVE  TokenInv'
  OBVIOUS
<1> DEFINE seen == ids \o emitted
<1>1. /\ phase = "finish" /\ phase' = "idle"
      /\ UNCHANGED <<ids, exact, pending, emitted>>
      /\ \/ /\ NumSlots > 0
            /\ Store(seen, Covered, gdn, logits)
         \/ UNCHANGED slots
  BY DEF Finish, cacheVars, requestVars, loopVars
<1>2. /\ ids \in Seq(Token) /\ emitted \in Seq(Token) /\ pending \in Seq(Token)
      /\ pos \in Nat /\ CacheTypeOK /\ SlotSound /\ Chosen /\ Stepped
      /\ pos <= Len(All)
  BY <1>1 DEF KvInv, TypeOK, TokenInv, Finishing
<1>3. Chosen'
  BY <1>1, <1>2 DEF Chosen, All
<1>4. SlotSound'
  <2>1. CASE UNCHANGED slots
    BY <1>2, <2>1 DEF SlotSound
  <2>2. CASE NumSlots > 0 /\ Store(seen, Covered, gdn, logits)
    <3>1. /\ All \in Seq(Token) /\ seen \in Seq(Token)
          /\ Len(seen) = Len(ids) + Len(emitted)
          /\ Len(All) = Len(ids) + Len(emitted) + Len(pending)
          /\ Len(ids) \in Nat /\ Len(emitted) \in Nat /\ Len(pending) \in Nat
          /\ \A k \in 1 .. Len(ids) + Len(emitted) : All[k] = seen[k]
      BY <1>2, Joined DEF All
    <3>2. pos <= Len(ids) + Len(emitted)
      <4>1. CASE ~ specOn
        BY <1>1, <4>1 DEF TokenInv
      <4>2. CASE specOn
        <5>1. Len(pending) = 0
          BY <1>1, <2>2, <4>2, EmptySeq DEF CutClean
        <5> QED
          BY <1>2, <3>1, <5>1
      <4> QED
        BY <4>1, <4>2
    <3>3. Covered = pos
      BY <3>1, <3>2 DEF Covered
    <3> HIDE DEF seen
    <3>4. pos <= Len(All) /\ pos <= Len(seen) /\ \A k \in 1 .. pos : All[k] = seen[k]
      BY <1>2, <3>1, <3>2
    <3>5. Upto(All, pos) = Upto(seen, pos)
      BY <1>2, <3>1, <3>4, UptoSame
    <3>6. gdn = SubSeq(seen, 1, Covered) /\ logits = gdn
      BY <1>2, <3>3, <3>5 DEF Stepped, Upto
    <3> QED
      BY <1>2, <2>2, <3>6, StoreSound
  <2> QED
    BY <1>1, <2>1, <2>2
<1> QED
  BY <1>1, <1>3, <1>4 DEF TokenInv

-----------------------------------------------------------------------------
LEMMA BothAlways == ASSUME Regular PROVE Spec /\ []CutClean => [](KvInv /\ TokenInv)
<1>1. KvInv /\ TokenInv /\ CutClean /\ [Next]_vars => (KvInv /\ TokenInv)'
  <2> SUFFICES ASSUME KvInv, TokenInv, CutClean, [Next]_vars
               PROVE  KvInv' /\ TokenInv'
    OBVIOUS
  <2>1. KvInv'
    BY KvStep DEF Regular
  <2>2. CASE UNCHANGED vars
    <3>1. TokenInv'
      BY <2>2 DEF vars, cacheVars, deviceVars, requestVars, loopVars, TokenInv, SlotSound,
         Chosen, Primed, Stepped, All
    <3> QED
      BY <2>1, <3>1
  <2> QED
    BY <2>1, <2>2, TokenStart, TokenChunk, TokenEndPrefill, TokenRoute, TokenSample,
       TokenRound, TokenEmit, TokenFinish DEF Next, Regular
<1> QED
  BY KvInit, TokenInit, <1>1, PTL DEF Spec

(* Every snapshot carries the state and the logits of the tokens it is     *)
(* filed under, so a resumed conversation continues what was computed.     *)
THEOREM SnapshotsSound == ASSUME Regular PROVE Spec /\ []CutClean => []SlotSound
<1>1. KvInv /\ TokenInv => SlotSound
  BY DEF TokenInv
<1> QED
  BY <1>1, BothAlways, PTL

(* The prompt and the first n tokens of the answer. *)
LEMMA Front ==
  ASSUME ids \in Seq(Token), emitted \in Seq(Token), pending \in Seq(Token),
         NEW n \in Nat, n <= Len(emitted)
  PROVE  Upto(All, Len(ids) + n) = ids \o SubSeq(emitted, 1, n)
<1>2. /\ All \in Seq(Token) /\ Len(ids) \in Nat /\ Len(emitted) \in Nat
      /\ Len(pending) \in Nat
      /\ Len(All) = Len(ids) + Len(emitted) + Len(pending)
      /\ \A k \in 1 .. Len(ids) : All[k] = ids[k]
      /\ \A k \in 1 .. Len(emitted) : All[Len(ids) + k] = emitted[k]
  BY Joined, Middle DEF All
<1> DEFINE e == Upto(emitted, n)
<1>3. e \in Seq(Token) /\ Len(e) = n /\ \A k \in 1 .. n : e[k] = emitted[k]
  BY UptoIs
<1> HIDE DEF e
<1>4. Upto(All, Len(ids)) \o e = Upto(All, Len(ids) + Len(e))
  <2>1. Len(ids) + Len(e) <= Len(All)
    BY <1>2, <1>3
  <2>2. ASSUME NEW k \in 1 .. Len(e)
        PROVE  All[Len(ids) + k] = e[k]
    <3>1. k \in 1 .. n /\ k \in 1 .. Len(emitted)
      BY <1>2, <1>3
    <3> QED
      BY <1>2, <1>3, <3>1
  <2> QED
    BY <1>2, <1>3, <2>1, <2>2, UptoMore
<1>5. Upto(All, Len(ids)) = ids
  <2>1. Len(ids) <= Len(All) /\ Len(ids) <= Len(ids)
    BY <1>2
  <2>2. Upto(All, Len(ids)) = Upto(ids, Len(ids))
    BY <1>2, <2>1, UptoSame
  <2> QED
    BY <2>2, UptoAll
<1> QED
  BY <1>3, <1>4, <1>5 DEF e, Upto

LEMMA ChosenIsLossless == KvInv /\ TokenInv => Lossless
<1> SUFFICES ASSUME KvInv, TokenInv, exact, NEW j \in 1 .. Len(emitted)
             PROVE  emitted[j] = Argmax(ids \o SubSeq(emitted, 1, j - 1))
  BY DEF Lossless
<1>1. ids \in Seq(Token) /\ emitted \in Seq(Token) /\ pending \in Seq(Token) /\ Chosen
  BY DEF KvInv, TypeOK, TokenInv
<1>2. /\ All[Len(ids) + j] = emitted[j]
      /\ Len(ids) \in Nat /\ Len(emitted) \in Nat /\ Len(pending) \in Nat
      /\ Len(All) = Len(ids) + Len(emitted) + Len(pending)
  BY <1>1, Joined, Middle DEF All
<1>3. /\ Len(ids) + j \in Len(ids) + 1 .. Len(All)
      /\ j - 1 \in Nat /\ j - 1 <= Len(emitted) /\ Len(ids) + j - 1 = Len(ids) + (j - 1)
  BY <1>2
<1>4. All[Len(ids) + j] = Argmax(Upto(All, Len(ids) + j - 1))
  BY <1>1, <1>3 DEF Chosen
<1>5. Upto(All, Len(ids) + (j - 1)) = ids \o SubSeq(emitted, 1, j - 1)
  BY <1>1, <1>3, Front
<1> QED
  BY <1>2, <1>3, <1>4, <1>5

LEMMA NextIsChosen ==
  ASSUME ids \in Seq(Token), emitted \in Seq(Token), pending \in Seq(Token),
         pending # <<>>, Chosen, exact
  PROVE  Head(pending) = Argmax(ids \o emitted)
<1>1. /\ Len(pending) \in Nat \ {0} /\ Head(pending) = pending[1]
      /\ Len(ids) \in Nat /\ Len(emitted) \in Nat
  BY HeadTailProperties, EmptySeq, LenProperties
<1> DEFINE k == Len(ids) + Len(emitted) + 1
<1>2. 1 \in 1 .. Len(pending)
  BY <1>1
<1>3. All[k] = pending[1] /\ Len(All) = Len(ids) + Len(emitted) + Len(pending)
  BY <1>2, Joined DEF All
<1>4. k \in Len(ids) + 1 .. Len(All) /\ k - 1 = Len(ids) + Len(emitted) /\ Len(emitted) <= Len(emitted)
  BY <1>1, <1>3
<1> HIDE DEF k
<1>5. All[k] = Argmax(Upto(All, k - 1))
  BY <1>4 DEF Chosen
<1>6. Upto(All, Len(ids) + Len(emitted)) = ids \o SubSeq(emitted, 1, Len(emitted))
  BY <1>1, <1>4, Front
<1>7. SubSeq(emitted, 1, Len(emitted)) = emitted
  BY UptoAll DEF Upto
<1> QED
  BY <1>1, <1>3, <1>4, <1>5, <1>6, <1>7

(* The answer to a request of temperature 0 is the model's own (Lossless), *)
(* for every oracle, cache content, chunk size and draft.                  *)
THEOREM AlwaysLossless == ASSUME Regular PROVE Spec /\ []CutClean => []Lossless
BY BothAlways, ChosenIsLossless, PTL

(* Between two commitments nothing is ahead or behind: the model has       *)
(* absorbed the prompt and what was emitted, and the logits are for what   *)
(* comes next. So either way to decode can take over at an empty deque.    *)
LEMMA StandsAtPos == KvInv /\ TokenInv => EmptyDequeCoherent
<1> SUFFICES ASSUME KvInv, TokenInv, phase = "decode", pending = <<>>
             PROVE  /\ pos = Len(ids) + Len(emitted)
                    /\ gdn = ids \o emitted
                    /\ logits = ids \o emitted
  BY DEF EmptyDequeCoherent
<1>1. /\ ids \in Seq(Token) /\ emitted \in Seq(Token) /\ pending \in Seq(Token)
      /\ pos = Len(All) /\ Stepped
  BY DEF KvInv, TypeOK, Decoding, TokenInv
<1>2. /\ Len(emitted) \in Nat /\ Len(emitted) <= Len(emitted) /\ Len(pending) = 0
      /\ Len(ids) \in Nat
      /\ Len(All) = Len(ids) + Len(emitted) + Len(pending)
  BY <1>1, LenProperties, EmptySeq, Joined DEF All
<1>3. Upto(All, Len(ids) + Len(emitted)) = ids \o SubSeq(emitted, 1, Len(emitted))
  BY <1>1, <1>2, Front
<1>4. SubSeq(emitted, 1, Len(emitted)) = emitted
  BY <1>1, UptoAll DEF Upto
<1>5. pos = Len(ids) + Len(emitted)
  BY <1>1, <1>2
<1> QED
  BY <1>1, <1>3, <1>4, <1>5 DEF Stepped

THEOREM AlwaysCoherent == ASSUME Regular PROVE Spec /\ []CutClean => []EmptyDequeCoherent
BY BothAlways, StandsAtPos, PTL

-----------------------------------------------------------------------------
(* What a client sees of the loop is Generation. *)
LEMMA InitPromise == Init => Promise!Init
BY DEF Init, Promise!Init

LEMMA StepPromise ==
  ASSUME Regular
  PROVE  KvInv /\ TokenInv /\ [Next]_vars => [Promise!Next]_Promise!vars
<1> SUFFICES ASSUME KvInv, TokenInv, [Next]_vars
             PROVE  [Promise!Next]_Promise!vars
  OBVIOUS
<1>1. CASE Start
  <2>1. PICK prompt \in Prompts, n \in 1 .. MaxNew, greedy \in BOOLEAN :
          ids' = prompt /\ maxNew' = n /\ exact' \in {greedy, FALSE}
    BY <1>1 DEF Start
  <2>2. phase = "idle" /\ phase' = "prefill" /\ emitted' = <<>> /\ n \in Nat \ {0}
    BY <1>1 DEF Start
  <2> QED
    BY <2>1, <2>2 DEF Promise!Next, Promise!Begin
<1>2. CASE PrefillChunk \/ EndPrefill \/ Route \/ Sample \/ SpecRound
  BY <1>2 DEF PrefillChunk, EndPrefill, Route, Sample, SpecRound, requestVars, loopVars,
     Promise!vars
<1>3. CASE Emit
  <2>1. /\ phase = "decode" /\ phase' # "idle" /\ pending # <<>>
        /\ emitted' = Append(emitted, Head(pending))
        /\ UNCHANGED <<ids, maxNew, exact>>
    BY <1>3 DEF Emit, requestVars
  <2>2. /\ Len(emitted) < maxNew
        /\ \A k \in 1 .. Len(emitted) : emitted[k] \notin StopToken
        /\ Chosen
        /\ ids \in Seq(Token) /\ emitted \in Seq(Token) /\ pending \in Seq(Token)
    BY <2>1 DEF KvInv, TypeOK, Decoding, TokenInv
  <2>3. Head(pending) \in Token
    BY <2>1, <2>2, HeadTailProperties
  <2>4. exact => Head(pending) = Argmax(ids \o emitted)
    BY <2>1, <2>2, NextIsChosen
  <2> QED
    BY <2>1, <2>2, <2>3, <2>4 DEF Promise!Next, Promise!Extend
<1>4. CASE Finish
  <2>1. /\ phase = "finish" /\ phase' = "idle"
        /\ UNCHANGED <<ids, maxNew, exact, emitted>>
    BY <1>4 DEF Finish, requestVars, loopVars
  <2>2. emitted # <<>>
    BY <2>1 DEF TokenInv
  <2> QED
    BY <2>1, <2>2 DEF Promise!Next, Promise!End
<1>5. CASE UNCHANGED vars
  BY <1>5 DEF vars, requestVars, loopVars, Promise!vars
<1> QED
  BY <1>1, <1>2, <1>3, <1>4, <1>5 DEF Next

(* The whole loop, with its cache, its chunks and its rounds, implements   *)
(* the one-token-at-a-time promise (Generates): where a request is not     *)
(* exact a switch to plain decode may show, where it is it does not.       *)
THEOREM Implements == ASSUME Regular PROVE Spec /\ []CutClean => Generates
BY BothAlways, InitPromise, StepPromise, PTL DEF Spec, Generates, Promise!Spec

(* A server without the drafter, or without the prefix cache, has no such  *)
(* cut at all, and keeps the promise for good.                             *)
THEOREM PromiseKept ==
  ASSUME Regular, HasDraft => NumSlots = 0
  PROVE  Spec => []Lossless /\ []EmptyDequeCoherent /\ Generates
<1>1. KvInv => CutClean
  <2>1. KvInv /\ specOn => HasDraft
    BY DEF KvInv
  <2> QED
    BY <2>1 DEF CutClean
<1>2. Spec => []KvInv
  <2>1. KvInv /\ [Next]_vars => KvInv'
    BY KvStep DEF Regular
  <2> QED
    BY KvInit, <2>1, PTL DEF Spec
<1> QED
  BY <1>1, <1>2, AlwaysLossless, AlwaysCoherent, Implements, PTL

-----------------------------------------------------------------------------
(***************************************************************************)
(* A conversation finds its snapshots again, for any number of slots: what *)
(* a request leaves in the cache survives the rest of the request.         *)
(*                                                                         *)
(* The argument is about stamps. No two are the same, so the least one is  *)
(* not among the k newest when there are more than k slots; what was the   *)
(* newest when the request began, was stored or restored, is still the     *)
(* second or third newest when it ends. Headroom and the drafter play no   *)
(* part in it.                                                             *)
(***************************************************************************)

Stamps ==
  /\ \A i \in SlotIds : slots[i].stamp <= clock
  /\ \A i, j \in SlotIds :
       slots[i].valid /\ slots[j].valid /\ slots[i].stamp = slots[j].stamp => i = j

(* A slot of s holds this prefix, and no more than k others are newer.     *)
HeldIn(s, now, prefix, k) ==
  \E i \in SlotIds : s[i].valid /\ s[i].tokens = prefix /\ s[i].stamp + k >= now

Held(prefix, k) == HeldIn(slots, clock, prefix, k)

Resumed == Upto(ids, reuse)

(* Behind the end of prefill: the arena is known to hold the prompt.       *)
Primary ==
  /\ Len(ids) <= pos
  /\ NumSlots > 0 => kvTokens = ids
  /\ NumSlots > 0 /\ ids # <<>> => Held(ids, 0)
  /\ NumSlots > 1 /\ reuse > 0 => Held(Resumed, 1)

(* Between two requests: it is known to hold the last one.                 *)
Settled ==
  /\ Len(ids) <= Covered
  /\ NumSlots > 0 => kvTokens = Upto(ids \o emitted, Covered)
  /\ NumSlots > 0 /\ Covered > 0 => Held(Upto(ids \o emitted, Covered), 0)
  /\ NumSlots > 1 /\ ids # <<>> => Held(ids, 1)
  /\ NumSlots > 2 /\ reuse > 0 => Held(Resumed, 2)

TurnInv ==
  /\ Stamps
  /\ reuse <= Len(ids)
  /\ phase = "prefill" /\ reuse > 0 => Held(Resumed, 0)
  /\ phase \in {"decode", "finish"} => Primary
  /\ IF phase = "idle" /\ served = 0 THEN reuse = 0 ELSE served > 0
  /\ phase = "idle" /\ served > 0 => Settled

-----------------------------------------------------------------------------
LEMMA SlotTyped ==
  ASSUME CacheTypeOK, NEW i \in SlotIds
  PROVE  slots[i].stamp \in Nat /\ slots[i].tokens \in Seq(Token) /\ clock \in Nat
BY SlotFields DEF CacheTypeOK

(* A slot written with a new stamp is the newest, and all stamps differ.   *)
LEMMA Restamped ==
  ASSUME CacheTypeOK, Stamps, NEW i \in SlotIds, NEW S \in Slot,
         slots' = [slots EXCEPT ![i] = S], S.valid, S.stamp = clock + 1, clock' = clock + 1
  PROVE  /\ Stamps'
         /\ HeldIn(slots', clock', S.tokens, 0)
         /\ slots'[i] = S
         /\ \A j \in SlotIds : j # i => slots'[j] = slots[j]
<1>1. slots'[i] = S /\ \A j \in SlotIds : j # i => slots'[j] = slots[j]
  BY DEF CacheTypeOK
<1>2. \A j \in SlotIds : slots[j].stamp \in Nat /\ slots[j].stamp <= clock /\ clock \in Nat
  BY SlotTyped DEF Stamps
<1>3. \A j \in SlotIds : slots'[j].stamp <= clock'
  BY <1>1, <1>2
<1>4. ASSUME NEW j \in SlotIds, NEW k \in SlotIds,
             slots'[j].valid, slots'[k].valid, slots'[j].stamp = slots'[k].stamp
      PROVE  j = k
  <2>1. CASE j # i /\ k # i
    BY <1>1, <1>4, <2>1 DEF Stamps
  <2>2. CASE j = i \/ k = i
    BY <1>1, <1>2, <1>4, <2>2
  <2> QED
    BY <2>1, <2>2
<1>5. SlotIds' = SlotIds
  BY DEF SlotIds
<1>6. Stamps'
  BY <1>3, <1>4, <1>5 DEF Stamps
<1>7. HeldIn(slots', clock', S.tokens, 0)
  BY <1>1, <1>2, <1>5 DEF Held, HeldIn
<1> QED
  BY <1>1, <1>6, <1>7

(* One more stamp is given out.                                            *)
LEMMA Ages ==
  ASSUME CacheTypeOK, NEW q, NEW k \in Nat, NEW h \in SlotIds,
         slots[h].valid, slots[h].tokens = q, slots[h].stamp + k >= clock,
         slots'[h] = slots[h], clock' = clock + 1
  PROVE  HeldIn(slots', clock', q, k + 1)
<1>1. slots[h].stamp \in Nat /\ clock \in Nat
  BY SlotTyped
<1>2. slots'[h].stamp + (k + 1) >= clock'
  BY <1>1
<1> QED
  BY <1>2 DEF HeldIn

(* With all slots taken, the least recently used of more than k + 1 is not *)
(* among the k + 1 newest.                                                 *)
LEMMA NotEvicted ==
  ASSUME CacheTypeOK, Stamps, CacheAssumption, NEW h \in SlotIds, NEW k \in {0, 1},
         k + 1 < NumSlots, \A j \in SlotIds : slots[j].valid,
         \A j \in SlotIds : slots[h].stamp <= slots[j].stamp
  PROVE  ~ (slots[h].stamp + k >= clock)
<1> SUFFICES ASSUME slots[h].stamp + k >= clock
             PROVE  FALSE
  OBVIOUS
<1>1. \A j \in SlotIds : slots[j].stamp \in Nat /\ clock \in Nat /\ slots[j].stamp <= clock
  BY SlotTyped DEF Stamps
<1>2. \A i, j \in SlotIds : slots[i].stamp = slots[j].stamp => i = j
  BY DEF Stamps
<1>3. NumSlots \in Nat /\ h \in 1 .. NumSlots
  BY DEF CacheAssumption, SlotIds
<1>4. CASE k = 0
  <2>1. PICK j \in SlotIds : j # h
    <3>1. 1 \in SlotIds /\ 2 \in SlotIds
      BY <1>3, <1>4 DEF SlotIds
    <3> QED
      BY <3>1
  <2>2. slots[j].stamp = slots[h].stamp
    BY <1>1, <1>4
  <2> QED
    BY <1>2, <2>1, <2>2
<1>5. CASE k = 1
  <2>1. PICK j \in SlotIds, l \in SlotIds : j # h /\ l # h /\ j # l
    <3>1. 1 \in SlotIds /\ 2 \in SlotIds /\ 3 \in SlotIds
      BY <1>3, <1>5 DEF SlotIds
    <3>2. CASE h = 1
      BY <3>1, <3>2
    <3>3. CASE h = 2
      BY <3>1, <3>3
    <3>4. CASE h # 1 /\ h # 2
      BY <3>1, <3>4
    <3> QED
      BY <3>2, <3>3, <3>4
  <2>2. slots[j].stamp # slots[h].stamp /\ slots[l].stamp # slots[h].stamp
        /\ slots[j].stamp # slots[l].stamp
    BY <1>2, <2>1
  <2> QED
    BY <1>1, <1>5, <2>1, <2>2
<1> QED
  BY <1>4, <1>5

(* What prefix_store does for the prefix it is given, and to another.      *)
LEMMA StoreHolds ==
  ASSUME CacheTypeOK, Stamps, CacheAssumption, NumSlots > 0,
         NEW tokens \in Seq(Token), NEW n \in 1 .. Len(tokens),
         NEW st \in Seq(Token), NEW lg \in Logits, Store(tokens, n, st, lg)
  PROVE  /\ Stamps'
         /\ HeldIn(slots', clock', Upto(tokens, n), 0)
         /\ \A q : \A k \in {0, 1} : k + 1 < NumSlots /\ Held(q, k) => HeldIn(slots', clock', q, k + 1)
<1> DEFINE p == Upto(tokens, n)
<1>1. Len(tokens) \in Nat
  BY LenProperties
<1>2. p \in Seq(Token)
  BY <1>1, UptoIs
<1>3. PICK i \in SlotIds :
        /\ IsTarget(i, p)
        /\ clock' = clock + 1
        /\ slots' = [slots EXCEPT ![i] =
                       [valid |-> TRUE, tokens |-> p, state |-> st, logits |-> lg,
                        stamp |-> clock + 1]]
  BY <1>1 DEF Store, Upto, CacheAssumption
<1> DEFINE S == [valid |-> TRUE, tokens |-> p, state |-> st, logits |-> lg, stamp |-> clock + 1]
<1> HIDE DEF p
<1>4. S \in Slot /\ S.valid /\ S.tokens = p /\ S.stamp = clock + 1
  BY <1>2 DEF Slot, CacheTypeOK
<1> HIDE DEF S
<1>5. slots' = [slots EXCEPT ![i] = S]
  BY <1>3 DEF S
<1>6. /\ Stamps' /\ HeldIn(slots', clock', p, 0)
      /\ slots'[i] = S
      /\ \A j \in SlotIds : j # i => slots'[j] = slots[j]
  BY <1>3, <1>4, <1>5, Restamped
<1>7. ASSUME NEW q, NEW k \in {0, 1}, k + 1 < NumSlots, Held(q, k)
      PROVE  HeldIn(slots', clock', q, k + 1)
  <2>1. PICK h \in SlotIds :
          slots[h].valid /\ slots[h].tokens = q /\ slots[h].stamp + k >= clock
    BY <1>7 DEF Held, HeldIn
  <2>2. CASE h # i
    <3>1. slots'[h] = slots[h]
      BY <1>6, <2>2
    <3> QED
      BY <1>3, <2>1, <3>1, Ages
  <2>3. CASE h = i
    <3>1. CASE i \in Holders(p)
      <4>1. q = p
        BY <2>1, <2>3, <3>1 DEF Holders
      <4>2. slots'[i].valid /\ slots'[i].tokens = q /\ slots'[i].stamp = clock + 1
        BY <1>4, <1>6, <4>1
      <4>3. clock \in Nat
        BY DEF CacheTypeOK
      <4>4. slots'[i].stamp + (k + 1) >= clock'
        BY <1>3, <4>2, <4>3
      <4> QED
        BY <4>2, <4>4 DEF HeldIn
    <3>2. CASE i \in Free
      BY <2>1, <2>3, <3>2 DEF Free
    <3>3. CASE i \notin Holders(p) /\ i \notin Free
      <4>1. \A j \in SlotIds : slots[j].valid
        BY <1>3, <3>3 DEF IsTarget, Free
      <4>2. \A j \in SlotIds : slots[i].stamp <= slots[j].stamp
        <5>1. \A j \in SlotIds : slots[j].stamp \in Nat
          BY SlotTyped
        <5> QED
          BY <1>3, <3>3, <5>1 DEF IsTarget
      <4> QED
        BY <1>7, <2>1, <2>3, <4>1, <4>2, NotEvicted
    <3> QED
      BY <3>1, <3>2, <3>3
  <2> QED
    BY <2>2, <2>3
<1> QED
  BY <1>6, <1>7 DEF p

-----------------------------------------------------------------------------
LEMMA TurnInit == Init => TurnInv
<1> SUFFICES ASSUME Init
             PROVE  TurnInv
  OBVIOUS
<1>1. \A i \in SlotIds : slots[i].valid = FALSE /\ slots[i].stamp = 0 /\ clock = 0
  BY DEF Init, CacheInit, EmptySlot
<1>2. Len(ids) = 0 /\ reuse = 0 /\ phase = "idle" /\ served = 0
  BY DEF Init
<1> QED
  BY <1>1, <1>2 DEF TurnInv, Stamps

(* The prefix that the cache covers is now the newest.                     *)
LEMMA TurnStart == CacheAssumption /\ EngineAssumption /\ TypeOK /\ TurnInv /\ Start => TurnInv'
<1> SUFFICES ASSUME CacheAssumption, EngineAssumption, TypeOK, TurnInv, Start
             PROVE  TurnInv'
  OBVIOUS
<1>1. CacheTypeOK /\ Stamps
  BY DEF TypeOK, TurnInv
<1>2. ids' \in Seq(Token) /\ phase' = "prefill" /\ served' > 0
  BY DEF Start, EngineAssumption, TypeOK
<1>3. CASE reuse' = 0 /\ UNCHANGED <<slots, clock>>
  <2>1. Stamps'
    BY <1>1, <1>3 DEF Stamps, SlotIds
  <2>2. reuse' <= Len(ids)'
    BY <1>2, <1>3, LenProperties
  <2> QED
    BY <1>2, <1>3, <2>1, <2>2 DEF TurnInv
<1>4. ASSUME NEW i \in SlotIds, IsBest(i, ids'), reuse' = Len(slots[i].tokens), Touch(i)
      PROVE  TurnInv'
  <2> DEFINE S == [slots[i] EXCEPT !.stamp = clock + 1]
  <2>1. slots[i] \in Slot /\ slots[i].valid /\ slots[i].tokens \in Seq(Token)
    <3>1. slots[i] \in Slot
      BY <1>1 DEF CacheTypeOK
    <3>2. slots[i].valid
      BY <1>4 DEF IsBest, Resumable
    <3> QED
      BY <3>1, <3>2, SlotFields
  <2>2. S \in Slot /\ S.valid /\ S.tokens = slots[i].tokens /\ S.stamp = clock + 1
    <3>1. \A T \in Slot, n \in Nat :
            LET U == [T EXCEPT !.stamp = n]
            IN U \in Slot /\ U.valid = T.valid /\ U.tokens = T.tokens /\ U.stamp = n
      BY DEF Slot
    <3>2. clock + 1 \in Nat
      BY <1>1 DEF CacheTypeOK
    <3> QED
      BY <2>1, <3>1, <3>2
  <2>3. clock' = clock + 1 /\ slots' = [slots EXCEPT ![i] = S]
    BY <1>4 DEF Touch
  <2> HIDE DEF S
  <2>4. Stamps' /\ HeldIn(slots', clock', slots[i].tokens, 0)
    BY <1>1, <2>2, <2>3, Restamped
  <2>5. reuse' <= Len(ids') /\ Upto(ids', reuse') = slots[i].tokens
    <3>1. Agree(slots[i].tokens, ids', reuse')
      BY <1>4 DEF IsBest, Resumable
    <3>2. reuse' \in Nat
      BY <1>4, <2>1, LenProperties
    <3>3. Upto(slots[i].tokens, reuse') = Upto(ids', reuse')
      BY <1>2, <2>1, <3>1, <3>2, UptoSame DEF Agree
    <3> QED
      BY <1>4, <2>1, <3>1, <3>3, UptoAll DEF Agree
  <2>6. Held(Resumed, 0)'
    BY <2>4, <2>5 DEF Resumed, Held
  <2> QED
    BY <1>2, <2>4, <2>5, <2>6 DEF TurnInv
<1> QED
  BY <1>3, <1>4 DEF Start

LEMMA TurnChunk == TypeOK /\ TurnInv /\ PrefillChunk => TurnInv'
BY DEF PrefillChunk, TurnInv, Stamps, Held, HeldIn, Resumed, Upto, SlotIds, cacheVars, requestVars

(* The prompt's snapshot is the newest, the one resumed from comes next.   *)
LEMMA TurnEndPrefill == CacheAssumption /\ TypeOK /\ TurnInv /\ EndPrefill => TurnInv'
<1> SUFFICES ASSUME CacheAssumption, TypeOK, TurnInv, EndPrefill
             PROVE  TurnInv'
  OBVIOUS
<1>1. CacheTypeOK /\ Stamps /\ ids \in Seq(Token) /\ gdn \in Seq(Token) /\ logits \in Logits
      /\ reuse \in Nat
  BY DEF TypeOK, TurnInv
<1>2. /\ Len(ids) \in Nat /\ pos = Len(ids) /\ UNCHANGED <<ids, reuse, pos>>
      /\ phase = "prefill" /\ phase' = "decode" /\ reuse <= Len(ids)
      /\ reuse > 0 => Held(Resumed, 0)
      /\ served > 0 /\ served' = served
  BY <1>1, LenProperties DEF EndPrefill, deviceVars, requestVars, loopVars, TurnInv
<1>3. NumSlots \in Nat /\ Store(ids, Len(ids), gdn, logits)
  BY DEF CacheAssumption, EndPrefill
<1>4. NumSlots > 0 => kvTokens' = ids'
  BY <1>2, <1>3 DEF EndPrefill
<1>5. CASE NumSlots = 0 \/ ids = <<>>
  <2>1. UNCHANGED <<slots, clock>>
    BY <1>3, <1>5 DEF Store
  <2>2. NumSlots > 1 => ~ (reuse > 0)
    <3>1. ids = <<>> => Len(ids) = 0
      OBVIOUS
    <3> QED
      BY <1>1, <1>2, <1>3, <1>5, <3>1
  <2>3. Stamps'
    BY <1>1, <2>1 DEF Stamps, SlotIds
  <2>4. Primary'
    <3>1. Len(ids)' <= pos'
      BY <1>2
    <3>2. ~ (NumSlots > 0 /\ ids' # <<>>)
      BY <1>2, <1>3, <1>5
    <3> QED
      BY <1>2, <1>4, <2>2, <3>1, <3>2 DEF Primary
  <2> QED
    BY <1>2, <2>3, <2>4 DEF TurnInv
<1>6. CASE NumSlots > 0 /\ ids # <<>>
  <2>1. Len(ids) \in 1 .. Len(ids)
    BY <1>1, <1>2, <1>6, EmptySeq
  <2>2. /\ Stamps'
        /\ HeldIn(slots', clock', Upto(ids, Len(ids)), 0)
        /\ \A q : \A k \in {0, 1} : k + 1 < NumSlots /\ Held(q, k) => HeldIn(slots', clock', q, k + 1)
    BY <1>1, <1>3, <1>6, <2>1, StoreHolds
  <2>3. Upto(ids, Len(ids)) = ids
    BY <1>1, UptoAll
  <2>4. Held(ids, 0)'
    BY <1>2, <2>2, <2>3 DEF Held, HeldIn
  <2>5. NumSlots > 1 /\ reuse > 0 => Held(Resumed, 1)'
    <3>1. ASSUME NumSlots > 1, reuse > 0
          PROVE  HeldIn(slots', clock', Resumed, 1)
      <4>1. HeldIn(slots, clock, Resumed, 0) /\ 0 + 1 < NumSlots
        BY <1>2, <1>3, <3>1 DEF Held
      <4>2. HeldIn(slots', clock', Resumed, 0 + 1)
        BY <2>2, <4>1 DEF Held
      <4> QED
        BY <4>2
    <3>2. Resumed' = Resumed
      BY <1>2 DEF Resumed, Upto
    <3> QED
      BY <3>1, <3>2 DEF Held
  <2> QED
    BY <1>2, <1>4, <2>2, <2>4, <2>5 DEF TurnInv, Primary
<1> QED
  BY <1>1, <1>3, <1>5, <1>6

(* Decoding leaves the cache alone, and the position does not go back.     *)
LEMMA TurnDecode ==
  ASSUME TypeOK, TurnInv, phase = "decode", phase' \in {"decode", "finish"},
         UNCHANGED <<cacheVars, requestVars, served>>, pos' >= pos, pos' \in Nat
  PROVE  TurnInv'
<1>1. Primary /\ Stamps /\ reuse <= Len(ids) /\ Len(ids) \in Nat /\ pos \in Nat
  BY LenProperties DEF TurnInv, TypeOK
<1>2. Stamps' /\ reuse' <= Len(ids)'
  BY <1>1 DEF Stamps, SlotIds, cacheVars, requestVars
<1>3. Len(ids)' <= pos'
  BY <1>1 DEF Primary, requestVars
<1>4. Primary'
  BY <1>1, <1>3 DEF Primary, Held, HeldIn, Resumed, Upto, SlotIds, cacheVars, requestVars
<1> QED
  BY <1>2, <1>4 DEF TurnInv

(* The last snapshot is the newest, the prompt's comes next, then the one  *)
(* resumed from.                                                           *)
LEMMA TurnFinish == CacheAssumption /\ TypeOK /\ TurnInv /\ Finish => TurnInv'
<1> SUFFICES ASSUME CacheAssumption, TypeOK, TurnInv, Finish
             PROVE  TurnInv'
  OBVIOUS
<1> DEFINE all == ids \o emitted
<1>1. /\ CacheTypeOK /\ Stamps /\ Primary
      /\ ids \in Seq(Token) /\ emitted \in Seq(Token) /\ gdn \in Seq(Token) /\ logits \in Logits
      /\ reuse \in Nat /\ reuse <= Len(ids) /\ pos \in Nat
  BY DEF TypeOK, TurnInv, Finish
<1>2. /\ phase' = "idle" /\ NumSlots \in Nat
      /\ UNCHANGED <<ids, reuse, pos, emitted, served>> /\ served > 0
  BY DEF Finish, deviceVars, requestVars, loopVars, CacheAssumption, TurnInv
<1>3. all \in Seq(Token) /\ Len(all) = Len(ids) + Len(emitted) /\ Len(all) \in Nat
      /\ Len(ids) \in Nat /\ Len(emitted) \in Nat
      /\ \A k \in 1 .. Len(ids) : all[k] = ids[k]
  BY <1>1, ConcatProperties, LenProperties
<1>4. Covered \in Nat /\ Len(ids) <= Covered /\ Covered <= Len(all) /\ Covered' = Covered
  BY <1>1, <1>2, <1>3 DEF Covered, Primary
<1>5. Resumed' = Resumed /\ Upto(ids \o emitted, Covered)' = Upto(all, Covered)
  BY <1>2, <1>4 DEF Resumed, Upto
<1>6. CASE NumSlots = 0
  <2>1. Stamps'
    BY <1>6 DEF Stamps, SlotIds
  <2>2. Settled'
    BY <1>2, <1>4, <1>6 DEF Settled
  <2> QED
    BY <1>1, <1>2, <2>1, <2>2 DEF TurnInv
<1>7. CASE NumSlots > 0 /\ Covered > Len(ids)
  <2>1. Store(all, Covered, gdn, logits) /\ kvTokens' = Upto(all, Covered)
    BY <1>7 DEF Finish, Upto
  <2>2. Covered \in 1 .. Len(all)
    BY <1>3, <1>4, <1>7
  <2>3. /\ Stamps'
        /\ HeldIn(slots', clock', Upto(all, Covered), 0)
        /\ \A q : \A k \in {0, 1} : k + 1 < NumSlots /\ Held(q, k) => HeldIn(slots', clock', q, k + 1)
    BY <1>1, <1>3, <1>7, <2>1, <2>2, StoreHolds
  <2>4. NumSlots > 1 /\ ids # <<>> => HeldIn(slots', clock', ids, 1)
    <3>1. ASSUME NumSlots > 1, ids # <<>>
          PROVE  HeldIn(slots', clock', ids, 0 + 1)
      BY <1>1, <1>2, <2>3, <3>1 DEF Primary
    <3> QED
      BY <3>1
  <2>5. NumSlots > 2 /\ reuse > 0 => HeldIn(slots', clock', Resumed, 2)
    <3>1. ASSUME NumSlots > 2, reuse > 0
          PROVE  HeldIn(slots', clock', Resumed, 1 + 1)
      BY <1>1, <1>2, <2>3, <3>1 DEF Primary
    <3> QED
      BY <3>1
  <2>6. Settled'
    BY <1>2, <1>4, <1>5, <2>1, <2>3, <2>4, <2>5 DEF Settled, Held
  <2> QED
    BY <1>1, <1>2, <2>3, <2>6 DEF TurnInv
<1>8. CASE NumSlots > 0 /\ ~ (Covered > Len(ids))
  <2>1. UNCHANGED cacheVars /\ Covered = Len(ids)
    BY <1>3, <1>4, <1>8 DEF Finish
  <2>2. Upto(all, Covered) = ids
    BY <1>1, <1>3, <1>4, <2>1, UptoSame, UptoAll
  <2>3. Stamps'
    BY <1>1, <2>1 DEF Stamps, SlotIds, cacheVars
  <2>4. /\ ids # <<>> => HeldIn(slots', clock', ids, 0)
        /\ NumSlots > 1 /\ reuse > 0 => HeldIn(slots', clock', Resumed, 1)
    BY <1>1, <1>8, <2>1 DEF Primary, Held, cacheVars
  <2>5. \A q : \A k \in Nat : HeldIn(slots', clock', q, k) => HeldIn(slots', clock', q, k + 1)
    <3>1. \A i \in SlotIds : slots'[i].stamp \in Nat /\ clock' \in Nat
      BY <1>1, <2>1, SlotTyped DEF cacheVars
    <3> QED
      BY <3>1 DEF HeldIn
  <2>6. ids # <<>> => HeldIn(slots', clock', ids, 1)
    BY <2>4, <2>5
  <2>7. NumSlots > 2 /\ reuse > 0 => HeldIn(slots', clock', Resumed, 2)
    BY <1>2, <2>4, <2>5
  <2>8. Settled'
    <3>1. kvTokens' = ids
      BY <1>1, <1>8, <2>1 DEF Primary, cacheVars
    <3>2. Covered > 0 => ids # <<>>
      BY <1>1, <2>1, EmptySeq
    <3> QED
      BY <1>2, <1>4, <1>5, <2>2, <2>4, <2>6, <2>7, <3>1, <3>2 DEF Settled, Held
  <2> QED
    BY <1>1, <1>2, <2>3, <2>8 DEF TurnInv
<1> QED
  BY <1>2, <1>6, <1>7, <1>8

LEMMA TurnStep ==
  CacheAssumption /\ EngineAssumption /\ TypeOK /\ TypeOK' /\ TurnInv /\ [Next]_vars => TurnInv'
<1> SUFFICES ASSUME CacheAssumption, EngineAssumption, TypeOK, TypeOK', TurnInv, [Next]_vars
             PROVE  TurnInv'
  OBVIOUS
<1>1. CASE Start
  BY <1>1, TurnStart
<1>2. CASE PrefillChunk
  BY <1>2, TurnChunk
<1>3. CASE EndPrefill
  BY <1>3, TurnEndPrefill
<1>4. CASE Finish
  BY <1>4, TurnFinish
<1>5. pos \in Nat /\ pos' \in Nat /\ pos <= pos
  BY DEF TypeOK
<1>6. CASE Route \/ Sample
  BY <1>5, <1>6, TurnDecode DEF Route, Sample, deviceVars
<1>7. CASE SpecRound
  <2>1. pos' = pos \/ pos' = pos + Len(pending')
    BY <1>7 DEF SpecRound
  <2>2. Len(pending') \in Nat
    BY LenProperties DEF TypeOK
  <2>3. pos' >= pos
    BY <1>5, <2>1, <2>2
  <2> QED
    BY <1>5, <1>7, <2>3, TurnDecode DEF SpecRound
<1>8. CASE Emit
  <2>1. pos' = pos \/ pos' = pos + Len(<<Head(pending)>>)
    BY <1>8 DEF Emit, Forward
  <2>2. pos' >= pos
    BY <1>5, <2>1
  <2> QED
    BY <1>5, <1>8, <2>2, TurnDecode DEF Emit
<1>9. CASE UNCHANGED vars
  BY <1>9 DEF vars, cacheVars, requestVars, loopVars, TurnInv, Stamps, Primary, Settled, Covered,
              Held, HeldIn, Resumed, Upto, SlotIds
<1> QED
  BY <1>1, <1>2, <1>3, <1>4, <1>6, <1>7, <1>8, <1>9 DEF Next

LEMMA TurnsAlways == Spec => [](TypeOK /\ TurnInv /\ NoDuplicateSlots)
<1>1. TypeOK /\ TypeOK' /\ TurnInv /\ [Next]_vars => TurnInv'
  BY TurnStep, CacheAssumption, EngineAssumption
<1> QED
  BY <1>1, TurnInit, TypeCorrect, NoDuplicates, PTL DEF Spec

-----------------------------------------------------------------------------
(* A lookup finds a prefix that is held and known to be in the arena, if   *)
(* no longer one is: the slot is the only one with these tokens.           *)
LEMMA Finds ==
  ASSUME CacheTypeOK, NoDuplicateSlots, NEW t \in Seq(Token), NEW n \in Nat \ {0}, NEW k,
         n <= Len(t), n <= Len(kvTokens), Agree(t, kvTokens, n), Held(Upto(t, n), k),
         \A i \in Resumable(t) : Len(slots[i].tokens) <= n
  PROVE  Reusable(t) = n
<1>1. PICK i \in SlotIds : slots[i].valid /\ slots[i].tokens = Upto(t, n)
  BY DEF Held, HeldIn
<1>2. Upto(t, n) \in Seq(Token) /\ Len(Upto(t, n)) = n /\ \A j \in 1 .. n : Upto(t, n)[j] = t[j]
  BY UptoIs
<1>3. i \in Resumable(t)
  <2>1. slots[i].tokens # <<>>
    <3>1. Len(slots[i].tokens) # 0
      BY <1>1, <1>2
    <3> QED
      BY <3>1
  <2>2. Agree(slots[i].tokens, t, Len(slots[i].tokens))
    BY <1>1, <1>2 DEF Agree
  <2> QED
    BY <1>1, <1>2, <2>1, <2>2 DEF Resumable
<1>4. ASSUME NEW j \in Resumable(t), Len(slots[j].tokens) = n
      PROVE  j = i
  <2>1. j \in SlotIds /\ slots[j].valid /\ slots[j].tokens \in Seq(Token)
        /\ Agree(slots[j].tokens, t, n)
    BY <1>4, SlotTyped DEF Resumable
  <2>2. slots[j].tokens = Upto(t, n)
    <3>1. \A m \in 1 .. n : slots[j].tokens[m] = Upto(t, n)[m]
      BY <1>2, <2>1 DEF Agree
    <3> QED
      BY <1>2, <1>4, <2>1, <3>1, SeqEqual
  <2> QED
    BY <1>1, <2>1, <2>2 DEF NoDuplicateSlots
<1>5. \A j \in Resumable(t) : j \in SlotIds /\ Len(slots[j].tokens) \in Nat
  <2>1. \A j \in Resumable(t) : j \in SlotIds
    BY DEF Resumable
  <2> QED
    BY <2>1, SlotTyped, LenProperties
<1>6. IsBest(i, t)
  <2>1. \A j \in Resumable(t) :
          \/ Len(slots[j].tokens) < Len(slots[i].tokens)
          \/ Len(slots[j].tokens) = Len(slots[i].tokens) /\ i <= j
    <3>1. i <= i
      BY DEF SlotIds
    <3> QED
      BY <1>1, <1>2, <1>4, <1>5, <3>1
  <2> QED
    BY <1>3, <2>1 DEF IsBest
<1>7. ASSUME NEW j \in SlotIds, IsBest(j, t)
      PROVE  Len(slots[j].tokens) = n
  BY <1>1, <1>2, <1>3, <1>5, <1>7 DEF IsBest
<1>8. IsBest(CHOOSE j \in SlotIds : IsBest(j, t), t) /\ (CHOOSE j \in SlotIds : IsBest(j, t)) \in SlotIds
  BY <1>6
<1> QED
  BY <1>3, <1>7, <1>8 DEF Reusable

LEMMA FindsNothing ==
  ASSUME NEW t \in Seq(Token), CacheTypeOK, Len(t) = 0 \/ Len(kvTokens) = 0
  PROVE  Reusable(t) = 0
<1>1. Resumable(t) = {}
  <2> SUFFICES ASSUME NEW i \in Resumable(t)
               PROVE  FALSE
    OBVIOUS
  <2>1. i \in SlotIds /\ slots[i].tokens # <<>> /\ Len(slots[i].tokens) <= 0
    BY DEF Resumable, Agree
  <2>2. slots[i].tokens \in Seq(Token)
    BY <2>1, SlotTyped
  <2> QED
    BY <2>1, <2>2, EmptySeq, LenProperties
<1> QED
  BY <1>1 DEF Reusable

LEMMA Settles ==
  ASSUME CacheAssumption, TypeOK, TurnInv, NoDuplicateSlots
  PROVE  TurnsResume
<1> DEFINE all == ids \o emitted
<1>1. /\ CacheTypeOK /\ ids \in Seq(Token) /\ emitted \in Seq(Token)
      /\ reuse \in Nat /\ pos \in Nat /\ NumSlots \in Nat /\ reuse <= Len(ids)
  BY DEF TypeOK, TurnInv, CacheAssumption
<1>2. all \in Seq(Token) /\ Len(all) = Len(ids) + Len(emitted) /\ Len(all) \in Nat
      /\ Len(ids) \in Nat /\ Len(emitted) \in Nat
      /\ \A k \in 1 .. Len(ids) : all[k] = ids[k]
  BY <1>1, ConcatProperties, LenProperties
<1>3. ASSUME phase = "idle", served > 0, NumSlots >= 1
      PROVE  Reusable(all) = Covered /\ (NumSlots >= 2 => Reusable(ids) = Len(ids))
  <2> DEFINE c == Covered
  <2>1. /\ Len(ids) <= c /\ kvTokens = Upto(all, c)
        /\ c > 0 => Held(Upto(all, c), 0)
        /\ NumSlots >= 2 /\ ids # <<>> => Held(ids, 1)
    BY <1>1, <1>3 DEF TurnInv, Settled
  <2>2. c \in Nat /\ c <= Len(all)
    BY <1>1, <1>2 DEF Covered
  <2> HIDE DEF c, all
  <2>3. Len(kvTokens) = c /\ \A k \in 1 .. c : kvTokens[k] = all[k]
    BY <1>2, <2>1, <2>2, UptoIs
  <2>4. \A t : \A i \in Resumable(t) : Len(slots[i].tokens) <= Len(t) /\ Len(slots[i].tokens) <= c
    BY <2>3 DEF Resumable, Agree
  <2>5. Reusable(all) = c
    <3>1. CASE c = 0
      BY <1>1, <1>2, <2>3, <3>1, FindsNothing
    <3>2. CASE c # 0
      <4>1. Agree(all, kvTokens, c)
        BY <2>2, <2>3 DEF Agree
      <4>2. c \in Nat \ {0} /\ c > 0
        BY <2>2, <3>2
      <4> QED
        BY <1>1, <1>2, <2>1, <2>2, <2>3, <2>4, <4>1, <4>2, Finds
    <3> QED
      BY <3>1, <3>2
  <2>6. ASSUME NumSlots >= 2
        PROVE  Reusable(ids) = Len(ids)
    <3>1. CASE ids = <<>>
      <4>1. Len(ids) = 0
        BY <3>1
      <4> QED
        BY <1>1, <4>1, FindsNothing
    <3>2. CASE ids # <<>>
      <4>1. Len(ids) \in Nat \ {0}
        BY <1>1, <1>2, <3>2, EmptySeq
      <4>2. Agree(ids, kvTokens, Len(ids))
        BY <1>2, <2>1, <2>2, <2>3 DEF Agree
      <4>3. Held(Upto(ids, Len(ids)), 1)
        BY <1>1, <2>1, <2>6, <3>2, UptoAll
      <4>4. Len(ids) <= Len(kvTokens) /\ Len(ids) <= Len(ids)
        BY <1>2, <2>1, <2>3
      <4> QED
        BY <1>1, <2>4, <4>1, <4>2, <4>3, <4>4, Finds
    <3> QED
      BY <3>1, <3>2
  <2> QED
    BY <2>5, <2>6 DEF c
<1>4. ASSUME NumSlots >= 3, reuse > 0
      PROVE  Holders(SubSeq(ids, 1, reuse)) # {}
  <2>1. \E k : Held(Resumed, k)
    <3>1. CASE phase = "prefill"
      BY <1>4, <3>1 DEF TurnInv
    <3>2. CASE phase \in {"decode", "finish"}
      BY <1>1, <1>4, <3>2 DEF TurnInv, Primary
    <3>3. CASE phase = "idle"
      BY <1>1, <1>4, <3>3 DEF TurnInv, Settled
    <3> QED
      BY <3>1, <3>2, <3>3 DEF TypeOK
  <2> QED
    BY <2>1 DEF Held, HeldIn, Resumed, Upto, Holders
<1> QED
  BY <1>3, <1>4 DEF TurnsResume

(* For any number of slots, prompts and requests: a prompt that is sent    *)
(* again is fully covered, the next turn resumes at the last token that    *)
(* went through the model, and a request does not evict what it resumed    *)
(* from (prefix.h:99-101, server.cpp:498-501).                             *)
THEOREM ConversationsResume == Spec => []TurnsResume
<1>1. TypeOK /\ TurnInv /\ NoDuplicateSlots => TurnsResume
  BY Settles, CacheAssumption
<1> QED
  BY <1>1, TurnsAlways, PTL
===============================================================================
