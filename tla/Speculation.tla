----------------------------- MODULE Speculation -----------------------------
(***************************************************************************)
(* Greedy generation by speculative rounds (src/spec/spec.cu): the loop of *)
(* spec_generate, whose round is also spec_round, the one the server runs. *)
(* A round takes the free token, verifies it together with a draft in one  *)
(* forward pass, accepts the longest prefix the target agrees with, and    *)
(* takes the recurrent state back to it: the seed that was saved before    *)
(* the pass is restored and the captured rows of the accepted prefix are   *)
(* replayed, and the convolution's window is sliced out of the captured    *)
(* inputs.                                                                 *)
(*                                                                         *)
(* The recurrent state is Recurrence's. `kv` is one attention layer's rows *)
(* of the KV arena, the token each was computed from. Logits are the token *)
(* sequence they are the distribution after, or Garbled when state and     *)
(* rows disagree. A draft may be anything, the empty one stands for        *)
(* "no match" and for the cooldown of an unprofitable drafter alike.       *)
(*                                                                         *)
(* A definition marked "a fault" is the one after it with a bug put in; no *)
(* specification uses it. It shows that a property can tell.               *)
(***************************************************************************)
EXTENDS Recurrence

CONSTANTS
  StopToken,     \* the end-of-sequence tokens
  Argmax(_),     \* the model's greedy next token after a sequence
  Prompts,       \* the prompts a behaviour may begin with
  MaxNew,        \* tokens asked for
  MaxK,          \* most tokens a draft has
  MaxBatch,      \* prefill chunk
  MaxCtx         \* rows of the KV arena

ASSUME SpeculationAssumption ==
  /\ StopToken \subseteq Token
  /\ MaxNew \in Nat
  /\ MaxK \in Nat
  /\ MaxBatch \in Nat \ {0}
  /\ MaxCtx \in Nat
  /\ Prompts \subseteq Seq(Token)
  /\ \A p \in Prompts : Len(p) > 0 /\ Len(p) + MaxNew + MaxK <= MaxCtx

VARIABLES
  state, window, kv, logits,      \* the device
  stateBak, windowBak,            \* the seed saved before a verification
  preConv, postConv,              \* captured: inputs and rows of the block
  blockLogits,                    \* logits of every position of the block
  prompt, pc, pos, out, block

modelVars == <<state, window, kv, logits>>
specVars == <<stateBak, windowBak, preConv, postConv, blockLogits>>
loopVars == <<prompt, pc, pos, out, block>>
vars == <<modelVars, specVars, loopVars>>

Garbled == <<NoToken>>

Logits == Seq(Token) \cup {Garbled}

Captured == 1 .. MaxK + 1      \* rows of the capture buffers

TypeOK ==
  /\ state \in Seq(Row) /\ stateBak \in Seq(Row)
  /\ window \in Window /\ windowBak \in Window
  /\ kv \in [1 .. MaxCtx -> Input]
  /\ logits \in Logits
  /\ preConv \in [Captured -> Input]
  /\ postConv \in [Captured -> Row]
  /\ blockLogits \in Seq(Logits)
  /\ prompt \in Prompts
  /\ pc \in {"prefill", "head", "draft", "verify", "commit", "done"}
  /\ pos \in Nat
  /\ out \in Seq(Token)
  /\ block \in Seq(Token)

(* The callers clear the recurrent state first; logits and the capture     *)
(* buffers are as they were allocated.                                     *)
Init ==
  /\ state = <<>> /\ stateBak = <<>>
  /\ window = Quiet /\ windowBak = Quiet
  /\ kv = [p \in 1 .. MaxCtx |-> NoToken]
  /\ logits = Garbled
  /\ preConv = [i \in Captured |-> NoToken]
  /\ postConv = [i \in Captured |-> [j \in 1 .. ConvK |-> NoToken]]
  /\ blockLogits = <<>>
  /\ prompt \in Prompts
  /\ pc = "prefill"
  /\ pos = 0 /\ out = <<>> /\ block = <<>>

-----------------------------------------------------------------------------
(* A forward pass over s at pos starts from the window kept, or from zeros *)
(* at position 0.                                                          *)
Seed == IF pos > 0 THEN window ELSE Quiet

(* The KV rows after s was written from row pos + 1 on. *)
Written(s) ==
  [p \in 1 .. MaxCtx |-> IF p - pos \in 1 .. Len(s) THEN s[p - pos] ELSE kv[p]]

(* The distribution computed from the state st and the first n rows of k. *)
Distribution(st, k, n) ==
  LET seen == [p \in 1 .. n |-> k[p]]
  IN IF (\A p \in 1 .. n : k[p] \in Token) /\ st = StateOf(seen) THEN seen ELSE Garbled

(* What a forward pass over s does to state, window and KV. *)
Absorb(s) ==
  /\ state' = Scan(state, ConvRows(Seed, s))
  /\ window' = ConvWindow(Seed, s)
  /\ kv' = Written(s)

Forward(s) ==
  /\ Absorb(s)
  /\ pos' = pos + Len(s)
  /\ logits' = Distribution(state', kv', pos')

Prefill ==
  /\ pc = "prefill" /\ pos < Len(prompt)
  /\ \E n \in 1 .. MaxBatch :
       /\ pos + n <= Len(prompt)
       /\ n = MaxBatch \/ pos + n = Len(prompt)
       /\ Forward(SubSeq(prompt, pos + 1, pos + n))
  /\ pc' = IF pos' = Len(prompt) THEN "head" ELSE "prefill"
  /\ UNCHANGED <<specVars, prompt, out, block>>

(* The free token: the step before has already computed it. *)
TakeFree ==
  /\ pc = "head"
  /\ IF Len(out) < MaxNew
     THEN /\ out' = Append(out, Argmax(logits))
          /\ block' = <<Argmax(logits)>>
          /\ pc' = IF Argmax(logits) \in StopToken \/ Len(out') >= MaxNew
                   THEN "done" ELSE "draft"
     ELSE pc' = "done" /\ UNCHANGED <<out, block>>
  /\ UNCHANGED <<modelVars, specVars, prompt, pos>>

(* Nothing to verify: a plain step. *)
Decode ==
  /\ pc = "draft"
  /\ Forward(block)
  /\ pc' = "head"
  /\ UNCHANGED <<specVars, prompt, out, block>>

(* spec_begin_block: save the seed. *)
BeginBlock ==
  /\ stateBak' = state
  /\ windowBak' = window

Draft ==
  /\ pc = "draft"
  /\ \E n \in 1 .. MaxK : \E d \in [1 .. n -> Token] : block' = block \o d
  /\ BeginBlock
  /\ pc' = "verify"
  /\ UNCHANGED <<modelVars, preConv, postConv, blockLogits, prompt, pos, out>>

(* model_verify_block: one pass over the block, capturing what the scan is *)
(* fed before it advances; the logits of position i follow from the state  *)
(* after i rows of the block and from the KV rows up to it.                *)
Verify ==
  /\ pc = "verify"
  /\ Absorb(block)
  /\ preConv' = [i \in Captured |-> IF i <= Len(block) THEN block[i] ELSE preConv[i]]
  /\ postConv' = [i \in Captured |->
                    IF i <= Len(block) THEN ConvRows(Seed, block)[i] ELSE postConv[i]]
  /\ blockLogits' = [i \in 1 .. Len(block) |->
       Distribution(Scan(state, SubSeq(ConvRows(Seed, block), 1, i)), kv', pos + i)]
  /\ pc' = "commit"
  /\ UNCHANGED <<logits, stateBak, windowBak, prompt, pos, out, block>>

(* accept_greedy: the drafts accepted are the longest prefix in which each *)
(* is what the target says at its position.                                *)
Drafted == Len(block) - 1

TargetSays(i) == Argmax(blockLogits[i])

IsAcceptedShifted(a) ==                                       \* a fault
  /\ a \in 0 .. Drafted
  /\ \A i \in 1 .. a : block[i + 1] = TargetSays(i + 1)
  /\ a < Drafted => block[a + 2] # TargetSays(a + 2)

IsAccepted(a) ==
  /\ a \in 0 .. Drafted
  /\ \A i \in 1 .. a : block[i + 1] = TargetSays(i)
  /\ a < Drafted => block[a + 2] # TargetSays(a + 1)

RollbackOneShort(n) ==                                        \* a fault
  /\ state' = Scan(stateBak, [i \in 1 .. n - 1 |-> postConv[i]])
  /\ window' = WindowAfter(windowBak, preConv, n)

(* spec_rollback: the seed, and the replay of n captured rows behind it. *)
Rollback(n) ==
  IF n <= 0
  THEN state' = stateBak /\ window' = windowBak
  ELSE /\ state' = Scan(stateBak, [i \in 1 .. n |-> postConv[i]])
       /\ window' = WindowAfter(windowBak, preConv, n)

(* The rest of a round. The correction becomes the next free token; when   *)
(* it ends the sequence it is handed out at once.                          *)
Commit ==
  /\ pc = "commit"
  /\ \E a \in 0 .. Drafted :
       /\ IsAccepted(a)
       /\ IF a + 1 < Len(block) THEN Rollback(a + 1) ELSE UNCHANGED <<state, window>>
       /\ pos' = pos + a + 1
       /\ logits' = blockLogits[a + 1]
       /\ IF TargetSays(a + 1) \in StopToken
          THEN /\ out' = Append(out \o SubSeq(block, 2, a + 1), TargetSays(a + 1))
               /\ pc' = "done"
          ELSE /\ out' = out \o SubSeq(block, 2, a + 1)
               /\ pc' = "head"
  /\ UNCHANGED <<kv, specVars, prompt, block>>

Next == Prefill \/ TakeFree \/ Decode \/ Draft \/ Verify \/ Commit

Spec == Init /\ [][Next]_vars

-----------------------------------------------------------------------------
Committed == prompt \o out

(***************************************************************************)
(* At the head of the loop the device is where plain decoding would have   *)
(* left it, whatever was drafted, accepted and rolled back on the way:     *)
(* recurrent state, convolution window, KV rows and logits all belong to   *)
(* exactly the committed tokens (spec.h:8-20).                             *)
(***************************************************************************)
Restored ==
  pc = "head" =>
    /\ pos = Len(Committed)
    /\ state = StateOf(Committed)
    /\ window = WindowAfter(Quiet, Committed, Len(Committed))
    /\ \A p \in 1 .. pos : kv[p] = Committed[p]
    /\ logits = Committed

(***************************************************************************)
(* Every token handed out is the model's own greedy choice after the       *)
(* tokens before it: speculation is lossless (spec.h:134-136).             *)
(***************************************************************************)
Lossless ==
  \A j \in 1 .. Len(out) : out[j] = Argmax(prompt \o SubSeq(out, 1, j - 1))

=============================================================================
