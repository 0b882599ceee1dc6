-------------------------------- MODULE Engine --------------------------------
(***************************************************************************)
(* One request at a time through generate() (src/server/server.cpp), over  *)
(* the prefix cache and the device state it resumes from. g_engine         *)
(* serialises the requests, so a behaviour is a sequence of requests, each *)
(* of them: look up and restore, prefill in chunks, snapshot, decode       *)
(* plainly or by speculative rounds, snapshot again.                       *)
(*                                                                         *)
(* The model is an oracle: Argmax(s) is its greedy next token after the    *)
(* tokens s. Device buffers hold provenance: `gdn` is the sequence of      *)
(* tokens the recurrent state has absorbed, `arena[l][p]` names the layer  *)
(* and the token whose key and value fill row p of attention layer l's     *)
(* part of the KV arena (rows count from 1), and `logits` is the sequence  *)
(* they are the distribution after, or Garbled when a forward pass read a  *)
(* state or rows that do not belong together.                              *)
(*                                                                         *)
(* How a round rolls the recurrent state back is SpecRound's matter; how   *)
(* the drafter's own cache follows is DraftCache's.                        *)
(***************************************************************************)
EXTENDS PrefixCache

CONSTANTS
  StopToken,     \* the end-of-sequence tokens
  Argmax(_),     \* the model's greedy next token after a sequence
  Prompts,       \* the token sequences requests arrive with
  MaxCtx,        \* rows of a layer's part of the KV arena
  NumLayers,     \* attention layers, one part of the arena after the other
  MaxNew,        \* bound on the tokens a request may ask for
  Chunk,         \* --prefill-chunk (m.max_batch)
  BlockSize,     \* the drafter's block, 8 in the checkpoint
  HasDraft,      \* was the server started with --draft?
  MinRounds,     \* rounds of evidence before speculation may be left, 8
  MaxRequests    \* bound on the requests of a behaviour

ASSUME EngineAssumption ==
  /\ StopToken \subseteq Token
  /\ Prompts \subseteq Seq(Token)
  /\ MaxCtx \in Nat
  /\ NumLayers \in Nat \ {0}
  /\ MaxNew \in Nat
  /\ Chunk \in Nat \ {0}
  /\ BlockSize \in 1 .. MaxCtx
  /\ HasDraft \in BOOLEAN
  /\ MinRounds \in Nat
  /\ MaxRequests \in Nat

VARIABLES
  gdn, logits, arena,   \* the device
  phase,                \* where generate() is: idle, prefill, decode, finish
  ids, maxNew,          \* the request
  exact,                \* must it get the likeliest token every time?
  reuse,                \* prompt tokens the cache covered
  pos,                  \* position of the next token to be written
  specOn,               \* speculate (use_spec, then spec_on)
  rounds,               \* speculative rounds of this request, up to MinRounds
  pending,              \* committed but not yet emitted
  emitted,              \* handed to the client
  served                \* requests begun

deviceVars == <<gdn, logits, arena>>
requestVars == <<ids, maxNew, exact, reuse>>
loopVars == <<pos, specOn, rounds, pending, emitted>>
vars == <<cacheVars, deviceVars, requestVars, loopVars, phase, served>>

Layers == 1 .. NumLayers

Unwritten == <<0, NoToken>>    \* an arena row before its first write

TypeOK ==
  /\ CacheTypeOK
  /\ gdn \in Seq(Token)
  /\ logits \in Logits
  /\ arena \in [Layers -> [1 .. MaxCtx -> (Layers \X Token) \cup {Unwritten}]]
  /\ phase \in {"idle", "prefill", "decode", "finish"}
  /\ ids \in Seq(Token)
  /\ maxNew \in Nat
  /\ exact \in BOOLEAN
  /\ reuse \in Nat
  /\ pos \in Nat
  /\ specOn \in BOOLEAN
  /\ rounds \in 0 .. MinRounds
  /\ pending \in Seq(Token)
  /\ emitted \in Seq(Token)
  /\ served \in 0 .. MaxRequests

Init ==
  /\ CacheInit
  /\ gdn = <<>>
  /\ logits = Garbled
  /\ arena = [l \in Layers |-> [p \in 1 .. MaxCtx |-> Unwritten]]
  /\ phase = "idle"
  /\ ids = <<>> /\ maxNew = 0 /\ exact = TRUE /\ reuse = 0
  /\ pos = 0 /\ specOn = FALSE /\ rounds = 0 /\ pending = <<>> /\ emitted = <<>>
  /\ served = 0

-----------------------------------------------------------------------------
(* The KV arena after every layer wrote s from row p + 1 on. attn_prepare  *)
(* checks no bound: rows past the end of a layer's part are the first rows *)
(* of the next layer's, which that layer's own rows do not repair.         *)
Written(s, p) ==
  [l \in Layers |-> [q \in 1 .. MaxCtx |->
     IF q - p \in 1 .. Len(s) THEN <<l, s[q - p]>>
     ELSE IF l > 1 /\ q + MaxCtx - p \in 1 .. Len(s) THEN <<l - 1, s[q + MaxCtx - p]>>
     ELSE arena[l][q]]]

(* What the logits stand for after a forward pass that left the state `st` *)
(* and attended to the first n rows of every layer of the arena kv.        *)
Distribution(st, kv, n) ==
  IF /\ Len(st) = n
     /\ \A l \in Layers, q \in 1 .. MaxCtx : q <= n => kv[l][q] = <<l, st[q]>>
  THEN st
  ELSE Garbled

(* A forward pass over s at position pos: every token is absorbed by the   *)
(* recurrent state and written to the KV arena; the logits are those of    *)
(* the last position.                                                      *)
Forward(s) ==
  /\ gdn' = gdn \o s
  /\ arena' = Written(s, pos)
  /\ pos' = pos + Len(s)
  /\ logits' = Distribution(gdn', arena', pos')

(* A request of n tokens at most, past the handler's checks: the prompt is *)
(* shorter than the context and the answer leaves one position free.       *)
Admitted(prompt, n) ==
  /\ Len(prompt) < MaxCtx
  /\ n <= MaxCtx - Len(prompt) - 1

(* Lookup, the decision to speculate, and restore or cold start. A hit on  *)
(* the whole prompt leaves no prefill, so nothing would prime the drafter. *)
(* A request of temperature 0 without penalties is exact, and greedy. One  *)
(* of a positive temperature with top_k = 1 is greedy only: it may be      *)
(* speculated (server.cpp:248), and is drawn at random wherever it is not  *)
(* (sampling.cu:222).                                                      *)
Start ==
  /\ phase = "idle"
  /\ served < MaxRequests
  /\ \E prompt \in Prompts, n \in 1 .. MaxNew, greedy, speculative \in BOOLEAN :
       /\ Admitted(prompt, n)
       /\ ids' = prompt /\ maxNew' = n
       /\ exact' \in {greedy, FALSE}
       /\ \/ /\ Resumable(prompt) = {}
             /\ reuse' = 0
             /\ gdn' = <<>>
             /\ UNCHANGED <<slots, clock, logits>>
          \/ \E i \in SlotIds :
               /\ IsBest(i, prompt)
               /\ reuse' = Len(slots[i].tokens)
               /\ gdn' = slots[i].state
               /\ logits' = slots[i].logits
               /\ Touch(i)
       /\ specOn' = (HasDraft /\ greedy /\ speculative /\ reuse' < Len(prompt))
  /\ pos' = reuse'
  /\ rounds' = 0 /\ pending' = <<>> /\ emitted' = <<>>
  /\ phase' = "prefill"
  /\ served' = served + 1
  /\ UNCHANGED <<kvTokens, arena>>

PrefillWholeChunks ==                                         \* a fault
  /\ phase = "prefill"
  /\ pos + Chunk <= Len(ids)
  /\ Forward(SubSeq(ids, pos + 1, pos + Chunk))
  /\ UNCHANGED <<cacheVars, requestVars, specOn, rounds, pending, emitted, phase, served>>

PrefillChunk ==
  /\ phase = "prefill"
  /\ pos < Len(ids)
  /\ \E n \in 1 .. Chunk :
       /\ n = Chunk \/ pos + n = Len(ids)
       /\ pos + n <= Len(ids)
       /\ Forward(SubSeq(ids, pos + 1, pos + n))
  /\ UNCHANGED <<cacheVars, requestVars, specOn, rounds, pending, emitted, phase, served>>

(* The snapshot at the end of the prompt. *)
EndPrefill ==
  /\ phase = "prefill"
  /\ pos = Len(ids)
  /\ IF NumSlots = 0 THEN UNCHANGED kvTokens ELSE kvTokens' = ids
  /\ Store(ids, Len(ids), gdn, logits)
  /\ phase' = "decode"
  /\ UNCHANGED <<deviceVars, requestVars, loopVars, served>>

RouteMidBlock ==                                              \* a fault
  /\ phase = "decode"
  /\ specOn
  /\ rounds = MinRounds /\ rounds > 0
  /\ specOn' = FALSE
  /\ UNCHANGED <<cacheVars, deviceVars, requestVars, pos, rounds, pending, emitted,
                 phase, served>>

(* Give speculation up once it has been measured to be slower than plain   *)
(* decode; the measurement itself may come out either way.                 *)
Route ==
  /\ phase = "decode" /\ pending = <<>>
  /\ specOn
  /\ rounds = MinRounds /\ rounds > 0
  /\ specOn' = FALSE
  /\ UNCHANGED <<cacheVars, deviceVars, requestVars, pos, rounds, pending, emitted,
                 phase, served>>

(* Plain decode picks one token: the argmax for a request that is exact,   *)
(* or any. Top_k = 1 leaves at least two to draw from (Sampler, TopKHolds).*)
Sample ==
  /\ phase = "decode" /\ pending = <<>>
  /\ ~ specOn
  /\ \E t \in Token :
       /\ exact => t = Argmax(logits)
       /\ pending' = <<t>>
  /\ UNCHANGED <<cacheVars, deviceVars, requestVars, pos, specOn, rounds, emitted,
                 phase, served>>

(* accept_greedy: d[j] is accepted while it is what the target itself says *)
(* after t0 and the drafts before it, with the block in the arena kv.      *)
TargetSays(t0, d, j, kv) ==
  Argmax(Distribution(gdn \o <<t0>> \o SubSeq(d, 1, j - 1), kv, pos + j))

AcceptsOneMore(t0, d, a, kv) ==                               \* a fault
  \A j \in 1 .. a - 1 : d[j] = TargetSays(t0, d, j, kv)

Accepts(t0, d, a, kv) ==
  /\ \A j \in 1 .. a : d[j] = TargetSays(t0, d, j, kv)
  /\ a < Len(d) => d[a + 1] # TargetSays(t0, d, a + 1, kv)

(* One speculative round: the free token, a draft of any quality, the      *)
(* verification that writes the KV of the whole block, acceptance, and the *)
(* rollback that leaves the recurrent state after the accepted prefix.     *)
SpecRound ==
  /\ phase = "decode" /\ pending = <<>>
  /\ specOn
  /\ rounds' = IF rounds < MinRounds THEN rounds + 1 ELSE rounds
  /\ \E t0 \in Token :
       /\ t0 = Argmax(logits)
       /\ \/ /\ t0 \in StopToken
             /\ pending' = <<t0>>
             /\ UNCHANGED <<deviceVars, pos>>
          \/ /\ t0 \notin StopToken
             /\ \E d \in [1 .. BlockSize - 1 -> Token], a \in 0 .. BlockSize - 1 :
                  /\ arena' = Written(<<t0>> \o d, pos)
                  /\ Accepts(t0, d, a, arena')
                  /\ pending' = <<t0>> \o SubSeq(d, 1, a)
             /\ gdn' = gdn \o pending'
             /\ pos' = pos + Len(pending')
             /\ logits' = Distribution(gdn', arena', pos')
  /\ UNCHANGED <<cacheVars, requestVars, specOn, emitted, phase, served>>

(* Pop the next token and emit it. The loop ends on a stop token, when the *)
(* client is gone or a stop string matches (either may be at any token),   *)
(* or at the length limit; else the plain path steps the model.            *)
Emit ==
  /\ phase = "decode" /\ pending # <<>>
  /\ LET t == Head(pending) IN
       /\ pending' = Tail(pending)
       /\ emitted' = Append(emitted, t)
       /\ \/ /\ phase' = "finish"
             /\ UNCHANGED <<deviceVars, pos>>
          \/ /\ t \notin StopToken
             /\ Len(emitted') < maxNew
             /\ phase' = "decode"
             /\ IF specOn THEN UNCHANGED <<deviceVars, pos>> ELSE Forward(<<t>>)
  /\ UNCHANGED <<cacheVars, requestVars, specOn, rounds, served>>

CoveredAll == Len(ids \o emitted)                             \* a fault

(* How many tokens the last snapshot is filed under. *)
Covered == IF pos <= Len(ids \o emitted) THEN pos ELSE Len(ids \o emitted)

(* The snapshot at the end of generation. *)
Finish ==
  /\ phase = "finish"
  /\ IF NumSlots > 0 /\ Covered > Len(ids)
     THEN /\ kvTokens' = SubSeq(ids \o emitted, 1, Covered)
          /\ Store(ids \o emitted, Covered, gdn, logits)
     ELSE UNCHANGED cacheVars
  /\ phase' = "idle"
  /\ UNCHANGED <<deviceVars, requestVars, loopVars, served>>

Next == Start \/ PrefillChunk \/ EndPrefill \/ Route \/ Sample \/ SpecRound \/ Emit \/ Finish

Spec == Init /\ [][Next]_vars

(* Within generate() the thread that holds g_engine always runs on. *)
Working == PrefillChunk \/ EndPrefill \/ Route \/ Sample \/ SpecRound \/ Emit \/ Finish

FairSpec == Spec /\ WF_vars(Working)

-----------------------------------------------------------------------------
(***************************************************************************)
(* What the cache believes of the KV arena is so: outside of prefill, the  *)
(* rows of kvTokens hold exactly those tokens (prefix.h:74-78). Prefill    *)
(* overwrites rows first and records them when it is done, rejected drafts *)
(* and abandoned requests leave rows behind.                               *)
(***************************************************************************)
KvTruthful ==
  phase # "prefill" =>
    /\ Len(kvTokens) <= MaxCtx
    /\ \A l \in Layers, p \in 1 .. MaxCtx :
         p <= Len(kvTokens) => arena[l][p] = <<l, kvTokens[p]>>

(***************************************************************************)
(* The answer to a request of temperature 0 is the model's own greedy      *)
(* continuation of its prompt, whatever was cached, however prefill was    *)
(* chunked, and whether or not it was produced by speculative rounds       *)
(* (spec.h:134-136, server.cpp:267-273).                                   *)
(***************************************************************************)
Lossless ==
  exact => \A j \in 1 .. Len(emitted) :
             emitted[j] = Argmax(ids \o SubSeq(emitted, 1, j - 1))

(***************************************************************************)
(* At an empty deque either decode path can take over: the logits are      *)
(* those for position pos, and pos is the number of tokens the model has   *)
(* absorbed, the prompt and all that was emitted (server.cpp:385-387).     *)
(***************************************************************************)
EmptyDequeCoherent ==
  (phase = "decode" /\ pending = <<>>) =>
    /\ pos = Len(ids) + Len(emitted)
    /\ gdn = ids \o emitted
    /\ logits = ids \o emitted

(***************************************************************************)
(* A conversation finds its snapshots again. A prompt sent once more is    *)
(* fully covered, given two slots: the snapshot at the end of its prefill  *)
(* survives the one at the end of its generation (prefix.h:99-101). The    *)
(* next turn resumes at the last token that went through the model, with   *)
(* one slot already (server.cpp:498-501). And with three, a request does   *)
(* not evict the snapshot it resumed from itself.                          *)
(***************************************************************************)
TurnsResume ==
  /\ phase = "idle" /\ served > 0 =>
       /\ NumSlots >= 1 => Reusable(ids \o emitted) = Covered
       /\ NumSlots >= 2 => Reusable(ids) = Len(ids)
  /\ NumSlots >= 3 /\ reuse > 0 => Holders(SubSeq(ids, 1, reuse)) # {}

(***************************************************************************)
(* Lookups, snapshots, chunks, rounds and routing are invisible: a client  *)
(* cannot tell generate() from a loop that asks the model for one token at *)
(* a time, and never gets one after a stop token or past its limit         *)
(* (server.cpp:269-270, 465 and 486).                                     *)
(***************************************************************************)
Promise == INSTANCE Generation
             WITH busy <- phase # "idle", prompt <- ids, limit <- maxNew, answer <- emitted

Generates == Promise!Spec

(***************************************************************************)
(* Every request that is begun ends, and the engine is free again.         *)
(***************************************************************************)
RequestEnds == phase # "idle" ~> phase = "idle"
=============================================================================
