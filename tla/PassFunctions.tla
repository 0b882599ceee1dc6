----------------------------- MODULE PassFunctions -----------------------------
(***************************************************************************)
(* What a forward pass of the model stands on: room for all partial sums,  *)
(* a cache that reads back what was stored, and the same slots, rotations  *)
(* and splits by whichever call a row is computed. Each is asked in one    *)
(* behaviour, and compared with the answer of another kernel or call that  *)
(* has to agree.                                                           *)
(***************************************************************************)
EXTENDS Softmax, Integers, Sequences, FiniteSets, FiniteSetsExt

CONSTANTS
  Machines, VocabSize,       \* multiprocessors, and rows of the output head
  GroupCounts, MaxBlocks,    \* of the products of a model: groups, bound on 32s of rows
  Batches,                   \* rows of a launch: up to 16
  LayerTypes, sms, MaxPosition, PerToken,        \* the model, see Forward
  Limits, Frees, Deltas,     \* --max-context, KiB that are free, and shifts by images
  PriorCalls, MaxCalls,      \* calls of the model that may come before a decode
  Places, MaxRows,           \* positions of a decode, and rows of a pass
  NKV, D, Rot, Wide,         \* see Attention
  KvSlots,                   \* positions of the cache
  Peaks,                     \* largest of the numbers that share a scale
  MinExp, MaxExp,            \* exponents of a float
  Freq, Points, Vectors      \* to rotate: frequencies, places on three axes, heads

\* The sizes of the code.
MR == INSTANCE Splits WITH MMA_BN <- 128, MMA_BK <- 64

A == INSTANCE Attention
F == INSTANCE Forward

(* A dimension of a head that is quantised has seven more in its load, and *)
(* 31 in its group.                                                        *)
ASSUME HeadAssumption ==
  /\ {NKV, D, Wide} \subseteq Nat \ {0} /\ D % 32 = 0
  /\ Rot \in Nat /\ Rot % 2 = 0 /\ Rot <= D
  /\ KvSlots \in Nat /\ Peaks \subseteq Nat \ {0}
  /\ MinExp \in Int /\ MaxExp \in Int /\ MinExp <= Wide - 6
  /\ Freq \in [0 .. Rot \div 2 - 1 -> Int] /\ Points \subseteq [1 .. 3 -> Int]
  /\ Vectors \subseteq [0 .. D - 1 -> Int]

(* The room for partial sums allows for a step to the next divisor of a    *)
(* group count, if that is not too far (gemv_w4a16.cu:348).                *)
ASSUME RoomAssumption ==
  /\ Machines \subseteq Nat \ {0} /\ VocabSize \in Nat /\ MaxBlocks \in Nat
  /\ Batches \subseteq 1 .. 16 /\ GroupCounts \subseteq Nat \ {0}
  /\ \A G \in GroupCounts : \A d \in 1 .. G - 1 :
       G % d = 0 => \E e \in d + 1 .. 8 * d : G % e = 0

(* Every fourth layer is one of attention (model.cu:735).                  *)
ASSUME ModelAssumption ==
  /\ LayerTypes \in Seq({"gdn", "attn"}) /\ \A i \in F!LayerIds : F!IsAttn(i) <=> i % 4 = 3
  /\ {sms, PerToken} \subseteq Nat \ {0} /\ MaxPosition \in Nat
  /\ Limits \subseteq Int /\ Frees \subseteq Nat /\ Deltas \subseteq Int
  /\ PriorCalls \subseteq [kind : {"decode", "prefill", "verify"}, T : Nat \ {0}, at : Nat,
                            graph : BOOLEAN]
  /\ MaxCalls \in Nat /\ Places \subseteq Nat /\ MaxRows \in Nat

AskRoom ==
  \/ \E machine \in Machines, G \in GroupCounts, blocks \in 1 .. MaxBlocks :
       asked' = [op |-> "room", sms |-> machine, G |-> G, out |-> 32 * blocks]
  \/ \E limit \in Limits, free \in Frees :
       asked' = [op |-> "context", limit |-> limit, free |-> free]

AskCache ==
  \/ \E fmt \in {"FP8", "INT4"} : asked' = [op |-> "cache", fmt |-> fmt]
  \/ \E e \in MinExp .. MaxExp : asked' = [op |-> "fp8", e |-> e]

AskPass ==
  \/ \E pos \in Points : asked' = [op |-> "rope", pos |-> pos]
  \/ \E limit \in Limits, free \in Frees, captured \in BOOLEAN, delta \in Deltas,
        before \in Texts(PriorCalls, MaxCalls), at \in Places :
       /\ F!Starts(limit, free)                       \* or the server ends
       /\ asked' = [op |-> "pass", limit |-> limit, free |-> free, captured |-> captured,
                    delta |-> delta, before |-> before, at |-> at]

PassSpec == Init /\ [][Ask /\ (AskRoom \/ AskCache \/ AskPass)]_asked

-----------------------------------------------------------------------------
(* No launch needs more scratch than loading allocates, before it knows    *)
(* the shapes or the context: not the partial sums of a product for all    *)
(* shapes of the model and widths around them, where gemv_partial_check    *)
(* would end the server, nor the attention workspace, where nothing looks. *)
(* And a server that starts has kept its margin (model.cu:434-520).        *)
ScratchFits ==
  /\ Is("room") =>
       LET widest == IF asked.out > VocabSize THEN asked.out ELSE VocabSize
           room == MR!partial_elems(widest, asked.sms)
           in == 128 * asked.G
       IN \A M \in Batches :
            /\ MR!gemv_choose_splits(asked.out, asked.G, asked.sms) * asked.out * M <= room
            /\ LET s == MR!gemm_mma_splits(asked.out, in, M, widest, asked.sms)
               IN s = 1 \/ s * asked.out * M <= room
  /\ Is("context") =>
       LET m == F!model_load(asked.limit, asked.free)
           ready == F!model_graph_capture(m)
       IN F!Starts(asked.limit, asked.free) =>
            /\ F!Margin + PerToken * m.max_ctx <= asked.free
            /\ \A x \in {m, ready} : x.graph_splits <= m.workspace
            /\ \A g \in DOMAIN ready.graphs : /\ ready.graphs[g].splits <= m.workspace
                                              /\ ready.graphs[g].ctx <= m.max_ctx

-----------------------------------------------------------------------------
(* What was stored for a position and a head is what both readers of the   *)
(* cache find there, at a place no other number has, in a part no other    *)
(* layer has; and it is the nearest number that the format can hold        *)
(* (attn.cu:20-58 and 162-257, model.cu:675-678 and 735).                  *)
CacheReadBack ==
  /\ Is("cache") =>
       LET fmt == asked.fmt
           numbers == (0 .. KvSlots - 1) \X (0 .. NKV - 1) \X (0 .. D - 1)
           place(e) == A!store_kv(fmt, e[1], e[2], e[3])
           attn == {i \in F!LayerIds : F!IsAttn(i)}
           base(i) == F!KvBase(i, KvSlots, NKV * D)
       IN /\ \A e \in numbers :
               /\ A!load_kv8(fmt, e[1], e[2], e[3] - (e[3] % 8), e[3] % 8) = place(e)
               /\ \A kv0 \in 0 .. e[1] :
                    A!k_kv_deq(fmt, kv0, A!TileElement(e[1] - kv0, e[2], e[3])) = place(e)
          /\ Cardinality({<<place(e).byte, place(e).half>> : e \in numbers}) = Cardinality(numbers)
          /\ \A i, j \in attn : i < j => base(i) + KvSlots * (NKV * D) <= base(j)
          /\ \A i \in attn : base(i) \in 0 .. (F!num_attn_layers - 1) * KvSlots * (NKV * D)
          /\ {F!gdn_idx(i) : i \in F!LayerIds \ attn} = 0 .. F!num_gdn_layers - 1
          /\ \A a \in Peaks : \A x \in -a .. a :
               LET q == A!QuantI4(x, a)
               IN /\ A!kv_i4_decode(A!kv_i4_encode(q)) = q
                  /\ -a <= 14 * x - 2 * q * a /\ 14 * x - 2 * q * a <= a
  /\ Is("fp8") =>
       \A m \in 0 .. A!Hidden - 1 :
         LET unit == Pow2(Wide - 6 - MinExp)         \* of e4m3, in those of the least float
             x == Min({(A!Hidden + m) * Pow2(asked.e - MinExp), 448 * 512 * unit})
             code == A!f32_to_e4m3(asked.e, m)
             distance(c) == LET v == A!e4m3_to_f32(c) * unit IN IF v > x THEN v - x ELSE x - v
         IN /\ code \in 0 .. 126
            /\ \A c \in (0 .. 126) \ {code} :
                 \/ distance(code) < distance(c)
                 \/ distance(code) = distance(c) /\ code % 2 = 0

-----------------------------------------------------------------------------
Called(m, c) ==
  CASE c.kind = "decode" -> F!model_decode([m EXCEPT !.use_graph = c.graph], c.at)
    [] c.kind = "prefill" -> F!model_prefill(m, c.T, c.at)
    [] c.kind = "verify" -> F!model_forward_all_logits(m, c.T, c.at)

After(m, calls) ==
  LET after[n \in 0 .. Len(calls)] == IF n = 0 THEN m ELSE Called(after[n - 1], calls[n]).m
  IN after[Len(calls)]

(* The score of two heads that were rotated to these places.               *)
Score(x, u, y, v) ==
  LET left == A!Rotated(x, A!Angles(Freq, u))
      right == A!Rotated(y, A!Angles(Freq, v))
  IN Sum([d \in 1 .. D |-> left[d - 1] * right[d - 1]], D)

(* A decode is the same pass with a graph and without, whatever was called *)
(* before: the same splits, on which the order of its sums depends, the    *)
(* same slot, the same rotation (model.cu:706-712 and 980-984). A row is   *)
(* stored and rotated alike by a prefill, and by a verification as long as *)
(* no image came before it. And scores depend on distances only, in both   *)
(* ways to make the angles of a token.                                     *)
PassesAgree ==
  /\ Is("pass") =>
       LET loaded == [F!model_load(asked.limit, asked.free) EXCEPT !.mrope_delta = asked.delta]
           fresh == IF asked.captured THEN F!model_graph_capture(loaded) ELSE loaded
           m == After(fresh, asked.before)
           decode(x, graph) == F!model_decode([x EXCEPT !.use_graph = graph], asked.at)
           pass == decode(m, TRUE).pass
           rowOf(done) == LET rows == done.pass.rows
                          IN rows[CHOOSE i \in DOMAIN rows : rows[i].slot = asked.at]
       IN asked.at < fresh.max_ctx =>
            /\ decode(m, FALSE).pass = pass
            /\ decode(fresh, TRUE).pass = pass
            /\ pass.splits \in 1 .. fresh.workspace
            /\ \A n \in 1 .. MaxRows : \A from \in {p \in asked.at - n + 1 .. asked.at : p >= 0} :
                 /\ rowOf(F!model_prefill(m, n, from)) = pass.rows[1]
                 /\ asked.delta = 0 => rowOf(F!model_forward_all_logits(m, n, from)) = pass.rows[1]
  /\ Is("rope") =>
       LET plus(u, v) == [i \in 1 .. 3 |-> u[i] + v[i]]
           p == asked.pos[1]
       IN /\ \A x, y \in Vectors, by, v \in Points :
               Score(x, asked.pos, y, v) = Score(x, plus(asked.pos, by), y, plus(v, by))
          /\ A!AnglesDev(Freq, p) = A!Angles(Freq, <<p, p, p>>)
================================================================================
