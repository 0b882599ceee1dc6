-------------------------------- MODULE Forward --------------------------------
(***************************************************************************)
(* The model around its kernels: which memory each layer has, how much     *)
(* context is allowed, and what a forward pass tells the kernels: where a  *)
(* row lies, by how much it is rotated, over how many splits a decoded     *)
(* token's attention goes (src/model/model.cu).                            *)
(***************************************************************************)
EXTENDS Integers, Sequences, FiniteSets, FiniteSetsExt

CONSTANTS
  LayerTypes,      \* of the layers, from the first: "gdn" or "attn"
  sms,             \* multiprocessors
  MaxPosition,     \* max_position_embeddings
  PerToken         \* KiB of keys and values of a token

-----------------------------------------------------------------------------
(* ModelShape counts the layers of either kind; a layer is counted from 0. *)
LayerIds == 0 .. Len(LayerTypes) - 1
IsAttn(i) == LayerTypes[i + 1] = "attn"
num_attn_layers == Cardinality({i \in LayerIds : IsAttn(i)})
num_gdn_layers == Cardinality({i \in LayerIds : ~IsAttn(i)})

attn_slot(i) == IF IsAttn(i) THEN Cardinality({j \in 0 .. i - 1 : IsAttn(j)}) ELSE -1

(* The slot of the recurrent state, the convolution window and the rows    *)
(* captured for a rollback: "3 of every 4 layers are GDN".                 *)
gdn_idx(i) == i - i \div 4

(* Where the keys, the values or the scales of a layer start.              *)
KvBase(i, max_ctx, per_pos) == attn_slot(i) * max_ctx * per_pos

-----------------------------------------------------------------------------
(* Context and scratch. Memory is counted in KiB.                          *)

attn_decode_splits(ctx) == Max({1, Min({(sms * 8) \div 4, (ctx + 255) \div 256})})

Margin == 512 * 1024

(* --max-context; 0 for what fits into what is free when all else is there.*)
ContextFor(asked, free) ==
  LET fit == Min({(((IF free > Margin THEN free - Margin ELSE 0) \div PerToken) \div 256) * 256,
                  MaxPosition})
  IN IF asked <= 0 THEN fit ELSE asked

Starts(asked, free) ==
  LET ctx == ContextFor(asked, free)
  IN /\ asked <= 0 => ctx >= 1024
     /\ free - PerToken * ctx >= Margin

(* What model_load leaves. The workspace of the decode kernel is allocated *)
(* before the context is known.                                            *)
model_load(asked, free) ==
  LET ctx == ContextFor(asked, free)
  IN [max_ctx |-> ctx,
      workspace |-> attn_decode_splits(IF asked <= 0 THEN MaxPosition ELSE asked),
      graph_splits |-> attn_decode_splits(ctx),
      graphs |-> <<>>, use_graph |-> FALSE, mrope_delta |-> 0, ctx_len |-> 0]

-----------------------------------------------------------------------------
(* Passes. A call leaves the model and the pass it made: for each row the  *)
(* slot it is stored at and the position it is rotated by, the positions   *)
(* that may be attended to, and the splits of a single row's attention.    *)

model_graph_bucket(m, ctx) ==
  LET fit == {g \in DOMAIN m.graphs : ctx <= m.graphs[g].ctx}
  IN IF fit = {} THEN Len(m.graphs) ELSE Min(fit)

(* One graph for each of these contexts, up to the first that is all there *)
(* is. Capture leaves the splits of the last graph behind.                 *)
Buckets == <<8192, 32768, 131072>>
n_graphs(max_ctx) == Max({g \in 1 .. 3 : \A i \in 1 .. g - 1 : Buckets[i] < max_ctx})

model_graph_capture(m) ==
  LET bound(g) == Min({Buckets[g], m.max_ctx})
      graphs == [g \in 1 .. n_graphs(m.max_ctx) |->
                  [ctx |-> bound(g), splits |-> attn_decode_splits(bound(g))]]
  IN [m EXCEPT !.graphs = graphs, !.graph_splits = graphs[Len(graphs)].splits]

Rows(T, position, shift) ==
  [i \in 1 .. T |-> [slot |-> position + i - 1, at |-> position + i - 1 + shift]]

Pass(m, T, position, shift) ==
  [rows |-> Rows(T, position, shift), ctx |-> position + T,
   splits |-> IF T = 1 THEN m.graph_splits ELSE 0]

Done(m, pass) == [m |-> [m EXCEPT !.ctx_len = pass.ctx], pass |-> pass]

(* (More rows than --prefill-chunk in one pass end the server.)            *)
model_prefill(m, T, position) == Done(m, Pass(m, T, position, m.mrope_delta))

model_forward_all_logits(m, T, position) == Done(m, Pass(m, T, position, 0))

\* A fault: without a graph, a decode takes the splits it finds.
SplitsAsFound(m, position) == m

(* The splits of the graph for this context, also if no graph is used.     *)
SplitsChosen(m, position) ==
  IF m.graphs = <<>> THEN m
  ELSE [m EXCEPT !.graph_splits = m.graphs[model_graph_bucket(m, position + 1)].splits]

model_decode(m, position) ==
  IF m.use_graph /\ m.graphs # <<>>
  THEN LET g == m.graphs[model_graph_bucket(m, position + 1)]
           step == [id |-> "id", slot |-> position, ctx |-> position + 1,
                    at |-> position + m.mrope_delta]
       IN [m |-> [m EXCEPT !.graph_splits = g.splits, !.ctx_len = position + 1],
           pass |-> [rows |-> <<[slot |-> step.slot, at |-> step.at]>>, ctx |-> step.ctx,
                     splits |-> g.splits]]
  ELSE model_prefill(SplitsChosen(m, position), 1, position)
===============================================================================
