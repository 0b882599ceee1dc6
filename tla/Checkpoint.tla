------------------------------- MODULE Checkpoint -------------------------------
(***************************************************************************)
(* The two checkpoints of a layer, and the layer that is loaded from each  *)
(* (src/model/model.cu, load_gguf.cu).                                     *)
(*                                                                         *)
(* A tensor is what it is of in the original weights, with the rewritings  *)
(* that a quantiser, a converter and our loader apply to it: what was      *)
(* added to it, how often -exp was taken, the order of its value heads,    *)
(* which power of the channel scales of its layer's norm it carries, and   *)
(* whether it was rounded to bf16 with something added or exponentiated,   *)
(* so that undoing that gives back the original only nearly. The error of  *)
(* the quantised formats is left out.                                      *)
(***************************************************************************)
EXTENDS Integers, Sequences, SequencesExt, FiniteSetsExt, TLC

CONSTANTS
  NV, NK           \* value and key heads of the gated delta net

Plain(t) ==
  [of |-> t, add |-> 0, exps |-> 0, order |-> "grouped", scale |-> 0, rounded |-> FALSE]

(* Tensors that have an entry for each value head.                         *)
PerValueHead == {"qkv", "z", "gdn_out", "a", "b", "conv_w", "A_log", "dt_bias"}

AwqNames(attn) ==
  [input_layernorm |-> "input_ln", post_attention_layernorm |-> "post_ln",
   gate_proj |-> "gate", up_proj |-> "up", down_proj |-> "down"]
  @@ (IF attn
      THEN [q_proj |-> "q", k_proj |-> "k", v_proj |-> "v", o_proj |-> "o",
            q_norm |-> "q_norm", k_norm |-> "k_norm"]
      ELSE [in_proj_qkv |-> "qkv", in_proj_z |-> "z", out_proj |-> "gdn_out",
            in_proj_a |-> "a", in_proj_b |-> "b", conv1d |-> "conv_w", A_log |-> "A_log",
            dt_bias |-> "dt_bias", norm |-> "gdn_norm"])

(* A file maps names to tensors, a tensor that is already fused to several.*)
(* The original weights have the names of the AWQ checkpoint.              *)
OriginalFile(attn) == [n \in DOMAIN AwqNames(attn) |-> <<Plain(AwqNames(attn)[n])>>]

(* What is multiplied with what a norm leaves. *)
ReadsNorm ==
  [input_ln |-> {"q", "k", "v", "qkv", "z", "a", "b"}, post_ln |-> {"gate", "up"}]

(* AWQ divides a norm by the scales of its channels and multiplies what    *)
(* reads the norm by them (reports/GGUF_LOADER.md:48-54).                  *)
Rescaled(t) ==
  [Plain(t) EXCEPT !.scale = IF t \in DOMAIN ReadsNorm THEN -1
                             ELSE IF t \in UNION Range(ReadsNorm) THEN 1 ELSE 0]

AwqFile(attn) == [n \in DOMAIN AwqNames(attn) |-> <<Rescaled(AwqNames(attn)[n])>>]

GgufNames(attn, fused) ==
  [attn_norm |-> <<"input_ln">>, post_attention_norm |-> <<"post_ln">>,
   ffn_gate |-> <<"gate">>, ffn_up |-> <<"up">>, ffn_down |-> <<"down">>]
  @@ (IF attn
      THEN (IF fused THEN [attn_qkv |-> <<"q", "k", "v">>]
            ELSE [attn_q |-> <<"q">>, attn_k |-> <<"k">>, attn_v |-> <<"v">>])
           @@ [attn_output |-> <<"o">>, attn_q_norm |-> <<"q_norm">>, attn_k_norm |-> <<"k_norm">>]
      ELSE [attn_qkv |-> <<"qkv">>, attn_gate |-> <<"z">>, ssm_out |-> <<"gdn_out">>,
            ssm_alpha |-> <<"a">>, ssm_beta |-> <<"b">>, ssm_conv1d |-> <<"conv_w">>,
            ssm_a |-> <<"A_log">>, ssm_dt |-> <<"dt_bias">>, ssm_norm |-> <<"gdn_norm">>])

(* llama.cpp's converter: a norm is applied as w * x, so that one is added *)
(* to it, ssm_a is -exp of what it was, and value heads are tiled.         *)
Converted(t) ==
  [Plain(t) EXCEPT
     !.add = IF t \in {"input_ln", "post_ln", "q_norm", "k_norm"} THEN 1 ELSE 0,
     !.exps = IF t = "A_log" THEN 1 ELSE 0,
     !.order = IF t \in PerValueHead THEN "tiled" ELSE "grouped"]

GgufFile(attn, fused) ==
  LET names == GgufNames(attn, fused)
  IN [n \in DOMAIN names |-> [i \in DOMAIN names[n] |-> Converted(names[n][i])]]

(* fuse(), and fill_linear() for one spelling: one part after the other.   *)
Fused(file, parts) == FlattenSeq([i \in DOMAIN parts |-> file[parts[i]]])

(* fill_linear(): the first spelling all parts of which are there.         *)
Missing == <<>>
Spelled(file, spellings) ==
  LET there == {i \in DOMAIN spellings : \A p \in DOMAIN spellings[i] : spellings[i][p] \in DOMAIN file}
  IN IF there = {} THEN Missing ELSE Fused(file, spellings[Min(there)])

(* A small tensor becomes bf16 as it is in the file; only then is the one  *)
(* taken off again, or the logarithm taken.                                *)
InBf16(t) == [t EXCEPT !.rounded = @ \/ t.add # 0 \/ t.exps # 0]

upload_bf16(file, n) == IF n \in DOMAIN file THEN <<InBf16(file[n][1])>> ELSE Missing
upload_norm(file, n) ==
  IF n \in DOMAIN file THEN <<[InBf16(file[n][1]) EXCEPT !.add = @ - 1]>> ELSE Missing
upload_a_log(file, n) ==
  IF n \in DOMAIN file THEN <<[InBf16(file[n][1]) EXCEPT !.exps = @ - 1]>> ELSE Missing

AwqLayer(file, attn) ==
  LET linear(parts) == Spelled(file, <<parts>>)
      upload(n) == upload_bf16(file, n)
  IN [input_ln |-> upload("input_layernorm"), post_ln |-> upload("post_attention_layernorm"),
      mlp_gate_up |-> linear(<<"gate_proj", "up_proj">>), mlp_down |-> linear(<<"down_proj">>)]
     @@ (IF attn
         THEN [attn_qkv |-> linear(<<"q_proj", "k_proj", "v_proj">>), attn_o |-> linear(<<"o_proj">>),
               q_norm |-> upload("q_norm"), k_norm |-> upload("k_norm")]
         ELSE [gdn_in_qkvz |-> linear(<<"in_proj_qkv", "in_proj_z">>),
               gdn_out |-> linear(<<"out_proj">>),
               gdn_a |-> upload("in_proj_a"), gdn_b |-> upload("in_proj_b"),
               gdn_conv_w |-> upload("conv1d"), gdn_A_log |-> upload("A_log"),
               gdn_dt_bias |-> upload("dt_bias"), gdn_norm |-> upload("norm")])

\* A fault: the norm of the gated delta net is taken for one like the others.
GgufNormAsAll(file) == upload_norm(file, "ssm_norm")

GgufNorm(file) == upload_bf16(file, "ssm_norm")

GgufLayer(file, attn) ==
  LET linear(parts) == Spelled(file, <<parts>>)
  IN [input_ln |-> upload_norm(file, "attn_norm"),
      post_ln |-> upload_norm(file, "post_attention_norm"),
      mlp_gate_up |-> linear(<<"ffn_gate", "ffn_up">>), mlp_down |-> linear(<<"ffn_down">>)]
     @@ (IF attn
         THEN [attn_qkv |-> Spelled(file, <<<<"attn_qkv">>, <<"attn_q", "attn_k", "attn_v">>>>),
               attn_o |-> linear(<<"attn_output">>),
               q_norm |-> upload_norm(file, "attn_q_norm"),
               k_norm |-> upload_norm(file, "attn_k_norm")]
         ELSE [gdn_in_qkvz |-> linear(<<"attn_qkv", "attn_gate">>),
               gdn_out |-> linear(<<"ssm_out">>),
               gdn_a |-> upload_bf16(file, "ssm_alpha"), gdn_b |-> upload_bf16(file, "ssm_beta"),
               gdn_conv_w |-> upload_bf16(file, "ssm_conv1d"),
               gdn_A_log |-> upload_a_log(file, "ssm_a"),
               gdn_dt_bias |-> upload_bf16(file, "ssm_dt"), gdn_norm |-> GgufNorm(file)])

(* The products of a layer that read what each norm leaves (run_layer).    *)
Readers(layer) ==
  [input_ln |-> DOMAIN layer \cap {"attn_qkv", "gdn_in_qkvz", "gdn_a", "gdn_b"},
   post_ln |-> {"mlp_gate_up"}]

(* A missing tensor ends the server: nothing runs with half a layer.       *)
Aborts(layer) == \E f \in DOMAIN layer : layer[f] = Missing

(* The key head that goes with value head h: (h / hk_div) % hk_mod.        *)
hk_div(v_tiled) == IF v_tiled THEN 1 ELSE NV \div NK
hk_mod(v_tiled) == IF v_tiled THEN NK ELSE NV
KeyHead(v_tiled, h) == (h \div hk_div(v_tiled)) % hk_mod(v_tiled)

(* Rows of the embedding of a GGUF file, dequantised so many at a time:    *)
(* what each row of the table is read from.                                *)
EmbeddingRows(rows, rows_at_a_time) ==
  UNION {{<<r0 + r, r0 + r>> : r \in 0 .. Min({rows_at_a_time, rows - r0}) - 1}
         : r0 \in {r0 \in 0 .. rows - 1 : r0 % rows_at_a_time = 0}}
=================================================================================
