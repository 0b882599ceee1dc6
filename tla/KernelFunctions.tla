---------------------------- MODULE KernelFunctions ----------------------------
(***************************************************************************)
(* What the kernels and the loader compute, asked one question in each     *)
(* behaviour: blocks of quantised weights and the loading of a checkpoint  *)
(* here, products in ProductFunctions, what a pass stands on in            *)
(* PassFunctions, attention in Softmax. Each property compares an answer   *)
(* with a definition of it that is put differently, or with the answer of  *)
(* another kernel that has to agree.                                       *)
(***************************************************************************)
EXTENDS PassFunctions, ProductFunctions, SequencesExt

CONSTANTS
  NV, NK         \* value and key heads of the gated delta net

B == INSTANCE BlockFormats
L == INSTANCE Checkpoint

AskFormat == \E t \in B!Formats : asked' = [op |-> "format", t |-> t]

(* A layer's file of either kind, complete or with one tensor less.        *)
AskLoad ==
  \E attn, fused \in BOOLEAN :
    \E lost \in {"none"} \cup DOMAIN L!GgufFile(attn, fused) \cup DOMAIN L!AwqFile(attn) :
      asked' = [op |-> "load", attn |-> attn, fused |-> fused, lost |-> lost]

AskKernel ==
  \/ AskFormat \/ AskProduct \/ AskRoom \/ AskAttention \/ AskCache \/ AskLoad \/ AskPass

-----------------------------------------------------------------------------
(* The eight weights that a lane of the fused kernels reads out of a block *)
(* are those that the dequantiser finds there, from the same bits, and no  *)
(* load of a lane is off its alignment, wherever the run of 256 lies       *)
(* (gemv.cu:805-827, dequant.cu:435-471).                                  *)
LanesReadAsBlocks ==
  Is("format") =>
    LET t == asked.t
    IN /\ B!Warp(t) = B!Dequant(t)
       /\ \A k \in 0 .. 15 : \A load \in B!Loads(t, k * B!RUN_BYTES[t]) : load[1] % load[2] = 0

(* Every bit of a block belongs to one field of one weight or scale, at    *)
(* one place in it: nothing of the file is skipped or read twice, 256      *)
(* weights come out different, and a block has the size that gguf.cpp      *)
(* counts for it.                                                          *)
EveryBitOnce ==
  Is("format") =>
    LET t == asked.t
        weights == ToSet(B!Dequant(t))
        used == UNION {B!BitsIn(weights, role) : role \in B!Roles}
    IN /\ UNION {ToSet(bits) : bits \in used} = 0 .. 8 * B!RUN_BYTES[t] - 1
       /\ Cardinality(UNION {{<<bits[i], bits>> : i \in DOMAIN bits} : bits \in used})
            = 8 * B!RUN_BYTES[t]
       /\ Cardinality(weights) = 256
       /\ B!RUN_BYTES[t] = (256 \div B!kTypes[t][1]) * B!kTypes[t][2]
       /\ t \in DOMAIN B!Fields => B!Size[t] = B!kTypes[t][2]

-----------------------------------------------------------------------------
Without(file, name) == [n \in DOMAIN file \ {name} |-> file[n]]

(* "A GGUF and an AWQ checkpoint of the same model produce the same Model  *)
(* layout" (load_gguf.cu:176-178), that of the original weights: each      *)
(* tensor in its place, fused in the same order and freed of what the      *)
(* converter did to it, exactly unless a one was taken off or a logarithm  *)
(* taken, with each value head going with its own key head. The channel    *)
(* scales of AWQ meet and cancel wherever a norm is read, and are nowhere  *)
(* else. And no tensor is missed: a layer is loaded whole or the server    *)
(* ends.                                                                   *)
CheckpointsAgree ==
  Is("load") =>
    LET gguf == L!GgufFile(asked.attn, asked.fused)
        fromGguf == L!GgufLayer(Without(gguf, asked.lost), asked.attn)
        awq == L!AwqFile(asked.attn)
        fromAwq == L!AwqLayer(Without(awq, asked.lost), asked.attn)
        original == L!AwqLayer(L!OriginalFile(asked.attn), asked.attn)
        Same(layer, Cleared(_)) ==
          /\ DOMAIN layer = DOMAIN original
          /\ \A f \in DOMAIN original :
               [i \in DOMAIN layer[f] |-> Cleared(layer[f][i])] = original[f]
        grouped(t) == [t EXCEPT !.order = "grouped", !.rounded = FALSE]
        unscaled(t) == [t EXCEPT !.scale = 0]
        readers == L!Readers(original)
        inexact == {"input_ln", "post_ln", "q_norm", "k_norm", "gdn_A_log"}
        each == NV \div NK
        \* Which head of the model is at place h, in the order of the converter.
        head(h) == (h % NK) * each + h \div NK
    IN /\ L!Aborts(fromGguf) <=> asked.lost \in DOMAIN gguf
       /\ L!Aborts(fromAwq) <=> asked.lost \in DOMAIN awq
       /\ ~L!Aborts(fromGguf) =>
            /\ Same(fromGguf, grouped)
            /\ \A f \in DOMAIN original \ inexact :
                 \A i \in DOMAIN fromGguf[f] : ~fromGguf[f][i].rounded
       /\ ~L!Aborts(fromAwq) =>
            /\ Same(fromAwq, unscaled)
            /\ \A norm \in DOMAIN readers : \A f \in readers[norm] :
                 \A i \in DOMAIN fromAwq[f] : fromAwq[norm][1].scale + fromAwq[f][i].scale = 0
            /\ \A f \in DOMAIN original \ UNION {readers[norm] \cup {norm} : norm \in DOMAIN readers} :
                 \A i \in DOMAIN fromAwq[f] : fromAwq[f][i].scale = 0
       /\ \A h \in 0 .. NV - 1 : /\ L!KeyHead(FALSE, h) = h \div each
                                 /\ L!KeyHead(TRUE, h) = head(h) \div each
       /\ \A rows \in 1 .. 7, step \in 1 .. 3 :
            L!EmbeddingRows(rows, step) = {<<r, r>> : r \in 0 .. rows - 1}

===============================================================================
