---------------------------- MODULE ProductFunctions ----------------------------
(***************************************************************************)
(* The products of the quantised projections and heads, from the loading   *)
(* of the weights to the output, whichever kernel takes them.              *)
(***************************************************************************)
EXTENDS Questions, Integers, Sequences, FiniteSets

CONSTANTS
  Products,      \* products to take: kind, rows T, parts, in, group, splits, ...
  Stripe, MMA_BN, MMA_BK, MaxM, GemvMaxT, MmaMaxT, GgufChunk, GgufQxRows,
  kGgufGemmMinRows, UU           \* the sizes of the kernels, see MatMul

MM == INSTANCE MatMul

(* The sizes: a warp of the tensor-core kernel has sixteen columns, its    *)
(* stages whole stretches of 32 inputs, its launches at most sixteen rows. *)
ASSUME TileAssumption ==
  /\ {Stripe, MMA_BN, MMA_BK, MaxM, GgufChunk, UU} \subseteq Nat \ {0}
  /\ MMA_BN % 16 = 0 /\ MMA_BK % 32 = 0 /\ MaxM <= 16
  /\ GemvMaxT \in Nat \ {0} /\ MmaMaxT \in Nat /\ GemvMaxT <= MmaMaxT
  /\ GgufQxRows \in Nat /\ kGgufGemmMinRows \in Nat

ZeroPointed == {"awq", "head4"}
ByRow == ZeroPointed \cup {"head8"}

(* The products: rows fill stripes, inputs groups, and groups the splits   *)
(* of a kernel that shares them out; a head is in one part; a tile of      *)
(* dequantised rows has a stripe at least; blocks are read in runs of 256. *)
ASSUME ProductAssumption ==
  \A q \in Products :
    /\ q.kind \in ByRow \cup {"gguf", "ghead"}
    /\ q.T \in Nat \ {0} /\ q.in \in Nat \ {0}
    /\ q.parts \in Seq(Nat \ {0}) /\ q.parts # <<>>
    /\ q.kind \in {"head8", "ghead"} => Len(q.parts) = 1
    /\ q.kind \in ByRow =>
         /\ MM!RowsOf(q.parts) % Stripe = 0
         /\ {q.group, q.splits} \subseteq Nat \ {0} /\ q.wbufRows \in Nat /\ q.wbufRows >= Stripe
         /\ q.group % 32 = 0 /\ q.in % q.group = 0
         /\ q.kind \in ZeroPointed => q.in % MMA_BK = 0
         /\ q.kind = "head8" \/ (q.kind = "awq" /\ q.T <= GemvMaxT) =>
              (q.in \div q.group) % q.splits = 0
    /\ q.kind \in {"gguf", "ghead"} => q.in % 256 = 0
    /\ q.kind = "gguf" => DOMAIN q.types = DOMAIN q.parts

(* The weights as they are on the device.                                  *)
Loaded(q) ==
  CASE q.kind \in ZeroPointed -> MM!Repack(q.parts, q.in \div 8, q.in \div q.group)
    [] q.kind = "head8" -> MM!QuantW8(MM!RowsOf(q.parts), q.in, q.in \div q.group)
    [] OTHER -> <<>>

(* What is loaded is part of the question, so that it is loaded once.      *)
AskProduct == \E q \in Products : asked' = [op |-> "product", q |-> q, rp |-> Loaded(q)]

ProductSpec == Init /\ [][Ask /\ AskProduct]_asked

-----------------------------------------------------------------------------
(* What the kernels are told of a product.                                 *)
LaunchOf(q) ==
  [in |-> q.in, out |-> MM!RowsOf(q.parts), group |-> q.group, G |-> q.in \div q.group,
   splits |-> q.splits, wbufRows |-> q.wbufRows]

Outcome ==
  LET q == asked.q
      w == LaunchOf(q)
  IN CASE q.kind = "awq" -> MM!linear(asked.rp, w, q.T)
       [] q.kind = "head4" -> MM!model_apply_head(asked.rp, w, q.T, 4)
       [] q.kind = "head8" -> MM!model_apply_head(asked.rp, w, q.T, 8)
       [] q.kind = "gguf" -> MM!linear_gguf(q.parts, q.types, q.in, q.T)
       [] q.kind = "ghead" -> MM!gguf_head(w.out, q.in, q.T)

(* The part and row of it that give an output.                             *)
PartOf(parts, o) ==
  CHOOSE p \in DOMAIN parts :
    o \in MM!OffsetOf(parts, p) .. MM!OffsetOf(parts, p) + parts[p] - 1
RowIn(parts, o) == o - MM!OffsetOf(parts, PartOf(parts, o))

(* A term of the sum at output o of row r: a weight or zero point, its     *)
(* scale, and the activation. Activations have a scale in the product of   *)
(* a few rows with IQ4_XS.                                                 *)
Term(q, r, o, kind, k) ==
  LET p == PartOf(q.parts, o)
      row == RowIn(q.parts, o)
      int8 == /\ q.kind = "gguf" /\ q.types[p] = "IQ4_XS"
              /\ q.T <= GgufQxRows /\ q.T < kGgufGemmMinRows
  IN << kind,
        <<p, row, IF kind = "q" THEN k ELSE k \div q.group>>,
        IF q.kind \in ByRow THEN <<p, row, k \div q.group>>
        ELSE IF int8 THEN (r * q.in + k) \div 32 ELSE "none",
        r * q.in + k >>

Spots(q) == (IF q.kind \in ZeroPointed THEN {"q", "z"} ELSE {"q"}) \X (0 .. q.in - 1)
Terms(q, r, o) == {Term(q, r, o, spot[1], spot[2]) : spot \in Spots(q)}

(* Whichever kernel a product takes, with however many rows, splits, tiles *)
(* and fused parts, each number of the output is written, and is the sum   *)
(* of every weight of its row, less its zero point, times its scale, times *)
(* its activation, each once (model.cu:584-660 and 1009-1051).             *)
ProductsComplete ==
  Is("product") =>
    LET q == asked.q
        out == MM!RowsOf(q.parts)
    IN Outcome = {LET terms == Terms(q, r, o)
                  IN [at |-> r * out + o, sum |-> [n |-> Cardinality(terms), of |-> terms]]
                  : r \in 0 .. q.T - 1, o \in 0 .. out - 1}
=================================================================================
