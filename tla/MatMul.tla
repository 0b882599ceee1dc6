--------------------------------- MODULE MatMul ---------------------------------
(***************************************************************************)
(* The products of the quantised projections: how weights are laid out     *)
(* when they are loaded, and which of them the kernels bring together with *)
(* which activations, zero points and scales.                              *)
(*                                                                         *)
(* Numbers are left out. A kernel's sum is the record of how many terms it *)
(* has and of the set of them, so a term that is added twice or left out   *)
(* shows. A term is <<part of the sum, weight or zero point, scale,        *)
(* activation>>; a weight is <<part, row, column>> of the tensors on disk, *)
(* an activation its place in the input. (q - z) * s * x is the two terms  *)
(* "q" and "z". The bias of 128 that both get from the bf16 trick cancels  *)
(* when each activation has one term of either kind.                       *)
(*                                                                         *)
(* Arrays that only the kernels share keep their dimensions; input and     *)
(* output are addressed as the code does, by row, pitch and column.        *)
(***************************************************************************)
EXTENDS Splits, Loops, Sequences, FiniteSets, Functions

CONSTANTS
  Stripe,     \* rows that are interleaved, and lanes of a warp of the GEMV: 32
  MaxM,           \* rows of a launch of the small kernels: 16
  GemvMaxT, MmaMaxT,       \* rows up to which lin_path takes a path: 2, 128
  GgufChunk, GgufQxRows,   \* rows of a launch over blocks, and rows it quantises: 8, 32
  kGgufGemmMinRows,        \* rows from which blocks are dequantised first: 32
  UU                       \* runs that are in flight: 4

SumOf(f) == [n |-> Cardinality(DOMAIN f), of |-> Range(f)]

(* The rows of parts that are fused, one part after the other.             *)
RowsOf(parts) == Sum(parts, Len(parts))
OffsetOf(parts, p) == Sum(parts, p - 1)

-----------------------------------------------------------------------------
(* INT4 weights. On disk a word holds eight columns of a row, and a word   *)
(* of zero points eight rows of a group.                                   *)

DiskWord(p, row, t) == [e \in 0 .. 7 |-> <<p, row, 8 * t + e>>]
DiskZeros(p, word, g) == [e \in 0 .. 7 |-> <<p, 8 * word + e, g>>]

(* What k_repack leaves at [block][word or group][lane], from each part.   *)
Repack(parts, words, G) ==
  LET home(b, l) == CHOOSE src \in UNION {{p} \X (0 .. parts[p] - 1) : p \in DOMAIN parts} :
                      src[2] + OffsetOf(parts, src[1]) = b * Stripe + l
      blocks == 0 .. RowsOf(parts) \div Stripe - 1
      lanes == 0 .. Stripe - 1
      homes == [b \in blocks |-> [l \in lanes |-> home(b, l)]]
  IN [q |-> [b \in blocks |-> [t \in 0 .. words - 1 |-> [l \in lanes |->
              DiskWord(homes[b][l][1], homes[b][l][2], t)]]],
      sc |-> [b \in blocks |-> [g \in 0 .. G - 1 |-> [l \in lanes |->
              <<homes[b][l][1], homes[b][l][2], g>>]]],
      zp |-> [b \in blocks |-> [g \in 0 .. G - 1 |-> [l \in lanes |->
              LET so == homes[b][l][2]
              IN DiskZeros(homes[b][l][1], so \div 8, g)[so % 8]]]]]

(* The activations that the threads of k_prep sum for a group.             *)
XGroupSum(x0, in, r, g, group) ==
  LET blockDim == Min2(group, 256)
      threads == 0 .. WARP * (blockDim \div WARP) - 1
  IN UNION {{x0 + r * in + g * group + thread + blockDim * i :
               i \in 0 .. (group - thread - 1) \div blockDim} : thread \in threads}

(* The two nibbles that one masked word gives.                             *)
nib2(w, p) == <<w[p], w[p + 4]>>

(* A split of the inputs of k_gemv, for one row of x and one of W.         *)
GemvTerms(W, w, x0, r, o, split, splits) ==
  LET b == o \div Stripe
      lane == o % Stripe
      wpg == w.group \div 8
      gps == w.G \div splits
      groups == split * gps .. Min2((split + 1) * gps, w.G) - 1
      xp(g, t, e) == x0 + r * w.in + g * w.group + 8 * t + e
      products == {"q"} \X groups \X (0 .. wpg - 1) \X (0 .. 3) \X {1, 2}
      corrections == UNION {{<<"z", g, x>> : x \in XGroupSum(x0, w.in, r, g, w.group)} : g \in groups}
  IN [st \in products \cup corrections |->
       LET g == st[2]
       IN IF st[1] = "z" THEN <<"z", W.zp[b][g][lane], W.sc[b][g][lane], st[3]>>
          ELSE <<"q", nib2(W.q[b][g * wpg + st[3]][lane], st[4])[st[5]], W.sc[b][g][lane],
                 xp(g, st[3], st[4] + (IF st[5] = 2 THEN 4 ELSE 0))>>]

(* k_reduce: the partial sums of all splits.                               *)
Reduced(partial) ==
  [st \in UNION {{k} \X DOMAIN partial[k] : k \in DOMAIN partial} |-> partial[st[1]][st[2]]]

(* k_gemv, k_gemm_small and their reductions: what M rows of x become.     *)
GemmSmall(W, w, x0, y0, M) ==
  {[at |-> y0 + r * w.out + o,
    sum |-> SumOf(Reduced([k \in 0 .. w.splits - 1 |-> GemvTerms(W, w, x0, r, o, k, w.splits)]))]
    : r \in 0 .. M - 1, o \in 0 .. w.out - 1}

(* INT8 weights of a head: k_quant_w8 has interleaved rows, and there is   *)
(* no zero point. One row or several, the terms are the same.              *)
QuantW8(out, in, G) ==
  LET row(b, l) == b * Stripe + l
      blocks == 0 .. out \div Stripe - 1
      lanes == 0 .. Stripe - 1
  IN [q |-> [b \in blocks |-> [i \in 0 .. in - 1 |-> [l \in lanes |-> <<1, row(b, l), i>>]]],
      sc |-> [b \in blocks |-> [g \in 0 .. G - 1 |-> [l \in lanes |-> <<1, row(b, l), g>>]]]]

Gemm8Terms(W, w, x0, r, o, split, splits) ==
  LET b == o \div Stripe
      lane == o % Stripe
      gps == w.G \div splits
  IN [st \in {"q"} \X (split * gps .. Min2((split + 1) * gps, w.G) - 1) \X (0 .. w.group - 1) |->
       <<"q", W.q[b][st[2] * w.group + st[3]][lane], W.sc[b][st[2]][lane],
         x0 + r * w.in + st[2] * w.group + st[3]>>]

GemmSmall8(W, w, x0, y0, M) ==
  {[at |-> y0 + r * w.out + o,
    sum |-> SumOf(Reduced([k \in 0 .. w.splits - 1 |-> Gemm8Terms(W, w, x0, r, o, k, w.splits)]))]
    : r \in 0 .. M - 1, o \in 0 .. w.out - 1}

-----------------------------------------------------------------------------
(* k_gemm_mma: sixteen rows of x on the tensor cores.                      *)

(* Which lane, register and half hold an element of a fragment (PTX ISA).  *)
HoldsA(row, k) == <<4 * (row % 8) + (k % 8) \div 2, row \div 8 + 2 * (k \div 8), k % 2>>
HoldsB(k, col) == <<4 * col + (k % 8) \div 2, k \div 8, k % 2>>
HoldsC(row, col) == <<4 * (row % 8) + col \div 2, 2 * (row \div 8) + (col % 2)>>

\* A fault: activations are staged in their own order.
SlotAsIs(kk) == kk % 8

(* Slot kk of a staged row of x holds the nibble that the weights have at  *)
(* the same slot, nibbles p and p + 4 side by side.                        *)
SlotToNibble(kk) == (IF kk % 2 = 1 THEN 4 ELSE 0) + (kk % 8) \div 2

StagedX(x0, in, M, k0, row, kk) ==
  IF row < M THEN x0 + row * in + k0 + 8 * (kk \div 8) + SlotToNibble(kk) ELSE "zero"

(* A weight as the thread that owns its row dequantises it: word j of the  *)
(* four it has loaded, with the scale and zero point of its stretch of 32. *)
StagedW(W, w, n0, k0, row, kk) ==
  LET o == n0 + row
      b == o \div Stripe
      lane == o % Stripe
      koff == 32 * (kk \div 32)
      g == (k0 + koff) \div w.group
      j == (kk % 32) \div 8
      sh == (kk % 8) \div 2
  IN IF o >= w.out THEN "zero"
     ELSE [q |-> nib2(W.q[b][(k0 + koff) \div 8 + j][lane], sh)[1 + (kk % 2)],
           z |-> W.zp[b][g][lane], s |-> W.sc[b][g][lane]]

(* The place of shared memory that a lane loads into a register.           *)
LoadA(lane, reg, kb) ==
  [row |-> lane \div 4 + 8 * (reg % 2), slot |-> kb + 2 * (lane % 4) + 8 * (reg \div 2)]
LoadB(lane, reg, kb, warp, nn) ==
  [row |-> 16 * warp + 8 * nn + lane \div 4, slot |-> kb + 2 * (lane % 4) + 8 * reg]

(* What lane and c[nn][reg] of a warp hold after the stages of a split.    *)
MmaTerms(W, w, x0, M, n0, split, splits, warp, nn, lane, reg) ==
  LET chunks == w.in \div MMA_BK
      per == (chunks + splits - 1) \div splits
      kbeg == IF splits > 1 THEN Min2(split * per, chunks) ELSE 0
      kend == IF splits > 1 THEN Min2((split + 1) * per, chunks) ELSE chunks
      rc == CHOOSE rc \in (0 .. 15) \X (0 .. 7) : HoldsC(rc[1], rc[2]) = <<lane, reg>>
      a(st) == LET h == HoldsA(rc[1], st[4])
                   at == LoadA(h[1], h[2], 16 * st[3])
               IN StagedX(x0, w.in, M, MMA_BK * st[2], at.row, at.slot + h[3])
      wt(st) == LET h == HoldsB(st[4], rc[2])
                    at == LoadB(h[1], h[2], 16 * st[3], warp, nn)
                IN StagedW(W, w, n0, MMA_BK * st[2], at.row, at.slot + h[3])
  IN [st \in {"q", "z"} \X (kbeg .. kend - 1) \X (0 .. MMA_BK \div 16 - 1) \X (0 .. 15) |->
       LET v == wt(st) IN <<st[1], IF st[1] = "q" THEN v.q ELSE v.z, v.s, a(st)>>]

(* The lanes write what they hold, except rows and columns out of range.   *)
GemmMma(W, w, x0, y0, M) ==
  LET row(lane, reg) == lane \div 4 + 8 * (reg \div 2)
      col(n0, warp, nn, lane, reg) == n0 + 16 * warp + 8 * nn + 2 * (lane % 4) + (reg % 2)
      blocks == {MMA_BN * i : i \in 0 .. (w.out + MMA_BN - 1) \div MMA_BN - 1}
      holders == {h \in blocks \X (0 .. MMA_BN \div 16 - 1) \X {0, 1} \X (0 .. WARP - 1) \X (0 .. 3) :
                    row(h[4], h[5]) < M /\ col(h[1], h[2], h[3], h[4], h[5]) < w.out}
  IN {[at |-> y0 + row(h[4], h[5]) * w.out + col(h[1], h[2], h[3], h[4], h[5]),
       sum |-> SumOf(Reduced([k \in 0 .. w.splits - 1 |->
                             MmaTerms(W, w, x0, M, h[1], k, w.splits, h[2], h[3], h[4], h[5])]))] : h \in holders}

(* k_dequant_rows, and cuBLAS over tiles of what it leaves.                *)
GemmCublas(W, w, x0, y0, M, wbufRows) ==
  LET tile == Min2((wbufRows \div Stripe) * Stripe, w.out)
      row(n0, j) == n0 + j
      dequantised(o, k) ==
        LET b == o \div Stripe
            l == o % Stripe
            t == k \div 8
            g == (8 * t) \div w.group
        IN [q |-> W.q[b][t][l][k % 8], z |-> W.zp[b][g][l], s |-> W.sc[b][g][l]]
      tiles == {tile * i : i \in 0 .. (w.out + tile - 1) \div tile - 1}
      width(n0) == IF n0 + tile <= w.out THEN tile ELSE w.out - n0
  IN UNION {{[at |-> y0 + n0 + r * w.out + j,
              sum |-> SumOf([st \in {"q", "z"} \X (0 .. w.in - 1) |->
                        LET d == dequantised(row(n0, j), st[2])
                        IN <<st[1], IF st[1] = "q" THEN d.q ELSE d.z, d.s, x0 + r * w.in + st[2]>>])]
             : r \in 0 .. M - 1, j \in 0 .. width(n0) - 1} : n0 \in tiles}

-----------------------------------------------------------------------------
(* Which of them a projection of T rows takes, launch by launch.           *)
lin_path(T) ==
  CASE T = 1 -> "Gemv"
    [] T > 1 /\ T <= GemvMaxT -> "GemvM"
    [] T > GemvMaxT /\ T <= MmaMaxT -> "Mma"
    [] T > MmaMaxT -> "Cublas"

(* The first rows of launches of at most `step` rows.                      *)
Launches(T, step) == {i \in 0 .. T - 1 : i % step = 0}

linear(W, w, T) ==
  CASE lin_path(T) = "Gemv" -> GemmSmall(W, w, 0, 0, 1)
    [] lin_path(T) = "GemvM" ->
         UNION {GemmSmall(W, w, i * w.in, i * w.out, Min2(16, T - i)) : i \in Launches(T, 16)}
    [] lin_path(T) = "Mma" ->
         UNION {GemmMma(W, w, i * w.in, i * w.out, Min2(16, T - i)) : i \in Launches(T, 16)}
    [] lin_path(T) = "Cublas" -> GemmCublas(W, w, 0, 0, T, w.wbufRows)

(* A quantised head, in steps of what the scratch has room for.            *)
model_apply_head(W, w, T, bits) ==
  UNION {LET n == Min2(MaxM, T - s)
         IN IF bits = 4 THEN GemmMma(W, w, s * w.in, s * w.out, n)
            ELSE GemmSmall8(W, w, s * w.in, s * w.out, n) : s \in Launches(T, MaxM)}

-----------------------------------------------------------------------------
(* GGUF. A warp has a row, a lane eight weights of each run of 256. With   *)
(* int8 activations a term also has the scale of 32 of them.               *)
GgufTerms(p, o, in, x0, xsc0, m, int8) ==
  LET runs == in \div 256
      unrolled == UNION {{i + u : u \in 0 .. UU - 1} : i \in {i \in 0 .. runs - UU : i % UU = 0}}
      tail == {i \in 0 .. runs - 1 : i >= UU * (runs \div UU)}
      walked == IF int8 THEN 0 .. runs - 1 ELSE unrolled \cup tail
  IN [st \in walked \X (0 .. WARP - 1) \X (0 .. 7) |->
       LET off == m * in + 256 * st[1] + 8 * st[2]
       IN <<"q", <<p, o, 256 * st[1] + 8 * st[2] + st[3]>>,
            IF int8 THEN xsc0 + off \div 32 ELSE "none", x0 + off + st[3]>>]

(* A launch over one tensor: columns col.. of an output of pitch ldy.      *)
GgufLaunch(p, out, in, x0, xsc0, y0, M, ldy, int8) ==
  LET pitch == IF ldy <= 0 THEN out ELSE ldy
  IN {[at |-> y0 + m * pitch + o, sum |-> SumOf(GgufTerms(p, o, in, x0, xsc0, m, int8))]
       : m \in 0 .. M - 1, o \in 0 .. out - 1}

(* What cuBLAS makes of a tensor that has been dequantised.                *)
GgufDequantised(p, out, in, y0, T, ldy) ==
  {[at |-> y0 + r * ldy + o,
    sum |-> SumOf([k \in 0 .. in - 1 |-> <<"q", <<p, o, k>>, "none", r * in + k>>])]
    : r \in 0 .. T - 1, o \in 0 .. out - 1}

gguf_wants_qx(type) == type = "IQ4_XS"

(* Activations are quantised once if any part wants them; a part of        *)
(* another type ignores them. Each part fills its own columns.             *)
linear_gguf(parts, types, in, T) ==
  LET out == RowsOf(parts)
      qx == /\ T < kGgufGemmMinRows /\ T <= GgufQxRows
            /\ \E p \in DOMAIN parts : gguf_wants_qx(types[p])
  IN UNION {LET col == OffsetOf(parts, p)
            IN IF T >= kGgufGemmMinRows THEN GgufDequantised(p, parts[p], in, col, T, out)
               ELSE UNION {GgufLaunch(p, parts[p], in, done * in, done * (in \div 32),
                                      done * out + col, Min2(GgufChunk, T - done), out,
                                      qx /\ types[p] = "IQ4_XS")
                            : done \in Launches(T, GgufChunk)} : p \in DOMAIN parts}

gguf_head(out, in, T) ==
  UNION {GgufLaunch(1, out, in, done * in, 0, done * out, Min2(GgufChunk, T - done), 0, FALSE)
          : done \in Launches(T, GgufChunk)}

=================================================================================
