--------------------------------- MODULE Softmax ---------------------------------
(***************************************************************************)
(* The two ways in which attention takes a softmax piece by piece          *)
(* (src/kernels/attn.cu): for a decoded token, whose context is split over *)
(* blocks and warps, and for a chunk of a prompt, in tiles of queries and  *)
(* of keys.                                                                *)
(*                                                                         *)
(* Scores are whole numbers and __expf(d) is 2^d, for d <= 0 as everywhere *)
(* in the code: weights are counted in units of 2^-Spread, in which all of *)
(* them are whole. The value of a position is left as it is: an output is  *)
(* the weight that each position has in it.                                *)
(***************************************************************************)
EXTENDS Questions, Loops, FiniteSetsExt

CONSTANTS
  Spread,          \* largest score, and largest difference of two
  DEC_WARPS,       \* warps of a block of the decode kernel: 4
  QT, KVT,         \* queries and keys of a tile: 128, 2048
  NQ,              \* query heads: 24
  Scores,          \* scores of a decoded token
  MaxSplits,       \* bound on the splits of its context
  MaxCtx,          \* bound on its context
  Prefills         \* chunks: T queries from `off` on, and scores by head and query

ASSUME SoftmaxAssumption ==
  /\ Spread \in Nat /\ Scores \subseteq 0 .. Spread
  /\ {DEC_WARPS, QT, KVT, NQ} \subseteq Nat \ {0}
  /\ MaxSplits \in Nat /\ MaxCtx \in Nat
  /\ \A c \in Prefills :
       /\ c.T \in Nat \ {0} /\ c.off \in Nat
       /\ c.scores \in [0 .. NQ - 1 -> [0 .. c.T - 1 -> [0 .. c.off + c.T - 1 -> 0 .. Spread]]]

(* -FLT_MAX is so far below every score that __expf takes it for 0.        *)
FLT_MAX == Spread + 1
Unit == Pow2(Spread)

(* v * __expf(d)                                                           *)
TimesExp(v, d) == IF d < -Spread THEN 0 ELSE v \div Pow2(-d)

(* What is summed up in l, over all of the context.                        *)
Total(acc, ctx) == Sum([i \in 1 .. ctx |-> acc[i - 1]], ctx)

-----------------------------------------------------------------------------
(* attn_decode: one query over ctx positions.                              *)

NoneYet(ctx) == [m |-> -FLT_MAX, l |-> 0, acc |-> [p \in 0 .. ctx - 1 |-> 0]]

(* One more position: all weights so far are scaled to the new maximum.    *)
Attend(st, p, score) ==
  LET mn == Max({st.m, score})
      pw == TimesExp(Unit, score - mn)
  IN [m |-> mn,
      l |-> TimesExp(st.l, st.m - mn) + pw,
      acc |-> [i \in DOMAIN st.acc |->
                TimesExp(st.acc[i], st.m - mn) + (IF i = p THEN pw ELSE 0)]]

(* n partial softmaxes, those over no position at all among them.          *)
Combined(parts, n, ctx) ==
  LET mm == Max({-FLT_MAX} \cup {parts[w].m : w \in 1 .. n})
  IN [m |-> mm,
      l |-> Sum([w \in 1 .. n |-> TimesExp(parts[w].l, parts[w].m - mm)], n),
      acc |-> [p \in 0 .. ctx - 1 |->
                Sum([w \in 1 .. n |-> TimesExp(parts[w].acc[p], parts[w].m - mm)], n)]]

(* The loop of a warp, over every DEC_WARPS-th position of its split.      *)
WarpLoop(s, p0, p1, warp, ctx) ==
  LET turn(k) == p0 + warp + (k - 1) * DEC_WARPS
      after[k \in 0 .. ctx] ==
        IF k = 0 THEN NoneYet(ctx)
        ELSE IF turn(k) < p1 THEN Attend(after[k - 1], turn(k), s[turn(k)]) ELSE after[k - 1]
  IN after[ctx]

k_attn_decode(s, ctx, splits, sp) ==
  LET per == (ctx + splits - 1) \div splits
      p0 == sp * per
      p1 == Min({p0 + per, ctx})
  IN Combined([w \in 1 .. DEC_WARPS |-> WarpLoop(s, p0, p1, w - 1, ctx)], DEC_WARPS, ctx)

attn_decode(s, ctx, splits) ==
  Combined([sp \in 1 .. splits |-> k_attn_decode(s, ctx, splits, sp - 1)], splits, ctx)

-----------------------------------------------------------------------------
(* attn_prefill: T queries from q_offset on. The buffers have a row for    *)
(* each head and query of a full tile; a launch has a block for each live  *)
(* one, and blocks are numbered by what is live.                           *)

\* A fault: blocks are numbered by what a full tile has.
RowByCapacity(i, qn) == (i \div QT) * QT + (i % qn)

RowOf(i, qn) == (i \div qn) * QT + (i % qn)

(* k_softmax_tile, k_acc_tile and the product with the values, for a row.  *)
TileStep(row, s, qpos, kv0, kvn, ctx) ==
  LET keys == kv0 .. kv0 + kvn - 1
      allowed == {k \in keys : k <= qpos /\ k < ctx}
      mtile == Max({-FLT_MAX} \cup {s[k] : k \in allowed})
      e == [k \in keys |-> IF k \in allowed THEN TimesExp(Unit, s[k] - mtile) ELSE 0]
      sum == Sum([i \in 1 .. kvn |-> e[kv0 + i - 1]], kvn)
      mnew == Max({row.m, mtile})
      kept(v) == IF row.m = -FLT_MAX THEN 0 ELSE TimesExp(v, row.m - mnew)
  IN [m |-> mnew,
      l |-> kept(row.l) + TimesExp(sum, mtile - mnew),
      acc |-> [k \in DOMAIN row.acc |->
                kept(row.acc[k]) + (IF k \in keys THEN TimesExp(e[k], mtile - mnew) ELSE 0)]]

(* The rows of the tile of qn queries from q0 on, after every tile of keys *)
(* that one of the queries may see.                                        *)
QueryTile(scores, q0, qn, q_offset, ctx) ==
  LET launched == {RowOf(i, qn) : i \in 0 .. NQ * qn - 1}
      q(row) == q0 + (row % QT)
      step(rows, kv0) ==
        [row \in DOMAIN rows |->
          IF row \notin launched THEN rows[row]
          ELSE TileStep(rows[row], scores[row \div QT][q(row)], q_offset + q(row),
                        kv0, Min({KVT, ctx - kv0}), ctx)]
      seen(kv0) == kv0 < ctx /\ kv0 <= q_offset + q0 + qn - 1
      after[j \in 0 .. ctx] ==
        IF j = 0 THEN [row \in 0 .. NQ * QT - 1 |-> NoneYet(ctx)]
        ELSE IF seen((j - 1) * KVT) THEN step(after[j - 1], (j - 1) * KVT) ELSE after[j - 1]
  IN after[ctx]

(* What k_finish leaves for head h and query q.                            *)
attn_prefill(scores, T, q_offset, ctx) ==
  LET tile(q) == q - (q % QT)
      done == [q0 \in {tile(q) : q \in 0 .. T - 1} |->
                QueryTile(scores, q0, Min({QT, T - q0}), q_offset, ctx)]
  IN [h \in 0 .. NQ - 1 |-> [q \in 0 .. T - 1 |-> done[tile(q)][h * QT + (q % QT)]]]

-----------------------------------------------------------------------------
AskDecode ==
  \E ctx \in 1 .. MaxCtx, splits \in 1 .. MaxSplits :
    \E s \in [0 .. ctx - 1 -> Scores] :
      asked' = [op |-> "decode", ctx |-> ctx, splits |-> splits, s |-> s]

AskPrefill ==
  \E c \in Prefills :
    asked' = [op |-> "prefill", T |-> c.T, off |-> c.off, scores |-> c.scores]

AskAttention == AskDecode \/ AskPrefill

SoftmaxSpec == Init /\ [][Ask /\ AskAttention]_asked

(* The positions seen have weights in proportion to the exponentials of    *)
(* their scores, the others have none, and the divisor is their sum.       *)
Weighs(o, s, ctx, seen) ==
  /\ o.l = Total(o.acc, ctx)
  /\ \A p \in 0 .. ctx - 1 : IF p \in seen THEN o.acc[p] > 0 ELSE o.acc[p] = 0
  /\ \A p, r \in seen : o.acc[p] * Pow2(s[r]) = o.acc[r] * Pow2(s[p])

(* However the positions are dealt to splits, warps and tiles -- empty     *)
(* ones too, and a maximum that comes last -- an output weighs each        *)
(* position it may see by the exponential of its score, and none other,    *)
(* and divides by the sum of these weights (attn.cu:268-378 and 638-731).  *)
SoftmaxExact ==
  /\ Is("decode") =>
       Weighs(attn_decode(asked.s, asked.ctx, asked.splits), asked.s, asked.ctx,
              0 .. asked.ctx - 1)
  /\ Is("prefill") =>
       LET ctx == asked.off + asked.T
           out == attn_prefill(asked.scores, asked.T, asked.off, ctx)
       IN \A h \in 0 .. NQ - 1, q \in 0 .. asked.T - 1 :
            Weighs(out[h][q], asked.scores[h][q], ctx, 0 .. asked.off + q)
===============================================================================
