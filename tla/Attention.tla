-------------------------------- MODULE Attention --------------------------------
(***************************************************************************)
(* Gated attention beside its softmax: the rotation of queries and keys,   *)
(* and the quantised cache of keys and values.                             *)
(***************************************************************************)
EXTENDS Integers, FiniteSetsExt, Loops

CONSTANTS
  NQ, NKV,         \* query and key heads: 24, 4
  D,               \* dimensions of a head: 256
  Rot,             \* dimensions that are rotated: 64
  Wide             \* bits of a float below the three that e4m3 has room for: 20

-----------------------------------------------------------------------------
(* The fused projection of a token: columns of query and gate, head by     *)
(* head, then keys, then values.                                           *)
q_proj_out == NQ * D * 2
kv_proj_out == NKV * D

QueryColumn(h, d) == h * 2 * D + d
GateColumn(h, d) == h * 2 * D + D + d
KeyColumn(h, d) == q_proj_out + h * D + d
ValueColumn(h, d) == q_proj_out + kv_proj_out + h * D + d

(* Quarter turns: the angle of frequency j at a position is a multiple of  *)
(* one, so that cosine and sine are whole.                                 *)
Cos(turns) == <<1, 0, -1, 0>>[1 + (turns % 4)]
Sin(turns) == <<0, 1, 0, -1>>[1 + (turns % 4)]

(* k_rope_tables takes the position of frequency j from axis j % 3,        *)
(* k_rope_tables_dev the one position of a decoded token.                  *)
Angles(freq, pos) == [j \in 0 .. Rot \div 2 - 1 |-> freq[j] * pos[1 + (j % 3)]]
AnglesDev(freq, p) == [j \in 0 .. Rot \div 2 - 1 |-> freq[j] * p]

(* The rotation of a normalised query or key by k_prepare_q, k_prepare_kv. *)
Rotated(x, angle) ==
  LET half == Rot \div 2
      at(d) == angle[d % half]
  IN [d \in 0 .. D - 1 |->
       IF d >= Rot THEN x[d]
       ELSE IF d < half THEN x[d] * Cos(at(d)) - x[d + half] * Sin(at(d))
       ELSE x[d] * Cos(at(d)) + x[d - half] * Sin(at(d))]

-----------------------------------------------------------------------------
(* The cache: where the number of a dimension of a head lies: a byte, the  *)
(* half of it for INT4, and the scale it shares with 31 others.            *)

Place(fmt, vector, d) ==
  IF fmt = "FP8" THEN [byte |-> vector * D + d, half |-> 0, scale |-> "none"]
  ELSE [byte |-> vector * (D \div 2) + d \div 2, half |-> d % 2,
        scale |-> vector * (D \div 32) + d \div 32]

(* An even lane packs its own number and that of its neighbour.            *)
store_kv(fmt, pos, h, d) ==
  LET packer == d - (d % 2)
  IN IF fmt = "FP8" THEN Place(fmt, pos * NKV + h, d)
     ELSE [Place(fmt, pos * NKV + h, packer) EXCEPT !.half = d - packer]

\* A fault: low halves of four bytes come first, high halves behind them.
load_kv8_planes(fmt, p, kvh, d0, i) ==
  LET first == Place(fmt, p * NKV + kvh, d0)
  IN IF fmt = "FP8" THEN [first EXCEPT !.byte = @ + i]
     ELSE [first EXCEPT !.byte = @ + (i % 4), !.half = i \div 4]

(* The eight dimensions from d0 on, in one load.                           *)
load_kv8(fmt, p, kvh, d0, i) ==
  LET first == Place(fmt, p * NKV + kvh, d0)
  IN IF fmt = "FP8" THEN [first EXCEPT !.byte = @ + 4 * (i \div 4) + (i % 4)]
     ELSE [first EXCEPT !.byte = @ + i \div 2, !.half = i % 2]

(* Element i of a tile of keys or values that k_kv_deq unpacks, and the    *)
(* element that the product for a head reads.                              *)
k_kv_deq(fmt, kv0, i) ==
  LET skip == kv0 * NKV
  IN IF fmt = "FP8" THEN [byte |-> skip * D + i, half |-> 0, scale |-> "none"]
     ELSE [byte |-> skip * (D \div 2) + i \div 2, half |-> i % 2,
           scale |-> skip * (D \div 32) + i \div 32]

TileElement(j, kvh, d) == j * (NKV * D) + kvh * D + d

(* Four bits of two's complement.                                          *)
kv_i4_encode(q) == q % 16
kv_i4_decode(nibble) == ((nibble + 8) % 16) - 8

(* A number of the group whose largest is `a`, as a multiple of a / 7: the *)
(* nearest one, an even one when two are as near.                          *)
QuantI4(x, a) ==
  LET twice == 14 * x + a
      q == twice \div (2 * a)
      rounded == IF twice % (2 * a) = 0 /\ q % 2 = 1 THEN q - 1 ELSE q
  IN IF a = 0 THEN 0 ELSE Max({-7, Min({7, rounded})})

-----------------------------------------------------------------------------
(* FP8. A float is [e, m]: (1 + m / 2^(3 + Wide)) * 2^e. The sum of which  *)
(* the code takes the whole part is exact here.                            *)
Hidden == Pow2(3 + Wide)

Nearest(num, den) ==
  LET q == (2 * num + den) \div (2 * den)
  IN IF (2 * num + den) % (2 * den) = 0 /\ q % 2 = 1 THEN q - 1 ELSE q

Subnormal(e, m) ==
  LET q == Nearest(Hidden + m, Pow2(Wide - 6 - e))      \* units of 2^-9
  IN IF q > 7 THEN 8 ELSE q

\* A fault: half a unit is added and the rest is cut off.
NormalHalfUp(e, m) ==
  LET m1 == m + Pow2(Wide - 1)
      carry == m1 >= Hidden
      e1 == IF carry THEN e + 1 ELSE e
      mm == IF carry THEN 0 ELSE m1 \div Pow2(Wide)
  IN IF e1 > 8 THEN 126 ELSE (e1 + 7) * 8 + Min({mm, IF e1 = 8 THEN 6 ELSE 7})

Normal(e, m) ==
  LET m1 == m + ((m \div Pow2(Wide)) % 2) + Pow2(Wide - 1) - 1
      carry == m1 >= Hidden
      e1 == IF carry THEN e + 1 ELSE e
      mm == IF carry THEN 0 ELSE m1 \div Pow2(Wide)
  IN IF e1 > 8 THEN 126 ELSE (e1 + 7) * 8 + Min({mm, IF e1 = 8 THEN 6 ELSE 7})

f32_to_e4m3(e, m) ==
  LET over == e > 8 \/ (e = 8 /\ m > 6 * Pow2(Wide))       \* fminf(a, 448)
      ee == IF over THEN 8 ELSE e
      mm == IF over THEN 6 * Pow2(Wide) ELSE m
  IN IF ee < -6 THEN Subnormal(ee, mm) ELSE Normal(ee, mm)

(* In units of 2^-9, the smallest number there is.                         *)
e4m3_to_f32(code) ==
  LET e == code \div 8
      m == code % 8
  IN IF e = 0 THEN m ELSE (8 + m) * Pow2(e - 1)
===============================================================================
