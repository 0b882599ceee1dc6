------------------------------ MODULE BlockFormats ------------------------------
(***************************************************************************)
(* The quantised blocks of a GGUF file and the two readers of them: the    *)
(* kernels of gguf/dequant.cu, which walk a block, and the get8 functions  *)
(* of gguf/gemv.cu, by which a lane of a warp reads its eight weights.     *)
(*                                                                         *)
(* A weight is the record of what it is computed from. The bits of a run   *)
(* of 256 weights are numbered from 0, and a field of a weight is the      *)
(* sequence of its bits, the lowest first: d and dmin (halves), scale and  *)
(* min, code or index, sign. Two weights are the same number in every file *)
(* when their records are equal.                                           *)
(***************************************************************************)
EXTENDS Integers, Sequences, SequencesExt, FiniteSetsExt

Formats == {"Q2_K", "Q3_K", "Q4_K", "Q5_K", "Q6_K", "Q8_0", "IQ4_NL", "IQ4_XS", "IQ2_XS",
            "IQ2_XXS", "IQ2_S", "IQ3_XXS", "IQ3_S", "F32", "F16", "BF16"}

(* Weights and bytes of a block, as the reader of the file counts them.    *)
kTypes == [
  Q2_K |-> <<256, 84>>, Q3_K |-> <<256, 110>>, Q4_K |-> <<256, 144>>, Q5_K |-> <<256, 176>>,
  Q6_K |-> <<256, 210>>, Q8_0 |-> <<32, 34>>, IQ4_NL |-> <<32, 18>>, IQ4_XS |-> <<256, 136>>,
  IQ2_XS |-> <<256, 74>>, IQ2_XXS |-> <<256, 66>>, IQ2_S |-> <<256, 82>>,
  IQ3_XXS |-> <<256, 98>>, IQ3_S |-> <<256, 110>>,
  F32 |-> <<1, 4>>, F16 |-> <<1, 2>>, BF16 |-> <<1, 2>>]

(* The fields of a block with their bytes, in the order of the struct.     *)
Fields == [
  Q2_K |-> << <<"scales", 16>>, <<"qs", 64>>, <<"d", 2>>, <<"dmin", 2>> >>,
  Q3_K |-> << <<"hmask", 32>>, <<"qs", 64>>, <<"scales", 12>>, <<"d", 2>> >>,
  Q4_K |-> << <<"d", 2>>, <<"dmin", 2>>, <<"scales", 12>>, <<"qs", 128>> >>,
  Q5_K |-> << <<"d", 2>>, <<"dmin", 2>>, <<"scales", 12>>, <<"qh", 32>>, <<"qs", 128>> >>,
  Q6_K |-> << <<"ql", 128>>, <<"qh", 64>>, <<"scales", 16>>, <<"d", 2>> >>,
  Q8_0 |-> << <<"d", 2>>, <<"qs", 32>> >>,
  IQ4_NL |-> << <<"d", 2>>, <<"qs", 16>> >>,
  IQ4_XS |-> << <<"d", 2>>, <<"scales_h", 2>>, <<"scales_l", 4>>, <<"qs", 128>> >>,
  IQ2_XS |-> << <<"d", 2>>, <<"qs", 64>>, <<"scales", 8>> >>,
  IQ2_XXS |-> << <<"d", 2>>, <<"qs", 64>> >>,
  IQ2_S |-> << <<"d", 2>>, <<"qs", 64>>, <<"qh", 8>>, <<"scales", 8>> >>,
  IQ3_XXS |-> << <<"d", 2>>, <<"qs", 96>> >>,
  IQ3_S |-> << <<"d", 2>>, <<"qs", 64>>, <<"qh", 8>>, <<"signs", 32>>, <<"scales", 4>> >>]

BytesOf(fields) == FoldLeft(LAMBDA sum, f : sum + f[2], 0, fields)

(* The byte at which a field begins, and the bytes of the struct.          *)
Offsets ==
  [t \in DOMAIN Fields |->
    [field \in {f[1] : f \in ToSet(Fields[t])} |->
      LET i == CHOOSE i \in DOMAIN Fields[t] : Fields[t][i][1] = field
      IN BytesOf(SubSeq(Fields[t], 1, i - 1))]]

Size == [t \in DOMAIN Fields |-> BytesOf(Fields[t])]

(* The byte at which a field of block k of a run begins.                   *)
At(t, k, field) == k * Size[t] + Offsets[t][field]

(* (x >> shift) & (2^width - 1), where x is read from the given byte on.   *)
Bits(byte, shift, width) == [i \in 1 .. width |-> 8 * byte + shift + i - 1]

(* The bits from..from+width-1 of a byte that is shifted left.             *)
LeftBits(byte, shift, from, width) == Bits(byte, from - shift, width)

h2f(t, k, field) == Bits(At(t, k, field), 0, 16)

(* d * (scale - bias) * (code - less)                                      *)
Number(d, scale, bias, code, less) ==
  [d |-> d, scale |-> scale, bias |-> bias, code |-> code, less |-> less]

(* d * scale * code - dmin * min                                           *)
Affine(t, scale, min, code) ==
  [d |-> h2f(t, 0, "d"), scale |-> scale, code |-> code, dmin |-> h2f(t, 0, "dmin"), min |-> min]

(* d * (scale - bias) * table[code]                                        *)
Looked(d, scale, bias, code, table) ==
  [d |-> d, scale |-> scale, bias |-> bias, code |-> code, table |-> table]

(* d * (2 * scale + 1) / den times a byte of an entry of a grid            *)
Gridded(t, scale, den, index, byte, sign) ==
  [d |-> h2f(t, 0, "d"), scale |-> scale, den |-> den, index |-> index, byte |-> byte,
   sign |-> sign.from, signBit |-> sign.bit]

kmask_iq2xs == <<1, 2, 4, 8, 16, 32, 64, 128>>

(* The sign is a bit of a byte of the block, or of the entry of ksigns     *)
(* that seven bits of the block select.                                    *)
SignBit(byte, j) == [from |-> <<8 * byte + j>>, bit |-> 0]
KSign(index, j) == [from |-> index, bit |-> j]

(* The number of the bit that kmask[j] leaves.                             *)
Masked(j) == CHOOSE b \in 0 .. 7 : 2 ^ b = kmask_iq2xs[j + 1]

kvalues_iq4nl == <<-127, -104, -83, -65, -49, -35, -22, -10, 1, 13, 25, 38, 53, 69, 89, 113>>

(* What a loop puts, each of its rounds as much as the first one.          *)
For(n, Each(_)) ==
  LET len == Len(Each(0))
  IN [i \in 1 .. n * len |-> Each((i - 1) \div len)[((i - 1) % len) + 1]]

-----------------------------------------------------------------------------
(* dequant.cu. Each kernel is the sequence of what it puts, its running    *)
(* cursors replaced by what they have reached.                             *)

\* A fault: the high bits of a minimum are taken from where those of a scale are.
scale_min_k4_same(j, at) ==
  IF j < 4 THEN [d |-> Bits(at + j, 0, 6), m |-> Bits(at + j + 4, 0, 6)]
  ELSE [d |-> Bits(at + j + 4, 0, 4) \o Bits(at + j - 4, 6, 2),
        m |-> Bits(at + j + 4, 4, 4) \o Bits(at + j - 4, 6, 2)]

scale_min_k4(j, at) ==
  IF j < 4 THEN [d |-> Bits(at + j, 0, 6), m |-> Bits(at + j + 4, 0, 6)]
  ELSE [d |-> Bits(at + j + 4, 0, 4) \o Bits(at + j - 4, 6, 2),
        m |-> Bits(at + j + 4, 4, 4) \o Bits(at + j, 6, 2)]

k_q2k ==
  For(2, LAMBDA n : For(4, LAMBDA j : For(2, LAMBDA half : For(16, LAMBDA l :
    LET sc == At("Q2_K", 0, "scales") + 8 * n + 2 * j + half
    IN << Affine("Q2_K", Bits(sc, 0, 4), Bits(sc, 4, 4),
                 Bits(At("Q2_K", 0, "qs") + 32 * n + l + 16 * half, 2 * j, 2)) >>))))

(* The sixteen scales, unpacked four bytes at a time.                      *)
Aux ==
  LET word(t, shift, width) ==
        [b \in 0 .. 3 |-> Bits(At("Q3_K", 0, "scales") + 4 * t + b, shift, width)]
      joined(low, high) == [b \in 0 .. 3 |-> low[b] \o high[b]]
  IN <<joined(word(0, 0, 4), word(2, 0, 2)), joined(word(1, 0, 4), word(2, 2, 2)),
       joined(word(0, 4, 4), word(2, 4, 2)), joined(word(1, 4, 4), word(2, 6, 2))>>

k_q3k ==
  LET scale(is) == Aux[1 + is \div 4][is % 4]
  IN For(2, LAMBDA n : For(4, LAMBDA j : For(2, LAMBDA half : For(16, LAMBDA l :
       << Number(h2f("Q3_K", 0, "d"), scale(8 * n + 2 * j + half), 32,
                 Bits(At("Q3_K", 0, "qs") + 32 * n + l + 16 * half, 2 * j, 2)
                   \o Bits(At("Q3_K", 0, "hmask") + l + 16 * half, 4 * n + j, 1), 4) >>))))

k_q4k ==
  For(4, LAMBDA j : For(2, LAMBDA half : For(32, LAMBDA l :
    LET sm == scale_min_k4(2 * j + half, At("Q4_K", 0, "scales"))
    IN << Affine("Q4_K", sm.d, sm.m, Bits(At("Q4_K", 0, "qs") + 32 * j + l, 4 * half, 4)) >>)))

k_q5k ==
  For(4, LAMBDA j : For(2, LAMBDA half : For(32, LAMBDA l :
    LET sm == scale_min_k4(2 * j + half, At("Q5_K", 0, "scales"))
    IN << Affine("Q5_K", sm.d, sm.m,
                 Bits(At("Q5_K", 0, "qs") + 32 * j + l, 4 * half, 4)
                   \o Bits(At("Q5_K", 0, "qh") + l, 2 * j + half, 1)) >>)))

(* q1 to q4 of each l go 32 apart: in the order of their places, here.     *)
k_q6k ==
  For(2, LAMBDA n : For(4, LAMBDA q : For(32, LAMBDA l :
    << Number(h2f("Q6_K", 0, "d"),
              Bits(At("Q6_K", 0, "scales") + 8 * n + l \div 16 + 2 * q, 0, 8), 0,
              Bits(At("Q6_K", 0, "ql") + 64 * n + l + (IF q % 2 = 1 THEN 32 ELSE 0),
                   IF q >= 2 THEN 4 ELSE 0, 4)
                \o Bits(At("Q6_K", 0, "qh") + 32 * n + l, 2 * q, 2), 32) >>)))

k_q80(k) ==
  For(32, LAMBDA j : << Number(h2f("Q8_0", k, "d"), <<>>, 0,
                               Bits(At("Q8_0", k, "qs") + j, 0, 8), 0) >>)

k_iq4nl(k) ==
  For(2, LAMBDA half : For(16, LAMBDA j :
    << Looked(h2f("IQ4_NL", k, "d"), <<>>, 0,
              Bits(At("IQ4_NL", k, "qs") + j, 4 * half, 4), kvalues_iq4nl) >>))

k_iq4xs ==
  For(8, LAMBDA ib : For(2, LAMBDA half : For(16, LAMBDA j :
    LET ls == Bits(At("IQ4_XS", 0, "scales_l") + ib \div 2, 4 * (ib % 2), 4)
                \o Bits(At("IQ4_XS", 0, "scales_h"), 2 * ib, 2)
    IN << Looked(h2f("IQ4_XS", 0, "d"), ls, 32,
                 Bits(At("IQ4_XS", 0, "qs") + 16 * ib + j, 4 * half, 4), kvalues_iq4nl) >>)))

k_iq2xs ==
  For(8, LAMBDA ib : For(4, LAMBDA l : For(8, LAMBDA j :
    LET q == At("IQ2_XS", 0, "qs") + 2 * (4 * ib + l)
    IN << Gridded("IQ2_XS", Bits(At("IQ2_XS", 0, "scales") + ib, IF l \div 2 = 1 THEN 4 ELSE 0, 4),
                  8, Bits(q, 0, 9), j, KSign(Bits(q, 9, 7), Masked(j))) >>)))

k_iq2xxs ==
  For(8, LAMBDA ib : For(4, LAMBDA l : For(8, LAMBDA j :
    LET a0 == At("IQ2_XXS", 0, "qs") + 8 * ib
        a1 == a0 + 4
    IN << Gridded("IQ2_XXS", Bits(a1, 28, 4), 8, Bits(a0 + l, 0, 8), j,
                  KSign(Bits(a1, 7 * l, 7), Masked(j))) >>)))

k_iq2s ==
  For(8, LAMBDA ib : For(4, LAMBDA l : For(8, LAMBDA j :
    LET qs == At("IQ2_S", 0, "qs")
    IN << Gridded("IQ2_S", Bits(At("IQ2_S", 0, "scales") + ib, IF l \div 2 = 1 THEN 4 ELSE 0, 4), 8,
                  Bits(qs + 4 * ib + l, 0, 8)
                    \o LeftBits(At("IQ2_S", 0, "qh") + ib, 8 - 2 * l, 8, 2),
                  j, SignBit(qs + 32 + 4 * ib + l, Masked(j))) >>)))

k_iq3xxs ==
  For(8, LAMBDA ib : For(4, LAMBDA l : For(8, LAMBDA j :
    LET qs == At("IQ3_XXS", 0, "qs")
        aux == qs + 64 + 4 * ib
    IN << Gridded("IQ3_XXS", Bits(aux, 28, 4), 4, Bits(qs + 8 * ib + 2 * l + j \div 4, 0, 8),
                  j % 4, KSign(Bits(aux, 7 * l, 7), Masked(j))) >>)))

(* Two sub-blocks share a byte of scales, and each has its byte of qh.     *)
k_iq3s ==
  For(4, LAMBDA pair : For(2, LAMBDA half : For(4, LAMBDA l : For(8, LAMBDA j :
    LET ib == 2 * pair + half
    IN << Gridded("IQ3_S", Bits(At("IQ3_S", 0, "scales") + pair, 4 * half, 4), 1,
                  Bits(At("IQ3_S", 0, "qs") + 8 * ib + 2 * l + j \div 4, 0, 8)
                    \o LeftBits(At("IQ3_S", 0, "qh") + 2 * pair + half,
                                IF j < 4 THEN 8 - 2 * l ELSE 7 - 2 * l, 8, 1),
                  j % 4, SignBit(At("IQ3_S", 0, "signs") + 4 * ib + l, Masked(j))) >>))))

Plain(bytes, as) == For(256, LAMBDA i : << [code |-> Bits(bytes * i, 0, 8 * bytes), as |-> as] >>)

(* The 256 weights of a run: a block, or eight small ones one by one.      *)
Dequant(t) ==
  CASE t = "Q2_K" -> k_q2k
    [] t = "Q3_K" -> k_q3k
    [] t = "Q4_K" -> k_q4k
    [] t = "Q5_K" -> k_q5k
    [] t = "Q6_K" -> k_q6k
    [] t = "Q8_0" -> For(8, k_q80)
    [] t = "IQ4_NL" -> For(8, k_iq4nl)
    [] t = "IQ4_XS" -> k_iq4xs
    [] t = "IQ2_XS" -> k_iq2xs
    [] t = "IQ2_XXS" -> k_iq2xxs
    [] t = "IQ2_S" -> k_iq2s
    [] t = "IQ3_XXS" -> k_iq3xxs
    [] t = "IQ3_S" -> k_iq3s
    [] t = "F32" -> Plain(4, "f32")
    [] t = "F16" -> Plain(2, "f16")
    [] t = "BF16" -> Plain(2, "bf16")

-----------------------------------------------------------------------------
(* gemv.cu. get8 of a lane: the wide loads it makes, each <<byte, bytes>>, *)
(* and the weights o0 to o0 + 7.                                           *)

RUN_BYTES == [
  Q2_K |-> 84, Q3_K |-> 110, Q4_K |-> 144, Q5_K |-> 176, Q6_K |-> 210, Q8_0 |-> 8 * 34,
  IQ4_NL |-> 8 * 18, IQ4_XS |-> 136, IQ2_XS |-> 74, IQ2_XXS |-> 66, IQ2_S |-> 82,
  IQ3_XXS |-> 98, IQ3_S |-> 110, F32 |-> 256 * 4, F16 |-> 256 * 2, BF16 |-> 256 * 2]

Lane(loads, Weight(_)) == [loads |-> loads, y |-> [i \in 0 .. 7 |-> Weight(i)]]

(* Bits of byte i of eight bytes that are read as two words of 32 bits.    *)
OfWords(byte, i, shift, width) == Bits(byte + 4 * (i \div 4), 8 * (i % 4) + shift, width)

(* Bits of byte i of bytes that are read as words of 16 bits.              *)
OfHalves(byte, i, shift, width) == Bits(byte + 2 * (i \div 2), 8 * (i % 2) + shift, width)

Halves(byte) == {<<byte + 2 * i, 2>> : i \in 0 .. 3}

Get_q4k(o0) ==
  LET g == o0 \div 64
      half == (o0 % 64) \div 32
      qv == At("Q4_K", 0, "qs") + g * 32 + (o0 % 32)
      sm == scale_min_k4(2 * g + half, At("Q4_K", 0, "scales"))
  IN Lane({<<qv, 8>>},
          LAMBDA i : Affine("Q4_K", sm.d, sm.m, OfWords(qv, i, IF half = 1 THEN 4 ELSE 0, 4)))

Get_q5k(o0) ==
  LET g == o0 \div 64
      half == (o0 % 64) \div 32
      qv == At("Q5_K", 0, "qs") + g * 32 + (o0 % 32)
      hv == At("Q5_K", 0, "qh") + (o0 % 32)
      sm == scale_min_k4(2 * g + half, At("Q5_K", 0, "scales"))
  IN Lane({<<qv, 8>>, <<hv, 8>>},
          LAMBDA i : Affine("Q5_K", sm.d, sm.m, OfWords(qv, i, IF half = 1 THEN 4 ELSE 0, 4)
                                                  \o OfWords(hv, i, 2 * g + half, 1)))

Get_q6k(o0) ==
  LET n == o0 \div 128
      sub == (o0 % 128) \div 32
      l == o0 % 32
      qlp == At("Q6_K", 0, "ql") + 64 * n + l + (IF sub % 2 = 1 THEN 32 ELSE 0)
      qhp == At("Q6_K", 0, "qh") + 32 * n + l
      sc == At("Q6_K", 0, "scales") + 8 * n + l \div 16 + 2 * sub
  IN Lane(Halves(qlp) \cup Halves(qhp),
          LAMBDA i : Number(h2f("Q6_K", 0, "d"), Bits(sc, 0, 8), 0,
                            OfHalves(qlp, i, IF sub >= 2 THEN 4 ELSE 0, 4)
                              \o OfHalves(qhp, i, 2 * sub, 2), 32))

\* A fault: the second group of low nibbles and the high ones change places.
OneScaleSwapped(is) ==
  LET k == is % 4
      w == is \div 4
      scales == At("Q3_K", 0, "scales")
  IN Bits(scales + (IF w >= 2 THEN 4 + k ELSE k), IF w % 2 = 1 THEN 4 ELSE 0, 4)
       \o Bits(scales + 8 + k, 2 * w, 2)

(* One of the sixteen scales, without unpacking the others.                *)
OneScale(is) ==
  LET k == is % 4
      w == is \div 4
      scales == At("Q3_K", 0, "scales")
  IN Bits(scales + (IF w % 2 = 1 THEN 4 + k ELSE k), IF w >= 2 THEN 4 ELSE 0, 4)
       \o Bits(scales + 8 + k, 2 * w, 2)

Get_q3k(o0) ==
  LET n == o0 \div 128
      j == (o0 % 128) \div 32
      half == (o0 % 32) \div 16
      l == o0 % 16
      q == At("Q3_K", 0, "qs") + 32 * n + 16 * half + l
      h == At("Q3_K", 0, "hmask") + 16 * half + l
  IN Lane(Halves(q) \cup Halves(h),
          LAMBDA i : Number(h2f("Q3_K", 0, "d"), OneScale(2 * (4 * n + j) + half), 32,
                            OfHalves(q, i, 2 * j, 2) \o OfHalves(h, i, 4 * n + j, 1), 4))

Get_q2k(o0) ==
  LET n == o0 \div 128
      j == (o0 % 128) \div 32
      half == (o0 % 32) \div 16
      sc == At("Q2_K", 0, "scales") + 2 * (4 * n + j) + half
      q == At("Q2_K", 0, "qs") + 32 * n + 16 * half + (o0 % 16)
  IN Lane(Halves(q), LAMBDA i : Affine("Q2_K", Bits(sc, 0, 4), Bits(sc, 4, 4),
                                       OfHalves(q, i, 2 * j, 2)))

(* The table in four registers, its bytes from the lowest of T0 on. PRMT   *)
(* selects by three bits of the code, the fourth blends.                   *)
Registers == << \h81, \h98, \hAD, \hBF,  \hCF, \hDD, \hEA, \hF6,
                \h01, \h0D, \h19, \h26,  \h35, \h45, \h59, \h71 >>

s8(byte) == IF byte >= 128 THEN byte - 256 ELSE byte

lut16 == [c \in 1 .. 16 |->
           LET sel == (c - 1) % 8
           IN s8(Registers[1 + (IF c - 1 >= 8 THEN 8 + sel ELSE sel)])]

(* get8, and get8q for the int8 path, which returns the same packed.       *)
Get_iq4xs(o0) ==
  LET ib == o0 \div 32
      within == o0 % 32
      ls == Bits(At("IQ4_XS", 0, "scales_l") + ib \div 2, 4 * (ib % 2), 4)
              \o Bits(At("IQ4_XS", 0, "scales_h"), 2 * ib, 2)
      qv == At("IQ4_XS", 0, "qs") + 16 * ib + (within % 16)
  IN Lane({<<qv, 8>>},
          LAMBDA i : Looked(h2f("IQ4_XS", 0, "d"), ls, 32,
                            OfWords(qv, i, IF within >= 16 THEN 4 ELSE 0, 4), lut16))

(* Byte i of eight, from the two words of an entry or of two entries.      *)
spread8(i) == [word |-> i \div 4, byte |-> i % 4]

Get_iq2xs(o0) ==
  LET ib == o0 \div 32
      l == (o0 % 32) \div 8
      qi == At("IQ2_XS", 0, "qs") + 2 * (4 * ib + l)
  IN Lane({}, LAMBDA i :
       Gridded("IQ2_XS", Bits(At("IQ2_XS", 0, "scales") + ib, 4 * (l \div 2), 4), 8,
               Bits(qi, 0, 9), 4 * spread8(i).word + spread8(i).byte, KSign(Bits(qi, 9, 7), i)))

Get_iq2xxs(o0) ==
  LET ib == o0 \div 32
      l == (o0 % 32) \div 8
      a0 == At("IQ2_XXS", 0, "qs") + 2 * 4 * ib
      a1 == At("IQ2_XXS", 0, "qs") + 2 * (4 * ib + 2)
  IN Lane({}, LAMBDA i :
       Gridded("IQ2_XXS", Bits(a1, 28, 4), 8, Bits(a0 + l, 0, 8),
               4 * spread8(i).word + spread8(i).byte, KSign(Bits(a1, 7 * l, 7), i)))

Get_iq2s(o0) ==
  LET ib == o0 \div 32
      l == (o0 % 32) \div 8
      qs == At("IQ2_S", 0, "qs")
  IN Lane({}, LAMBDA i :
       Gridded("IQ2_S", Bits(At("IQ2_S", 0, "scales") + ib, 4 * (l \div 2), 4), 8,
               Bits(qs + 4 * ib + l, 0, 8) \o LeftBits(At("IQ2_S", 0, "qh") + ib, 8 - 2 * l, 8, 2),
               4 * spread8(i).word + spread8(i).byte, SignBit(qs + 32 + 4 * ib + l, i)))

Get_iq3xxs(o0) ==
  LET ib == o0 \div 32
      l == (o0 % 32) \div 8
      aux == At("IQ3_XXS", 0, "qs") + 64 + 4 * ib
      q2 == At("IQ3_XXS", 0, "qs") + 8 * ib + 2 * l
  IN Lane({<<q2, 2>>}, LAMBDA i :
       Gridded("IQ3_XXS", Bits(aux, 28, 4), 4, Bits(q2, 8 * spread8(i).word, 8),
               spread8(i).byte, KSign(Bits(aux, 7 * l, 7), i)))

Get_iq3s(o0) ==
  LET s == o0 \div 32
      l == (o0 % 32) \div 8
      q2 == At("IQ3_S", 0, "qs") + 8 * s + 2 * l
      qh == At("IQ3_S", 0, "qh") + s
  IN Lane({<<q2, 2>>}, LAMBDA i :
       Gridded("IQ3_S", Bits(At("IQ3_S", 0, "scales") + s \div 2, 4 * (s % 2), 4), 1,
               Bits(q2, 8 * spread8(i).word, 8)
                 \o LeftBits(qh, IF i < 4 THEN 8 - 2 * l ELSE 7 - 2 * l, 8, 1),
               spread8(i).byte, SignBit(At("IQ3_S", 0, "signs") + 4 * s + l, i)))

Get_q80(o0) ==
  LET k == o0 \div 32
  IN Lane({}, LAMBDA i : Number(h2f("Q8_0", k, "d"), <<>>, 0,
                                Bits(At("Q8_0", k, "qs") + (o0 % 32) + i, 0, 8), 0))

Get_iq4nl(o0) ==
  LET k == o0 \div 32
      w == o0 % 32
      q == At("IQ4_NL", k, "qs") + (w % 16)
  IN Lane({}, LAMBDA i : Looked(h2f("IQ4_NL", k, "d"), <<>>, 0,
                                Bits(q + i, IF w >= 16 THEN 4 ELSE 0, 4), lut16))

Get_plain(bytes, as, o0) ==
  Lane({<<bytes * (o0 + i), bytes>> : i \in 0 .. 7},
       LAMBDA i : [code |-> Bits(bytes * (o0 + i), 0, 8 * bytes), as |-> as])

Get8(t, o0) ==
  CASE t = "Q2_K" -> Get_q2k(o0)
    [] t = "Q3_K" -> Get_q3k(o0)
    [] t = "Q4_K" -> Get_q4k(o0)
    [] t = "Q5_K" -> Get_q5k(o0)
    [] t = "Q6_K" -> Get_q6k(o0)
    [] t = "Q8_0" -> Get_q80(o0)
    [] t = "IQ4_NL" -> Get_iq4nl(o0)
    [] t = "IQ4_XS" -> Get_iq4xs(o0)
    [] t = "IQ2_XS" -> Get_iq2xs(o0)
    [] t = "IQ2_XXS" -> Get_iq2xxs(o0)
    [] t = "IQ2_S" -> Get_iq2s(o0)
    [] t = "IQ3_XXS" -> Get_iq3xxs(o0)
    [] t = "IQ3_S" -> Get_iq3s(o0)
    [] t = "F32" -> Get_plain(4, "f32", o0)
    [] t = "F16" -> Get_plain(2, "f16", o0)
    [] t = "BF16" -> Get_plain(2, "bf16", o0)

(* The lanes of a warp, side by side.                                      *)
Warp(t) == For(32, LAMBDA lane : [i \in 1 .. 8 |-> Get8(t, 8 * lane).y[i - 1]])

(* The wide loads of a run that begins at the given byte.                  *)
Loads(t, start) ==
  UNION {{<<start + ld[1], ld[2]>> : ld \in Get8(t, 8 * lane).loads} : lane \in 0 .. 31}

-----------------------------------------------------------------------------
(* What the fields of weights say about bits: the sequences of bits that   *)
(* play a role for some weight.                                            *)
Roles == {"d", "dmin", "scale", "min", "code", "index", "sign"}

BitsIn(weights, role) == {w[role] : w \in {w \in weights : role \in DOMAIN w}}
===============================================================================
