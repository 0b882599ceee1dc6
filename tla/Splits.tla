--------------------------------- MODULE Splits ---------------------------------
(***************************************************************************)
(* Over how many splits of its groups a product goes, and the room for the *)
(* partial sums that this leaves (src/kernels/gemv_w4a16.cu).              *)
(***************************************************************************)
EXTENDS Integers, FiniteSetsExt

CONSTANTS
  MMA_BN, MMA_BK  \* output rows and inputs of a stage of the tensor-core kernel: 128, 64

WARP == 32

Min2(a, b) == IF a < b THEN a ELSE b

(* The room for partial sums, on a machine with that many multiprocessors. *)
gemv_choose_splits(out, G, sms) ==
  LET bx == (out + WARP - 1) \div WARP
      enough == {s \in 1 .. G : G % s = 0 /\ bx * s >= 8 * sms}
  IN IF enough = {} THEN G ELSE Min(enough)

\* A fault: there is room for the partial sums of one row.
partial_elems_row(maxOut, sms) ==
  LET bound == 4 * (sms * 16) * WARP
  IN IF bound > maxOut THEN bound ELSE maxOut

(* Four times the splits that are wanted, or the widest output, for 16 rows. *)
partial_elems(maxOut, sms) ==
  LET bound == 4 * (sms * 16) * WARP
  IN (IF bound > maxOut THEN bound ELSE maxOut) * 16

gemm_mma_splits(out, in, M, maxOut, sms) ==
  LET bn == (out + MMA_BN - 1) \div MMA_BN
      wanted == (8 * sms + bn - 1) \div bn
      s == Min2(wanted, in \div MMA_BK)
  IN Max({k \in 1 .. s : k = 1 \/ k * out * M <= partial_elems(maxOut, sms)})
=================================================================================
