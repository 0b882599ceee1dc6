--------------------------------- MODULE Loops ---------------------------------
(***************************************************************************)
(* Loops that several functions of the program have in common.             *)
(***************************************************************************)
EXTENDS Integers

(* acc = 0; for i = 1 .. n: acc += f[i]                                    *)
Sum(f, n) ==
  LET acc[i \in 0 .. n] == IF i = 0 THEN 0 ELSE acc[i - 1] + f[i]
  IN acc[n]

(* 2 ^ n                                                                   *)
Pow2(n) ==
  LET power[i \in 0 .. n] == IF i = 0 THEN 1 ELSE 2 * power[i - 1]
  IN power[n]
===============================================================================
