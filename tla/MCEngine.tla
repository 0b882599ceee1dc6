------------------------------- MODULE MCEngine -------------------------------
(***************************************************************************)
(* Small instances of Engine. Two tokens, 0 ends a sequence; the oracle    *)
(* depends on every token of its context, so that a state that absorbed    *)
(* the wrong ones tells.                                                   *)
(***************************************************************************)
EXTENDS Engine, SequencesExt

MCToken == {0, 1}
MCStopToken == {0}

\* Weighted so that contexts which differ in one token mostly differ here.
MCArgmax(s) ==
  IF NoToken \in ToSet(s) THEN 1
  ELSE LET mix(acc, t) == (2 * acc + t + 1) % 7
       IN IF FoldLeft(mix, 3, s) % 3 = 0 THEN 0 ELSE 1

MCPrompts == UNION {[1 .. n -> MCToken] : n \in 1 .. 3}


=============================================================================
