---------------------------- MODULE MCSpeculation ----------------------------
(***************************************************************************)
(* Small instances of Speculation: two tokens, 0 ends a sequence, and a    *)
(* convolution of three taps, so that a draft can be shorter and longer    *)
(* than the window.                                                        *)
(***************************************************************************)
EXTENDS Speculation, SequencesExt

MCToken == {0, 1}
MCStopToken == {0}

\* The next token depends on every token of the context.
MCArgmax(s) ==
  IF NoToken \in ToSet(s) THEN 1
  ELSE LET mix(acc, t) == (3 * acc + t + 1) % 11
       IN IF FoldLeft(mix, 5, s) % 4 = 0 THEN 0 ELSE 1

MCPrompts == UNION {[1 .. n -> MCToken] : n \in 1 .. 3}
=============================================================================
