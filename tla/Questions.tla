------------------------------- MODULE Questions -------------------------------
(***************************************************************************)
(* A function of the program is checked by asking it one question in each  *)
(* behaviour, which then ends. Modules of such functions add the questions *)
(* they answer and what has to hold of the answers.                        *)
(***************************************************************************)
EXTENDS Naturals

VARIABLE asked       \* the question: its kind `op`, and the inputs

Init == asked = [op |-> "nothing"]

Is(op) == asked.op = op

Ask == Is("nothing")                         \* there has not been a question yet

Texts(chars, n) == UNION {[1 .. k -> chars] : k \in 0 .. n}
===============================================================================
