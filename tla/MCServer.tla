------------------------------- MODULE MCServer -------------------------------
(* Server on small instances.                                              *)
EXTENDS Server, TLC

CONSTANTS r1, r2, r3

\* One stream with an image, alone: every way its client can behave.
StreamAsked == r1 :> {"stream"}
StreamImages == r1 :> 1

\* A stream, a completion and a health probe, over fewer threads than requests.
PoolAsked == r1 :> {"stream"} @@ r2 :> {"body"} @@ r3 :> {"probe"}
NoImages == [r \in Request |-> 0]

\* Two completions with an image each.
PairAsked == r1 :> {"body"} @@ r2 :> {"body"}
PairImages == r1 :> 1 @@ r2 :> 1
===============================================================================
