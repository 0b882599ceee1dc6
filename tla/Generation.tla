------------------------------ MODULE Generation ------------------------------
(***************************************************************************)
(* What the server promises of a request, with no cache, no chunks and no  *)
(* speculation: the answer grows by one token at a time, each the model's  *)
(* own after all that precedes it; nothing is taken back, nothing follows  *)
(* a stop token or the limit, and the next request waits for the end.      *)
(***************************************************************************)
EXTENDS Naturals, Sequences

CONSTANTS
  Token,        \* the vocabulary
  StopToken,    \* the end-of-sequence tokens
  Argmax(_),    \* the model's greedy next token after a sequence
  Prompts       \* the token sequences requests arrive with

VARIABLES
  busy,         \* is a request being answered?
  prompt,       \* its tokens
  limit,        \* how many it asked for
  exact,        \* must it get the most likely token every time?
  answer        \* handed to the client

vars == <<busy, prompt, limit, exact, answer>>

Init ==
  /\ ~ busy
  /\ prompt = <<>> /\ limit = 0 /\ exact = TRUE /\ answer = <<>>

Begin ==
  /\ ~ busy /\ busy'
  /\ prompt' \in Prompts
  /\ limit' \in Nat \ {0}
  /\ exact' \in BOOLEAN
  /\ answer' = <<>>

Extend ==
  /\ busy
  /\ Len(answer) < limit
  /\ \A k \in 1 .. Len(answer) : answer[k] \notin StopToken
  /\ \E t \in Token :
       /\ exact => t = Argmax(prompt \o answer)
       /\ answer' = Append(answer, t)
  /\ UNCHANGED <<busy, prompt, limit, exact>>

(* On a stop token, at the limit, or for the client's sake. *)
End ==
  /\ busy /\ ~ busy'
  /\ answer # <<>>
  /\ UNCHANGED <<prompt, limit, exact, answer>>

Next == Begin \/ Extend \/ End

Spec == Init /\ [][Next]_vars
===============================================================================
