------------------------------ MODULE DraftCache ------------------------------
(***************************************************************************)
(* The context cache of the DFlash2 drafter (src/draft/dflash.cu): keys    *)
(* and values projected from the target's residual stream, appended chunk  *)
(* by chunk during prefill and prefix by prefix during decode, compacted   *)
(* to the sliding window when the block would no longer fit. draft_push    *)
(* and draft_block abort the server when the positions they are given do   *)
(* not continue the cache.                                                 *)
(*                                                                         *)
(* A behaviour is a sequence of requests that speculate. `rows[k]` is the  *)
(* position whose key and value fill row k of a layer's cache; every layer *)
(* is written alike, so one stands for all. Only checkpoints with a        *)
(* sliding window are modelled (sliding_window > 0).                       *)
(*                                                                         *)
(* A definition marked "a fault" is the one after it with a bug put in; no *)
(* specification uses it. It shows that a property can tell.               *)
(***************************************************************************)
EXTENDS Integers, FiniteSetsExt

CONSTANTS
  Window,        \* sliding_window of the drafter, 2048
  Block,         \* block_size, 8
  MaxBatch,      \* the target's prefill chunk
  MaxRows,       \* max(ctx_chunk, block_size), ctx_chunk = max(512, MaxBatch)
  MaxCtx,        \* bound on positions
  MaxRequests    \* bound on the requests of a behaviour

ASSUME DraftCacheAssumption ==
  /\ Window \in Nat
  /\ Block \in Nat \ {0, 1}
  /\ 2 * Block <= Window + 1
  /\ MaxBatch \in Nat \ {0}
  /\ MaxRows \in Nat
  /\ MaxBatch <= MaxRows
  /\ Block <= MaxRows
  /\ MaxCtx \in Nat
  /\ MaxRequests \in Nat

VARIABLES
  cacheLen,      \* committed rows (cache_len)
  cachePos0,     \* position of the first row (cache_pos0)
  rows,          \* what the rows hold
  aborted,       \* has the server been aborted?
  phase,         \* idle, prefill, decode
  promptLen,     \* tokens of the prompt
  first,         \* where the drafter's context of this request begins
  pos,           \* position of the next token to be written
  served         \* requests begun

draftVars == <<cacheLen, cachePos0, rows, aborted>>
requestVars == <<phase, promptLen, first, pos>>
vars == <<draftVars, requestVars, served>>

Cap == 2 * Window

Noise == -1    \* a row of the block itself, or never written

TypeOK ==
  /\ cacheLen \in Nat
  /\ cachePos0 \in Nat
  /\ rows \in [1 .. Cap -> Nat \cup {Noise}]
  /\ aborted \in BOOLEAN
  /\ phase \in {"idle", "prefill", "decode"}
  /\ promptLen \in Nat
  /\ first \in Nat
  /\ pos \in Nat
  /\ served \in 0 .. MaxRequests

Init ==
  /\ cacheLen = 0 /\ cachePos0 = 0
  /\ rows = [k \in 1 .. Cap |-> Noise]
  /\ aborted = FALSE
  /\ phase = "idle"
  /\ promptLen = 0 /\ first = 0 /\ pos = 0
  /\ served = 0

Smaller(a, b) == IF a <= b THEN a ELSE b
Larger(a, b) == IF a >= b THEN a ELSE b

-----------------------------------------------------------------------------
(* Before n rows are pushed: compact when they and a block would overflow, *)
(* keeping the last Window - 1 rows.                                       *)
OverfullNoBlock(n) == cacheLen + n > Cap                      \* a fault

Overfull(n) == cacheLen + n + Block > Cap

KeptTooFew(n) ==                                             \* a fault
  IF Overfull(n) THEN Smaller(cacheLen, Window - Block) ELSE cacheLen

Kept(n) == IF Overfull(n) THEN Smaller(cacheLen, Window - 1) ELSE cacheLen

Dropped(n) == cacheLen - Kept(n)

(* Where the kept rows come from. Where source and destination overlap the *)
(* device copies in no order it promises: the rows `late` are read when    *)
(* their source was overwritten already, from its own source, and so on.   *)
Moves(keep, drop) ==
  LET overlap == IF drop = 0 THEN {} ELSE 1 .. keep - drop
      steps(k, late) == Min({m \in 1 .. keep : k + (m - 1) * drop \notin late})
  IN {[k \in 1 .. keep |-> k + steps(k, late) * drop] : late \in SUBSET overlap}

AppendedAtOldEnd(rs, src, keep, n, p) ==                      \* a fault
  [k \in 1 .. Cap |-> IF k <= keep THEN rs[src[k]]
                      ELSE IF k - cacheLen \in 1 .. n THEN p + (k - cacheLen - 1)
                      ELSE rs[k]]

(* The rows once `keep` of rs have moved and n from position p on follow. *)
Appended(rs, src, keep, n, p) ==
  [k \in 1 .. Cap |-> IF k <= keep THEN rs[src[k]]
                      ELSE IF k <= keep + n THEN p + (k - keep - 1)
                      ELSE rs[k]]

(* draft_push of n rows from position p on, over the rows rs. An empty     *)
(* cache takes any position.                                               *)
Continues(p) == cacheLen = 0 \/ cachePos0 + cacheLen = p

Push(n, p, rs) ==
  \/ /\ n = 0
     /\ rows' = rs
     /\ UNCHANGED <<cacheLen, cachePos0, aborted>>
  \/ /\ n > 0
     /\ n > MaxRows \/ ~ Continues(p)
     /\ aborted' = TRUE
     /\ rows' = rs
     /\ UNCHANGED <<cacheLen, cachePos0>>
  \/ /\ n \in 1 .. MaxRows
     /\ Continues(p)
     /\ cacheLen' = Kept(n) + n
     /\ cachePos0' = (IF cacheLen = 0 THEN p ELSE cachePos0) + Dropped(n)
     /\ \E src \in Moves(Kept(n), Dropped(n)) :
          rows' = Appended(rs, src, Kept(n), n, p)
     /\ UNCHANGED aborted

(* A request that will speculate: part of its prompt, never all of it, may *)
(* have come from the prefix cache. Positions below the window floor are   *)
(* out of every block's sight and are not pushed.                          *)
WindowFloor(n) == IF n + 1 > Window THEN n + 1 - Window ELSE 0

StartWithoutReset ==                                         \* a fault
  /\ ~ aborted
  /\ phase = "idle"
  /\ served < MaxRequests
  /\ \E n \in 1 .. MaxCtx : \E reuse \in 0 .. n - 1 :
       promptLen' = n /\ first' = Larger(reuse, WindowFloor(n)) /\ pos' = reuse
  /\ phase' = "prefill"
  /\ served' = served + 1
  /\ UNCHANGED draftVars

Start ==
  /\ ~ aborted
  /\ phase = "idle"
  /\ served < MaxRequests
  /\ \E n \in 1 .. MaxCtx : \E reuse \in 0 .. n - 1 :
       /\ promptLen' = n
       /\ first' = Larger(reuse, WindowFloor(n))
       /\ pos' = reuse
  /\ cacheLen' = 0 /\ cachePos0' = 0
  /\ phase' = "prefill"
  /\ served' = served + 1
  /\ UNCHANGED <<rows, aborted>>

(* One prefill chunk and its taps: spec_push_taps drops the rows below the *)
(* floor and pushes the others, in one piece since MaxBatch <= MaxRows.    *)
PrefillChunk ==
  /\ ~ aborted
  /\ phase = "prefill"
  /\ pos < promptLen
  /\ LET n == Smaller(MaxBatch, promptLen - pos)
         floor == WindowFloor(promptLen)
         skip == IF pos < floor THEN Smaller(n, floor - pos) ELSE 0
     IN  /\ Push(n - skip, pos + skip, rows)
         /\ pos' = pos + n
  /\ UNCHANGED <<phase, promptLen, first, served>>

EndPrefill ==
  /\ ~ aborted
  /\ phase = "prefill"
  /\ pos = promptLen
  /\ phase' = "decode"
  /\ UNCHANGED <<draftVars, promptLen, first, pos, served>>

(* One speculative round: draft_block writes a block of noise rows behind  *)
(* the cache, the target accepts n - 1 of its drafts, and the committed    *)
(* prefix is pushed over them.                                             *)
Round ==
  /\ ~ aborted
  /\ phase = "decode"
  /\ pos + Block <= MaxCtx
  /\ \/ /\ cachePos0 + cacheLen # pos
        /\ aborted' = TRUE
        /\ UNCHANGED <<cacheLen, cachePos0, rows, pos>>
     \/ /\ cachePos0 + cacheLen = pos
        /\ \E n \in 1 .. Block :
             /\ Push(n, pos, [k \in 1 .. Cap |->
                                IF k - cacheLen \in 1 .. Block THEN Noise ELSE rows[k]])
             /\ pos' = pos + n
  /\ UNCHANGED <<phase, promptLen, first, served>>

(* The request ends, or gives speculation up for good. *)
Leave ==
  /\ ~ aborted
  /\ phase = "decode"
  /\ phase' = "idle"
  /\ UNCHANGED <<draftVars, promptLen, first, pos, served>>

Next == Start \/ PrefillChunk \/ EndPrefill \/ Round \/ Leave

Spec == Init /\ [][Next]_vars

-----------------------------------------------------------------------------
(***************************************************************************)
(* No legal sequence of chunks and rounds makes draft_push or draft_block  *)
(* abort the server (dflash.cu:686-695 and 729-733; server.cpp:250-254     *)
(* tells of the abort that a full cache hit once caused). And the rows     *)
(* pushed and the block written behind them stay inside a layer's part of  *)
(* the cache: nothing checks that (dflash.cu:534, 714-715, 635-636).       *)
(***************************************************************************)
NeverAborts == ~ aborted
CacheFits == cacheLen + Block <= Cap

RoundsFit == NeverAborts /\ CacheFits

(***************************************************************************)
(* Compaction loses nothing the mask would let a block see: from the start *)
(* of the drafter's context, every position less than Window behind the    *)
(* block is in the cache (dflash.cu:697-700 and 182).                      *)
(***************************************************************************)
WindowCovered ==
  phase = "decode" =>
    \A q \in first .. pos - 1 :
      pos - q < Window => q \in cachePos0 .. cachePos0 + cacheLen - 1

(***************************************************************************)
(* What a compaction can do to the rows, however the device orders a copy  *)
(* between overlapping ranges (dflash.cu:704): a committed row is never    *)
(* noise, never of an earlier request and never of an earlier position     *)
(* than its own, and of the positions a block can see only the Block - 3   *)
(* at the window's edge may hold a later one. dflash.cu:697-699 says of it *)
(* that "nothing is lost".                                                 *)
(***************************************************************************)
RowsTrue ==
  LET end == cachePos0 + cacheLen
  IN \A k \in 1 .. Cap :
       k <= cacheLen =>
         LET q == cachePos0 + (k - 1)
         IN /\ rows[k] \in q .. end - 1
            /\ end - q < Window - (Block - 3) => rows[k] = q
=============================================================================
