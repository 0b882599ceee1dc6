----------------------------- MODULE PrefixCache -----------------------------
(***************************************************************************)
(* The prefix cache of src/cache/prefix.{h,cu}: snapshots of the model's   *)
(* recurrent state, kept in a fixed set of slots with LRU replacement, and *)
(* a record of what the device's KV arena holds.                           *)
(*                                                                         *)
(* A recurrent state or a row of logits is modelled by its provenance: the *)
(* sequence of tokens that the model consumed to produce it. A snapshot is *)
(* right when the state it carries came from the tokens it is filed under. *)
(*                                                                         *)
(* `pos` of a slot is the length of its tokens in the code (prefix.h:62);  *)
(* prefix_store and prefix_reset are its only writers and set both at      *)
(* once, so it is Len(tokens) here.                                        *)
(*                                                                         *)
(* A definition marked "a fault" is the one after it with a bug put in; no *)
(* specification uses it. It shows that a property can tell.               *)
(***************************************************************************)
EXTENDS Naturals, Sequences

CONSTANTS
  Token,      \* the vocabulary
  NoToken,    \* what a buffer holds before anything is written to it
  NumSlots    \* --prefix-slots; 0 stands for --no-prefix-cache as well

ASSUME CacheAssumption == NumSlots \in Nat /\ NoToken \notin Token

VARIABLES
  slots,      \* the snapshots
  kvTokens,   \* the tokens the cache believes the KV arena holds
  clock       \* the LRU clock

cacheVars == <<slots, kvTokens, clock>>

SlotIds == 1 .. NumSlots

Garbled == <<NoToken>>         \* logits that follow from no sequence

Logits == Seq(Token) \cup {Garbled}

Slot == [valid : BOOLEAN, tokens : Seq(Token), state : Seq(Token),
         logits : Logits, stamp : Nat]

EmptySlot == [valid |-> FALSE, tokens |-> <<>>, state |-> <<>>,
              logits |-> <<>>, stamp |-> 0]

CacheTypeOK ==
  /\ slots \in [SlotIds -> Slot]
  /\ kvTokens \in Seq(Token)
  /\ clock \in Nat

\* prefix_alloc: every slot is free and the arena holds nothing known.
CacheInit ==
  /\ slots = [i \in SlotIds |-> EmptySlot]
  /\ kvTokens = <<>>
  /\ clock = 0

-----------------------------------------------------------------------------
(* common_prefix(a, b) >= n, the only form in which it is used. *)
Agree(a, b, n) ==
  /\ n <= Len(a)
  /\ n <= Len(b)
  /\ \A k \in 1 .. n : a[k] = b[k]

ResumableIgnoringKv(tokens) ==                               \* a fault
  {i \in SlotIds : /\ slots[i].valid /\ slots[i].tokens # <<>>
                   /\ Agree(slots[i].tokens, tokens, Len(slots[i].tokens))}

(* The slots prefix_lookup accepts: valid, filed under a prefix of the     *)
(* request, and with the KV of that prefix still in the arena.             *)
Resumable(tokens) ==
  {i \in SlotIds :
     /\ slots[i].valid
     /\ slots[i].tokens # <<>>
     /\ Agree(tokens, kvTokens, Len(slots[i].tokens))
     /\ Agree(slots[i].tokens, tokens, Len(slots[i].tokens))}

(* Is slot i the one the scan of prefix_lookup ends with: the longest, and *)
(* of equally long ones the first?                                         *)
IsBest(i, tokens) ==
  /\ i \in Resumable(tokens)
  /\ \A j \in Resumable(tokens) :
       \/ Len(slots[j].tokens) < Len(slots[i].tokens)
       \/ Len(slots[j].tokens) = Len(slots[i].tokens) /\ i <= j

(* What prefix_lookup returns: how many tokens need no prefill. *)
Reusable(tokens) ==
  IF Resumable(tokens) = {}
  THEN 0
  ELSE Len(slots[CHOOSE i \in SlotIds : IsBest(i, tokens)].tokens)

(* The slot prefix_store writes: the one that already holds this prefix,   *)
(* else a free one, else the least recently used one; the first of each.   *)
Holders(prefix) == {i \in SlotIds : slots[i].valid /\ slots[i].tokens = prefix}

Free == {i \in SlotIds : ~ slots[i].valid}

IsTargetNewest(i, prefix) ==                                 \* a fault
  \/ i \in Holders(prefix)
  \/ Holders(prefix) = {} /\ i \in Free /\ \A j \in Free : i <= j
  \/ /\ Holders(prefix) = {} /\ Free = {}
     /\ \A j \in SlotIds : slots[i].stamp >= slots[j].stamp

IsTargetFreeFirst(i, prefix) ==                               \* a fault
  \/ i \in Free /\ \A j \in Free : i <= j
  \/ Free = {} /\ i \in Holders(prefix) /\ \A j \in Holders(prefix) : i <= j
  \/ /\ Free = {} /\ Holders(prefix) = {} /\ i \in SlotIds
     /\ \A j \in SlotIds : slots[i].stamp <= slots[j].stamp

IsTarget(i, prefix) ==
  \/ /\ i \in Holders(prefix)
     /\ \A j \in Holders(prefix) : i <= j
  \/ /\ Holders(prefix) = {}
     /\ i \in Free
     /\ \A j \in Free : i <= j
  \/ /\ Holders(prefix) = {}
     /\ Free = {}
     /\ i \in SlotIds
     /\ \A j \in SlotIds :
          \/ slots[i].stamp < slots[j].stamp
          \/ slots[i].stamp = slots[j].stamp /\ i <= j

StoreStrict(tokens, n, state, lg) ==                          \* a fault
  IF NumSlots = 0 \/ n = 0 \/ n >= Len(tokens)
  THEN UNCHANGED <<slots, clock>>
  ELSE \E i \in SlotIds :
         /\ IsTarget(i, SubSeq(tokens, 1, n))
         /\ clock' = clock + 1
         /\ slots' = [slots EXCEPT ![i] =
                        [valid |-> TRUE, tokens |-> SubSeq(tokens, 1, n),
                         state |-> state, logits |-> lg, stamp |-> clock + 1]]

(* prefix_store(tokens, n) while the device holds `state` and `lg`: a step *)
(* on slots and clock only.                                                *)
Store(tokens, n, state, lg) ==
  IF NumSlots = 0 \/ n = 0 \/ n > Len(tokens)
  THEN UNCHANGED <<slots, clock>>
  ELSE \E i \in SlotIds :
         /\ IsTarget(i, SubSeq(tokens, 1, n))
         /\ clock' = clock + 1
         /\ slots' = [slots EXCEPT ![i] =
                        [valid |-> TRUE, tokens |-> SubSeq(tokens, 1, n),
                         state |-> state, logits |-> lg, stamp |-> clock + 1]]

TouchNot(i) == UNCHANGED <<slots, clock>>                     \* a fault

(* prefix_restore(slot) as it changes the cache: the slot is now the most  *)
(* recently used. The caller takes state, logits and position from it.     *)
Touch(i) ==
  /\ clock' = clock + 1
  /\ slots' = [slots EXCEPT ![i] = [@ EXCEPT !.stamp = clock + 1]]

-----------------------------------------------------------------------------
(***************************************************************************)
(* No snapshot is stored twice: a conversation that is re-run refreshes    *)
(* its slot in place instead of using one per turn (prefix.cu:108-109).    *)
(***************************************************************************)
NoDuplicateSlots ==
  \A i, j \in SlotIds :
    (slots[i].valid /\ slots[j].valid /\ slots[i].tokens = slots[j].tokens) => i = j

(***************************************************************************)
(* A snapshot is what it is filed under: the state and the logits it       *)
(* carries are those of the model after exactly tokens[0, pos)             *)
(* (prefix.h:62 and 110-113).                                              *)
(***************************************************************************)
SlotSound ==
  \A i \in SlotIds :
    slots[i].valid => /\ slots[i].state = slots[i].tokens
                      /\ slots[i].logits = slots[i].tokens
=============================================================================
