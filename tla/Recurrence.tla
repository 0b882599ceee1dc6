------------------------------ MODULE Recurrence ------------------------------
(***************************************************************************)
(* The recurrent half of the model as the control code sees it (the gated  *)
(* delta-net kernels of src/kernels/gdn.cu): a short causal convolution    *)
(* over the last ConvK inputs, kept across calls as a window of ConvK - 1  *)
(* inputs, whose output rows are absorbed one by one by a scan.            *)
(*                                                                         *)
(* Values are provenance. An input is the token it came from, a row of the *)
(* convolution is the tuple of the ConvK inputs it was computed from, and  *)
(* the state of the scan is the sequence of the rows it has absorbed. All  *)
(* channels, heads and layers are treated alike, so one stands for all.    *)
(*                                                                         *)
(* Sequences count from 1 where the kernels count from 0.                  *)
(***************************************************************************)
EXTENDS Integers, Sequences

CONSTANTS
  Token,
  NoToken,     \* the zero that stands before the first input
  ConvK        \* taps of the convolution, 4 in the checkpoint

ASSUME RecurrenceAssumption ==
  /\ ConvK \in Nat
  /\ ConvK >= 2
  /\ NoToken \notin Token

Input == Token \cup {NoToken}

Window == [1 .. ConvK - 1 -> Input]

Row == [1 .. ConvK -> Input]

\* The window before anything was fed: zeros.
Quiet == [j \in 1 .. ConvK - 1 |-> NoToken]

(* k_conv_prefill: output row t of a call that feeds s behind window w. *)
Conv(w, s) ==
  [t \in 1 .. Len(s) |->
     [j \in 1 .. ConvK |->
        IF t + j - ConvK >= 1 THEN s[t + j - ConvK] ELSE w[t + j - 1]]]

(* k_conv_state_tail, and k_conv_state_slice of spec.cu, which is the same *)
(* with n less than the rows fed: the window after the first n inputs of s.*)
WindowAfter(w, s, n) ==
  [j \in 1 .. ConvK - 1 |->
     IF n - (ConvK - 1) + j >= 1 THEN s[n - (ConvK - 1) + j] ELSE w[n + j]]

(* k_conv, the kernel of a single step: its row, and the shifted history. *)
StepRow(w, x) == [j \in 1 .. ConvK |-> IF j < ConvK THEN w[j] ELSE x]

StepWindow(w, x) == [j \in 1 .. ConvK - 1 |-> IF j < ConvK - 1 THEN w[j + 1] ELSE x]

(* gdn_conv picks the kernel by the number of rows. *)
ConvRows(w, s) == IF Len(s) = 1 THEN <<StepRow(w, s[1])>> ELSE Conv(w, s)

ConvWindow(w, s) ==
  IF Len(s) = 1 THEN StepWindow(w, s[1]) ELSE WindowAfter(w, s, Len(s))

(* gdn_scan: the rows are absorbed in order. *)
Scan(state, rows) == state \o rows

(* What the state must be after the tokens s, from a cold start. *)
StateOf(s) == Conv(Quiet, s)
=============================================================================
