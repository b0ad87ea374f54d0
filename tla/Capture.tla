------------------------------ MODULE Capture ------------------------------
(***************************************************************************)
(* What a DrainState promises of the output of one child, whatever the     *)
(* sizes of the reads, the order of the calls and the interleaving with    *)
(* the child: per stream the first Limit units that were written, in       *)
(* order, without gap or repetition, and a stream is given up only when    *)
(* all of it was taken or the caller has had enough of it.                 *)
(*                                                                         *)
(* A unit is its position in the stream.                                   *)
(***************************************************************************)
EXTENDS Integers, Sequences

CONSTANTS
  Outputs,  \* the captured streams
  Limit     \* max_output

VARIABLES
  wrote,  \* units written to each stream so far
  taken,  \* units read from it so far, kept or not
  kept,   \* the units kept
  open    \* the streams still read

vars == <<wrote, taken, kept, open>>

Init ==
  /\ wrote = [s \in Outputs |-> 0]
  /\ taken = [s \in Outputs |-> 0]
  /\ kept = [s \in Outputs |-> <<>>]
  /\ open \subseteq Outputs

Write(s) ==
  /\ wrote' = [wrote EXCEPT ![s] = @ + 1]
  /\ UNCHANGED <<taken, kept, open>>

\* n units are taken off a stream: kept while they fit, else dropped.  cut: the
\* caller asks for no more.
Keep(s, n) ==
  /\ Len(kept[s]) + n <= Limit
  /\ kept' = [kept EXCEPT ![s] = @ \o [i \in 1..n |-> taken[s] + i]]

Drop(s) == Len(kept[s]) = Limit /\ UNCHANGED kept

Take(s, n, cut) ==
  /\ s \in open
  /\ Keep(s, n) \/ Drop(s)
  /\ taken' = [taken EXCEPT ![s] = @ + n]
  /\ open' = IF cut THEN open \ {s} ELSE open
  /\ UNCHANGED wrote

Close(s) ==
  /\ s \in open /\ taken[s] = wrote[s]
  /\ open' = open \ {s}
  /\ UNCHANGED <<wrote, taken, kept>>

Next ==
  \E s \in Outputs :
    \/ Write(s) \/ Close(s)
    \/ \E n \in 1..(wrote[s] - taken[s]), cut \in BOOLEAN : Take(s, n, cut)

Spec == Init /\ [][Next]_vars
=============================================================================
