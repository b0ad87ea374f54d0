------------------------------ MODULE MCDrain ------------------------------
(* Runs of Drain.                                                           *)
EXTENDS Drain
=============================================================================
