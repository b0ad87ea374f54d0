----------------------------- MODULE MCShutdown -----------------------------
(* Runs of Shutdown.                                                        *)
EXTENDS Shutdown, TLC

Symmetry == Permutations(Calls)
=============================================================================
