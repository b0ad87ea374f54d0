----------------------------- MODULE MCReactor -----------------------------
(* Runs of Reactor.                                                         *)
EXTENDS Reactor
=============================================================================
