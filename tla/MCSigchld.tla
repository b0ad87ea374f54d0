----------------------------- MODULE MCSigchld -----------------------------
(* Run of Sigchld.                                                          *)
EXTENDS Sigchld
=============================================================================
