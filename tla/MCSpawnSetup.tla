---------------------------- MODULE MCSpawnSetup ----------------------------
(* Runs of SpawnSetup.                                                      *)
EXTENDS SpawnSetup

AnyStd == SUBSET (0..2)
=============================================================================
