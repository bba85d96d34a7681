---------------------------- MODULE MCGrindPool -----------------------------
(***************************************************************************)
(* Small instances of GrindPool: two workers.                               *)
(***************************************************************************)
EXTENDS GrindPool

CONSTANTS w1, w2
MCWorkers == {w1, w2}
=============================================================================
