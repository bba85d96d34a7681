---------------------------- MODULE MCEnginePool ----------------------------
(***************************************************************************)
(* Small instances of EnginePool: two ranges.                               *)
(***************************************************************************)
EXTENDS EnginePool

CONSTANTS w1, w2
MCWorkers == {w1, w2}
=============================================================================
