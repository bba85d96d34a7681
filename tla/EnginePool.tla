------------------------------ MODULE EnginePool ------------------------------
(***************************************************************************)
(* The pool of processes behind a session: runMiner of                       *)
(* src/src/minerd/miner.ts takes the CUDA engine when it is selected and      *)
(* built, else the native one when that is. The pool clients know the native  *)
(* one only. A session keeps its engine.                                     *)
(***************************************************************************)
EXTENDS NativeGrindPool, CudaGrindPool

engineVars == <<vars, cudaVars>>

EngineInit == Init /\ CudaInit

NativeEngine == cudaGen = 0 /\ Next /\ UNCHANGED cudaVars
CudaEngine == gen = 0 /\ CudaNext /\ UNCHANGED vars

EngineNext == NativeEngine \/ CudaEngine

EngineSpec == EngineInit /\ [][EngineNext]_engineVars

EngineFairSpec == EngineSpec /\ Fairness /\ CudaFairness

-----------------------------------------------------------------------------
(* Whichever engine grinds, the coordinator gets what the grind service promises:
   one final callback per template, none for one that was taken away, and nothing
   of a process that a late timer brings back to a solved template. *)
EnginesServe == ImplementsService /\ CudaImplementsService

(* "Every expected child must either scan its range or be permanently left down":
   maybeExhausted of either pool adds up two counters that nothing ties to ranges,
   and yet each range of a template is at exactly one of five places, so none is
   forgotten and none counted twice. *)
RangesAccounted == EachRangeOnce /\ CudaEachRangeOnce

(* No range is ground twice over: a native one that was scanned to its end is left
   alone ("re-grinding its range and resubmitting the same shares" would follow),
   and a CUDA one never has two processes, of which "each process owns a large
   Sandglass scratch allocation", not even after the solve. *)
NoneGroundTwice == ScannedOnce /\ OneProcessPerRange

(* Every template ends in either pool, whatever crashes, unless it is taken away
   or the spawn of one of its processes threw. *)
TemplatesEnd == GenerationCompletes /\ CudaGenerationCompletes
=============================================================================
