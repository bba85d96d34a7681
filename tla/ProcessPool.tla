----------------------------- MODULE ProcessPool -----------------------------
(***************************************************************************)
(* What the two pools of grind processes share: the ranges they split a      *)
(* template into and the limits of src/src/minerd/grindPool.ts.              *)
(***************************************************************************)
EXTENDS Integers, FiniteSets

CONSTANTS
  Workers,       \* indices of the nonce ranges
  MaxFastFails,  \* MAX_FAST_FAILS
  MaxCrashes,    \* MAX_CRASHES_PER_GEN
  MaxGen         \* bound on generations, a modelling artefact

ASSUME ProcessPoolAssumption ==
  /\ IsFiniteSet(Workers) /\ Workers # {}
  /\ MaxFastFails \in Nat \ {0} /\ MaxCrashes \in Nat \ {0} /\ MaxGen \in Nat \ {0}

(* Processes of range i, of which there should be one. *)
Procs == Workers \X {1, 2}

Each(v) == [i \in Workers |-> v]
=============================================================================
