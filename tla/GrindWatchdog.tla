---------------------------- MODULE GrindWatchdog ----------------------------
(***************************************************************************)
(* src/src/minerd/watchdog.ts: what the two pool clients do about a grind     *)
(* that reports no hashes. How long it has been silent is time: a stall may   *)
(* be noticed at any later tick.                                             *)
(***************************************************************************)
EXTENDS Naturals

CONSTANT Respawning  \* WATCHDOG_RESPAWN_AFTER_STRIKES

ASSUME WatchdogAssumption == Respawning \in Nat \ {0}

RespawnDue(strikes) == strikes + 1 >= Respawning

(* watchdogDecision: the first stalls re-apply the work, the last one replaces
   the workers; dormant without a job. *)
WatchdogDecision(stopped, hasActiveJob, stalled, strikes) ==
  CASE stopped \/ ~hasActiveJob \/ ~stalled -> "ok"
    [] RespawnDue(strikes) -> "respawn"
    [] OTHER -> "re-apply"

(* Workers that hang come back with a restart, dead ones only if replaced. *)
Restarted(health) == IF health = "stuck" THEN "ok" ELSE health
=============================================================================
