---------------------------- MODULE CudaGrindPool ----------------------------
(***************************************************************************)
(* The pool of GPU processes of src/src/minerd/cudaGrindPool.ts, as solo    *)
(* mining uses it: no shares, and nobody calls its respawn. It is the native *)
(* pool with fewer guards. Its respawn timer asks neither for the generation *)
(* nor for a solve, and spawnChild does not look for a previous process.     *)
(*                                                                         *)
(* What a process said last is read before its end is seen. One that cannot *)
(* be started, or whose SOLVED line is refused, ends with nothing said. The  *)
(* throttle, the lanes and the hash rates carry no control and are left out. *)
(* The fields bear the prefix cuda because EnginePool has both pools.        *)
(***************************************************************************)
EXTENDS ProcessPool

VARIABLES
  cudaGen,        \* gen
  cudaSolved,     \* solvedThisGen
  cudaExhausted,  \* exhaustedThisGen
  cudaDown,       \* permanentlyDownThisGen
  cudaActive,     \* activeGrind is not null
  cudaChildDown,  \* childDown[i]
  cudaFails,      \* fastFailures[i]
  cudaCrashes,    \* crashesThisGen[i]
  cudaTimer,      \* a timer of pendingRespawns is armed for range i
  proc,           \* children: a process is "off" when the pool does not listen
                  \* to it, "up" while it grinds, "SOLVED" or "EXHAUSTED" with
                  \* that line unread behind its exit, and "ended" or, after an
                  \* EXHAUSTED, "final" when only its end is left to be seen
  cudaScanned,    \* history: ranges whose EXHAUSTED was counted
  cudaLost,       \* history: ranges whose spawn threw
  cudaOutcome     \* history: the final callback of this generation

cudaPoolVars == <<cudaGen, cudaSolved, cudaExhausted, cudaDown, cudaActive>>
cudaSlotVars == <<cudaChildDown, cudaFails, cudaCrashes, cudaTimer>>
cudaHistory == <<cudaScanned, cudaLost, cudaOutcome>>
cudaVars == <<cudaPoolVars, cudaSlotVars, proc, cudaHistory>>

(* killChildren, and then a process for each of `ranges`. *)
CudaOnlyFresh(ranges) ==
  proc' = [p \in Procs |-> IF p[1] \in ranges /\ p[2] = 1 THEN "up" ELSE "off"]

(* Mutant: a new template leaves the timers of the old one armed. *)
KeepPendingRespawns == UNCHANGED cudaTimer

CudaClearPendingRespawns == cudaTimer' = Each(FALSE)

CudaNewGeneration(broken) ==
  /\ cudaGen < MaxGen
  /\ cudaGen' = cudaGen + 1 /\ CudaClearPendingRespawns
  /\ cudaScanned' = {} /\ cudaLost' = broken /\ cudaOutcome' = "none"

-----------------------------------------------------------------------------
(* What the caller does. *)

(* start: spawn throws for the ranges in `threw`; that is only reported. *)
CudaStart(threw) ==
  /\ CudaNewGeneration(threw)
  /\ cudaSolved' = FALSE /\ cudaExhausted' = 0 /\ cudaDown' = 0 /\ cudaActive' = TRUE
  /\ cudaChildDown' = Each(FALSE) /\ cudaFails' = Each(0) /\ cudaCrashes' = Each(0)
  /\ CudaOnlyFresh(Workers \ threw)

(* stop, and terminate, whose flag only says again that nothing is active. *)
CudaStop ==
  /\ CudaNewGeneration({})
  /\ cudaSolved' = TRUE /\ cudaActive' = FALSE
  /\ CudaOnlyFresh({})
  /\ UNCHANGED <<cudaExhausted, cudaDown, cudaChildDown, cudaFails, cudaCrashes>>

-----------------------------------------------------------------------------
(* What a process does: it hits, comes to the end of its range, or dies. *)
Leaves(p, as) ==
  /\ proc[p] = "up"
  /\ proc' = [proc EXCEPT ![p] = as]
  /\ UNCHANGED <<cudaPoolVars, cudaSlotVars, cudaHistory>>

CudaHit(p) == Leaves(p, "SOLVED")
CudaScanToEnd(p) == Leaves(p, "EXHAUSTED")
CudaCrash(p) == Leaves(p, "ended")

-----------------------------------------------------------------------------
(* What the pool does with it. *)

CudaCalled(callback) == IF cudaOutcome = "none" THEN callback ELSE "twice"

(* Mutant: ranges that are down for good are not counted. *)
CudaMaybeScanned ==
  IF ~cudaSolved /\ cudaExhausted' >= Cardinality(Workers)
    THEN cudaActive' = FALSE /\ cudaOutcome' = CudaCalled("exhausted")
    ELSE UNCHANGED <<cudaActive, cudaOutcome>>

(* maybeExhausted, once the counters have been raised. *)
CudaMaybeExhausted ==
  IF ~cudaSolved /\ cudaExhausted' + cudaDown' >= Cardinality(Workers)
    THEN cudaActive' = FALSE /\ cudaOutcome' = CudaCalled("exhausted")
    ELSE UNCHANGED <<cudaActive, cudaOutcome>>

(* Mutant: every hit is passed on. *)
NeverLatched == FALSE

(* A second hit of a solo template is dropped. *)
Latched == cudaSolved

(* handleStdout, SOLVED: the first ends the grind of every process. The template
   stays the active one, so an armed timer will spawn for it. *)
CudaOnSolved(p) ==
  /\ proc[p] = "SOLVED"
  /\ IF Latched
       THEN proc' = [proc EXCEPT ![p] = "ended"] /\ UNCHANGED <<cudaSolved, cudaOutcome>>
       ELSE CudaOnlyFresh({}) /\ cudaSolved' = TRUE /\ cudaOutcome' = CudaCalled("solved")
  /\ UNCHANGED <<cudaGen, cudaExhausted, cudaDown, cudaActive, cudaSlotVars,
                 cudaScanned, cudaLost>>

(* handleStdout, EXHAUSTED. *)
CudaOnExhausted(p) ==
  /\ proc[p] = "EXHAUSTED"
  /\ proc' = [proc EXCEPT ![p] = "final"]
  /\ cudaExhausted' = cudaExhausted + 1 /\ cudaDown' = cudaDown
  /\ CudaMaybeExhausted
  /\ cudaScanned' = cudaScanned \union {p[1]}
  /\ UNCHANGED <<cudaGen, cudaSolved, cudaSlotVars, cudaLost>>

(* Mutant: one that said EXHAUSTED is taken for crashed. *)
SettledBySolve(p) == cudaSolved

(* handleChildFailure has nothing to make good. *)
Settled(p) == proc[p] = "final" \/ cudaSolved

(* handleChildFailure: a range that failed too often stays down and counts as
   done, any other is spawned again after a delay. *)
Failed(i, fast) ==
  /\ cudaFails' = [cudaFails EXCEPT ![i] = IF fast THEN @ + 1 ELSE 0]
  /\ cudaCrashes' = [cudaCrashes EXCEPT ![i] = @ + 1]
  /\ cudaExhausted' = cudaExhausted
  /\ IF cudaFails'[i] >= MaxFastFails \/ cudaCrashes'[i] >= MaxCrashes
       THEN /\ cudaChildDown' = [cudaChildDown EXCEPT ![i] = TRUE]
            /\ cudaDown' = cudaDown + 1 /\ CudaMaybeExhausted /\ UNCHANGED cudaTimer
       ELSE /\ cudaTimer' = [cudaTimer EXCEPT ![i] = TRUE]
            /\ UNCHANGED <<cudaChildDown, cudaDown, cudaActive, cudaOutcome>>

OnClose(p) ==
  /\ proc[p] \in {"ended", "final"}
  /\ proc' = [proc EXCEPT ![p] = "off"]
  /\ IF Settled(p)
       THEN UNCHANGED <<cudaExhausted, cudaDown, cudaActive, cudaSlotVars, cudaOutcome>>
       ELSE \E fast \in BOOLEAN : Failed(p[1], fast)
  /\ UNCHANGED <<cudaGen, cudaSolved, cudaScanned, cudaLost>>

(* spawnChild, for the generation of the moment. *)
CudaSpawnChild(i) ==
  LET k == IF proc[<<i, 1>>] = "off" THEN 1 ELSE 2
  IN \/ proc' = [proc EXCEPT ![<<i, k>>] = "up"] /\ UNCHANGED cudaLost
     \/ cudaLost' = cudaLost \union {i} /\ UNCHANGED proc

CudaRespawnTimer(i) ==
  /\ cudaTimer[i]
  /\ cudaTimer' = [cudaTimer EXCEPT ![i] = FALSE]
  /\ IF cudaActive /\ ~cudaChildDown[i]
       THEN CudaSpawnChild(i)
       ELSE UNCHANGED <<proc, cudaLost>>
  /\ UNCHANGED <<cudaPoolVars, cudaChildDown, cudaFails, cudaCrashes, cudaScanned,
                 cudaOutcome>>

-----------------------------------------------------------------------------
CudaInit ==
  /\ cudaGen = 0 /\ cudaSolved = FALSE /\ cudaActive = FALSE
  /\ cudaExhausted = 0 /\ cudaDown = 0
  /\ cudaChildDown = Each(FALSE) /\ cudaFails = Each(0) /\ cudaCrashes = Each(0)
  /\ cudaTimer = Each(FALSE)
  /\ proc = [p \in Procs |-> "off"]
  /\ cudaScanned = {} /\ cudaLost = {} /\ cudaOutcome = "none"

CudaEvents(p) == CudaOnSolved(p) \/ CudaOnExhausted(p) \/ OnClose(p)

CudaNext ==
  \/ \E threw \in SUBSET Workers : CudaStart(threw)
  \/ CudaStop
  \/ \E p \in Procs : CudaHit(p) \/ CudaScanToEnd(p) \/ CudaCrash(p) \/ CudaEvents(p)
  \/ \E i \in Workers : CudaRespawnTimer(i)

(* A process that neither hits nor dies comes to the end of its finite range, and
   Node delivers lines, ends and timers. Nobody has to call the pool. *)
CudaFairness ==
  /\ \A p \in Procs : WF_cudaVars(CudaScanToEnd(p)) /\ WF_cudaVars(CudaEvents(p))
  /\ \A i \in Workers : WF_cudaVars(CudaRespawnTimer(i))

-----------------------------------------------------------------------------
CudaPoolTypeOK ==
  /\ cudaGen \in 0 .. MaxGen /\ cudaSolved \in BOOLEAN /\ cudaActive \in BOOLEAN
  /\ cudaExhausted \in Nat /\ cudaDown \in Nat
  /\ cudaChildDown \in [Workers -> BOOLEAN] /\ cudaTimer \in [Workers -> BOOLEAN]
  /\ cudaFails \in [Workers -> Nat] /\ cudaCrashes \in [Workers -> 0 .. MaxCrashes]
  /\ proc \in [Procs -> {"off", "up", "SOLVED", "EXHAUSTED", "ended", "final"}]
  /\ cudaScanned \subseteq Workers /\ cudaLost \subseteq Workers
  /\ cudaOutcome \in {"none", "solved", "exhausted", "twice"}

CudaGrinding == cudaActive /\ ~cudaSolved

GpusGround == {p[1] : p \in {q \in Procs : proc[q] \notin {"off", "final"}}}
GpusDown == {i \in Workers : cudaChildDown[i]}
GpusWaiting == {i \in Workers : cudaTimer[i]}

(* maybeExhausted adds up counters that nothing ties to ranges: while a template
   is ground, each of its ranges is at exactly one place, scanned, down for good,
   in a process, waiting for its timer, or lost to a spawn that threw, so that
   none is forgotten and none counted twice. *)
CudaEachRangeOnce ==
  CudaGrinding =>
    LET standing == <<cudaScanned, GpusDown, GpusGround, GpusWaiting, cudaLost>>
    IN /\ \A i \in Workers : \E k \in 1 .. 5 : i \in standing[k]
       /\ \A j, k \in 1 .. 5 : j # k => standing[j] \intersect standing[k] = {}

(* "One process is the safe default because each process owns a large Sandglass
   scratch allocation": spawnChild looks for no previous process, yet a range
   never has two that the pool has not killed, not even one that a late timer
   brings back after the solve; and an idle pool has none. *)
OneProcessPerRange ==
  \A p \in Procs : proc[p] = "up" =>
    cudaActive /\ \A q \in Procs : q[1] = p[1] /\ q # p => proc[q] # "up"

(* Every template ends, whatever crashes, unless it is taken away or the spawn of
   one of its processes threw. *)
CudaGenerationCompletes == CudaGrinding ~> (~CudaGrinding \/ cudaLost # {})

(* A caller gets what the grind service promises, and nothing of a process that
   a late timer brings back to a template that is solved: see GrindService. *)
CudaService == INSTANCE GrindService WITH
  Ranges <- Workers, grinding <- CudaGrinding, shares <- FALSE,
  todo <- IF CudaGrinding THEN Workers \ (cudaScanned \union GpusDown) ELSE {},
  outcome <- cudaOutcome

CudaImplementsService == CudaService!ServiceSpec
=============================================================================
