--------------------------- MODULE NativeGrindPool ---------------------------
(***************************************************************************)
(* The pool of grind processes of src/src/minerd/nativeGrindPool.ts: one    *)
(* child per nonce range, which prints SOLVED and EXHAUSTED lines and exits. *)
(*                                                                         *)
(* A child that is killed is never heard of again, since closeChild removes *)
(* its listeners. The others' lines, ends and respawn timers arrive in any   *)
(* order, but readline reports the end of a child after its last line. A     *)
(* process that cannot be started ends at once with nothing printed, and so  *)
(* does, for the pool, one whose SOLVED line is out of its range. The        *)
(* throttle and the hash rates carry no control and are left out.            *)
(***************************************************************************)
EXTENDS ProcessPool, Sequences

CONSTANT MaxLines  \* bound on unread lines of a child, a modelling artefact

ASSUME NativePoolAssumption == MaxLines \in Nat \ {0}

VARIABLES
  gen,         \* gen
  solved,      \* solvedThisGen
  exhausted,   \* exhaustedThisGen
  down,        \* permanentlyDownThisGen
  expected,    \* expectedChildCount
  active,      \* activeGrind.gen, 0 for null
  continuous,  \* pool mining: every hit is a share and the scan goes on
  childDown,   \* childDown[i]
  fails,       \* fastFailures[i]
  crashes,     \* crashesThisGen[i]
  timer,       \* pendingRespawns: genAtExit of the armed timer, 0 for none
  children,    \* children: the processes the pool listens to
  up,          \* the process runs
  lines,       \* what it printed and the pool has not read
  final,       \* final: it said EXHAUSTED
  scanned,     \* history: ranges whose EXHAUSTED was counted
  ended,       \* history: ranges that a process scanned to the end
  lost,        \* history: ranges whose spawn threw
  outcome      \* history: the final callback of this generation

poolVars == <<gen, solved, exhausted, down, expected, active, continuous>>
slotVars == <<childDown, fails, crashes, timer>>
procVars == <<children, up, lines, final>>
history == <<scanned, ended, lost, outcome>>
vars == <<poolVars, slotVars, procVars, history>>

(* The pool listens to the processes in `ps` only, all of them just spawned. *)
OnlyFresh(ps) ==
  /\ children' = ps /\ up' = [p \in Procs |-> p \in ps]
  /\ lines' = [p \in Procs |-> <<>>] /\ final' = [p \in Procs |-> FALSE]

KillChildren == OnlyFresh({})

ClearPendingRespawns == timer' = Each(0)

(* Mutant: the ranges left down are carried over. *)
ResetExhausted == exhausted' = 0 /\ UNCHANGED down

ResetCounters == exhausted' = 0 /\ down' = 0

NewGeneration(broken) ==
  /\ gen < MaxGen
  /\ gen' = gen + 1
  /\ scanned' = {} /\ ended' = {} /\ lost' = broken /\ outcome' = "none"

-----------------------------------------------------------------------------
(* What the caller does. *)

(* start: spawn throws for the ranges in `threw`; that is only reported. *)
Start(shares, threw) ==
  /\ NewGeneration(threw) /\ ResetCounters /\ ClearPendingRespawns
  /\ active' = gen + 1 /\ solved' = FALSE
  /\ expected' = Cardinality(Workers) /\ continuous' = shares
  /\ childDown' = Each(FALSE) /\ fails' = Each(0) /\ crashes' = Each(0)
  /\ OnlyFresh((Workers \ threw) \X {1})

Abandon ==
  /\ NewGeneration({}) /\ ResetCounters /\ ClearPendingRespawns
  /\ active' = 0 /\ solved' = TRUE
  /\ expected' = 0 /\ continuous' = FALSE
  /\ KillChildren
  /\ UNCHANGED childDown

(* stop, and terminate too: it also sets a flag, which the next start clears. *)
Stop == Abandon /\ UNCHANGED <<fails, crashes>>

(* respawn: "Replace every process and leave the pool idle for the caller's
   next start()". *)
Respawn == Abandon /\ fails' = Each(0) /\ crashes' = Each(0)

-----------------------------------------------------------------------------
(* What a process does. *)

WriteLine(p, line) ==
  /\ up[p] /\ Len(lines[p]) < MaxLines
  /\ lines' = [lines EXCEPT ![p] = Append(@, line)]

(* A nonce meets the target; only a continuous scan goes on behind it. *)
Hit(p) ==
  /\ WriteLine(p, "SOLVED")
  /\ up' = [up EXCEPT ![p] = continuous]
  /\ UNCHANGED <<poolVars, slotVars, children, final, history>>

ScanToEnd(p) ==
  /\ WriteLine(p, "EXHAUSTED")
  /\ up' = [up EXCEPT ![p] = FALSE]
  /\ ended' = ended \union {p[1]}
  /\ UNCHANGED <<poolVars, slotVars, children, final, scanned, lost, outcome>>

Crash(p) ==
  /\ up[p]
  /\ up' = [up EXCEPT ![p] = FALSE]
  /\ UNCHANGED <<poolVars, slotVars, children, lines, final, history>>

-----------------------------------------------------------------------------
(* What the pool does with it. *)

Called(callback) == IF outcome = "none" THEN callback ELSE "twice"

(* Mutant: ranges that are down for good are not counted. *)
MaybeScanned ==
  IF ~solved /\ expected # 0 /\ exhausted' >= expected
    THEN active' = 0 /\ outcome' = Called("exhausted")
    ELSE UNCHANGED <<active, outcome>>

(* maybeExhausted, once the counters have been raised. *)
MaybeExhausted ==
  IF ~solved /\ expected # 0 /\ exhausted' + down' >= expected
    THEN active' = 0 /\ outcome' = Called("exhausted")
    ELSE UNCHANGED <<active, outcome>>

NextLine(p, line) == p \in children /\ lines[p] # <<>> /\ Head(lines[p]) = line

Consume(p) == lines' = [lines EXCEPT ![p] = Tail(@)]

(* handleStdout: a share is passed on ... *)
OnShare(p) ==
  /\ NextLine(p, "SOLVED") /\ continuous
  /\ Consume(p)
  /\ UNCHANGED <<poolVars, slotVars, children, up, final, history>>

(* ... and a solo solve ends the grind of every child. *)
OnSolved(p) ==
  /\ NextLine(p, "SOLVED") /\ ~continuous
  /\ solved' = TRUE /\ outcome' = Called("solved")
  /\ KillChildren
  /\ UNCHANGED <<gen, exhausted, down, expected, active, continuous, slotVars,
                 scanned, ended, lost>>

OnExhausted(p) ==
  /\ NextLine(p, "EXHAUSTED")
  /\ final' = [final EXCEPT ![p] = TRUE]
  /\ exhausted' = exhausted + 1 /\ down' = down
  /\ MaybeExhausted
  /\ scanned' = scanned \union {p[1]}
  /\ Consume(p)
  /\ UNCHANGED <<gen, solved, expected, continuous, slotVars, children, up, ended,
                 lost>>

(* Mutant: the process is classified when it exits, before its last line. *)
ExitSeen(p) == p \in children /\ ~up[p]

(* readline's close comes behind the last line. *)
Closed(p) == p \in children /\ ~up[p] /\ lines[p] = <<>>

(* handleChildFailure of a child that said what it had to. *)
OnFinalClose(p) ==
  /\ Closed(p) /\ final[p]
  /\ children' = children \ {p}
  /\ UNCHANGED <<poolVars, slotVars, up, lines, final, history>>

(* handleChildFailure of any other: a child that failed too often stays down
   and counts as done, any other is respawned after a delay. *)
OnCrashClose(p, fast) ==
  /\ Closed(p) /\ ~final[p]
  /\ children' = children \ {p}
  /\ fails' = [fails EXCEPT ![p[1]] = IF fast THEN @ + 1 ELSE 0]
  /\ crashes' = [crashes EXCEPT ![p[1]] = @ + 1]
  /\ exhausted' = exhausted
  /\ IF fails'[p[1]] >= MaxFastFails \/ crashes'[p[1]] >= MaxCrashes
       THEN /\ childDown' = [childDown EXCEPT ![p[1]] = TRUE]
            /\ down' = down + 1 /\ MaybeExhausted /\ UNCHANGED timer
       ELSE /\ timer' = [timer EXCEPT ![p[1]] = gen]
            /\ UNCHANGED <<childDown, down, active, outcome>>
  /\ UNCHANGED <<gen, solved, expected, continuous, up, lines, final, scanned,
                 ended, lost>>

(* Mutant: the timer does not ask whether the grind was solved meanwhile. *)
StillActive(i) == active # 0 /\ active = timer[i] /\ active = gen /\ ~childDown[i]

Resumable(i) ==
  /\ active # 0 /\ active = timer[i] /\ active = gen
  /\ continuous \/ ~solved
  /\ ~childDown[i]

(* spawnChild: a previous child of the range, if any, is killed first. *)
SpawnChild(i, threw) ==
  LET fresh == <<i, 1>>
  IN /\ children' = {p \in children : p[1] # i} \union (IF threw THEN {} ELSE {fresh})
     /\ up' = [p \in Procs |-> IF p[1] = i THEN ~threw /\ p = fresh ELSE up[p]]
     /\ lines' = [p \in Procs |-> IF p[1] = i THEN <<>> ELSE lines[p]]
     /\ final' = [p \in Procs |-> p[1] # i /\ final[p]]
     /\ lost' = IF threw THEN lost \union {i} ELSE lost

RespawnTimer(i) ==
  /\ timer[i] # 0
  /\ timer' = [timer EXCEPT ![i] = 0]
  /\ IF Resumable(i)
       THEN \E threw \in BOOLEAN : SpawnChild(i, threw)
       ELSE UNCHANGED <<procVars, lost>>
  /\ UNCHANGED <<poolVars, childDown, fails, crashes, scanned, ended, outcome>>

-----------------------------------------------------------------------------
Init ==
  /\ gen = 0 /\ active = 0 /\ solved = FALSE /\ continuous = FALSE
  /\ exhausted = 0 /\ down = 0 /\ expected = 0
  /\ childDown = Each(FALSE) /\ fails = Each(0) /\ crashes = Each(0)
  /\ timer = Each(0)
  /\ children = {} /\ up = [p \in Procs |-> FALSE]
  /\ lines = [p \in Procs |-> <<>>] /\ final = [p \in Procs |-> FALSE]
  /\ scanned = {} /\ ended = {} /\ lost = {} /\ outcome = "none"

Process(p) == Hit(p) \/ ScanToEnd(p) \/ Crash(p)

Events(p) ==
  \/ OnShare(p) \/ OnSolved(p) \/ OnExhausted(p) \/ OnFinalClose(p)
  \/ \E fast \in BOOLEAN : OnCrashClose(p, fast)

Next ==
  \/ \E shares \in BOOLEAN, threw \in SUBSET Workers : Start(shares, threw)
  \/ Stop \/ Respawn
  \/ \E p \in Procs : Process(p) \/ Events(p)
  \/ \E i \in Workers : RespawnTimer(i)

Spec == Init /\ [][Next]_vars

(* A range is finite, so a process gets to its end however many hits it prints
   on the way, and Node delivers lines, ends and timers. Nobody has to crash,
   to hit, or to call the pool. *)
Fairness ==
  /\ \A p \in Procs : SF_vars(ScanToEnd(p)) /\ WF_vars(Events(p))
  /\ \A i \in Workers : WF_vars(RespawnTimer(i))

FairSpec == Spec /\ Fairness

-----------------------------------------------------------------------------
NativePoolTypeOK ==
  /\ gen \in 0 .. MaxGen /\ active \in {0, gen}
  /\ solved \in BOOLEAN /\ continuous \in BOOLEAN
  /\ exhausted \in Nat /\ down \in Nat /\ expected \in {0, Cardinality(Workers)}
  /\ childDown \in [Workers -> BOOLEAN] /\ timer \in [Workers -> {0, gen}]
  /\ fails \in [Workers -> Nat] /\ crashes \in [Workers -> 0 .. MaxCrashes]
  /\ children \subseteq Procs
  /\ up \in [Procs -> BOOLEAN] /\ final \in [Procs -> BOOLEAN]
  /\ lines \in [Procs -> Seq({"SOLVED", "EXHAUSTED"})]
  /\ scanned \subseteq Workers /\ ended \subseteq Workers /\ lost \subseteq Workers
  /\ outcome \in {"none", "solved", "exhausted", "twice"}

Grinding == active # 0 /\ (continuous \/ ~solved)

(* Ranges in the hands of a process whose EXHAUSTED was not counted yet, left
   down for good, and waiting for a respawn. *)
Ground == {p[1] : p \in {c \in children : ~final[c]}}
Down == {i \in Workers : childDown[i]}
Waiting == {i \in Workers : timer[i] # 0}

(* "Every expected child must either scan its range or be permanently left down
   by the fast-fail circuit breaker": every range of the active template is
   scanned, down, being ground, waiting, or its spawn threw, and never two of
   these at once, so none is forgotten and none counted twice; and without an
   active template no process runs. *)
EachRangeOnce ==
  IF Grinding
    THEN LET standing == <<scanned, Down, Ground, Waiting, lost>>
         IN /\ \A i \in Workers : \E k \in 1 .. 5 : i \in standing[k]
            /\ \A j, k \in 1 .. 5 : j # k => standing[j] \intersect standing[k] = {}
    ELSE \A p \in Procs : ~up[p]

(* A child that finished normally is never taken for "an unexpected death", which
   would mean "re-grinding its range and resubmitting the same shares": what was
   scanned to its end in a generation is not ground again in it. *)
ScannedOnce ==
  \A i \in ended : timer[i] = 0 /\ \A p \in Procs : p[1] = i => ~up[p]

(* Every template ends, whatever crashes, unless it is taken away or the spawn
   of one of its processes threw. *)
GenerationCompletes == Grinding ~> (~Grinding \/ lost # {})

(* A caller gets what the grind service promises: see GrindService. *)
Service == INSTANCE GrindService WITH
  Ranges <- Workers, grinding <- Grinding, shares <- continuous,
  todo <- IF Grinding THEN Workers \ (scanned \union Down) ELSE {}

ImplementsService == Service!ServiceSpec
=============================================================================
