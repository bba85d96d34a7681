------------------------------ MODULE GrindPool ------------------------------
(***************************************************************************)
(* The pool of grind threads of src/src/minerd/grindPool.ts with the thread *)
(* body of src/src/minerd/powWorker.ts: one template (a generation) at a    *)
(* time, split over the workers, with crashed workers respawned.            *)
(*                                                                         *)
(* Threads and pool talk through message queues, so commands, reports,      *)
(* exits and respawn timers of different workers arrive in any order. Node  *)
(* hands over what a thread posted before it reports the thread's exit.     *)
(* Hash rates and the throttle carry no control and are left out.           *)
(***************************************************************************)
EXTENDS Integers, Sequences, FiniteSets

CONSTANTS
  Workers,       \* indices of the worker slots
  MaxFastFails,  \* MAX_FAST_FAILS
  MaxCrashes,    \* MAX_CRASHES_PER_GEN
  MaxGen,        \* bound on generations, a modelling artefact
  MaxQueue       \* bound on unread messages of a thread, likewise

ASSUME GrindPoolAssumption ==
  /\ IsFiniteSet(Workers) /\ Workers # {}
  /\ {MaxFastFails, MaxCrashes, MaxGen, MaxQueue} \subseteq Nat \ {0}

VARIABLES
  gen,         \* gen
  solved,      \* solvedThisGen
  exhausted,   \* exhaustedThisGen
  down,        \* permanentlyDownThisGen
  active,      \* activeGrind.gen, 0 for null
  terminating,
  continuous,  \* pool mining: every hit is a share and the scan goes on
  shareGens,   \* generations whose grind commands said `continuous`
  workerDown,  \* workerDown[i]
  fails,       \* fastFailures[i]
  crashes,     \* crashesThisGen[i]
  respawning,  \* pendingRespawns: genAtExit of the armed timer, -1 for none
  alive,       \* the thread in slot i runs
  inbox,       \* commands posted to it and not yet handled
  job,         \* generation it grinds, 0 for none
  msgs,        \* reports of slot i on their way to the pool
  scanned,     \* history: slots whose range was scanned to its end this gen
  hits,        \* history: onSolved calls of this generation, counted to 2
  finished     \* history: onExhausted calls of this generation

poolVars == <<gen, solved, exhausted, down, active, terminating, continuous,
              shareGens>>
slotVars == <<workerDown, fails, crashes, respawning>>
threadVars == <<alive, inbox, job, msgs>>
history == <<scanned, hits, finished>>
vars == <<poolVars, slotVars, threadVars, history>>

StopCommand == 0  \* a grind command is its generation
Each(v) == [i \in Workers |-> v]

(* postMessage: a command for a thread that died is lost. *)
Post(command, boxes) ==
  [i \in Workers |-> IF alive[i] THEN Append(boxes[i], command) ELSE boxes[i]]

PermanentlyDown(i) ==
  workerDown[i] /\ (fails[i] >= MaxFastFails \/ crashes[i] >= MaxCrashes)

-----------------------------------------------------------------------------
(* What the caller does. *)

(* start: a new generation; slots that are down get a fresh thread. *)
Start(shares) ==
  /\ ~terminating /\ gen < MaxGen
  /\ continuous' = shares
  /\ shareGens' = IF shares THEN shareGens \union {gen + 1} ELSE shareGens
  /\ gen' = gen + 1 /\ active' = gen + 1 /\ solved' = FALSE
  /\ exhausted' = 0 /\ down' = 0
  /\ respawning' = Each(-1) /\ fails' = Each(0) /\ crashes' = Each(0)
  /\ workerDown' = Each(FALSE)
  /\ alive' = [i \in Workers |-> alive[i] \/ workerDown[i]]
  /\ inbox' = [i \in Workers |->
       IF workerDown[i] THEN <<gen + 1>> ELSE Post(gen + 1, inbox)[i]]
  /\ job' = [i \in Workers |-> IF workerDown[i] THEN 0 ELSE job[i]]
  /\ scanned' = {} /\ hits' = 0 /\ finished' = 0
  /\ UNCHANGED <<terminating, msgs>>

(* stop: "Abort the current template; workers go idle." *)
Stop ==
  /\ ~terminating /\ gen < MaxGen
  /\ gen' = gen + 1 /\ solved' = TRUE /\ active' = 0
  /\ inbox' = Post(StopCommand, inbox)
  /\ scanned' = {} /\ hits' = 0 /\ finished' = 0
  /\ UNCHANGED <<exhausted, down, terminating, continuous, shareGens, slotVars,
                 alive, job, msgs>>

(* respawn: every thread is replaced, its exit is not listened to any more. *)
Respawn ==
  /\ ~terminating /\ gen < MaxGen
  /\ gen' = gen + 1 /\ solved' = TRUE /\ active' = 0 /\ exhausted' = 0
  /\ respawning' = Each(-1) /\ fails' = Each(0) /\ crashes' = Each(0)
  /\ workerDown' = Each(FALSE)
  /\ alive' = Each(TRUE) /\ inbox' = Each(<<>>) /\ job' = Each(0)
  /\ scanned' = {} /\ hits' = 0 /\ finished' = 0
  /\ UNCHANGED <<down, terminating, continuous, shareGens, msgs>>

Terminate ==
  /\ ~terminating
  /\ terminating' = TRUE /\ gen' = gen + 1 /\ solved' = TRUE /\ active' = 0
  /\ respawning' = Each(-1)
  /\ alive' = Each(FALSE) /\ inbox' = Each(<<>>) /\ job' = Each(0)
  /\ scanned' = {} /\ hits' = 0 /\ finished' = 0
  /\ UNCHANGED <<exhausted, down, continuous, shareGens, workerDown, fails, crashes,
                 msgs>>
-----------------------------------------------------------------------------
(* What a thread does. *)

(* It sees a command only when it yields, so after any number of reports. *)
HandleCommand(i) ==
  /\ alive[i] /\ inbox[i] # <<>>
  /\ job' = [job EXCEPT ![i] = Head(inbox[i])]
  /\ inbox' = [inbox EXCEPT ![i] = Tail(@)]
  /\ UNCHANGED <<poolVars, slotVars, alive, msgs, history>>

Report(i, kind) ==
  /\ alive[i] /\ job[i] # 0 /\ Len(msgs[i]) < MaxQueue
  /\ msgs' = [msgs EXCEPT ![i] = Append(@, [type |-> kind, gen |-> job[i]])]

(* A nonce meets the target; only a continuous scan goes on behind it. *)
FindNonce(i) ==
  /\ Report(i, "solved")
  /\ job' = [job EXCEPT ![i] = IF job[i] \in shareGens THEN @ ELSE 0]
  /\ UNCHANGED <<poolVars, slotVars, alive, inbox, history>>

ScanToEnd(i) ==
  /\ Report(i, "exhausted")
  /\ job' = [job EXCEPT ![i] = 0]
  /\ UNCHANGED <<poolVars, slotVars, alive, inbox, history>>

Crash(i) ==
  /\ alive[i]
  /\ alive' = [alive EXCEPT ![i] = FALSE]
  /\ inbox' = [inbox EXCEPT ![i] = <<>>] /\ job' = [job EXCEPT ![i] = 0]
  /\ UNCHANGED <<poolVars, slotVars, msgs, history>>

-----------------------------------------------------------------------------
(* What the pool does with it. *)

(* Mutant: workers that are down for good are not counted. *)
MaybeScanned ==
  IF exhausted' >= Cardinality(Workers)
    THEN active' = 0 /\ finished' = finished + 1
    ELSE UNCHANGED <<active, finished>>

(* maybeExhausted, once the counters have been raised: quorum reached means
   onExhausted, and there is nothing left to respawn for. *)
MaybeExhausted ==
  IF exhausted' + down' >= Cardinality(Workers)
    THEN active' = 0 /\ finished' = finished + 1
    ELSE UNCHANGED <<active, finished>>

Delivered(i) == msgs' = [msgs EXCEPT ![i] = Tail(@)]

(* Mutant: reports are not matched with the generation. *)
AnyReport(m) == TRUE

CurrentReport(m) == m.gen = gen
FirstHit == continuous \/ ~solved

(* A report of a superseded generation, or a second solve, is dropped. *)
DropReport(i) ==
  /\ msgs[i] # <<>>
  /\ LET m == Head(msgs[i])
     IN ~CurrentReport(m) \/ (m.type = "solved" /\ ~FirstHit)
  /\ Delivered(i)
  /\ UNCHANGED <<poolVars, slotVars, alive, inbox, job, history>>

OnSolved(i) ==
  /\ msgs[i] # <<>> /\ Head(msgs[i]).type = "solved" /\ CurrentReport(Head(msgs[i]))
  /\ FirstHit
  /\ solved' = (solved \/ ~continuous)
  /\ inbox' = IF continuous THEN inbox ELSE Post(StopCommand, inbox)
  /\ hits' = IF hits < 2 THEN hits + 1 ELSE hits
  /\ Delivered(i)
  /\ UNCHANGED <<gen, exhausted, down, active, terminating, continuous, shareGens,
                 slotVars, alive, job, scanned, finished>>

OnExhausted(i) ==
  /\ msgs[i] # <<>> /\ Head(msgs[i]).type = "exhausted" /\ CurrentReport(Head(msgs[i]))
  /\ exhausted' = exhausted + 1 /\ down' = down
  /\ MaybeExhausted
  /\ scanned' = scanned \union {i}
  /\ Delivered(i)
  /\ UNCHANGED <<gen, solved, terminating, continuous, shareGens, slotVars, alive,
                 inbox, job, hits>>

OutOfBudget(i) == fails'[i] >= MaxFastFails \/ crashes'[i] >= MaxCrashes

(* The exit event, after the thread's last report. A worker that failed too
   often stays down and counts as done, any other is respawned after a delay. *)
OnExit(i, fast) ==
  /\ ~alive[i] /\ ~workerDown[i] /\ ~terminating /\ msgs[i] = <<>>
  /\ workerDown' = [workerDown EXCEPT ![i] = TRUE]
  /\ fails' = [fails EXCEPT ![i] = IF fast THEN @ + 1 ELSE 0]
  /\ crashes' = [crashes EXCEPT ![i] = @ + 1]
  /\ exhausted' = exhausted
  /\ IF OutOfBudget(i)
       THEN down' = down + 1 /\ MaybeExhausted /\ UNCHANGED respawning
       ELSE /\ respawning' = [respawning EXCEPT ![i] = gen]
            /\ UNCHANGED <<down, active, finished>>
  /\ UNCHANGED <<gen, solved, terminating, continuous, shareGens, threadVars,
                 scanned, hits>>

(* Mutant: a grind that was solved is resumed. *)
ResumedAfterSolve(i) ==
  IF active # 0 /\ active = respawning[i] /\ active = gen THEN <<active>> ELSE <<>>

Resumed(i) ==
  IF active # 0 /\ active = respawning[i] /\ active = gen
     /\ (active \in shareGens \/ ~solved)
    THEN <<active>> ELSE <<>>

(* The respawn timer: the fresh thread gets the range of the grind in flight,
   if the generation the old one died in is still being ground. *)
RespawnWorker(i) ==
  /\ respawning[i] # -1
  /\ respawning' = [respawning EXCEPT ![i] = -1]
  /\ workerDown' = [workerDown EXCEPT ![i] = FALSE]
  /\ alive' = [alive EXCEPT ![i] = TRUE]
  /\ inbox' = [inbox EXCEPT ![i] = Resumed(i)]
  /\ UNCHANGED <<poolVars, fails, crashes, job, msgs, history>>

-----------------------------------------------------------------------------
Init ==
  /\ gen = 0 /\ solved = FALSE /\ exhausted = 0 /\ down = 0 /\ active = 0
  /\ terminating = FALSE /\ continuous = FALSE /\ shareGens = {}
  /\ workerDown = Each(FALSE) /\ fails = Each(0) /\ crashes = Each(0)
  /\ respawning = Each(-1)
  /\ alive = Each(TRUE) /\ inbox = Each(<<>>) /\ job = Each(0) /\ msgs = Each(<<>>)
  /\ scanned = {} /\ hits = 0 /\ finished = 0

Thread(i) == HandleCommand(i) \/ FindNonce(i) \/ ScanToEnd(i) \/ Crash(i)

Events(i) ==
  \/ DropReport(i) \/ OnSolved(i) \/ OnExhausted(i)
  \/ \E fast \in BOOLEAN : OnExit(i, fast)
  \/ RespawnWorker(i)

Next ==
  \/ \E shares \in BOOLEAN : Start(shares)
  \/ Stop \/ Respawn \/ Terminate
  \/ \E i \in Workers : Thread(i) \/ Events(i)

Spec == Init /\ [][Next]_vars

(* A range is finite, so a thread gets to its end however many hits it reports
   on the way, and Node delivers messages, exit events and timers. Nobody has
   to crash, to hit, or to call the pool. *)
Fairness ==
  \A i \in Workers :
    /\ WF_vars(HandleCommand(i)) /\ SF_vars(ScanToEnd(i))
    /\ WF_vars(Events(i))

FairSpec == Spec /\ Fairness

-----------------------------------------------------------------------------
PoolTyped ==
  /\ gen \in 0 .. MaxGen + 1 /\ active \in 0 .. MaxGen
  /\ exhausted \in Nat /\ down \in Nat
  /\ solved \in BOOLEAN /\ terminating \in BOOLEAN /\ continuous \in BOOLEAN
  /\ shareGens \subseteq 1 .. MaxGen

SlotsTyped ==
  /\ workerDown \in [Workers -> BOOLEAN]
  /\ fails \in [Workers -> Nat] /\ crashes \in [Workers -> 0 .. MaxCrashes]
  /\ respawning \in [Workers -> -1 .. MaxGen]

Reports == [type : {"solved", "exhausted"}, gen : 1 .. MaxGen]

ThreadsTyped ==
  /\ alive \in [Workers -> BOOLEAN] /\ job \in [Workers -> 0 .. MaxGen]
  /\ inbox \in [Workers -> Seq(0 .. MaxGen)]
  /\ msgs \in [Workers -> Seq(Reports)]

HistoryTyped == scanned \subseteq Workers /\ hits \in 0 .. 2 /\ finished \in Nat

GrindPoolTypeOK == PoolTyped /\ SlotsTyped /\ ThreadsTyped /\ HistoryTyped

(* "first valid solve per generation wins": solo mining hears of one solve per
   template however many threads hit before they see the stop, and of none for
   a template that was stopped. *)
OneSolvePerTemplate ==
  /\ ~continuous => hits <= 1
  /\ (active # gen /\ finished = 0) => hits = 0

(* A thread that has handled its commands grinds the active template or none:
   no respawn, however late, brings back a stopped or a solved one. *)
OnlyActiveGround ==
  \A i \in Workers :
    (alive[i] /\ inbox[i] = <<>> /\ job[i] # 0)
      => job[i] = gen /\ (active = gen \/ finished > 0) /\ (continuous \/ ~solved)

(* "so an all-down pool still completes the generation": every template that
   is started is solved, superseded or reported exhausted, whatever crashes. *)
GenerationCompletes == active # 0 ~> (active = 0 \/ (solved /\ ~continuous))

(* "Fire onExhausted once every worker has either scanned its range OR been
   left permanently down by the fast-fail breaker"; so never for a generation
   that was stopped, of which nothing is left to scan. *)
ExhaustedMeansScanned ==
  [][finished' > finished
       => \A i \in Workers : i \in scanned' \/ PermanentlyDown(i)']_vars
=============================================================================
