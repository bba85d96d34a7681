------------------------------ MODULE PoolClient ------------------------------
(***************************************************************************)
(* The classic pool miner of src/src/minerd/poolClient.ts: the /job poll     *)
(* loop, the share dispatcher with its submissions, re-registration and the  *)
(* grind watchdog, all on one JavaScript thread.                             *)
(*                                                                         *)
(* A job key is a job and a slot in it. Delays, deadlines and the pacing of  *)
(* the poll loop are time: a wait may end at any moment. The pool never goes *)
(* back to a job it has rolled past, and its failures are bounded.           *)
(***************************************************************************)
EXTENDS Integers, Sequences, FiniteSets, SequencesExt, GrindWatchdog

CONSTANTS
  Nonces,      \* nonces that solve a share
  Slots,       \* slots and templates the pool gives under one job
  PendingCap,  \* PENDING_CAP
  QueueCap,    \* SHARE_QUEUE_CAP
  MaxJob,      \* bound on the jobs of the pool, a modelling artefact
  MaxFaults    \* bound on failures of the pool and of the grind, likewise

ASSUME PoolAssumption ==
  /\ IsFiniteSet(Nonces)
  /\ PendingCap \in Nat \ {0} /\ QueueCap \in Nat \ {0}
  /\ MaxJob \in Nat \ {0} /\ MaxFaults \in Nat

Jobs == 1 .. MaxJob
Keys == Jobs \X Slots
None == <<>>
NoJob == 0

Shares == [nonce : Nonces, job : Jobs, epoch : 0 .. MaxFaults]

VARIABLES
  loop,              \* where runJobPollLoop is
  longPoll,          \* the request out carries wait and have
  forcePlainPoll,    \* forcePlainPoll
  activeJobId,       \* activeJobId
  lastKey,           \* lastKey
  exhaustedKey,      \* exhaustedKey
  lastStaleWakeJob,  \* lastStaleWakeJob
  epoch,             \* epoch
  strikes,           \* watchdogStrikes
  stopped,           \* stopped
  work,              \* the key the grind pool grinds
  health,            \* of its workers: "ok", "stuck" until a restart, "dead"
  submitJobId,       \* the dispatcher's submitJobId
  submitted,         \* its submitted
  inFlight,          \* its inFlight
  queue,             \* its queue
  posts,             \* runs of runShareSubmit: a share, posting or sleeping
  poolJob,           \* the job the pool is at
  faults             \* failures so far

jobVars == <<activeJobId, lastKey, exhaustedKey>>
loopVars == <<loop, longPoll, forcePlainPoll, lastStaleWakeJob>>
grindVars == <<work, health, strikes>>
dispatcher == <<submitJobId, submitted, inFlight, queue>>
poolVars == <<loopVars, jobVars, grindVars, dispatcher,
              epoch, stopped, posts, poolJob, faults>>

Fault == faults < MaxFaults /\ faults' = faults + 1
NoFault == UNCHANGED faults

-----------------------------------------------------------------------------
(* The share dispatcher. *)

Wipe(job) ==
  /\ submitJobId' = job
  /\ submitted' = {} /\ inFlight' = {} /\ queue' = <<>>

Queued == {queue[i].nonce : i \in DOMAIN queue}

Share(n) == [nonce |-> n, job |-> work[1], epoch |-> epoch]

(* runShareSubmit's checks before each POST, but for the deadline. *)
Bails(s) == stopped \/ epoch # s.epoch \/ activeJobId # s.job

Run(s, where) == [share |-> s, at |-> where]

(* launch: the first POST, unless the job has rolled already. *)
Launch(s) == Run(s, IF Bails(s) THEN "sleeping" ELSE "posting")

(* Over the cap: the oldest of a full backlog makes room. *)
Enqueue(s) ==
  queue' = Append(IF Len(queue) >= QueueCap THEN Tail(queue) ELSE queue, s)

(* offer: a nonce of the job being ground. *)
Offer(n) ==
  /\ work # None /\ health = "ok"
  /\ IF work[1] # submitJobId
       THEN /\ submitJobId' = work[1] /\ submitted' = {} /\ queue' = <<>>
            /\ inFlight' = {n}
            /\ posts' = posts \union {Launch(Share(n))}
       ELSE /\ n \notin submitted \union inFlight \union Queued
            /\ IF Cardinality(inFlight) >= PendingCap
                 THEN Enqueue(Share(n)) /\ UNCHANGED <<inFlight, posts>>
                 ELSE /\ inFlight' = inFlight \union {n}
                      /\ posts' = posts \union {Launch(Share(n))}
                      /\ UNCHANGED queue
            /\ UNCHANGED <<submitJobId, submitted>>
  /\ UNCHANGED <<loopVars, jobVars, grindVars, epoch, stopped, poolJob, faults>>

(* Mutant: a completion is taken for the present job's whatever it was for. *)
AnySpan(s) == TRUE

(* "Only if neither the job nor the worker epoch rolled out from under this late
   completion". *)
SameSpan(s) == submitJobId = s.job /\ epoch = s.epoch

Payable(s, busy) ==
  s.job = submitJobId /\ s.epoch = epoch /\ s.nonce \notin submitted' \union busy

(* Mutant: the next share is taken off before a free slot is looked for. *)
DrainBlindly(busy, live) ==
  IF queue = <<>> THEN inFlight' = busy /\ posts' = live /\ UNCHANGED queue
  ELSE /\ queue' = Tail(queue)
       /\ IF Cardinality(busy) < PendingCap
            THEN /\ inFlight' = busy \union {Head(queue).nonce}
                 /\ posts' = live \union {Launch(Head(queue))}
            ELSE inFlight' = busy /\ posts' = live

(* drain: shares that are no longer payable are skipped. A completion frees one
   slot at most, so one share at most moves up. *)
Drain(busy, live) ==
  LET waiting == {i \in DOMAIN queue : Payable(queue[i], busy)}
      first == Min(waiting)
  IN IF Cardinality(busy) >= PendingCap
       THEN inFlight' = busy /\ posts' = live /\ UNCHANGED queue
     ELSE IF waiting = {}
       THEN inFlight' = busy /\ posts' = live /\ queue' = <<>>
     ELSE /\ inFlight' = busy \union {queue[first].nonce}
          /\ posts' = live \union {Launch(queue[first])}
          /\ queue' = SubSeq(queue, first + 1, Len(queue))

(* The end of a submission; `reached` if the pool gave a terminal verdict. *)
Complete(p, reached) ==
  LET s == p.share IN
  /\ IF SameSpan(s)
       THEN /\ submitted' = IF reached THEN submitted \union {s.nonce} ELSE submitted
            /\ Drain(inFlight \ {s.nonce}, posts \ {p})
       ELSE UNCHANGED submitted /\ Drain(inFlight, posts \ {p})
  /\ UNCHANGED submitJobId

-----------------------------------------------------------------------------
(* runShareSubmit. *)

ShouldWakeOnStale(job) == job = activeJobId /\ job # lastStaleWakeJob

Unmoved == UNCHANGED <<jobVars, grindVars, epoch, stopped, poolJob, loop, longPoll>>

(* The answer to a POST: accepted, a block, or rejected; or stale, which makes
   the poll loop ask again at once. After a stop the answer is not looked at. *)
Verdict(p) ==
  /\ p.at = "posting" /\ NoFault
  /\ Complete(p, ~stopped)
  /\ UNCHANGED <<forcePlainPoll, lastStaleWakeJob>> /\ Unmoved

StaleVerdict(p) ==
  /\ p.at = "posting" /\ ~stopped /\ p.share.job < poolJob /\ NoFault
  /\ Complete(p, TRUE)
  /\ IF ShouldWakeOnStale(p.share.job)
       THEN lastStaleWakeJob' = p.share.job /\ forcePlainPoll' = TRUE
       ELSE UNCHANGED <<lastStaleWakeJob, forcePlainPoll>>
  /\ Unmoved

(* 408, 425, 429, 5xx, a timeout or a lost connection. *)
PostFails(p) ==
  /\ p.at = "posting" /\ ~stopped /\ Fault
  /\ posts' = (posts \ {p}) \union {Run(p.share, "sleeping")}
  /\ UNCHANGED <<dispatcher, forcePlainPoll, lastStaleWakeJob>> /\ Unmoved

PostAgain(p) ==
  /\ p.at = "sleeping" /\ ~Bails(p.share) /\ NoFault
  /\ posts' = (posts \ {p}) \union {Run(p.share, "posting")}
  /\ UNCHANGED <<dispatcher, forcePlainPoll, lastStaleWakeJob>> /\ Unmoved

(* The job or the worker rolled, mining stopped or the deadline has passed. *)
GiveUp(p) ==
  /\ p.at = "sleeping"
  /\ IF Bails(p.share) THEN NoFault ELSE Fault
  /\ Complete(p, FALSE)
  /\ UNCHANGED <<forcePlainPoll, lastStaleWakeJob>> /\ Unmoved

-----------------------------------------------------------------------------
(* The poll loop. *)

(* "wake": the next poll is plain and the wait of this one is cut short. *)
Wake == forcePlainPoll' = TRUE

(* Mutant: the flag is taken, but the request waits all the same. *)
WaitsAnyway == activeJobId # NoJob

(* "have && !plain" *)
Waits == activeJobId # NoJob /\ ~forcePlainPoll

(* The pause ends or is cut short by a wake, or there was none. *)
BeginCycle ==
  /\ loop = "pausing" /\ ~stopped
  /\ loop' = "polling"
  /\ longPoll' = Waits /\ forcePlainPoll' = FALSE
  /\ UNCHANGED <<lastStaleWakeJob, jobVars, grindVars, dispatcher,
                 epoch, stopped, posts, poolJob, faults>>

Ends(answer) ==
  /\ loop = "polling" /\ ~stopped /\ loop' = answer /\ longPoll' = FALSE

Idle == UNCHANGED <<grindVars, dispatcher, epoch, stopped, posts, poolJob>>

(* Mutant: a job that starts counts as a cure. *)
ForgiveStrikes == strikes' = 0

(* "keyed on the last REAL hash, NOT reset by job changes" *)
KeepStrikes == UNCHANGED strikes

ShouldRegrind(key) == key \notin {lastKey, exhaustedKey}

(* refresh: the grind starts over on a key that is neither running nor scanned. *)
PollJob(slot) ==
  LET key == <<poolJob, slot>> IN
  /\ Ends("pausing") /\ NoFault
  /\ IF ShouldRegrind(key)
       THEN /\ activeJobId' = poolJob /\ lastKey' = key /\ exhaustedKey' = None
            /\ work' = key /\ health' = Restarted(health)
       ELSE /\ exhaustedKey' = IF key = exhaustedKey THEN key ELSE None
            /\ UNCHANGED <<activeJobId, lastKey, work, health>>
  /\ KeepStrikes
  /\ UNCHANGED <<forcePlainPoll, lastStaleWakeJob, dispatcher,
                 epoch, stopped, posts, poolJob>>

(* A busy pool, a malformed job, a timeout, a lost connection. *)
PollFails ==
  /\ Ends("pausing") /\ Fault
  /\ Idle /\ UNCHANGED <<jobVars, forcePlainPoll, lastStaleWakeJob>>

(* The request is aborted by a wake. *)
PollWoken ==
  /\ Ends("pausing") /\ forcePlainPoll /\ NoFault
  /\ Idle /\ UNCHANGED <<jobVars, forcePlainPoll, lastStaleWakeJob>>

ClearDispatcher == Wipe(NoJob)

(* 404: the pool has forgotten this worker. *)
PollUnknownWorker ==
  /\ Ends("registering") /\ Fault
  /\ activeJobId' = NoJob /\ lastKey' = None /\ exhaustedKey' = None
  /\ work' = None /\ epoch' = epoch + 1
  /\ ClearDispatcher
  /\ UNCHANGED <<forcePlainPoll, lastStaleWakeJob, health, strikes, stopped,
                 posts, poolJob>>

(* The new worker id, or a registration that fails for good: the old id then
   meets another 404. *)
Registered ==
  /\ loop = "registering" /\ ~stopped /\ loop' = "pausing" /\ NoFault
  /\ Idle /\ UNCHANGED <<jobVars, longPoll, forcePlainPoll, lastStaleWakeJob>>

(* stopPoolMode: on an abort, or when the pool wants an upgrade, refuses the
   address or has gone over to negotiated mode. *)
StopPoolMode ==
  /\ ~stopped /\ stopped' = TRUE
  /\ activeJobId' = NoJob /\ work' = None
  /\ UNCHANGED <<loopVars, lastKey, exhaustedKey, health, strikes, dispatcher,
                 epoch, posts, poolJob, faults>>

LeaveLoop ==
  /\ stopped /\ loop # "done" /\ loop' = "done"
  /\ UNCHANGED <<longPoll, forcePlainPoll, lastStaleWakeJob, jobVars, faults>>
  /\ Idle

-----------------------------------------------------------------------------
(* The grind pool and its watchdog. *)

Shelved == UNCHANGED <<loop, longPoll, lastStaleWakeJob, dispatcher, epoch, stopped,
                       posts, poolJob>>

Hash ==
  /\ work # None /\ health # "dead"
  /\ health' = "ok" /\ strikes' = 0
  /\ UNCHANGED <<work, jobVars, forcePlainPoll, faults>> /\ Shelved

Stall(how) ==
  /\ work # None /\ health = "ok" /\ Fault
  /\ health' = how
  /\ UNCHANGED <<work, strikes, jobVars, forcePlainPoll>> /\ Shelved

(* The whole slot is scanned. *)
Exhaust ==
  /\ work # None /\ health = "ok" /\ NoFault
  /\ exhaustedKey' = lastKey /\ lastKey' = None /\ work' = None
  /\ UNCHANGED <<activeJobId, health, strikes, forcePlainPoll>> /\ Shelved

(* A tick of the watchdog's interval: both remedies drop the work and wake the
   poll loop, which applies the job again. *)
Watchdog ==
  LET action == WatchdogDecision(stopped, lastKey # None, health # "ok", strikes) IN
  /\ action # "ok"
  /\ IF action = "respawn"
       THEN strikes' = 0 /\ work' = None /\ health' = "ok"
       ELSE strikes' = strikes + 1 /\ UNCHANGED <<work, health>>
  /\ lastKey' = None /\ Wake /\ NoFault
  /\ UNCHANGED <<activeJobId, exhaustedKey>> /\ Shelved

(* The pool goes on to its next job. *)
PoolRolls ==
  /\ poolJob < MaxJob /\ poolJob' = poolJob + 1
  /\ UNCHANGED <<loopVars, jobVars, grindVars, dispatcher, epoch, stopped, posts, faults>>

-----------------------------------------------------------------------------
PoolQuiet ==
  /\ longPoll = FALSE /\ forcePlainPoll = FALSE
  /\ activeJobId = NoJob /\ lastKey = None /\ exhaustedKey = None
  /\ lastStaleWakeJob = NoJob /\ epoch = 0 /\ strikes = 0 /\ stopped = FALSE
  /\ work = None /\ health = "ok"
  /\ submitJobId = NoJob /\ submitted = {} /\ inFlight = {} /\ queue = <<>>
  /\ posts = {} /\ poolJob = 1 /\ faults = 0

PoolInit == loop = "pausing" /\ PoolQuiet

Submission(p) ==
  Verdict(p) \/ StaleVerdict(p) \/ PostFails(p) \/ PostAgain(p) \/ GiveUp(p)

PollLoop ==
  \/ BeginCycle \/ PollFails \/ PollWoken \/ PollUnknownWorker
  \/ Registered \/ LeaveLoop
  \/ \E slot \in Slots : PollJob(slot)

Grind ==
  \/ Hash \/ Exhaust \/ Watchdog
  \/ \E how \in {"stuck", "dead"} : Stall(how)
  \/ \E n \in Nonces : Offer(n)

PoolNext ==
  \/ \E p \in posts : Submission(p)
  \/ PollLoop \/ Grind \/ StopPoolMode \/ PoolRolls

PoolSpec == PoolInit /\ [][PoolNext]_poolVars

(* Failures are finitely many, so a request that is repeated is answered in the
   end; the rest is the event loop and the watchdog's interval. Nobody has to
   solve, exhaust, stall, roll or stop. *)
PoolFairness ==
  /\ WF_poolVars(BeginCycle) /\ WF_poolVars(\E slot \in Slots : PollJob(slot))
  /\ WF_poolVars(Registered) /\ WF_poolVars(Watchdog)

-----------------------------------------------------------------------------
Present(p) == SameSpan(p.share)

(* A slot is held by the one submission under way for it, never by one that is
   over, of a job rolled past or of an old worker. No nonce has two of a verdict,
   a slot and a place in the backlog, and shares only wait while every slot is
   taken: so none is sent twice or stuck, whatever verdicts come late. *)
SharesAccounted ==
  /\ inFlight = {p.share.nonce : p \in {q \in posts : Present(q)}}
  /\ Cardinality({p \in posts : Present(p)}) <= PendingCap
  /\ queue # <<>> => Cardinality(inFlight) = PendingCap
  /\ Cardinality(Queued) = Len(queue)
  /\ submitted \intersect (inFlight \union Queued) = {}
  /\ inFlight \intersect Queued = {}

Kept(n) == n \in (inFlight \union Queued \union submitted)'

Overflown(n) ==
  /\ Cardinality(inFlight) = PendingCap /\ Len(queue) = QueueCap
  /\ Head(queue).nonce = n /\ Len(queue') = QueueCap

GivenUp(n) ==
  \E p \in posts \ posts' : Present(p) /\ p.share.nonce = n /\ (p.at = "sleeping" \/ stopped)

(* "Nothing is lost unless BOTH the cap and the queue fill", or its submission was
   given up: a solved nonce leaves the dispatcher with its verdict or because its
   job or worker is gone. *)
ShareKept ==
  [][ (submitJobId' = submitJobId /\ epoch' = epoch) =>
        \A n \in inFlight \union Queued : Kept(n) \/ Overflown(n) \/ GivenUp(n) ]_poolVars

(* A wake is never lost, wherever the loop is: a plain request follows. *)
WakeHonoured == forcePlainPoll ~> (stopped \/ (loop = "polling" /\ ~longPoll))

(* Workers that hang are restarted, then replaced, whatever happens to the job
   meanwhile. *)
StallEnds == (work # None /\ health # "ok") ~> (work = None \/ health = "ok")
=============================================================================
