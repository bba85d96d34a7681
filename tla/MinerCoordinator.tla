-------------------------- MODULE MinerCoordinator --------------------------
(***************************************************************************)
(* The solo miner's control loop: MinerCoordinator of src/src/minerd/       *)
(* miner.ts with the wiring runMiner gives it (tip poller, submit, teardown *)
(* and warm restart) and submitSoloBlock of src/src/minerd/submitSolo.ts.   *)
(*                                                                         *)
(* All of it is one JavaScript thread: an action is what runs between two   *)
(* awaits. A session's ops hold its busy flag across their awaits; the next *)
(* session of the same process reuses the chain, and the teardown of the    *)
(* previous one does not wait for the op it has in flight.                  *)
(*                                                                         *)
(* The grind pool is seen through its callbacks (GrindPool.tla has its      *)
(* inside): a started grind may report one solve, a stopped one reports no  *)
(* solve, but exhaustion may be reported late (counts are not reset there). *)
(* A catch-up is any interleaving of the chain operations ChainSync.tla     *)
(* makes, with the answer it promises.                                      *)
(***************************************************************************)
EXTENDS Blockchain

CONSTANTS
  Own,          \* the blocks this miner can solve, all of them valid
  Seen,         \* blocks out before the miner starts
  Anchor,       \* the block the cold start ended on, a restored anchor
  AnchorWork,   \* cumulative work of the anchor's line, as the cold start summed it
  SessionCount, \* sessions of this process, one after the other
  MaxAttempts,  \* maxBroadcastAttempts
  None

ASSUME MinerCoordinatorAssumption ==
  /\ Own \subseteq Blocks \ {Genesis} /\ Seen \subseteq Blocks \ Own
  /\ {Genesis, Anchor} \subseteq Line[Anchor] /\ Line[Anchor] \subseteq Seen
  /\ AnchorWork \in [Line[Anchor] -> Nat \ {0}]
  /\ AnchorWork[Genesis] = BlockWork[Genesis]
  /\ \A b \in Line[Anchor] \ {Genesis} :
       /\ Parent[b] \in Line[Anchor] /\ Height[b] = Height[Parent[b]] + 1
       /\ AnchorWork[b] = AnchorWork[Parent[b]] + BlockWork[b]
  /\ \A b \in Own : Flaw[b] = "none" /\ Height[b] = Height[Parent[b]] + 1
  /\ SessionCount \in Nat \ {0}
  /\ MaxAttempts \in Nat \ {0}
  /\ None \notin Blocks

VARIABLES
  public,  \* blocks some helper stores
  solved,  \* blocks the pool has found a nonce for
  sess     \* what each session holds, typed in CoordTypeOK

vars == <<chainVars, public, solved, sess>>

Sessions == 1 .. SessionCount

Idle(r) == r.pc = "idle"

-----------------------------------------------------------------------------
(* The parts of the handlers, as functions from the session's record, and the
   tip they see, to the record or records they may leave. *)

(* Mutants: a throw is only logged; a session that was disposed rebuilds. *)
RebuiltOrNot(r, t) ==
  IF r.phase = "done" THEN {r}
  ELSE {[r EXCEPT !.current = t, !.grind = "on", !.retry = FALSE],
        [r EXCEPT !.grind = "off"]}
RebuiltDisposed(r, t) == {[r EXCEPT !.current = t, !.grind = "on", !.retry = FALSE]}

(* safeRebuild: a template on tip t goes to the pool and the retry timer is
   cleared; a throw in buildTemplate or in poolStart arms the timer. *)
Rebuilt(r, t) ==
  IF r.phase = "done" THEN {r}
  ELSE {[r EXCEPT !.current = t, !.grind = "on", !.retry = FALSE]}
         \union {[r EXCEPT !.current = c, !.grind = "off", !.retry = TRUE] :
                   c \in {r.current, t}}

(* Mutant: a queued solve is submitted whatever the tip is by now. *)
DrainedUnchecked(r, t) ==
  IF r.pending # None
    THEN [r EXCEPT !.pc = "drain", !.grind = "off", !.send = r.pending, !.pending = None]
    ELSE [r EXCEPT !.pc = "idle"]

(* drainPendingSolve(true): a queued solve whose parent is still the tip is
   submitted with the pool stopped, any other is dropped. *)
Drained(r, t) ==
  IF r.pending # None /\ r.phase # "done" /\ Parent[r.pending] = t
    THEN [r EXCEPT !.pc = "drain", !.grind = "off", !.send = r.pending, !.pending = None]
    ELSE [r EXCEPT !.pc = "idle", !.pending = None]

(* The finally of onSolved drains and rebuilds; the submit of a drained solve
   is the last thing the op does before it rebuilds. *)
SubmitEnded(r, t) ==
  LET q == [r EXCEPT !.send = None, !.tries = 0, !.parentWork = 0]
      d == IF r.pc = "solve" THEN Drained(q, t) ELSE [q EXCEPT !.pc = "idle"]
  IN IF Idle(d) THEN Rebuilt(d, t) ELSE {d}

(* Mutants: the grind goes on; the busy flag stays set. *)
FailedGrinding(r) == [r EXCEPT !.pc = "idle", !.pending = None]
FailedBusy(r) == [r EXCEPT !.pending = None, !.grind = "off"]

(* A failed catch-up: the known-stale grind stops, a queued solve is dropped. *)
Failed(r) == [r EXCEPT !.pc = "idle", !.pending = None, !.grind = "off"]

(* The end of tipAdvanced for each answer of syncCatchUp. *)
SyncEnded(r, t, answer) ==
  LET q == [r EXCEPT !.result = answer, !.polling = FALSE]
  IN CASE answer = "changed" ->
            {Drained(d, t) : d \in Rebuilt([q EXCEPT !.grind = "off"], t)}
       [] answer = "unchanged" -> {Drained(q, t)}
       [] answer = "failed" -> {Failed(q)}

Becomes(s, records) == \E r \in records : sess' = [sess EXCEPT ![s] = r]

-----------------------------------------------------------------------------
(* The network and the helpers. *)
Publish(b) ==
  /\ b \notin public \union Own /\ Parent[b] \in public
  /\ public' = public \union {b}
  /\ UNCHANGED <<chainVars, solved, sess>>

(* A running session listens for invalidated snapshots and resets the chain;
   done() unsubscribes, and without a listener the block is only rejected. *)
Listening == \E s \in Sessions : sess[s].phase \in {"boot", "run"}

(* What a running catch-up or bootstrap does to the chain between two awaits. *)
SyncStep(s) ==
  /\ sess[s].pc = "sync" \/ sess[s].phase = "boot"
  /\ \/ \E b \in public : AcceptBlock(b) \/ (Listening /\ HitPrunedParent(b))
     \/ PruneStates /\ materialised' # materialised
  /\ UNCHANGED <<public, solved, sess>>

(* tipTimer: a tick asks the helpers for their tips, one round at a time. *)
PollTick(s) ==
  /\ sess[s].phase = "run" /\ ~sess[s].polling
  /\ sess' = [sess EXCEPT ![s].polling = TRUE]
  /\ UNCHANGED <<chainVars, public, solved>>

(* The round is answered, even after the session was torn down. tipAdvanced
   starts a catch-up unless the session is busy or the best claim is our tip;
   a claim the chain holds already ends it without an await. *)
PollAnswer(s, c) ==
  /\ sess[s].polling /\ sess[s].pc # "sync"
  /\ LET r == [sess[s] EXCEPT !.polling = FALSE] IN
       Becomes(s, IF c = tip \/ ~Idle(r) THEN {r}
                  ELSE IF c \in stored THEN SyncEnded(r, tip, "unchanged")
                  ELSE {[r EXCEPT !.pc = "sync", !.polling = TRUE, !.entry = tip]})
  /\ UNCHANGED <<chainVars, public, solved>>

(* Its catch-up returns or throws. "changed" also follows a replay from
   genesis that led back to the same tip. *)
SyncEnd(s, answer) ==
  /\ sess[s].pc = "sync"
  /\ answer = "unchanged" => tip = sess[s].entry
  /\ Becomes(s, {[r EXCEPT !.entry = None] : r \in SyncEnded(sess[s], tip, answer)})
  /\ PruneStates
  /\ UNCHANGED <<public, solved>>
-----------------------------------------------------------------------------
(* The grind's callbacks. *)

(* onSolved: submitted at once, or queued while another op is busy. *)
Solve(s, b) ==
  /\ sess[s].grind = "on"
  /\ b \in Own \ solved /\ Parent[b] = sess[s].current
  /\ solved' = solved \union {b}
  /\ sess' = [sess EXCEPT ![s] =
       IF Idle(@) THEN [@ EXCEPT !.pc = "solve", !.send = b, !.grind = "off"]
                  ELSE [@ EXCEPT !.pending = b, !.grind = "solved"]]
  /\ UNCHANGED <<chainVars, public>>

(* Mutant: an exhausted grind is replaced although an op owns the chain. *)
ExhaustBusy(s) ==
  /\ sess[s].phase = "run" /\ sess[s].grind # "exhausted"
  /\ LET r == [sess[s] EXCEPT !.grind = IF @ = "on" THEN "exhausted" ELSE @]
     IN Becomes(s, Rebuilt(r, tip))
  /\ UNCHANGED <<chainVars, public, solved>>

(* onExhausted, of the running grind or of one that was stopped: a busy
   session ignores it. *)
Exhaust(s) ==
  /\ sess[s].phase = "run" /\ sess[s].grind # "exhausted"
  /\ LET r == [sess[s] EXCEPT !.grind = IF @ = "on" THEN "exhausted" ELSE @]
     IN Becomes(s, IF Idle(r) THEN Rebuilt(r, tip) ELSE {r})
  /\ UNCHANGED <<chainVars, public, solved>>

(* The timer of scheduleRebuildRetry; a busy session re-arms it. *)
RetryFires(s) ==
  /\ sess[s].retry /\ Idle(sess[s])
  /\ Becomes(s, Rebuilt([sess[s] EXCEPT !.retry = FALSE], tip))
  /\ UNCHANGED <<chainVars, public, solved>>

(* Mutant: a bare 2xx counts as an acceptance. *)
PostedLoosely(b, confirmed) ==
  (Parent[b] \in public /\ public' = public \union {b}) \/ UNCHANGED public

(* One round of POSTs, isHelperAccept of the answers: the helpers store the
   block and say so, or store it and the answer is lost or reads 'duplicate',
   or do not store it. *)
Posted(b, confirmed) ==
  \/ Parent[b] \in public /\ public' = public \union {b}
  \/ ~confirmed /\ UNCHANGED public

LastRound(r) == r.tries + 1 = MaxAttempts

(* One round of submitSoloBlock. After an acceptance addBlock runs up to the
   await of its PoW check, where it holds on to the parent it looked up. *)
Broadcast(s, confirmed) ==
  LET r == sess[s]  b == r.send IN
  /\ b # None /\ r.parentWork = 0
  /\ Posted(b, confirmed)
  /\ Becomes(s,
       IF confirmed
         THEN IF Attaches(b) THEN {[r EXCEPT !.parentWork = work[Parent[b]]]}
                             ELSE SubmitEnded(r, tip)
       ELSE IF LastRound(r) THEN SubmitEnded(r, tip)
       ELSE {[r EXCEPT !.tries = @ + 1]})
  /\ UNCHANGED <<chainVars, solved>>

(* The rest of addBlock, on the parent looked up before, and the prune that
   runMiner's submit makes after an adoption. *)
Adopt(s) ==
  LET r == sess[s]  b == r.send IN
  /\ b # None /\ r.parentWork > 0
  /\ IF Parent[b] \in stored \ materialised
       THEN IF Listening THEN ToGenesis
                         ELSE UNCHANGED <<stored, work, materialised, tip>>
       ELSE /\ stored' = stored \union {b}
            /\ work' = [work EXCEPT ![b] = r.parentWork + BlockWork[b]]
            /\ tip' = IF work'[b] > work[tip] THEN b ELSE tip
            /\ materialised' = Unburied(tip', materialised \union {b})
  /\ Becomes(s, SubmitEnded(r, tip'))
  /\ UNCHANGED <<restoring, public, solved>>

-----------------------------------------------------------------------------
(* done(), on the abort signal: dispose and terminate; ops in flight go on. *)
Abort(s) ==
  /\ sess[s].phase = "run"
  /\ sess' = [sess EXCEPT ![s] =
       [@ EXCEPT !.phase = "done", !.grind = "off", !.pending = None, !.retry = FALSE]]
  /\ UNCHANGED <<chainVars, public, solved>>

(* runSession on the warm chain of the session before: bootstrap, then the
   first rebuild. (A throw of the first rebuild ends the session for good.) *)
WarmStart(s) ==
  /\ sess[s].phase = "off" /\ sess[s-1].phase = "done"
  /\ sess' = [sess EXCEPT ![s].phase = "boot"]
  /\ UNCHANGED <<chainVars, public, solved>>

WarmStarted(s) ==
  /\ sess[s].phase = "boot"
  /\ sess' = [sess EXCEPT ![s] =
       [@ EXCEPT !.phase = "run", !.current = tip, !.grind = "on"]]
  /\ UNCHANGED <<chainVars, public, solved>>

-----------------------------------------------------------------------------
NewSession(phase, current, grind) ==
  [phase |-> phase, pc |-> "idle", current |-> current, grind |-> grind,
   retry |-> FALSE, pending |-> None, send |-> None, tries |-> 0,
   parentWork |-> 0, polling |-> FALSE, entry |-> None, result |-> "none"]

(* A cold start restored the anchor of a snapshot and mines on it. *)
CoordInit ==
  /\ stored = Line[Anchor] /\ materialised = {Genesis, Anchor}
  /\ tip = Anchor /\ restoring = FALSE
  /\ work = [b \in Blocks |-> IF b \in Line[Anchor] THEN AnchorWork[b] ELSE 0]
  /\ public = Seen /\ solved = {}
  /\ sess = [s \in Sessions |->
       IF s = 1 THEN NewSession("run", Anchor, "on") ELSE NewSession("off", None, "off")]

CoordNext ==
  \/ \E b \in Blocks : Publish(b)
  \/ \E s \in Sessions :
       \/ SyncStep(s) \/ PollTick(s)
       \/ \E c \in public : PollAnswer(s, c)
       \/ \E answer \in {"changed", "unchanged", "failed"} : SyncEnd(s, answer)
       \/ \E b \in Own : Solve(s, b)
       \/ Exhaust(s) \/ RetryFires(s)
       \/ \E confirmed \in BOOLEAN : Broadcast(s, confirmed)
       \/ Adopt(s) \/ Abort(s)

(* The process goes on with another session on the chain of the one before. *)
RestartNext ==
  \/ CoordNext
  \/ \E s \in Sessions \ {1} : WarmStart(s) \/ WarmStarted(s)

CoordSpec == CoordInit /\ [][CoordNext]_vars
ProcessSpec == CoordInit /\ [][RestartNext]_vars

(* Requests time out, so a catch-up and a broadcast round end; the PoW check
   returns; the retry timer fires, and a rebuild does not throw forever. *)
Fairness ==
  \A s \in Sessions :
    /\ WF_vars(\E answer \in {"changed", "unchanged", "failed"} : SyncEnd(s, answer))
    /\ WF_vars(\E confirmed \in BOOLEAN : Broadcast(s, confirmed))
    /\ WF_vars(Adopt(s))
    /\ SF_vars(RetryFires(s) /\ sess'[s].grind = "on")

FairCoordSpec == CoordSpec /\ Fairness
RestartSpec == ProcessSpec /\ Fairness

-----------------------------------------------------------------------------
CoordTypeOK ==
  /\ TypeOK
  /\ Seen \subseteq public /\ public \subseteq Blocks /\ solved \subseteq Own
  /\ sess \in [Sessions ->
       [phase : {"off", "boot", "run", "done"},
        pc : {"idle", "sync", "solve", "drain"},
        current : Blocks \union {None},
        grind : {"off", "on", "solved", "exhausted"},
        retry : BOOLEAN,
        pending : Own \union {None},
        send : Own \union {None},
        tries : 0 .. MaxAttempts - 1,
        parentWork : Nat,
        polling : BOOLEAN,
        entry : Blocks \union {None},
        result : {"none", "changed", "unchanged", "failed"}]]

(* A session that is not in the middle of an op never grinds a stale template:
   whatever catch-ups, failures, solves and retries came before, the running
   grind is on the chain's tip. *)
GrindsOnTip ==
  \A s \in Sessions :
    (sess[s].phase = "run" /\ Idle(sess[s]) /\ sess[s].grind = "on")
      => sess[s].current = tip

(* "Our own block ALWAYS becomes the local tip: ... addBlock sees parent===tip ...
   It is never a silent non-moving side branch" (submitSolo.ts). The parent was
   looked up before an await: the chain must not have moved past it, nor have been
   dropped, meanwhile, or the block hangs beside the tip, or off nothing. *)
AdoptedBecomesTip ==
  [][\A s \in Sessions :
       (Adopt(s) /\ sess[s].send \in stored')
         => tip' = sess[s].send /\ Parent[sess[s].send] \in stored']_vars

(* Broadcast first: a block of ours is in the local tree only if a helper has
   it, also when answers were lost or the block came back in a catch-up. *)
NoPrivateFork == stored \intersect Own \subseteq public

(* The one slot for queued solves is enough: "a solve for an OLDER template
   cannot exist", since the template only moves when nobody is busy. *)
QueuedIsCurrent ==
  \A s \in Sessions :
    sess[s].pending # None => Parent[sess[s].pending] = sess[s].current

(* A session that was torn down starts nothing any more, although the catch-up,
   submit or tip poll it had in flight goes on and ends later. *)
EndedStaysOff ==
  \A s \in Sessions : sess[s].phase = "done" =>
    sess[s].grind = "off" /\ ~sess[s].retry /\ sess[s].pending = None

(* "every path that materializes state also retires it": no op leaves a state
   below the retained window on the canonical chain, adopted solves included. *)
StatesRetired ==
  (\A s \in Sessions : Idle(sess[s]) /\ sess[s].phase # "boot")
    => \A b \in Canonical \intersect materialised :
         Height[b] <= 1 \/ b = tip \/ Height[b] >= Height[tip] - Retain

(* "never let the busy flag stick": every op lets go of the session. *)
BusyEnds == \A s \in Sessions : ~Idle(sess[s]) ~> Idle(sess[s])

(* A solve stops the pool; unless the session ends, mining resumes, whether
   the block was accepted, refused or lost, and whatever the rebuild throws. *)
SolveResumes ==
  \A s \in Sessions :
    sess[s].pc = "solve" ~> (sess[s].grind = "on" \/ sess[s].phase = "done")

(* "The next tip poll retries the catch-up and rebuilds once it succeeds": the
   pool that a failed catch-up stopped is not left stopped by a later one that
   did not fail. *)
RebuiltOnceCaughtUp ==
  \A s \in Sessions :
    (sess[s].phase = "run" /\ Idle(sess[s]) /\ sess[s].result \in {"changed", "unchanged"})
      => (sess[s].grind # "off" \/ sess[s].retry)
=============================================================================
