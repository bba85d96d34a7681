--------------------------- MODULE NegotiatedClient ---------------------------
(***************************************************************************)
(* The live session of src/src/minerd/negotiatedClient.ts: the miner follows  *)
(* the pool's tip on a chain of its own, registers the templates it builds on *)
(* it, and grinds those the pool accepts.                                    *)
(*                                                                         *)
(* A block is its height: the chain holds the pool's tip if it is as high,    *)
(* and a reset goes back to 0. A template is what it is built on and a tag.   *)
(* Delays, the pacing of registrations and the backoff of the result watchdog *)
(* are time: a timer may fire at any later moment. Shares and hashrates go    *)
(* out while a template is ground and change nothing of this.                *)
(***************************************************************************)
EXTENDS Integers, FiniteSets, GrindWatchdog

CONSTANTS
  MaxTip,     \* height of the network's chain, a modelling artefact
  MaxSends,   \* registrations unanswered at once, likewise
  MaxMishaps  \* failures of pool, helpers, link and grind, likewise

ASSUME NegotiatedAssumption ==
  MaxTip \in Nat \ {0} /\ MaxSends \in Nat \ {0} /\ MaxMishaps \in Nat

Tips == 1 .. MaxTip
Templates == [parent : Tips, tag : Nat]
NoGrind == 0
NoGen == -1

VARIABLES
  conn,           \* ws: "closed" until the next attempt, "opening", "open"
  socketGen,      \* socketGen
  greeted,        \* this connection has had its first chain_info
  poolTip,        \* the tip the pool is at
  info,           \* the tip of lastChainInfo
  tip,            \* the tip of our chain
  grinding,       \* grinding: what its template is built on
  reg,            \* outstanding, the answers owed, inFlight and the two timers
  registeringGen, \* registeringGen
  chases,         \* catch-ups under way: their generation, and a page in hand or not
  vigour,         \* of the workers: "ok", "stuck" until a restart, "dead"
  stallStrikes,   \* grindStallStrikes
  over,           \* stopped
  mishaps         \* failures so far

chainVars == <<tip, registeringGen, chases>>
poolSide == <<greeted, poolTip, info>>
workerVars == <<vigour, stallStrikes>>
negoVars == <<conn, socketGen, poolSide, grinding, reg, chainVars, workerVars,
              over, mishaps>>

Mishap == mishaps < MaxMishaps /\ mishaps' = mishaps + 1
NoMishap == UNCHANGED mishaps

NoReg == [outstanding |-> {}, owed |-> {}, inFlight |-> 0,
          timer |-> FALSE, watchdog |-> FALSE]

-----------------------------------------------------------------------------
(* Registering. *)

(* scheduleRegister *)
Scheduled(r) == [r EXCEPT !.timer = ~over]

(* sessionOver, for what began on the connection `gen`. *)
SessionOver(gen) == over \/ conn # "open" \/ gen # socketGen

TagsInUse == {t.tag : t \in reg.outstanding \union reg.owed}

(* buildNegotiatedTemplate: never the same header twice. *)
NewTemplate(height) ==
  [parent |-> height,
   tag |-> CHOOSE k \in 1 .. Cardinality(TagsInUse) + 1 :
             k \notin TagsInUse /\ \A j \in 1 .. k - 1 : j \in TagsInUse]

(* pruneOutstanding: "AGE IS THE ONLY RULE". *)
Pruned(r, aged) == [r EXCEPT !.outstanding = @ \ aged]

(* The registration goes out; `aged` ones before it are too old to be answered. *)
Sent(r, t, aged) ==
  [Pruned(r, aged) EXCEPT !.outstanding = @ \union {t},
            !.owed = @ \union {t}, !.inFlight = @ + 1, !.watchdog = TRUE]

(* "Pool BEHIND us": it announced a block below our tip. *)
PoolBehind(height) == info # height

(* registerNow, on a chain that holds the announced tip: wait for a pool that is
   behind, or build, which may fail, and send. *)
RegisterNow(r, height) ==
  IF PoolBehind(height)
    THEN reg' = Scheduled(r) /\ NoMishap
    ELSE /\ Cardinality(r.owed) < MaxSends
         /\ \/ reg' = Sent(r, NewTemplate(height), {}) /\ NoMishap
            \/ /\ \E aged \in SUBSET r.outstanding \ {{}} :
                    reg' = Sent(r, NewTemplate(height), aged)
               /\ Mishap
            \/ reg' = Scheduled(r) /\ Mishap

(* registerTemplate, up to the catch-up or to the end. While another is under way
   on this connection, the timer is only armed again. *)
RegisterTimerFires ==
  LET fired == [reg EXCEPT !.timer = FALSE] IN
  /\ reg.timer
  /\ \/ /\ SessionOver(socketGen) \/ info = 0
        /\ reg' = fired /\ NoMishap /\ UNCHANGED <<registeringGen, chases>>
     \/ /\ ~SessionOver(socketGen) /\ info > tip /\ registeringGen # socketGen
        /\ registeringGen' = socketGen
        /\ chases' = chases \union {[gen |-> socketGen, page |-> FALSE]}
        /\ reg' = fired /\ NoMishap
     \/ /\ ~SessionOver(socketGen) /\ info \in 1 .. tip /\ registeringGen # socketGen
        /\ RegisterNow(fired, tip) /\ UNCHANGED <<registeringGen, chases>>
  /\ UNCHANGED <<conn, socketGen, poolSide, tip, grinding, workerVars, over>>

(* Mutant: an early return keeps the slot. *)
KeepSlot(gen) == UNCHANGED registeringGen

(* "Only release the slot if it is still ours". *)
ReleaseSlot(gen) ==
  registeringGen' = IF registeringGen = gen THEN NoGen ELSE registeringGen

Fenced(c) == over \/ conn = "closed" \/ c.gen # socketGen

Chase(c) == UNCHANGED <<conn, socketGen, poolSide, grinding, workerVars, over>>

FetchPage(c) ==
  /\ ~c.page /\ ~Fenced(c)
  /\ chases' = (chases \ {c}) \union {[c EXCEPT !.page = TRUE]}
  /\ UNCHANGED <<tip, registeringGen, reg>> /\ NoMishap /\ Chase(c)

(* The fetch is aborted with its connection, or every helper fails. *)
FetchEnds(c) ==
  /\ ~c.page
  /\ IF Fenced(c)
       THEN UNCHANGED reg /\ NoMishap
       ELSE reg' = Scheduled(reg) /\ Mishap
  /\ chases' = chases \ {c} /\ ReleaseSlot(c.gen)
  /\ UNCHANGED tip /\ Chase(c)

(* Blocks of the page in hand go in, whatever became of the connection; the page
   may yield in between, or ask for another one. *)
ApplyBlocks(c, height) ==
  /\ c.page /\ height > tip /\ tip' = height
  /\ chases' \in {chases, (chases \ {c}) \union {[c EXCEPT !.page = FALSE]}}
  /\ UNCHANGED <<registeringGen, reg>> /\ NoMishap /\ Chase(c)

(* classifyCatchUpRound, of a round that fell short of the pool's tip. *)
Stalled(height) == height = tip

(* catchUp returns. *)
ChaseEnds(c, height) ==
  /\ c.page /\ height >= tip /\ tip' = height
  /\ IF SessionOver(c.gen)
       THEN UNCHANGED reg /\ NoMishap
       ELSE IF info > height
              THEN reg' = Scheduled(reg) /\ IF Stalled(height) THEN Mishap ELSE NoMishap
              ELSE RegisterNow(reg, height)
  /\ chases' = chases \ {c} /\ ReleaseSlot(c.gen) /\ Chase(c)

(* A reorganisation below the snapshot's anchor: the listener resets the chain and
   asks for a registration; the catch-up goes on from genesis. *)
Invalidate(c) ==
  /\ c.page /\ tip > 0 /\ tip' = 0
  /\ chases' = (chases \ {c}) \union {[c EXCEPT !.page = FALSE]}
  /\ reg' = Scheduled(reg)
  /\ UNCHANGED registeringGen /\ Mishap /\ Chase(c)

-----------------------------------------------------------------------------
(* Messages of the pool. *)

Listening == conn = "open" /\ ~over

(* Mutant: what was built on the old tip stays to be matched. *)
KeepsOutstanding(r) == r

Superseded(r) == [r EXCEPT !.outstanding = {}]

ChainInfo ==
  LET moved == info # poolTip
      busy == grinding # NoGrind \/ reg.outstanding # {}
  IN
  /\ Listening /\ greeted' = TRUE /\ info' = poolTip
  /\ IF busy /\ ~moved
       THEN UNCHANGED <<grinding, reg>>
       ELSE /\ grinding' = NoGrind
            /\ reg' = Scheduled(IF moved THEN Superseded(reg) ELSE reg)
  /\ UNCHANGED <<conn, socketGen, poolTip, chainVars, workerVars, over, mishaps>>

Answered(t) ==
  [reg EXCEPT !.owed = @ \ {t}, !.inFlight = IF @ = 0 THEN 0 ELSE @ - 1]

Settled(r, t) ==
  [r EXCEPT !.watchdog = FALSE, !.outstanding = @ \ {t}]

(* An acceptance of no template that is outstanding. *)
Unmatched(r) ==
  IF r.inFlight = 0 THEN Scheduled([r EXCEPT !.watchdog = FALSE]) ELSE r

Hears(t) ==
  /\ Listening /\ t \in reg.owed
  /\ UNCHANGED <<conn, socketGen, poolSide, chainVars, over>>

(* headerMatchesTemplate, of some template still outstanding. *)
Matches(t) == t \in reg.outstanding

(* template_result, accepted *)
Accept(t) ==
  /\ Hears(t) /\ NoMishap
  /\ IF Matches(t)
       THEN /\ reg' = Settled(Answered(t), t)
            /\ grinding' = t.parent /\ vigour' = Restarted(vigour)
       ELSE reg' = Unmatched(Answered(t)) /\ UNCHANGED <<grinding, vigour>>
  /\ UNCHANGED stallStrikes

(* Accepted, but with a header that is not ours or with no usable target. *)
AcceptUnusable(t) ==
  /\ Hears(t) /\ Mishap
  /\ \/ reg' = Unmatched(Answered(t))
     \/ Matches(t) /\ reg' = Scheduled(Settled(Answered(t), t))
  /\ UNCHANGED <<grinding, workerVars>>

(* Mutant: unambiguous if no template is left to be matched. *)
LastOutstanding(r) == Cardinality(r.outstanding) <= 1

(* classifyTemplateResult: it answers the only send that was unanswered. *)
Unambiguous(r) == r.inFlight = 0

(* template_result, rejected: it does not say which template. *)
Reject(t) ==
  /\ Hears(t)
  /\ LET r == Answered(t) IN
     /\ reg' = IF Unambiguous(r)
                 THEN Scheduled([r EXCEPT !.watchdog = FALSE, !.outstanding = {}])
                 ELSE r
     /\ IF t.parent # poolTip /\ Unambiguous(r) THEN NoMishap ELSE Mishap
  /\ UNCHANGED <<grinding, workerVars>>

(* The pool never answers. *)
Forget(t) ==
  /\ Hears(t) /\ Mishap
  /\ reg' = [reg EXCEPT !.owed = @ \ {t}]
  /\ UNCHANGED <<grinding, workerVars>>

ResultWatchdogFires ==
  /\ reg.watchdog
  /\ reg' = Scheduled([reg EXCEPT !.watchdog = FALSE])
  /\ UNCHANGED <<conn, socketGen, poolSide, grinding, chainVars, workerVars, over,
                 mishaps>>

(* Mutant: no rebuild while another registration is unanswered. *)
RebuildIfQuiet(r) == IF r.inFlight = 0 THEN Scheduled(r) ELSE r

Rebuild(r) == Scheduled(r)

(* share_result: stale. It does not say for which template. *)
ShareStale ==
  /\ Listening /\ grinding # NoGrind
  /\ IF grinding # poolTip THEN NoMishap ELSE Mishap
  /\ grinding' = NoGrind /\ reg' = Rebuild(reg)
  /\ UNCHANGED <<conn, socketGen, poolSide, chainVars, workerVars, over>>

-----------------------------------------------------------------------------
(* The workers. *)

Working ==
  /\ grinding # NoGrind /\ ~over
  /\ UNCHANGED <<conn, socketGen, poolSide, chainVars, over>>

MakeHashes ==
  /\ Working /\ vigour # "dead" /\ NoMishap
  /\ vigour' = "ok" /\ stallStrikes' = 0
  /\ UNCHANGED <<grinding, reg>>

HangUp(how) ==
  /\ Working /\ vigour = "ok" /\ Mishap
  /\ vigour' = how /\ UNCHANGED <<stallStrikes, grinding, reg>>

ScanOut ==
  /\ Working /\ vigour = "ok" /\ NoMishap
  /\ grinding' = NoGrind /\ reg' = Scheduled(reg)
  /\ UNCHANGED workerVars

(* A tick of the watchdog: the template is ground again, or the workers are
   replaced and another template is asked for. *)
GrindWatchdogTicks ==
  LET action == WatchdogDecision(over, grinding # NoGrind, vigour # "ok", stallStrikes) IN
  /\ action # "ok" /\ Working /\ NoMishap
  /\ IF action = "respawn"
       THEN /\ stallStrikes' = 0 /\ vigour' = "ok"
            /\ grinding' = NoGrind /\ reg' = Scheduled(reg)
       ELSE /\ stallStrikes' = stallStrikes + 1 /\ vigour' = Restarted(vigour)
            /\ UNCHANGED <<grinding, reg>>

-----------------------------------------------------------------------------
(* The connection and the pool. *)

Connect ==
  /\ conn = "closed" /\ ~over
  /\ conn' = "opening" /\ socketGen' = socketGen + 1
  /\ UNCHANGED <<poolSide, grinding, reg, chainVars, workerVars, over, mishaps>>

OnOpen ==
  /\ conn = "opening" /\ conn' = "open"
  /\ UNCHANGED <<socketGen, poolSide, grinding, reg, chainVars, workerVars, over, mishaps>>

OnClose ==
  /\ conn \in {"opening", "open"} /\ Mishap
  /\ conn' = "closed" /\ greeted' = FALSE
  /\ grinding' = NoGrind /\ reg' = NoReg
  /\ UNCHANGED <<socketGen, poolTip, info, chainVars, workerVars, over>>

(* The run ends: timers, workers, socket and fence. *)
TearDown ==
  /\ ~over /\ conn \in {"closed", "opening", "open"}
  /\ over' = TRUE /\ conn' = "closed"
  /\ reg' = [reg EXCEPT !.timer = FALSE, !.watchdog = FALSE]
  /\ UNCHANGED <<socketGen, poolSide, grinding, chainVars, workerVars, mishaps>>

(* The pool follows the network, or is set back, say by a restart. *)
PoolMoves(height) ==
  /\ conn \in {"closed", "opening", "open"}
  /\ IF height = poolTip + 1 THEN NoMishap ELSE height < poolTip /\ Mishap
  /\ poolTip' = height
  /\ UNCHANGED <<conn, socketGen, greeted, info, grinding, reg, chainVars, workerVars, over>>

-----------------------------------------------------------------------------
NegoQuiet ==
  /\ socketGen = 0 /\ greeted = FALSE /\ poolTip = 1 /\ info = 0 /\ tip = 0
  /\ grinding = NoGrind /\ reg = NoReg /\ registeringGen = NoGen /\ chases = {}
  /\ vigour = "ok" /\ stallStrikes = 0 /\ over = FALSE /\ mishaps = 0

NegoInit == conn = "closed" /\ NegoQuiet

CatchUpStep(c) ==
  \/ FetchPage(c) \/ FetchEnds(c) \/ Invalidate(c)
  \/ \E height \in Tips : ApplyBlocks(c, height) \/ ChaseEnds(c, height)

Result(t) == Accept(t) \/ AcceptUnusable(t) \/ Reject(t) \/ Forget(t)

Session ==
  \/ RegisterTimerFires \/ ResultWatchdogFires \/ ChainInfo \/ ShareStale
  \/ \E c \in chases : CatchUpStep(c)
  \/ \E t \in reg.owed : Result(t)
  \/ MakeHashes \/ ScanOut \/ GrindWatchdogTicks
  \/ \E how \in {"stuck", "dead"} : HangUp(how)

NegoNext ==
  \/ Session \/ Connect \/ OnOpen \/ OnClose \/ TearDown
  \/ \E height \in Tips : PoolMoves(height)

NegoSpec == NegoInit /\ [][NegoNext]_negoVars

(* Timers fire, sockets open and helpers and pool answer in the end, and the pool
   keeps up with the network; failures are finitely many. Nobody has to close,
   hang, exhaust or stop. *)
NegoFairness ==
  /\ WF_negoVars(RegisterTimerFires) /\ WF_negoVars(ResultWatchdogFires)
  /\ WF_negoVars(ChainInfo) /\ WF_negoVars(\E t \in reg.owed : Accept(t))
  /\ WF_negoVars(\E c \in chases : CatchUpStep(c))
  /\ WF_negoVars(Connect) /\ WF_negoVars(OnOpen)
  /\ WF_negoVars(poolTip < MaxTip /\ PoolMoves(poolTip + 1))

-----------------------------------------------------------------------------
Parents == {t.parent : t \in reg.outstanding} \union ({grinding} \ {NoGrind})

(* What is ground, and what may still be matched to an acceptance and ground, is
   built on the tip the pool announced last, through catch-ups that outlive their
   connection, resets, late and reordered answers. *)
GrindsOnPoolTip == Parents \subseteq {info}

(* While connected and not grinding, a registration is coming: one of the timers
   is armed or a catch-up of this very connection is under way. After the end
   neither timer is armed again. *)
RegistrationPending ==
  /\ (conn = "open" /\ greeted /\ ~over /\ grinding = NoGrind) =>
       \/ reg.timer \/ reg.watchdog
       \/ \E c \in chases : c.gen = socketGen
  /\ over => ~reg.timer /\ ~reg.watchdog

(* A rejection that names no template drops no registration the pool may still
   accept: what leaves without having been matched was answered, superseded by a
   tip or a connection, or is too old. *)
SettlesOnlyAnswered ==
  [][ (reg'.inFlight < reg.inFlight /\ conn' = conn) =>
        (reg.outstanding \ reg'.outstanding) \intersect reg'.owed = {} ]_negoVars

(* A miner that goes on gets to grind, however often the pool or the link fails it
   first. *)
EventuallyGrinds == (conn # "off" /\ ~over) ~> (grinding # NoGrind \/ over)
=============================================================================
