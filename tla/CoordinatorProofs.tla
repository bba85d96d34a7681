-------------------------- MODULE CoordinatorProofs --------------------------
(***************************************************************************)
(* What holds of the coordinator of one session, and of a process with any   *)
(* number of them on one chain, for any blocks, any helpers and any number   *)
(* of broadcast rounds.                                                     *)
(***************************************************************************)
EXTENDS MinerCoordinator, BlockchainProofs

Session ==
  [phase : {"off", "boot", "run", "done"},
   pc : {"idle", "sync", "solve", "drain"},
   current : Blocks \union {None},
   grind : {"off", "on", "solved", "exhausted"},
   retry : BOOLEAN,
   pending : Own \union {None},
   send : Own \union {None},
   tries : 0 .. MaxAttempts - 1,
   parentWork : Nat,
   polling : BOOLEAN,
   entry : Blocks \union {None},
   result : {"none", "changed", "unchanged", "failed"}]

Submitting(r) == r.pc \in {"solve", "drain"}

(* What is ground and what is queued. *)
Grind(r, t) ==
  /\ r.phase \in {"run", "done"}
  /\ r.grind = "on" =>
       /\ r.phase = "run" /\ r.pending = None /\ ~Submitting(r)
       /\ r.current = IF Idle(r) THEN t ELSE r.entry
  /\ r.pending # None => r.pc = "sync" /\ Parent[r.pending] = r.current
  /\ r.phase = "done" => r.grind = "off" /\ ~r.retry /\ r.pending = None

(* What is submitted extends the tip, which stays until the submit ends. *)
Submit(r, t) ==
  /\ Submitting(r) <=> r.send # None
  /\ r.send # None => Parent[r.send] = t

(* addBlock waits for its PoW check, with the parent it looked up in hand. *)
Adopting(r) ==
  r.parentWork > 0 =>
    /\ r.send # None /\ r.send \notin stored /\ r.send \in public
    /\ r.parentWork = work[tip]

OthersOff ==
  \A s \in Sessions \ {1} : sess[s] = NewSession("off", None, "off")

ChainInv ==
  /\ TypeOK /\ NoPrivateFork
  /\ Seen \subseteq public /\ public \subseteq Blocks /\ solved \subseteq Own

SessionInv ==
  /\ sess \in [Sessions -> Session] /\ OthersOff
  /\ Grind(sess[1], tip) /\ Submit(sess[1], tip) /\ Adopting(sess[1])

CoordInv == ChainInv /\ SessionInv

-----------------------------------------------------------------------------
(* What the parts of the handlers leave. *)

(* A session that nothing is in flight for. *)
Resting(r) ==
  /\ Idle(r) /\ r.send = None /\ r.pending = None /\ r.parentWork = 0
  /\ r.phase \in {"run", "done"}
  /\ r.phase = "done" => r.grind = "off" /\ ~r.retry

Keeps(r, t) == r \in Session /\ Grind(r, t) /\ Submit(r, t) /\ r.parentWork = 0

(* Every part leaves a session's record. *)
LEMMA Typed ==
  ASSUME NEW r \in Session
  PROVE  /\ \A c \in Blocks :
              [r EXCEPT !.current = c, !.grind = "on", !.retry = FALSE] \in Session
         /\ \A c \in Blocks \union {None} :
              [r EXCEPT !.current = c, !.grind = "off", !.retry = TRUE] \in Session
         /\ [r EXCEPT !.pc = "idle", !.pending = None] \in Session
         /\ [r EXCEPT !.pc = "idle", !.pending = None, !.grind = "off"] \in Session
         /\ \A answer \in {"changed", "unchanged", "failed"} :
              [r EXCEPT !.result = answer, !.polling = FALSE] \in Session
<1>1. ASSUME NEW c \in Blocks
      PROVE  [r EXCEPT !.current = c, !.grind = "on", !.retry = FALSE] \in Session
  BY DEF Session
<1>2. ASSUME NEW c \in Blocks \union {None}
      PROVE  [r EXCEPT !.current = c, !.grind = "off", !.retry = TRUE] \in Session
  BY DEF Session
<1>3. [r EXCEPT !.pc = "idle", !.pending = None] \in Session BY DEF Session
<1>4. [r EXCEPT !.pc = "idle", !.pending = None, !.grind = "off"] \in Session
  BY DEF Session
<1>5. ASSUME NEW answer \in {"changed", "unchanged", "failed"}
      PROVE  [r EXCEPT !.result = answer, !.polling = FALSE] \in Session
  BY DEF Session
<1> QED BY <1>1, <1>2, <1>3, <1>4, <1>5

LEMMA RebuiltKeeps ==
  ASSUME NEW r \in Session, NEW t \in Blocks, Resting(r), NEW d \in Rebuilt(r, t)
  PROVE  Keeps(d, t)
<1>1. CASE r.phase = "done"
  <2>1. d = r BY <1>1 DEF Rebuilt
  <2> QED BY <1>1, <2>1 DEF Resting, Keeps, Grind, Submit, Submitting, Idle, Session
<1>2. CASE r.phase # "done" /\ d = [r EXCEPT !.current = t, !.grind = "on", !.retry = FALSE]
  <2>1. d \in Session BY <1>2 DEF Session
  <2>2. /\ d.phase = r.phase /\ d.pc = r.pc /\ d.current = t /\ d.pending = r.pending
        /\ d.send = r.send /\ d.parentWork = r.parentWork
    BY <1>2 DEF Session
  <2> QED BY <1>2, <2>1, <2>2 DEF Resting, Keeps, Grind, Submit, Submitting, Idle
<1>3. ASSUME r.phase # "done", NEW c \in {r.current, t},
             d = [r EXCEPT !.current = c, !.grind = "off", !.retry = TRUE]
      PROVE  Keeps(d, t)
  <2>0. c \in Blocks \union {None} BY DEF Session
  <2>1. d \in Session BY <1>3, <2>0 DEF Session
  <2>2. /\ d.phase = r.phase /\ d.pc = r.pc /\ d.grind = "off" /\ d.pending = r.pending
        /\ d.send = r.send /\ d.parentWork = r.parentWork
    BY <1>3 DEF Session
  <2> QED BY <1>3, <2>1, <2>2 DEF Resting, Keeps, Grind, Submit, Submitting, Idle
<1> QED BY <1>1, <1>2, <1>3 DEF Rebuilt

(* Before a drain: what is ground is on the tip, whatever is queued. *)
Drainable(r, t) ==
  /\ r.send = None /\ r.parentWork = 0 /\ r.phase \in {"run", "done"}
  /\ r.grind = "on" => r.phase = "run" /\ r.current = t
  /\ r.phase = "done" => r.grind = "off" /\ ~r.retry /\ r.pending = None

LEMMA DrainedKeeps ==
  ASSUME NEW r \in Session, NEW t \in Blocks, Drainable(r, t)
  PROVE  Keeps(Drained(r, t), t) /\ Drained(r, t).pc # "sync"
<1> DEFINE d == Drained(r, t)
<1>1. CASE r.pending # None /\ r.phase # "done" /\ Parent[r.pending] = t
  <2>1. d = [r EXCEPT !.pc = "drain", !.grind = "off", !.send = r.pending, !.pending = None]
    BY <1>1 DEF Drained
  <2> HIDE DEF d
  <2>2. d \in Session BY <2>1 DEF Session
  <2>3. /\ d.phase = r.phase /\ d.pc = "drain" /\ d.grind = "off" /\ d.pending = None
        /\ d.send = r.pending /\ d.parentWork = r.parentWork
    BY <2>1 DEF Session
  <2>4. Keeps(d, t)
    BY <1>1, <2>2, <2>3 DEF Drainable, Keeps, Grind, Submit, Submitting, Idle
  <2> QED BY <2>3, <2>4 DEF d
<1>2. CASE ~(r.pending # None /\ r.phase # "done" /\ Parent[r.pending] = t)
  <2>1. d = [r EXCEPT !.pc = "idle", !.pending = None] BY <1>2 DEF Drained
  <2> HIDE DEF d
  <2>2. d \in Session BY <2>1 DEF Session
  <2>3. /\ d.phase = r.phase /\ d.pc = "idle" /\ d.grind = r.grind /\ d.pending = None
        /\ d.send = r.send /\ d.parentWork = r.parentWork
        /\ d.current = r.current /\ d.retry = r.retry
    BY <2>1 DEF Session
  <2>4. Keeps(d, t)
    BY <1>2, <2>2, <2>3 DEF Drainable, Keeps, Grind, Submit, Submitting, Idle
  <2> QED BY <2>3, <2>4 DEF d
<1> QED BY <1>1, <1>2

(* A submit ends: nothing was queued meanwhile, so the session rests and rebuilds. *)
LEMMA SubmitEndedKeeps ==
  ASSUME NEW r \in Session, NEW t \in Blocks, Submitting(r), r.pending = None,
         r.phase \in {"run", "done"}, r.grind # "on",
         r.phase = "done" => r.grind = "off" /\ ~r.retry,
         NEW d \in SubmitEnded(r, t)
  PROVE  Keeps(d, t)
<1> DEFINE q == [r EXCEPT !.send = None, !.tries = 0, !.parentWork = 0]
           e == [q EXCEPT !.pc = "idle", !.pending = None]
           f == [q EXCEPT !.pc = "idle"]
<1>0. 0 \in 0 .. MaxAttempts - 1 BY MinerCoordinatorAssumption
<1>1. q \in Session BY <1>0 DEF Session
<1>2. /\ q.phase = r.phase /\ q.pc = r.pc /\ q.grind = r.grind /\ q.pending = None
      /\ q.send = None /\ q.parentWork = 0 /\ q.retry = r.retry
  BY DEF Session
<1>3. d \in (LET c == IF q.pc = "solve" THEN Drained(q, t) ELSE f
             IN IF Idle(c) THEN Rebuilt(c, t) ELSE {c})
  BY <1>2 DEF SubmitEnded
<1>4. Drained(q, t) = e BY <1>2 DEF Drained
<1> HIDE DEF q
<1>a. e \in Session BY <1>1, Typed
<1>5. /\ e.phase = q.phase /\ e.pc = "idle" /\ e.grind = q.grind
      /\ e.pending = None /\ e.send = q.send /\ e.parentWork = q.parentWork
      /\ e.retry = q.retry
  BY <1>1 DEF Session
<1>b. f \in Session BY <1>1 DEF Session
<1>6. /\ f.phase = q.phase /\ f.pc = "idle" /\ f.grind = q.grind
      /\ f.pending = q.pending /\ f.send = q.send /\ f.parentWork = q.parentWork
      /\ f.retry = q.retry
  BY <1>1 DEF Session
<1> HIDE DEF e, f
<1>7. Resting(e) /\ Resting(f) BY <1>2, <1>5, <1>6 DEF Resting, Idle
<1>8. d \in Rebuilt(e, t) \/ d \in Rebuilt(f, t)
  BY <1>3, <1>4, <1>7 DEF Resting
<1> QED BY <1>a, <1>b, <1>7, <1>8, RebuiltKeeps

LEMMA SyncEndedKeeps ==
  ASSUME NEW r \in Session, NEW t \in Blocks, NEW u, Grind(r, u),
         r.send = None, r.parentWork = 0,
         NEW answer \in {"changed", "unchanged", "failed"},
         answer = "unchanged" /\ r.grind = "on" => r.current = t,
         NEW d \in SyncEnded(r, t, answer)
  PROVE  Keeps(d, t) /\ d.pc # "sync"
<1> DEFINE q == [r EXCEPT !.result = answer, !.polling = FALSE]
<1>1. q \in Session BY Typed
<1>2. /\ q.phase = r.phase /\ q.pc = r.pc /\ q.grind = r.grind /\ q.pending = r.pending
      /\ q.send = None /\ q.parentWork = 0 /\ q.retry = r.retry /\ q.current = r.current
  BY DEF Session
<1>3. CASE answer = "changed"
  <2> DEFINE p == [q EXCEPT !.grind = "off"]
  <2>1. PICK c \in Rebuilt(p, t) : d = Drained(c, t) BY <1>3 DEF SyncEnded
  <2> HIDE DEF q
  <2>a. p \in Session BY <1>1 DEF Session
  <2>2. /\ p.phase = q.phase /\ p.grind = "off" /\ p.pending = q.pending
        /\ p.send = q.send /\ p.parentWork = q.parentWork /\ p.retry = q.retry
        /\ p.current = q.current
    BY <1>1 DEF Session
  <2> HIDE DEF p
  <2>3. c \in Session /\ Drainable(c, t)
    <3>1. CASE p.phase = "done"
      <4>1. c = p BY <3>1 DEF Rebuilt
      <4> QED BY <1>2, <2>a, <2>2, <3>1, <4>1 DEF Drainable, Grind
    <3>2. CASE p.phase # "done"
             /\ c = [p EXCEPT !.current = t, !.grind = "on", !.retry = FALSE]
      <4>1. c \in Session BY <2>a, <3>2, Typed
      <4>2. /\ c.phase = p.phase /\ c.current = t
            /\ c.send = p.send /\ c.parentWork = p.parentWork
        BY <2>a, <3>2 DEF Session
      <4> QED BY <1>2, <2>2, <3>2, <4>1, <4>2 DEF Drainable, Grind
    <3>3. ASSUME p.phase # "done", NEW x \in {p.current, t},
                 c = [p EXCEPT !.current = x, !.grind = "off", !.retry = TRUE]
          PROVE  c \in Session /\ Drainable(c, t)
      <4>0. x \in Blocks \union {None} BY <2>a DEF Session
      <4>1. c \in Session BY <2>a, <3>3, <4>0, Typed
      <4>2. /\ c.phase = p.phase /\ c.grind = "off"
            /\ c.send = p.send /\ c.parentWork = p.parentWork
        BY <2>a, <3>3 DEF Session
      <4> QED BY <1>2, <2>2, <3>3, <4>1, <4>2 DEF Drainable, Grind
    <3> QED BY <3>1, <3>2, <3>3 DEF Rebuilt
  <2> QED BY <2>1, <2>3, DrainedKeeps
<1>4. CASE answer = "unchanged"
  <2>1. d = Drained(q, t) BY <1>4 DEF SyncEnded
  <2> HIDE DEF q
  <2>2. Drainable(q, t) BY <1>2, <1>4 DEF Drainable, Grind
  <2> QED BY <1>1, <2>1, <2>2, DrainedKeeps
<1>5. CASE answer = "failed"
  <2>1. d = [q EXCEPT !.pc = "idle", !.pending = None, !.grind = "off"]
    BY <1>5 DEF SyncEnded, Failed
  <2> HIDE DEF q
  <2>2. d \in Session BY <1>1, <2>1, Typed
  <2>3. /\ d.phase = q.phase /\ d.pc = "idle" /\ d.grind = "off"
        /\ d.pending = None /\ d.send = q.send /\ d.parentWork = q.parentWork
        /\ d.retry = q.retry
    BY <1>1, <2>1 DEF Session
  <2> QED BY <1>2, <2>2, <2>3 DEF Keeps, Grind, Submit, Submitting, Idle
<1> QED BY <1>3, <1>4, <1>5

-----------------------------------------------------------------------------
(* The steps. *)
LEMMA FirstSession == 1 \in Sessions
  BY MinerCoordinatorAssumption DEF Sessions

(* The other sessions of the process have not begun: nothing of theirs happens. *)
LEMMA OnlyFirst ==
  ASSUME CoordInv, NEW s \in Sessions,
         \/ sess[s].phase \in {"run", "boot", "done"} \/ ~Idle(sess[s])
         \/ sess[s].grind = "on" \/ sess[s].polling \/ sess[s].retry \/ sess[s].send # None
  PROVE  s = 1
BY DEF CoordInv, SessionInv, OthersOff, NewSession, Idle

LEMMA SessionMoves ==
  ASSUME CoordInv, NEW r \in Session, sess' = [sess EXCEPT ![1] = r]
  PROVE  sess' \in [Sessions -> Session] /\ OthersOff' /\ sess'[1] = r
BY FirstSession DEF CoordInv, SessionInv, OthersOff

(* A handler that leaves the session to what keeps the invariant, with the chain
   as it is. *)
LEMMA HandlerStep ==
  ASSUME CoordInv, NEW r, Keeps(r, tip), sess' = [sess EXCEPT ![1] = r],
         UNCHANGED <<stored, work, tip, restoring, public>>,
         materialised' \subseteq stored, solved' \subseteq Own
  PROVE  CoordInv'
<1>1. r \in Session BY DEF Keeps
<1>2. sess' \in [Sessions -> Session] /\ OthersOff' /\ sess'[1] = r
  BY <1>1, SessionMoves
<1>3. Grind(r, tip') /\ Submit(r, tip') BY DEF Keeps, Grind, Submit
<1>4. Adopting(r)' BY DEF Keeps, Adopting
<1>5. SessionInv' BY <1>2, <1>3, <1>4 DEF SessionInv, Adopting
<1>6. ChainInv' BY DEF CoordInv, ChainInv, TypeOK, NoPrivateFork
<1> QED BY <1>5, <1>6 DEF CoordInv

LEMMA PruneStep ==
  ASSUME TypeOK, PruneStates
  PROVE  materialised' \subseteq stored
BY DEF TypeOK, PruneStates, StripBuried, Unburied

LEMMA GenesisStep ==
  ASSUME CoordInv, ToGenesis, UNCHANGED <<restoring, public, solved>>
  PROVE  ChainInv'
BY BlockchainAssumption, MinerCoordinatorAssumption
   DEF CoordInv, ChainInv, ToGenesis, TypeOK, NoPrivateFork

LEMMA SyncStepKeeps ==
  ASSUME CoordInv, NEW s \in Sessions, SyncStep(s)
  PROVE  CoordInv'
<1>1. s = 1 /\ sess[1].pc = "sync" /\ UNCHANGED <<public, solved, sess>>
  <2>1. s = 1 BY OnlyFirst DEF SyncStep, Idle
  <2> QED BY <2>1 DEF SyncStep, CoordInv, SessionInv, Grind
<1>2. ChainInv'
  <2>1. ASSUME NEW b \in public, AcceptBlock(b) PROVE ChainInv'
    <3>1. b \in Blocks /\ Parent[b] \in stored /\ work[Parent[b]] + BlockWork[b] \in Nat
      BY <2>1, BlockchainAssumption
      DEF CoordInv, ChainInv, TypeOK, AcceptBlock, PassesHeaderChecks, Attaches
    <3>2. /\ stored' = stored \union {b} /\ work' \in [Blocks -> Nat] /\ tip' \in {b, tip}
          /\ materialised' = materialised \union {b} /\ UNCHANGED restoring
      BY <2>1, <3>1
      DEF CoordInv, ChainInv, TypeOK, AcceptBlock, Insert, ChooseTip
    <3> QED BY <1>1, <2>1, <3>1, <3>2 DEF CoordInv, ChainInv, TypeOK, NoPrivateFork
  <2>2. ASSUME NEW b \in public, HitPrunedParent(b) PROVE ChainInv'
    BY <1>1, <2>2, GenesisStep DEF HitPrunedParent
  <2>3. CASE PruneStates
    <3>1. materialised' \subseteq stored BY <2>3, PruneStep DEF CoordInv, ChainInv
    <3> QED BY <1>1, <2>3, <3>1 DEF CoordInv, ChainInv, TypeOK, NoPrivateFork, PruneStates
  <2> QED BY <2>1, <2>2, <2>3 DEF SyncStep
<1>3. SessionInv'
  BY <1>1, FirstSession
  DEF CoordInv, SessionInv, OthersOff, Grind, Submit, Submitting, Adopting, Idle, Session
<1> QED BY <1>2, <1>3 DEF CoordInv

LEMMA PollStep ==
  ASSUME CoordInv, NEW s \in Sessions,
         PollTick(s) \/ \E c \in public : PollAnswer(s, c)
  PROVE  CoordInv'
<1>1. s = 1 BY OnlyFirst DEF PollTick, PollAnswer
<1> DEFINE q == sess[1]
<1>2. q \in Session /\ Grind(q, tip) /\ Submit(q, tip) /\ Adopting(q) /\ tip \in Blocks
  BY FirstSession DEF CoordInv, SessionInv, ChainInv, TypeOK
<1>3. ASSUME NEW b \in BOOLEAN, sess' = [sess EXCEPT ![1] = [q EXCEPT !.polling = b]],
             UNCHANGED <<chainVars, public, solved>>
      PROVE  CoordInv'
  <2> DEFINE r == [q EXCEPT !.polling = b]
  <2>1. r \in Session BY <1>2 DEF Session
  <2>2. /\ r.phase = q.phase /\ r.pc = q.pc /\ r.current = q.current /\ r.grind = q.grind
        /\ r.retry = q.retry /\ r.pending = q.pending /\ r.send = q.send
        /\ r.parentWork = q.parentWork /\ r.entry = q.entry
    BY <1>2 DEF Session
  <2>3. sess' = [sess EXCEPT ![1] = r] BY <1>3
  <2> HIDE DEF r, q
  <2>4. sess' \in [Sessions -> Session] /\ OthersOff' /\ sess'[1] = r
    BY <2>1, <2>3, SessionMoves
  <2>5. Grind(r, tip) /\ Submit(r, tip) /\ Adopting(r)
    BY <1>2, <2>2 DEF Grind, Submit, Submitting, Adopting, Idle
  <2>6. UNCHANGED <<stored, work, materialised, tip, restoring, public, solved>>
    BY <1>3 DEF chainVars
  <2>7. SessionInv' BY <2>4, <2>5, <2>6 DEF SessionInv, Grind, Submit, Adopting
  <2>8. ChainInv' BY <2>6 DEF CoordInv, ChainInv, TypeOK, NoPrivateFork
  <2> QED BY <2>7, <2>8 DEF CoordInv
<1>4. CASE PollTick(s)
  BY <1>1, <1>3, <1>4 DEF PollTick
<1>5. ASSUME NEW c \in public, PollAnswer(s, c) PROVE CoordInv'
  <2> DEFINE r == [q EXCEPT !.polling = FALSE]
  <2>1. r \in Session BY <1>2 DEF Session
  <2>2. /\ r.phase = q.phase /\ r.pc = q.pc /\ r.current = q.current /\ r.grind = q.grind
        /\ r.retry = q.retry /\ r.pending = q.pending /\ r.send = q.send
        /\ r.parentWork = q.parentWork
    BY <1>2 DEF Session
  <2>3. q.pc # "sync" /\ UNCHANGED <<chainVars, public, solved>>
          /\ UNCHANGED <<stored, work, materialised, tip, restoring>>
    BY <1>1, <1>5 DEF PollAnswer, chainVars
  <2>4. \/ sess' = [sess EXCEPT ![1] = r]
        \/ Idle(r) /\ \E d \in SyncEnded(r, tip, "unchanged") :
             sess' = [sess EXCEPT ![1] = d]
        \/ Idle(r) /\ sess' = [sess EXCEPT ![1] =
                        [r EXCEPT !.pc = "sync", !.polling = TRUE, !.entry = tip]]
    BY <1>1, <1>5 DEF PollAnswer, Becomes
  <2>5. Idle(r) => /\ Grind(r, tip) /\ r.send = None /\ r.parentWork = 0
                   /\ r.grind = "on" => r.current = tip
    <3> HIDE DEF q, r
    <3>1. q.parentWork \in Nat BY <1>2 DEF Session
    <3> QED BY <1>2, <2>2, <3>1 DEF Grind, Submit, Submitting, Adopting, Idle
  <2>6. materialised \subseteq stored /\ solved \subseteq Own
    BY DEF CoordInv, ChainInv, TypeOK
  <2>7. CASE sess' = [sess EXCEPT ![1] = r]
    BY <1>3, <2>3, <2>7
  <2>8. CASE Idle(r) /\ \E d \in SyncEnded(r, tip, "unchanged") :
               sess' = [sess EXCEPT ![1] = d]
    <3>1. PICK d \in SyncEnded(r, tip, "unchanged") : sess' = [sess EXCEPT ![1] = d]
      BY <2>8
    <3> HIDE DEF r
    <3>2. Keeps(d, tip) BY <1>2, <2>1, <2>5, <2>8, SyncEndedKeeps
    <3> QED BY <2>3, <2>6, <3>1, <3>2, HandlerStep
  <2>9. CASE Idle(r) /\ sess' = [sess EXCEPT ![1] =
                          [r EXCEPT !.pc = "sync", !.polling = TRUE, !.entry = tip]]
    <3> DEFINE d == [r EXCEPT !.pc = "sync", !.polling = TRUE, !.entry = tip]
    <3> HIDE DEF r
    <3>1. d \in Session BY <1>2, <2>1 DEF Session
    <3>2. /\ d.phase = r.phase /\ d.pc = "sync" /\ d.current = r.current
          /\ d.grind = r.grind /\ d.retry = r.retry /\ d.pending = r.pending
          /\ d.send = r.send /\ d.parentWork = r.parentWork /\ d.entry = tip
      BY <2>1 DEF Session
    <3>3. sess' = [sess EXCEPT ![1] = d] BY <2>9
    <3> HIDE DEF d
    <3>4. Keeps(d, tip)
      BY <2>5, <2>9, <3>1, <3>2 DEF Keeps, Grind, Submit, Submitting, Idle
    <3> QED BY <2>3, <2>6, <3>3, <3>4, HandlerStep
  <2> QED BY <2>4, <2>7, <2>8, <2>9
<1> QED BY <1>4, <1>5

LEMMA SyncEndStep ==
  ASSUME CoordInv, NEW s \in Sessions, NEW answer \in {"changed", "unchanged", "failed"},
         SyncEnd(s, answer)
  PROVE  CoordInv'
<1>1. s = 1 BY OnlyFirst DEF SyncEnd, Idle
<1> DEFINE q == sess[1]
<1>2. q \in Session /\ Grind(q, tip) /\ Submit(q, tip) /\ Adopting(q) /\ tip \in Blocks
  BY FirstSession DEF CoordInv, SessionInv, ChainInv, TypeOK
<1>3. q.pc = "sync" /\ (answer = "unchanged" => tip = q.entry)
  BY <1>1 DEF SyncEnd
<1>4. PICK d \in SyncEnded(q, tip, answer) :
        sess' = [sess EXCEPT ![1] = [d EXCEPT !.entry = None]]
  BY <1>1 DEF SyncEnd, Becomes
<1> HIDE DEF q
<1>5. q.send = None /\ q.parentWork = 0
  <2>1. q.parentWork \in Nat BY <1>2 DEF Session
  <2> QED BY <1>2, <1>3, <2>1 DEF Submit, Submitting, Adopting
<1>6. answer = "unchanged" /\ q.grind = "on" => q.current = tip
  BY <1>2, <1>3 DEF Grind, Idle
<1>7. Keeps(d, tip) /\ d.pc # "sync" BY <1>2, <1>5, <1>6, SyncEndedKeeps
<1> DEFINE e == [d EXCEPT !.entry = None]
<1>8. /\ e \in Session /\ e.phase = d.phase /\ e.pc = d.pc /\ e.current = d.current
      /\ e.grind = d.grind /\ e.retry = d.retry /\ e.pending = d.pending
      /\ e.send = d.send /\ e.parentWork = d.parentWork
  BY <1>7 DEF Keeps, Session
<1>9. sess' = [sess EXCEPT ![1] = e] BY <1>4
<1> HIDE DEF e
<1>10. Keeps(e, tip)
  <2>1. Grind(d, tip) /\ Submit(d, tip) /\ d.pc # "sync" /\ d.parentWork = 0
    BY <1>7 DEF Keeps
  <2>2. Grind(e, tip)
    <3>1. d.pending = None /\ (d.grind = "on" => Idle(d) /\ d.phase = "run" /\ d.current = tip)
      BY <2>1, <1>7 DEF Grind, Submitting, Idle, Keeps, Session
    <3> QED BY <1>8, <2>1, <3>1 DEF Grind, Submitting, Idle
  <2>3. Submit(e, tip) BY <1>8, <2>1 DEF Submit, Submitting
  <2> QED BY <1>8, <2>1, <2>2, <2>3 DEF Keeps
<1>11. /\ UNCHANGED <<stored, work, tip, restoring, public>>
       /\ materialised' \subseteq stored /\ solved' \subseteq Own
  <2>1. PruneStates /\ UNCHANGED <<public, solved>> BY DEF SyncEnd
  <2> QED BY <2>1, PruneStep DEF PruneStates, CoordInv, ChainInv
<1> QED BY <1>9, <1>10, <1>11, HandlerStep

LEMMA RetryStep ==
  ASSUME CoordInv, NEW s \in Sessions, RetryFires(s)
  PROVE  CoordInv'
<1>1. s = 1 BY OnlyFirst DEF RetryFires
<1> DEFINE q == sess[1]
           r == [q EXCEPT !.retry = FALSE]
<1>2. q \in Session /\ Grind(q, tip) /\ Submit(q, tip) /\ Adopting(q) /\ tip \in Blocks
  BY FirstSession DEF CoordInv, SessionInv, ChainInv, TypeOK
<1>3. Idle(q) /\ \E d \in Rebuilt(r, tip) : sess' = [sess EXCEPT ![1] = d]
  BY <1>1 DEF RetryFires, Becomes
<1>4. r \in Session BY <1>2 DEF Session
<1>5. /\ r.phase = q.phase /\ r.pc = q.pc /\ r.grind = q.grind /\ r.retry = FALSE
      /\ r.pending = q.pending /\ r.send = q.send /\ r.parentWork = q.parentWork
      /\ q.parentWork \in Nat
  BY <1>2 DEF Session
<1> HIDE DEF q, r
<1>6. Resting(r)
  BY <1>2, <1>3, <1>5 DEF Resting, Grind, Submit, Submitting, Adopting, Idle
<1>7. PICK d \in Rebuilt(r, tip) : sess' = [sess EXCEPT ![1] = d] BY <1>3
<1>8. Keeps(d, tip) BY <1>2, <1>4, <1>6, <1>7, RebuiltKeeps
<1>9. /\ UNCHANGED <<stored, work, tip, restoring, public>>
      /\ materialised' \subseteq stored /\ solved' \subseteq Own
  BY DEF RetryFires, chainVars, CoordInv, ChainInv, TypeOK
<1> QED BY <1>7, <1>8, <1>9, HandlerStep

LEMMA ExhaustStep ==
  ASSUME CoordInv, NEW s \in Sessions, Exhaust(s)
  PROVE  CoordInv'
<1>1. s = 1 BY OnlyFirst DEF Exhaust
<1> DEFINE q == sess[1]
           g == IF q.grind = "on" THEN "exhausted" ELSE q.grind
           r == [q EXCEPT !.grind = g]
<1>2. q \in Session /\ Grind(q, tip) /\ Submit(q, tip) /\ Adopting(q) /\ tip \in Blocks
  BY FirstSession DEF CoordInv, SessionInv, ChainInv, TypeOK
<1>3. \/ Idle(r) /\ \E d \in Rebuilt(r, tip) : sess' = [sess EXCEPT ![1] = d]
      \/ sess' = [sess EXCEPT ![1] = r]
  BY <1>1 DEF Exhaust, Becomes
<1>4. g \in {"off", "solved", "exhausted"} /\ q.phase = "run"
  BY <1>1, <1>2 DEF Exhaust, Session
<1> HIDE DEF g
<1>5. r \in Session BY <1>2, <1>4 DEF Session
<1>6. /\ r.phase = "run" /\ r.pc = q.pc /\ r.grind # "on" /\ r.current = q.current
      /\ r.pending = q.pending /\ r.send = q.send /\ r.parentWork = q.parentWork
      /\ q.parentWork \in Nat
  BY <1>2, <1>4 DEF Session
<1>7. UNCHANGED <<stored, work, materialised, tip, restoring, public, solved>>
  BY DEF Exhaust, chainVars
<1> HIDE DEF q, r
<1>8. CASE Idle(r) /\ \E d \in Rebuilt(r, tip) : sess' = [sess EXCEPT ![1] = d]
  <2>1. Resting(r)
    BY <1>2, <1>6, <1>8 DEF Resting, Grind, Submit, Submitting, Adopting, Idle
  <2>2. PICK d \in Rebuilt(r, tip) : sess' = [sess EXCEPT ![1] = d] BY <1>8
  <2>3. Keeps(d, tip) BY <1>2, <1>5, <2>1, <2>2, RebuiltKeeps
  <2>4. materialised' \subseteq stored /\ solved' \subseteq Own
    BY <1>7 DEF CoordInv, ChainInv, TypeOK
  <2> QED BY <1>7, <2>2, <2>3, <2>4, HandlerStep
<1>9. CASE sess' = [sess EXCEPT ![1] = r]
  <2>1. sess' \in [Sessions -> Session] /\ OthersOff' /\ sess'[1] = r
    BY <1>5, <1>9, SessionMoves
  <2>2. Grind(r, tip) /\ Submit(r, tip) /\ Adopting(r)
    BY <1>2, <1>6 DEF Grind, Submit, Submitting, Adopting, Idle
  <2>3. SessionInv' BY <1>7, <2>1, <2>2 DEF SessionInv, Grind, Submit, Adopting
  <2>4. ChainInv' BY <1>7 DEF CoordInv, ChainInv, TypeOK, NoPrivateFork
  <2> QED BY <2>3, <2>4 DEF CoordInv
<1> QED BY <1>3, <1>8, <1>9

LEMMA SolveStep ==
  ASSUME CoordInv, NEW s \in Sessions, NEW b \in Own, Solve(s, b)
  PROVE  CoordInv'
<1>1. s = 1 BY OnlyFirst DEF Solve
<1> DEFINE q == sess[1]
<1>2. q \in Session /\ Grind(q, tip) /\ Submit(q, tip) /\ Adopting(q) /\ tip \in Blocks
  BY FirstSession DEF CoordInv, SessionInv, ChainInv, TypeOK
<1>3. /\ UNCHANGED <<stored, work, materialised, tip, restoring, public>>
      /\ materialised' \subseteq stored /\ solved' \subseteq Own
  BY DEF Solve, chainVars, CoordInv, ChainInv, TypeOK
<1>4. q.grind = "on" /\ Parent[b] = q.current /\ b # None
  BY <1>1, MinerCoordinatorAssumption DEF Solve
<1>5. q.parentWork \in Nat /\ q.send \in Own \union {None} BY <1>2 DEF Session
<1>6. CASE Idle(q)
  <2> DEFINE r == [q EXCEPT !.pc = "solve", !.send = b, !.grind = "off"]
  <2>1. sess' = [sess EXCEPT ![1] = r] BY <1>1, <1>6 DEF Solve
  <2> HIDE DEF q
  <2>2. r \in Session BY <1>2 DEF Session
  <2>3. /\ r.phase = q.phase /\ r.pc = "solve" /\ r.grind = "off" /\ r.retry = q.retry
        /\ r.pending = q.pending /\ r.send = b /\ r.parentWork = q.parentWork
    BY <1>2 DEF Session
  <2> HIDE DEF r
  <2>4. Keeps(r, tip)
    BY <1>2, <1>4, <1>5, <1>6, <2>2, <2>3
    DEF Keeps, Grind, Submit, Submitting, Adopting, Idle
  <2> QED BY <1>3, <2>1, <2>4, HandlerStep
<1>7. CASE ~Idle(q)
  <2> DEFINE r == [q EXCEPT !.pending = b, !.grind = "solved"]
  <2>1. sess' = [sess EXCEPT ![1] = r] BY <1>1, <1>7 DEF Solve
  <2> HIDE DEF q
  <2>2. r \in Session BY <1>2 DEF Session
  <2>3. /\ r.phase = q.phase /\ r.pc = q.pc /\ r.grind = "solved" /\ r.pending = b
        /\ r.current = q.current /\ r.send = q.send /\ r.parentWork = q.parentWork
    BY <1>2 DEF Session
  <2>4. q.pc = "sync" /\ q.phase = "run"
    BY <1>2, <1>4, <1>7 DEF Grind, Submitting, Idle, Session
  <2> HIDE DEF r
  <2>5. Keeps(r, tip)
    BY <1>2, <1>4, <1>5, <2>2, <2>3, <2>4
    DEF Keeps, Grind, Submit, Submitting, Adopting, Idle
  <2> QED BY <1>3, <2>1, <2>5, HandlerStep
<1> QED BY <1>6, <1>7

LEMMA AbortStep ==
  ASSUME CoordInv, NEW s \in Sessions, Abort(s)
  PROVE  CoordInv'
<1>1. s = 1 BY OnlyFirst DEF Abort
<1> DEFINE q == sess[1]
           r == [q EXCEPT !.phase = "done", !.grind = "off", !.pending = None, !.retry = FALSE]
<1>2. q \in Session /\ Grind(q, tip) /\ Submit(q, tip) /\ Adopting(q)
  BY FirstSession DEF CoordInv, SessionInv
<1>3. sess' = [sess EXCEPT ![1] = r] BY <1>1 DEF Abort
<1>4. r \in Session BY <1>2 DEF Session
<1>5. /\ r.phase = "done" /\ r.pc = q.pc /\ r.grind = "off" /\ r.pending = None
      /\ r.retry = FALSE /\ r.send = q.send /\ r.parentWork = q.parentWork
  BY <1>2 DEF Session
<1>6. UNCHANGED <<stored, work, materialised, tip, restoring, public, solved>>
  BY DEF Abort, chainVars
<1> HIDE DEF q, r
<1>7. sess' \in [Sessions -> Session] /\ OthersOff' /\ sess'[1] = r
  BY <1>3, <1>4, SessionMoves
<1>8. Grind(r, tip) /\ Submit(r, tip) /\ Adopting(r)
  BY <1>2, <1>5 DEF Grind, Submit, Submitting, Adopting, Idle
<1>9. SessionInv' BY <1>6, <1>7, <1>8 DEF SessionInv, Grind, Submit, Adopting
<1>10. ChainInv' BY <1>6 DEF CoordInv, ChainInv, TypeOK, NoPrivateFork
<1> QED BY <1>9, <1>10 DEF CoordInv

(* A submit ends while the chain or the helpers have moved. *)
LEMMA SubmitStep ==
  ASSUME CoordInv, ChainInv', NEW r, Keeps(r, tip'), sess' = [sess EXCEPT ![1] = r]
  PROVE  CoordInv'
<1>1. r \in Session BY DEF Keeps
<1>2. sess' \in [Sessions -> Session] /\ OthersOff' /\ sess'[1] = r
  BY <1>1, SessionMoves
<1>3. SessionInv' BY <1>2 DEF SessionInv, Adopting, Keeps, Grind, Submit
<1> QED BY <1>3 DEF CoordInv

LEMMA BroadcastStep ==
  ASSUME CoordInv, NEW s \in Sessions, NEW confirmed \in BOOLEAN, Broadcast(s, confirmed)
  PROVE  CoordInv'
<1>1. s = 1 BY OnlyFirst DEF Broadcast
<1> DEFINE q == sess[1]
           b == q.send
<1>2. q \in Session /\ Grind(q, tip) /\ Submit(q, tip) /\ tip \in Blocks
  BY FirstSession DEF CoordInv, SessionInv, ChainInv, TypeOK
<1>3. /\ b # None /\ q.parentWork = 0 /\ Posted(b, confirmed)
      /\ UNCHANGED <<stored, work, materialised, tip, restoring, solved>>
  BY <1>1 DEF Broadcast, chainVars
<1>4. \/ confirmed /\ Attaches(b)
           /\ sess' = [sess EXCEPT ![1] = [q EXCEPT !.parentWork = work[Parent[b]]]]
      \/ \E d \in SubmitEnded(q, tip) : sess' = [sess EXCEPT ![1] = d]
      \/ ~LastRound(q) /\ sess' = [sess EXCEPT ![1] = [q EXCEPT !.tries = q.tries + 1]]
  BY <1>1 DEF Broadcast, Becomes
<1> HIDE DEF q
<1>5. /\ Submitting(q) /\ q.pending = None /\ q.grind # "on" /\ Parent[b] = tip
      /\ q.phase \in {"run", "done"} /\ b \in Own
      /\ q.phase = "done" => q.grind = "off" /\ ~q.retry
  BY <1>2, <1>3 DEF Grind, Submit, Submitting, Session
<1>6. b \in Blocks BY <1>5, MinerCoordinatorAssumption
<1>7. ChainInv'
  BY <1>3, <1>6 DEF CoordInv, ChainInv, TypeOK, NoPrivateFork, Posted
<1>8. CASE confirmed /\ Attaches(b)
             /\ sess' = [sess EXCEPT ![1] = [q EXCEPT !.parentWork = work[Parent[b]]]]
  <2> DEFINE r == [q EXCEPT !.parentWork = work[Parent[b]]]
  <2>1. b \notin stored /\ b \in public' BY <1>3, <1>8 DEF Attaches, Posted
  <2>2. work[Parent[b]] = work[tip] /\ work[tip] \in Nat
    BY <1>2, <1>5 DEF CoordInv, ChainInv, TypeOK
  <2>3. sess' = [sess EXCEPT ![1] = r] BY <1>8
  <2>4. r \in Session BY <1>2, <2>2 DEF Session
  <2>5. /\ r.phase = q.phase /\ r.pc = q.pc /\ r.grind = q.grind /\ r.retry = q.retry
        /\ r.pending = q.pending /\ r.send = b /\ r.parentWork = work[tip]
        /\ r.current = q.current /\ r.entry = q.entry
    BY <1>2, <2>2 DEF Session
  <2> HIDE DEF r
  <2>6. sess' \in [Sessions -> Session] /\ OthersOff' /\ sess'[1] = r
    BY <2>3, <2>4, SessionMoves
  <2>7. Grind(r, tip) /\ Submit(r, tip)
    BY <1>2, <2>5 DEF Grind, Submit, Submitting, Idle
  <2>8. /\ sess'[1].send # None /\ sess'[1].send \notin stored'
        /\ sess'[1].send \in public' /\ sess'[1].parentWork = work'[tip']
    BY <1>3, <2>1, <2>5, <2>6
  <2>9. Adopting(sess[1])' BY <2>8 DEF Adopting
  <2>10. Grind(sess'[1], tip') /\ Submit(sess'[1], tip') BY <1>3, <2>6, <2>7
  <2>11. SessionInv' BY <2>6, <2>9, <2>10 DEF SessionInv
  <2> QED BY <1>7, <2>11 DEF CoordInv
<1>9. CASE \E d \in SubmitEnded(q, tip) : sess' = [sess EXCEPT ![1] = d]
  <2>1. PICK d \in SubmitEnded(q, tip) : sess' = [sess EXCEPT ![1] = d] BY <1>9
  <2>2. Keeps(d, tip) BY <1>2, <1>5, <2>1, SubmitEndedKeeps
  <2>3. Keeps(d, tip') BY <1>3, <2>2
  <2> QED BY <1>7, <2>1, <2>3, SubmitStep
<1>10. CASE ~LastRound(q)
              /\ sess' = [sess EXCEPT ![1] = [q EXCEPT !.tries = q.tries + 1]]
  <2> DEFINE r == [q EXCEPT !.tries = q.tries + 1]
  <2>1. q.tries + 1 \in 0 .. MaxAttempts - 1
    BY <1>2, <1>10, MinerCoordinatorAssumption DEF LastRound, Session
  <2>2. r \in Session BY <1>2, <2>1 DEF Session
  <2>3. /\ r.phase = q.phase /\ r.pc = q.pc /\ r.grind = q.grind /\ r.retry = q.retry
        /\ r.pending = q.pending /\ r.send = b /\ r.parentWork = q.parentWork
        /\ r.current = q.current /\ r.entry = q.entry
    BY <1>2 DEF Session
  <2>4. sess' = [sess EXCEPT ![1] = r] BY <1>10
  <2> HIDE DEF r
  <2>5. Keeps(r, tip)
    BY <1>2, <1>3, <2>2, <2>3 DEF Keeps, Grind, Submit, Submitting, Idle
  <2>6. Keeps(r, tip') BY <1>3, <2>5
  <2> QED BY <1>7, <2>4, <2>6, SubmitStep
<1> QED BY <1>4, <1>8, <1>9, <1>10

(* The parent looked up before the await is still the tip after it. *)
LEMMA AdoptStep ==
  ASSUME CoordInv, NEW s \in Sessions, Adopt(s)
  PROVE  /\ CoordInv'
         /\ sess[s].send \in stored' =>
              tip' = sess[s].send /\ Parent[sess[s].send] \in stored'
<1>1. s = 1 BY OnlyFirst DEF Adopt
<1> DEFINE q == sess[1]
           b == q.send
<1>2. /\ q \in Session /\ Grind(q, tip) /\ Submit(q, tip) /\ Adopting(q)
      /\ tip \in Blocks /\ work \in [Blocks -> Nat]
  BY FirstSession DEF CoordInv, SessionInv, ChainInv, TypeOK
<1>3. /\ b # None /\ q.parentWork > 0
      /\ \/ ToGenesis
         \/ UNCHANGED <<stored, work, materialised, tip>>
         \/ /\ stored' = stored \union {b}
            /\ work' = [work EXCEPT ![b] = q.parentWork + BlockWork[b]]
            /\ tip' = IF work'[b] > work[tip] THEN b ELSE tip
            /\ materialised' = Unburied(tip', materialised \union {b})
      /\ \E d \in SubmitEnded(q, tip') : sess' = [sess EXCEPT ![1] = d]
      /\ UNCHANGED <<restoring, public, solved>>
  BY <1>1 DEF Adopt, Becomes
<1> HIDE DEF q
<1>4. /\ Submitting(q) /\ q.pending = None /\ q.grind # "on"
      /\ q.phase \in {"run", "done"} /\ b \in Own
      /\ q.phase = "done" => q.grind = "off" /\ ~q.retry
      /\ b \notin stored /\ b \in public /\ q.parentWork = work[tip]
  BY <1>2, <1>3 DEF Grind, Submit, Submitting, Adopting, Session
<1>5. b \in Blocks /\ b # Genesis BY <1>4, MinerCoordinatorAssumption
<1>6. ChainInv' /\ (b \in stored' => tip' = b)
  <2>1. CASE ToGenesis
    <3>1. stored' = {Genesis} BY <2>1 DEF ToGenesis
    <3> QED BY <1>3, <1>5, <2>1, <3>1, GenesisStep
  <2>2. CASE UNCHANGED <<stored, work, materialised, tip>>
    BY <1>3, <1>4, <2>2 DEF CoordInv, ChainInv, TypeOK, NoPrivateFork
  <2>3. CASE /\ stored' = stored \union {b}
             /\ work' = [work EXCEPT ![b] = q.parentWork + BlockWork[b]]
             /\ tip' = IF work'[b] > work[tip] THEN b ELSE tip
             /\ materialised' = Unburied(tip', materialised \union {b})
    <3>0. work[tip] \in Nat /\ BlockWork[b] \in Nat \ {0}
      BY <1>2, <1>5, BlockchainAssumption
    <3>1. /\ work[tip] \in Nat /\ BlockWork[b] \in Nat \ {0}
          /\ work' \in [Blocks -> Nat] /\ work'[b] = work[tip] + BlockWork[b]
      <4>1. q.parentWork + BlockWork[b] \in Nat BY <1>4, <3>0
      <4>2. work' = [work EXCEPT ![b] = q.parentWork + BlockWork[b]] BY <2>3
      <4> HIDE DEF b
      <4>3. work' \in [Blocks -> Nat] /\ work'[b] = q.parentWork + BlockWork[b]
        BY <1>2, <1>5, <4>1, <4>2
      <4> QED BY <1>4, <3>0, <4>3
    <3>2. tip' = b BY <2>3, <3>1
    <3>3. materialised' \subseteq stored'
      BY <2>3 DEF Unburied, CoordInv, ChainInv, TypeOK
    <3> QED
      BY <1>3, <1>4, <1>5, <2>3, <3>1, <3>2, <3>3 DEF CoordInv, ChainInv, TypeOK, NoPrivateFork
  <2> QED BY <1>3, <2>1, <2>2, <2>3
<1>7. PICK d \in SubmitEnded(q, tip') : sess' = [sess EXCEPT ![1] = d] BY <1>3
<1>8. tip' \in Blocks BY <1>6 DEF ChainInv, TypeOK
<1>9. Keeps(d, tip') BY <1>2, <1>4, <1>7, <1>8, SubmitEndedKeeps
<1>10. CoordInv' BY <1>6, <1>7, <1>9, SubmitStep
<1>11. b \in stored' => Parent[b] \in stored'
  <2>1. Parent[b] = tip /\ tip \in stored
    BY <1>2, <1>3 DEF Submit, CoordInv, ChainInv, TypeOK
  <2>2. ToGenesis => b \notin stored' BY <1>5 DEF ToGenesis
  <2> QED BY <1>3, <1>4, <2>1, <2>2
<1> QED BY <1>1, <1>6, <1>10, <1>11 DEF q

LEMMA CoordStep ==
  ASSUME CoordInv, [CoordNext]_vars
  PROVE  CoordInv'
<1>1. ASSUME NEW b \in Blocks, Publish(b) PROVE CoordInv'
  <2>1. UNCHANGED <<stored, work, materialised, tip, restoring, solved, sess>>
          /\ public' = public \union {b}
    BY <1>1 DEF Publish, chainVars
  <2>2. ChainInv' BY <2>1 DEF CoordInv, ChainInv, TypeOK, NoPrivateFork
  <2>3. SessionInv'
    BY <2>1 DEF CoordInv, SessionInv, OthersOff, Grind, Submit, Adopting
  <2> QED BY <2>2, <2>3 DEF CoordInv
<1>2. CASE UNCHANGED vars
  <2>1. UNCHANGED <<stored, work, materialised, tip, restoring, public, solved, sess>>
    BY <1>2 DEF vars, chainVars
  <2>2. ChainInv' BY <2>1 DEF CoordInv, ChainInv, TypeOK, NoPrivateFork
  <2>3. SessionInv'
    BY <2>1 DEF CoordInv, SessionInv, OthersOff, Grind, Submit, Adopting
  <2> QED BY <2>2, <2>3 DEF CoordInv
<1> QED BY <1>1, <1>2, SyncStepKeeps, PollStep, SyncEndStep, SolveStep, ExhaustStep,
           RetryStep, BroadcastStep, AdoptStep, AbortStep DEF CoordNext

LEMMA CoordStarts == ASSUME CoordInit PROVE CoordInv
<1> DEFINE r == NewSession("run", Anchor, "on")
           o == NewSession("off", None, "off")
<1>1. 0 \in 0 .. MaxAttempts - 1 BY MinerCoordinatorAssumption
<1>2. Anchor \in Blocks /\ Anchor \in Line[Anchor] /\ Genesis \in Line[Anchor]
        /\ Line[Anchor] \subseteq Seen /\ Seen \subseteq Blocks \ Own
  BY MinerCoordinatorAssumption
<1>3. r \in Session /\ o \in Session BY <1>1, <1>2 DEF NewSession, Session
<1>4. /\ r.phase = "run" /\ r.pc = "idle" /\ r.current = Anchor /\ r.pending = None
      /\ r.send = None /\ r.parentWork = 0
  BY DEF NewSession
<1>5. /\ stored = Line[Anchor] /\ materialised = {Genesis, Anchor} /\ tip = Anchor
      /\ restoring = FALSE /\ public = Seen /\ solved = {}
      /\ sess = [s \in Sessions |-> IF s = 1 THEN r ELSE o]
  BY DEF CoordInit
<1>6. work \in [Blocks -> Nat]
  <2>1. work = [b \in Blocks |-> IF b \in Line[Anchor] THEN AnchorWork[b] ELSE 0]
    BY DEF CoordInit
  <2>2. \A b \in Line[Anchor] : AnchorWork[b] \in Nat BY MinerCoordinatorAssumption
  <2> QED BY <2>1, <2>2
<1> HIDE DEF r, o
<1>7. ChainInv BY <1>2, <1>5, <1>6 DEF ChainInv, TypeOK, NoPrivateFork
<1>8. sess \in [Sessions -> Session] /\ sess[1] = r BY <1>3, <1>5, FirstSession
<1>9. OthersOff BY <1>5 DEF OthersOff, o
<1>10. Grind(r, tip) /\ Submit(r, tip) /\ Adopting(r)
  BY <1>4, <1>5 DEF Grind, Submit, Submitting, Adopting, Idle
<1> QED BY <1>7, <1>8, <1>9, <1>10 DEF CoordInv, SessionInv

-----------------------------------------------------------------------------
(* The inductive invariant of a session, from its first grind to after its teardown. *)
THEOREM CoordInvHolds == CoordSpec => []CoordInv
<1>1. CoordInit => CoordInv BY CoordStarts
<1>2. CoordInv /\ [CoordNext]_vars => CoordInv' BY CoordStep
<1> QED BY <1>1, <1>2, PTL DEF CoordSpec

(* A running session that is not in the middle of an op grinds on the tip of its
   chain, after any catch-ups, failures, solves and retries. *)
THEOREM MinesOnTip == CoordSpec => []GrindsOnTip
<1>1. CoordInv => GrindsOnTip
  <2> SUFFICES ASSUME CoordInv, NEW s \in Sessions, sess[s].phase = "run",
                      Idle(sess[s]), sess[s].grind = "on"
               PROVE  sess[s].current = tip
    BY DEF GrindsOnTip
  <2>1. s = 1 BY OnlyFirst
  <2> QED BY <2>1 DEF CoordInv, SessionInv, Grind
<1> QED BY <1>1, CoordInvHolds, PTL

(* "Our own block ALWAYS becomes the local tip": nothing moves the tip between the
   solve and the end of the PoW check, so a block that is stored at all is put on
   that tip and outweighs it. With a second session this is false (coordinator_two_sessions). *)
THEOREM SubmitMovesTip == CoordSpec => AdoptedBecomesTip
<1> DEFINE Moves == \A s \in Sessions :
                      (Adopt(s) /\ sess[s].send \in stored') =>
                        tip' = sess[s].send /\ Parent[sess[s].send] \in stored'
<1>1. CoordInv /\ [CoordNext]_vars => [Moves]_vars BY AdoptStep
<1> QED BY <1>1, CoordInvHolds, PTL DEF CoordSpec, AdoptedBecomesTip

-----------------------------------------------------------------------------
(* The block tree the session mines on, whatever its ops do to it. The adoption
   of a solve writes the tree by itself, with the work it looked up before. *)

(* The tree is sound, no state lies under a stripped block, and unless a
   catch-up runs none lies below the window. *)
TreeInv ==
  /\ IInv /\ PruneInv /\ ~restoring
  /\ sess[1].pc = "sync" \/ Retired(tip, materialised)

LEMMA TreeOfStored == ASSUME IInv PROVE Tree(stored) /\ tip \in stored
  BY DEF IInv, TypeOK, Linked, Tree

(* The anchor's line, with the work the cold start summed along it. *)
LEMMA TreeStarts == ASSUME CoordInit, CoordInv PROVE TreeInv
<1> DEFINE S == Line[Anchor]
<1>1. /\ stored = S /\ materialised = {Genesis, Anchor} /\ tip = Anchor /\ ~restoring
      /\ work = [b \in Blocks |-> IF b \in S THEN AnchorWork[b] ELSE 0]
  BY DEF CoordInit
<1>2. /\ Genesis \in S /\ Anchor \in S /\ S \subseteq Blocks
      /\ AnchorWork \in [S -> Nat \ {0}] /\ AnchorWork[Genesis] = BlockWork[Genesis]
      /\ \A b \in S \ {Genesis} :
           /\ Parent[b] \in S /\ Height[b] = Height[Parent[b]] + 1
           /\ AnchorWork[b] = AnchorWork[Parent[b]] + BlockWork[b]
  BY MinerCoordinatorAssumption
<1> HIDE DEF S
<1>3. Tree(S)
  BY <1>2 DEF Tree
<1>4. \A b \in S : work[b] = AnchorWork[b]
  BY <1>1, <1>2
<1>5. Linked
  BY <1>1, <1>2, <1>4 DEF Linked
<1>6. HeaviestTip
  <2> DEFINE Q == {b \in S : AnchorWork[b] <= AnchorWork[Anchor]}
  <2>1. Anchor \in Q
    BY <1>2
  <2>2. ASSUME NEW b \in (Line[Anchor] \intersect Q) \ {Genesis} PROVE Parent[b] \in Q
    BY <1>2, <2>2, BlockchainAssumption
  <2> HIDE DEF Q
  <2>3. Line[Anchor] \subseteq Q
    BY <1>2, <1>3, <2>1, <2>2, LineInduct
  <2> QED
    BY <1>1, <1>2, <1>4, <2>3 DEF HeaviestTip, Q, S
<1>7. PrunedIsPrefix
  <2> SUFFICES ASSUME NEW b \in S \ {Genesis, Anchor}, Parent[b] = Anchor PROVE FALSE
    BY <1>1 DEF PrunedIsPrefix
  <2>1. Height[b] <= Height[Anchor] /\ Height[b] = Height[Anchor] + 1
    BY <1>2, <1>3, LineInTree DEF S
  <2> QED
    BY <1>2, <2>1, BlockchainAssumption
<1>8. Retired(tip, materialised)
  BY <1>1, BlockchainAssumption DEF Retired
<1> QED
  BY <1>1, <1>5, <1>6, <1>7, <1>8
  DEF TreeInv, IInv, PruneInv, TipExtendable, CoordInv, ChainInv

(* A step that leaves the chain alone, and a running catch-up running. *)
LEMMA TreeUntouched ==
  ASSUME TreeInv, UNCHANGED chainVars, sess[1].pc = "sync" => sess'[1].pc = "sync"
  PROVE  TreeInv'
<1>1. IInv' /\ PruneInv'
  BY NextIInv, NextPruneInv DEF TreeInv
<1> QED
  BY <1>1 DEF TreeInv, chainVars, Retired

(* A catch-up is interrupted by nothing but its own end. *)
LEMMA SyncStays ==
  ASSUME CoordInv, NEW s \in Sessions,
         \/ PollTick(s) \/ \E c \in public : PollAnswer(s, c)
         \/ \E b \in Own : Solve(s, b)
         \/ Exhaust(s) \/ RetryFires(s) \/ Abort(s)
         \/ \E confirmed \in BOOLEAN : Broadcast(s, confirmed),
         sess[1].pc = "sync"
  PROVE  sess'[1].pc = "sync"
<1>1. s = 1
  BY OnlyFirst
  DEF PollTick, PollAnswer, Solve, Exhaust, RetryFires, Abort, Broadcast
<1> DEFINE q == sess[1]
<1>2. q \in Session /\ Submit(q, tip) /\ sess \in [Sessions -> Session] /\ 1 \in Sessions
  BY FirstSession DEF CoordInv, SessionInv
<1>3. CASE PollTick(s)
  BY <1>1, <1>2, <1>3 DEF PollTick, Session
<1>4. ASSUME NEW b \in Own, Solve(s, b) PROVE sess'[1].pc = "sync"
  <2>1. sess' = [sess EXCEPT ![1] = [q EXCEPT !.pending = b, !.grind = "solved"]]
    BY <1>1, <1>4 DEF Solve, Idle
  <2> QED
    BY <1>2, <2>1 DEF Session
<1>5. CASE Exhaust(s)
  <2> DEFINE r == [q EXCEPT !.grind = IF @ = "on" THEN "exhausted" ELSE @]
  <2>1. r.pc = "sync"
    BY <1>2 DEF Session
  <2>2. sess' = [sess EXCEPT ![1] = r]
    BY <1>1, <1>5, <2>1 DEF Exhaust, Becomes, Idle
  <2> QED
    BY <1>2, <2>1, <2>2
<1>6. CASE Abort(s)
  BY <1>1, <1>2, <1>6 DEF Abort, Session
<1>7. ~RetryFires(s)
  BY <1>1 DEF RetryFires, Idle
<1>8. ~\E c \in public : PollAnswer(s, c)
  BY <1>1 DEF PollAnswer
<1>9. ~\E confirmed \in BOOLEAN : Broadcast(s, confirmed)
  BY <1>1, <1>2 DEF Broadcast, Submit, Submitting
<1> QED
  BY <1>3, <1>4, <1>5, <1>6, <1>7, <1>8, <1>9

(* Between two awaits a catch-up makes a step of the block tree. *)
LEMMA TreeSyncStep ==
  ASSUME TreeInv, CoordInv, NEW s \in Sessions, SyncStep(s)
  PROVE  TreeInv'
<1>1. s = 1 /\ sess[1].pc = "sync" /\ UNCHANGED sess
  <2>1. s = 1
    BY OnlyFirst DEF SyncStep, Idle
  <2> QED
    BY <2>1 DEF SyncStep, CoordInv, SessionInv, Grind
<1>2. Next
  <2>1. public \subseteq Blocks
    BY DEF CoordInv, ChainInv
  <2> QED
    BY <2>1 DEF SyncStep, Next
<1>3. ~restoring'
  BY DEF SyncStep, TreeInv, AcceptBlock, HitPrunedParent, PruneStates
<1> QED
  BY <1>1, <1>2, <1>3, NextIInv, NextPruneInv DEF TreeInv

(* It ends with a prune, which retires what it materialised. *)
LEMMA TreeSyncEnd ==
  ASSUME TreeInv, NEW s \in Sessions, NEW answer, SyncEnd(s, answer)
  PROVE  TreeInv'
<1>1. PruneStates
  BY DEF SyncEnd
<1>2. IInv' /\ PruneInv'
  BY <1>1, NextIInv, NextPruneInv DEF TreeInv, Next
<1>3. Retired(tip, Unburied(tip, materialised))
  <2>1. Prefix(stored, materialised)
    BY DEF TreeInv, PruneInv, PrunedIsPrefix, Prefix
  <2> QED
    BY <2>1, TreeOfStored, UnburiedRetired DEF TreeInv
<1> QED
  BY <1>1, <1>2, <1>3 DEF TreeInv, PruneStates, StripBuried, Retired

(* The rest of addBlock for our own block, on the parent looked up before the
   await: that parent is still the tip, and the tip has a state. *)
LEMMA TreeAdopt ==
  ASSUME TreeInv, CoordInv, NEW s \in Sessions, Adopt(s)
  PROVE  TreeInv'
<1>1. s = 1
  BY OnlyFirst DEF Adopt
<1> DEFINE q == sess[1]
           b == q.send
<1>2. /\ b # None /\ q.parentWork > 0 /\ UNCHANGED restoring
      /\ IF Parent[b] \in stored \ materialised
           THEN ToGenesis \/ UNCHANGED <<stored, work, materialised, tip>>
           ELSE /\ stored' = stored \union {b}
                /\ work' = [work EXCEPT ![b] = q.parentWork + BlockWork[b]]
                /\ tip' = IF work'[b] > work[tip] THEN b ELSE tip
                /\ materialised' = Unburied(tip', materialised \union {b})
  BY <1>1 DEF Adopt
<1>3. /\ b \notin stored /\ q.parentWork = work[tip] /\ Parent[b] = tip /\ b \in Own
  <2>1. q \in Session /\ Submit(q, tip) /\ Adopting(q)
    BY FirstSession DEF CoordInv, SessionInv
  <2> QED
    BY <1>2, <2>1 DEF Submit, Adopting, Session
<1> HIDE DEF b
<1>4. /\ b \in Blocks /\ b # Genesis /\ Height[b] = Height[Parent[b]] + 1
      /\ tip \in stored /\ tip \in materialised /\ Genesis \in materialised
      /\ work \in [Blocks -> Nat] /\ tip \in Blocks
  BY <1>3, MinerCoordinatorAssumption DEF TreeInv, IInv, TypeOK, TipExtendable
<1>5. Attaches(b) /\ Insert(b)
  BY <1>2, <1>3, <1>4 DEF Attaches, Insert
<1>6. Linked' /\ work' \in [Blocks -> Nat] /\ stored' \subseteq Blocks /\ b \in stored'
      /\ work'[b] = work[tip] + BlockWork[b]
  BY <1>3, <1>4, <1>5, InsertLinked DEF TreeInv, IInv
<1>7. tip' = b
  BY <1>2, <1>3, <1>4, <1>6, BlockchainAssumption
<1>8. HeaviestTip'
  <2>1. ChooseTip(b)
    BY <1>2, <1>3, <1>4, <1>6 DEF ChooseTip
  <2> QED
    BY <1>4, <1>5, <2>1, ChooseTipHeaviest DEF TreeInv, IInv
<1>9. Tree(stored') /\ b \in stored'
  BY <1>6 DEF Linked, Tree
<1>10. materialised' = Unburied(b, materialised \union {b})
  BY <1>2, <1>3, <1>4, <1>7
<1>11. Prefix(stored', materialised \union {b})
  <2> SUFFICES ASSUME NEW c \in stored \ (materialised \union {Genesis}),
                      Parent[c] # Genesis
               PROVE  Parent[c] \notin materialised \union {b}
    BY <1>2, <1>3, <1>4 DEF Prefix
  <2>1. Parent[c] \in stored /\ Parent[c] \notin materialised
    BY DEF TreeInv, IInv, Linked, PruneInv, PrunedIsPrefix
  <2> QED
    BY <1>3, <2>1
<1>12. Prefix(stored', materialised') /\ Retired(b, materialised')
  BY <1>9, <1>10, <1>11, UnburiedPrefix, UnburiedRetired
<1>13. materialised' \subseteq stored' /\ Genesis \in materialised' /\ b \in materialised'
  <2>1. ASSUME NEW m PROVE b \notin Buried(b, materialised \union {b}, m)
                           /\ Genesis \notin Buried(b, materialised \union {b}, m)
    BY BlockchainAssumption DEF Buried
  <2>2. materialised \union {b} \subseteq stored'
    BY <1>5 DEF Insert, TreeInv, IInv, TypeOK
  <2> QED
    BY <1>4, <1>10, <2>1, <2>2 DEF Unburied
<1>14. IInv'
  BY <1>2, <1>6, <1>7, <1>8, <1>13 DEF TreeInv, IInv, TypeOK, TipExtendable
<1> QED
  BY <1>2, <1>7, <1>12, <1>14 DEF TreeInv, PruneInv, PrunedIsPrefix, Prefix, Retired

LEMMA TreeStep == CoordInv /\ TreeInv /\ [CoordNext]_vars => TreeInv'
<1> SUFFICES ASSUME CoordInv, TreeInv, [CoordNext]_vars PROVE TreeInv'
  OBVIOUS
<1>1. CASE UNCHANGED vars
  BY <1>1, TreeUntouched DEF vars
<1>2. ASSUME NEW b \in Blocks, Publish(b) PROVE TreeInv'
  BY <1>2, TreeUntouched DEF Publish
<1>3. ASSUME NEW s \in Sessions,
             \/ PollTick(s) \/ \E c \in public : PollAnswer(s, c)
             \/ \E b \in Own : Solve(s, b)
             \/ Exhaust(s) \/ RetryFires(s) \/ Abort(s)
             \/ \E confirmed \in BOOLEAN : Broadcast(s, confirmed)
      PROVE  TreeInv'
  <2>1. sess[1].pc = "sync" => sess'[1].pc = "sync"
    BY <1>3, SyncStays
  <2>2. UNCHANGED chainVars
    BY <1>3 DEF PollTick, PollAnswer, Solve, Exhaust, RetryFires, Abort, Broadcast
  <2> QED
    BY <2>1, <2>2, TreeUntouched
<1> QED
  BY <1>1, <1>2, <1>3, TreeSyncStep, TreeSyncEnd, TreeAdopt DEF CoordNext

THEOREM TreeInvHolds == CoordSpec => []TreeInv
<1>1. CoordInit /\ CoordInv => TreeInv
  BY TreeStarts
<1> QED
  BY <1>1, TreeStep, CoordInvHolds, PTL DEF CoordSpec

(* "every path that materializes state also retires it": once a session is not
   in the middle of an op, no state is left below the window of the chain it
   mines on, whatever catch-ups, reorgs, resets and adopted solves came before. *)
THEOREM StatesAreRetired == CoordSpec => []StatesRetired
<1>1. TreeInv => StatesRetired
  <2> SUFFICES ASSUME TreeInv, \A s \in Sessions : Idle(sess[s])
               PROVE  \A b \in Canonical \intersect materialised :
                        Height[b] <= 1 \/ b = tip \/ Height[b] >= Height[tip] - Retain
    BY DEF StatesRetired
  <2>1. sess[1].pc # "sync"
    BY FirstSession DEF Idle
  <2> QED
    BY <2>1 DEF TreeInv, Retired, Canonical
<1> QED
  BY <1>1, TreeInvHolds, PTL

(* The session's ops keep the tree sound, the adoption that writes it past
   Blockchain's own actions included. *)
THEOREM CoordKeepsTreeSound == CoordSpec => [](TreeSound /\ PrunedIsPrefix)
<1>1. TreeInv => TreeSound /\ PrunedIsPrefix
  BY DEF TreeInv, IInv, TreeSound, PruneInv
<1> QED
  BY <1>1, TreeInvHolds, PTL
-----------------------------------------------------------------------------
(* A process with any number of sessions, one after the other on one chain. An op
   that a session had in flight when it was torn down goes on under the next one,
   so neither the tip a submit began with nor the parent it looked up need be
   there when it ends. *)

(* The work of a branch is that of its blocks, whoever adds them. *)
Weighs(W) ==
  /\ W \in [Blocks -> Nat] /\ W[Genesis] = BlockWork[Genesis]
  /\ \A b \in Blocks :
       Height[b] = Height[Parent[b]] + 1 => W[b] = W[Parent[b]] + BlockWork[b]

BranchWork == CHOOSE W : Weighs(W)

LEMMA BranchesWeigh == Weighs(BranchWork)
<1> DEFINE S == [Blocks -> Nat]
           x == [b \in Blocks |-> BlockWork[Genesis]]
           next(f) == [b \in Blocks |-> f[Parent[b]] + BlockWork[b]]
           step == [q \in Nat \X S |-> next(q[2])]
<1>1. x \in S /\ BlockWork \in [Blocks -> Nat] /\ Parent \in [Blocks -> Blocks]
  BY BlockchainAssumption
<1>2. \A f \in S : next(f) \in S
  BY <1>1
<1> HIDE DEF x, next, S
<1>3. step \in [Nat \X S -> S]
  BY <1>2
<1>4. PICK F \in [Nat -> S] : F[0] = x /\ \A i \in Nat \ {0} : F[i] = step[<<i, F[i-1]>>]
  <2> HIDE DEF step
  <2>1. Recursion(S, x, step) # {}
    BY <1>1, <1>3, NatRecursion
  <2> QED
    BY <2>1 DEF Recursion
<1>5. \A n \in Nat : F[n + 1] = next(F[n])
  <2> SUFFICES ASSUME NEW n \in Nat PROVE F[n + 1] = next(F[n])
    OBVIOUS
  <2>1. n + 1 \in Nat \ {0} /\ (n + 1) - 1 = n /\ <<n + 1, F[n]>> \in Nat \X S
    BY <1>4
  <2>2. F[n + 1] = step[<<n + 1, F[n]>>]
    BY <1>4, <2>1
  <2> QED
    BY <2>1, <2>2
<1> DEFINE W == [b \in Blocks |-> F[Height[b]][b]]
<1>6. W \in [Blocks -> Nat] /\ W[Genesis] = BlockWork[Genesis]
  <2>1. \A b \in Blocks : F[Height[b]] \in S
    BY <1>4, BlockchainAssumption
  <2>2. \A b \in Blocks : F[Height[b]][b] \in Nat
    BY <2>1 DEF S
  <2>3. Genesis \in Blocks /\ Height[Genesis] = 0
    BY BlockchainAssumption
  <2> QED
    BY <1>4, <2>2, <2>3 DEF x
<1>7. ASSUME NEW b \in Blocks, Height[b] = Height[Parent[b]] + 1
      PROVE  W[b] = W[Parent[b]] + BlockWork[b]
  <2>1. Parent[b] \in Blocks /\ Height[Parent[b]] \in Nat
    BY BlockchainAssumption
  <2>2. F[Height[b]] = next(F[Height[Parent[b]]])
    BY <1>5, <1>7, <2>1
  <2>3. F[Height[b]][b] = F[Height[Parent[b]]][Parent[b]] + BlockWork[b]
    BY <2>2 DEF next
  <2> QED
    BY <2>1, <2>3
<1> HIDE DEF W
<1>8. Weighs(W)
  BY <1>6, <1>7 DEF Weighs
<1> QED
  BY <1>8 DEF BranchWork

Weighed == \A b \in stored : work[b] = BranchWork[b]

ChainOK ==
  /\ ChainInv /\ ~restoring
  /\ Weighed /\ HeaviestTip /\ TipExtendable

(* What of a session does not depend on the chain. *)
Quiet(r) ==
  /\ r.phase \in {"off", "boot"} =>
       Idle(r) /\ ~r.polling /\ r.grind = "off" /\ ~r.retry /\ r.pending = None
  /\ r.phase = "done" => r.grind = "off" /\ ~r.retry /\ r.pending = None
  /\ r.grind = "on" => r.pending = None /\ ~Submitting(r)
  /\ r.pending # None => r.pc = "sync" /\ Parent[r.pending] = r.current
  /\ Submitting(r) <=> r.send # None

(* The block a submit is about to adopt, with the work of the parent it found. *)
Carries(r) ==
  r.parentWork > 0 =>
    /\ r.send # None /\ r.send \in public
    /\ r.parentWork = BranchWork[Parent[r.send]]

(* A session begins when the one before it has been torn down. *)
InTurn ==
  \A s, t \in Sessions : t < s /\ sess[s].phase # "off" => sess[t].phase = "done"

ProcessInv ==
  /\ ChainOK /\ sess \in [Sessions -> Session] /\ InTurn
  /\ \A s \in Sessions : Quiet(sess[s]) /\ Carries(sess[s])

-----------------------------------------------------------------------------
(* The chain. *)

LEMMA WorkOfStored ==
  ASSUME ChainOK
  PROVE  /\ \A b \in stored : b \in Blocks /\ work[b] \in Nat /\ work[b] = BranchWork[b]
         /\ BranchWork \in [Blocks -> Nat]
         /\ \A b \in stored : work[b] <= work[tip]
         /\ tip \in stored /\ Genesis \in stored
BY BranchesWeigh DEF ChainOK, ChainInv, TypeOK, Weighed, Weighs, HeaviestTip, TipExtendable

(* A block that attaches goes in with the work of its branch, and becomes the tip
   if that outweighs it, whether the parent is still held or not. *)
LEMMA Enters ==
  ASSUME ChainOK, NEW b \in public, Height[b] = Height[Parent[b]] + 1,
         stored' = stored \union {b}, work' = [work EXCEPT ![b] = BranchWork[b]],
         tip' = IF BranchWork[b] > work[tip] THEN b ELSE tip,
         materialised' \subseteq stored',
         Genesis \in materialised', tip' \in materialised',
         UNCHANGED <<restoring, public, solved>>
  PROVE  /\ ChainOK'
         /\ tip' # tip => work'[tip'] > work[tip]
<1>1. b \in Blocks /\ BranchWork[b] \in Nat /\ work \in [Blocks -> Nat]
  BY WorkOfStored DEF ChainOK, ChainInv, TypeOK
<1>2. /\ work' \in [Blocks -> Nat] /\ work'[b] = BranchWork[b]
      /\ \A c \in stored : work'[c] = work[c]
  BY <1>1, WorkOfStored
<1>3. ChainInv'
  BY <1>1, <1>2 DEF ChainOK, ChainInv, TypeOK, NoPrivateFork
<1>4. Weighed'
  BY <1>2, WorkOfStored DEF Weighed
<1>5. HeaviestTip' /\ (tip' # tip => work'[tip'] > work[tip])
  <2>1. \A c \in stored : work[c] \in Nat /\ work[c] <= work[tip]
    BY WorkOfStored
  <2>2. tip \in stored
    BY WorkOfStored
  <2>3. CASE BranchWork[b] > work[tip]
    BY <1>1, <1>2, <2>1, <2>2, <2>3 DEF HeaviestTip
  <2>4. CASE ~(BranchWork[b] > work[tip])
    BY <1>1, <1>2, <2>1, <2>2, <2>4 DEF HeaviestTip
  <2> QED
    BY <2>3, <2>4
<1>6. TipExtendable' /\ ~restoring'
  BY DEF ChainOK, TipExtendable
<1> QED
  BY <1>3, <1>4, <1>5, <1>6 DEF ChainOK

LEMMA StartsOver ==
  ASSUME ChainOK, ToGenesis, UNCHANGED <<restoring, public, solved>>
  PROVE  ChainOK' /\ stored' = {Genesis}
<1>1. TypeOK' /\ NoPrivateFork' /\ stored' = {Genesis}
  BY BlockchainAssumption, MinerCoordinatorAssumption
  DEF ChainOK, ChainInv, ToGenesis, TypeOK, NoPrivateFork
<1>3. HeaviestTip' /\ TipExtendable'
  BY BlockchainAssumption DEF ToGenesis, HeaviestTip, TipExtendable
<1>2. Weighed'
  BY BranchesWeigh, BlockchainAssumption DEF ToGenesis, Weighed, Weighs
<1> QED
  BY <1>1, <1>2, <1>3 DEF ChainOK, ChainInv

(* A prune spares the tip and genesis. *)
LEMMA Spares ==
  ASSUME NEW t, NEW states
  PROVE  /\ Unburied(t, states) \subseteq states
         /\ t \in states => t \in Unburied(t, states)
         /\ Genesis \in states => Genesis \in Unburied(t, states)
<1>1. \A m : t \notin Buried(t, states, m) /\ Genesis \notin Buried(t, states, m)
  BY BlockchainAssumption DEF Buried
<1> QED
  BY <1>1 DEF Unburied

LEMMA Pruned ==
  ASSUME ChainOK, PruneStates, UNCHANGED <<public, solved>>
  PROVE  ChainOK' /\ tip' = tip
<1>1. /\ UNCHANGED <<stored, work, tip, restoring>>
      /\ materialised' = Unburied(tip, materialised)
  BY DEF PruneStates, StripBuried
<1>2. TypeOK' /\ TipExtendable'
  BY <1>1, Spares DEF ChainOK, ChainInv, TypeOK, TipExtendable
<1> QED
  BY <1>1, <1>2 DEF ChainOK, ChainInv, NoPrivateFork, Weighed, HeaviestTip

LEMMA ChainStays ==
  ASSUME ChainOK, UNCHANGED <<chainVars, solved>>, public \subseteq public',
         public' \subseteq Blocks
  PROVE  ChainOK' /\ tip' = tip
BY DEF ChainOK, ChainInv, chainVars, TypeOK, NoPrivateFork, Weighed, HeaviestTip,
       TipExtendable

-----------------------------------------------------------------------------
(* What the parts of the handlers leave, on whatever tip they find. *)

Leaves(r, d) ==
  d \in Session /\ Quiet(d) /\ d.phase = r.phase /\ d.parentWork = 0

(* A rebuild of a session with nothing under way. *)
LEMMA RebuildLeaves ==
  ASSUME NEW r \in Session, NEW t \in Blocks, Idle(r), Quiet(r), r.parentWork = 0,
         r.phase \in {"run", "done"}, NEW d \in Rebuilt(r, t)
  PROVE  Leaves(r, d)
<1>1. r.pending = None /\ r.send = None /\ r.pc = "idle"
  BY DEF Quiet, Idle, Submitting
<1>2. CASE d = r
  BY <1>2 DEF Leaves
<1>3. CASE r.phase = "run" /\ d = [r EXCEPT !.current = t, !.grind = "on", !.retry = FALSE]
  <2>1. d \in Session
    BY <1>3, Typed
  <2>2. /\ d.phase = "run" /\ d.pc = "idle" /\ d.pending = None
        /\ d.send = None /\ d.parentWork = 0
    BY <1>1, <1>3 DEF Session
  <2> QED
    BY <1>3, <2>1, <2>2 DEF Leaves, Quiet, Submitting
<1>4. ASSUME r.phase = "run", NEW c \in {r.current, t},
             d = [r EXCEPT !.current = c, !.grind = "off", !.retry = TRUE]
      PROVE  Leaves(r, d)
  <2>1. c \in Blocks \union {None}
    BY DEF Session
  <2>2. d \in Session
    BY <1>4, <2>1, Typed
  <2>3. /\ d.phase = "run" /\ d.pc = "idle" /\ d.pending = None
        /\ d.send = None /\ d.parentWork = 0 /\ d.grind = "off"
    BY <1>1, <1>4 DEF Session
  <2> QED
    BY <1>4, <2>2, <2>3 DEF Leaves, Quiet, Submitting
<1> QED
  BY <1>2, <1>3, <1>4 DEF Rebuilt

(* A drain ends the op or begins the next submit; what was queued is gone. *)
LEMMA DrainLeaves ==
  ASSUME NEW r \in Session, NEW t, r.send = None, r.parentWork = 0,
         r.phase \in {"run", "done"}, r.phase = "done" => r.grind = "off" /\ ~r.retry
  PROVE  Leaves(r, Drained(r, t))
<1> DEFINE d == Drained(r, t)
<1>1. CASE r.pending # None /\ r.phase # "done" /\ Parent[r.pending] = t
  <2>1. d = [r EXCEPT !.pc = "drain", !.grind = "off", !.send = r.pending, !.pending = None]
    BY <1>1 DEF Drained
  <2> HIDE DEF d
  <2>2. /\ d \in Session /\ d.phase = r.phase /\ d.pc = "drain" /\ d.grind = "off"
        /\ d.pending = None /\ d.send = r.pending /\ d.parentWork = 0
    BY <2>1 DEF Session
  <2>3. Leaves(r, d)
    BY <1>1, <2>2 DEF Leaves, Quiet, Submitting
  <2> QED
    BY <2>3 DEF d
<1>2. CASE ~(r.pending # None /\ r.phase # "done" /\ Parent[r.pending] = t)
  <2>1. d = [r EXCEPT !.pc = "idle", !.pending = None]
    BY <1>2 DEF Drained
  <2> HIDE DEF d
  <2>2. /\ d \in Session /\ d.phase = r.phase /\ d.pc = "idle" /\ d.grind = r.grind
        /\ d.pending = None /\ d.send = None /\ d.parentWork = 0 /\ d.retry = r.retry
    BY <2>1 DEF Session
  <2>3. Leaves(r, d)
    BY <2>2 DEF Leaves, Quiet, Submitting
  <2> QED
    BY <2>3 DEF d
<1> QED
  BY <1>1, <1>2

LEMMA SubmitLeaves ==
  ASSUME NEW r \in Session, NEW t \in Blocks, Quiet(r), r.send # None,
         NEW d \in SubmitEnded(r, t)
  PROVE  Leaves(r, d)
<1> DEFINE q == [r EXCEPT !.send = None, !.tries = 0, !.parentWork = 0]
           e == [q EXCEPT !.pc = "idle", !.pending = None]
           f == [q EXCEPT !.pc = "idle"]
<1>1. 0 \in 0 .. MaxAttempts - 1
  BY MinerCoordinatorAssumption
<1>2. /\ q \in Session /\ q.phase = r.phase /\ q.pc = r.pc /\ q.grind = r.grind
      /\ q.pending = r.pending /\ q.send = None /\ q.parentWork = 0 /\ q.retry = r.retry
  BY <1>1 DEF Session
<1>3. /\ r.phase \in {"run", "done"} /\ r.pending = None /\ r.grind # "on"
      /\ r.phase = "done" => r.grind = "off" /\ ~r.retry
  BY DEF Quiet, Submitting, Idle, Session
<1>4. d \in (LET c == IF q.pc = "solve" THEN Drained(q, t) ELSE f
             IN IF Idle(c) THEN Rebuilt(c, t) ELSE {c})
  BY <1>2 DEF SubmitEnded
<1>5. Drained(q, t) = e
  BY <1>2, <1>3 DEF Drained
<1> HIDE DEF q
<1>6. /\ e \in Session /\ e.phase = q.phase /\ e.pc = "idle" /\ e.grind = q.grind
      /\ e.pending = None /\ e.send = None /\ e.parentWork = 0 /\ e.retry = q.retry
  BY <1>2 DEF Session
<1>7. /\ f \in Session /\ f.phase = q.phase /\ f.pc = "idle" /\ f.grind = q.grind
      /\ f.pending = None /\ f.send = None /\ f.parentWork = 0 /\ f.retry = q.retry
  BY <1>2, <1>3 DEF Session
<1> HIDE DEF e, f
<1>8. Idle(e) /\ Idle(f) /\ Quiet(e) /\ Quiet(f)
  BY <1>2, <1>3, <1>6, <1>7 DEF Quiet, Submitting, Idle
<1>9. d \in Rebuilt(e, t) \/ d \in Rebuilt(f, t)
  BY <1>4, <1>5, <1>8
<1>10. Leaves(e, d) \/ Leaves(f, d)
  BY <1>2, <1>3, <1>6, <1>7, <1>8, <1>9, RebuildLeaves
<1> QED
  BY <1>2, <1>6, <1>7, <1>10 DEF Leaves

LEMMA SyncLeaves ==
  ASSUME NEW r \in Session, NEW t \in Blocks, Quiet(r), r.send = None, r.parentWork = 0,
         r.phase \in {"run", "done"},
         NEW answer \in {"changed", "unchanged", "failed"},
         NEW d \in SyncEnded(r, t, answer)
  PROVE  Leaves(r, d)
<1> DEFINE q == [r EXCEPT !.result = answer, !.polling = FALSE]
<1>0. q \in Session
  BY Typed
<1>1. /\ q \in Session /\ q.phase = r.phase /\ q.grind = r.grind /\ q.pending = r.pending
      /\ q.send = None /\ q.parentWork = 0 /\ q.retry = r.retry
  BY <1>0 DEF Session
<1>2. q.phase = "done" => q.grind = "off" /\ ~q.retry
  BY <1>1 DEF Quiet
<1>3. CASE answer = "changed"
  <2> DEFINE p == [q EXCEPT !.grind = "off"]
  <2>1. PICK c \in Rebuilt(p, t) : d = Drained(c, t)
    BY <1>3 DEF SyncEnded
  <2> HIDE DEF q
  <2>2. /\ p \in Session /\ p.phase = q.phase /\ p.send = None /\ p.parentWork = 0
        /\ p.grind = "off" /\ p.retry = q.retry
    BY <1>1 DEF Session
  <2> HIDE DEF p
  <2>3. /\ c \in Session /\ c.phase = p.phase /\ c.send = None /\ c.parentWork = 0
        /\ c.phase = "done" => c.grind = "off" /\ ~c.retry
    <3>1. CASE c = p
      BY <1>1, <1>2, <2>2, <3>1
    <3>2. ASSUME NEW x \in {p.current, t}, p.phase # "done",
                 \/ c = [p EXCEPT !.current = t, !.grind = "on", !.retry = FALSE]
                 \/ c = [p EXCEPT !.current = x, !.grind = "off", !.retry = TRUE]
          PROVE  c \in Session /\ c.phase = p.phase /\ c.send = None /\ c.parentWork = 0
      <4>1. x \in Blocks \union {None}
        BY <2>2 DEF Session
      <4>2. c \in Session
        BY <2>2, <3>2, <4>1, Typed
      <4>3. c.phase = p.phase /\ c.send = None /\ c.parentWork = 0
        BY <2>2, <3>2 DEF Session
      <4> QED
        BY <4>2, <4>3
    <3> QED
      BY <2>2, <3>1, <3>2 DEF Rebuilt
  <2> QED
    BY <1>1, <2>1, <2>2, <2>3, DrainLeaves DEF Leaves
<1>4. CASE answer = "unchanged"
  <2>1. d = Drained(q, t)
    BY <1>4 DEF SyncEnded
  <2> QED
    BY <1>1, <1>2, <2>1, DrainLeaves DEF Leaves
<1>5. CASE answer = "failed"
  <2>1. d = [q EXCEPT !.pc = "idle", !.pending = None, !.grind = "off"]
    BY <1>5 DEF SyncEnded, Failed
  <2> HIDE DEF q
  <2>2. d \in Session
    BY <1>1, <2>1, Typed
  <2>3. /\ d.phase = q.phase /\ d.pc = "idle" /\ d.grind = "off"
        /\ d.pending = None /\ d.send = None /\ d.parentWork = 0 /\ d.retry = q.retry
    BY <1>1, <2>1 DEF Session
  <2> QED
    BY <1>1, <1>2, <2>2, <2>3 DEF Leaves, Quiet, Submitting
<1> QED
  BY <1>3, <1>4, <1>5

-----------------------------------------------------------------------------
(* The steps. *)

Heavier == tip' # tip => (work'[tip'] > work[tip] \/ stored' = {Genesis})

Holds == ProcessInv' /\ Heavier

(* A session's record after a step, its phase going forward only. *)
LEMMA Moves ==
  ASSUME ProcessInv, ChainOK', public \subseteq public', NEW s \in Sessions,
         NEW r \in Session, Quiet(r), Carries(r)', sess' = [sess EXCEPT ![s] = r],
         <<sess[s].phase, r.phase>> \in
           {<<p, p>> : p \in {"off", "boot", "run", "done"}}
             \union {<<"run", "done">>, <<"boot", "run">>}
  PROVE  ProcessInv'
<1>1. /\ sess \in [Sessions -> Session] /\ sess' \in [Sessions -> Session]
      /\ sess'[s] = r /\ \A t \in Sessions \ {s} : sess'[t] = sess[t]
  BY DEF ProcessInv
<1>2. ASSUME NEW t \in Sessions PROVE (Quiet(sess[t]) /\ Carries(sess[t]))'
  <2>1. CASE t = s
    BY <1>1, <2>1 DEF Carries
  <2>2. CASE t # s
    <3>1. Quiet(sess[t]) /\ Carries(sess[t]) /\ sess'[t] = sess[t]
      BY <1>1, <2>2 DEF ProcessInv
    <3> QED
      BY <3>1 DEF Carries
  <2> QED
    BY <2>1, <2>2
<1>3. InTurn'
  <2> SUFFICES ASSUME NEW t \in Sessions, NEW u \in Sessions, u < t,
                      sess'[t].phase # "off"
               PROVE  sess'[u].phase = "done"
    BY DEF InTurn
  <2>1. sess[t].phase # "off"
    BY <1>1
  <2>2. sess[u].phase = "done"
    BY <2>1 DEF ProcessInv, InTurn
  <2> QED
    BY <1>1, <2>2
<1> QED
  BY <1>1, <1>2, <1>3 DEF ProcessInv

LEMMA Handled ==
  ASSUME ProcessInv, ChainOK', public \subseteq public', NEW s \in Sessions,
         NEW d, Leaves(sess[s], d), sess' = [sess EXCEPT ![s] = d]
  PROVE  ProcessInv'
<1>1. Carries(d)'
  BY DEF Leaves, Carries
<1>2. d.phase = sess[s].phase /\ d \in Session /\ Quiet(d)
  BY DEF Leaves
<1>3. sess[s].phase \in {"off", "boot", "run", "done"}
  BY DEF ProcessInv, Session
<1> QED
  BY <1>1, <1>2, <1>3, Moves

(* A record changed in what Quiet does not forbid, with the chain as it is. *)
LEMMA Noted ==
  ASSUME ProcessInv, UNCHANGED <<chainVars, public>>, solved' \subseteq Own,
         NEW s \in Sessions, NEW r \in Session, Quiet(r), Carries(r),
         sess' = [sess EXCEPT ![s] = r],
         <<sess[s].phase, r.phase>> \in
           {<<p, p>> : p \in {"off", "boot", "run", "done"}}
             \union {<<"run", "done">>, <<"boot", "run">>}
  PROVE  Holds
<1>1. ChainOK' /\ tip' = tip
  BY DEF ProcessInv, ChainOK, ChainInv, chainVars, TypeOK, NoPrivateFork, Weighed,
         HeaviestTip, TipExtendable
<1>2. Carries(r)'
  BY DEF Carries
<1> QED
  BY <1>1, <1>2, Moves DEF Holds, Heavier

LEMMA RecordOf ==
  ASSUME ProcessInv, NEW s \in Sessions
  PROVE  /\ sess[s] \in Session /\ Quiet(sess[s]) /\ Carries(sess[s])
         /\ tip \in Blocks /\ ChainOK
BY DEF ProcessInv, ChainOK, ChainInv, TypeOK

LEMMA SyncSteps ==
  ASSUME ProcessInv, NEW s \in Sessions, SyncStep(s)
  PROVE  Holds
<1>1. UNCHANGED <<public, solved, sess>> /\ ChainOK
  BY DEF SyncStep, ProcessInv
<1>2. ChainOK' /\ Heavier
  <2>1. ASSUME NEW b \in public, AcceptBlock(b) PROVE ChainOK' /\ Heavier
    <3>1. /\ b \in Blocks /\ Parent[b] \in stored /\ Height[b] = Height[Parent[b]] + 1
          /\ UNCHANGED restoring
      BY <1>1, <2>1
      DEF ChainOK, ChainInv, AcceptBlock, PassesHeaderChecks, Attaches
    <3>2. work[Parent[b]] + BlockWork[b] = BranchWork[b]
      BY <1>1, <3>1, WorkOfStored, BranchesWeigh DEF Weighs
    <3>3. /\ stored' = stored \union {b} /\ work' = [work EXCEPT ![b] = BranchWork[b]]
          /\ tip' = IF BranchWork[b] > work[tip] THEN b ELSE tip
          /\ materialised' = materialised \union {b}
      BY <2>1, <3>2 DEF AcceptBlock, Insert, ChooseTip
    <3>4. /\ materialised' \subseteq stored' /\ b \in materialised'
          /\ Genesis \in materialised' /\ tip' \in materialised'
      BY <1>1, <3>3 DEF ChainOK, ChainInv, TypeOK, TipExtendable
    <3> QED
      BY <1>1, <3>1, <3>3, <3>4, Enters DEF Heavier
  <2>2. ASSUME NEW b \in public, HitPrunedParent(b) PROVE ChainOK' /\ Heavier
    BY <1>1, <2>2, StartsOver DEF HitPrunedParent, Heavier
  <2>3. CASE PruneStates
    BY <1>1, <2>3, Pruned DEF Heavier
  <2> QED
    BY <2>1, <2>2, <2>3 DEF SyncStep
<1>3. InTurn' /\ sess' \in [Sessions -> Session]
  BY <1>1 DEF ProcessInv, InTurn
<1>4. \A t \in Sessions : (Quiet(sess[t]) /\ Carries(sess[t]))'
  BY <1>1 DEF ProcessInv, Carries
<1> QED
  BY <1>2, <1>3, <1>4 DEF Holds, ProcessInv

LEMMA PollTicks ==
  ASSUME ProcessInv, NEW s \in Sessions, PollTick(s)
  PROVE  Holds
<1> DEFINE q == sess[s]
           r == [q EXCEPT !.polling = TRUE]
<1>1. q \in Session /\ Quiet(q) /\ Carries(q) /\ q.phase = "run"
  BY RecordOf DEF PollTick
<1>2. r \in Session
  BY <1>1 DEF Session
<1>3. /\ r.phase = "run" /\ r.pc = q.pc /\ r.grind = q.grind /\ r.pending = q.pending
      /\ r.current = q.current /\ r.send = q.send /\ r.parentWork = q.parentWork
  BY <1>1 DEF Session
<1>4. sess' = [sess EXCEPT ![s] = r] /\ UNCHANGED <<chainVars, public, solved>>
  BY DEF PollTick
<1>5. solved' \subseteq Own
  BY <1>4 DEF ProcessInv, ChainOK, ChainInv
<1> HIDE DEF r
<1>6. Quiet(r) /\ Carries(r)
  BY <1>1, <1>3 DEF Quiet, Carries, Submitting
<1> QED
  BY <1>1, <1>2, <1>3, <1>4, <1>5, <1>6, Noted

LEMMA PollAnswers ==
  ASSUME ProcessInv, NEW s \in Sessions, NEW c \in public, PollAnswer(s, c)
  PROVE  Holds
<1> DEFINE q == sess[s]
           r == [q EXCEPT !.polling = FALSE]
           e == [r EXCEPT !.pc = "sync", !.polling = TRUE, !.entry = tip]
<1>1. q \in Session /\ Quiet(q) /\ Carries(q) /\ q.phase \in {"run", "done"} /\ tip \in Blocks
  BY RecordOf DEF PollAnswer, Quiet, Session
<1>2. r \in Session
  BY <1>1 DEF Session
<1>3. /\ r.phase = q.phase /\ r.pc = q.pc /\ r.grind = q.grind /\ r.pending = q.pending
      /\ r.current = q.current /\ r.send = q.send /\ r.parentWork = q.parentWork
      /\ r.retry = q.retry
  BY <1>1 DEF Session
<1>4. /\ UNCHANGED <<chainVars, public, solved>>
      /\ \/ sess' = [sess EXCEPT ![s] = r]
         \/ Idle(r) /\ \E d \in SyncEnded(r, tip, "unchanged") :
              sess' = [sess EXCEPT ![s] = d]
         \/ Idle(r) /\ sess' = [sess EXCEPT ![s] = e]
  BY DEF PollAnswer, Becomes
<1>5. solved' \subseteq Own
  BY <1>4 DEF ProcessInv, ChainOK, ChainInv
<1> HIDE DEF r
<1>6. Quiet(r) /\ Carries(r)
  BY <1>1, <1>3 DEF Quiet, Carries, Submitting
<1>7. CASE sess' = [sess EXCEPT ![s] = r]
  BY <1>1, <1>2, <1>3, <1>4, <1>5, <1>6, <1>7, Noted
<1>8. ASSUME Idle(r), NEW d \in SyncEnded(r, tip, "unchanged"),
             sess' = [sess EXCEPT ![s] = d]
      PROVE  Holds
  <2>1. r.send = None /\ r.parentWork = 0
    BY <1>2, <1>6, <1>8 DEF Quiet, Carries, Submitting, Idle, Session
  <2>2. Leaves(r, d)
    BY <1>1, <1>2, <1>3, <1>6, <1>8, <2>1, SyncLeaves
  <2>3. Leaves(sess[s], d)
    BY <1>3, <2>2 DEF Leaves
  <2>4. ChainOK' /\ tip' = tip
    BY <1>4, ChainStays DEF ProcessInv, ChainOK, ChainInv
  <2> QED
    BY <1>4, <1>8, <2>3, <2>4, Handled DEF Holds, Heavier
<1>9. CASE Idle(r) /\ sess' = [sess EXCEPT ![s] = e]
  <2>1. e \in Session
    BY <1>1, <1>2 DEF Session
  <2>2. /\ e.phase = r.phase /\ e.pc = "sync" /\ e.grind = r.grind
        /\ e.pending = r.pending /\ e.current = r.current /\ e.send = r.send
        /\ e.parentWork = r.parentWork /\ e.retry = r.retry
    BY <1>2 DEF Session
  <2> HIDE DEF e
  <2>3. Quiet(e) /\ Carries(e)
    BY <1>1, <1>3, <1>6, <1>9, <2>2 DEF Quiet, Carries, Submitting, Idle
  <2> QED
    BY <1>1, <1>3, <1>4, <1>5, <1>9, <2>1, <2>2, <2>3, Noted
<1> QED
  BY <1>4, <1>7, <1>8, <1>9

LEMMA SyncEnds ==
  ASSUME ProcessInv, NEW s \in Sessions, NEW answer \in {"changed", "unchanged", "failed"},
         SyncEnd(s, answer)
  PROVE  Holds
<1> DEFINE q == sess[s]
<1>1. /\ q \in Session /\ Quiet(q) /\ Carries(q) /\ q.pc = "sync" /\ tip \in Blocks
      /\ PruneStates /\ UNCHANGED <<public, solved>> /\ ChainOK
  BY RecordOf DEF SyncEnd
<1>2. q.phase \in {"run", "done"} /\ q.send = None /\ q.parentWork = 0
  BY <1>1 DEF Quiet, Carries, Submitting, Idle, Session
<1>3. PICK d \in SyncEnded(q, tip, answer) :
        sess' = [sess EXCEPT ![s] = [d EXCEPT !.entry = None]]
  BY DEF SyncEnd, Becomes
<1> HIDE DEF q
<1>4. Leaves(q, d)
  BY <1>1, <1>2, <1>3, SyncLeaves
<1> DEFINE e == [d EXCEPT !.entry = None]
<1>5. /\ e \in Session /\ e.phase = d.phase /\ e.pc = d.pc /\ e.grind = d.grind
      /\ e.pending = d.pending /\ e.current = d.current /\ e.send = d.send
      /\ e.parentWork = d.parentWork /\ e.retry = d.retry /\ e.polling = d.polling
  BY <1>4 DEF Leaves, Session
<1>6. sess' = [sess EXCEPT ![s] = e]
  BY <1>3
<1> HIDE DEF e
<1>7. Leaves(q, e)
  BY <1>4, <1>5 DEF Leaves, Quiet, Submitting, Idle
<1>8. ChainOK' /\ tip' = tip
  BY <1>1, Pruned
<1> QED
  BY <1>1, <1>6, <1>7, <1>8, Handled DEF Holds, Heavier, q

LEMMA Solves ==
  ASSUME ProcessInv, NEW s \in Sessions, NEW b \in Own, Solve(s, b)
  PROVE  Holds
<1> DEFINE q == sess[s]
           r == [q EXCEPT !.pc = "solve", !.send = b, !.grind = "off"]
           e == [q EXCEPT !.pending = b, !.grind = "solved"]
<1>1. /\ q \in Session /\ Quiet(q) /\ Carries(q)
      /\ q.grind = "on" /\ Parent[b] = q.current
      /\ UNCHANGED <<chainVars, public>> /\ solved' = solved \union {b}
      /\ sess' = [sess EXCEPT ![s] = IF Idle(q) THEN r ELSE e]
  BY RecordOf DEF Solve
<1>2. /\ q.phase = "run" /\ q.pending = None /\ q.send = None /\ q.parentWork = 0
      /\ q.pc \in {"idle", "sync"} /\ b # None
  BY <1>1, MinerCoordinatorAssumption DEF Quiet, Carries, Submitting, Idle, Session
<1>3. solved' \subseteq Own
  BY <1>1 DEF ProcessInv, ChainOK, ChainInv
<1>4. CASE Idle(q)
  <2>1. /\ r \in Session /\ r.phase = "run" /\ r.pc = "solve" /\ r.grind = "off"
        /\ r.pending = None /\ r.send = b /\ r.parentWork = 0
    BY <1>1, <1>2 DEF Session
  <2>2. sess' = [sess EXCEPT ![s] = r]
    BY <1>1, <1>4
  <2> HIDE DEF r, q
  <2>3. Quiet(r) /\ Carries(r)
    BY <1>2, <2>1 DEF Quiet, Carries, Submitting, Idle
  <2> QED
    BY <1>1, <1>2, <1>3, <2>1, <2>2, <2>3, Noted DEF q
<1>5. CASE ~Idle(q)
  <2>1. /\ e \in Session /\ e.phase = "run" /\ e.pc = "sync" /\ e.grind = "solved"
        /\ e.pending = b /\ e.send = None /\ e.parentWork = 0 /\ e.current = q.current
    BY <1>1, <1>2, <1>5 DEF Session, Idle
  <2>2. sess' = [sess EXCEPT ![s] = e]
    BY <1>1, <1>5
  <2> HIDE DEF e, q
  <2>3. Quiet(e) /\ Carries(e)
    BY <1>1, <1>2, <2>1 DEF Quiet, Carries, Submitting, Idle
  <2> QED
    BY <1>1, <1>2, <1>3, <2>1, <2>2, <2>3, Noted DEF q
<1> QED
  BY <1>4, <1>5

LEMMA Exhausts ==
  ASSUME ProcessInv, NEW s \in Sessions, Exhaust(s)
  PROVE  Holds
<1> DEFINE q == sess[s]
           r == [q EXCEPT !.grind = IF @ = "on" THEN "exhausted" ELSE @]
<1>1. /\ q \in Session /\ Quiet(q) /\ Carries(q) /\ q.phase = "run" /\ tip \in Blocks
      /\ UNCHANGED <<chainVars, public, solved>>
      /\ Becomes(s, IF Idle(r) THEN Rebuilt(r, tip) ELSE {r})
  BY RecordOf DEF Exhaust
<1>2. /\ r \in Session /\ r.phase = "run" /\ r.pc = q.pc /\ r.pending = q.pending
      /\ r.current = q.current /\ r.send = q.send /\ r.parentWork = q.parentWork
      /\ r.grind # "on"
  BY <1>1 DEF Session
<1>3. solved' \subseteq Own
  BY <1>1 DEF ProcessInv, ChainOK, ChainInv
<1> HIDE DEF r
<1>4. Quiet(r) /\ Carries(r)
  BY <1>1, <1>2 DEF Quiet, Carries, Submitting, Idle
<1>5. CASE Idle(r)
  <2>1. PICK d \in Rebuilt(r, tip) : sess' = [sess EXCEPT ![s] = d]
    BY <1>1, <1>5 DEF Becomes
  <2>2. r.parentWork = 0
    BY <1>2, <1>4, <1>5 DEF Quiet, Carries, Submitting, Idle, Session
  <2>3. Leaves(q, d)
    BY <1>1, <1>2, <1>4, <1>5, <2>1, <2>2, RebuildLeaves DEF Leaves
  <2>4. ChainOK' /\ tip' = tip
    BY <1>1, ChainStays DEF ProcessInv, ChainOK, ChainInv
  <2> QED
    BY <1>1, <2>1, <2>3, <2>4, Handled DEF Holds, Heavier
<1>6. CASE ~Idle(r)
  <2>1. sess' = [sess EXCEPT ![s] = r]
    BY <1>1, <1>6 DEF Becomes
  <2> QED
    BY <1>1, <1>2, <1>3, <1>4, <2>1, Noted
<1> QED
  BY <1>5, <1>6

LEMMA Retries ==
  ASSUME ProcessInv, NEW s \in Sessions, RetryFires(s)
  PROVE  Holds
<1> DEFINE q == sess[s]
           r == [q EXCEPT !.retry = FALSE]
<1>1. /\ q \in Session /\ Quiet(q) /\ Carries(q) /\ q.retry /\ Idle(q) /\ tip \in Blocks
      /\ UNCHANGED <<chainVars, public, solved>>
  BY RecordOf DEF RetryFires
<1>2. PICK d \in Rebuilt(r, tip) : sess' = [sess EXCEPT ![s] = d]
  BY DEF RetryFires, Becomes
<1>3. /\ r \in Session /\ r.phase = q.phase /\ r.pc = "idle" /\ r.pending = q.pending
      /\ r.current = q.current /\ r.send = q.send /\ r.parentWork = q.parentWork
      /\ r.grind = q.grind
  BY <1>1 DEF Session, Idle
<1>4. q.phase = "run" /\ q.parentWork = 0
  BY <1>1 DEF Quiet, Carries, Submitting, Idle, Session
<1> HIDE DEF r
<1>5. Quiet(r) /\ Idle(r)
  BY <1>1, <1>3, <1>4 DEF Quiet, Submitting, Idle
<1>6. Leaves(q, d)
  BY <1>1, <1>2, <1>3, <1>4, <1>5, RebuildLeaves DEF Leaves
<1>7. ChainOK' /\ tip' = tip
  BY <1>1, ChainStays DEF ProcessInv, ChainOK, ChainInv
<1> QED
  BY <1>1, <1>2, <1>6, <1>7, Handled DEF Holds, Heavier

LEMMA Broadcasts ==
  ASSUME ProcessInv, NEW s \in Sessions, NEW confirmed \in BOOLEAN,
         Broadcast(s, confirmed)
  PROVE  Holds
<1> DEFINE q == sess[s]
           b == q.send
<1>1. /\ q \in Session /\ Quiet(q) /\ b # None /\ q.parentWork = 0 /\ tip \in Blocks
      /\ ChainOK /\ Posted(b, confirmed) /\ UNCHANGED <<chainVars, solved>>
  BY RecordOf DEF Broadcast
<1>2. b \in Own /\ b \in Blocks
  BY <1>1, MinerCoordinatorAssumption DEF Session
<1>3. /\ public \subseteq public' /\ public' \subseteq Blocks
      /\ confirmed => b \in public'
  BY <1>1, <1>2 DEF Posted, ChainOK, ChainInv
<1>4. ChainOK' /\ tip' = tip
  BY <1>1, <1>3, ChainStays
<1>5. \/ confirmed /\ Attaches(b) /\ \E d \in {[q EXCEPT !.parentWork = work[Parent[b]]]} :
           sess' = [sess EXCEPT ![s] = d]
      \/ \E d \in SubmitEnded(q, tip) : sess' = [sess EXCEPT ![s] = d]
      \/ ~LastRound(q) /\ \E d \in {[q EXCEPT !.tries = @ + 1]} :
           sess' = [sess EXCEPT ![s] = d]
  BY DEF Broadcast, Becomes
<1>6. q.phase \in {"run", "done"}
  BY <1>1 DEF Quiet, Submitting, Idle, Session
<1>7. ASSUME NEW d \in SubmitEnded(q, tip), sess' = [sess EXCEPT ![s] = d]
      PROVE  Holds
  <2>1. Leaves(q, d)
    BY <1>1, <1>7, SubmitLeaves
  <2> QED
    BY <1>3, <1>4, <1>7, <2>1, Handled DEF Holds, Heavier
<1>8. ASSUME confirmed, Attaches(b), NEW r, r = [q EXCEPT !.parentWork = work[Parent[b]]],
             sess' = [sess EXCEPT ![s] = r]
      PROVE  Holds
  <2>1. Parent[b] \in stored /\ work[Parent[b]] \in Nat
        /\ work[Parent[b]] = BranchWork[Parent[b]]
    BY <1>1, <1>8, WorkOfStored DEF Attaches
  <2>2. /\ r \in Session /\ r.phase = q.phase /\ r.pc = q.pc /\ r.grind = q.grind
        /\ r.pending = q.pending /\ r.current = q.current /\ r.send = b
        /\ r.parentWork = BranchWork[Parent[b]] /\ r.retry = q.retry
        /\ r.polling = q.polling
    BY <1>1, <1>8, <2>1 DEF Session
  <2>3. Quiet(r) /\ Carries(r)'
    BY <1>1, <1>3, <1>8, <2>2 DEF Quiet, Carries, Submitting, Idle
  <2> QED
    BY <1>3, <1>4, <1>6, <1>8, <2>2, <2>3, Moves DEF Holds, Heavier
<1>9. ASSUME ~LastRound(q), NEW e, e = [q EXCEPT !.tries = @ + 1],
             sess' = [sess EXCEPT ![s] = e]
      PROVE  Holds
  <2>1. q.tries + 1 \in 0 .. MaxAttempts - 1
    BY <1>1, <1>9, MinerCoordinatorAssumption DEF LastRound, Session
  <2>2. /\ e \in Session /\ e.phase = q.phase /\ e.pc = q.pc /\ e.grind = q.grind
        /\ e.pending = q.pending /\ e.current = q.current /\ e.send = b
        /\ e.parentWork = 0 /\ e.retry = q.retry /\ e.polling = q.polling
    BY <1>1, <1>9, <2>1 DEF Session
  <2>3. Quiet(e) /\ Carries(e)'
    BY <1>1, <2>2 DEF Quiet, Carries, Submitting, Idle
  <2> QED
    BY <1>3, <1>4, <1>6, <1>9, <2>2, <2>3, Moves DEF Holds, Heavier
<1> QED
  BY <1>5, <1>7, <1>8, <1>9

(* The block of an adoption goes on a parent that may have been stripped, buried
   or dropped since: it still carries the work of its whole branch. *)
LEMMA Adopts ==
  ASSUME ProcessInv, NEW s \in Sessions, Adopt(s)
  PROVE  Holds
<1> DEFINE q == sess[s]
           b == q.send
<1>1. /\ q \in Session /\ Quiet(q) /\ Carries(q) /\ b # None /\ q.parentWork > 0
      /\ ChainOK /\ UNCHANGED <<restoring, public, solved>>
  BY RecordOf DEF Adopt
<1>2. PICK d \in SubmitEnded(q, tip') : sess' = [sess EXCEPT ![s] = d]
  BY DEF Adopt, Becomes
<1>3. /\ b \in Own /\ b \in Blocks /\ Height[b] = Height[Parent[b]] + 1
      /\ b \in public /\ q.parentWork + BlockWork[b] = BranchWork[b]
  BY <1>1, BranchesWeigh, MinerCoordinatorAssumption DEF Session, Carries, Weighs
<1>4. ChainOK' /\ Heavier
  <2>1. CASE ToGenesis
    BY <1>1, <2>1, StartsOver DEF Heavier
  <2>2. CASE UNCHANGED <<stored, work, materialised, tip>>
    BY <1>1, <2>2, ChainStays DEF Heavier, chainVars, ChainOK, ChainInv
  <2>3. CASE /\ stored' = stored \union {b}
             /\ work' = [work EXCEPT ![b] = q.parentWork + BlockWork[b]]
             /\ tip' = IF work'[b] > work[tip] THEN b ELSE tip
             /\ materialised' = Unburied(tip', materialised \union {b})
    <3>1. /\ work \in [Blocks -> Nat] /\ materialised \subseteq stored
          /\ Genesis \in materialised /\ tip \in materialised
      BY <1>1 DEF ChainOK, ChainInv, TypeOK, TipExtendable
    <3>2. /\ work' = [work EXCEPT ![b] = BranchWork[b]]
          /\ tip' = IF BranchWork[b] > work[tip] THEN b ELSE tip
      BY <1>3, <2>3, <3>1
    <3>3. /\ materialised' \subseteq stored' /\ Genesis \in materialised'
          /\ tip' \in materialised'
      BY <2>3, <3>1, Spares
    <3> QED
      BY <1>1, <1>3, <2>3, <3>2, <3>3, Enters DEF Heavier
  <2> QED
    BY <2>1, <2>2, <2>3 DEF Adopt
<1>5. Leaves(q, d)
  BY <1>1, <1>2, <1>4, SubmitLeaves DEF ChainOK, ChainInv, TypeOK
<1> QED
  BY <1>1, <1>2, <1>4, <1>5, Handled DEF Holds

LEMMA Aborts ==
  ASSUME ProcessInv, NEW s \in Sessions, Abort(s)
  PROVE  Holds
<1> DEFINE q == sess[s]
           r == [q EXCEPT !.phase = "done", !.grind = "off", !.pending = None,
                          !.retry = FALSE]
<1>1. /\ q \in Session /\ Quiet(q) /\ Carries(q) /\ q.phase = "run"
      /\ UNCHANGED <<chainVars, public, solved>> /\ sess' = [sess EXCEPT ![s] = r]
  BY RecordOf DEF Abort
<1>2. /\ r \in Session /\ r.phase = "done" /\ r.grind = "off" /\ ~r.retry
      /\ r.pending = None /\ r.pc = q.pc /\ r.send = q.send
      /\ r.parentWork = q.parentWork
  BY <1>1 DEF Session
<1>3. solved' \subseteq Own
  BY <1>1 DEF ProcessInv, ChainOK, ChainInv
<1> HIDE DEF r, q
<1>4. Quiet(r) /\ Carries(r)
  BY <1>1, <1>2 DEF Quiet, Carries, Submitting
<1> QED
  BY <1>1, <1>2, <1>3, <1>4, Noted DEF q

(* The sessions before the one before have ended as well. *)
LEMMA WarmStarts ==
  ASSUME ProcessInv, NEW s \in Sessions \ {1}, WarmStart(s)
  PROVE  Holds
<1> DEFINE q == sess[s]
           r == [q EXCEPT !.phase = "boot"]
<1>1. /\ q \in Session /\ Quiet(q) /\ Carries(q) /\ q.phase = "off"
      /\ sess[s - 1].phase = "done" /\ ChainOK /\ sess \in [Sessions -> Session]
      /\ UNCHANGED <<chainVars, public, solved>> /\ sess' = [sess EXCEPT ![s] = r]
  BY RecordOf DEF WarmStart, ProcessInv
<1>2. ChainOK' /\ tip' = tip
  BY <1>1, ChainStays DEF ChainOK, ChainInv
<1>3. /\ r \in Session /\ r.phase = "boot" /\ r.pc = q.pc /\ r.grind = q.grind
      /\ r.pending = q.pending /\ r.send = q.send /\ r.parentWork = q.parentWork
      /\ r.retry = q.retry /\ r.polling = q.polling /\ r.current = q.current
  BY <1>1 DEF Session
<1>4. PICK d \in Session : d = r
  BY <1>3
<1>5. /\ sess' \in [Sessions -> Session] /\ sess'[s] = d
      /\ \A t \in Sessions \ {s} : sess'[t] = sess[t]
  BY <1>1, <1>4
<1> HIDE DEF r, q
<1>6. Quiet(d) /\ Carries(d) /\ d.phase = "boot"
  BY <1>1, <1>3, <1>4 DEF Quiet, Carries, Submitting, Idle
<1>7. ASSUME NEW t \in Sessions PROVE (Quiet(sess[t]) /\ Carries(sess[t]))'
  <2>1. PICK c : c = sess'[t]
    OBVIOUS
  <2>2. Quiet(c) /\ Carries(c)
    BY <1>5, <1>6, <2>1 DEF ProcessInv
  <2>3. Quiet(c) /\ Carries(c)'
    BY <1>1, <2>2 DEF Carries
  <2> QED
    BY <2>1, <2>3 DEF Carries
<1>8. InTurn'
  <2> SUFFICES ASSUME NEW t \in Sessions, NEW u \in Sessions, u < t,
                      sess'[t].phase # "off"
               PROVE  sess'[u].phase = "done"
    BY DEF InTurn
  <2>1. InTurn /\ s \in Int /\ t \in Int /\ u \in Int /\ s - 1 \in Sessions
    BY MinerCoordinatorAssumption DEF ProcessInv, Sessions
  <2>2. CASE t = s
    <3>1. sess[u].phase = "done"
      <4>1. u = s - 1 \/ u < s - 1
        BY <2>1, <2>2
      <4> QED
        BY <1>1, <2>1, <4>1 DEF InTurn
    <3> QED
      BY <1>5, <2>1, <2>2, <3>1
  <2>3. CASE t # s
    <3>1. sess[u].phase = "done"
      BY <1>5, <2>1, <2>3 DEF InTurn
    <3>2. u # s
      BY <1>1, <3>1 DEF q
    <3> QED
      BY <1>5, <3>1, <3>2
  <2> QED
    BY <2>2, <2>3
<1> QED
  BY <1>2, <1>5, <1>7, <1>8 DEF Holds, Heavier, ProcessInv

LEMMA WarmStartEnds ==
  ASSUME ProcessInv, NEW s \in Sessions, WarmStarted(s)
  PROVE  Holds
<1> DEFINE q == sess[s]
           r == [q EXCEPT !.phase = "run", !.current = tip, !.grind = "on"]
<1>1. /\ q \in Session /\ Quiet(q) /\ Carries(q) /\ q.phase = "boot" /\ tip \in Blocks
      /\ UNCHANGED <<chainVars, public, solved>> /\ sess' = [sess EXCEPT ![s] = r]
  BY RecordOf DEF WarmStarted
<1>2. /\ r \in Session /\ r.phase = "run" /\ r.grind = "on" /\ r.pending = q.pending
      /\ r.pc = q.pc /\ r.send = q.send /\ r.parentWork = q.parentWork
  BY <1>1 DEF Session
<1>3. solved' \subseteq Own
  BY <1>1 DEF ProcessInv, ChainOK, ChainInv
<1> HIDE DEF r, q
<1>4. Quiet(r) /\ Carries(r)
  BY <1>1, <1>2 DEF Quiet, Carries, Submitting, Idle
<1> QED
  BY <1>1, <1>2, <1>3, <1>4, Noted DEF q

LEMMA Unmoved ==
  ASSUME ProcessInv, UNCHANGED <<chainVars, solved, sess>>,
         public \subseteq public', public' \subseteq Blocks
  PROVE  Holds
<1>1. ChainOK' /\ tip' = tip
  BY ChainStays DEF ProcessInv
<1>2. InTurn' /\ sess' \in [Sessions -> Session]
  BY DEF ProcessInv, InTurn
<1>3. \A t \in Sessions : (Quiet(sess[t]) /\ Carries(sess[t]))'
  BY DEF ProcessInv, Carries
<1> QED
  BY <1>1, <1>2, <1>3 DEF Holds, Heavier, ProcessInv

LEMMA ProcessStep == ASSUME ProcessInv, [RestartNext]_vars PROVE Holds
<1>1. CASE UNCHANGED vars
  BY <1>1, Unmoved DEF vars, ProcessInv, ChainOK, ChainInv
<1>2. ASSUME NEW b \in Blocks, Publish(b) PROVE Holds
  BY <1>2, Unmoved DEF Publish, ProcessInv, ChainOK, ChainInv
<1> QED
  BY <1>1, <1>2, SyncSteps, PollTicks, PollAnswers, SyncEnds, Solves, Exhausts, Retries,
     Broadcasts, Adopts, Aborts, WarmStarts, WarmStartEnds
  DEF RestartNext, CoordNext

LEMMA ProcessStarts == ASSUME CoordInit PROVE ProcessInv
<1>1. CoordInv /\ TreeInv
  BY CoordStarts, TreeStarts
<1> DEFINE S == Line[Anchor]
<1>2. /\ Genesis \in S /\ S \subseteq Blocks
      /\ AnchorWork[Genesis] = BlockWork[Genesis]
      /\ \A b \in S \ {Genesis} :
           /\ Parent[b] \in S /\ Height[b] = Height[Parent[b]] + 1
           /\ AnchorWork[b] = AnchorWork[Parent[b]] + BlockWork[b]
  BY MinerCoordinatorAssumption
<1>3. stored = S /\ \A b \in S : work[b] = AnchorWork[b]
  BY <1>2 DEF CoordInit
<1> HIDE DEF S
<1>4. Weighed
  <2> DEFINE T == {n \in Nat : \A b \in S : Height[b] = n => AnchorWork[b] = BranchWork[b]}
  <2>1. \A b \in S : Height[b] \in Nat
    BY <1>2, BlockchainAssumption
  <2>2. 0 \in T
    <3> SUFFICES ASSUME NEW b \in S, Height[b] = 0 PROVE AnchorWork[b] = BranchWork[b]
      OBVIOUS
    <3>1. b = Genesis
      <4>1. b # Genesis => Parent[b] \in S /\ 0 = Height[Parent[b]] + 1
        BY <1>2
      <4> QED
        BY <2>1, <4>1
    <3> QED
      BY <1>2, <3>1, BranchesWeigh DEF Weighs
  <2>3. ASSUME NEW n \in T PROVE n + 1 \in T
    <3> SUFFICES ASSUME NEW b \in S, Height[b] = n + 1
                 PROVE  AnchorWork[b] = BranchWork[b]
      OBVIOUS
    <3>1. b # Genesis
      BY BlockchainAssumption
    <3>2. /\ Parent[b] \in S /\ Height[b] = Height[Parent[b]] + 1
          /\ AnchorWork[b] = AnchorWork[Parent[b]] + BlockWork[b] /\ b \in Blocks
      BY <1>2, <3>1
    <3>3. Height[Parent[b]] = n
      BY <2>1, <3>2
    <3>4. AnchorWork[Parent[b]] = BranchWork[Parent[b]]
      BY <3>2, <3>3
    <3> QED
      BY <3>2, <3>4, BranchesWeigh DEF Weighs
  <2> HIDE DEF T
  <2>4. T = Nat
    <3>1. T \in SUBSET Nat
      BY DEF T
    <3> QED
      BY <2>2, <2>3, <3>1, Induct
  <2> QED
    BY <1>3, <2>1, <2>4 DEF Weighed, T
<1>5. ChainOK
  BY <1>1, <1>4 DEF CoordInv, TreeInv, IInv, ChainOK
<1>6. sess = [s \in Sessions |-> IF s = 1 THEN NewSession("run", Anchor, "on")
                                         ELSE NewSession("off", None, "off")]
  BY DEF CoordInit
<1>7. InTurn
  <2>1. \A s, t \in Sessions : t < s => s # 1
    BY DEF Sessions
  <2> QED
    BY <1>6, <2>1 DEF InTurn, NewSession
<1>8. ASSUME NEW s \in Sessions PROVE Quiet(sess[s]) /\ Carries(sess[s])
  BY <1>6 DEF NewSession, Quiet, Carries, Submitting, Idle
<1> QED
  BY <1>1, <1>5, <1>7, <1>8 DEF CoordInv, SessionInv, ProcessInv

(* The inductive invariant of a process, whatever session is in charge. *)
THEOREM ProcessInvHolds == ProcessSpec => []ProcessInv
<1>1. CoordInit => ProcessInv
  BY ProcessStarts
<1>2. ProcessInv /\ [RestartNext]_vars => ProcessInv'
  BY ProcessStep DEF Holds
<1> QED
  BY <1>1, <1>2, PTL DEF ProcessSpec

(* A process whose later sessions never begin is one, so what follows holds of the
   single session above as well. *)
THEOREM SingleSession == CoordSpec => ProcessSpec
<1>1. [CoordNext]_vars => [RestartNext]_vars
  BY DEF RestartNext
<1> QED
  BY <1>1, PTL DEF CoordSpec, ProcessSpec

(* Every field of the chain and of the sessions stays what the code declares. *)
THEOREM CoordTyped == ProcessSpec => []CoordTypeOK
<1>1. ProcessInv => CoordTypeOK
  BY DEF ProcessInv, ChainOK, ChainInv, CoordTypeOK, Session
<1> QED
  BY <1>1, ProcessInvHolds, PTL

(* The op a torn-down session left behind starts nothing under the next one. *)
THEOREM TornDownIsOff == ProcessSpec => []EndedStaysOff
<1>1. ProcessInv => EndedStaysOff
  BY DEF ProcessInv, Quiet, EndedStaysOff
<1> QED
  BY <1>1, ProcessInvHolds, PTL

(* "Broadcast first", also for a submit that outlives its session. *)
THEOREM NothingPrivate == ProcessSpec => []NoPrivateFork
<1>1. ProcessInv => NoPrivateFork
  BY DEF ProcessInv, ChainOK, ChainInv
<1> QED
  BY <1>1, ProcessInvHolds, PTL

(* The slot of each session holds a solve of that session's own template. *)
THEOREM OneSlotSuffices == ProcessSpec => []QueuedIsCurrent
<1>1. ProcessInv => QueuedIsCurrent
  BY DEF ProcessInv, Quiet, QueuedIsCurrent
<1> QED
  BY <1>1, ProcessInvHolds, PTL

(* Two sessions never grind at the same time, however late the ops of the one
   before return. *)
OneMines ==
  \A s, t \in Sessions : sess[s].grind = "on" /\ sess[t].grind = "on" => s = t

THEOREM OneMinesAtATime == ProcessSpec => []OneMines
<1>1. ProcessInv => OneMines
  <2> SUFFICES ASSUME ProcessInv, NEW s \in Sessions, NEW t \in Sessions, t < s,
                      sess[s].grind = "on", sess[t].grind = "on"
               PROVE  FALSE
    BY DEF OneMines, Sessions
  <2> QED
    BY DEF ProcessInv, InTurn, Quiet
<1> QED
  BY <1>1, ProcessInvHolds, PTL

(* The tip stays the heaviest block the process holds, with a state to build
   on, although a leftover adoption may hang its block where the parent has been
   dropped: only that a stored block has its parent is lost. *)
THEOREM HeaviestAlways == ProcessSpec => [](HeaviestTip /\ TipExtendable)
<1>1. ProcessInv => HeaviestTip /\ TipExtendable
  BY DEF ProcessInv, ChainOK
<1> QED
  BY <1>1, ProcessInvHolds, PTL

(* No step of any session replaces the tip by one that is no heavier, but for the
   replay that starts over at genesis. *)
THEOREM TipGainsWork == ProcessSpec => TipOnlyOutweighed
<1>1. ProcessInv /\ [RestartNext]_vars => [Heavier]_chainVars
  BY ProcessStep DEF Holds
<1> QED
  BY <1>1, ProcessInvHolds, PTL DEF ProcessSpec, TipOnlyOutweighed, Heavier
=============================================================================
