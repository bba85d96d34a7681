--------------------------- MODULE GrindPoolProofs ---------------------------
(***************************************************************************)
(* Two promises of the grind pool, for any number of workers, any crash     *)
(* budgets and any number of generations: a template is solved at most      *)
(* once, and no thread is left grinding anything but the active template.   *)
(*                                                                         *)
(* Both rest on what may still mention a generation: a thread's job, its    *)
(* unread commands, its reports under way and the respawn timer of its slot *)
(* never run ahead of the pool's own counter.                               *)
(***************************************************************************)
EXTENDS GrindPool, SequenceTheorems, TLAPS

(* The slots' records: a slot waiting for a respawn is down, a slot that is up
   has crashes to spare, and a dead thread holds neither job nor command. *)
SlotsConsistent ==
  \A i \in Workers :
    /\ respawning[i] # -1 => workerDown[i]
    /\ (~workerDown[i] \/ respawning[i] # -1) => crashes[i] < MaxCrashes
    /\ workerDown[i] => ~alive[i]
    /\ ~alive[i] => job[i] = 0 /\ inbox[i] = <<>>

(* The pool's counter: it has room while the pool lives, and only a continuous
   generation is one of shares. *)
CounterConsistent ==
  /\ ~terminating => gen <= MaxGen
  /\ shareGens \subseteq 1 .. gen
  /\ (active = gen /\ gen \in shareGens) => continuous

(* Generation g is mentioned by the job, a command or a report of slot i. *)
Mentions(i, g) ==
  \/ job[i] = g
  \/ \E k \in DOMAIN inbox[i] : inbox[i][k] = g
  \/ \E k \in DOMAIN msgs[i] : msgs[i][k].gen = g

(* Nobody mentions a generation to come, nor the current one if it has no
   template: it was started by stop, respawn or terminate. *)
NoneAhead ==
  \A i \in Workers, g \in 1 .. MaxGen + 1 :
    Mentions(i, g) => g <= gen /\ (g = gen => (active = gen \/ finished > 0))

(* What a thread grinds once it has handled the commands it was sent. *)
LastCommand(i) == IF inbox[i] = <<>> THEN job[i] ELSE inbox[i][Len(inbox[i])]

(* It is the active template, and nothing once that is solved. *)
LastCommandActive ==
  \A i \in Workers :
    (alive[i] /\ LastCommand(i) # 0)
      => /\ LastCommand(i) = gen
         /\ active = gen \/ finished > 0
         /\ continuous \/ ~solved

(* The first solve of a generation closes it. *)
SolveCloses ==
  /\ ~continuous /\ hits # 0 => solved /\ hits = 1
  /\ (active # gen /\ finished = 0) => hits = 0

PoolInv ==
  /\ GrindPoolTypeOK /\ SlotsConsistent /\ CounterConsistent
  /\ NoneAhead /\ LastCommandActive /\ SolveCloses

-----------------------------------------------------------------------------
(* Queues. *)

LEMMA AppendQueue ==
  ASSUME NEW S, NEW q \in Seq(S), NEW e \in S
  PROVE  /\ Append(q, e) \in Seq(S) /\ Append(q, e) # <<>>
         /\ Append(q, e)[Len(Append(q, e))] = e
         /\ \A k \in DOMAIN Append(q, e) :
              Append(q, e)[k] = e \/ (k \in DOMAIN q /\ Append(q, e)[k] = q[k])
  OBVIOUS

LEMMA TailQueue ==
  ASSUME NEW S, NEW q \in Seq(S), q # <<>>
  PROVE  /\ Tail(q) \in Seq(S)
         /\ 1 \in DOMAIN q /\ Head(q) = q[1] /\ Head(q) \in S
         /\ Tail(q) = <<>> => q[Len(q)] = Head(q)
         /\ Tail(q) # <<>> => Tail(q)[Len(Tail(q))] = q[Len(q)]
         /\ \A k \in DOMAIN Tail(q) : k + 1 \in DOMAIN q /\ Tail(q)[k] = q[k + 1]
<1>1. /\ Tail(q) \in Seq(S) /\ Head(q) \in S
      /\ Len(Tail(q)) = Len(q) - 1
      /\ \A k \in 1 .. Len(Tail(q)) : Tail(q)[k] = q[k + 1]
  BY HeadTailProperties
<1>2. Len(q) \in Nat \ {0} /\ DOMAIN q = 1 .. Len(q) /\ Head(q) = q[1]
  OBVIOUS
<1>3. Len(Tail(q)) \in Nat /\ DOMAIN Tail(q) = 1 .. Len(Tail(q))
  BY <1>1
<1>4. ASSUME Tail(q) = <<>> PROVE q[Len(q)] = Head(q)
  <2>1. Len(Tail(q)) = 0
    BY <1>1, <1>4
  <2>2. Len(Tail(q)) = Len(q) - 1 /\ Len(q) \in Nat
    BY <1>1, <1>2
  <2>3. Len(q) = 1
    BY <2>1, <2>2
  <2> QED
    BY <1>2, <2>3
<1>5. Tail(q) # <<>> => Len(Tail(q)) \in 1 .. Len(Tail(q))
  BY <1>1, <1>3
<1> QED
  BY <1>1, <1>2, <1>3, <1>4, <1>5

(* The constants, one by one. *)
LEMMA Budgets ==
  /\ MaxFastFails \in Nat \ {0} /\ MaxCrashes \in Nat \ {0}
  /\ MaxGen \in Nat \ {0} /\ MaxQueue \in Nat \ {0}
  BY GrindPoolAssumption

LEMMA InitPoolInv == Init => PoolInv
<1> SUFFICES ASSUME Init PROVE PoolInv
  OBVIOUS
<1> USE Budgets DEF Init, Each
<1>1. PoolTyped /\ SlotsTyped
  <2>1. PoolTyped
    <3>1. solved \in BOOLEAN /\ terminating \in BOOLEAN /\ continuous \in BOOLEAN
      OBVIOUS
    <3>2. gen \in 0 .. MaxGen + 1 /\ active \in 0 .. MaxGen
      OBVIOUS
    <3>3. exhausted \in Nat /\ down \in Nat /\ shareGens \subseteq 1 .. MaxGen
      OBVIOUS
    <3> QED
      BY <3>1, <3>2, <3>3 DEF PoolTyped
  <2>2. workerDown \in [Workers -> BOOLEAN] /\ fails \in [Workers -> Nat]
    OBVIOUS
  <2>3. crashes \in [Workers -> 0 .. MaxCrashes] /\ respawning \in [Workers -> -1 .. MaxGen]
    OBVIOUS
  <2> QED
    BY <2>1, <2>2, <2>3 DEF SlotsTyped
<1>2. ThreadsTyped /\ HistoryTyped
  BY DEF ThreadsTyped, HistoryTyped
<1>3. SlotsConsistent /\ CounterConsistent
  BY DEF SlotsConsistent, CounterConsistent
<1>4. NoneAhead
  BY DEF NoneAhead, Mentions
<1>5. LastCommandActive /\ SolveCloses
  BY DEF LastCommandActive, LastCommand, SolveCloses
<1> QED
  BY <1>1, <1>2, <1>3, <1>4, <1>5 DEF PoolInv, GrindPoolTypeOK

-----------------------------------------------------------------------------
(* Reaching the quorum, or not, leaves the counters typed and closes the grind
   only with a report of exhaustion. *)
LEMMA QuorumOutcome ==
  ASSUME PoolTyped, HistoryTyped, MaybeExhausted
  PROVE  /\ active' \in {active, 0} /\ finished' \in Nat
         /\ finished' = finished => active' = active
         /\ finished > 0 => finished' > 0
         /\ active' # active => finished' > 0
  BY DEF PoolTyped, HistoryTyped, MaybeExhausted

LEMMA PostTyped ==
  ASSUME ThreadsTyped, NEW command \in 0 .. MaxGen
  PROVE  Post(command, inbox) \in [Workers -> Seq(0 .. MaxGen)]
<1>1. \A i \in Workers :
        Append(inbox[i], command) \in Seq(0 .. MaxGen) /\ inbox[i] \in Seq(0 .. MaxGen)
  BY AppendProperties DEF ThreadsTyped
<1> QED
  BY <1>1 DEF Post

(* Types are kept by what is left alone. *)
LEMMA TypesUnchanged ==
  /\ UNCHANGED poolVars /\ PoolTyped => PoolTyped'
  /\ UNCHANGED slotVars /\ SlotsTyped => SlotsTyped'
  /\ UNCHANGED threadVars /\ ThreadsTyped => ThreadsTyped'
  /\ UNCHANGED history /\ HistoryTyped => HistoryTyped'
  BY DEF poolVars, slotVars, threadVars, history, PoolTyped, SlotsTyped,
         ThreadsTyped, HistoryTyped

LEMMA ReportTyped ==
  ASSUME ThreadsTyped, NEW i \in Workers, NEW kind \in {"solved", "exhausted"},
         Report(i, kind)
  PROVE  msgs' \in [Workers -> Seq(Reports)]
<1>1. [type |-> kind, gen |-> job[i]] \in Reports
  BY Budgets DEF Report, Reports, ThreadsTyped
<1>2. Append(msgs[i], [type |-> kind, gen |-> job[i]]) \in Seq(Reports)
  BY <1>1, AppendProperties DEF ThreadsTyped
<1> QED
  BY <1>2 DEF Report, ThreadsTyped

LEMMA DeliveredTyped ==
  ASSUME ThreadsTyped, NEW i \in Workers, Delivered(i), msgs[i] # <<>>
  PROVE  msgs' \in [Workers -> Seq(Reports)] /\ Head(msgs[i]) \in Reports
<1>1. Tail(msgs[i]) \in Seq(Reports) /\ Head(msgs[i]) \in Reports
  BY HeadTailProperties DEF ThreadsTyped
<1> QED
  BY <1>1 DEF Delivered, ThreadsTyped

LEMMA TypeStep ==
  ASSUME GrindPoolTypeOK, SlotsConsistent, CounterConsistent, Next
  PROVE  GrindPoolTypeOK'
<1>0. PoolTyped /\ SlotsTyped /\ ThreadsTyped /\ HistoryTyped
  BY DEF GrindPoolTypeOK
<1> USE <1>0, Budgets DEF StopCommand
<1>1. ASSUME NEW shares \in BOOLEAN, Start(shares) PROVE GrindPoolTypeOK'
  <2>1. gen + 1 \in 1 .. MaxGen /\ shareGens' \subseteq 1 .. MaxGen
    BY <1>1 DEF Start, PoolTyped
  <2>2. PoolTyped'
    <3>1. continuous' \in BOOLEAN /\ solved' \in BOOLEAN /\ terminating' \in BOOLEAN
      BY <1>1 DEF Start, PoolTyped
    <3>2. /\ gen' \in 0 .. MaxGen + 1 /\ active' \in 0 .. MaxGen
          /\ exhausted' \in Nat /\ down' \in Nat
      BY <1>1, <2>1 DEF Start, PoolTyped
    <3> QED
      BY <2>1, <3>1, <3>2 DEF PoolTyped
  <2>3. SlotsTyped'
    BY <1>1 DEF Start, Each, SlotsTyped
  <2>4. HistoryTyped'
    BY <1>1 DEF Start, HistoryTyped
  <2>5. Post(gen + 1, inbox) \in [Workers -> Seq(0 .. MaxGen)]
    BY <2>1, PostTyped
  <2>6. inbox' \in [Workers -> Seq(0 .. MaxGen)]
    <3>1. <<gen + 1>> \in Seq(0 .. MaxGen)
      BY <2>1
    <3>2. \A i \in Workers : Post(gen + 1, inbox)[i] \in Seq(0 .. MaxGen)
      BY <2>5
    <3>3. \A i \in Workers :
            (IF workerDown[i] THEN <<gen + 1>> ELSE Post(gen + 1, inbox)[i])
              \in Seq(0 .. MaxGen)
      BY <3>1, <3>2
    <3> QED
      BY <1>1, <3>3, Zenon DEF Start
  <2>7. alive' \in [Workers -> BOOLEAN]
    BY <1>1 DEF Start, ThreadsTyped, SlotsTyped
  <2>8. job' \in [Workers -> 0 .. MaxGen] /\ msgs' = msgs
    BY <1>1 DEF Start, ThreadsTyped
  <2> QED
    BY <2>2, <2>3, <2>4, <2>6, <2>7, <2>8 DEF GrindPoolTypeOK, ThreadsTyped
<1>2. ASSUME Stop PROVE GrindPoolTypeOK'
  <2>1. PoolTyped'
    BY <1>2 DEF Stop, PoolTyped
  <2>2. inbox' \in [Workers -> Seq(0 .. MaxGen)]
    BY <1>2, PostTyped DEF Stop
  <2>3. ThreadsTyped' /\ HistoryTyped'
    BY <1>2, <2>2 DEF Stop, ThreadsTyped, HistoryTyped
  <2> QED
    BY <1>2, <2>1, <2>3, TypesUnchanged DEF Stop, GrindPoolTypeOK
<1>3. ASSUME Respawn PROVE GrindPoolTypeOK'
  <2>1. PoolTyped' /\ HistoryTyped'
    BY <1>3 DEF Respawn, PoolTyped, HistoryTyped
  <2>2. SlotsTyped'
    BY <1>3 DEF Respawn, Each, SlotsTyped
  <2>3. ThreadsTyped'
    BY <1>3 DEF Respawn, Each, ThreadsTyped
  <2> QED
    BY <2>1, <2>2, <2>3 DEF GrindPoolTypeOK
<1>4. ASSUME Terminate PROVE GrindPoolTypeOK'
  <2>1. PoolTyped' /\ HistoryTyped'
    BY <1>4 DEF Terminate, PoolTyped, HistoryTyped, CounterConsistent
  <2>2. SlotsTyped'
    BY <1>4 DEF Terminate, Each, SlotsTyped
  <2>3. ThreadsTyped'
    BY <1>4 DEF Terminate, Each, ThreadsTyped
  <2> QED
    BY <2>1, <2>2, <2>3 DEF GrindPoolTypeOK
<1>5. ASSUME NEW i \in Workers, HandleCommand(i) PROVE GrindPoolTypeOK'
  <2>1. Tail(inbox[i]) \in Seq(0 .. MaxGen) /\ Head(inbox[i]) \in 0 .. MaxGen
    BY <1>5, HeadTailProperties DEF HandleCommand, ThreadsTyped
  <2>2. ThreadsTyped'
    BY <1>5, <2>1 DEF HandleCommand, ThreadsTyped
  <2> QED
    BY <1>5, <2>2, TypesUnchanged DEF HandleCommand, GrindPoolTypeOK
<1>6. ASSUME NEW i \in Workers, FindNonce(i) \/ ScanToEnd(i) PROVE GrindPoolTypeOK'
  <2>1. msgs' \in [Workers -> Seq(Reports)]
    BY <1>6, ReportTyped DEF FindNonce, ScanToEnd
  <2>2. job' \in [Workers -> 0 .. MaxGen]
    <3>1. job[i] \in 0 .. MaxGen /\ 0 \in 0 .. MaxGen
      BY DEF ThreadsTyped
    <3>2. CASE job' = [job EXCEPT ![i] = 0]
      BY <3>1, <3>2 DEF ThreadsTyped
    <3>3. CASE job' = job
      BY <3>3 DEF ThreadsTyped
    <3>4. job' = [job EXCEPT ![i] = 0] \/ job' = job
      BY <1>6 DEF FindNonce, ScanToEnd, ThreadsTyped
    <3> QED
      BY <3>2, <3>3, <3>4
  <2>3. ThreadsTyped'
    BY <1>6, <2>1, <2>2 DEF FindNonce, ScanToEnd, ThreadsTyped
  <2> QED
    BY <1>6, <2>3, TypesUnchanged DEF FindNonce, ScanToEnd, GrindPoolTypeOK
<1>7. ASSUME NEW i \in Workers, Crash(i) PROVE GrindPoolTypeOK'
  <2>1. ThreadsTyped'
    BY <1>7 DEF Crash, ThreadsTyped
  <2> QED
    BY <1>7, <2>1, TypesUnchanged DEF Crash, GrindPoolTypeOK
<1>8. ASSUME NEW i \in Workers, DropReport(i) PROVE GrindPoolTypeOK'
  <2>1. ThreadsTyped'
    BY <1>8, DeliveredTyped DEF DropReport, ThreadsTyped
  <2> QED
    BY <1>8, <2>1, TypesUnchanged DEF DropReport, GrindPoolTypeOK
<1>9. ASSUME NEW i \in Workers, OnSolved(i) PROVE GrindPoolTypeOK'
  <2>1. inbox' \in [Workers -> Seq(0 .. MaxGen)]
    BY <1>9, PostTyped DEF OnSolved, ThreadsTyped
  <2>2. ThreadsTyped'
    BY <1>9, <2>1, DeliveredTyped DEF OnSolved, ThreadsTyped
  <2>3. PoolTyped'
    BY <1>9 DEF OnSolved, PoolTyped
  <2>4. HistoryTyped'
    BY <1>9 DEF OnSolved, HistoryTyped
  <2> QED
    BY <1>9, <2>2, <2>3, <2>4, TypesUnchanged DEF OnSolved, GrindPoolTypeOK
<1>10. ASSUME NEW i \in Workers, OnExhausted(i) PROVE GrindPoolTypeOK'
  <2>1. ThreadsTyped'
    BY <1>10, DeliveredTyped DEF OnExhausted, ThreadsTyped
  <2>2. active' \in {active, 0} /\ finished' \in Nat
    BY <1>10, QuorumOutcome DEF OnExhausted
  <2>3. PoolTyped'
    BY <1>10, <2>2 DEF OnExhausted, PoolTyped
  <2>4. HistoryTyped'
    BY <1>10, <2>2 DEF OnExhausted, HistoryTyped
  <2> QED
    BY <1>10, <2>1, <2>3, <2>4, TypesUnchanged DEF OnExhausted, GrindPoolTypeOK
<1>11. ASSUME NEW i \in Workers, NEW fast \in BOOLEAN, OnExit(i, fast)
       PROVE GrindPoolTypeOK'
  <2>1. active' \in {active, 0} /\ finished' \in Nat /\ down' \in Nat
    BY <1>11, QuorumOutcome DEF OnExit, PoolTyped, HistoryTyped
  <2>2. PoolTyped' /\ HistoryTyped'
    BY <1>11, <2>1 DEF OnExit, PoolTyped, HistoryTyped
  <2>3. respawning' \in [Workers -> -1 .. MaxGen]
    BY <1>11 DEF OnExit, CounterConsistent, PoolTyped, SlotsTyped
  <2>4. crashes' \in [Workers -> 0 .. MaxCrashes]
    BY <1>11 DEF OnExit, SlotsConsistent, SlotsTyped
  <2>5. fails' \in [Workers -> Nat]
    BY <1>11 DEF OnExit, SlotsTyped
  <2>6. workerDown' \in [Workers -> BOOLEAN]
    BY <1>11 DEF OnExit, SlotsTyped
  <2>7. SlotsTyped'
    BY <2>3, <2>4, <2>5, <2>6 DEF SlotsTyped
  <2> QED
    BY <1>11, <2>2, <2>7, TypesUnchanged DEF OnExit, GrindPoolTypeOK
<1>12. ASSUME NEW i \in Workers, RespawnWorker(i) PROVE GrindPoolTypeOK'
  <2>1. Resumed(i) \in Seq(0 .. MaxGen)
    <3>1. active \in 0 .. MaxGen => <<active>> \in Seq(0 .. MaxGen)
      OBVIOUS
    <3>2. <<>> \in Seq(0 .. MaxGen)
      OBVIOUS
    <3> QED
      BY <3>1, <3>2 DEF Resumed, PoolTyped
  <2>2. ThreadsTyped'
    BY <1>12, <2>1 DEF RespawnWorker, ThreadsTyped
  <2>3. SlotsTyped'
    BY <1>12 DEF RespawnWorker, SlotsTyped
  <2> QED
    BY <1>12, <2>2, <2>3, TypesUnchanged DEF RespawnWorker, GrindPoolTypeOK
<1> QED
  BY <1>1, <1>2, <1>3, <1>4, <1>5, <1>6, <1>7, <1>8, <1>9, <1>10, <1>11, <1>12
  DEF Next, Thread, Events

-----------------------------------------------------------------------------
(* The slots' records stay consistent. *)
LEMMA SlotsStep ==
  ASSUME GrindPoolTypeOK, SlotsConsistent, Next
  PROVE  SlotsConsistent'
<1>0. PoolTyped /\ SlotsTyped /\ ThreadsTyped
  BY DEF GrindPoolTypeOK
<1> USE <1>0, Budgets DEF SlotsTyped, ThreadsTyped, SlotsConsistent
<1>1. ASSUME NEW shares \in BOOLEAN, Start(shares) PROVE SlotsConsistent'
  BY <1>1 DEF Start, Each, Post
<1>2. ASSUME Stop PROVE SlotsConsistent'
  BY <1>2 DEF Stop, Post, slotVars
<1>3. ASSUME Respawn PROVE SlotsConsistent'
  BY <1>3 DEF Respawn, Each
<1>4. ASSUME Terminate PROVE SlotsConsistent'
  BY <1>4 DEF Terminate, Each
<1>5. ASSUME NEW i \in Workers,
             HandleCommand(i) \/ FindNonce(i) \/ ScanToEnd(i) \/ Crash(i)
      PROVE  SlotsConsistent'
  BY <1>5 DEF HandleCommand, FindNonce, ScanToEnd, Crash, Report, slotVars
<1>6. ASSUME NEW i \in Workers, DropReport(i) \/ OnExhausted(i) PROVE SlotsConsistent'
  BY <1>6 DEF DropReport, OnExhausted, slotVars
<1>7. ASSUME NEW i \in Workers, OnSolved(i) PROVE SlotsConsistent'
  BY <1>7 DEF OnSolved, Post, slotVars
<1>8. ASSUME NEW i \in Workers, NEW fast \in BOOLEAN, OnExit(i, fast)
      PROVE SlotsConsistent'
  <2>1. /\ workerDown' = [workerDown EXCEPT ![i] = TRUE]
        /\ crashes' = [crashes EXCEPT ![i] = @ + 1]
        /\ ~alive[i] /\ ~workerDown[i] /\ respawning[i] = -1
        /\ alive' = alive /\ job' = job /\ inbox' = inbox
    BY <1>8 DEF OnExit, threadVars
  <2>2. CASE respawning' = respawning
    BY <2>1, <2>2
  <2>3. CASE crashes'[i] < MaxCrashes /\ respawning' = [respawning EXCEPT ![i] = gen]
    BY <2>1, <2>3
  <2>4. OutOfBudget(i) \/ crashes'[i] < MaxCrashes
    BY <2>1 DEF OutOfBudget
  <2> QED
    BY <1>8, <2>2, <2>3, <2>4 DEF OnExit
<1>9. ASSUME NEW i \in Workers, RespawnWorker(i) PROVE SlotsConsistent'
  BY <1>9 DEF RespawnWorker
<1> QED
  BY <1>1, <1>2, <1>3, <1>4, <1>5, <1>6, <1>7, <1>8, <1>9
  DEF Next, Thread, Events

(* The pool's counter keeps its room, and shares stay with continuous
   generations. *)
LEMMA CounterStep ==
  ASSUME GrindPoolTypeOK, CounterConsistent, Next
  PROVE  CounterConsistent'
<1>0. PoolTyped /\ HistoryTyped
  BY DEF GrindPoolTypeOK
<1> USE <1>0, Budgets DEF PoolTyped, CounterConsistent
<1>1. ASSUME NEW shares \in BOOLEAN, Start(shares) PROVE CounterConsistent'
  BY <1>1 DEF Start
<1>2. ASSUME Stop \/ Respawn \/ Terminate PROVE CounterConsistent'
  <2>1. /\ gen' = gen + 1 /\ active' = 0 /\ shareGens' = shareGens
        /\ terminating' \/ gen < MaxGen
    BY <1>2 DEF Stop, Respawn, Terminate
  <2>2. shareGens' \subseteq 1 .. gen'
    BY <2>1
  <2> QED
    BY <2>1, <2>2
<1>3. ASSUME NEW i \in Workers, Thread(i) \/ DropReport(i) \/ RespawnWorker(i)
      PROVE  CounterConsistent'
  BY <1>3 DEF Thread, HandleCommand, FindNonce, ScanToEnd, Crash, DropReport,
              RespawnWorker, poolVars
<1>4. ASSUME NEW i \in Workers, OnSolved(i) PROVE CounterConsistent'
  BY <1>4 DEF OnSolved
<1>5. ASSUME NEW i \in Workers, OnExhausted(i) PROVE CounterConsistent'
  BY <1>5, QuorumOutcome DEF OnExhausted
<1>6. ASSUME NEW i \in Workers, NEW fast \in BOOLEAN, OnExit(i, fast)
      PROVE CounterConsistent'
  BY <1>6, QuorumOutcome DEF OnExit
<1> QED
  BY <1>1, <1>2, <1>3, <1>4, <1>5, <1>6 DEF Next, Events

-----------------------------------------------------------------------------
(* A step mentions no generation that was not mentioned, but the active one. *)
LEMMA MentionsGrow ==
  ASSUME GrindPoolTypeOK, Next, NEW j \in Workers, NEW g \in 1 .. MaxGen + 1,
         Mentions(j, g)'
  PROVE  Mentions(j, g) \/ (g = gen' /\ active' = gen')
<1>0. /\ ThreadsTyped
      /\ inbox[j] \in Seq(0 .. MaxGen) /\ msgs[j] \in Seq(Reports)
  BY DEF GrindPoolTypeOK, ThreadsTyped
<1>a. ASSUME NEW command \in 0 .. MaxGen,
             \E k \in DOMAIN Post(command, inbox)[j] : Post(command, inbox)[j][k] = g
      PROVE  command = g \/ \E k \in DOMAIN inbox[j] : inbox[j][k] = g
  BY <1>0, <1>a, AppendQueue DEF Post
<1>b. ASSUME NEW i \in Workers, Delivered(i), msgs[i] # <<>>,
             \E k \in DOMAIN msgs'[j] : msgs'[j][k].gen = g
      PROVE  \E k \in DOMAIN msgs[j] : msgs[j][k].gen = g
  <2>1. CASE i = j
    <3>1. msgs'[j] = Tail(msgs[j])
      BY <1>0, <1>b, <2>1 DEF Delivered, ThreadsTyped
    <3>2. \A k \in DOMAIN Tail(msgs[j]) :
             k + 1 \in DOMAIN msgs[j] /\ Tail(msgs[j])[k] = msgs[j][k + 1]
      BY <1>0, <1>b, <2>1, TailQueue
    <3> QED
      BY <1>b, <3>1, <3>2
  <2>2. CASE i # j
    <3>1. msgs'[j] = msgs[j]
      BY <1>0, <1>b, <2>2 DEF Delivered, ThreadsTyped
    <3> QED
      BY <1>b, <3>1
  <2> QED
    BY <2>1, <2>2
<1>c. ASSUME NEW i \in Workers, NEW kind \in {"solved", "exhausted"}, Report(i, kind),
             \E k \in DOMAIN msgs'[j] : msgs'[j][k].gen = g
      PROVE  Mentions(j, g)
  <2>1. CASE i = j
    <3> DEFINE report == [type |-> kind, gen |-> job[j]]
    <3>1. report \in Reports /\ report.gen = job[j]
      BY <1>0, <1>c, <2>1, Budgets DEF Report, Reports, ThreadsTyped
    <3>2. msgs'[j] = Append(msgs[j], report)
      BY <1>0, <1>c, <2>1 DEF Report, ThreadsTyped
    <3>3. \A k \in DOMAIN Append(msgs[j], report) :
            \/ Append(msgs[j], report)[k] = report
            \/ k \in DOMAIN msgs[j] /\ Append(msgs[j], report)[k] = msgs[j][k]
      BY <1>0, <3>1, AppendQueue
    <3> HIDE DEF report
    <3> QED
      BY <1>c, <3>1, <3>2, <3>3 DEF Mentions
  <2>2. CASE i # j
    <3>1. msgs'[j] = msgs[j]
      BY <1>0, <1>c, <2>2 DEF Report, ThreadsTyped
    <3> QED
      BY <1>c, <3>1 DEF Mentions
  <2> QED
    BY <2>1, <2>2
<1> USE <1>0 DEF Mentions, ThreadsTyped
<1>1. ASSUME NEW shares \in BOOLEAN, Start(shares)
      PROVE  Mentions(j, g) \/ (g = gen' /\ active' = gen')
  <2>1. gen + 1 \in 0 .. MaxGen /\ gen' = gen + 1 /\ active' = gen' /\ msgs' = msgs
    BY <1>1, Budgets DEF Start, GrindPoolTypeOK, PoolTyped
  <2>2. job'[j] \in {0, job[j]}
    BY <1>1 DEF Start
  <2>3. inbox'[j] = <<gen + 1>> \/ inbox'[j] = Post(gen + 1, inbox)[j]
    BY <1>1 DEF Start
  <2>4. CASE \E k \in DOMAIN inbox'[j] : inbox'[j][k] = g
    <3>1. CASE inbox'[j] = <<gen + 1>>
      BY <2>1, <2>4, <3>1
    <3>2. CASE inbox'[j] = Post(gen + 1, inbox)[j]
      BY <1>a, <2>1, <2>4, <3>2
    <3> QED
      BY <2>3, <3>1, <3>2
  <2>5. CASE job'[j] = g \/ \E k \in DOMAIN msgs'[j] : msgs'[j][k].gen = g
    BY <2>1, <2>2, <2>5
  <2> QED
    BY <2>4, <2>5
<1>2. ASSUME Stop PROVE Mentions(j, g)
  BY <1>2, <1>a, Budgets DEF Stop, StopCommand
<1>3. ASSUME Respawn \/ Terminate PROVE Mentions(j, g)
  BY <1>3 DEF Respawn, Terminate, Each
<1>4. ASSUME NEW i \in Workers, HandleCommand(i) PROVE Mentions(j, g)
  <2>1. CASE i = j
    <3>1. inbox[j] # <<>> /\ job'[j] = Head(inbox[j]) /\ inbox'[j] = Tail(inbox[j])
          /\ msgs' = msgs
      BY <1>4, <2>1 DEF HandleCommand
    <3> QED
      BY <3>1, TailQueue
  <2>2. CASE i # j
    BY <1>4, <2>2 DEF HandleCommand
  <2> QED
    BY <2>1, <2>2
<1>5. ASSUME NEW i \in Workers, FindNonce(i) \/ ScanToEnd(i) PROVE Mentions(j, g)
  <2>1. job'[j] \in {0, job[j]} /\ inbox' = inbox
    BY <1>5 DEF FindNonce, ScanToEnd
  <2> QED
    BY <1>5, <1>c, <2>1 DEF FindNonce, ScanToEnd
<1>6. ASSUME NEW i \in Workers, Crash(i) PROVE Mentions(j, g)
  BY <1>6 DEF Crash
<1>7. ASSUME NEW i \in Workers, DropReport(i) \/ OnExhausted(i) PROVE Mentions(j, g)
  BY <1>7, <1>b DEF DropReport, OnExhausted
<1>8. ASSUME NEW i \in Workers, OnSolved(i) PROVE Mentions(j, g)
  <2>1. inbox' = inbox \/ inbox' = Post(0, inbox)
    BY <1>8 DEF OnSolved, StopCommand
  <2> QED
    BY <1>8, <1>a, <1>b, <2>1, Budgets DEF OnSolved
<1>9. ASSUME NEW i \in Workers, NEW fast \in BOOLEAN, OnExit(i, fast) PROVE Mentions(j, g)
  BY <1>9 DEF OnExit, threadVars
<1>10. ASSUME NEW i \in Workers, RespawnWorker(i)
       PROVE  Mentions(j, g) \/ (g = gen' /\ active' = gen')
  BY <1>10 DEF RespawnWorker, Resumed, poolVars
<1> QED
  BY <1>1, <1>2, <1>3, <1>4, <1>5, <1>6, <1>7, <1>8, <1>9, <1>10
  DEF Next, Thread, Events

(* A generation that has, or had, a template keeps it or is superseded. *)
LEMMA CounterMoves ==
  ASSUME GrindPoolTypeOK, Next
  PROVE  \/ gen' = gen + 1
         \/ gen' = gen /\ (active = gen \/ finished > 0 => active' = gen \/ finished' > 0)
<1>0. PoolTyped /\ HistoryTyped
  BY DEF GrindPoolTypeOK
<1>1. ASSUME NEW shares \in BOOLEAN, Start(shares) \/ Stop \/ Respawn \/ Terminate
      PROVE gen' = gen + 1
  BY <1>1 DEF Start, Stop, Respawn, Terminate
<1>2. ASSUME NEW i \in Workers, Thread(i) \/ DropReport(i) \/ OnSolved(i) \/ RespawnWorker(i)
      PROVE  gen' = gen /\ active' = active /\ finished' = finished
  BY <1>2 DEF Thread, HandleCommand, FindNonce, ScanToEnd, Crash, DropReport,
              OnSolved, RespawnWorker, poolVars, history
<1>3. ASSUME NEW i \in Workers, OnExhausted(i)
      PROVE  gen' = gen /\ (active = gen \/ finished > 0 => active' = gen \/ finished' > 0)
  BY <1>0, <1>3, QuorumOutcome DEF OnExhausted
<1>4. ASSUME NEW i \in Workers, NEW fast \in BOOLEAN, OnExit(i, fast)
      PROVE  gen' = gen /\ (active = gen \/ finished > 0 => active' = gen \/ finished' > 0)
  BY <1>0, <1>4, QuorumOutcome DEF OnExit
<1> QED
  BY <1>1, <1>2, <1>3, <1>4 DEF Next, Events

LEMMA NoneAheadStep ==
  ASSUME GrindPoolTypeOK, NoneAhead, Next
  PROVE  NoneAhead'
<1> SUFFICES ASSUME NEW i \in Workers, NEW g \in 1 .. MaxGen + 1, Mentions(i, g)'
             PROVE  g <= gen' /\ (g = gen' => (active' = gen' \/ finished' > 0))
  BY DEF NoneAhead
<1>1. gen \in Nat
  BY DEF GrindPoolTypeOK, PoolTyped
<1>2. CASE g = gen' /\ active' = gen'
  BY <1>2
<1>3. CASE Mentions(i, g)
  <2>1. g <= gen /\ (g = gen => (active = gen \/ finished > 0))
    BY <1>3 DEF NoneAhead
  <2> QED
    BY <1>1, <2>1, CounterMoves
<1> QED
  BY <1>2, <1>3, MentionsGrow

-----------------------------------------------------------------------------
(* The pool's side of LastCommandActive: generation g may be ground. *)
MayGrind(g) == g = gen /\ (active = gen \/ finished > 0) /\ (continuous \/ ~solved)

LEMMA PostIsLast ==
  ASSUME ThreadsTyped, NEW command \in 0 .. MaxGen, NEW i \in Workers, alive[i]
  PROVE  /\ Post(command, inbox)[i] # <<>>
         /\ Post(command, inbox)[i][Len(Post(command, inbox)[i])] = command
<1>1. Post(command, inbox)[i] = Append(inbox[i], command)
  BY DEF Post
<1>2. inbox[i] \in Seq(0 .. MaxGen)
  BY DEF ThreadsTyped
<1> QED
  BY <1>1, <1>2, AppendQueue

(* A thread's last command is to grind the active template, or nothing. *)
LEMMA LastCommandStep ==
  ASSUME PoolInv, Next
  PROVE  LastCommandActive'
<1> SUFFICES ASSUME NEW j \in Workers, alive'[j], LastCommand(j)' # 0
             PROVE  MayGrind(LastCommand(j))'
  BY DEF LastCommandActive, MayGrind
<1>0. /\ PoolTyped /\ ThreadsTyped /\ HistoryTyped /\ GrindPoolTypeOK
      /\ inbox[j] \in Seq(0 .. MaxGen) /\ gen \in Nat
  BY DEF PoolInv, GrindPoolTypeOK, PoolTyped, ThreadsTyped
<1>00. alive[j] /\ LastCommand(j) # 0 => MayGrind(LastCommand(j))
  BY DEF PoolInv, LastCommandActive, MayGrind
<1> USE <1>0, <1>00
<1>1. ASSUME NEW shares \in BOOLEAN, Start(shares) PROVE MayGrind(LastCommand(j))'
  <2>1. /\ gen + 1 \in 1 .. MaxGen /\ gen' = gen + 1 /\ active' = gen'
        /\ solved' = FALSE
    BY <1>1, Budgets DEF Start, PoolTyped
  <2>2. LastCommand(j)' = gen + 1
    <3>1. CASE workerDown[j]
      <4>1. inbox'[j] = <<gen + 1>>
        BY <1>1, <3>1 DEF Start
      <4> QED
        BY <4>1 DEF LastCommand
    <3>2. CASE ~workerDown[j]
      <4>1. alive[j] /\ inbox'[j] = Post(gen + 1, inbox)[j]
        BY <1>1, <3>2 DEF Start
      <4>2. gen + 1 \in 0 .. MaxGen
        BY <2>1
      <4> QED
        BY <4>1, <4>2, PostIsLast DEF LastCommand
    <3> QED
      BY <3>1, <3>2
  <2> QED
    BY <2>1, <2>2 DEF MayGrind
<1>2. ~Stop
  <2>1. ASSUME Stop PROVE LastCommand(j)' = 0
    <3>1. alive[j] /\ inbox'[j] = Post(0, inbox)[j]
      BY <2>1 DEF Stop, StopCommand
    <3> QED
      BY <3>1, PostIsLast, Budgets DEF LastCommand
  <2> QED
    BY <2>1
<1>3. ~Respawn /\ ~Terminate
  BY DEF Respawn, Terminate, Each, LastCommand
<1>4. ASSUME UNCHANGED <<poolVars, finished>>, alive[j],
             LastCommand(j)' = LastCommand(j)
      PROVE  MayGrind(LastCommand(j))'
  BY <1>4 DEF MayGrind, poolVars
<1>5. ASSUME NEW i \in Workers, HandleCommand(i) PROVE MayGrind(LastCommand(j))'
  <2>1. CASE i = j
    <3>1. inbox[j] # <<>> /\ job'[j] = Head(inbox[j]) /\ inbox'[j] = Tail(inbox[j])
      BY <1>5, <2>1 DEF HandleCommand, ThreadsTyped
    <3>2. LastCommand(j)' = LastCommand(j)
      BY <3>1, TailQueue DEF LastCommand
    <3> QED
      BY <1>4, <1>5, <3>2 DEF HandleCommand, history
  <2>2. CASE i # j
    <3>1. LastCommand(j)' = LastCommand(j)
      BY <1>5, <2>2 DEF HandleCommand, LastCommand, ThreadsTyped
    <3> QED
      BY <1>4, <1>5, <3>1 DEF HandleCommand, history
  <2> QED
    BY <2>1, <2>2
<1>6. ASSUME NEW i \in Workers, FindNonce(i) \/ ScanToEnd(i)
      PROVE  MayGrind(LastCommand(j))'
  <2>1. job'[j] \in {0, job[j]} /\ inbox' = inbox
    BY <1>6 DEF FindNonce, ScanToEnd, ThreadsTyped
  <2>2. LastCommand(j)' = LastCommand(j)
    BY <2>1 DEF LastCommand
  <2> QED
    BY <1>4, <1>6, <2>2 DEF FindNonce, ScanToEnd, history
<1>7. ASSUME NEW i \in Workers, Crash(i) PROVE MayGrind(LastCommand(j))'
  <2>1. i # j /\ alive[j]
    BY <1>7 DEF Crash, ThreadsTyped
  <2>2. LastCommand(j)' = LastCommand(j)
    BY <1>7, <2>1 DEF Crash, LastCommand, ThreadsTyped
  <2> QED
    BY <1>4, <1>7, <2>1, <2>2 DEF Crash, history
<1>8. ASSUME NEW i \in Workers, DropReport(i) PROVE MayGrind(LastCommand(j))'
  BY <1>4, <1>8 DEF DropReport, LastCommand, history
<1>9. ASSUME NEW i \in Workers, OnSolved(i) PROVE MayGrind(LastCommand(j))'
  <2>1. CASE continuous
    BY <1>9, <2>1 DEF OnSolved, LastCommand, MayGrind
  <2>2. CASE ~continuous
    <3>1. alive[j] /\ inbox'[j] = Post(0, inbox)[j]
      BY <1>9, <2>2 DEF OnSolved, StopCommand
    <3>2. LastCommand(j)' = 0
      BY <3>1, PostIsLast, Budgets DEF LastCommand
    <3> QED
      BY <3>2
  <2> QED
    BY <2>1, <2>2
<1>10. ASSUME NEW i \in Workers, NEW fast \in BOOLEAN,
              OnExhausted(i) \/ OnExit(i, fast)
       PROVE  MayGrind(LastCommand(j))'
  <2>1. /\ alive' = alive /\ LastCommand(j)' = LastCommand(j)
        /\ gen' = gen /\ solved' = solved /\ continuous' = continuous
    BY <1>10 DEF OnExhausted, OnExit, threadVars, LastCommand
  <2>2. active = gen \/ finished > 0 => active' = gen \/ finished' > 0
    BY <2>1, CounterMoves
  <2> QED
    BY <2>1, <2>2 DEF MayGrind
<1>11. ASSUME NEW i \in Workers, RespawnWorker(i) PROVE MayGrind(LastCommand(j))'
  <2>1. CASE i = j
    <3>1. job[j] = 0
      BY <1>11, <2>1 DEF RespawnWorker, PoolInv, SlotsConsistent
    <3>2. inbox'[j] = Resumed(j) /\ job'[j] = job[j]
      BY <1>11, <2>1 DEF RespawnWorker, ThreadsTyped
    <3>3. /\ Resumed(j) = <<active>> /\ active = gen
          /\ gen \in shareGens \/ ~solved
      BY <3>1, <3>2 DEF Resumed, LastCommand
    <3>4. continuous \/ ~solved
      BY <3>3 DEF PoolInv, CounterConsistent
    <3>5. LastCommand(j)' = gen
      BY <3>2, <3>3 DEF LastCommand
    <3> QED
      BY <1>11, <3>3, <3>4, <3>5 DEF RespawnWorker, MayGrind, poolVars
  <2>2. CASE i # j
    <3>1. alive[j] /\ LastCommand(j)' = LastCommand(j)
      BY <1>11, <2>2 DEF RespawnWorker, LastCommand, ThreadsTyped
    <3> QED
      BY <1>4, <1>11, <3>1 DEF RespawnWorker, history
  <2> QED
    BY <2>1, <2>2
<1> QED
  BY <1>1, <1>2, <1>3, <1>5, <1>6, <1>7, <1>8, <1>9, <1>10, <1>11
  DEF Next, Thread, Events

-----------------------------------------------------------------------------
(* A generation that is not one of shares is closed by its first solve, and a
   generation without a template has none. *)
LEMMA SolveStep ==
  ASSUME PoolInv, Next
  PROVE  SolveCloses'
<1>0. PoolTyped /\ ThreadsTyped /\ HistoryTyped /\ SolveCloses /\ GrindPoolTypeOK
  BY DEF PoolInv, GrindPoolTypeOK
<1> USE <1>0 DEF SolveCloses
<1>1. ASSUME NEW shares \in BOOLEAN, Start(shares) \/ Stop \/ Respawn \/ Terminate
      PROVE  SolveCloses'
  BY <1>1 DEF Start, Stop, Respawn, Terminate
<1>2. ASSUME NEW i \in Workers, Thread(i) \/ DropReport(i) \/ RespawnWorker(i)
      PROVE  SolveCloses'
  BY <1>2 DEF Thread, HandleCommand, FindNonce, ScanToEnd, Crash, DropReport,
              RespawnWorker, poolVars, history
<1>3. ASSUME NEW i \in Workers, OnSolved(i) PROVE SolveCloses'
  <2>1. /\ gen' = gen /\ active' = active /\ finished' = finished
        /\ continuous' = continuous /\ solved' = (solved \/ ~continuous)
        /\ continuous \/ ~solved
    BY <1>3 DEF OnSolved, FirstHit
  <2>2. active = gen \/ finished > 0
    <3>1. /\ Head(msgs[i]) \in Reports /\ Head(msgs[i]).gen = gen
          /\ 1 \in DOMAIN msgs[i] /\ msgs[i][1] = Head(msgs[i])
      BY <1>3, TailQueue DEF OnSolved, CurrentReport, ThreadsTyped
    <3>2. gen \in 1 .. MaxGen + 1 /\ Mentions(i, gen)
      BY <3>1, Budgets DEF Reports, Mentions
    <3> QED
      BY <3>2 DEF PoolInv, NoneAhead
  <2>3. ~continuous => hits' = 1
    BY <1>3, <2>1 DEF OnSolved, HistoryTyped
  <2>4. ~(active' # gen' /\ finished' = 0)
    BY <2>1, <2>2 DEF HistoryTyped
  <2>5. ~continuous => solved'
    BY <2>1
  <2> QED
    BY <2>1, <2>3, <2>4, <2>5
<1>4. ASSUME NEW i \in Workers, NEW fast \in BOOLEAN,
             OnExhausted(i) \/ OnExit(i, fast)
      PROVE  SolveCloses'
  <2>1. /\ gen' = gen /\ solved' = solved /\ continuous' = continuous /\ hits' = hits
        /\ (active = gen \/ finished > 0) => (active' = gen \/ finished' > 0)
        /\ finished' \in Nat
    BY <1>4, CounterMoves, QuorumOutcome DEF OnExhausted, OnExit, HistoryTyped
  <2> QED
    BY <2>1 DEF HistoryTyped
<1> QED
  BY <1>1, <1>2, <1>3, <1>4 DEF Next, Events

(* Every step of the pool and of its threads keeps the invariant. *)
LEMMA NextPoolInv == PoolInv /\ [Next]_vars => PoolInv'
<1> SUFFICES ASSUME PoolInv, [Next]_vars PROVE PoolInv'
  OBVIOUS
<1>1. CASE Next
  BY <1>1, TypeStep, SlotsStep, CounterStep, NoneAheadStep, LastCommandStep, SolveStep
  DEF PoolInv
<1>2. CASE UNCHANGED vars
  <2>1. GrindPoolTypeOK'
    BY <1>2, TypesUnchanged DEF PoolInv, GrindPoolTypeOK, vars
  <2>2. SlotsConsistent' /\ CounterConsistent'
    BY <1>2 DEF PoolInv, SlotsConsistent, CounterConsistent, vars, poolVars, slotVars,
                threadVars
  <2>3. NoneAhead' /\ SolveCloses'
    BY <1>2 DEF PoolInv, NoneAhead, Mentions, SolveCloses, vars, poolVars,
                threadVars, history
  <2>4. LastCommandActive'
    BY <1>2 DEF PoolInv, LastCommandActive, LastCommand, vars, poolVars,
                threadVars, history
  <2> QED
    BY <2>1, <2>2, <2>3, <2>4 DEF PoolInv
<1> QED
  BY <1>1, <1>2

THEOREM PoolInvariance == Spec => []PoolInv
  BY InitPoolInv, NextPoolInv, PTL DEF Spec

(* "first valid solve per generation wins": the caller of start hears of one
   solve per template at most, and of none for a template it stopped, however
   many threads hit, crash and report late. *)
THEOREM FirstSolveWins == Spec => []OneSolvePerTemplate
<1>1. PoolInv => OneSolvePerTemplate
  BY DEF PoolInv, SolveCloses, OneSolvePerTemplate, GrindPoolTypeOK, HistoryTyped
<1> QED
  BY <1>1, PoolInvariance, PTL

(* A thread that has read its commands grinds the active template or nothing:
   the respawn of a crashed thread never revives a stopped or solved one. *)
THEOREM NoStaleGrind == Spec => []OnlyActiveGround
<1>1. PoolInv => OnlyActiveGround
  BY DEF PoolInv, LastCommandActive, LastCommand, OnlyActiveGround
<1> QED
  BY <1>1, PoolInvariance, PTL

(* The pool's fields, slots and queues keep their types; the crash budget is
   never exceeded. *)
THEOREM GrindPoolTyped == Spec => []GrindPoolTypeOK
  BY PoolInvariance, PTL DEF PoolInv
=============================================================================
