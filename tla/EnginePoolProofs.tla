-------------------------- MODULE EnginePoolProofs --------------------------
(***************************************************************************)
(* Whichever pool of processes grinds, it is a grind service and grinds no    *)
(* range twice over, for any number of ranges, budgets and generations.      *)
(*                                                                         *)
(* The native pool's invariant follows every range of the active template:   *)
(* it is scanned, down for good, in the hands of one process, waiting for its *)
(* respawn, or its spawn threw, and the pool's two counters count the first   *)
(* two. The quorum that ends the template is then reached exactly when no    *)
(* range is left, and a range whose end was printed has nothing that could    *)
(* start it again before the line is read.                                   *)
(*                                                                         *)
(* What has to be carried along for the CUDA pool also holds after a solve,   *)
(* when a late timer may still spawn: a range is at no two of the five places *)
(* at once. It is this that keeps the first slot of a range free for          *)
(* spawnChild.                                                             *)
(***************************************************************************)
EXTENDS EnginePool, FiniteSetTheorems, SequenceTheorems, TLAPS

-----------------------------------------------------------------------------
(* The native pool. *)

Lines == {"SOLVED", "EXHAUSTED"}

HasChild(i) == <<i, 1>> \in children /\ ~final[<<i, 1>>]

(* Range i stands at exactly one of five places. *)
StandsOnce(i) ==
  /\ i \in scanned \/ childDown[i] \/ HasChild(i) \/ timer[i] # 0 \/ i \in lost
  /\ i \in scanned => ~childDown[i] /\ ~HasChild(i) /\ timer[i] = 0 /\ i \notin lost
  /\ childDown[i] => ~HasChild(i) /\ timer[i] = 0 /\ i \notin lost
  /\ HasChild(i) => timer[i] = 0 /\ i \notin lost
  /\ timer[i] # 0 => i \notin lost

(* A range has one process; only a process the pool listens to and has not
   heard the end of runs; a final one has nothing left to say. *)
ProcsConsistent ==
  /\ \A p \in children : p[2] = 1
  /\ \A p \in Procs : up[p] => p \in children /\ ~final[p]
  /\ \A p \in children : final[p] => lines[p] = <<>>

(* EXHAUSTED is a process's last line. *)
LastLine ==
  \A p \in Procs : \A k \in DOMAIN lines[p] :
    lines[p][k] = "EXHAUSTED" => k = Len(lines[p]) /\ p[1] \in ended /\ ~up[p]

EndsExhausted(q) == q # <<>> /\ q[Len(q)] = "EXHAUSTED"

(* A range scanned to its end is at rest, and the pool has been or will be told. *)
EndedConsistent ==
  /\ scanned \subseteq ended
  /\ \A i \in ended :
       /\ timer[i] = 0 /\ ~up[<<i, 1>>]
       /\ HasChild(i) => EndsExhausted(lines[<<i, 1>>])

(* While a template is ground the counters tell how many ranges are left. *)
Counted ==
  Grinding =>
    /\ ~solved /\ outcome = "none" /\ expected = Cardinality(Workers)
    /\ exhausted = Cardinality(scanned) /\ down = Cardinality(Down)
    /\ \A i \in Workers : StandsOnce(i) /\ (~childDown[i] => crashes[i] < MaxCrashes)

(* Without one, nobody has anything to say. *)
Quiet == ~Grinding => \A p \in children : final[p]

NativeInv ==
  /\ NativePoolTypeOK /\ ProcsConsistent /\ LastLine /\ EndedConsistent
  /\ Counted /\ Quiet

-----------------------------------------------------------------------------
LEMMA Constants ==
  /\ IsFiniteSet(Workers) /\ Workers # {}
  /\ MaxFastFails \in Nat \ {0} /\ MaxCrashes \in Nat \ {0}
  /\ MaxGen \in Nat \ {0} /\ MaxLines \in Nat \ {0}
  /\ Cardinality(Workers) \in Nat \ {0}
<1>1. IsFiniteSet(Workers) /\ Workers # {}
  BY ProcessPoolAssumption
<1>2. Cardinality(Workers) \in Nat /\ Cardinality(Workers) # 0
  BY <1>1, FS_CardinalityType, FS_EmptySet
<1> QED
  BY <1>1, <1>2, ProcessPoolAssumption, NativePoolAssumption

(* A process is named by its range. *)
LEMMA ProcPairs ==
  /\ \A p \in Procs : p[1] \in Workers /\ (p[2] = 1 => p = <<p[1], 1>>)
  /\ \A i \in Workers : <<i, 1>> \in Procs /\ <<i, 2>> \in Procs
                        /\ <<i, 1>>[1] = i /\ <<i, 1>>[2] = 1
  BY DEF Procs

(* A queue behind a new line, and behind the first. *)
LEMMA AppendLine ==
  ASSUME NEW q \in Seq(Lines), NEW e \in Lines
  PROVE  /\ Append(q, e) \in Seq(Lines) /\ Append(q, e) # <<>>
         /\ Append(q, e)[Len(Append(q, e))] = e
         /\ \A k \in DOMAIN Append(q, e) :
              \/ k = Len(Append(q, e)) /\ Append(q, e)[k] = e
              \/ k \in DOMAIN q /\ Append(q, e)[k] = q[k]
  OBVIOUS

LEMMA TailLine ==
  ASSUME NEW q \in Seq(Lines), q # <<>>
  PROVE  /\ Tail(q) \in Seq(Lines) /\ 1 \in DOMAIN q /\ Head(q) = q[1]
         /\ Tail(q) = <<>> => q[Len(q)] = Head(q)
         /\ Tail(q) # <<>> => Tail(q)[Len(Tail(q))] = q[Len(q)]
         /\ \A k \in DOMAIN q : k = Len(q) /\ k = 1 => Tail(q) = <<>>
         /\ \A k \in DOMAIN Tail(q) : k + 1 = Len(q) => k = Len(Tail(q))
         /\ \A k \in DOMAIN Tail(q) : k + 1 \in DOMAIN q /\ Tail(q)[k] = q[k + 1]
<1>1. /\ Tail(q) \in Seq(Lines) /\ Len(Tail(q)) = Len(q) - 1
      /\ \A k \in 1 .. Len(Tail(q)) : Tail(q)[k] = q[k + 1]
  BY HeadTailProperties
<1>2. Len(q) \in Nat \ {0} /\ DOMAIN q = 1 .. Len(q) /\ Head(q) = q[1]
  OBVIOUS
<1>3. Len(Tail(q)) \in Nat /\ DOMAIN Tail(q) = 1 .. Len(Tail(q))
  BY <1>1
<1>4. Len(Tail(q)) = 0 <=> Tail(q) = <<>>
  BY <1>1
<1>5. Tail(q) = <<>> => q[Len(q)] = Head(q)
  BY <1>1, <1>2, <1>3, <1>4
<1>6. Tail(q) # <<>> => Tail(q)[Len(Tail(q))] = q[Len(q)]
  <2>1. Tail(q) # <<>> => Len(Tail(q)) \in 1 .. Len(Tail(q))
    BY <1>3, <1>4
  <2>2. Len(Tail(q)) + 1 = Len(q)
    BY <1>1, <1>2
  <2> QED
    BY <1>1, <2>1, <2>2
<1> QED
  BY <1>1, <1>2, <1>3, <1>4, <1>5, <1>6

(* Two disjoint sets of ranges fill the template when their sizes add up. *)
LEMMA Quorum ==
  ASSUME NEW A, A \subseteq Workers, NEW B, B \subseteq Workers, A \intersect B = {}
  PROVE  /\ Cardinality(A) \in Nat /\ Cardinality(B) \in Nat
         /\ Cardinality(A) + Cardinality(B) >= Cardinality(Workers)
              <=> Workers \ (A \union B) = {}
<1>1. IsFiniteSet(A) /\ IsFiniteSet(B) /\ IsFiniteSet(A \union B)
  BY Constants, FS_Subset, A \union B \subseteq Workers
<1>2. /\ Cardinality(A) \in Nat /\ Cardinality(B) \in Nat
      /\ Cardinality(A \union B) \in Nat /\ Cardinality(Workers) \in Nat
  BY <1>1, Constants, FS_CardinalityType
<1>3. Cardinality(A \union B) = Cardinality(A) + Cardinality(B)
  <2>1. Cardinality(A \intersect B) = 0
    BY FS_EmptySet
  <2>2. Cardinality(A \union B)
          = Cardinality(A) + Cardinality(B) - Cardinality(A \intersect B)
    BY <1>1, FS_Union
  <2> QED
    BY <1>2, <2>1, <2>2
<1>4. Cardinality(A \union B) <= Cardinality(Workers)
  BY Constants, FS_Subset, A \union B \subseteq Workers
<1>5. Cardinality(A \union B) = Cardinality(Workers) <=> A \union B = Workers
  BY Constants, FS_Subset, A \union B \subseteq Workers
<1> QED
  BY <1>2, <1>3, <1>4, <1>5

LEMMA OneMore ==
  ASSUME NEW A, A \subseteq Workers, NEW i \in Workers, i \notin A
  PROVE  Cardinality(A \union {i}) = Cardinality(A) + 1
<1>1. IsFiniteSet(A)
  BY Constants, FS_Subset
<1> QED
  BY <1>1, FS_AddElement

(* The invariant says what the properties say. *)
LEMMA InvImpliesProperties == NativeInv => EachRangeOnce /\ ScannedOnce
<1> SUFFICES ASSUME NativeInv PROVE EachRangeOnce /\ ScannedOnce
  OBVIOUS
<1> USE DEF NativeInv
<1>1. ASSUME NEW i \in ended, NEW p \in Procs, p[1] = i, up[p] PROVE FALSE
  BY <1>1, ProcPairs DEF ProcsConsistent, EndedConsistent
<1>2. ScannedOnce
  BY <1>1 DEF ScannedOnce, EndedConsistent
<1>3. ASSUME Grinding PROVE EachRangeOnce
  <2>1. \A i \in Workers : i \in Ground <=> HasChild(i)
    <3>1. children \subseteq Procs /\ \A p \in children : p = <<p[1], 1>>
      BY ProcPairs DEF ProcsConsistent, NativePoolTypeOK
    <3>2. ASSUME NEW i \in Workers, i \in Ground PROVE HasChild(i)
      <4>1. PICK p \in children : ~final[p] /\ p[1] = i
        BY <3>2 DEF Ground
      <4> QED
        BY <4>1, <3>1 DEF HasChild
    <3>3. ASSUME NEW i \in Workers, HasChild(i) PROVE i \in Ground
      <4>1. <<i, 1>> \in {c \in children : ~final[c]} /\ <<i, 1>>[1] = i
        BY <3>3 DEF HasChild
      <4> QED
        BY <4>1 DEF Ground
    <3> QED
      BY <3>2, <3>3
  <2>2. /\ \A i \in Workers : i \in Down <=> childDown[i]
        /\ \A i \in Workers : i \in Waiting <=> timer[i] # 0
    BY DEF Down, Waiting
  <2>3. /\ scanned \subseteq Workers /\ Down \subseteq Workers
        /\ Ground \subseteq Workers /\ Waiting \subseteq Workers
    BY ProcPairs DEF Down, Ground, Waiting, NativePoolTypeOK
  <2>4. \A i \in Workers : StandsOnce(i)
    BY <1>3 DEF Counted
  <2> DEFINE places == <<scanned, Down, Ground, Waiting, lost>>
  <2>5. /\ places[1] = scanned /\ places[2] = Down /\ places[3] = Ground
        /\ places[4] = Waiting /\ places[5] = lost
    OBVIOUS
  <2> HIDE DEF places
  <2>6. \A i \in Workers : \E k \in 1 .. 5 : i \in places[k]
    <3> TAKE i \in Workers
    <3>1. i \in scanned \/ i \in Down \/ i \in Ground \/ i \in Waiting \/ i \in lost
      BY <2>1, <2>2, <2>4 DEF StandsOnce
    <3> QED
      BY <3>1, <2>5
  <2>7. /\ scanned \intersect Down = {} /\ scanned \intersect Ground = {}
        /\ scanned \intersect Waiting = {} /\ scanned \intersect lost = {}
        /\ Down \intersect Ground = {} /\ Down \intersect Waiting = {}
        /\ Down \intersect lost = {} /\ Ground \intersect Waiting = {}
        /\ Ground \intersect lost = {} /\ Waiting \intersect lost = {}
    BY <2>1, <2>2, <2>3, <2>4 DEF StandsOnce
  <2>8. \A j, k \in 1 .. 5 : j # k => places[j] \intersect places[k] = {}
    BY <2>5, <2>7
  <2> QED
    BY <1>3, <2>6, <2>8 DEF EachRangeOnce, places
<1>4. ASSUME ~Grinding PROVE EachRangeOnce
  BY <1>4 DEF EachRangeOnce, ProcsConsistent, Quiet
<1> QED
  BY <1>2, <1>3, <1>4

-----------------------------------------------------------------------------
(* The steps, one lemma each: the invariant is kept and the step is one the
   grind service allows. *)

ServiceStep == [Service!Next]_(Service!serviceVars)

Todo == IF Grinding THEN Workers \ (scanned \union Down) ELSE {}

LEMMA FreshProcs ==
  ASSUME NEW ps, ps \subseteq Workers \X {1}, OnlyFresh(ps)
  PROVE  /\ children' \subseteq Procs
         /\ up' \in [Procs -> BOOLEAN] /\ final' \in [Procs -> BOOLEAN]
         /\ lines' \in [Procs -> Seq(Lines)]
         /\ ProcsConsistent' /\ LastLine'
         /\ \A i \in Workers : HasChild(i)' <=> <<i, 1>> \in ps
<1>1. /\ children' = ps /\ up' = [p \in Procs |-> p \in ps]
      /\ lines' = [p \in Procs |-> <<>>] /\ final' = [p \in Procs |-> FALSE]
  BY DEF OnlyFresh
<1>2. ps \subseteq Procs /\ \A p \in ps : p[2] = 1
  BY DEF Procs
<1>3. lines' \in [Procs -> Seq(Lines)]
  <2>1. <<>> \in Seq(Lines)
    OBVIOUS
  <2> QED
    BY <1>1, <2>1
<1>4. ProcsConsistent'
  BY <1>1, <1>2 DEF ProcsConsistent
<1>5. LastLine'
  BY <1>1 DEF LastLine
<1>6. \A i \in Workers : HasChild(i)' <=> <<i, 1>> \in ps
  BY <1>1, ProcPairs DEF HasChild
<1> QED
  BY <1>1, <1>2, <1>3, <1>4, <1>5, <1>6

LEMMA InitStep == Init => NativeInv /\ Service!Init
<1> SUFFICES ASSUME Init PROVE NativeInv /\ Service!Init
  OBVIOUS
<1> USE DEF Init, Each
<1>1. ~Grinding
  BY DEF Grinding
<1>2. NativePoolTypeOK
  <2>1. <<>> \in Seq(Lines)
    OBVIOUS
  <2>2. lines \in [Procs -> Seq({"SOLVED", "EXHAUSTED"})]
    BY <2>1 DEF Lines
  <2>3. 0 \in 0 .. MaxGen /\ 0 \in 0 .. MaxCrashes
    BY Constants
  <2> QED
    BY <2>2, <2>3 DEF NativePoolTypeOK
<1>3. ProcsConsistent /\ LastLine /\ EndedConsistent
  BY DEF ProcsConsistent, LastLine, EndedConsistent
<1>4. Counted /\ Quiet
  BY <1>1 DEF Counted, Quiet
<1>5. Service!Init
  BY <1>1 DEF Service!Init, Service!Idle
<1> QED
  BY <1>2, <1>3, <1>4, <1>5 DEF NativeInv

LEMMA StartStep ==
  ASSUME NativeInv, NEW shares \in BOOLEAN, NEW threw \in SUBSET Workers,
         Start(shares, threw)
  PROVE  NativeInv' /\ ServiceStep
<1>1. /\ gen < MaxGen /\ gen' = gen + 1 /\ active' = gen + 1
      /\ solved' = FALSE /\ continuous' = shares
      /\ exhausted' = 0 /\ down' = 0 /\ expected' = Cardinality(Workers)
      /\ childDown' = Each(FALSE) /\ fails' = Each(0) /\ crashes' = Each(0)
      /\ timer' = Each(0) /\ OnlyFresh((Workers \ threw) \X {1})
      /\ scanned' = {} /\ ended' = {} /\ lost' = threw /\ outcome' = "none"
  BY DEF Start, NewGeneration, ResetCounters, ClearPendingRespawns
<1>2. gen \in Nat /\ gen' \in 0 .. MaxGen /\ gen' # 0
  BY <1>1, Constants DEF NativeInv, NativePoolTypeOK
<1>3. (Workers \ threw) \X {1} \subseteq Workers \X {1}
  OBVIOUS
<1>4. /\ children' \subseteq Procs
      /\ up' \in [Procs -> BOOLEAN] /\ final' \in [Procs -> BOOLEAN]
      /\ lines' \in [Procs -> Seq(Lines)]
      /\ ProcsConsistent' /\ LastLine'
      /\ \A i \in Workers : HasChild(i)' <=> <<i, 1>> \in (Workers \ threw) \X {1}
  BY <1>1, <1>3, FreshProcs
<1>5. Grinding'
  BY <1>1, <1>2 DEF Grinding
<1>6. NativePoolTypeOK'
  <2>1. /\ childDown' \in [Workers -> BOOLEAN] /\ fails' \in [Workers -> Nat]
        /\ crashes' \in [Workers -> 0 .. MaxCrashes]
        /\ timer' \in [Workers -> {0, gen'}]
    BY <1>1, Constants DEF Each
  <2> QED
    BY <1>1, <1>2, <1>4, <2>1 DEF NativePoolTypeOK, Lines
<1>7. EndedConsistent'
  BY <1>1 DEF EndedConsistent
<1>8. Counted'
  <2>1. Down' = {} /\ Cardinality({}) = 0
    BY <1>1, FS_EmptySet DEF Down, Each
  <2>2. \A i \in Workers : StandsOnce(i)' /\ (~childDown'[i] => crashes'[i] < MaxCrashes)
    <3> TAKE i \in Workers
    <3>1. HasChild(i)' <=> i \notin threw
      BY <1>4
    <3> QED
      BY <1>1, <3>1, Constants DEF StandsOnce, Each
  <2> QED
    BY <1>1, <2>1, <2>2 DEF Counted
<1>9. Quiet'
  BY <1>5 DEF Quiet
<1>10. ServiceStep
  <2>1. Down' = {}
    BY <1>1 DEF Down, Each
  <2>2. Service!Begin
    BY <1>1, <1>5, <2>1 DEF Service!Begin
  <2> QED
    BY <2>2 DEF ServiceStep, Service!Next
<1> QED
  BY <1>4, <1>6, <1>7, <1>8, <1>9, <1>10 DEF NativeInv

LEMMA AbandonStep ==
  ASSUME NativeInv, Stop \/ Respawn
  PROVE  NativeInv' /\ ServiceStep
<1>1. /\ gen < MaxGen /\ gen' = gen + 1 /\ active' = 0
      /\ solved' = TRUE /\ continuous' = FALSE
      /\ exhausted' = 0 /\ down' = 0 /\ expected' = 0
      /\ childDown' = childDown /\ timer' = Each(0) /\ OnlyFresh({})
      /\ scanned' = {} /\ ended' = {} /\ lost' = {} /\ outcome' = "none"
  BY DEF Stop, Respawn, Abandon, NewGeneration, ResetCounters, ClearPendingRespawns,
         KillChildren
<1>2. /\ fails' = fails \/ fails' = Each(0)
      /\ crashes' = crashes \/ crashes' = Each(0)
  BY DEF Stop, Respawn
<1>3. gen \in Nat /\ gen' \in 0 .. MaxGen
  BY <1>1, Constants DEF NativeInv, NativePoolTypeOK
<1>4. /\ children' \subseteq Procs
      /\ up' \in [Procs -> BOOLEAN] /\ final' \in [Procs -> BOOLEAN]
      /\ lines' \in [Procs -> Seq(Lines)]
      /\ ProcsConsistent' /\ LastLine'
  BY <1>1, FreshProcs
<1>5. ~Grinding' /\ children' = {}
  BY <1>1 DEF Grinding, OnlyFresh
<1>6. NativePoolTypeOK'
  <2>1. /\ childDown' \in [Workers -> BOOLEAN] /\ fails' \in [Workers -> Nat]
        /\ crashes' \in [Workers -> 0 .. MaxCrashes]
        /\ timer' \in [Workers -> {0, gen'}]
    BY <1>1, <1>2, Constants DEF Each, NativeInv, NativePoolTypeOK
  <2> QED
    BY <1>1, <1>3, <1>4, <2>1 DEF NativePoolTypeOK, Lines
<1>7. EndedConsistent' /\ Counted' /\ Quiet'
  BY <1>1, <1>5 DEF EndedConsistent, Counted, Quiet
<1>8. Service!Abort
  BY <1>1, <1>5 DEF Service!Abort, Service!Idle
<1> QED
  BY <1>4, <1>6, <1>7, <1>8 DEF NativeInv, ServiceStep, Service!Next

(* A step that changes neither the pool's records nor the histories the
   service is made of is invisible to its caller. *)
LEMMA Invisible ==
  ASSUME UNCHANGED <<poolVars, childDown, scanned, outcome>>
  PROVE  ServiceStep /\ Grinding' = Grinding
<1>1. Grinding' = Grinding
  BY DEF Grinding, poolVars
<1>2. Down' = Down
  BY DEF Down
<1>3. UNCHANGED Service!serviceVars
  BY <1>1, <1>2 DEF Service!serviceVars, poolVars
<1> QED
  BY <1>1, <1>3 DEF ServiceStep

(* A running process grinds a range of the active template. *)
LEMMA Running ==
  ASSUME NativeInv, NEW p \in Procs, up[p]
  PROVE  /\ p \in children /\ p = <<p[1], 1>> /\ p[1] \in Workers
         /\ HasChild(p[1]) /\ Grinding /\ timer[p[1]] = 0
<1>1. p \in children /\ ~final[p] /\ p = <<p[1], 1>> /\ p[1] \in Workers
  BY ProcPairs DEF NativeInv, ProcsConsistent
<1>2. HasChild(p[1])
  BY <1>1 DEF HasChild
<1>3. Grinding
  BY <1>1 DEF NativeInv, Quiet
<1>4. timer[p[1]] = 0
  BY <1>1, <1>2, <1>3 DEF NativeInv, Counted, StandsOnce
<1> QED
  BY <1>1, <1>2, <1>3, <1>4

LEMMA ProcessStep ==
  ASSUME NativeInv, NEW p \in Procs, Process(p)
  PROVE  NativeInv' /\ ServiceStep
<1>1. /\ UNCHANGED <<poolVars, slotVars, children, final, scanned, lost, outcome>>
      /\ up[p] /\ \E b \in BOOLEAN : up' = [up EXCEPT ![p] = b]
  BY DEF Process, Hit, ScanToEnd, Crash, WriteLine, history, NativeInv, NativePoolTypeOK
<1>2. /\ p \in children /\ p = <<p[1], 1>> /\ p[1] \in Workers
      /\ HasChild(p[1]) /\ Grinding /\ timer[p[1]] = 0
  BY <1>1, Running
<1>3. /\ lines \in [Procs -> Seq(Lines)] /\ up \in [Procs -> BOOLEAN]
      /\ final \in [Procs -> BOOLEAN] /\ children \subseteq Procs
  BY DEF NativeInv, NativePoolTypeOK, Lines
<1>4. \/ lines' = lines /\ ended' = ended /\ ~up'[p]
      \/ lines' = [lines EXCEPT ![p] = Append(@, "SOLVED")] /\ ended' = ended
      \/ /\ lines' = [lines EXCEPT ![p] = Append(@, "EXHAUSTED")]
         /\ ended' = ended \union {p[1]} /\ ~up'[p]
  BY <1>3 DEF Process, Hit, ScanToEnd, Crash, WriteLine, history
<1>5. lines' \in [Procs -> Seq(Lines)]
  <2>1. \A e \in Lines : Append(lines[p], e) \in Seq(Lines)
    BY <1>3
  <2> QED
    BY <1>3, <1>4, <2>1 DEF Lines
<1>6. NativePoolTypeOK'
  <2>1. up' \in [Procs -> BOOLEAN]
    BY <1>1, <1>3
  <2>2. ended' \subseteq Workers
    BY <1>2, <1>4 DEF NativeInv, NativePoolTypeOK
  <2> QED
    BY <1>1, <1>5, <2>1, <2>2
    DEF NativeInv, NativePoolTypeOK, Lines, poolVars, slotVars
<1>7. ProcsConsistent'
  <2>1. \A q \in Procs : q # p => lines'[q] = lines[q] /\ up'[q] = up[q]
    BY <1>1, <1>3, <1>4
  <2>2. ~final[p]
    BY <1>1 DEF NativeInv, ProcsConsistent
  <2> QED
    BY <1>1, <1>2, <1>3, <2>1, <2>2 DEF NativeInv, ProcsConsistent
<1>8. p[1] \notin ended
  BY <1>1, <1>2 DEF NativeInv, EndedConsistent
<1>9. LastLine'
  <2> SUFFICES ASSUME NEW q \in Procs, NEW k \in DOMAIN lines'[q],
                      lines'[q][k] = "EXHAUSTED"
               PROVE  k = Len(lines'[q]) /\ q[1] \in ended' /\ ~up'[q]
    BY DEF LastLine
  <2>1. ended \subseteq ended'
    BY <1>4
  <2>2. CASE q # p
    <3>1. lines'[q] = lines[q] /\ up'[q] = up[q]
      BY <2>2, <1>1, <1>3, <1>4
    <3> QED
      BY <3>1, <2>1 DEF NativeInv, LastLine
  <2>3. CASE q = p
    <3>1. \A j \in DOMAIN lines[p] : lines[p][j] # "EXHAUSTED"
      BY <1>8 DEF NativeInv, LastLine
    <3>2. CASE lines' = lines
      BY <2>3, <3>1, <3>2
    <3>3. CASE lines' = [lines EXCEPT ![p] = Append(@, "SOLVED")]
      <4>1. lines'[p] = Append(lines[p], "SOLVED") /\ lines[p] \in Seq(Lines)
        BY <1>3, <3>3
      <4> QED
        BY <2>3, <3>1, <4>1, AppendLine DEF Lines
    <3>4. CASE /\ lines' = [lines EXCEPT ![p] = Append(@, "EXHAUSTED")]
               /\ ended' = ended \union {p[1]} /\ ~up'[p]
      <4>1. lines'[p] = Append(lines[p], "EXHAUSTED") /\ lines[p] \in Seq(Lines)
        BY <1>3, <3>4
      <4>2. k = Len(lines'[p])
        BY <2>3, <3>1, <4>1, AppendLine DEF Lines
      <4> QED
        BY <2>3, <3>4, <4>2
    <3> QED
      BY <1>4, <3>2, <3>3, <3>4
  <2> QED
    BY <2>2, <2>3
<1>10. EndedConsistent'
  <2>1. scanned' \subseteq ended'
    BY <1>1, <1>4 DEF NativeInv, EndedConsistent
  <2>2. ASSUME NEW i \in ended' PROVE timer'[i] = 0 /\ ~up'[<<i, 1>>]
                                    /\ (HasChild(i)' => EndsExhausted(lines'[<<i, 1>>]))
    <3>1. CASE i \in ended
      <4>1. i # p[1] /\ i \in Workers /\ <<i, 1>> \in Procs /\ <<i, 1>> # p
        BY <1>8, <3>1, ProcPairs DEF NativeInv, NativePoolTypeOK
      <4>2. lines'[<<i, 1>>] = lines[<<i, 1>>] /\ up'[<<i, 1>>] = up[<<i, 1>>]
        BY <4>1, <1>1, <1>3, <1>4
      <4>3. timer' = timer /\ (HasChild(i)' <=> HasChild(i))
        BY <1>1 DEF slotVars, HasChild
      <4> QED
        BY <3>1, <4>2, <4>3 DEF NativeInv, EndedConsistent
    <3>2. CASE i \notin ended
      <4>1. /\ lines' = [lines EXCEPT ![p] = Append(@, "EXHAUSTED")]
            /\ i = p[1] /\ ~up'[p] /\ <<i, 1>> = p
        BY <2>2, <3>2, <1>4, <1>2
      <4>2. lines'[p] = Append(lines[p], "EXHAUSTED") /\ lines[p] \in Seq(Lines)
        BY <4>1, <1>3
      <4>3. EndsExhausted(lines'[p])
        BY <4>2, AppendLine DEF Lines, EndsExhausted
      <4> QED
        BY <4>1, <4>3, <1>1, <1>2 DEF slotVars
    <3> QED
      BY <3>1, <3>2
  <2> QED
    BY <2>1, <2>2 DEF EndedConsistent
<1>11. ServiceStep /\ Grinding' = Grinding
  BY <1>1, Invisible DEF slotVars
<1>12. Counted' /\ Quiet'
  <2>1. \A i \in Workers : StandsOnce(i)' <=> StandsOnce(i)
    BY <1>1 DEF StandsOnce, HasChild, slotVars
  <2>2. Down' = Down
    BY <1>1 DEF Down, slotVars
  <2> QED
    BY <1>1, <1>11, <2>1, <2>2
    DEF NativeInv, Counted, Quiet, poolVars, slotVars
<1> QED
  BY <1>6, <1>7, <1>9, <1>10, <1>11, <1>12 DEF NativeInv

(* Reading a line leaves the queues as the invariant wants them. *)
LEMMA ConsumeLine ==
  ASSUME NativeInv, NEW p \in children, lines[p] # <<>>, Consume(p),
         UNCHANGED <<children, up, ended>>,
         \A q \in Procs : q # p => final'[q] = final[q],
         final' \in [Procs -> BOOLEAN]
  PROVE  /\ p \in Procs /\ p = <<p[1], 1>> /\ p[1] \in Workers /\ HasChild(p[1])
         /\ Grinding /\ lines' \in [Procs -> Seq(Lines)] /\ LastLine'
         /\ \A q \in Procs : q # p => lines'[q] = lines[q]
         /\ Head(lines[p]) = "EXHAUSTED"
              => lines'[p] = <<>> /\ p[1] \in ended /\ ~up[p]
         /\ Head(lines[p]) = "SOLVED" /\ EndsExhausted(lines[p])
              => EndsExhausted(lines'[p])
<1>1. /\ lines \in [Procs -> Seq(Lines)] /\ children \subseteq Procs
      /\ p \in Procs /\ p = <<p[1], 1>> /\ p[1] \in Workers /\ ~final[p]
  BY ProcPairs DEF NativeInv, NativePoolTypeOK, ProcsConsistent, Lines
<1>2. HasChild(p[1]) /\ Grinding
  BY <1>1 DEF HasChild, NativeInv, Quiet
<1>3. /\ lines' = [lines EXCEPT ![p] = Tail(@)] /\ lines'[p] = Tail(lines[p])
      /\ \A q \in Procs : q # p => lines'[q] = lines[q]
  BY <1>1 DEF Consume
<1> DEFINE old == lines[p]
<1>4. old \in Seq(Lines) /\ old # <<>>
  BY <1>1
<1>5. /\ Tail(old) \in Seq(Lines) /\ 1 \in DOMAIN old /\ Head(old) = old[1]
      /\ Tail(old) = <<>> => old[Len(old)] = Head(old)
      /\ Tail(old) # <<>> => Tail(old)[Len(Tail(old))] = old[Len(old)]
      /\ \A k \in DOMAIN old : k = Len(old) /\ k = 1 => Tail(old) = <<>>
      /\ \A k \in DOMAIN Tail(old) : k + 1 = Len(old) => k = Len(Tail(old))
      /\ \A k \in DOMAIN Tail(old) : k + 1 \in DOMAIN old /\ Tail(old)[k] = old[k + 1]
  BY <1>4, TailLine
<1>6. lines' \in [Procs -> Seq(Lines)]
  BY <1>1, <1>3, <1>5
<1>7. LastLine'
  <2> SUFFICES ASSUME NEW q \in Procs, NEW k \in DOMAIN lines'[q],
                      lines'[q][k] = "EXHAUSTED"
               PROVE  k = Len(lines'[q]) /\ q[1] \in ended' /\ ~up'[q]
    BY DEF LastLine
  <2>1. CASE q # p
    BY <1>3, <2>1 DEF NativeInv, LastLine
  <2>2. CASE q = p
    <3>1. k + 1 \in DOMAIN old /\ old[k + 1] = "EXHAUSTED"
      BY <1>3, <1>5, <2>2
    <3>2. k + 1 = Len(old) /\ p[1] \in ended /\ ~up[p]
      BY <1>1, <3>1 DEF NativeInv, LastLine
    <3> QED
      BY <1>3, <1>5, <2>2, <3>2
  <2> QED
    BY <2>1, <2>2
<1>8. ASSUME Head(old) = "EXHAUSTED"
      PROVE  lines'[p] = <<>> /\ p[1] \in ended /\ ~up[p]
  <2>1. 1 = Len(old) /\ p[1] \in ended /\ ~up[p]
    BY <1>1, <1>5, <1>8 DEF NativeInv, LastLine
  <2> QED
    BY <1>3, <1>5, <2>1
<1>9. ASSUME Head(old) = "SOLVED", EndsExhausted(old) PROVE EndsExhausted(lines'[p])
  BY <1>3, <1>5, <1>9 DEF EndsExhausted
<1> QED
  BY <1>1, <1>2, <1>3, <1>6, <1>7, <1>8, <1>9

LEMMA ShareStep ==
  ASSUME NativeInv, NEW p \in Procs, OnShare(p)
  PROVE  NativeInv' /\ ServiceStep
<1>1. /\ p \in children /\ lines[p] # <<>> /\ Head(lines[p]) = "SOLVED" /\ Consume(p)
      /\ UNCHANGED <<poolVars, slotVars, children, up, final, history>>
  BY DEF OnShare, NextLine
<1>2. /\ p = <<p[1], 1>> /\ p[1] \in Workers /\ HasChild(p[1])
      /\ lines' \in [Procs -> Seq(Lines)] /\ LastLine'
      /\ \A q \in Procs : q # p => lines'[q] = lines[q]
      /\ EndsExhausted(lines[p]) => EndsExhausted(lines'[p])
  BY <1>1, ConsumeLine DEF history, NativeInv, NativePoolTypeOK
<1>3. NativePoolTypeOK'
  BY <1>1, <1>2 DEF NativeInv, NativePoolTypeOK, Lines, poolVars, slotVars, history
<1>4. ProcsConsistent'
  <2>1. ~final[p] /\ children \subseteq Procs
    BY <1>1 DEF NativeInv, NativePoolTypeOK, ProcsConsistent
  <2> QED
    BY <1>1, <1>2, <2>1 DEF NativeInv, ProcsConsistent
<1>5. EndedConsistent'
  <2> SUFFICES ASSUME NEW i \in ended, HasChild(i) PROVE EndsExhausted(lines'[<<i, 1>>])
    BY <1>1 DEF NativeInv, EndedConsistent, slotVars, history, HasChild
  <2>1. EndsExhausted(lines[<<i, 1>>]) /\ <<i, 1>> \in Procs
    BY ProcPairs DEF NativeInv, NativePoolTypeOK, EndedConsistent
  <2> QED
    BY <1>2, <2>1
<1>6. ServiceStep /\ Grinding' = Grinding
  BY <1>1, Invisible DEF slotVars, history
<1>7. Counted' /\ Quiet'
  <2>1. \A i \in Workers : StandsOnce(i)' <=> StandsOnce(i)
    BY <1>1 DEF StandsOnce, HasChild, slotVars, history
  <2>2. Down' = Down
    BY <1>1 DEF Down, slotVars
  <2> QED
    BY <1>1, <1>6, <2>1, <2>2
    DEF NativeInv, Counted, Quiet, poolVars, slotVars, history
<1> QED
  BY <1>2, <1>3, <1>4, <1>5, <1>6, <1>7 DEF NativeInv

LEMMA SolvedStep ==
  ASSUME NativeInv, NEW p \in Procs, OnSolved(p)
  PROVE  NativeInv' /\ ServiceStep
<1>1. /\ p \in children /\ lines[p] # <<>> /\ ~continuous
      /\ solved' = TRUE /\ outcome' = Called("solved") /\ OnlyFresh({})
      /\ UNCHANGED <<gen, exhausted, down, expected, active, continuous, slotVars,
                     scanned, ended, lost>>
  BY DEF OnSolved, NextLine, KillChildren
<1>2. ~final[p]
  BY <1>1 DEF NativeInv, ProcsConsistent
<1>3. Grinding /\ outcome = "none"
  BY <1>1, <1>2 DEF NativeInv, Quiet, Counted
<1>4. outcome' = "solved" /\ ~Grinding' /\ children' = {}
  BY <1>1, <1>3 DEF Called, Grinding, OnlyFresh
<1>5. /\ children' \subseteq Procs
      /\ up' \in [Procs -> BOOLEAN] /\ final' \in [Procs -> BOOLEAN]
      /\ lines' \in [Procs -> Seq(Lines)]
      /\ ProcsConsistent' /\ LastLine'
  BY <1>1, FreshProcs
<1>6. NativePoolTypeOK'
  BY <1>1, <1>4, <1>5 DEF NativeInv, NativePoolTypeOK, Lines, slotVars
<1>7. EndedConsistent'
  <2>1. \A i \in ended : ~HasChild(i)'
    BY <1>4 DEF HasChild
  <2>2. \A i \in ended : i \in Workers /\ ~up'[<<i, 1>>]
    BY <1>1, ProcPairs DEF OnlyFresh, NativeInv, NativePoolTypeOK
  <2> QED
    BY <1>1, <2>1, <2>2 DEF NativeInv, EndedConsistent, slotVars
<1>8. Counted' /\ Quiet'
  BY <1>4 DEF Counted, Quiet
<1>9. Service!Solve
  BY <1>1, <1>3, <1>4 DEF Service!Solve
<1> QED
  BY <1>5, <1>6, <1>7, <1>8, <1>9 DEF NativeInv, ServiceStep, Service!Next

(* A range is accounted for: the counters reach the quorum with the last one. *)
LEMMA Accounted ==
  ASSUME NativeInv, Grinding, NEW i \in Workers, i \notin scanned, ~childDown[i],
         \/ scanned' = scanned \union {i} /\ exhausted' = exhausted + 1
              /\ childDown' = childDown /\ down' = down
         \/ scanned' = scanned /\ exhausted' = exhausted
              /\ childDown' = [childDown EXCEPT ![i] = TRUE] /\ down' = down + 1,
         MaybeExhausted, UNCHANGED <<gen, solved, expected, continuous>>
  PROVE  /\ ServiceStep
         /\ scanned' \subseteq Workers
         /\ exhausted' = Cardinality(scanned') /\ exhausted' \in Nat
         /\ down' = Cardinality(Down') /\ down' \in Nat
         /\ active' \in {0, gen'} /\ outcome' \in {"none", "exhausted"}
         /\ Grinding' => outcome' = "none"
         /\ ~Grinding' => \A j \in Workers : j \in scanned' \/ childDown'[j]
<1>1. /\ scanned \subseteq Workers /\ childDown \in [Workers -> BOOLEAN]
      /\ active \in {0, gen} /\ active # 0 /\ ~solved /\ outcome = "none"
      /\ expected = Cardinality(Workers) /\ expected \in Nat \ {0}
      /\ exhausted = Cardinality(scanned) /\ down = Cardinality(Down)
      /\ \A j \in Workers : StandsOnce(j)
  BY Constants DEF NativeInv, NativePoolTypeOK, Counted, Grinding
<1>2. Down \subseteq Workers /\ scanned \intersect Down = {} /\ i \notin Down
  BY <1>1 DEF Down, StandsOnce
<1>3. /\ scanned' \subseteq Workers /\ Down' \subseteq Workers
      /\ scanned' \intersect Down' = {}
      /\ scanned' \union Down' = (scanned \union Down) \union {i}
      /\ exhausted' = Cardinality(scanned') /\ down' = Cardinality(Down')
  <2>1. CASE /\ scanned' = scanned \union {i} /\ exhausted' = exhausted + 1
             /\ childDown' = childDown /\ down' = down
    <3>1. Down' = Down
      BY <2>1 DEF Down
    <3>2. Cardinality(scanned \union {i}) = Cardinality(scanned) + 1
      BY <1>1, OneMore
    <3> QED
      BY <2>1, <3>1, <3>2, <1>1, <1>2
  <2>2. CASE /\ scanned' = scanned /\ exhausted' = exhausted
             /\ childDown' = [childDown EXCEPT ![i] = TRUE] /\ down' = down + 1
    <3>1. Down' = Down \union {i}
      BY <2>2, <1>1 DEF Down
    <3>2. Cardinality(Down \union {i}) = Cardinality(Down) + 1
      BY <1>2, OneMore
    <3> QED
      BY <2>2, <3>1, <3>2, <1>1, <1>2
  <2> QED
    BY <2>1, <2>2
<1>4. /\ exhausted' \in Nat /\ down' \in Nat
      /\ exhausted' + down' >= expected <=> Workers \ (scanned' \union Down') = {}
  BY <1>1, <1>3, Quorum
<1>5. CASE exhausted' + down' >= expected
  <2>1. active' = 0 /\ outcome' = "exhausted"
    BY <1>1, <1>5 DEF MaybeExhausted, Called
  <2>2. Grinding' = FALSE
    BY <2>1 DEF Grinding
  <2>3. Workers \ (scanned' \union Down') = {}
    BY <1>4, <1>5
  <2>4. Service!Finish(i)
    <3>1. i \in Todo /\ Todo \ {i} = {} /\ Todo' = {}
      BY <1>2, <1>3, <2>2, <2>3 DEF Todo
    <3> QED
      BY <2>1, <2>2, <3>1, <1>1 DEF Service!Finish, Todo
  <2>5. \A j \in Workers : j \in scanned' \/ childDown'[j]
    BY <2>3 DEF Down
  <2> QED
    BY <1>3, <1>4, <2>1, <2>2, <2>4, <2>5 DEF ServiceStep, Service!Next
<1>6. CASE ~(exhausted' + down' >= expected)
  <2>1. active' = active /\ outcome' = outcome
    BY <1>6 DEF MaybeExhausted
  <2>2. Grinding'
    BY <1>1, <2>1 DEF Grinding
  <2>3. Workers \ (scanned' \union Down') # {}
    BY <1>4, <1>6
  <2>4. Service!Finish(i)
    BY <1>2, <1>3, <2>1, <2>2, <2>3 DEF Service!Finish
  <2> QED
    BY <1>1, <1>3, <1>4, <2>1, <2>2, <2>4 DEF ServiceStep, Service!Next
<1> QED
  BY <1>5, <1>6

LEMMA ExhaustedStep ==
  ASSUME NativeInv, NEW p \in Procs, OnExhausted(p)
  PROVE  NativeInv' /\ ServiceStep
<1> DEFINE i == p[1]
<1>1. /\ p \in children /\ lines[p] # <<>> /\ Head(lines[p]) = "EXHAUSTED" /\ Consume(p)
      /\ final' = [final EXCEPT ![p] = TRUE]
      /\ exhausted' = exhausted + 1 /\ down' = down /\ MaybeExhausted
      /\ scanned' = scanned \union {i}
      /\ UNCHANGED <<gen, solved, expected, continuous, slotVars, children, up, ended,
                     lost>>
  BY DEF OnExhausted, NextLine
<1>2. /\ final \in [Procs -> BOOLEAN] /\ final' \in [Procs -> BOOLEAN]
      /\ \A q \in Procs : q # p => final'[q] = final[q]
      /\ final'[p] = TRUE
  BY <1>1 DEF NativeInv, NativePoolTypeOK
<1>3. /\ p = <<i, 1>> /\ i \in Workers /\ HasChild(i) /\ Grinding
      /\ lines' \in [Procs -> Seq(Lines)] /\ LastLine'
      /\ \A q \in Procs : q # p => lines'[q] = lines[q]
      /\ lines'[p] = <<>> /\ i \in ended /\ ~up[p]
  BY <1>1, <1>2, ConsumeLine
<1>4. /\ i \notin scanned /\ ~childDown[i] /\ timer[i] = 0 /\ i \notin lost
      /\ \A j \in Workers : StandsOnce(j) /\ (~childDown[j] => crashes[j] < MaxCrashes)
  BY <1>3 DEF NativeInv, Counted, StandsOnce
<1>5. /\ ServiceStep /\ scanned' \subseteq Workers
      /\ exhausted' = Cardinality(scanned') /\ exhausted' \in Nat
      /\ down' = Cardinality(Down') /\ down' \in Nat
      /\ active' \in {0, gen'} /\ outcome' \in {"none", "exhausted"}
      /\ Grinding' => outcome' = "none"
      /\ ~Grinding' => \A j \in Workers : j \in scanned' \/ childDown'[j]
  BY <1>1, <1>3, <1>4, Accounted DEF slotVars
<1>6. NativePoolTypeOK'
  BY <1>1, <1>2, <1>3, <1>5 DEF NativeInv, NativePoolTypeOK, Lines, slotVars
<1>7. ProcsConsistent'
  <2>1. children \subseteq Procs
    BY DEF NativeInv, NativePoolTypeOK
  <2> QED
    BY <1>1, <1>2, <1>3, <2>1 DEF NativeInv, ProcsConsistent
<1>8. /\ ~HasChild(i)'
      /\ \A j \in Workers : j # i => (HasChild(j)' <=> HasChild(j))
  <2>1. ~HasChild(i)'
    BY <1>2, <1>3 DEF HasChild
  <2>2. ASSUME NEW j \in Workers, j # i PROVE HasChild(j)' <=> HasChild(j)
    <3>1. <<j, 1>> \in Procs /\ <<j, 1>> # p
      BY <2>2, <1>3, ProcPairs
    <3>2. final'[<<j, 1>>] = final[<<j, 1>>] /\ children' = children
      BY <3>1, <1>1, <1>2
    <3> QED
      BY <3>2 DEF HasChild
  <2> QED
    BY <2>1, <2>2
<1>9. EndedConsistent'
  <2>1. scanned' \subseteq ended'
    BY <1>1, <1>3 DEF NativeInv, EndedConsistent
  <2>2. ASSUME NEW j \in ended
        PROVE  /\ timer'[j] = 0 /\ ~up'[<<j, 1>>]
               /\ HasChild(j)' => EndsExhausted(lines'[<<j, 1>>])
    <3>1. j \in Workers /\ <<j, 1>> \in Procs
      BY ProcPairs DEF NativeInv, NativePoolTypeOK
    <3>2. timer'[j] = 0 /\ ~up'[<<j, 1>>]
      BY <1>1 DEF NativeInv, EndedConsistent, slotVars
    <3>3. CASE j = i
      BY <1>8, <3>2, <3>3
    <3>4. CASE j # i
      <4>1. lines'[<<j, 1>>] = lines[<<j, 1>>]
        BY <1>3, <3>1, <3>4
      <4> QED
        BY <1>8, <3>1, <3>2, <3>4, <4>1 DEF NativeInv, EndedConsistent
    <3> QED
      BY <3>3, <3>4
  <2> QED
    BY <1>1, <2>1, <2>2 DEF EndedConsistent
<1>10. \A j \in Workers : StandsOnce(j)' /\ (~childDown'[j] => crashes'[j] < MaxCrashes)
  <2> TAKE j \in Workers
  <2>1. CASE j = i
    BY <1>1, <1>4, <1>8, <2>1 DEF StandsOnce, slotVars
  <2>2. CASE j # i
    BY <1>1, <1>4, <1>8, <2>2 DEF StandsOnce, slotVars
  <2> QED
    BY <2>1, <2>2
<1>11. Counted'
  BY <1>1, <1>3, <1>5, <1>10 DEF NativeInv, Counted
<1>12. Quiet'
  <2> SUFFICES ASSUME ~Grinding', NEW q \in children' PROVE final'[q]
    BY DEF Quiet
  <2>1. q = <<q[1], 1>> /\ q[1] \in Workers
    BY <1>6, <1>7, ProcPairs DEF NativePoolTypeOK, ProcsConsistent
  <2>2. q[1] \in scanned' \/ childDown'[q[1]]
    BY <1>5, <2>1
  <2>3. ~HasChild(q[1])'
    BY <1>10, <2>1, <2>2 DEF StandsOnce
  <2> QED
    BY <2>1, <2>3 DEF HasChild
<1> QED
  BY <1>3, <1>5, <1>6, <1>7, <1>9, <1>11, <1>12 DEF NativeInv

LEMMA FinalCloseStep ==
  ASSUME NativeInv, NEW p \in Procs, OnFinalClose(p)
  PROVE  NativeInv' /\ ServiceStep
<1>1. /\ p \in children /\ final[p] /\ ~up[p] /\ children' = children \ {p}
      /\ UNCHANGED <<poolVars, slotVars, up, lines, final, history>>
  BY DEF OnFinalClose, Closed
<1>2. NativePoolTypeOK' /\ LastLine'
  BY <1>1 DEF NativeInv, NativePoolTypeOK, LastLine, poolVars, slotVars, history
<1>3. ProcsConsistent'
  BY <1>1 DEF NativeInv, ProcsConsistent
<1>4. \A i \in Workers : HasChild(i)' <=> HasChild(i)
  BY <1>1 DEF HasChild
<1>5. EndedConsistent'
  <2>1. ended \subseteq Workers
    BY DEF NativeInv, NativePoolTypeOK
  <2> QED
    BY <1>1, <1>4, <2>1 DEF NativeInv, EndedConsistent, slotVars, history
<1>6. ServiceStep /\ Grinding' = Grinding
  BY <1>1, Invisible DEF slotVars, history
<1>7. Counted' /\ Quiet'
  <2>1. \A i \in Workers : StandsOnce(i)' <=> StandsOnce(i)
    BY <1>1, <1>4 DEF StandsOnce, slotVars, history
  <2>2. Down' = Down
    BY <1>1 DEF Down, slotVars
  <2> QED
    BY <1>1, <1>6, <2>1, <2>2
    DEF NativeInv, Counted, Quiet, poolVars, slotVars, history
<1> QED
  BY <1>2, <1>3, <1>5, <1>6, <1>7 DEF NativeInv

LEMMA CrashCloseStep ==
  ASSUME NativeInv, NEW p \in Procs, NEW fast \in BOOLEAN, OnCrashClose(p, fast)
  PROVE  NativeInv' /\ ServiceStep
<1> DEFINE i == p[1]
<1>1. /\ p \in children /\ ~up[p] /\ lines[p] = <<>> /\ ~final[p]
      /\ children' = children \ {p}
      /\ fails' = [fails EXCEPT ![i] = IF fast THEN @ + 1 ELSE 0]
      /\ crashes' = [crashes EXCEPT ![i] = @ + 1]
      /\ exhausted' = exhausted
      /\ UNCHANGED <<gen, solved, expected, continuous, up, lines, final, scanned, ended,
                     lost>>
  BY DEF OnCrashClose, Closed
<1>2. \/ /\ fails'[i] >= MaxFastFails \/ crashes'[i] >= MaxCrashes
         /\ childDown' = [childDown EXCEPT ![i] = TRUE]
         /\ down' = down + 1 /\ MaybeExhausted /\ timer' = timer
      \/ /\ ~(crashes'[i] >= MaxCrashes)
         /\ timer' = [timer EXCEPT ![i] = gen]
         /\ UNCHANGED <<childDown, down, active, outcome>>
  BY DEF OnCrashClose
<1>3. p = <<i, 1>> /\ i \in Workers /\ HasChild(i) /\ Grinding
  <2>1. p = <<i, 1>> /\ i \in Workers
    BY <1>1, ProcPairs DEF NativeInv, ProcsConsistent
  <2> QED
    BY <1>1, <2>1 DEF HasChild, NativeInv, Quiet
<1>4. /\ i \notin scanned /\ ~childDown[i] /\ timer[i] = 0 /\ i \notin lost
      /\ \A j \in Workers : StandsOnce(j) /\ (~childDown[j] => crashes[j] < MaxCrashes)
  BY <1>3 DEF NativeInv, Counted, StandsOnce
<1>5. i \notin ended
  BY <1>1, <1>3 DEF NativeInv, EndedConsistent, EndsExhausted
<1>6. /\ gen \in Nat /\ active \in {0, gen} /\ gen # 0
      /\ childDown \in [Workers -> BOOLEAN] /\ timer \in [Workers -> {0, gen}]
      /\ fails \in [Workers -> Nat] /\ crashes \in [Workers -> 0 .. MaxCrashes]
  BY <1>3, Constants DEF NativeInv, NativePoolTypeOK, Grinding
<1>7. fails' \in [Workers -> Nat] /\ crashes' \in [Workers -> 0 .. MaxCrashes]
  BY <1>1, <1>3, <1>4, <1>6, Constants
<1>8. /\ ~HasChild(i)'
      /\ \A j \in Workers : j # i => (HasChild(j)' <=> HasChild(j))
  BY <1>1, <1>3, ProcPairs DEF HasChild
<1>9. ProcsConsistent' /\ LastLine'
  BY <1>1 DEF NativeInv, ProcsConsistent, LastLine
<1>10. CASE /\ childDown' = [childDown EXCEPT ![i] = TRUE]
            /\ down' = down + 1 /\ MaybeExhausted /\ timer' = timer
  <2>1. /\ ServiceStep
        /\ exhausted' = Cardinality(scanned') /\ exhausted' \in Nat
        /\ down' = Cardinality(Down') /\ down' \in Nat
        /\ active' \in {0, gen'} /\ outcome' \in {"none", "exhausted"}
        /\ Grinding' => outcome' = "none"
        /\ ~Grinding' => \A j \in Workers : j \in scanned' \/ childDown'[j]
    BY <1>1, <1>3, <1>4, <1>10, Accounted
  <2>2. NativePoolTypeOK'
    <3>1. childDown' \in [Workers -> BOOLEAN] /\ timer' \in [Workers -> {0, gen'}]
      BY <1>1, <1>6, <1>10
    <3> QED
      BY <1>1, <1>7, <2>1, <3>1 DEF NativeInv, NativePoolTypeOK
  <2>3. EndedConsistent'
    <3>1. ended \subseteq Workers
      BY DEF NativeInv, NativePoolTypeOK
    <3> QED
      BY <1>1, <1>5, <1>8, <1>10, <3>1 DEF NativeInv, EndedConsistent
  <2>4. \A j \in Workers : StandsOnce(j)' /\ (~childDown'[j] => crashes'[j] < MaxCrashes)
    <3> TAKE j \in Workers
    <3>1. CASE j = i
      <4>1. childDown'[i]
        BY <1>3, <1>6, <1>10
      <4> QED
        BY <1>1, <1>4, <1>8, <1>10, <3>1, <4>1 DEF StandsOnce
    <3>2. CASE j # i
      <4>1. childDown'[j] = childDown[j] /\ crashes'[j] = crashes[j]
        BY <1>1, <1>6, <1>10, <3>2
      <4> QED
        BY <1>1, <1>4, <1>8, <1>10, <3>2, <4>1 DEF StandsOnce
    <3> QED
      BY <3>1, <3>2
  <2>5. Counted'
    BY <1>1, <1>3, <2>1, <2>4 DEF NativeInv, Counted
  <2>6. Quiet'
    <3> SUFFICES ASSUME ~Grinding', NEW q \in children' PROVE final'[q]
      BY DEF Quiet
    <3>1. q = <<q[1], 1>> /\ q[1] \in Workers
      BY <1>9, <2>2, ProcPairs DEF NativePoolTypeOK, ProcsConsistent
    <3>2. q[1] \in scanned' \/ childDown'[q[1]]
      BY <2>1, <3>1
    <3>3. ~HasChild(q[1])'
      BY <2>4, <3>1, <3>2 DEF StandsOnce
    <3> QED
      BY <3>1, <3>3 DEF HasChild
  <2> QED
    BY <1>9, <2>1, <2>2, <2>3, <2>5, <2>6 DEF NativeInv
<1>11. CASE /\ ~(crashes'[i] >= MaxCrashes)
            /\ timer' = [timer EXCEPT ![i] = gen]
            /\ UNCHANGED <<childDown, down, active, outcome>>
  <2>1. ServiceStep /\ Grinding' = Grinding
    BY <1>1, <1>11, Invisible DEF poolVars
  <2>2. NativePoolTypeOK'
    <3>1. timer' \in [Workers -> {0, gen'}]
      BY <1>1, <1>6, <1>11
    <3> QED
      BY <1>1, <1>7, <1>11, <3>1 DEF NativeInv, NativePoolTypeOK
  <2>3. EndedConsistent'
    <3>1. ended \subseteq Workers
      BY DEF NativeInv, NativePoolTypeOK
    <3>2. \A j \in ended : timer'[j] = timer[j]
      BY <1>5, <1>6, <1>11, <3>1
    <3> QED
      BY <1>1, <1>5, <1>8, <3>1, <3>2 DEF NativeInv, EndedConsistent
  <2>4. \A j \in Workers : StandsOnce(j)' /\ (~childDown'[j] => crashes'[j] < MaxCrashes)
    <3> TAKE j \in Workers
    <3>1. CASE j = i
      <4>1. timer'[i] # 0 /\ crashes'[i] < MaxCrashes
        BY <1>3, <1>6, <1>7, <1>11, Constants
      <4> QED
        BY <1>1, <1>4, <1>8, <1>11, <3>1, <4>1 DEF StandsOnce
    <3>2. CASE j # i
      <4>1. timer'[j] = timer[j] /\ crashes'[j] = crashes[j]
        BY <1>1, <1>6, <1>11, <3>2
      <4> QED
        BY <1>1, <1>4, <1>8, <1>11, <3>2, <4>1 DEF StandsOnce
    <3> QED
      BY <3>1, <3>2
  <2>5. Counted'
    <3>1. Down' = Down
      BY <1>11 DEF Down
    <3> QED
      BY <1>1, <1>3, <1>11, <2>1, <2>4, <3>1 DEF NativeInv, Counted
  <2>6. Quiet'
    BY <1>3, <2>1 DEF Quiet
  <2> QED
    BY <1>9, <2>1, <2>2, <2>3, <2>5, <2>6 DEF NativeInv
<1> QED
  BY <1>2, <1>10, <1>11

LEMMA TimerStep ==
  ASSUME NativeInv, NEW i \in Workers, RespawnTimer(i)
  PROVE  NativeInv' /\ ServiceStep
<1>1. /\ timer[i] # 0 /\ timer' = [timer EXCEPT ![i] = 0]
      /\ UNCHANGED <<poolVars, childDown, fails, crashes, scanned, ended, outcome>>
      /\ \/ Resumable(i) /\ \E threw \in BOOLEAN : SpawnChild(i, threw)
         \/ ~Resumable(i) /\ UNCHANGED <<procVars, lost>>
  BY DEF RespawnTimer
<1>2. ServiceStep /\ Grinding' = Grinding
  BY <1>1, Invisible
<1>3. /\ timer \in [Workers -> {0, gen}] /\ timer' \in [Workers -> {0, gen'}]
      /\ timer'[i] = 0 /\ \A j \in Workers : j # i => timer'[j] = timer[j]
  BY <1>1 DEF NativeInv, NativePoolTypeOK, poolVars
<1>4. i \notin ended
  BY <1>1 DEF NativeInv, EndedConsistent
<1>5. CASE ~Resumable(i) /\ UNCHANGED <<procVars, lost>>
  <2>1. ~Grinding
    <3>1. ASSUME Grinding PROVE Resumable(i)
      <4>1. ~childDown[i] /\ active # 0 /\ (continuous \/ ~solved)
        BY <1>1, <3>1 DEF NativeInv, Counted, StandsOnce, Grinding
      <4>2. active = gen /\ timer[i] = gen
        BY <1>1, <1>3, <4>1 DEF NativeInv, NativePoolTypeOK
      <4> QED
        BY <4>1, <4>2 DEF Resumable
    <3> QED
      BY <1>5, <3>1
  <2>2. NativePoolTypeOK'
    BY <1>1, <1>3, <1>5 DEF NativeInv, NativePoolTypeOK, poolVars, procVars
  <2>3. ProcsConsistent' /\ LastLine'
    BY <1>1, <1>5 DEF NativeInv, ProcsConsistent, LastLine, procVars
  <2>4. EndedConsistent'
    <3>1. ended \subseteq Workers
      BY DEF NativeInv, NativePoolTypeOK
    <3> QED
      BY <1>1, <1>3, <1>4, <1>5, <3>1
      DEF NativeInv, EndedConsistent, HasChild, procVars
  <2>5. Counted' /\ Quiet'
    BY <1>2, <1>5, <2>1 DEF NativeInv, Counted, Quiet, procVars
  <2> QED
    BY <1>2, <2>2, <2>3, <2>4, <2>5 DEF NativeInv
<1>6. ASSUME Resumable(i), NEW threw \in BOOLEAN, SpawnChild(i, threw)
      PROVE  NativeInv'
  <2> DEFINE fresh == <<i, 1>>
  <2>1. /\ children' = {q \in children : q[1] # i} \union (IF threw THEN {} ELSE {fresh})
        /\ up' = [q \in Procs |-> IF q[1] = i THEN ~threw /\ q = fresh ELSE up[q]]
        /\ lines' = [q \in Procs |-> IF q[1] = i THEN <<>> ELSE lines[q]]
        /\ final' = [q \in Procs |-> q[1] # i /\ final[q]]
        /\ lost' = IF threw THEN lost \union {i} ELSE lost
    BY <1>6 DEF SpawnChild
  <2>2. Grinding
    BY <1>6 DEF Resumable, Grinding
  <2>3. /\ i \notin scanned /\ ~childDown[i] /\ ~HasChild(i) /\ i \notin lost
        /\ \A j \in Workers : StandsOnce(j) /\ (~childDown[j] => crashes[j] < MaxCrashes)
    BY <1>1, <2>2 DEF NativeInv, Counted, StandsOnce
  <2>4. /\ children \subseteq Procs /\ up \in [Procs -> BOOLEAN]
        /\ final \in [Procs -> BOOLEAN] /\ lines \in [Procs -> Seq(Lines)]
        /\ lost \subseteq Workers /\ ended \subseteq Workers
    BY DEF NativeInv, NativePoolTypeOK, Lines
  <2>5. fresh \in Procs /\ fresh[1] = i /\ fresh[2] = 1
    BY ProcPairs
  <2>6. /\ children' \subseteq Procs
        /\ up' \in [Procs -> BOOLEAN] /\ final' \in [Procs -> BOOLEAN]
        /\ lost' \subseteq Workers
    <3>1. up' \in [Procs -> BOOLEAN]
      BY <2>1, <2>4
    <3>2. final' \in [Procs -> BOOLEAN]
      BY <2>1, <2>4
    <3>3. children' \subseteq Procs /\ lost' \subseteq Workers
      BY <2>1, <2>4, <2>5
    <3> QED
      BY <3>1, <3>2, <3>3
  <2>7. lines' \in [Procs -> Seq(Lines)]
    <3>1. <<>> \in Seq(Lines)
      OBVIOUS
    <3> QED
      BY <2>1, <2>4, <3>1
  <2>8. NativePoolTypeOK'
    BY <1>1, <1>3, <2>6, <2>7 DEF NativeInv, NativePoolTypeOK, Lines, poolVars
  <2>9. ProcsConsistent'
    <3>1. \A q \in children' : q[2] = 1
      BY <2>1, <2>5 DEF NativeInv, ProcsConsistent
    <3>2. ASSUME NEW q \in Procs, up'[q] PROVE q \in children' /\ ~final'[q]
      <4>1. CASE q[1] = i
        BY <2>1, <3>2, <4>1
      <4>2. CASE q[1] # i
        BY <2>1, <3>2, <4>2 DEF NativeInv, ProcsConsistent
      <4> QED
        BY <4>1, <4>2
    <3>3. ASSUME NEW q \in children', final'[q] PROVE lines'[q] = <<>>
      BY <2>1, <2>6, <3>3 DEF NativeInv, ProcsConsistent
    <3> QED
      BY <3>1, <3>2, <3>3 DEF ProcsConsistent
  <2>10. LastLine'
    BY <1>1, <2>1 DEF NativeInv, LastLine
  <2>11. /\ HasChild(i)' <=> ~threw
         /\ \A j \in Workers : j # i => (HasChild(j)' <=> HasChild(j))
    <3>1. HasChild(i)' <=> ~threw
      BY <2>1, <2>5 DEF HasChild
    <3>2. ASSUME NEW j \in Workers, j # i PROVE HasChild(j)' <=> HasChild(j)
      <4>1. <<j, 1>> \in Procs /\ <<j, 1>>[1] = j /\ <<j, 1>> # fresh
        BY <3>2, ProcPairs
      <4>2. final'[<<j, 1>>] <=> final[<<j, 1>>]
        BY <2>1, <3>2, <4>1
      <4>3. <<j, 1>> \in children' <=> <<j, 1>> \in children
        BY <2>1, <3>2, <4>1
      <4> QED
        BY <4>2, <4>3 DEF HasChild
    <3> QED
      BY <3>1, <3>2
  <2>12. EndedConsistent'
    <3>1. ASSUME NEW j \in ended
          PROVE  /\ j # i /\ timer'[j] = 0 /\ ~up'[<<j, 1>>]
                 /\ HasChild(j)' => EndsExhausted(lines'[<<j, 1>>])
      <4>1. j # i /\ j \in Workers /\ <<j, 1>> \in Procs /\ <<j, 1>>[1] = j
        BY <1>4, <2>4, ProcPairs
      <4>2. lines'[<<j, 1>>] = lines[<<j, 1>>] /\ up'[<<j, 1>>] = up[<<j, 1>>]
        BY <2>1, <4>1
      <4> QED
        BY <1>3, <2>11, <4>1, <4>2 DEF NativeInv, EndedConsistent
    <3> QED
      BY <1>1, <3>1 DEF NativeInv, EndedConsistent
  <2>13. Counted'
    <3>1. \A j \in Workers : StandsOnce(j)' /\ (~childDown'[j] => crashes'[j] < MaxCrashes)
      <4> TAKE j \in Workers
      <4>1. CASE j = i
        BY <1>1, <1>3, <2>1, <2>3, <2>11, <4>1 DEF StandsOnce
      <4>2. CASE j # i
        BY <1>1, <1>3, <2>1, <2>3, <2>11, <4>2 DEF StandsOnce
      <4> QED
        BY <4>1, <4>2
    <3>2. Down' = Down
      BY <1>1 DEF Down
    <3> QED
      BY <1>1, <1>2, <2>2, <3>1, <3>2 DEF NativeInv, Counted, poolVars
  <2>14. Quiet'
    BY <1>2, <2>2 DEF Quiet
  <2> QED
    BY <2>8, <2>9, <2>10, <2>12, <2>13, <2>14 DEF NativeInv
<1> QED
  BY <1>1, <1>2, <1>5, <1>6

LEMMA NextStep ==
  ASSUME NativeInv, [Next]_vars
  PROVE  NativeInv' /\ ServiceStep
<1>1. ASSUME NEW shares \in BOOLEAN, NEW threw \in SUBSET Workers, Start(shares, threw)
      PROVE  NativeInv' /\ ServiceStep
  BY <1>1, StartStep
<1>2. CASE Stop \/ Respawn
  BY <1>2, AbandonStep
<1>3. ASSUME NEW p \in Procs, Process(p) PROVE NativeInv' /\ ServiceStep
  BY <1>3, ProcessStep
<1>4. ASSUME NEW p \in Procs, Events(p) PROVE NativeInv' /\ ServiceStep
  <2>1. CASE OnShare(p)
    BY <2>1, ShareStep
  <2>2. CASE OnSolved(p)
    BY <2>2, SolvedStep
  <2>3. CASE OnExhausted(p)
    BY <2>3, ExhaustedStep
  <2>4. CASE OnFinalClose(p)
    BY <2>4, FinalCloseStep
  <2>5. ASSUME NEW fast \in BOOLEAN, OnCrashClose(p, fast)
        PROVE  NativeInv' /\ ServiceStep
    BY <2>5, CrashCloseStep
  <2> QED
    BY <1>4, <2>1, <2>2, <2>3, <2>4, <2>5 DEF Events
<1>5. ASSUME NEW i \in Workers, RespawnTimer(i) PROVE NativeInv' /\ ServiceStep
  BY <1>5, TimerStep
<1>6. CASE UNCHANGED vars
  <2>1. UNCHANGED <<poolVars, slotVars, procVars, history>>
    BY <1>6 DEF vars
  <2>2. ServiceStep /\ Grinding' = Grinding
    BY <2>1, Invisible DEF slotVars, history
  <2> USE <2>1, <2>2 DEF poolVars, slotVars, procVars, history, NativeInv
  <2>3. NativePoolTypeOK'
    BY DEF NativePoolTypeOK
  <2>4. ProcsConsistent' /\ LastLine'
    BY DEF ProcsConsistent, LastLine
  <2>5. EndedConsistent'
    BY DEF EndedConsistent, HasChild
  <2>6. Counted' /\ Quiet'
    BY DEF Counted, Quiet, StandsOnce, HasChild, Down
  <2> QED
    BY <2>3, <2>4, <2>5, <2>6
<1> QED
  BY <1>1, <1>2, <1>3, <1>4, <1>5, <1>6 DEF Next

-----------------------------------------------------------------------------
LEMMA NativeInvariant == Spec => []NativeInv
<1>1. Init => NativeInv
  BY InitStep
<1>2. NativeInv /\ [Next]_vars => NativeInv'
  BY NextStep
<1> QED
  BY <1>1, <1>2, PTL DEF Spec

(* Every state of the native pool is well typed: no timer outlives its
   generation and no range exceeds its crash budget. *)
THEOREM NativePoolTyped == Spec => []NativePoolTypeOK
<1>1. NativeInv => NativePoolTypeOK
  BY DEF NativeInv
<1> QED
  BY <1>1, NativeInvariant, PTL

(* No range of the active template is forgotten or counted twice, and without
   a template no process is left running. *)
THEOREM NoRangeForgotten == Spec => []EachRangeOnce
<1>1. NativeInv => EachRangeOnce
  BY InvImpliesProperties
<1> QED
  BY <1>1, NativeInvariant, PTL

(* A range that was scanned to its end is not ground again in its generation. *)
THEOREM NoRescan == Spec => []ScannedOnce
<1>1. NativeInv => ScannedOnce
  BY InvImpliesProperties
<1> QED
  BY <1>1, NativeInvariant, PTL

(* The native pool is a grind service: one final callback per template, after
   the first solo solve or once every range is accounted for, and none for a
   template that was taken away. *)
THEOREM NativeIsGrindService == Spec => ImplementsService
<1>1. Init => Service!Init
  BY InitStep
<1>2. NativeInv /\ [Next]_vars => [Service!Next]_(Service!serviceVars)
  BY NextStep DEF ServiceStep
<1> QED
  BY <1>1, <1>2, NativeInvariant, PTL
  DEF Spec, ImplementsService, Service!ServiceSpec

-----------------------------------------------------------------------------
(* The CUDA pool, and the two together. *)

Status == {"off", "up", "SOLVED", "EXHAUSTED", "ended", "final"}

Busy(i) == proc[<<i, 1>>] \notin {"off", "final"}

(* Range i is at no two of the five places, and its budget lasts. *)
AtMostOnce(i) ==
  /\ i \in cudaScanned => ~cudaChildDown[i] /\ ~Busy(i) /\ ~cudaTimer[i]
                         /\ i \notin cudaLost
  /\ cudaChildDown[i] => ~Busy(i) /\ ~cudaTimer[i] /\ i \notin cudaLost
  /\ Busy(i) => ~cudaTimer[i] /\ i \notin cudaLost
  /\ cudaTimer[i] => i \notin cudaLost
  /\ ~cudaChildDown[i] => cudaCrashes[i] < MaxCrashes

AtLeastOnce(i) ==
  i \in cudaScanned \/ cudaChildDown[i] \/ Busy(i) \/ cudaTimer[i] \/ i \in cudaLost

(* The second slot of a range is never needed. *)
OneSlot(i) ==
  /\ proc[<<i, 2>>] = "off"
  /\ proc[<<i, 1>>] = "final" => i \in cudaScanned

AtRest(i) == ~Busy(i) /\ ~cudaTimer[i]

CudaCounted ==
  /\ cudaOutcome = "none"
  /\ cudaExhausted = Cardinality(cudaScanned) /\ cudaDown = Cardinality(GpusDown)

CudaInv ==
  /\ CudaPoolTypeOK
  /\ \A i \in Workers : OneSlot(i) /\ AtMostOnce(i)
  /\ ~cudaActive => \A i \in Workers : AtRest(i)
  /\ CudaGrinding => CudaCounted /\ \A i \in Workers : AtLeastOnce(i)

CudaServiceStep == [CudaService!Next]_(CudaService!serviceVars)

-----------------------------------------------------------------------------
(* A process is named by its range and its slot. *)
LEMMA CudaProcPairs ==
  /\ \A p \in Procs : p[1] \in Workers /\ (p = <<p[1], 1>> \/ p = <<p[1], 2>>)
  /\ \A i \in Workers : <<i, 1>> \in Procs /\ <<i, 2>> \in Procs
                        /\ <<i, 1>>[1] = i /\ <<i, 1>>[2] = 1
                        /\ <<i, 2>>[1] = i /\ <<i, 2>>[2] = 2
  BY DEF Procs

(* Only first slots are in use. *)
LEMMA FirstSlot ==
  ASSUME CudaInv, NEW p \in Procs, proc[p] # "off"
  PROVE  p[1] \in Workers /\ p = <<p[1], 1>>
  BY CudaProcPairs DEF CudaInv, OneSlot

(* What becomes of one process concerns no other. *)
LEMMA OneMoves ==
  ASSUME CudaInv, NEW i \in Workers, NEW s \in Status,
         proc' = [proc EXCEPT ![<<i, 1>>] = s]
  PROVE  /\ proc' \in [Procs -> Status] /\ proc'[<<i, 1>>] = s
         /\ \A j \in Workers : proc'[<<j, 2>>] = "off"
         /\ \A j \in Workers : j # i => proc'[<<j, 1>>] = proc[<<j, 1>>]
<1>1. proc \in [Procs -> Status]
  BY DEF CudaInv, CudaPoolTypeOK, Status
<1>2. \A j \in Workers : proc[<<j, 2>>] = "off"
  BY DEF CudaInv, OneSlot
<1>3. proc' \in [Procs -> Status] /\ proc'[<<i, 1>>] = s
  BY <1>1, CudaProcPairs
<1>4. ASSUME NEW j \in Workers PROVE proc'[<<j, 2>>] = "off"
  <2>1. <<j, 2>> \in Procs /\ <<j, 2>> # <<i, 1>>
    <3>1. <<j, 2>>[2] # <<i, 1>>[2]
      BY CudaProcPairs
    <3> QED
      BY <3>1, CudaProcPairs
  <2> QED
    BY <1>1, <1>2, <2>1
<1>5. ASSUME NEW j \in Workers, j # i PROVE proc'[<<j, 1>>] = proc[<<j, 1>>]
  <2>1. <<j, 1>> \in Procs /\ <<j, 1>> # <<i, 1>>
    BY <1>5, CudaProcPairs
  <2> QED
    BY <1>1, <2>1
<1> QED
  BY <1>3, <1>4, <1>5

LEMMA AllFresh ==
  ASSUME NEW ranges \in SUBSET Workers, CudaOnlyFresh(ranges)
  PROVE  /\ proc' \in [Procs -> Status]
         /\ \A i \in Workers : /\ proc'[<<i, 2>>] = "off"
                               /\ proc'[<<i, 1>>] = IF i \in ranges THEN "up" ELSE "off"
<1>1. proc' \in [Procs -> Status]
  BY DEF CudaOnlyFresh, Status
<1>2. ASSUME NEW i \in Workers
      PROVE  /\ proc'[<<i, 2>>] = "off"
             /\ proc'[<<i, 1>>] = IF i \in ranges THEN "up" ELSE "off"
  BY CudaProcPairs DEF CudaOnlyFresh
<1> QED
  BY <1>1, <1>2

(* The invariant says what the properties say. *)
LEMMA CudaInvImpliesProperties == CudaInv => CudaEachRangeOnce /\ OneProcessPerRange
<1> SUFFICES ASSUME CudaInv PROVE CudaEachRangeOnce /\ OneProcessPerRange
  OBVIOUS
<1>1. ASSUME NEW p \in Procs, proc[p] = "up"
      PROVE  cudaActive /\ \A q \in Procs : q[1] = p[1] /\ q # p => proc[q] # "up"
  <2>1. p[1] \in Workers /\ p = <<p[1], 1>>
    BY <1>1, FirstSlot
  <2>2. Busy(p[1])
    BY <1>1, <2>1 DEF Busy
  <2>3. cudaActive
    BY <2>1, <2>2 DEF CudaInv, CudaPoolTypeOK, AtRest
  <2>4. ASSUME NEW q \in Procs, q[1] = p[1], q # p PROVE proc[q] # "up"
    BY <2>1, <2>4, FirstSlot
  <2> QED
    BY <2>3, <2>4
<1>2. OneProcessPerRange
  BY <1>1 DEF OneProcessPerRange
<1>3. ASSUME CudaGrinding PROVE CudaEachRangeOnce
  <2>1. \A i \in Workers : i \in GpusGround <=> Busy(i)
    <3>1. ASSUME NEW i \in Workers, i \in GpusGround PROVE Busy(i)
      <4>1. PICK p \in Procs : proc[p] \notin {"off", "final"} /\ p[1] = i
        BY <3>1 DEF GpusGround
      <4> QED
        BY <4>1, FirstSlot DEF Busy
    <3>2. ASSUME NEW i \in Workers, Busy(i) PROVE i \in GpusGround
      <4>1. <<i, 1>> \in {q \in Procs : proc[q] \notin {"off", "final"}} /\ <<i, 1>>[1] = i
        BY <3>2, CudaProcPairs DEF Busy
      <4> QED
        BY <4>1 DEF GpusGround
    <3> QED
      BY <3>1, <3>2
  <2>2. /\ \A i \in Workers : i \in GpusDown <=> cudaChildDown[i]
        /\ \A i \in Workers : i \in GpusWaiting <=> cudaTimer[i]
    BY DEF GpusDown, GpusWaiting
  <2>3. /\ cudaScanned \subseteq Workers /\ GpusDown \subseteq Workers
        /\ GpusGround \subseteq Workers /\ GpusWaiting \subseteq Workers
        /\ cudaLost \subseteq Workers
    BY CudaProcPairs DEF CudaInv, CudaPoolTypeOK, GpusDown, GpusGround, GpusWaiting
  <2>4. \A i \in Workers : AtMostOnce(i) /\ AtLeastOnce(i)
    BY <1>3 DEF CudaInv
  <2> DEFINE places == <<cudaScanned, GpusDown, GpusGround, GpusWaiting, cudaLost>>
  <2>5. /\ places[1] = cudaScanned /\ places[2] = GpusDown /\ places[3] = GpusGround
        /\ places[4] = GpusWaiting /\ places[5] = cudaLost
    OBVIOUS
  <2> HIDE DEF places
  <2>6. \A i \in Workers : \E k \in 1 .. 5 : i \in places[k]
    <3> TAKE i \in Workers
    <3>1. \/ i \in cudaScanned \/ i \in GpusDown \/ i \in GpusGround
          \/ i \in GpusWaiting \/ i \in cudaLost
      BY <2>1, <2>2, <2>4 DEF AtLeastOnce
    <3> QED
      BY <3>1, <2>5
  <2>7. /\ cudaScanned \intersect GpusDown = {} /\ cudaScanned \intersect GpusGround = {}
        /\ cudaScanned \intersect GpusWaiting = {} /\ cudaScanned \intersect cudaLost = {}
        /\ GpusDown \intersect GpusGround = {} /\ GpusDown \intersect GpusWaiting = {}
        /\ GpusDown \intersect cudaLost = {} /\ GpusGround \intersect GpusWaiting = {}
        /\ GpusGround \intersect cudaLost = {} /\ GpusWaiting \intersect cudaLost = {}
    BY <2>1, <2>2, <2>3, <2>4 DEF AtMostOnce
  <2>8. \A j, k \in 1 .. 5 : j # k => places[j] \intersect places[k] = {}
    BY <2>5, <2>7
  <2> QED
    BY <2>6, <2>8 DEF CudaEachRangeOnce, places
<1> QED
  BY <1>2, <1>3 DEF CudaEachRangeOnce

-----------------------------------------------------------------------------
(* The steps, one lemma each: the invariant is kept and the step is one the
   grind service allows. *)

CudaTodo == IF CudaGrinding THEN Workers \ (cudaScanned \union GpusDown) ELSE {}

(* A step that changes neither the pool's records nor the histories the
   service is made of is invisible to its caller. *)
LEMMA CudaInvisible ==
  ASSUME UNCHANGED <<cudaSolved, cudaActive, cudaChildDown, cudaScanned, cudaOutcome>>
  PROVE  CudaServiceStep /\ CudaGrinding' = CudaGrinding /\ GpusDown' = GpusDown
<1>1. CudaGrinding' = CudaGrinding
  BY DEF CudaGrinding
<1>2. GpusDown' = GpusDown
  BY DEF GpusDown
<1>3. UNCHANGED CudaService!serviceVars
  BY <1>1, <1>2 DEF CudaService!serviceVars
<1> QED
  BY <1>1, <1>2, <1>3 DEF CudaServiceStep

LEMMA CudaInitStep == CudaInit => CudaInv /\ CudaService!Init
<1> SUFFICES ASSUME CudaInit PROVE CudaInv /\ CudaService!Init
  OBVIOUS
<1> USE DEF CudaInit, Each
<1>1. ~CudaGrinding
  BY DEF CudaGrinding
<1>2. CudaPoolTypeOK
  <2>1. 0 \in 0 .. MaxGen /\ 0 \in 0 .. MaxCrashes
    BY Constants
  <2> QED
    BY <2>1 DEF CudaPoolTypeOK
<1>3. \A i \in Workers : proc[<<i, 1>>] = "off" /\ proc[<<i, 2>>] = "off"
  BY CudaProcPairs
<1>4. ASSUME NEW i \in Workers PROVE OneSlot(i) /\ AtMostOnce(i) /\ AtRest(i)
  <2>1. /\ i \notin cudaScanned /\ ~cudaChildDown[i] /\ ~cudaTimer[i] /\ i \notin cudaLost
        /\ cudaCrashes[i] < MaxCrashes
    BY Constants
  <2>2. ~Busy(i)
    BY <1>3 DEF Busy
  <2> QED
    BY <1>3, <2>1, <2>2 DEF OneSlot, AtMostOnce, AtRest
<1>5. CudaService!Init
  BY <1>1 DEF CudaService!Init, CudaService!Idle
<1> QED
  BY <1>1, <1>2, <1>4, <1>5 DEF CudaInv

LEMMA CudaStartStep ==
  ASSUME CudaInv, NEW threw \in SUBSET Workers, CudaStart(threw)
  PROVE  CudaInv' /\ CudaServiceStep
<1>1. /\ cudaGen < MaxGen /\ cudaGen' = cudaGen + 1 /\ cudaTimer' = Each(FALSE)
      /\ cudaSolved' = FALSE /\ cudaExhausted' = 0 /\ cudaDown' = 0 /\ cudaActive' = TRUE
      /\ cudaChildDown' = Each(FALSE) /\ cudaFails' = Each(0) /\ cudaCrashes' = Each(0)
      /\ CudaOnlyFresh(Workers \ threw)
      /\ cudaScanned' = {} /\ cudaLost' = threw /\ cudaOutcome' = "none"
  BY DEF CudaStart, CudaNewGeneration, CudaClearPendingRespawns
<1>2. cudaGen' \in 0 .. MaxGen
  BY <1>1, Constants DEF CudaInv, CudaPoolTypeOK
<1>3. /\ proc' \in [Procs -> Status]
      /\ \A i \in Workers : /\ proc'[<<i, 2>>] = "off"
                            /\ proc'[<<i, 1>>] = IF i \notin threw THEN "up" ELSE "off"
  BY <1>1, AllFresh
<1>4. CudaGrinding' /\ GpusDown' = {}
  BY <1>1 DEF CudaGrinding, GpusDown, Each
<1>5. CudaPoolTypeOK'
  <2>1. /\ cudaChildDown' \in [Workers -> BOOLEAN] /\ cudaTimer' \in [Workers -> BOOLEAN]
        /\ cudaFails' \in [Workers -> Nat] /\ cudaCrashes' \in [Workers -> 0 .. MaxCrashes]
    BY <1>1, Constants DEF Each
  <2> QED
    BY <1>1, <1>2, <1>3, <2>1 DEF CudaPoolTypeOK, Status
<1>6. ASSUME NEW i \in Workers PROVE OneSlot(i)' /\ AtMostOnce(i)' /\ AtLeastOnce(i)'
  <2>1. Busy(i)' <=> i \notin threw
    BY <1>3 DEF Busy
  <2> QED
    BY <1>1, <1>3, <2>1, Constants DEF OneSlot, AtMostOnce, AtLeastOnce, Each
<1>7. CudaCounted'
  BY <1>1, <1>4, FS_EmptySet DEF CudaCounted
<1>8. CudaService!Begin
  BY <1>1, <1>4 DEF CudaService!Begin
<1> QED
  BY <1>1, <1>4, <1>5, <1>6, <1>7, <1>8 DEF CudaInv, CudaServiceStep, CudaService!Next

LEMMA StopStep ==
  ASSUME CudaInv, CudaStop
  PROVE  CudaInv' /\ CudaServiceStep
<1>1. /\ cudaGen < MaxGen /\ cudaGen' = cudaGen + 1 /\ cudaTimer' = Each(FALSE)
      /\ cudaSolved' = TRUE /\ cudaActive' = FALSE /\ CudaOnlyFresh({})
      /\ cudaScanned' = {} /\ cudaLost' = {} /\ cudaOutcome' = "none"
      /\ UNCHANGED <<cudaExhausted, cudaDown, cudaChildDown, cudaFails, cudaCrashes>>
  BY DEF CudaStop, CudaNewGeneration, CudaClearPendingRespawns
<1>2. cudaGen' \in 0 .. MaxGen
  BY <1>1, Constants DEF CudaInv, CudaPoolTypeOK
<1>3. /\ proc' \in [Procs -> Status]
      /\ \A i \in Workers : proc'[<<i, 2>>] = "off" /\ proc'[<<i, 1>>] = "off"
  BY <1>1, AllFresh
<1>4. ~CudaGrinding'
  BY <1>1 DEF CudaGrinding
<1>5. CudaPoolTypeOK'
  BY <1>1, <1>2, <1>3 DEF CudaInv, CudaPoolTypeOK, Status, Each
<1>6. \A i \in Workers : OneSlot(i)' /\ AtMostOnce(i)' /\ AtRest(i)'
  BY <1>1, <1>3 DEF CudaInv, OneSlot, AtMostOnce, AtRest, Busy, Each
<1>7. CudaService!Abort
  BY <1>1, <1>4 DEF CudaService!Abort, CudaService!Idle
<1> QED
  BY <1>1, <1>4, <1>5, <1>6, <1>7 DEF CudaInv, CudaServiceStep, CudaService!Next

(* What a process does is for the pool to find out. *)
LEMMA LeavesStep ==
  ASSUME CudaInv, NEW p \in Procs, NEW s \in {"SOLVED", "EXHAUSTED", "ended"},
         Leaves(p, s)
  PROVE  CudaInv' /\ CudaServiceStep
<1> DEFINE i == p[1]
<1>1. /\ proc[p] = "up" /\ proc' = [proc EXCEPT ![p] = s]
      /\ UNCHANGED <<cudaPoolVars, cudaSlotVars, cudaHistory>>
  BY DEF Leaves
<1>2. i \in Workers /\ p = <<i, 1>> /\ Busy(i)
  BY <1>1, FirstSlot DEF Busy
<1>3. /\ proc' \in [Procs -> Status] /\ proc'[<<i, 1>>] = s
      /\ \A j \in Workers : proc'[<<j, 2>>] = "off"
      /\ \A j \in Workers : j # i => proc'[<<j, 1>>] = proc[<<j, 1>>]
  BY <1>1, <1>2, OneMoves DEF Status
<1>4. \A j \in Workers : Busy(j)' <=> Busy(j)
  BY <1>2, <1>3 DEF Busy
<1>5. CudaPoolTypeOK'
  BY <1>1, <1>3
  DEF CudaInv, CudaPoolTypeOK, Status, cudaPoolVars, cudaSlotVars, cudaHistory
<1>6. CudaServiceStep /\ CudaGrinding' = CudaGrinding /\ GpusDown' = GpusDown
  BY <1>1, CudaInvisible DEF cudaPoolVars, cudaSlotVars, cudaHistory
<1>7. ASSUME NEW j \in Workers
      PROVE  /\ OneSlot(j)' /\ AtMostOnce(j)'
             /\ AtLeastOnce(j)' <=> AtLeastOnce(j)
             /\ AtRest(j)' <=> AtRest(j)
  BY <1>1, <1>3, <1>4
  DEF CudaInv, OneSlot, AtMostOnce, AtLeastOnce, AtRest, cudaSlotVars, cudaHistory
<1>8. CudaGrinding' => CudaCounted'
  BY <1>1, <1>6 DEF CudaInv, CudaCounted, cudaPoolVars, cudaHistory
<1> QED
  BY <1>1, <1>5, <1>6, <1>7, <1>8 DEF CudaInv, cudaPoolVars

(* A range is done with: the counters follow, and when the last one is, the
   template ends. *)
LEMMA Finishes ==
  ASSUME CudaInv, CudaGrinding, NEW i \in Workers,
         i \notin cudaScanned, ~cudaChildDown[i],
         \/ cudaScanned' = cudaScanned \union {i} /\ cudaExhausted' = cudaExhausted + 1
              /\ cudaChildDown' = cudaChildDown /\ cudaDown' = cudaDown
         \/ cudaScanned' = cudaScanned /\ cudaExhausted' = cudaExhausted
              /\ cudaChildDown' = [cudaChildDown EXCEPT ![i] = TRUE]
              /\ cudaDown' = cudaDown + 1,
         CudaMaybeExhausted, UNCHANGED cudaSolved
  PROVE  /\ CudaServiceStep
         /\ cudaScanned' \subseteq Workers /\ cudaExhausted' \in Nat /\ cudaDown' \in Nat
         /\ cudaActive' \in BOOLEAN /\ cudaOutcome' \in {"none", "exhausted"}
         /\ CudaGrinding' => CudaCounted'
         /\ ~cudaActive' => \A j \in Workers : j \in cudaScanned' \/ cudaChildDown'[j]
<1>1. /\ cudaScanned \subseteq Workers /\ cudaChildDown \in [Workers -> BOOLEAN]
      /\ cudaActive = TRUE /\ cudaSolved = FALSE /\ cudaOutcome = "none"
      /\ cudaExhausted = Cardinality(cudaScanned) /\ cudaDown = Cardinality(GpusDown)
      /\ \A j \in Workers : AtMostOnce(j)
  BY DEF CudaInv, CudaPoolTypeOK, CudaCounted, CudaGrinding
<1>2. GpusDown \subseteq Workers /\ cudaScanned \intersect GpusDown = {} /\ i \notin GpusDown
  BY <1>1 DEF GpusDown, AtMostOnce
<1>3. /\ cudaScanned' \subseteq Workers /\ GpusDown' \subseteq Workers
      /\ cudaScanned' \intersect GpusDown' = {}
      /\ cudaScanned' \union GpusDown' = (cudaScanned \union GpusDown) \union {i}
      /\ cudaExhausted' = Cardinality(cudaScanned') /\ cudaDown' = Cardinality(GpusDown')
  <2>1. CASE /\ cudaScanned' = cudaScanned \union {i} /\ cudaExhausted' = cudaExhausted + 1
             /\ cudaChildDown' = cudaChildDown /\ cudaDown' = cudaDown
    <3>1. GpusDown' = GpusDown
      BY <2>1 DEF GpusDown
    <3>2. Cardinality(cudaScanned \union {i}) = Cardinality(cudaScanned) + 1
      BY <1>1, OneMore
    <3> QED
      BY <2>1, <3>1, <3>2, <1>1, <1>2
  <2>2. CASE /\ cudaScanned' = cudaScanned /\ cudaExhausted' = cudaExhausted
             /\ cudaChildDown' = [cudaChildDown EXCEPT ![i] = TRUE] /\ cudaDown' = cudaDown + 1
    <3>1. GpusDown' = GpusDown \union {i}
      BY <2>2, <1>1 DEF GpusDown
    <3>2. Cardinality(GpusDown \union {i}) = Cardinality(GpusDown) + 1
      BY <1>2, OneMore
    <3> QED
      BY <2>2, <3>1, <3>2, <1>1, <1>2
  <2> QED
    BY <2>1, <2>2
<1>4. /\ cudaExhausted' \in Nat /\ cudaDown' \in Nat
      /\ cudaExhausted' + cudaDown' >= Cardinality(Workers)
           <=> Workers \ (cudaScanned' \union GpusDown') = {}
  BY <1>3, Quorum
<1>5. CASE cudaExhausted' + cudaDown' >= Cardinality(Workers)
  <2>1. cudaActive' = FALSE /\ cudaOutcome' = "exhausted"
    BY <1>1, <1>5 DEF CudaMaybeExhausted, CudaCalled
  <2>2. CudaGrinding' = FALSE
    BY <2>1 DEF CudaGrinding
  <2>3. Workers \ (cudaScanned' \union GpusDown') = {}
    BY <1>4, <1>5
  <2>4. CudaService!Finish(i)
    <3>1. i \in CudaTodo /\ CudaTodo \ {i} = {} /\ CudaTodo' = {}
      BY <1>2, <1>3, <2>2, <2>3 DEF CudaTodo
    <3> QED
      BY <2>1, <2>2, <3>1, <1>1 DEF CudaService!Finish, CudaTodo
  <2>5. \A j \in Workers : j \in cudaScanned' \/ cudaChildDown'[j]
    BY <2>3 DEF GpusDown
  <2> QED
    BY <1>3, <1>4, <2>1, <2>2, <2>4, <2>5 DEF CudaServiceStep, CudaService!Next
<1>6. CASE ~(cudaExhausted' + cudaDown' >= Cardinality(Workers))
  <2>1. cudaActive' = TRUE /\ cudaOutcome' = "none"
    BY <1>1, <1>6 DEF CudaMaybeExhausted
  <2>2. CudaGrinding' = TRUE
    BY <1>1, <2>1 DEF CudaGrinding
  <2>3. Workers \ (cudaScanned' \union GpusDown') # {}
    BY <1>4, <1>6
  <2>4. CudaService!Finish(i)
    <3>1. i \in CudaTodo /\ CudaTodo' = CudaTodo \ {i} /\ CudaTodo' # {}
      BY <1>2, <1>3, <2>2, <2>3 DEF CudaTodo
    <3> QED
      BY <1>1, <2>1, <2>2, <3>1 DEF CudaService!Finish, CudaTodo
  <2> QED
    BY <1>3, <1>4, <2>1, <2>4 DEF CudaServiceStep, CudaService!Next, CudaCounted
<1> QED
  BY <1>5, <1>6

LEMMA CudaSolvedStep ==
  ASSUME CudaInv, NEW p \in Procs, CudaOnSolved(p)
  PROVE  CudaInv' /\ CudaServiceStep
<1> DEFINE i == p[1]
<1>1. /\ proc[p] = "SOLVED"
      /\ UNCHANGED <<cudaGen, cudaExhausted, cudaDown, cudaActive, cudaSlotVars,
                     cudaScanned, cudaLost>>
  BY DEF CudaOnSolved
<1>2. i \in Workers /\ p = <<i, 1>> /\ Busy(i)
  BY <1>1, FirstSlot DEF Busy
<1>3. cudaActive = TRUE
  BY <1>2 DEF CudaInv, CudaPoolTypeOK, AtRest
<1>4. CASE cudaSolved
  <2>1. proc' = [proc EXCEPT ![p] = "ended"] /\ UNCHANGED <<cudaSolved, cudaOutcome>>
    BY <1>4 DEF CudaOnSolved, Latched
  <2>2. /\ proc' \in [Procs -> Status] /\ proc'[<<i, 1>>] = "ended"
        /\ \A j \in Workers : proc'[<<j, 2>>] = "off"
        /\ \A j \in Workers : j # i => proc'[<<j, 1>>] = proc[<<j, 1>>]
    BY <1>2, <2>1, OneMoves DEF Status
  <2>3. \A j \in Workers : Busy(j)' <=> Busy(j)
    BY <1>2, <2>2 DEF Busy
  <2>4. CudaPoolTypeOK'
    BY <1>1, <2>1, <2>2 DEF CudaInv, CudaPoolTypeOK, Status, cudaSlotVars
  <2>5. CudaServiceStep /\ ~CudaGrinding'
    BY <1>1, <1>4, <2>1, CudaInvisible DEF cudaSlotVars, CudaGrinding
  <2>6. \A j \in Workers : OneSlot(j)' /\ AtMostOnce(j)'
    BY <1>1, <2>2, <2>3 DEF CudaInv, OneSlot, AtMostOnce, cudaSlotVars
  <2> QED
    BY <1>1, <1>3, <2>4, <2>5, <2>6 DEF CudaInv
<1>5. CASE ~cudaSolved
  <2>1. CudaOnlyFresh({}) /\ cudaSolved' = TRUE /\ cudaOutcome' = CudaCalled("solved")
    BY <1>5 DEF CudaOnSolved, Latched
  <2>2. /\ proc' \in [Procs -> Status]
        /\ \A j \in Workers : proc'[<<j, 2>>] = "off" /\ proc'[<<j, 1>>] = "off"
    BY <2>1, AllFresh
  <2>3. CudaGrinding = TRUE /\ CudaGrinding' = FALSE
    BY <1>3, <1>5, <2>1 DEF CudaGrinding
  <2>4. cudaOutcome' = "solved"
    BY <2>1, <2>3 DEF CudaInv, CudaCounted, CudaCalled
  <2>5. CudaPoolTypeOK'
    BY <1>1, <2>1, <2>2, <2>4 DEF CudaInv, CudaPoolTypeOK, Status, cudaSlotVars
  <2>6. \A j \in Workers : OneSlot(j)' /\ AtMostOnce(j)'
    BY <1>1, <2>2 DEF CudaInv, OneSlot, AtMostOnce, Busy, cudaSlotVars
  <2>7. CudaService!Solve
    BY <2>3, <2>4 DEF CudaService!Solve
  <2> QED
    BY <1>1, <1>3, <2>3, <2>5, <2>6, <2>7 DEF CudaInv, CudaServiceStep, CudaService!Next
<1> QED
  BY <1>4, <1>5

(* A solved template has no caller any more. *)
LEMMA Unheard ==
  ASSUME ~CudaGrinding, ~CudaGrinding', UNCHANGED cudaOutcome
  PROVE  CudaServiceStep
<1>1. CudaGrinding = FALSE /\ CudaGrinding' = FALSE
  BY DEF CudaGrinding
<1>2. UNCHANGED CudaService!serviceVars
  BY <1>1 DEF CudaService!serviceVars
<1> QED
  BY <1>2 DEF CudaServiceStep

LEMMA CudaExhaustedStep ==
  ASSUME CudaInv, NEW p \in Procs, CudaOnExhausted(p)
  PROVE  CudaInv' /\ CudaServiceStep
<1> DEFINE i == p[1]
<1>1. /\ proc[p] = "EXHAUSTED" /\ proc' = [proc EXCEPT ![p] = "final"]
      /\ cudaExhausted' = cudaExhausted + 1 /\ cudaDown' = cudaDown /\ CudaMaybeExhausted
      /\ cudaScanned' = cudaScanned \union {i}
      /\ UNCHANGED <<cudaGen, cudaSolved, cudaSlotVars, cudaLost>>
  BY DEF CudaOnExhausted
<1>2. i \in Workers /\ p = <<i, 1>> /\ Busy(i)
  BY <1>1, FirstSlot DEF Busy
<1>3. /\ cudaActive = TRUE /\ cudaSolved \in BOOLEAN
      /\ i \notin cudaScanned /\ ~cudaChildDown[i] /\ ~cudaTimer[i] /\ i \notin cudaLost
  BY <1>2 DEF CudaInv, CudaPoolTypeOK, AtRest, AtMostOnce
<1>4. /\ proc' \in [Procs -> Status] /\ proc'[<<i, 1>>] = "final"
      /\ \A j \in Workers : proc'[<<j, 2>>] = "off"
      /\ \A j \in Workers : j # i => proc'[<<j, 1>>] = proc[<<j, 1>>]
  BY <1>1, <1>2, OneMoves DEF Status
<1>5. ~Busy(i)' /\ \A j \in Workers : j # i => (Busy(j)' <=> Busy(j))
  BY <1>2, <1>4 DEF Busy
<1>6. ASSUME NEW j \in Workers
      PROVE  OneSlot(j)' /\ AtMostOnce(j)' /\ (AtLeastOnce(j) => AtLeastOnce(j)')
  <2>1. OneSlot(j) /\ AtMostOnce(j)
    BY DEF CudaInv
  <2>2. CASE j = i
    BY <1>1, <1>2, <1>3, <1>4, <1>5, <2>1, <2>2
    DEF OneSlot, AtMostOnce, AtLeastOnce, cudaSlotVars
  <2>3. CASE j # i
    BY <1>1, <1>4, <1>5, <2>1, <2>3 DEF OneSlot, AtMostOnce, AtLeastOnce, cudaSlotVars
  <2> QED
    BY <2>2, <2>3
<1>7. CASE cudaSolved
  <2>1. UNCHANGED <<cudaActive, cudaOutcome>>
    BY <1>1, <1>7 DEF CudaMaybeExhausted
  <2>2. ~CudaGrinding /\ ~CudaGrinding'
    BY <1>1, <1>7 DEF CudaGrinding
  <2>3. CudaPoolTypeOK'
    BY <1>1, <1>2, <1>4, <2>1 DEF CudaInv, CudaPoolTypeOK, Status, cudaSlotVars
  <2> QED
    BY <1>3, <1>6, <2>1, <2>2, <2>3, Unheard DEF CudaInv
<1>8. CASE ~cudaSolved
  <2>1. CudaGrinding
    BY <1>3, <1>8 DEF CudaGrinding
  <2>2. cudaChildDown' = cudaChildDown /\ cudaSolved' = cudaSolved
    BY <1>1 DEF cudaSlotVars
  <2>3. /\ CudaServiceStep
        /\ cudaScanned' \subseteq Workers /\ cudaExhausted' \in Nat /\ cudaDown' \in Nat
        /\ cudaActive' \in BOOLEAN /\ cudaOutcome' \in {"none", "exhausted"}
        /\ CudaGrinding' => CudaCounted'
        /\ ~cudaActive' => \A j \in Workers : j \in cudaScanned' \/ cudaChildDown'[j]
    BY <1>1, <1>2, <1>3, <2>1, <2>2, Finishes
  <2>4. CudaPoolTypeOK'
    BY <1>1, <1>4, <2>3 DEF CudaInv, CudaPoolTypeOK, Status, cudaSlotVars
  <2>5. ~cudaActive' => \A j \in Workers : AtRest(j)'
    BY <1>6, <2>3 DEF AtRest, AtMostOnce
  <2>6. \A j \in Workers : AtLeastOnce(j)'
    BY <1>6, <2>1 DEF CudaInv
  <2> QED
    BY <1>6, <2>3, <2>4, <2>5, <2>6 DEF CudaInv
<1> QED
  BY <1>7, <1>8

LEMMA CloseStep ==
  ASSUME CudaInv, NEW p \in Procs, OnClose(p)
  PROVE  CudaInv' /\ CudaServiceStep
<1> DEFINE i == p[1]
<1>1. /\ proc[p] \in {"ended", "final"} /\ proc' = [proc EXCEPT ![p] = "off"]
      /\ UNCHANGED <<cudaGen, cudaSolved, cudaScanned, cudaLost>>
  BY DEF OnClose
<1>2. i \in Workers /\ p = <<i, 1>>
  BY <1>1, FirstSlot
<1>3. /\ proc' \in [Procs -> Status] /\ proc'[<<i, 1>>] = "off"
      /\ \A j \in Workers : proc'[<<j, 2>>] = "off"
      /\ \A j \in Workers : j # i => proc'[<<j, 1>>] = proc[<<j, 1>>]
  BY <1>1, <1>2, OneMoves DEF Status
<1>4. ~Busy(i)' /\ \A j \in Workers : j # i => (Busy(j)' <=> Busy(j))
  BY <1>2, <1>3 DEF Busy
<1>5. \A j \in Workers : OneSlot(j)'
  BY <1>1, <1>3 DEF CudaInv, OneSlot
<1>6. CASE Settled(p)
  <2>1. UNCHANGED <<cudaExhausted, cudaDown, cudaActive, cudaSlotVars, cudaOutcome>>
    BY <1>6 DEF OnClose
  <2>2. CudaServiceStep /\ CudaGrinding' = CudaGrinding /\ GpusDown' = GpusDown
    BY <1>1, <2>1, CudaInvisible DEF cudaSlotVars
  <2>3. CudaPoolTypeOK'
    BY <1>1, <1>3, <2>1 DEF CudaInv, CudaPoolTypeOK, Status, cudaSlotVars
  <2>4. ASSUME NEW j \in Workers
        PROVE  AtMostOnce(j)' /\ (AtRest(j) => AtRest(j)')
    BY <1>1, <1>4, <2>1 DEF CudaInv, AtMostOnce, AtRest, cudaSlotVars
  <2>5. ASSUME CudaGrinding, NEW j \in Workers PROVE AtLeastOnce(j)'
    <3>1. AtLeastOnce(j)
      BY <2>5 DEF CudaInv
    <3>2. i \in cudaScanned
      BY <1>2, <1>6, <2>5 DEF Settled, CudaGrinding, CudaInv, OneSlot
    <3> QED
      BY <1>1, <1>4, <2>1, <3>1, <3>2 DEF AtLeastOnce, cudaSlotVars
  <2>6. CudaGrinding => CudaCounted'
    BY <1>1, <2>1, <2>2 DEF CudaInv, CudaCounted
  <2> QED
    BY <1>5, <2>1, <2>2, <2>3, <2>4, <2>5, <2>6 DEF CudaInv
<1>7. CASE ~Settled(p)
  <2>1. PICK fast \in BOOLEAN : Failed(i, fast)
    BY <1>7 DEF OnClose
  <2>2. /\ cudaFails' = [cudaFails EXCEPT ![i] = IF fast THEN @ + 1 ELSE 0]
        /\ cudaCrashes' = [cudaCrashes EXCEPT ![i] = @ + 1] /\ cudaExhausted' = cudaExhausted
        /\ \/ /\ cudaChildDown' = [cudaChildDown EXCEPT ![i] = TRUE]
              /\ cudaDown' = cudaDown + 1 /\ CudaMaybeExhausted /\ UNCHANGED cudaTimer
           \/ /\ ~(cudaCrashes'[i] >= MaxCrashes)
              /\ cudaTimer' = [cudaTimer EXCEPT ![i] = TRUE]
              /\ UNCHANGED <<cudaChildDown, cudaDown, cudaActive, cudaOutcome>>
    BY <2>1 DEF Failed
  <2>3. /\ Busy(i) /\ ~cudaSolved
        /\ i \notin cudaScanned /\ ~cudaChildDown[i] /\ ~cudaTimer[i] /\ i \notin cudaLost
        /\ cudaCrashes[i] < MaxCrashes
    BY <1>1, <1>2, <1>7 DEF Settled, Busy, CudaInv, AtMostOnce
  <2>4. CudaGrinding
    BY <1>2, <2>3 DEF CudaInv, AtRest, CudaGrinding
  <2>5. /\ cudaFails \in [Workers -> Nat] /\ cudaCrashes \in [Workers -> 0 .. MaxCrashes]
        /\ cudaChildDown \in [Workers -> BOOLEAN] /\ cudaTimer \in [Workers -> BOOLEAN]
    BY DEF CudaInv, CudaPoolTypeOK
  <2>6. /\ cudaFails' \in [Workers -> Nat] /\ cudaCrashes' \in [Workers -> 0 .. MaxCrashes]
        /\ \A j \in Workers : j # i => cudaCrashes'[j] = cudaCrashes[j]
    BY <1>2, <2>2, <2>3, <2>5, Constants
  <2>7. CASE /\ cudaChildDown' = [cudaChildDown EXCEPT ![i] = TRUE]
             /\ cudaDown' = cudaDown + 1 /\ CudaMaybeExhausted /\ UNCHANGED cudaTimer
    <3>1. /\ CudaServiceStep
          /\ cudaScanned' \subseteq Workers /\ cudaExhausted' \in Nat /\ cudaDown' \in Nat
          /\ cudaActive' \in BOOLEAN /\ cudaOutcome' \in {"none", "exhausted"}
          /\ CudaGrinding' => CudaCounted'
          /\ ~cudaActive' => \A j \in Workers : j \in cudaScanned' \/ cudaChildDown'[j]
      BY <1>1, <1>2, <2>2, <2>3, <2>4, <2>7, Finishes
    <3>2. /\ cudaChildDown' \in [Workers -> BOOLEAN] /\ cudaChildDown'[i]
          /\ \A j \in Workers : j # i => cudaChildDown'[j] = cudaChildDown[j]
      BY <1>2, <2>5, <2>7
    <3>3. CudaPoolTypeOK'
      BY <1>1, <1>3, <2>5, <2>6, <2>7, <3>1, <3>2 DEF CudaInv, CudaPoolTypeOK, Status
    <3>4. ASSUME NEW j \in Workers PROVE AtMostOnce(j)' /\ AtLeastOnce(j)'
      <4>1. AtMostOnce(j) /\ AtLeastOnce(j)
        BY <2>4 DEF CudaInv
      <4>2. CASE j = i
        BY <1>1, <1>4, <2>3, <2>7, <3>2, <4>2 DEF AtMostOnce, AtLeastOnce
      <4>3. CASE j # i
        BY <1>1, <1>4, <2>6, <2>7, <3>2, <4>1, <4>3 DEF AtMostOnce, AtLeastOnce
      <4> QED
        BY <4>2, <4>3
    <3>5. ~cudaActive' => \A j \in Workers : AtRest(j)'
      BY <3>1, <3>4 DEF AtRest, AtMostOnce
    <3> QED
      BY <1>5, <3>1, <3>3, <3>4, <3>5 DEF CudaInv
  <2>8. CASE /\ ~(cudaCrashes'[i] >= MaxCrashes)
             /\ cudaTimer' = [cudaTimer EXCEPT ![i] = TRUE]
             /\ UNCHANGED <<cudaChildDown, cudaDown, cudaActive, cudaOutcome>>
    <3>1. CudaServiceStep /\ CudaGrinding' = CudaGrinding /\ GpusDown' = GpusDown
      BY <1>1, <2>8, CudaInvisible
    <3>2. /\ cudaTimer' \in [Workers -> BOOLEAN] /\ cudaTimer'[i]
          /\ \A j \in Workers : j # i => cudaTimer'[j] = cudaTimer[j]
      BY <1>2, <2>5, <2>8
    <3>3. CudaPoolTypeOK'
      BY <1>1, <1>3, <2>2, <2>6, <2>8, <3>2 DEF CudaInv, CudaPoolTypeOK, Status
    <3>4. ASSUME NEW j \in Workers PROVE AtMostOnce(j)' /\ AtLeastOnce(j)'
      <4>1. AtMostOnce(j) /\ AtLeastOnce(j)
        BY <2>4 DEF CudaInv
      <4>2. CASE j = i
        <5>1. cudaCrashes'[i] < MaxCrashes
          BY <1>2, <2>6, <2>8, Constants
        <5> QED
          BY <1>1, <1>4, <2>3, <2>8, <3>2, <4>2, <5>1 DEF AtMostOnce, AtLeastOnce
      <4>3. CASE j # i
        BY <1>1, <1>4, <2>6, <2>8, <3>2, <4>1, <4>3 DEF AtMostOnce, AtLeastOnce
      <4> QED
        BY <4>2, <4>3
    <3>5. cudaActive' /\ CudaCounted'
      BY <1>1, <2>2, <2>4, <2>8, <3>1 DEF CudaInv, CudaCounted, CudaGrinding
    <3> QED
      BY <1>5, <3>1, <3>3, <3>4, <3>5 DEF CudaInv
  <2> QED
    BY <2>2, <2>7, <2>8
<1> QED
  BY <1>6, <1>7

LEMMA CudaTimerStep ==
  ASSUME CudaInv, NEW i \in Workers, CudaRespawnTimer(i)
  PROVE  CudaInv' /\ CudaServiceStep
<1>1. /\ cudaTimer[i] /\ cudaTimer' = [cudaTimer EXCEPT ![i] = FALSE]
      /\ UNCHANGED <<cudaPoolVars, cudaChildDown, cudaFails, cudaCrashes, cudaScanned,
                     cudaOutcome>>
      /\ \/ cudaActive /\ ~cudaChildDown[i] /\ CudaSpawnChild(i)
         \/ ~(cudaActive /\ ~cudaChildDown[i]) /\ UNCHANGED <<proc, cudaLost>>
  BY DEF CudaRespawnTimer
<1>2. CudaServiceStep /\ CudaGrinding' = CudaGrinding /\ GpusDown' = GpusDown
  BY <1>1, CudaInvisible DEF cudaPoolVars
<1>3. /\ cudaTimer \in [Workers -> BOOLEAN] /\ cudaTimer' \in [Workers -> BOOLEAN]
      /\ ~cudaTimer'[i] /\ \A j \in Workers : j # i => cudaTimer'[j] = cudaTimer[j]
  BY <1>1 DEF CudaInv, CudaPoolTypeOK
<1>4. /\ i \notin cudaScanned /\ ~cudaChildDown[i] /\ ~Busy(i) /\ i \notin cudaLost
      /\ cudaActive
  BY <1>1 DEF CudaInv, CudaPoolTypeOK, AtMostOnce, AtRest
(* What was scanned is not spawned again, so the first slot is free. *)
<1>5. proc[<<i, 1>>] = "off"
  BY <1>4 DEF CudaInv, OneSlot, Busy
<1>6. \/ proc' = [proc EXCEPT ![<<i, 1>>] = "up"] /\ cudaLost' = cudaLost
      \/ cudaLost' = cudaLost \union {i} /\ proc' = proc
  BY <1>1, <1>4, <1>5 DEF CudaSpawnChild
<1>7. /\ proc' \in [Procs -> Status]
      /\ \A j \in Workers : proc'[<<j, 2>>] = "off"
      /\ \A j \in Workers : j # i => proc'[<<j, 1>>] = proc[<<j, 1>>]
      /\ \/ proc'[<<i, 1>>] = "up" /\ cudaLost' = cudaLost
         \/ proc'[<<i, 1>>] = "off" /\ cudaLost' = cudaLost \union {i}
  <2>1. CASE proc' = [proc EXCEPT ![<<i, 1>>] = "up"] /\ cudaLost' = cudaLost
    BY <2>1, OneMoves DEF Status
  <2>2. CASE cudaLost' = cudaLost \union {i} /\ proc' = proc
    BY <1>5, <2>2 DEF CudaInv, CudaPoolTypeOK, OneSlot, Status
  <2> QED
    BY <1>6, <2>1, <2>2
<1>8. CudaPoolTypeOK'
  BY <1>1, <1>3, <1>7 DEF CudaInv, CudaPoolTypeOK, Status, cudaPoolVars
<1>9. ASSUME NEW j \in Workers PROVE OneSlot(j)' /\ AtMostOnce(j)' /\
                                     (AtLeastOnce(j) => AtLeastOnce(j)')
  <2>1. OneSlot(j) /\ AtMostOnce(j)
    BY DEF CudaInv
  <2>2. CASE j = i
    BY <1>1, <1>3, <1>4, <1>7, <2>1, <2>2 DEF OneSlot, AtMostOnce, AtLeastOnce, Busy
  <2>3. CASE j # i
    BY <1>1, <1>3, <1>7, <2>1, <2>3 DEF OneSlot, AtMostOnce, AtLeastOnce, Busy
  <2> QED
    BY <2>2, <2>3
<1>10. cudaActive' /\ (CudaGrinding' => CudaCounted')
  BY <1>1, <1>2, <1>4 DEF CudaInv, CudaCounted, cudaPoolVars
<1> QED
  BY <1>2, <1>8, <1>9, <1>10 DEF CudaInv

LEMMA CudaNextStep ==
  ASSUME CudaInv, [CudaNext]_cudaVars
  PROVE  CudaInv' /\ CudaServiceStep
<1>1. ASSUME NEW threw \in SUBSET Workers, CudaStart(threw) PROVE CudaInv' /\ CudaServiceStep
  BY <1>1, CudaStartStep
<1>2. CASE CudaStop
  BY <1>2, StopStep
<1>3. ASSUME NEW p \in Procs, CudaHit(p) \/ CudaScanToEnd(p) \/ CudaCrash(p)
      PROVE  CudaInv' /\ CudaServiceStep
  BY <1>3, LeavesStep DEF CudaHit, CudaScanToEnd, CudaCrash
<1>4. ASSUME NEW p \in Procs, CudaEvents(p) PROVE CudaInv' /\ CudaServiceStep
  BY <1>4, CudaSolvedStep, CudaExhaustedStep, CloseStep DEF CudaEvents
<1>5. ASSUME NEW i \in Workers, CudaRespawnTimer(i) PROVE CudaInv' /\ CudaServiceStep
  BY <1>5, CudaTimerStep
<1>6. CASE UNCHANGED cudaVars
  <2>1. UNCHANGED <<cudaGen, cudaSolved, cudaExhausted, cudaDown, cudaActive,
                    cudaChildDown, cudaFails, cudaCrashes, cudaTimer, proc,
                    cudaScanned, cudaLost, cudaOutcome>>
    BY <1>6 DEF cudaVars, cudaPoolVars, cudaSlotVars, cudaHistory
  <2>2. CudaServiceStep /\ CudaGrinding' = CudaGrinding /\ GpusDown' = GpusDown
    BY <2>1, CudaInvisible
  <2>3. CudaPoolTypeOK' /\ (CudaGrinding' => CudaCounted')
    BY <2>1, <2>2 DEF CudaInv, CudaPoolTypeOK, CudaCounted
  <2>4. ASSUME NEW i \in Workers
        PROVE  /\ OneSlot(i)' /\ AtMostOnce(i)'
               /\ AtRest(i) => AtRest(i)'
               /\ AtLeastOnce(i) => AtLeastOnce(i)'
    BY <2>1 DEF CudaInv, OneSlot, AtMostOnce, AtRest, AtLeastOnce, Busy
  <2> QED
    BY <2>1, <2>2, <2>3, <2>4 DEF CudaInv
<1> QED
  BY <1>1, <1>2, <1>3, <1>4, <1>5, <1>6 DEF CudaNext

-----------------------------------------------------------------------------
(* A step of the session is a step of one pool and none of the other. *)
LEMMA EngineStep ==
  [EngineNext]_engineVars => [Next]_vars /\ [CudaNext]_cudaVars
  BY DEF EngineNext, NativeEngine, CudaEngine, engineVars

LEMMA EngineInvariant == EngineSpec => [](NativeInv /\ CudaInv)
<1>1. EngineInit => NativeInv /\ CudaInv
  BY InitStep, CudaInitStep DEF EngineInit
<1>2. NativeInv /\ CudaInv /\ [EngineNext]_engineVars => NativeInv' /\ CudaInv'
  BY EngineStep, NextStep, CudaNextStep
<1> QED
  BY <1>1, <1>2, PTL DEF EngineSpec

(* Every state of the CUDA pool is well typed; no range exceeds its crash
   budget, not even by a process spawned after the solve. *)
THEOREM CudaPoolTyped == EngineSpec => []CudaPoolTypeOK
<1>1. CudaInv => CudaPoolTypeOK
  BY DEF CudaInv
<1> QED
  BY <1>1, EngineInvariant, PTL

(* No range of the template being ground is forgotten or counted twice, in
   either engine. *)
THEOREM NoRangeMiscounted == EngineSpec => []RangesAccounted
<1>1. NativeInv /\ CudaInv => RangesAccounted
  BY InvImpliesProperties, CudaInvImpliesProperties DEF RangesAccounted
<1> QED
  BY <1>1, EngineInvariant, PTL

(* A native range that was scanned to its end is not ground again, and spawnChild
   of the CUDA pool never adds a second process to a range, although its respawn
   timer asks for neither generation nor solve. *)
THEOREM NeverTwice == EngineSpec => []NoneGroundTwice
<1>1. NativeInv /\ CudaInv => NoneGroundTwice
  BY InvImpliesProperties, CudaInvImpliesProperties DEF NoneGroundTwice
<1> QED
  BY <1>1, EngineInvariant, PTL

(* Either engine is a grind service; what a late timer brings back to a solved
   template is never heard by the caller. *)
THEOREM EnginesAreGrindServices == EngineSpec => EnginesServe
<1>1. EngineInit => Service!Init /\ CudaService!Init
  BY InitStep, CudaInitStep DEF EngineInit
<1>2. NativeInv /\ [EngineNext]_engineVars => [Service!Next]_(Service!serviceVars)
  BY EngineStep, NextStep DEF ServiceStep
<1>3. CudaInv /\ [EngineNext]_engineVars
        => [CudaService!Next]_(CudaService!serviceVars)
  BY EngineStep, CudaNextStep DEF CudaServiceStep
<1>4. EngineSpec => ImplementsService
  BY <1>1, <1>2, EngineInvariant, PTL
  DEF EngineSpec, ImplementsService, Service!ServiceSpec
<1>5. EngineSpec => CudaImplementsService
  BY <1>1, <1>3, EngineInvariant, PTL
  DEF EngineSpec, CudaImplementsService, CudaService!ServiceSpec
<1> QED
  BY <1>4, <1>5 DEF EnginesServe
=============================================================================
