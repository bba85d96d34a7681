--------------------------- MODULE ColdStartProofs ---------------------------
(***************************************************************************)
(* What a start promises, for any number of helpers and verifier threads, any *)
(* thresholds, page size and snapshot depth, and a network of any height.     *)
(*                                                                         *)
(* Three invariants are proved together, as the same steps move them. That no *)
(* forged block is kept needs the whole of a verify call: the ids out lead to *)
(* the slots of their blocks, whatever of an earlier call still answers, so   *)
(* the verdicts of a page are the page's own. The rounds a bad primary had    *)
(* are weighed by its two streaks, one of which the other resets.            *)
(***************************************************************************)
EXTENDS ColdStart, WellFoundedInduction, TLAPS

Blocks == {"good", "bad"}

Chains == [seed : Nat, height : Nat, honest : BOOLEAN]

Sessions ==
  [mode : {"solo", "negotiated"}, isWarm : BOOLEAN, warmStart : BOOLEAN,
   invalidated : BOOLEAN, aborted : BOOLEAN, replay : BOOLEAN, source : BOOLEAN,
   rounds : Nat, page : Seq(Blocks)]

ColdTypeOK ==
  /\ phase \in Starting \union {"menu", "mining"}
  /\ sess \in Sessions
  /\ chain \in Chains
  /\ handle \in Chains
  /\ file \in [anchor : Nat, honest : BOOLEAN, intact : BOOLEAN]
  /\ idSeq \in Nat

(* Only between the restore and its confirmation may the chain not be the
   network's, and then it is what the file says. *)
Honest ==
  /\ phase # "confirm" => chain.honest
  /\ phase = "confirm" => file.intact /\ (chain.honest <=> file.honest)
  /\ handle # NoHandle => handle.honest

-----------------------------------------------------------------------------
(* The call of the page being verified. *)

(* A slot without its verdict, or with the verdict of its own block. *)
CallOfPage ==
  /\ call.blocks = sess.page
  /\ call = [blocks |-> call.blocks, next |-> call.next, results |-> call.results]
  /\ call.next \in Nat \ {0}
  /\ call.results \in [DOMAIN sess.page -> Blocks \union {Unknown}]
  /\ \A i \in DOMAIN sess.page : call.results[i] \in {Unknown, sess.page[i]}

(* An id is out once, and what a worker has under it is the block of its slot. *)
RoutesLead ==
  /\ \A r \in routes : r \in Nat \X DOMAIN sess.page /\ r[1] < idSeq
  /\ jobs = [w \in Workers |-> jobs[w]]
  /\ \A w \in Workers : jobs[w] \notin {None, Lost} =>
       /\ jobs[w] \in Nat \X Blocks /\ jobs[w][1] < idSeq
       /\ \A r \in routes : r[1] = jobs[w][1] => jobs[w][2] = sess.page[r[2]]

VerdictsAreThePages ==
  phase = "verify" =>
    /\ routes # {} => CallOfPage
    /\ RoutesLead
    /\ reply \in {None, Rejected, sess.page}

-----------------------------------------------------------------------------
(* The streaks of the primary. *)

Streaks == [primary : Helpers, fails : Nat, stale : Nat, ill : Nat]

(* Every round that trailed follows less than a threshold of failed ones. *)
Counted(h) ==
  /\ h \in Streaks
  /\ HelperCount > 1 =>
       /\ h.fails < RotateThreshold /\ h.stale < StaleRounds
       /\ h.ill <= h.stale * RotateThreshold + h.fails

ColdInv == ColdTypeOK /\ Honest /\ VerdictsAreThePages /\ Counted(helper)

-----------------------------------------------------------------------------
(* A nonempty set of naturals has a least element. *)
LEMMA LeastNat ==
  ASSUME NEW T \in SUBSET Nat, T # {}
  PROVE  \E n \in T : \A m \in T : n <= m
<1>1. \E n \in T : \A m \in T : ~ (<<m, n>> \in OpToRel(<, Nat))
  BY NatLessThanWellFounded, WFMin
<1>2. PICK n \in T : \A m \in T : ~ (<<m, n>> \in OpToRel(<, Nat))
  BY <1>1
<1>3. \A m \in T : <<m, n>> \in OpToRel(<, Nat) <=> m < n
  BY DEF OpToRel
<1>4. \A m \in T : n \in Nat /\ m \in Nat /\ ~(m < n)
  BY <1>2, <1>3
<1>5. \A m \in T : n <= m
  BY <1>4
<1> QED
  BY <1>5

(* A nonempty set of naturals up to a bound has its maximum. *)
LEMMA MaxIsMember ==
  ASSUME NEW L \in Nat, NEW T \in SUBSET (0 .. L), T # {}
  PROVE  Max(T) \in T /\ \A y \in T : y <= Max(T)
<1> DEFINE Below == {L - n : n \in T}
<1>1. Below \in SUBSET Nat /\ Below # {}
  <2>1. \A n \in T : n \in Nat /\ n <= L
    OBVIOUS
  <2>2. \A n \in T : L - n \in Nat
    BY <2>1
  <2> QED
    BY <2>2
<1>2. PICK d \in Below : \A m \in Below : d <= m
  BY <1>1, LeastNat
<1>3. PICK x \in T : d = L - x
  BY <1>2
<1>4. \A y \in T : x >= y
  <2> TAKE y \in T
  <2>1. L - y \in Below /\ y \in Int /\ x \in Int
    OBVIOUS
  <2>2. L - x <= L - y
    BY <2>1, <1>2, <1>3
  <2> QED
    BY <2>1, <2>2
<1>5. \E z \in T : \A y \in T : z >= y
  BY <1>4
<1>6. Max(T) \in T /\ \A y \in T : Max(T) >= y
  BY <1>5 DEF Max
<1> QED
  BY <1>6

-----------------------------------------------------------------------------
(* The helpers. *)

LEMMA NextIsHelper ==
  ASSUME NEW h \in Streaks
  PROVE  NextHelper(h) \in Helpers
  BY HelperAssumption DEF NextHelper, Streaks, Helpers

LEMMA NewRoleCounts ==
  ASSUME NEW p \in Helpers
  PROVE  Counted(Rotated(p))
  BY HelperAssumption DEF Rotated, Counted, Streaks

(* A poll of typed answers has a best claim, which some helper made. *)
LEMMA BestIsClaimed ==
  ASSUME NEW tips \in [Helpers -> {Down} \union Claims]
  PROVE  /\ BestClaim(tips) \in {Down} \union Claims
         /\ \E i \in Helpers : tips[i] = BestClaim(tips)
<1> DEFINE T == {tips[i] : i \in Helpers}
<1>1. T \in SUBSET (0 .. 2) /\ T # {}
  BY HelperAssumption DEF Helpers, Down, Claims
<1>2. Max(T) \in T
  BY <1>1, MaxIsMember, 2 \in Nat
<1> QED
  BY <1>2 DEF BestClaim

LEMMA ClaimantIsHelper ==
  ASSUME NEW h \in Streaks, NEW tips \in [Helpers -> {Down} \union Claims]
  PROVE  Claimant(h, tips) \in Helpers
<1> DEFINE Best == {i \in Helpers : tips[i] = BestClaim(tips)}
           Turns == {Turn(h, i) : i \in Best}
<1>1. \A i \in Helpers : Turn(h, i) \in Nat
  BY HelperAssumption DEF Turn, Streaks, Helpers
<1>2. Turns \in SUBSET Nat /\ Turns # {}
  BY <1>1, BestIsClaimed
<1>3. PICK t \in Turns : \A u \in Turns : t <= u
  BY <1>2, LeastNat
<1>4. PICK i \in Best : t = Turn(h, i)
  BY <1>3
<1>5. \A j \in Helpers : tips[j] = BestClaim(tips) => Turn(h, i) <= Turn(h, j)
  BY <1>3, <1>4
<1> QED
  BY <1>4, <1>5 DEF Claimant

(* One more trailed round weighs as much as a full streak of failed ones. *)
LEMMA OneMoreTrailed ==
  ASSUME NEW s \in Nat
  PROVE  (s + 1) * RotateThreshold = s * RotateThreshold + RotateThreshold
  BY HelperAssumption

LEMMA FailedCounts ==
  ASSUME NEW h, Counted(h)
  PROVE  Counted(Failed(h))
<1>1. CASE h.fails + 1 >= RotateThreshold /\ HelperCount > 1
  BY <1>1, NextIsHelper, NewRoleCounts DEF Failed, Counted
<1>2. CASE ~(h.fails + 1 >= RotateThreshold /\ HelperCount > 1)
  <2>0. h = [primary |-> h.primary, fails |-> h.fails, stale |-> h.stale, ill |-> h.ill]
        /\ h.primary \in Helpers /\ h.fails \in Nat /\ h.stale \in Nat /\ h.ill \in Nat
    BY DEF Counted, Streaks
  <2>1. PICK g : g = [h EXCEPT !.fails = @ + 1, !.ill = @ + 1]
    OBVIOUS
  <2>3. g = [primary |-> h.primary, fails |-> h.fails + 1, stale |-> h.stale,
             ill |-> h.ill + 1]
    BY <2>0, <2>1
  <2>2. h.stale * RotateThreshold \in Nat
    BY HelperAssumption DEF Counted, Streaks
  <2>4. g \in Streaks
    BY <2>0, <2>3 DEF Streaks
  <2>5. Counted(g)
    BY <1>2, <2>0, <2>2, <2>3, <2>4, HelperAssumption DEF Counted
  <2> QED
    BY <1>2, <2>1, <2>5 DEF Failed
<1> QED
  BY <1>1, <1>2

(* A round that wipes the count. *)
LEMMA HealthyCounts ==
  ASSUME NEW h, Counted(h), NEW g \in {[h EXCEPT !.fails = 0, !.ill = 0],
             [h EXCEPT !.fails = 0, !.stale = 0, !.ill = 0],
             [h EXCEPT !.stale = 0, !.ill = 0]}
  PROVE  Counted(g)
<1>0. h \in Streaks
  BY DEF Counted
<1>1. /\ g \in Streaks /\ g.ill = 0 /\ g.fails \in {0, h.fails} /\ g.stale \in {0, h.stale}
  <2>1. h = [primary |-> h.primary, fails |-> h.fails, stale |-> h.stale, ill |-> h.ill]
        /\ h.primary \in Helpers /\ h.fails \in Nat /\ h.stale \in Nat /\ h.ill \in Nat
    BY <1>0 DEF Streaks
  <2>2. \E f \in {0, h.fails}, s \in {0, h.stale} :
          g = [primary |-> h.primary, fails |-> f, stale |-> s, ill |-> 0]
    BY <2>1
  <2> QED
    BY <2>1, <2>2 DEF Streaks
<1>2. g.stale * RotateThreshold \in Nat
  BY <1>1, HelperAssumption DEF Streaks
<1> QED
  BY <1>1, <1>2, HelperAssumption DEF Counted, Streaks

(* A round the primary trailed, which ends its streak of failed ones or not. *)
LEMMA TrailedCounts ==
  ASSUME NEW h, Counted(h), h.stale + 1 < StaleRounds \/ ~(HelperCount > 1),
         NEW g \in {[h EXCEPT !.fails = 0, !.stale = @ + 1, !.ill = @ + 1],
                    [h EXCEPT !.stale = @ + 1, !.ill = @ + 1]}
  PROVE  Counted(g)
<1>0. h \in Streaks
  BY DEF Counted
<1>1. /\ g \in Streaks /\ g.ill = h.ill + 1 /\ g.fails \in {0, h.fails}
      /\ g.stale = h.stale + 1
  <2>1. h = [primary |-> h.primary, fails |-> h.fails, stale |-> h.stale, ill |-> h.ill]
        /\ h.primary \in Helpers /\ h.fails \in Nat /\ h.stale \in Nat /\ h.ill \in Nat
    BY <1>0 DEF Streaks
  <2>2. \E f \in {0, h.fails} :
          g = [primary |-> h.primary, fails |-> f, stale |-> h.stale + 1, ill |-> h.ill + 1]
    BY <2>1
  <2> QED
    BY <2>1, <2>2 DEF Streaks
<1>2. /\ h.stale * RotateThreshold \in Nat
      /\ g.stale * RotateThreshold = h.stale * RotateThreshold + RotateThreshold
  <2>1. h.stale \in Nat
    BY <1>0 DEF Streaks
  <2>2. h.stale * RotateThreshold \in Nat
    BY <2>1, HelperAssumption
  <2> QED
    BY <1>1, <2>1, <2>2, OneMoreTrailed
<1>3. CASE HelperCount > 1
  BY <1>1, <1>2, <1>3, HelperAssumption DEF Counted, Streaks
<1>4. CASE ~(HelperCount > 1)
  BY <1>1, <1>4 DEF Counted
<1> QED
  BY <1>3, <1>4

LEMMA RoundCounts ==
  ASSUME NEW h, Counted(h), NEW up, NEW prefer \in BOOLEAN
  PROVE  Counted(AfterRound(h, up, prefer))
<1>1. Healthy(Answered(h)) = [h EXCEPT !.fails = 0, !.ill = 0]
  BY DEF Healthy, Answered, Counted, Streaks
<1>2. Counted(Healthy(Answered(h)))
  BY <1>1, HealthyCounts
<1> QED
  BY <1>2, FailedCounts DEF AfterRound

LEMMA PollCounts ==
  ASSUME NEW h, Counted(h), NEW tips \in [Helpers -> {Down} \union Claims]
  PROVE  Counted(AfterTips(h, tips))
<1>1. Counted(TipFailed(h))
  BY FailedCounts DEF TipFailed
<1>2. Counted(Trailed(h, tips))
  <2>1. CASE h.stale + 1 >= StaleRounds
    BY <2>1, ClaimantIsHelper, NewRoleCounts DEF Trailed, Counted
  <2>2. CASE ~(h.stale + 1 >= StaleRounds)
    <3>1. [Answered(h) EXCEPT !.stale = @ + 1, !.ill = @ + 1]
            = [h EXCEPT !.fails = 0, !.stale = @ + 1, !.ill = @ + 1]
      BY DEF Answered, Counted, Streaks
    <3>2. h.stale + 1 < StaleRounds
      BY <2>2, HelperAssumption DEF Counted, Streaks
    <3> QED
      BY <2>2, <3>1, <3>2, TrailedCounts DEF Trailed
  <2> QED
    BY <2>1, <2>2
<1>3. Counted(Healthy([Answered(h) EXCEPT !.stale = 0]))
  <2>1. Healthy([Answered(h) EXCEPT !.stale = 0])
          = [h EXCEPT !.fails = 0, !.stale = 0, !.ill = 0]
    BY DEF Healthy, Answered, Counted, Streaks
  <2> QED
    BY <2>1, HealthyCounts
<1> QED
  BY <1>1, <1>2, <1>3 DEF AfterTips

LEMMA ChaseCounts ==
  ASSUME Counted(helper), NEW up, NEW stalled \in BOOLEAN
  PROVE  Counted(Chase(up, stalled))
<1>1. ASSUME NEW h, Counted(h)
      PROVE  Counted(AfterChase(h, stalled))
  <2>1. CASE ~stalled
    BY <1>1, <2>1, HealthyCounts DEF AfterChase, Healthy, Counted, Streaks
  <2>2. CASE stalled /\ h.stale + 1 >= StaleRounds /\ HelperCount > 1
    BY <1>1, <2>2, NextIsHelper, NewRoleCounts DEF AfterChase, Counted
  <2>3. CASE stalled /\ ~(h.stale + 1 >= StaleRounds /\ HelperCount > 1)
    <3>1. h.stale + 1 < StaleRounds \/ ~(HelperCount > 1)
      BY <1>1, <2>3, HelperAssumption DEF Counted, Streaks
    <3> QED
      BY <1>1, <2>3, <3>1, TrailedCounts DEF AfterChase
  <2> QED
    BY <2>1, <2>2, <2>3
<1>2. Counted(AfterChase(Answered(helper), stalled))
  <2> DEFINE h == Answered(helper)
  <2>1. /\ h = [helper EXCEPT !.fails = 0] /\ h \in Streaks
        /\ h.primary = helper.primary /\ h.stale = helper.stale
    BY DEF Answered, Counted, Streaks
  <2>2. CASE ~stalled
    <3>1. Healthy([h EXCEPT !.stale = 0]) = [helper EXCEPT !.fails = 0, !.stale = 0, !.ill = 0]
      BY <2>1 DEF Healthy, Counted, Streaks
    <3> QED
      BY <2>2, <3>1, HealthyCounts DEF AfterChase
  <2>3. CASE stalled /\ h.stale + 1 >= StaleRounds /\ HelperCount > 1
    BY <2>1, <2>3, NextIsHelper, NewRoleCounts DEF AfterChase
  <2>4. CASE stalled /\ ~(h.stale + 1 >= StaleRounds /\ HelperCount > 1)
    <3>1. helper.stale + 1 < StaleRounds \/ ~(HelperCount > 1)
      BY <2>1, <2>4, HelperAssumption DEF Counted, Streaks
    <3>2. [h EXCEPT !.stale = @ + 1, !.ill = @ + 1]
            = [helper EXCEPT !.fails = 0, !.stale = @ + 1, !.ill = @ + 1]
      BY <2>1 DEF Counted, Streaks
    <3> QED
      BY <2>4, <3>1, <3>2, TrailedCounts DEF AfterChase
  <2> QED
    BY <2>2, <2>3, <2>4
<1> QED
  BY <1>1, <1>2, FailedCounts DEF Chase

-----------------------------------------------------------------------------
(* The verifier. *)

(* A page goes out: every id that is out is new, and leads to its block. *)
LEMMA PageGoesOut ==
  ASSUME NEW page \in Seq(Blocks), idSeq \in Nat, Verify(page), sess'.page = page
  PROVE  VerdictsAreThePages' /\ idSeq' \in Nat
<1> DEFINE primed == Least(Cores, Len(page))
           first == IF pool = "open" THEN idSeq ELSE 1
<1>1. /\ primed \in Nat /\ primed <= Len(page) /\ primed <= Cores /\ first \in Nat
      /\ DOMAIN page = 1 .. Len(page) /\ Len(page) \in Nat
      /\ \A i \in 1 .. Len(page) : page[i] \in Blocks
  BY VerifierAssumption DEF Least
<1>2. /\ idSeq' = first + primed
      /\ routes' = {<<first + i - 1, i>> : i \in 1 .. primed}
      /\ jobs' = [w \in Workers |->
                    IF w <= primed THEN <<first + w - 1, page[w]>> ELSE None]
      /\ call' = [blocks |-> page, next |-> primed + 1,
                  results |-> [i \in DOMAIN page |-> Unknown]]
      /\ reply' = None
  BY DEF Verify
<1> HIDE DEF primed, first
<1>3. CallOfPage'
  BY <1>1, <1>2 DEF CallOfPage
<1>4. RoutesLead'
  <2>1. ASSUME NEW r \in routes'
        PROVE  r \in Nat \X DOMAIN page /\ r[1] < idSeq' /\ r[1] = first + r[2] - 1
    BY <1>1, <1>2
  <2>2. ASSUME NEW w \in Workers, jobs'[w] \notin {None, Lost}
        PROVE  /\ w \in 1 .. primed /\ jobs'[w] = <<first + w - 1, page[w]>>
    BY <1>1, <1>2, <2>2 DEF Workers
  <2>3. ASSUME NEW w \in Workers, jobs'[w] \notin {None, Lost}
        PROVE  /\ jobs'[w] \in Nat \X Blocks /\ jobs'[w][1] < idSeq'
               /\ \A r \in routes' : r[1] = jobs'[w][1] => jobs'[w][2] = page[r[2]]
    <3>1. jobs'[w] \in Nat \X Blocks /\ jobs'[w][1] < idSeq'
      BY <2>2, <2>3, <1>1, <1>2
    <3>2. ASSUME NEW r \in routes', r[1] = jobs'[w][1]
          PROVE  jobs'[w][2] = page[r[2]]
      <4>1. r[2] = w
        BY <2>1, <2>2, <2>3, <3>2, <1>1
      <4> QED
        BY <2>2, <2>3, <4>1
    <3> QED
      BY <3>1, <3>2
  <2>4. jobs' = [w \in Workers |-> jobs'[w]]
    BY <1>2
  <2> QED
    BY <2>1, <2>3, <2>4 DEF RoutesLead
<1> QED
  BY <1>1, <1>2, <1>3, <1>4 DEF VerdictsAreThePages

(* Without a route no answer counts. *)
LEMMA NothingLeads ==
  ASSUME RoutesLead, sess' = sess, idSeq' = idSeq, routes' = {},
         jobs' \in {jobs, Fresh} \union {[jobs EXCEPT ![w] = None] : w \in Workers}
                     \union {[jobs EXCEPT ![w] = Lost] : w \in Workers}
  PROVE  RoutesLead'
<1>1. jobs' = [w \in Workers |-> jobs'[w]]
  BY DEF RoutesLead, Fresh
<1>2. \A w \in Workers : jobs'[w] \in {jobs[w], None, Lost}
  BY DEF RoutesLead, Fresh
<1> QED
  BY <1>1, <1>2 DEF RoutesLead

(* A worker forgets what it had. *)
LEMMA WorkerForgets ==
  ASSUME RoutesLead, NEW w \in Workers, NEW gone \in {None, Lost},
         jobs' = [jobs EXCEPT ![w] = gone], UNCHANGED <<sess, idSeq, routes>>
  PROVE  RoutesLead'
<1>1. jobs' = [v \in Workers |-> jobs'[v]]
  BY DEF RoutesLead
<1>2. \A v \in Workers : jobs'[v] \in {jobs[v], None, Lost}
  BY DEF RoutesLead
<1> QED
  BY <1>1, <1>2 DEF RoutesLead

(* A verdict goes to the slot of its block, whichever worker it comes from. *)
LEMMA VerdictLands ==
  ASSUME sess.page \in Seq(Blocks), idSeq \in Nat, CallOfPage, RoutesLead,
         sess' = sess, NEW w \in Workers, jobs[w] \notin {None, Lost},
         NEW r \in routes, r[1] = jobs[w][1], Hands(w, jobs[w][2], r[2])
  PROVE  /\ routes' # {} => CallOfPage'
         /\ RoutesLead' /\ idSeq' \in Nat /\ reply' \in {reply, sess.page}
<1> DEFINE page == sess.page
           slot == r[2]
           results == [call.results EXCEPT ![slot] = jobs[w][2]]
           more == call.next <= Len(call.blocks)
<1>1. /\ slot \in DOMAIN page /\ jobs[w][2] = page[slot] /\ jobs[w][2] \in Blocks
      /\ call.blocks = page
  BY DEF RoutesLead, CallOfPage
<1>2. /\ results \in [DOMAIN page -> Blocks \union {Unknown}]
      /\ \A i \in DOMAIN page : results[i] \in {Unknown, page[i]}
      /\ DOMAIN results = DOMAIN page
  BY <1>1 DEF CallOfPage
<1>3. CASE \A i \in DOMAIN results : results[i] # Unknown
  <2>1. \A i \in DOMAIN page : results[i] = page[i]
    BY <1>2, <1>3
  <2>2. page = [i \in DOMAIN page |-> page[i]]
    OBVIOUS
  <2>3. results = page
    BY <1>2, <2>1, <2>2
  <2>4. Settle(results) /\ jobs' = [jobs EXCEPT ![w] = None]
    BY <1>3 DEF Hands, SlotOf
  <2> QED
    BY <2>3, <2>4, NothingLeads DEF Settle
<1>4. CASE ~(\A i \in DOMAIN results : results[i] # Unknown)
  <2>1. /\ call' = [call EXCEPT !.results = results,
                                !.next = IF more THEN @ + 1 ELSE @]
        /\ routes' = {q \in routes : q[1] # jobs[w][1]}
                       \union IF more THEN {<<idSeq, call.next>>} ELSE {}
        /\ jobs' = [jobs EXCEPT ![w] =
                      IF more THEN <<idSeq, call.blocks[call.next]>> ELSE None]
        /\ idSeq' = IF more THEN idSeq + 1 ELSE idSeq
        /\ reply' = reply
    BY <1>4 DEF Hands, SlotOf
  <2> HIDE DEF results
  <2>2. CallOfPage'
    <3>1. call' = [blocks |-> page, next |-> IF more THEN call.next + 1 ELSE call.next,
                   results |-> results]
      BY <2>1, <1>1 DEF CallOfPage
    <3>2. (IF more THEN call.next + 1 ELSE call.next) \in Nat \ {0}
      BY DEF CallOfPage
    <3> QED
      BY <3>1, <3>2, <1>2 DEF CallOfPage
  <2>3. RoutesLead'
    <3>1. /\ jobs' = [v \in Workers |-> jobs'[v]]
          /\ \A v \in Workers \ {w} : jobs'[v] = jobs[v]
          /\ jobs'[w] = IF more THEN <<idSeq, page[call.next]>> ELSE None
      BY <2>1, <1>1 DEF RoutesLead
    <3>2. more => call.next \in DOMAIN page /\ page[call.next] \in Blocks
      BY <1>1 DEF CallOfPage
    <3>3. ASSUME NEW q \in routes'
          PROVE  \/ q \in routes
                 \/ more /\ q = <<idSeq, call.next>>
      BY <2>1
    <3>4. ASSUME NEW q \in routes'
          PROVE  q \in Nat \X DOMAIN page /\ q[1] < idSeq'
      BY <3>2, <3>3, <2>1 DEF RoutesLead
    <3>5. ASSUME NEW v \in Workers, jobs'[v] \notin {None, Lost}
          PROVE  /\ jobs'[v] \in Nat \X Blocks /\ jobs'[v][1] < idSeq'
                 /\ \A q \in routes' : q[1] = jobs'[v][1] => jobs'[v][2] = page[q[2]]
      <4>1. CASE v # w
        <5>1. jobs'[v] = jobs[v] /\ jobs[v] \in Nat \X Blocks /\ jobs[v][1] < idSeq
          BY <3>1, <3>5, <4>1 DEF RoutesLead
        <5>2. \A q \in routes : q[1] = jobs[v][1] => jobs[v][2] = page[q[2]]
          BY <3>1, <3>5, <4>1 DEF RoutesLead
        <5>3. \A q \in routes' : q[1] = jobs[v][1] => q \in routes
          BY <3>3, <5>1
        <5> QED
          BY <5>1, <5>2, <5>3, <2>1
      <4>2. CASE v = w
        <5>1. more /\ jobs'[v] = <<idSeq, page[call.next]>>
          BY <3>1, <3>5, <4>2
        <5>2. \A q \in routes' : q[1] = idSeq => q = <<idSeq, call.next>>
          BY <3>3 DEF RoutesLead
        <5> QED
          BY <5>1, <5>2, <3>2, <2>1
      <4> QED
        BY <4>1, <4>2
    <3> QED
      BY <3>1, <3>4, <3>5 DEF RoutesLead
  <2> QED
    BY <2>1, <2>2, <2>3
<1> QED
  BY <1>3, <1>4

(* The threads and the timer change nothing but the call. *)
LEMMA VerifierStepKeeps ==
  ASSUME ColdInv, phase = "verify", VerifierStep, UNCHANGED coldVars
  PROVE  ColdInv'
<1>1. sess.page \in Seq(Blocks) /\ idSeq \in Nat
  BY DEF ColdInv, ColdTypeOK, Sessions
<1>2. (routes # {} => CallOfPage) /\ RoutesLead /\ reply \in {None, Rejected, sess.page}
  BY DEF ColdInv, VerdictsAreThePages
<1>3. sess' = sess
  BY DEF coldVars
<1> DEFINE CallKept ==
             /\ routes' # {} => CallOfPage'
             /\ RoutesLead' /\ idSeq' \in Nat /\ reply' \in {reply, Rejected, sess.page}
<1>4. CallKept
  <2>1. ASSUME NEW w \in Workers, Verified(w)
        PROVE  CallKept
    <3>1. CASE \E r \in routes : r[1] = jobs[w][1]
      <4>1. PICK r \in routes : r[1] = jobs[w][1] /\ Hands(w, jobs[w][2], r[2])
        BY <2>1, <3>1 DEF Verified
      <4> QED
        BY <4>1, <1>1, <1>2, <1>3, <2>1, VerdictLands DEF Verified
    <3>2. CASE ~(\E r \in routes : r[1] = jobs[w][1])
      <4>1. jobs' = [jobs EXCEPT ![w] = None] /\ UNCHANGED <<pool, idSeq, routes, call, reply>>
        BY <2>1, <3>2 DEF Verified
      <4> QED
        BY <4>1, <1>1, <1>2, <1>3, WorkerForgets DEF CallOfPage
    <3> QED
      BY <3>1, <3>2
  <2>2. ASSUME NEW w \in Workers, Hangs(w)
        PROVE  CallKept
    <3>1. jobs' = [jobs EXCEPT ![w] = Lost] /\ UNCHANGED <<pool, idSeq, routes, call, reply>>
      BY <2>2 DEF Hangs
    <3> QED
      BY <3>1, <1>1, <1>2, <1>3, WorkerForgets DEF CallOfPage
  <2>3. ASSUME NEW w \in Workers, WorkerError(w)
        PROVE  CallKept
    BY <2>3, <1>1, <1>2, <1>3, NothingLeads DEF WorkerError, Settle
  <2>4. ASSUME Timeout
        PROVE  CallKept
    BY <2>4, <1>1, <1>2, <1>3, NothingLeads DEF Timeout, Settle
  <2> QED
    BY <2>1, <2>2, <2>3, <2>4 DEF VerifierStep
<1>5. ColdTypeOK' /\ Honest' /\ Counted(helper)'
  BY <1>4 DEF ColdInv, ColdTypeOK, Honest, coldVars, Counted
<1> QED
  BY <1>2, <1>3, <1>4, <1>5 DEF ColdInv, VerdictsAreThePages

-----------------------------------------------------------------------------
(* The ends of a session. *)

LEMMA NewSessionTyped ==
  ASSUME NEW mode \in {"solo", "negotiated"}, NEW isWarm \in BOOLEAN
  PROVE  NewSession(mode, isWarm) \in Sessions
  BY DEF NewSession, Sessions

LEMMA GenesisTyped == Genesis \in Chains /\ NoHandle \in Chains /\ Genesis.honest
  BY DEF Genesis, NoHandle, Chains

LEMMA NewRole == Counted(NewHelperPool)
  BY HelperAssumption DEF NewHelperPool, Counted, Streaks, Helpers

LEMMA LeavesKeeps ==
  ASSUME ColdInv, NEW nextWarm \in Chains, nextWarm # NoHandle => nextWarm.honest,
         Leaves(nextWarm), idSeq' \in Nat,
         file' \in [anchor : Nat, honest : BOOLEAN, intact : BOOLEAN]
  PROVE  ColdInv'
<1>1. ColdTypeOK'
  BY NewSessionTyped, GenesisTyped DEF Leaves, ColdTypeOK
<1>2. Honest'
  BY GenesisTyped DEF Leaves, Honest
<1>3. Counted(helper)'
  BY NewRole DEF Leaves
<1> QED
  BY <1>1, <1>2, <1>3 DEF ColdInv, VerdictsAreThePages, Leaves

LEMMA NotSyncedKeeps ==
  ASSUME ColdInv, NotSynced, idSeq' \in Nat,
         file' \in [anchor : Nat, honest : BOOLEAN, intact : BOOLEAN]
  PROVE  ColdInv'
<1>1. PICK next \in {NoHandle, handle} : Leaves(next)
  BY DEF NotSynced
<1> QED
  BY <1>1, LeavesKeeps, GenesisTyped DEF ColdInv, ColdTypeOK, Honest

-----------------------------------------------------------------------------
(* The blocks a page adds, and the file. *)

LEMMA GrownByGood ==
  ASSUME chain \in Chains, chain.honest, NEW n \in Nat, NEW page,
         \A i \in 1 .. n : page[i] = "good"
  PROVE  Extended(page, n) \in Chains /\ Extended(page, n).honest
<1>1. (chain.honest /\ \A i \in 1 .. n : page[i] = "good") = TRUE
  OBVIOUS
<1>2. PICK yes : yes = TRUE
  OBVIOUS
<1>3. Extended(page, n) = [chain EXCEPT !.height = @ + n, !.honest = yes]
  BY <1>1, <1>2, Zenon DEF Extended
<1>4. yes \in BOOLEAN
  BY <1>2
<1>5. Extended(page, n) \in Chains
  <2>1. chain.height + n \in Nat
    BY DEF Chains
  <2>2. PICK h \in Nat : h = chain.height + n
    BY <2>1
  <2>3. [chain EXCEPT !.height = h, !.honest = yes] \in Chains
    BY <1>4 DEF Chains
  <2> QED
    BY <1>3, <2>2, <2>3
<1>6. Extended(page, n).honest = yes
  BY <1>3 DEF Chains
<1> QED
  BY <1>2, <1>5, <1>6

(* A page whose verdicts are its own extends a chain by blocks with their work
   only. *)
LEMMA ExtendsHonestly ==
  ASSUME chain \in Chains, chain.honest, NEW page \in Seq(Blocks)
  PROVE  Extended(page, Accepted(page)) \in Chains /\ Extended(page, Accepted(page)).honest
<1> DEFINE T == {n \in 0 .. Len(page) : \A i \in 1 .. n : page[i] = "good"}
<1>1. 0 \in T /\ T \in SUBSET (0 .. Len(page)) /\ Len(page) \in Nat
  OBVIOUS
<1>2. Max(T) \in T
  BY <1>1, MaxIsMember
<1>3. Accepted(page) = Max(T)
  BY DEF Accepted
<1>4. Max(T) \in Nat /\ \A i \in 1 .. Max(T) : page[i] = "good"
  BY <1>2
<1> QED
  BY <1>3, <1>4, GrownByGood

LEMMA FilesTyped ==
  /\ NoFile \in [anchor : Nat, honest : BOOLEAN, intact : BOOLEAN]
  /\ Broken \in [anchor : Nat, honest : BOOLEAN, intact : BOOLEAN]
  /\ \A f \in Files : f \in [anchor : Nat, honest : BOOLEAN, intact : BOOLEAN]
<1>1. \A n \in 1 .. NetTip - Depth : n \in Nat
  BY ColdStartAssumption
<1>2. \A f \in Files : f \in [anchor : Nat, honest : BOOLEAN, intact : BOOLEAN]
  BY <1>1 DEF Files
<1>3. NoFile \in [anchor : Nat, honest : BOOLEAN, intact : BOOLEAN]
  BY DEF NoFile
<1>4. Broken \in [anchor : Nat, honest : BOOLEAN, intact : BOOLEAN]
  BY DEF Broken
<1> QED
  BY <1>2, <1>3, <1>4

LEMMA SnapshotTyped ==
  ASSUME NEW c \in Chains, file \in [anchor : Nat, honest : BOOLEAN, intact : BOOLEAN],
         Save(c)
  PROVE  /\ file' \in [anchor : Nat, honest : BOOLEAN, intact : BOOLEAN]
         /\ file' = NoFile => file = NoFile
  BY FilesTyped, ColdStartAssumption DEF Save, SnapshotOf, Chains, NoFile

-----------------------------------------------------------------------------
(* The steps of a session. *)

LEMMA StartsKeep ==
  ASSUME ColdInv, StartWarm \/ \E mode \in {"solo", "negotiated"} : StartCold(mode)
  PROVE  ColdInv'
<1>1. CASE StartWarm
  <2>1. ColdTypeOK'
    BY <1>1, NewSessionTyped DEF StartWarm, ColdInv, ColdTypeOK, Starting, verifierVars
  <2>2. Honest'
    BY <1>1 DEF StartWarm, ColdInv, Honest
  <2> QED
    BY <1>1, <2>1, <2>2 DEF StartWarm, ColdInv, VerdictsAreThePages, Counted
<1>2. ASSUME NEW mode \in {"solo", "negotiated"}, StartCold(mode)
      PROVE  ColdInv'
  <2>1. ColdTypeOK'
    BY <1>2, NewSessionTyped DEF StartCold, ColdInv, ColdTypeOK, Starting, NewVerifier
  <2>2. Honest'
    BY <1>2 DEF StartCold, ColdInv, Honest
  <2>3. Counted(helper)'
    BY <1>2, RoundCounts DEF StartCold, ColdInv
  <2> QED
    BY <1>2, <2>1, <2>2, <2>3 DEF StartCold, ColdInv, VerdictsAreThePages
<1> QED
  BY <1>1, <1>2

LEMMA AbortKeeps ==
  ASSUME ColdInv, Abort
  PROVE  ColdInv'
<1>1. /\ sess' \in Sessions /\ sess'.page = sess.page
      /\ UNCHANGED <<phase, chain, handle, file, helper>>
  BY DEF Abort, ColdInv, ColdTypeOK, Sessions
<1>2. \/ UNCHANGED verifierVars
      \/ /\ routes' = {} /\ jobs' = Fresh /\ reply' \in {reply, Rejected} /\ idSeq' = idSeq
  BY DEF Abort, Terminate
<1>3. VerdictsAreThePages'
  <2>1. CASE UNCHANGED verifierVars
    BY <1>1, <2>1 DEF ColdInv, VerdictsAreThePages, CallOfPage, RoutesLead, verifierVars
  <2>2. CASE /\ routes' = {} /\ jobs' = Fresh /\ reply' \in {reply, Rejected}
             /\ idSeq' = idSeq
    <3>1. RoutesLead'
      BY <2>2 DEF RoutesLead, Fresh
    <3> QED
      BY <1>1, <2>2, <3>1 DEF ColdInv, VerdictsAreThePages
  <2> QED
    BY <1>2, <2>1, <2>2
<1>4. idSeq' = idSeq
  BY <1>2 DEF verifierVars
<1> QED
  BY <1>1, <1>3, <1>4 DEF ColdInv, ColdTypeOK, Honest, Counted

LEMMA RestoreKeeps ==
  ASSUME ColdInv, Restore
  PROVE  ColdInv'
<1>1. CASE file = NoFile \/ ~file.intact
  <2>1. /\ file' = NoFile /\ phase' \in {"tip", "fetch"} /\ phase = "restore"
        /\ UNCHANGED <<sess, chain, handle, helper, verifierVars>>
    BY <1>1 DEF Restore, FirstFetch
  <2>2. ColdTypeOK' /\ Honest'
    BY <2>1, FilesTyped DEF ColdInv, ColdTypeOK, Starting, Honest, verifierVars
  <2> QED
    BY <2>1, <2>2 DEF ColdInv, VerdictsAreThePages, Counted
<1>2. CASE ~(file = NoFile \/ ~file.intact) /\ sess.aborted
  BY <1>2, NotSyncedKeeps DEF Restore, Disposed, ColdInv, ColdTypeOK
<1>3. CASE ~(file = NoFile \/ ~file.intact) /\ ~sess.aborted
  <2>1. /\ chain' = [seed |-> file.anchor, height |-> file.anchor, honest |-> file.honest]
        /\ sess' = [sess EXCEPT !.warmStart = TRUE]
        /\ phase' = "confirm" /\ file.intact
        /\ UNCHANGED <<handle, file, helper, verifierVars>>
    BY <1>3 DEF Restore
  <2>2. ColdTypeOK'
    BY <2>1 DEF ColdInv, ColdTypeOK, Starting, Chains, Sessions, verifierVars
  <2>3. Honest'
    BY <2>1 DEF ColdInv, Honest
  <2> QED
    BY <2>1, <2>2, <2>3 DEF ColdInv, VerdictsAreThePages, Counted
<1> QED
  BY <1>1, <1>2, <1>3

(* Only a chain confirmed against the network is kept. *)
LEMMA ConfirmKeeps ==
  ASSUME ColdInv, Confirm
  PROVE  ColdInv'
<1>1. PICK up \in SUBSET Helpers, answer \in Served :
        LET verdict == Classify(up, answer) IN
        /\ file' = IF verdict = "forged" THEN NoFile ELSE file
        /\ IF ~Solo /\ sess.aborted
             THEN NotSynced /\ Disposed
             ELSE /\ chain' = KeptChain(verdict)
                  /\ sess' = [sess EXCEPT !.warmStart = (verdict = "ok")]
                  /\ helper' = IF sess.aborted /\ up = {} THEN helper
                               ELSE AfterRound(helper, up, FALSE)
                  /\ phase' = FirstFetch
                  /\ UNCHANGED <<handle, verifierVars>>
  BY DEF Confirm
<1>2. file' \in [anchor : Nat, honest : BOOLEAN, intact : BOOLEAN]
  BY <1>1, FilesTyped DEF ColdInv, ColdTypeOK
<1>3. CASE ~Solo /\ sess.aborted
  BY <1>1, <1>2, <1>3, NotSyncedKeeps DEF Disposed
<1>4. CASE ~(~Solo /\ sess.aborted)
  <2>1. chain' \in Chains /\ chain'.honest
    BY <1>1, <1>4, GenesisTyped DEF Classify, KeptChain, ColdInv, ColdTypeOK
  <2>2. /\ sess' \in Sessions /\ phase' \in {"tip", "fetch"}
        /\ UNCHANGED <<handle, verifierVars>>
    BY <1>1, <1>4 DEF ColdInv, ColdTypeOK, Sessions, FirstFetch
  <2>3. Counted(helper)'
    <3>1. Counted(helper) /\ Counted(AfterRound(helper, up, FALSE))
      BY RoundCounts DEF ColdInv
    <3>2. helper' \in {helper, AfterRound(helper, up, FALSE)}
      BY <1>1, <1>4
    <3> QED
      BY <3>1, <3>2
  <2>4. ColdTypeOK' /\ Honest'
    BY <1>2, <2>1, <2>2 DEF ColdInv, ColdTypeOK, Honest, Starting, verifierVars
  <2> QED
    BY <2>2, <2>3, <2>4 DEF ColdInv, VerdictsAreThePages
<1> QED
  BY <1>3, <1>4

LEMMA TipKeeps ==
  ASSUME ColdInv, Tip
  PROVE  ColdInv'
<1>1. PICK tips \in [Helpers -> {Down} \union Claims] :
        /\ helper' = AfterTips(helper, tips)
        /\ sess' = [sess EXCEPT !.source = @ \/ BestClaim(tips) # Down]
  BY DEF Tip
<1>2. Counted(helper)'
  BY <1>1, PollCounts DEF ColdInv
<1>3. sess' \in Sessions
  BY <1>1 DEF ColdInv, ColdTypeOK, Sessions
<1>4. ColdTypeOK' /\ Honest'
  BY <1>3 DEF Tip, ColdInv, ColdTypeOK, Honest, Starting, verifierVars
<1> QED
  BY <1>2, <1>4 DEF Tip, ColdInv, VerdictsAreThePages

LEMMA PagesTyped ==
  ASSUME chain \in Chains, NEW page \in Pages
  PROVE  page \in Seq(Blocks)
<1>1. PICK n \in 0 .. Least(Longest, NetTip - chain.height) :
        page \in [1 .. n -> {"good", "bad"}]
  BY DEF Pages
<1>2. n \in Nat
  OBVIOUS
<1> QED
  BY <1>1, <1>2 DEF Blocks

LEMMA FetchKeeps ==
  ASSUME ColdInv, Fetch
  PROVE  ColdInv'
<1>1. PICK page \in Pages :
        /\ IF page = <<>>
             THEN phase' = "gate" /\ UNCHANGED verifierVars
             ELSE phase' = "verify" /\ Verify(page)
        /\ sess' = [sess EXCEPT !.rounds = 0, !.page = page]
  BY DEF Fetch
<1>2. page \in Seq(Blocks)
  BY PagesTyped DEF ColdInv, ColdTypeOK
<1>3. sess' \in Sessions /\ sess'.page = page
  BY <1>1, <1>2 DEF ColdInv, ColdTypeOK, Sessions
<1>4. Counted(helper)'
  <2>1. PICK up \in SUBSET Helpers \ {{}} :
          helper' \in {AfterRound(helper, up, sess.source)}
                        \union IF Solo THEN {helper} ELSE {}
    BY DEF Fetch
  <2>2. sess.source \in BOOLEAN
    BY DEF ColdInv, ColdTypeOK, Sessions
  <2> QED
    BY <2>1, <2>2, RoundCounts DEF ColdInv
<1>5. VerdictsAreThePages' /\ idSeq' \in Nat /\ phase' \in {"gate", "verify"}
  BY <1>1, <1>2, <1>3, PageGoesOut
    DEF ColdInv, ColdTypeOK, VerdictsAreThePages, verifierVars
<1>6. phase = "fetch" /\ UNCHANGED <<chain, handle, file>>
  BY DEF Fetch
<1>7. ColdTypeOK' /\ Honest'
  BY <1>3, <1>5, <1>6 DEF ColdInv, ColdTypeOK, Honest, Starting
<1> QED
  BY <1>4, <1>5, <1>7 DEF ColdInv

LEMMA FetchFailsKeeps ==
  ASSUME ColdInv, FetchFails
  PROVE  ColdInv'
<1>1. CASE Throws /\ Disposed
  BY <1>1, NotSyncedKeeps DEF FetchFails, Throws, Disposed, ColdInv, ColdTypeOK
<1>2. CASE /\ helper' = AfterRound(helper, {}, sess.source)
           /\ sess' = [sess EXCEPT !.rounds = @ + 1]
           /\ UNCHANGED <<phase, chain, handle, verifierVars>>
  <2>1. sess' \in Sessions /\ sess.source \in BOOLEAN
    BY <1>2 DEF ColdInv, ColdTypeOK, Sessions
  <2>2. Counted(helper)'
    BY <1>2, <2>1, RoundCounts DEF ColdInv
  <2>3. ColdTypeOK' /\ Honest'
    BY <1>2, <2>1 DEF FetchFails, ColdInv, ColdTypeOK, Honest, verifierVars
  <2> QED
    BY <1>2, <2>2, <2>3 DEF FetchFails, ColdInv, VerdictsAreThePages
<1> QED
  BY <1>1, <1>2 DEF FetchFails

(* What is applied is what was verified. *)
LEMMA AppliesKeeps ==
  ASSUME ColdInv, Applies
  PROVE  ColdInv'
<1>1. /\ phase = "verify" /\ reply = sess.page /\ chain.honest
      /\ UNCHANGED <<handle, helper, pool, idSeq, routes, jobs, call>>
  BY DEF Applies, ColdInv, VerdictsAreThePages, Honest
<1>2. sess.page \in Seq(Blocks)
  BY DEF ColdInv, ColdTypeOK, Sessions
<1>3. CASE Apply(sess.page)
  <2>1. chain' = Extended(sess.page, Accepted(sess.page))
    BY <1>1, <1>3 DEF Apply
  <2>2. chain' \in Chains /\ chain'.honest
    BY <1>1, <1>2, <2>1, ExtendsHonestly DEF ColdInv, ColdTypeOK
  <2>3. phase' \in {"fetch", "gate"} /\ sess' \in Sessions /\ file' = file
    <3>1. sess' = [sess EXCEPT !.page = <<>>] /\ sess \in Sessions
      BY <1>3 DEF Apply, ColdInv, ColdTypeOK
    <3>2. sess' \in Sessions
      BY <3>1, <<>> \in Seq(Blocks) DEF Sessions
    <3> QED
      BY <1>3, <3>2 DEF Apply, GoesOn
  <2>4. ColdTypeOK' /\ Honest'
    BY <1>1, <2>2, <2>3 DEF ColdInv, ColdTypeOK, Honest, Starting
  <2> QED
    BY <1>1, <2>3, <2>4 DEF ColdInv, VerdictsAreThePages, Counted
<1>4. CASE ApplyInvalidated(sess.page)
  <2>1. phase' \in {"fetch", "gate"} /\ sess' \in Sessions
    <3>1. /\ sess' = [sess EXCEPT !.page = <<>>, !.invalidated = TRUE]
          /\ sess \in Sessions
      BY <1>4 DEF ApplyInvalidated, ColdInv, ColdTypeOK
    <3>2. sess' \in Sessions
      BY <3>1, <<>> \in Seq(Blocks) DEF Sessions
    <3> QED
      BY <1>4, <3>2 DEF ApplyInvalidated, GoesOn
  <2>2. ColdTypeOK' /\ Honest'
    BY <1>1, <1>4, <2>1, GenesisTyped, FilesTyped
      DEF ApplyInvalidated, ColdInv, ColdTypeOK, Honest, Starting
  <2> QED
    BY <1>1, <2>1, <2>2 DEF ColdInv, VerdictsAreThePages, Counted
<1> QED
  BY <1>3, <1>4 DEF Applies

LEMMA VerifyFailsKeeps ==
  ASSUME ColdInv, VerifyFails
  PROVE  ColdInv'
  BY NotSyncedKeeps DEF VerifyFails, Throws, Disposed, ColdInv, ColdTypeOK

LEMMA PassGateKeeps ==
  ASSUME ColdInv, PassGate
  PROVE  ColdInv'
<1>1. EnterMining /\ idSeq' \in Nat
  BY DEF PassGate, EnterMining, Disposed
<1>2. CASE sess.aborted
  BY <1>1, <1>2, NotSyncedKeeps DEF EnterMining, ColdInv, ColdTypeOK
<1>3. CASE ~sess.aborted
  <2>1. /\ phase = "gate" /\ phase' = "mining" /\ Save(chain)
        /\ UNCHANGED <<sess, chain, handle, helper>>
    BY <1>1, <1>3 DEF EnterMining
  <2>2. file' \in [anchor : Nat, honest : BOOLEAN, intact : BOOLEAN]
    BY <2>1, SnapshotTyped DEF ColdInv, ColdTypeOK
  <2>3. ColdTypeOK' /\ Honest'
    BY <1>1, <2>1, <2>2 DEF ColdInv, ColdTypeOK, Honest
  <2> QED
    BY <2>1, <2>3 DEF ColdInv, VerdictsAreThePages, Counted
<1> QED
  BY <1>2, <1>3

LEMMA FailGateKeeps ==
  ASSUME ColdInv, FailGate
  PROVE  ColdInv'
<1>1. phase' \in {"tip", "fetch"} /\ sess' \in Sessions /\ idSeq' \in Nat
  <2>1. phase' \in {"tip", "fetch"}
    BY DEF FailGate, FirstFetch
  <2>2. sess' = [sess EXCEPT !.invalidated = FALSE, !.replay = TRUE] /\ sess \in Sessions
    BY DEF FailGate, ColdInv, ColdTypeOK
  <2>3. sess' \in Sessions
    BY <2>2 DEF Sessions
  <2>4. idSeq' \in Nat
    BY DEF FailGate, Disposed, verifierVars, ColdInv, ColdTypeOK
  <2> QED
    BY <2>1, <2>3, <2>4
<1>2. ColdTypeOK' /\ Honest'
  BY <1>1, GenesisTyped, FilesTyped DEF FailGate, ColdInv, ColdTypeOK, Honest, Starting
<1> QED
  BY <1>1, <1>2 DEF FailGate, ColdInv, VerdictsAreThePages, Counted

LEMMA MiningKeeps ==
  ASSUME ColdInv, Mining
  PROVE  ColdInv'
<1>1. CASE Poll
  <2>1. Counted(helper)'
    BY <1>1, PollCounts DEF Poll, ColdInv
  <2>2. ColdTypeOK' /\ Honest'
    BY <1>1 DEF Poll, ColdInv, ColdTypeOK, Honest, verifierVars
  <2> QED
    BY <1>1, <2>1, <2>2 DEF Poll, ColdInv, VerdictsAreThePages
<1>2. CASE PoolTip
  <2>1. Counted(helper)'
    BY <1>2, ChaseCounts, FailedCounts DEF PoolTip, ColdInv
  <2>2. ColdTypeOK' /\ Honest'
    BY <1>2 DEF PoolTip, ColdInv, ColdTypeOK, Honest, verifierVars
  <2> QED
    BY <1>2, <2>1, <2>2 DEF PoolTip, ColdInv, VerdictsAreThePages
<1>3. CASE Advance
  <2>1. /\ phase = "mining" /\ chain' = Extended(<<"good">>, 1) /\ chain.honest
        /\ UNCHANGED <<phase, sess, handle, helper, verifierVars>>
    BY <1>3 DEF Advance, ColdInv, Honest
  <2>2. chain' \in Chains /\ chain'.honest
    BY <2>1, GrownByGood DEF ColdInv, ColdTypeOK
  <2>3. file' \in [anchor : Nat, honest : BOOLEAN, intact : BOOLEAN]
    BY <1>3, <2>2, SnapshotTyped DEF Advance, ColdInv, ColdTypeOK
  <2>4. ColdTypeOK' /\ Honest'
    BY <2>1, <2>2, <2>3 DEF ColdInv, ColdTypeOK, Honest, verifierVars
  <2> QED
    BY <2>1, <2>4 DEF ColdInv, VerdictsAreThePages, Counted
<1>4. CASE Invalidate
  <2>1. chain' \in Chains /\ chain'.honest
    <3>1. PICK h \in 0 .. NetTip : chain' = [Genesis EXCEPT !.height = h]
      BY <1>4 DEF Invalidate
    <3>2. h \in Nat /\ Genesis \in Chains /\ Genesis.honest
      BY GenesisTyped, ColdStartAssumption
    <3>3. chain' \in Chains /\ chain'.honest = Genesis.honest
      BY <3>1, <3>2 DEF Chains
    <3> QED
      BY <3>2, <3>3
  <2>2. ColdTypeOK' /\ Honest'
    BY <1>4, <2>1, FilesTyped DEF Invalidate, ColdInv, ColdTypeOK, Honest, verifierVars
  <2> QED
    BY <1>4, <2>2 DEF Invalidate, ColdInv, VerdictsAreThePages, Counted
<1>5. CASE Stop
  <2>1. PICK next \in {chain, handle} : Leaves(next)
    BY <1>5 DEF Stop
  <2>2. /\ chain \in Chains /\ handle \in Chains /\ chain.honest
        /\ handle # NoHandle => handle.honest
    BY <1>5 DEF Stop, ColdInv, ColdTypeOK, Honest
  <2>3. file' \in [anchor : Nat, honest : BOOLEAN, intact : BOOLEAN]
    BY <1>5, <2>2, SnapshotTyped DEF Stop, ColdInv, ColdTypeOK
  <2>4. idSeq' \in Nat
    BY <1>5 DEF Stop, ColdInv, ColdTypeOK, verifierVars
  <2> QED
    BY <2>1, <2>2, <2>3, <2>4, LeavesKeeps
<1> QED
  BY <1>1, <1>2, <1>3, <1>4, <1>5 DEF Mining

LEMMA ColdStep ==
  ASSUME ColdInv, [Next]_vars
  PROVE  ColdInv'
<1>1. CASE StartWarm \/ \E mode \in {"solo", "negotiated"} : StartCold(mode)
  BY <1>1, StartsKeep
<1>2. CASE SessionStep
  BY <1>2, RestoreKeeps, ConfirmKeeps, TipKeeps, FetchKeeps, FetchFailsKeeps,
     AppliesKeeps, VerifyFailsKeeps, PassGateKeeps, FailGateKeeps
     DEF SessionStep, Bootstrap
<1>3. CASE Verifying
  BY <1>3, VerifierStepKeeps DEF Verifying
<1>4. CASE Mining
  BY <1>4, MiningKeeps
<1>5. CASE Abort
  BY <1>5, AbortKeeps
<1>6. CASE Crash
  BY <1>6, LeavesKeeps, GenesisTyped DEF Crash, Disposed, ColdInv, ColdTypeOK
<1>7. CASE UNCHANGED vars
  <2>1. UNCHANGED <<phase, sess, chain, handle, file, helper, pool, idSeq, routes, jobs,
                    call, reply>>
    BY <1>7 DEF vars, coldVars, verifierVars
  <2> QED
    BY <2>1 DEF ColdInv, ColdTypeOK, Honest, VerdictsAreThePages, CallOfPage,
      RoutesLead, Counted
<1> QED
  BY <1>1, <1>2, <1>3, <1>4, <1>5, <1>6, <1>7 DEF Next

LEMMA ColdInit ==
  ASSUME Init
  PROVE  ColdInv
<1>1. ColdTypeOK
  BY NewSessionTyped, GenesisTyped, FilesTyped DEF Init, ColdTypeOK
<1>2. Honest
  BY GenesisTyped DEF Init, Honest
<1>3. Counted(helper)
  BY NewRole DEF Init
<1> QED
  BY <1>1, <1>2, <1>3 DEF Init, ColdInv, VerdictsAreThePages

-----------------------------------------------------------------------------
(* The invariant, of every session of every mode: a start, an abort, a crash and
   the end of any step keep it. *)
THEOREM ColdInvHolds == Spec => []ColdInv
  BY ColdInit, ColdStep, PTL DEF Spec

(* runMiner and negotiatedColdStart mine on, save and hand on only chains of the
   network's blocks, whatever file was found, however the verifier's threads
   answered and whichever helpers served. *)
THEOREM NoForgedChainMined == Spec => []ChainTrusted
<1>1. ColdInv => ChainTrusted
  BY DEF ColdInv, Honest, ChainTrusted
<1> QED
  BY <1>1, ColdInvHolds, PTL

(* helperPool.ts: a primary that fails or trails without an end to it has lost
   the role after fewer than rotateThreshold * STALE_ROTATE_ROUNDS rounds. *)
THEOREM FailingPrimaryEvicted == Spec => []BadPrimaryEvicted
<1>1. ASSUME ColdInv PROVE BadPrimaryEvicted
  <2>1. SUFFICES ASSUME HelperCount > 1
                 PROVE  helper.ill < RotateThreshold * StaleRounds
    BY DEF BadPrimaryEvicted
  <2>2. /\ helper.fails \in Nat /\ helper.stale \in Nat /\ helper.ill \in Nat
        /\ helper.fails < RotateThreshold /\ helper.stale < StaleRounds
        /\ helper.ill <= helper.stale * RotateThreshold + helper.fails
    BY <1>1, <2>1 DEF ColdInv, Counted, Streaks
  <2>3. helper.ill < (helper.stale + 1) * RotateThreshold
    BY <2>2, OneMoreTrailed, HelperAssumption
  <2>4. (helper.stale + 1) * RotateThreshold <= StaleRounds * RotateThreshold
    BY <2>2, HelperAssumption
  <2>5. /\ (helper.stale + 1) * RotateThreshold \in Nat
        /\ StaleRounds * RotateThreshold \in Nat
        /\ RotateThreshold * StaleRounds = StaleRounds * RotateThreshold
    BY <2>2, HelperAssumption
  <2> QED
    BY <2>2, <2>3, <2>4, <2>5
<1> QED
  BY <1>1, ColdInvHolds, PTL

(* Who deletes a file of the network, and when. *)
LEMMA FileKept ==
  ASSUME ColdInv, [Next]_vars, file.intact, file.honest, file' = NoFile
  PROVE  \/ phase = "gate" /\ sess'.replay
         \/ /\ chain.seed > 0 /\ chain'.seed = 0
            /\ phase \in {"verify", "mining"} /\ phase' # "menu"
<1>1. file # NoFile
  BY DEF NoFile
<1>2. chain \in Chains /\ sess \in Sessions
      /\ file \in [anchor : Nat, honest : BOOLEAN, intact : BOOLEAN]
  BY DEF ColdInv, ColdTypeOK
<1>3. file' # file
  BY <1>1
<1>4. CASE Restore
  BY <1>1, <1>3, <1>4 DEF Restore
<1>5. CASE Confirm
  <2>1. chain.honest
    BY <1>5 DEF Confirm, ColdInv, Honest
  <2>2. PICK up \in SUBSET Helpers, answer \in Served :
          file' = IF Classify(up, answer) = "forged" THEN NoFile ELSE file
    BY <1>5 DEF Confirm
  <2>3. Classify(up, answer) # "forged"
    BY <2>1 DEF Classify
  <2> QED
    BY <1>1, <2>2, <2>3
<1>6. CASE Applies
  BY <1>3, <1>6 DEF Applies, Apply, ApplyInvalidated, GoesOn, Genesis
<1>7. CASE PassGate
  BY <1>1, <1>2, <1>7, SnapshotTyped DEF PassGate, EnterMining
<1>8. CASE FailGate
  BY <1>2, <1>8 DEF FailGate, Sessions
<1>9. CASE Advance
  <2>1. chain' \in Chains
    BY <1>2, <1>9, GrownByGood DEF Advance, ColdInv, Honest
  <2> QED
    BY <1>1, <1>2, <1>9, <2>1, SnapshotTyped DEF Advance
<1>10. CASE Invalidate
  BY <1>10 DEF Invalidate, Genesis
<1>11. CASE Stop
  BY <1>1, <1>2, <1>11, SnapshotTyped DEF Stop
<1>12. CASE \/ StartWarm \/ \E mode \in {"solo", "negotiated"} : StartCold(mode)
            \/ Tip \/ Fetch \/ FetchFails \/ VerifyFails \/ Verifying \/ Poll \/ PoolTip
            \/ Abort \/ Crash \/ UNCHANGED vars
  <2>1. file' = file
    BY <1>12 DEF StartWarm, StartCold, Tip, Fetch, FetchFails, VerifyFails, Verifying,
      Poll, PoolTip, Abort, Crash, vars, coldVars
  <2> QED
    BY <1>3, <2>1
<1> QED
  BY <1>4, <1>5, <1>6, <1>7, <1>8, <1>9, <1>10, <1>11, <1>12
    DEF Next, SessionStep, Bootstrap, Mining

(* The snapshot of the network is deleted by the gate's replay and the
   invalidation listener only: no outage, lagging helper, abort or crash does. *)
THEOREM OutagesNeverDelete == Spec => OutagesKeepFile
<1>1. ColdInv /\ [Next]_vars =>
        [ (file.intact /\ file.honest /\ file' = NoFile) =>
            (phase = "gate" /\ sess'.replay) \/ (chain.seed > 0 /\ chain'.seed = 0
               /\ phase \in {"verify", "mining"} /\ phase' # "menu") ]_vars
  BY FileKept
<1> QED
  BY <1>1, ColdInvHolds, PTL DEF Spec, OutagesKeepFile
=============================================================================
