------------------------------ MODULE HelperPool ------------------------------
(***************************************************************************)
(* The rotating primary of src/src/minerd/helperPool.ts: which helper leads  *)
(* the reads, and the two streaks that take the role from it. Each operator   *)
(* is what a finished round of requests does to the pool's record.           *)
(*                                                                         *)
(* An answer to a tip poll is the height a helper claims, or Down: a timeout, *)
(* a 5xx, a lost connection or a malformed body, retried or not.             *)
(***************************************************************************)
EXTENDS Integers, FiniteSets, FiniteSetsExt

CONSTANTS
  HelperCount,      \* helpers.length
  RotateThreshold,  \* rotateThreshold
  StaleRounds       \* STALE_ROTATE_ROUNDS

ASSUME HelperAssumption ==
  /\ HelperCount \in Nat \ {0}
  /\ RotateThreshold \in Nat \ {0} /\ StaleRounds \in Nat \ {0}

Helpers == 0 .. HelperCount - 1
Down == 0
Claims == 1 .. 2

(* Of a helper: the role, the rounds it failed and the rounds it trailed. The
   fourth is history, not the program's: rounds on end in which the primary
   failed or trailed. *)
NewHelperPool == [primary |-> 0, fails |-> 0, stale |-> 0, ill |-> 0]

Rotated(p) == [primary |-> p, fails |-> 0, stale |-> 0, ill |-> 0]

NextHelper(h) == (h.primary + 1) % HelperCount

(* recordPrimary(true) and recordPrimary(false). *)
Failed(h) ==
  IF h.fails + 1 >= RotateThreshold /\ HelperCount > 1
    THEN Rotated(NextHelper(h))
    ELSE [h EXCEPT !.fails = @ + 1, !.ill = @ + 1]

Answered(h) == [h EXCEPT !.fails = 0]

Healthy(h) == [h EXCEPT !.ill = 0]

(* round: the first helper that is up serves. A round for the claimant of a tip
   says nothing about the primary. *)
AfterRound(h, up, prefer) ==
  IF prefer THEN h
  ELSE IF h.primary \in up THEN Healthy(Answered(h)) ELSE Failed(h)

(* Helpers in rotation order. *)
Turn(h, i) == (i - h.primary) % HelperCount

BestClaim(tips) == Max({tips[i] : i \in Helpers})

(* The primary if it is at the best claim, else the first that is. *)
Claimant(h, tips) ==
  CHOOSE i \in Helpers :
    /\ tips[i] = BestClaim(tips)
    /\ \A j \in Helpers : tips[j] = BestClaim(tips) => Turn(h, i) <= Turn(h, j)

(* Mutant: a poll the primary fails wipes its staleness streak. *)
Unmeasured(h) == Failed([h EXCEPT !.stale = 0])

(* Of a poll the primary failed: the staleness streak "is deliberately NOT
   cleared". *)
TipFailed(h) == Failed(h)

Trailed(h, tips) ==
  IF h.stale + 1 >= StaleRounds
    THEN Rotated(Claimant(h, tips))
    ELSE [Answered(h) EXCEPT !.stale = @ + 1, !.ill = @ + 1]

(* getBestTip: every helper is asked, the best claim is followed. *)
AfterTips(h, tips) ==
  IF tips[h.primary] = Down THEN TipFailed(h)
  ELSE IF tips[h.primary] < BestClaim(tips) THEN Trailed(h, tips)
  ELSE Healthy([Answered(h) EXCEPT !.stale = 0])

(* noteCatchUpRound: a chase that ran and returned. A stalled one counts against
   the primary, whoever served it. *)
AfterChase(h, stalled) ==
  IF ~stalled THEN Healthy([h EXCEPT !.stale = 0])
  ELSE IF h.stale + 1 >= StaleRounds /\ HelperCount > 1
         THEN Rotated(NextHelper(h))
         ELSE [h EXCEPT !.stale = @ + 1, !.ill = @ + 1]
=============================================================================
