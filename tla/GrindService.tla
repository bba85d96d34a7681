---------------------------- MODULE GrindService ----------------------------
(***************************************************************************)
(* What a caller of a grind pool may rely on (the interface start, stop and *)
(* respawn of src/src/minerd/grindPool.ts and nativeGrindPool.ts, with the   *)
(* callbacks onSolved and onExhausted). The pool grinds one template or     *)
(* none. A solo template ends with its first solve; any template ends when  *)
(* each of its nonce ranges was scanned or given up, each counted once; and *)
(* nothing is called for a template that was taken away.                    *)
(***************************************************************************)
CONSTANT Ranges  \* the nonce ranges a template is split into

VARIABLES
  grinding,  \* a template is being ground
  shares,    \* its hits are shares: they are passed on and end nothing
  todo,      \* its ranges that are neither scanned nor given up
  outcome    \* the final callback of the last template, "none" before it

serviceVars == <<grinding, shares, todo, outcome>>

Idle == ~grinding /\ todo = {} /\ outcome = "none"

Init == Idle /\ shares = FALSE

Begin ==
  /\ grinding' = TRUE /\ shares' \in BOOLEAN
  /\ todo' = Ranges /\ outcome' = "none"

Abort == Idle' /\ shares' = FALSE

Solve ==
  /\ grinding /\ ~shares
  /\ grinding' = FALSE /\ todo' = {} /\ outcome' = "solved"
  /\ UNCHANGED shares

Finish(r) ==
  /\ grinding /\ r \in todo
  /\ todo' = todo \ {r}
  /\ grinding' = (todo' # {})
  /\ outcome' = IF todo' = {} THEN "exhausted" ELSE outcome
  /\ UNCHANGED shares

Next == Begin \/ Abort \/ Solve \/ \E r \in Ranges : Finish(r)

ServiceSpec == Init /\ [][Next]_serviceVars
=============================================================================
