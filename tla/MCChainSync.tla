---------------------------- MODULE MCChainSync -----------------------------
(***************************************************************************)
(* Small instances of ChainSync: a main branch m1..m7, a branch d3 d4 d5    *)
(* off m2 that is shorter than the main one and heavier, a block x7 without *)
(* proof of work, and one of two more branches: h6 off m5, exactly as heavy *)
(* as m7, or b1 b2 off genesis, heavier than the main branch and so short   *)
(* that the window under the main branch's tip lies above it.               *)
(***************************************************************************)
EXTENDS ChainSync

Common == {"g", "m1", "m2", "m3", "m4", "m5", "m6", "m7", "d3", "d4", "d5", "x7"}
TieBlocks == Common \union {"h6"}
DeepBlocks == Common \union {"b1", "b2"}

MCParent ==
  [b \in Blocks |->
     CASE b \in {"g", "m1", "b1"} -> "g"
       [] b = "m2" -> "m1"
       [] b = "b2" -> "b1"
       [] b \in {"m3", "d3"} -> "m2"
       [] b = "m4" -> "m3"
       [] b = "m5" -> "m4"
       [] b \in {"m6", "h6"} -> "m5"
       [] b \in {"m7", "x7"} -> "m6"
       [] b = "d4" -> "d3"
       [] b = "d5" -> "d4"]

MCHeight ==
  [b \in Blocks |->
     CASE b = "g" -> 0
       [] b \in {"m1", "b1"} -> 1
       [] b \in {"m2", "b2"} -> 2
       [] b \in {"m3", "d3"} -> 3
       [] b \in {"m4", "d4"} -> 4
       [] b \in {"m5", "d5"} -> 5
       [] b \in {"m6", "h6"} -> 6
       [] b \in {"m7", "x7"} -> 7]

(* From the tip of the main branch the chain can fall to b2, then to d5. *)
MCBlockWork ==
  [b \in Blocks |->
     CASE b = "h6" -> 2
       [] b \in {"d3", "d4", "d5"} -> 3
       [] b = "b2" -> 8
       [] OTHER -> 1]

MCFlaw == [b \in Blocks |-> IF b = "x7" THEN "pow" ELSE "none"]

(* The network is some way along the main branch already. *)
Early == Blocks \intersect {"g", "m1", "m2", "m3", "m4", "m5", "b1"}

(* What helpers answer that do not follow the protocol: nothing, a part of a
   branch from any height up, a whole branch however long, and pages with a gap
   or of two branches. *)
Part(t, low) ==
  [i \in 1 .. Larger(0, Height[t] - low + 1) |->
     CHOOSE b \in Line[t] : Height[b] = low + i - 1]
MCLies ==
  {Part(t, low) : t \in {"m4", "m5", "m7", "d5", "b2", "x7"}, low \in 1 .. 8}
    \union {<<"m3", "d4", "d5">>, <<"b1">>, <<"m1", "m3">>, <<"b2", "m7">>}

(* The hypotheses of ChainSyncProofs about the blocks of the network. *)
ASSUME NetworkIsNumbered == Numbered /\ Flaw[Genesis] = "none"
=============================================================================
