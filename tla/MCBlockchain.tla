---------------------------- MODULE MCBlockchain ----------------------------
(***************************************************************************)
(* A small instance of Blockchain: a main branch m1..m6, a sibling pair     *)
(* s2 s3 exactly as heavy as m2 m3, a shorter but heavier branch h3 h4 off  *)
(* m2, a block whose header misstates its height, and one block for each    *)
(* kind of refusal.                                                         *)
(***************************************************************************)
EXTENDS Blockchain

MCBlocks == {"g", "m1", "m2", "m3", "m4", "m5", "m6",
             "s2", "s3", "h3", "h4", "lie", "weak", "bad"}

MCParent ==
  [b \in MCBlocks |->
     CASE b \in {"g", "m1"} -> "g"
       [] b \in {"m2", "s2", "lie"} -> "m1"
       [] b \in {"m3", "h3"} -> "m2"
       [] b = "s3" -> "s2"
       [] b = "h4" -> "h3"
       [] b \in {"m4", "weak", "bad"} -> "m3"
       [] b = "m5" -> "m4"
       [] b = "m6" -> "m5"]

MCHeight ==
  [b \in MCBlocks |->
     CASE b = "g" -> 0
       [] b = "m1" -> 1
       [] b \in {"m2", "s2"} -> 2
       [] b \in {"m3", "s3", "h3", "lie"} -> 3
       [] b \in {"m4", "h4", "weak", "bad"} -> 4
       [] b = "m5" -> 5
       [] b = "m6" -> 6]

MCBlockWork == [b \in MCBlocks |-> IF b \in {"h3", "h4"} THEN 2 ELSE 1]

MCFlaw ==
  [b \in MCBlocks |->
     CASE b = "weak" -> "pow"
       [] b = "bad" -> "apply"
       [] OTHER -> "none"]
=============================================================================
