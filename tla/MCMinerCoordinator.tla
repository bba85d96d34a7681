------------------------- MODULE MCMinerCoordinator -------------------------
(***************************************************************************)
(* Small instances of MinerCoordinator. The miner starts on the restored    *)
(* anchor c2; the network may publish c3 and e2, a heavier block below the  *)
(* anchor that forces a full replay. The miner can solve blocks on c2 (o3,  *)
(* as heavy as c3), on its own o3 (o4) and on c3 (q4).                      *)
(***************************************************************************)
EXTENDS MinerCoordinator

MCBlocks == {"g", "c1", "c2", "c3", "e2", "o3", "o4", "q4"}
MCOwn == {"o3", "o4", "q4"}

MCParent ==
  [b \in MCBlocks |->
     CASE b \in {"g", "c1"} -> "g"
       [] b \in {"c2", "e2"} -> "c1"
       [] b \in {"c3", "o3"} -> "c2"
       [] b = "o4" -> "o3"
       [] b = "q4" -> "c3"]

MCHeight ==
  [b \in MCBlocks |->
     CASE b = "g" -> 0
       [] b = "c1" -> 1
       [] b \in {"c2", "e2"} -> 2
       [] b \in {"c3", "o3"} -> 3
       [] b \in {"o4", "q4"} -> 4]

MCBlockWork == [b \in MCBlocks |-> IF b = "e2" THEN 4 ELSE 1]
MCFlaw == [b \in MCBlocks |-> "none"]
MCAnchorWork == [b \in {"g", "c1", "c2"} |-> MCHeight[b] + 1]
MCSeen == {"g", "c1", "c2"}
=============================================================================
