------------------------------ MODULE MCPoolMode ------------------------------
(* Three solutions, one slot under way and one waiting: the smallest dispatcher
   that overflows. Two registrations unanswered at once are the fewest whose
   answers can be reordered. *)
EXTENDS PoolMode

Solutions == 1 .. 3
OneSlot == {1}
=============================================================================
