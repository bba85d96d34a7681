----------------------------- MODULE Blockchain -----------------------------
(***************************************************************************)
(* The in-memory block tree of src/src/chain/blockchain.ts: every valid     *)
(* block by header hash, its cumulative work, whether its post-state is     *)
(* still materialised, and the tip of the heaviest branch.                  *)
(*                                                                         *)
(* A block is identified by its header hash, so everything its header and   *)
(* body say is a constant of the block: its parent, the height it claims,   *)
(* its proof-of-work contribution, and the first consensus rule it breaks   *)
(* when it is checked against the state its parent really has (Flaw).       *)
(*                                                                         *)
(* The mutators run one at a time: addBlockInternal suspends only for the   *)
(* PoW check of addBlock, and its callers hold the coordinator's busy flag  *)
(* across it (MinerCoordinator.tla is where that is examined).              *)
(***************************************************************************)
EXTENDS Integers, FiniteSets

CONSTANTS
  Blocks,     \* header hashes of all blocks anybody may offer
  Genesis,    \* the hard-coded first block
  Parent,     \* header.prevHash
  Height,     \* header.height, which a bad header may misstate
  BlockWork,  \* blockWork(header.difficulty), at least 1 for any real target
  Flaw,       \* first rule the block breaks, "none" for a valid block
  Retain      \* STATE_RETAIN: how far below the tip states are kept

(* The rules in the order addBlockInternal checks them. "header" covers the
   size cap, the difficulty, the future limit and the median-time-past rule;
   "apply" covers transaction structure, state application and stateRoot. *)
Flaws == {"none", "header", "pow", "txRoot", "apply"}

ASSUME BlockchainAssumption ==
  /\ Genesis \in Blocks
  /\ Parent \in [Blocks -> Blocks]
  /\ Height \in [Blocks -> Nat]
  /\ Height[Genesis] = 0
  /\ BlockWork \in [Blocks -> Nat \ {0}]
  /\ Flaw \in [Blocks -> Flaws]
  /\ Retain \in Nat

VARIABLES
  stored,        \* keys of the map `blocks`
  work,          \* ChainBlock.work (0 for a block not stored)
  materialised,  \* stored blocks whose ChainBlock.state is not null
  tip,           \* tipHash
  restoring      \* restoreSnapshot is seeding this chain

chainVars == <<stored, work, materialised, tip, restoring>>

-----------------------------------------------------------------------------
(* The walk along prevHash that getRecentHeaders, snapshotAt,
   pruneStateBelow and iterateCanonical all make, as the set it visits. *)
Line == [b \in Blocks |->
  LET back[i \in Nat] ==
        IF i = 0 THEN b
        ELSE IF back[i-1] = Genesis THEN Genesis ELSE Parent[back[i-1]]
  IN {back[i] : i \in 0 .. Height[b]}]

Canonical == Line[tip]

(* The state of the map that initGenesis sets up, in the next state. *)
ToGenesis ==
  /\ stored' = {Genesis}
  /\ work' = [b \in Blocks |-> IF b = Genesis THEN BlockWork[Genesis] ELSE 0]
  /\ materialised' = {Genesis}
  /\ tip' = Genesis

(* blocks.set(hash, {work: parent.work + blockWork(difficulty), ...}). *)
Insert(b) ==
  /\ stored' = stored \union {b}
  /\ work' = [work EXCEPT ![b] = work[Parent[b]] + BlockWork[b]]

(* Mutants: the longest branch wins; a tie goes to the newcomer. *)
ChooseLongest(b) == tip' = IF Height[b] > Height[tip] THEN b ELSE tip
ChooseOnTie(b) == tip' = IF work[Parent[b]] + BlockWork[b] >= work[tip] THEN b ELSE tip

(* The fork choice: strictly more cumulative work, so the first seen of two
   equally heavy branches stays. *)
ChooseTip(b) == tip' = IF work[Parent[b]] + BlockWork[b] > work[tip] THEN b ELSE tip

(* The parent is held and the claimed height follows it. *)
Attaches(b) ==
  /\ b \notin stored
  /\ Parent[b] \in stored
  /\ Height[b] = Height[Parent[b]] + 1

(* Every check that comes before the parent's state is touched. *)
PassesHeaderChecks(b) == Attaches(b) /\ Flaw[b] \notin {"header", "pow", "txRoot"}
-----------------------------------------------------------------------------
(* addBlock / addBlockWithPow of a block that passes every check. *)
AcceptBlock(b) ==
  /\ ~restoring
  /\ PassesHeaderChecks(b)
  /\ Parent[b] \in materialised
  /\ Flaw[b] = "none"
  /\ Insert(b)
  /\ ChooseTip(b)
  /\ materialised' = materialised \union {b}
  /\ UNCHANGED restoring

(* The parent is known but its state was pruned or never restored: the
   snapshot-invalidated listeners run inside the call, and every caller's
   listener resets the chain; the block itself is rejected. *)
HitPrunedParent(b) ==
  /\ ~restoring
  /\ PassesHeaderChecks(b)
  /\ Parent[b] \notin materialised
  /\ ToGenesis
  /\ UNCHANGED restoring

(* The callers' reset(): a restored snapshot the network does not confirm, or
   a failed integrity gate. No listener fires. *)
Reset ==
  /\ ~restoring
  /\ ToGenesis
  /\ UNCHANGED restoring

(* Mutant: only the block that just left the window is stripped. *)
BuriedLast(t, states, m) == {b \in Line[t] \ {t, Genesis} : Height[b] = m - 1}

(* The blocks pruneStateBelow(m) strips on its walk down from the tip t, given
   which blocks have a state. It stops at the first block below m without. *)
Buried(t, states, m) ==
  {b \in Line[t] \ {t} :
     /\ 0 < Height[b] /\ Height[b] < m
     /\ \A c \in Line[t] \ {t} :
          (Height[b] <= Height[c] /\ Height[c] < m) => c \in states}

(* Mutants: the window is too short by two blocks; it is too long by one. *)
UnburiedEarly(t, states) ==
  IF Height[t] - Retain > 1 THEN states \ Buried(t, states, Height[t] - Retain + 2)
                            ELSE states
UnburiedLate(t, states) ==
  IF Height[t] - Retain > 1 THEN states \ Buried(t, states, Height[t] - Retain - 1)
                            ELSE states

(* pruneStateBelow(height - STATE_RETAIN): nothing happens on a short chain. *)
Unburied(t, states) ==
  IF Height[t] - Retain > 1 THEN states \ Buried(t, states, Height[t] - Retain)
                            ELSE states

StripBuried == materialised' = Unburied(tip, materialised)

(* The end-of-page prune of ChainSync, and the one after an adopted solve. *)
PruneStates ==
  /\ ~restoring
  /\ StripBuried
  /\ UNCHANGED <<stored, work, tip, restoring>>

(* seedHistoricalBlock with a null state. restoreSnapshot feeds a file of
   exactly anchorHeight blocks whose last one is at that height, so each block
   it manages to seed extends the one before. *)
SeedPrefix(b) ==
  /\ restoring
  /\ Attaches(b) /\ Parent[b] = tip
  /\ Insert(b)
  /\ ChooseTip(b)
  /\ UNCHANGED <<materialised, restoring>>

(* seedHistoricalBlock of the anchor, the last block of the file: it carries
   the state and is forced to be the tip. *)
SeedAnchor(b) ==
  /\ restoring
  /\ Attaches(b) /\ Parent[b] = tip
  /\ Insert(b)
  /\ tip' = b
  /\ materialised' = materialised \union {b}
  /\ restoring' = FALSE

(* No snapshot file, or any anomaly in it, at whatever block it shows up. *)
DiscardRestore ==
  /\ restoring
  /\ ToGenesis
  /\ restoring' = FALSE

Init ==
  /\ stored = {Genesis}
  /\ work = [b \in Blocks |-> IF b = Genesis THEN BlockWork[Genesis] ELSE 0]
  /\ materialised = {Genesis}
  /\ tip = Genesis
  /\ restoring = TRUE

Next ==
  \/ \E b \in Blocks : AcceptBlock(b) \/ HitPrunedParent(b)
  \/ \E b \in Blocks : SeedPrefix(b) \/ SeedAnchor(b)
  \/ DiscardRestore
  \/ PruneStates
  \/ Reset

Spec == Init /\ [][Next]_chainVars

-----------------------------------------------------------------------------
TypeOK ==
  /\ stored \subseteq Blocks
  /\ work \in [Blocks -> Nat]
  /\ materialised \subseteq stored
  /\ tip \in stored
  /\ restoring \in BOOLEAN

(* Whatever resets, restores and reorgs have happened, the tree has no orphan:
   every stored block hangs off genesis by stored parents of consecutive
   heights, and carries the sum of the work on its own path. The walks along
   prevHash, the difficulty window and the fork choice all rest on it. *)
Linked ==
  /\ Genesis \in stored
  /\ work[Genesis] = BlockWork[Genesis]
  /\ \A b \in stored \ {Genesis} :
       /\ Parent[b] \in stored
       /\ Height[b] = Height[Parent[b]] + 1
       /\ work[b] = work[Parent[b]] + BlockWork[b]

(* "The chain tip - the block with the highest cumulative work": no stored
   block outweighs the tip, although the restored anchor is forced in. *)
HeaviestTip == \A b \in stored : work[b] <= work[tip]

(* tipState never throws its "tip state not materialized": pruning and
   restoring always leave the tip, and genesis, with a state to build on. *)
TipExtendable == Genesis \in materialised /\ (restoring \/ tip \in materialised)

(* Whatever forks, ties, invalid blocks, restores, prunes and resets came before,
   the tree can be walked, is mined on its heaviest branch and has a state there. *)
TreeSound == Linked /\ HeaviestTip /\ TipExtendable

(* pruneStateBelow may stop at the first stripped block because nothing below
   a stripped block still holds a state: otherwise a reorg would leave states
   that no later prune ever frees. *)
PrunedIsPrefix ==
  \A b \in stored \ (materialised \union {Genesis}) :
    Parent[b] = Genesis \/ Parent[b] \notin materialised

(* The tip is replaced by something no heavier only when the whole tree is
   dropped; a first-seen tip is never swapped for an equally heavy sibling. *)
TipOnlyOutweighed ==
  [][tip' # tip => (work'[tip'] > work[tip] \/ stored' = {Genesis})]_chainVars
=============================================================================
