--------------------------- MODULE ChainSyncProofs ---------------------------
(***************************************************************************)
(* Syncing implements the block tree: each step of bootstrap and catchUp is *)
(* a step of Blockchain or leaves the chain alone. So what is proved of the *)
(* block tree holds between any two awaits of a sync, for every page size,  *)
(* overlap and window, and whatever the helpers serve. With it go the       *)
(* truthfulness of catchUp's answer, and how the window of pruneStateBelow  *)
(* and the reach of the requests fit together.                              *)
(***************************************************************************)
EXTENDS ChainSync, BlockchainProofs

(* A call runs only on a chain whose restore has ended, and has not told its
   caller anything yet; helpers serve known blocks. *)
CallsAfterRestore ==
  /\ public \subseteq Blocks
  /\ pc # "idle" => ~restoring /\ outcome = "running"
  /\ restoring => outcome = "none"

SyncInv == CallsAfterRestore /\ FalseMeansUnchanged

(* A step of a sync is a step of the block tree or a stutter. *)
LEMMA SyncStepIsTreeStep ==
  ASSUME CallsAfterRestore, [SyncNext]_vars
  PROVE  [Next]_chainVars
<1>1. ASSUME NEW b \in Blocks, Publish(b) PROVE UNCHANGED chainVars
  BY <1>1 DEF Publish
<1>2. ASSUME NEW c \in Blocks, CatchUp(c) PROVE UNCHANGED chainVars
  BY <1>2 DEF CatchUp
<1>3. ASSUME Bootstrap \/ Answer \/ Throw PROVE UNCHANGED chainVars
  BY <1>3 DEF Bootstrap, Answer, Throw
<1>4. ASSUME AddNext PROVE Next \/ UNCHANGED chainVars
  BY <1>4 DEF AddNext, Next
<1>5. ASSUME EndCatchUpPage \/ EndBootstrapPage PROVE Next
  <2>1. pc # "idle" /\ PruneAfterPage
    BY <1>5 DEF EndCatchUpPage, EndBootstrapPage
  <2>2. PruneStates
    BY <2>1 DEF PruneAfterPage, PruneStates, CallsAfterRestore
  <2> QED
    BY <2>2 DEF Next
<1>6. ASSUME Restore PROVE Next
  <2>1. \/ \E b \in public : SeedPrefix(b) \/ SeedAnchor(b)
        \/ DiscardRestore
    BY <1>6 DEF Restore
  <2>2. CASE DiscardRestore
    BY <2>2 DEF Next
  <2>3. ASSUME NEW b \in public, SeedPrefix(b) \/ SeedAnchor(b) PROVE Next
    BY <2>3 DEF CallsAfterRestore, Next
  <2> QED
    BY <2>1, <2>2, <2>3
<1>7. ASSUME UNCHANGED vars PROVE UNCHANGED chainVars
  BY <1>7 DEF vars
<1> QED
  BY <1>1, <1>2, <1>3, <1>4, <1>5, <1>6, <1>7 DEF SyncNext, Call

LEMMA SyncInitInv == SyncInit => SyncInv
  BY ChainSyncAssumption
  DEF SyncInit, Init, SyncInv, CallsAfterRestore, FalseMeansUnchanged

(* Ending a call with what ChangedSinceEntry says is truthful. *)
LEMMA TruthfulReturn ==
  ASSUME Return(ChangedSinceEntry), tip' = tip, ~restoring, restoring' = restoring,
         public' = public, CallsAfterRestore
  PROVE  SyncInv'
  BY DEF Return, ChangedSinceEntry, SyncInv, CallsAfterRestore, FalseMeansUnchanged

(* So is ending it with an answer other than false. *)
LEMMA LoudReturn ==
  ASSUME NEW result \in {"changed", "failed", "synced"}, Return(result),
         ~restoring, restoring' = restoring, public' = public, CallsAfterRestore
  PROVE  SyncInv'
  BY DEF Return, SyncInv, CallsAfterRestore, FalseMeansUnchanged

LEMMA SyncNextInv == SyncInv /\ [SyncNext]_vars => SyncInv'
<1> SUFFICES ASSUME SyncInv, [SyncNext]_vars PROVE SyncInv'
  OBVIOUS
<1> USE DEF SyncInv
<1>1. ASSUME NEW b \in Blocks, Publish(b) PROVE SyncInv'
  BY <1>1 DEF Publish, chainVars, callVars, CallsAfterRestore, FalseMeansUnchanged
<1>2. ASSUME NEW c \in Blocks, CatchUp(c) PROVE SyncInv'
  BY <1>2 DEF CatchUp, chainVars, CallsAfterRestore, FalseMeansUnchanged
<1>3. ASSUME Bootstrap PROVE SyncInv'
  BY <1>3 DEF Bootstrap, chainVars, CallsAfterRestore, FalseMeansUnchanged
<1>4. ASSUME Answer PROVE SyncInv'
  <2>1. /\ pc # "idle" /\ ~restoring
        /\ tip' = tip /\ restoring' = restoring /\ public' = public
    BY <1>4 DEF Answer, chainVars, CallsAfterRestore
  <2>2. CASE Return(ChangedSinceEntry)
    BY <2>1, <2>2, TruthfulReturn
  <2>3. CASE Bootstrapped
    BY <2>1, <2>3, LoudReturn DEF Bootstrapped
  <2>4. CASE pc' \in {"apply", "bootApply"} /\ outcome' = outcome /\ entryTip' = entryTip
    BY <2>1, <2>4 DEF CallsAfterRestore, FalseMeansUnchanged
  <2> QED
    BY <1>4, <2>2, <2>3, <2>4 DEF Answer
<1>5. ASSUME Throw PROVE SyncInv'
  BY <1>5, LoudReturn DEF Throw, chainVars, CallsAfterRestore
<1>6. ASSUME AddNext PROVE SyncInv'
  <2>1. /\ pc # "idle" /\ ~restoring
        /\ pc' = pc /\ outcome' = outcome /\ public' = public
    BY <1>6 DEF AddNext, CallsAfterRestore
  <2>2. restoring' = restoring
    BY <1>6 DEF AddNext, AcceptBlock, HitPrunedParent, chainVars
  <2> QED
    BY <2>1, <2>2 DEF CallsAfterRestore, FalseMeansUnchanged
<1>7. ASSUME EndCatchUpPage PROVE SyncInv'
  <2>1. /\ pc # "idle" /\ ~restoring
        /\ tip' = tip /\ restoring' = restoring /\ public' = public
    BY <1>7 DEF EndCatchUpPage, PruneAfterPage, CallsAfterRestore
  <2>2. CASE Return(ChangedSinceEntry)
    BY <2>1, <2>2, TruthfulReturn
  <2>3. CASE Return("failed")
    BY <2>1, <2>3, LoudReturn
  <2>4. CASE pc' \in {"fetch", "bootFetch"} /\ outcome' = outcome /\ entryTip' = entryTip
    BY <2>1, <2>4 DEF CallsAfterRestore, FalseMeansUnchanged
  <2> QED
    BY <1>7, <2>2, <2>3, <2>4 DEF EndCatchUpPage, callVars
<1>8. ASSUME EndBootstrapPage PROVE SyncInv'
  <2>1. /\ pc # "idle" /\ ~restoring
        /\ tip' = tip /\ restoring' = restoring /\ public' = public
    BY <1>8 DEF EndBootstrapPage, PruneAfterPage, CallsAfterRestore
  <2>2. CASE Bootstrapped
    BY <2>1, <2>2, LoudReturn DEF Bootstrapped
  <2>3. CASE pc' = "bootFetch" /\ outcome' = outcome /\ entryTip' = entryTip
    BY <2>1, <2>3 DEF CallsAfterRestore, FalseMeansUnchanged
  <2> QED
    BY <1>8, <2>2, <2>3 DEF EndBootstrapPage, callVars
<1>9. ASSUME Restore PROVE SyncInv'
  <2>1. restoring /\ pc' = pc /\ outcome' = outcome /\ public' = public
    BY <1>9 DEF Restore, SeedPrefix, SeedAnchor, DiscardRestore
  <2>2. pc = "idle" /\ outcome = "none"
    BY <2>1 DEF CallsAfterRestore
  <2> QED
    BY <2>1, <2>2 DEF CallsAfterRestore, FalseMeansUnchanged
<1>10. ASSUME UNCHANGED vars PROVE SyncInv'
  BY <1>10 DEF vars, chainVars, syncVars, callVars, CallsAfterRestore, FalseMeansUnchanged
<1> QED
  BY <1>1, <1>2, <1>3, <1>4, <1>5, <1>6, <1>7, <1>8, <1>9, <1>10 DEF SyncNext, Call

LEMMA SyncInvariance == SyncSpec => []SyncInv
  BY SyncInitInv, SyncNextInv, PTL DEF SyncSpec

(* catchUp's false is true: the tip is the one its caller left, through any
   number of pages, deeper requests, drops and replays. *)
THEOREM FalseIsTruthful == SyncSpec => []FalseMeansUnchanged
  BY SyncInvariance, PTL DEF SyncInv

(* Syncing refines the block tree: bootstrap and catchUp use the chain as
   Blockchain says it may be used. *)
THEOREM SyncRefinesBlockTree == SyncSpec => ImplementsBlockTree
<1>1. SyncInit => Init
  BY DEF SyncInit
<1>2. SyncInv /\ [SyncNext]_vars => [Next]_chainVars
  BY SyncStepIsTreeStep DEF SyncInv
<1> QED
  BY <1>1, <1>2, SyncInvariance, PTL DEF SyncSpec, ImplementsBlockTree, Spec

(* Hence between any two awaits of a sync the tree is linked, its tip is a
   heaviest stored block, and that tip can be mined on once restored. *)
THEOREM SyncKeepsTreeSound ==
  SyncSpec => [](TypeOK /\ Linked /\ HeaviestTip /\ TipExtendable)
  BY SyncRefinesBlockTree, Invariance, PTL DEF ImplementsBlockTree, IInv

(* Nor does a sync ever leave its tip for one no heavier, but by starting over
   from genesis. *)
THEOREM SyncMovesToHeavier == SyncSpec => TipOnlyOutweighed
  BY SyncRefinesBlockTree, OnlyOutweighed, PTL DEF ImplementsBlockTree

-----------------------------------------------------------------------------
(* How deep pruning and the requests of a sync can meet. *)

(* Once restored, only blocks below the restored anchor, or more than the window
   under the highest tip pruned at, lack a state. Until then the tip is the last
   block seeded. *)
Window ==
  /\ restoring => \A b \in stored : Height[b] <= Height[tip]
  /\ ~restoring => \A b \in stored \ materialised :
                     Height[b] < anchor \/ Height[b] < peak - Retain

WindowInv == IInv /\ SyncInv /\ anchor \in Nat /\ peak \in Nat /\ Window

(* What a call keeps across its awaits, the page aside. *)
CallTyped ==
  /\ pc \in {"idle", "fetch", "apply", "bootFetch", "bootApply"}
  /\ {claim, before, entryTip} \subseteq Blocks
  /\ overlap \in 0 .. MaxOverlap
  /\ {short, connected} \subseteq BOOLEAN
  /\ outcome \in {"none", "running", "unchanged", "changed", "failed", "synced"}

ReachInv == WindowInv /\ CallTyped

LEMMA SyncConstants ==
  /\ {Page, CatchupOverlap, WidenFactor, MaxOverlap, SnapshotDepth, Retain} \subseteq Nat
  /\ 0 < CatchupOverlap /\ CatchupOverlap <= MaxOverlap /\ MaxOverlap < Page
  /\ MaxOverlap < SnapshotDepth /\ SnapshotDepth < Retain
  /\ Height \in [Blocks -> Nat] /\ Genesis \in Blocks /\ Height[Genesis] = 0
  BY ChainSyncAssumption, BlockchainAssumption

LEMMA AllBlocksAreTree == ASSUME Numbered PROVE Tree(Blocks)
  BY BlockchainAssumption DEF Numbered, Tree

(* A page asked for from height k up holds the blocks of those heights. *)
LEMMA PageByHeight ==
  ASSUME Numbered, NEW t \in Blocks, NEW k \in Nat \ {0}
  PROVE  /\ PageOf(t, k) \in Seq(Blocks) /\ Len(PageOf(t, k)) <= Page
         /\ Len(PageOf(t, k)) = Smaller(Page, Larger(0, Height[t] - k + 1))
         /\ \A i \in 1 .. Len(PageOf(t, k)) :
              PageOf(t, k)[i] \in Line[t] /\ Height[PageOf(t, k)[i]] = k + i - 1
<1> DEFINE n == Smaller(Page, Larger(0, Height[t] - k + 1))
<1>1. n \in Nat /\ n <= Page /\ (n > 0 => k + n - 1 <= Height[t])
  BY SyncConstants DEF Smaller, Larger
<1>2. /\ Line[t] \subseteq Blocks
      /\ \A h \in 0 .. Height[t] : \E b \in Line[t] : Height[b] = h
  BY AllBlocksAreTree, LineInTree
<1>3. ASSUME NEW i \in 1 .. n
      PROVE  \E b \in Line[t] : Height[b] = k + i - 1
  <2>1. k + i - 1 \in 0 .. Height[t]
    BY <1>1, SyncConstants
  <2> QED
    BY <1>2, <2>1
<1>4. PageOf(t, k) = [i \in 1 .. n |-> CHOOSE b \in Line[t] : Height[b] = k + i - 1]
  BY DEF PageOf
<1> HIDE DEF n
<1>5. \A i \in 1 .. n : PageOf(t, k)[i] \in Line[t] /\ Height[PageOf(t, k)[i]] = k + i - 1
  BY <1>3, <1>4
<1>6. PageOf(t, k) \in Seq(Blocks) /\ Len(PageOf(t, k)) = n
  <2>1. PageOf(t, k) \in [1 .. n -> Blocks]
    BY <1>2, <1>4, <1>5
  <2> QED
    BY <1>1, <2>1
<1> QED
  BY <1>1, <1>5, <1>6 DEF n

(* Every page is a list of blocks, given that what the honest are asked for by
   height exists. *)
LEMMA AnswersTyped ==
  ASSUME Honest => Numbered, public \subseteq Blocks, NEW h \in Nat \ {0},
         NEW p \in Answers(h)
  PROVE  p \in Seq(Blocks)
<1>1. CASE Honest
  <2>1. PICK t \in Blocks : p = PageOf(t, h)
    BY <1>1 DEF Answers, Heaviest
  <2> QED
    BY <1>1, <2>1, PageByHeight
<1>2. CASE ~Honest
  BY <1>2, ChainSyncAssumption DEF Answers
<1> QED
  BY <1>1, <1>2

LEMMA BatchesTyped ==
  ASSUME Honest => Numbered, public \subseteq Blocks, NEW h \in Nat \ {0},
         NEW p \in Batches(h)
  PROVE  p \in Seq(Blocks)
<1>1. h + Page \in Nat \ {0}
  BY SyncConstants
<1>2. p \in Answers(h) \/ \E q \in Answers(h), r \in Answers(h + Page) : p = q \o r
  BY DEF Batches
<1>3. ASSUME NEW q \in Answers(h), NEW r \in Answers(h + Page), p = q \o r
      PROVE  p \in Seq(Blocks)
  <2>1. q \in Seq(Blocks)
    BY AnswersTyped
  <2>2. r \in Seq(Blocks)
    BY <1>1, AnswersTyped
  <2> QED
    BY <1>3, <2>1, <2>2
<1>4. p \in Answers(h) => p \in Seq(Blocks)
  BY AnswersTyped
<1> QED
  BY <1>2, <1>3, <1>4

(* Requests start at height 1 or higher. *)
LEMMA FromAbove ==
  ASSUME TypeOK, CallTyped
  PROVE  From \in Nat \ {0} /\ (pc = "bootFetch" => From = Height[tip] + 1)
<1>1. tip \in Blocks /\ claim \in Blocks /\ overlap \in Nat
  BY SyncConstants DEF CallTyped, TypeOK
<1>2. Height[tip] \in Nat /\ Height[claim] \in Nat
  BY <1>1, SyncConstants
<1> QED
  BY <1>1, <1>2 DEF From, FromOn, Larger, Smaller

-----------------------------------------------------------------------------
(* Each kind of step preserves the types. *)

LEMMA ReturnTyped ==
  ASSUME CallTyped,
         NEW result \in {"unchanged", "changed", "failed", "synced"}, Return(result)
  PROVE  CallTyped'
<1>1. 0 \in 0 .. MaxOverlap
  BY SyncConstants
<1> QED
  BY <1>1, SyncConstants DEF Return, CallTyped

LEMMA CallTypedStep ==
  ASSUME TypeOK, CallTyped, [SyncNext]_vars
  PROVE  CallTyped'
<1>1. ASSUME NEW b \in Blocks, Publish(b) PROVE CallTyped'
  BY <1>1 DEF Publish, callVars, CallTyped
<1>2. ASSUME NEW c \in Blocks, CatchUp(c) PROVE CallTyped'
  <2>1. tip \in Blocks /\ CatchupOverlap \in 0 .. MaxOverlap
    BY SyncConstants DEF TypeOK
  <2> QED
    BY <1>2, <2>1 DEF CatchUp, CallTyped
<1>3. ASSUME Bootstrap PROVE CallTyped'
  <2>1. tip \in Blocks
    BY DEF TypeOK
  <2> QED
    BY <1>3, <2>1 DEF Bootstrap, CallTyped
<1>4. ASSUME Answer PROVE CallTyped'
  <2>1. CASE Return(ChangedSinceEntry)
    BY <2>1, ReturnTyped DEF ChangedSinceEntry
  <2>2. CASE Bootstrapped
    BY <2>2, ReturnTyped DEF Bootstrapped
  <2>3. ASSUME NEW p, short' = (Len(p) < Page), before' = tip,
               connected' = (Height[p[1]] = From /\ Parent[p[1]] \in stored),
               pc' = IF pc = "fetch" THEN "apply" ELSE "bootApply",
               UNCHANGED <<claim, overlap, entryTip, outcome>>
        PROVE  CallTyped'
    <3>1. short' \in BOOLEAN /\ connected' \in BOOLEAN /\ before' \in Blocks
      BY <2>3 DEF TypeOK
    <3> QED
      BY <2>3, <3>1 DEF CallTyped
  <2> QED
    BY <1>4, <2>1, <2>2, <2>3 DEF Answer
<1>5. CASE Throw
  BY <1>5, ReturnTyped DEF Throw
<1>6. CASE AddNext
  BY <1>6 DEF AddNext, CallTyped
<1>7. ASSUME EndCatchUpPage PROVE CallTyped'
  <2>1. CASE Return(ChangedSinceEntry)
    BY <2>1, ReturnTyped DEF ChangedSinceEntry
  <2>2. CASE Return("failed")
    BY <2>2, ReturnTyped
  <2>3. CASE pc' = "bootFetch" /\ UNCHANGED <<callVars, outcome>>
    BY <2>3 DEF callVars, CallTyped
  <2>4. CASE /\ overlap' = Smaller(overlap * WidenFactor, MaxOverlap) /\ pc' = "fetch"
             /\ UNCHANGED <<claim, page, short, connected, before, entryTip, outcome>>
    <3>1. overlap \in Nat /\ WidenFactor \in Nat /\ MaxOverlap \in Nat
      BY SyncConstants DEF CallTyped
    <3>2. overlap * WidenFactor \in Nat
      BY <3>1
    <3>3. overlap' \in 0 .. MaxOverlap
      BY <2>4, <3>1, <3>2 DEF Smaller
    <3> QED
      BY <2>4, <3>3 DEF CallTyped
  <2> QED
    BY <1>7, <2>1, <2>2, <2>3, <2>4 DEF EndCatchUpPage
<1>8. ASSUME EndBootstrapPage PROVE CallTyped'
  <2>1. CASE Bootstrapped
    BY <2>1, ReturnTyped DEF Bootstrapped
  <2>2. CASE pc' = "bootFetch" /\ UNCHANGED <<callVars, outcome>>
    BY <2>2 DEF callVars, CallTyped
  <2> QED
    BY <1>8, <2>1, <2>2 DEF EndBootstrapPage
<1>9. ASSUME Restore \/ UNCHANGED vars PROVE CallTyped'
  BY <1>9 DEF Restore, vars, syncVars, callVars, CallTyped
<1> QED
  BY <1>1, <1>2, <1>3, <1>4, <1>5, <1>6, <1>7, <1>8, <1>9 DEF SyncNext, Call

(* A page stays a list of blocks while it is used up. *)
LEMMA PageStep ==
  ASSUME Honest => Numbered, TypeOK, CallTyped, public \subseteq Blocks,
         page \in Seq(Blocks), [SyncNext]_vars
  PROVE  page' \in Seq(Blocks)
<1>1. CASE page' \in {page, <<>>}
  <2>1. <<>> \in Seq(Blocks)
    OBVIOUS
  <2> QED
    BY <1>1, <2>1
<1>2. CASE AddNext
  BY <1>2 DEF AddNext
<1>3. ASSUME Answer, page' \in IF pc = "fetch" THEN Answers(From) ELSE Batches(From)
      PROVE  page' \in Seq(Blocks)
  BY <1>3, FromAbove, AnswersTyped, BatchesTyped
<1>4. CASE Answer
  BY <1>1, <1>3, <1>4 DEF Answer, Return, Bootstrapped
<1>5. ASSUME NEW b \in Blocks, Publish(b) PROVE page' = page
  BY <1>5 DEF Publish, callVars
<1>6. ASSUME NEW c \in Blocks, CatchUp(c) PROVE page' = page
  BY <1>6 DEF CatchUp
<1>7. ASSUME Bootstrap \/ Restore \/ UNCHANGED vars PROVE page' = page
  BY <1>7 DEF Bootstrap, Restore, vars, syncVars, callVars
<1>8. ASSUME Throw \/ EndCatchUpPage \/ EndBootstrapPage PROVE page' \in {page, <<>>}
  BY <1>8 DEF Throw, EndCatchUpPage, EndBootstrapPage, Return, Bootstrapped, callVars
<1> QED
  BY <1>1, <1>2, <1>4, <1>5, <1>6, <1>7, <1>8 DEF SyncNext, Call

(* What a step does to the chain and the two histories. *)
LEMMA ChainSteps ==
  ASSUME CallsAfterRestore, public \subseteq Blocks, [SyncNext]_vars
  PROVE  \/ UNCHANGED <<chainVars, anchor, peak>>
         \/ /\ pc \in {"apply", "bootApply"} /\ page # <<>> /\ Head(page) \in Blocks
            /\ \/ AcceptBlock(Head(page)) /\ UNCHANGED <<anchor, peak>>
               \/ HitPrunedParent(Head(page)) /\ anchor' = 0 /\ peak' = 0
         \/ pc # "idle" /\ PruneAfterPage
         \/ \E b \in Blocks : SeedPrefix(b) /\ UNCHANGED <<anchor, peak>>
         \/ \E b \in Blocks : SeedAnchor(b) /\ anchor' = Height[b] /\ peak' = Height[b]
         \/ DiscardRestore /\ UNCHANGED <<anchor, peak>>
<1>1. ASSUME NEW b \in Blocks, Publish(b) PROVE UNCHANGED <<chainVars, anchor, peak>>
  BY <1>1 DEF Publish
<1>2. ASSUME NEW c \in Blocks, CatchUp(c) PROVE UNCHANGED <<chainVars, anchor, peak>>
  BY <1>2 DEF CatchUp
<1>3. ASSUME Bootstrap \/ Answer \/ Throw PROVE UNCHANGED <<chainVars, anchor, peak>>
  BY <1>3 DEF Bootstrap, Answer, Throw
<1>4. ASSUME EndCatchUpPage \/ EndBootstrapPage PROVE pc # "idle" /\ PruneAfterPage
  BY <1>4 DEF EndCatchUpPage, EndBootstrapPage
<1>5. ASSUME UNCHANGED vars PROVE UNCHANGED <<chainVars, anchor, peak>>
  BY <1>5 DEF vars, syncVars
<1>6. CASE AddNext
  BY <1>6 DEF AddNext
<1>7. CASE Restore
  BY <1>7 DEF Restore
<1> QED
  BY <1>1, <1>2, <1>3, <1>4, <1>5, <1>6, <1>7 DEF SyncNext, Call

(* The two histories stay heights. *)
LEMMA HistoriesStep ==
  ASSUME TypeOK, CallsAfterRestore, anchor \in Nat, peak \in Nat, [SyncNext]_vars
  PROVE  anchor' \in Nat /\ peak' \in Nat
<1>1. Height[tip] \in Nat /\ \A b \in Blocks : Height[b] \in Nat
  BY SyncConstants DEF TypeOK
<1>2. CASE PruneAfterPage
  BY <1>1, <1>2 DEF PruneAfterPage, Larger
<1> QED
  BY <1>1, <1>2, ChainSteps DEF CallsAfterRestore

(* A prune strips only what lies more than the window under the tip, and the
   last block of a snapshot is higher than all before it. *)
LEMMA WindowStep ==
  ASSUME TypeOK, CallsAfterRestore, anchor \in Nat, peak \in Nat, Window, [SyncNext]_vars
  PROVE  Window'
<1>1. /\ tip \in stored /\ stored \subseteq Blocks /\ Retain \in Nat
      /\ \A b \in Blocks : Height[b] \in Nat
  BY SyncConstants DEF TypeOK
<1>2. CASE UNCHANGED <<chainVars, anchor, peak>>
  BY <1>2 DEF chainVars, Window
<1>3. ASSUME NEW b \in Blocks, AcceptBlock(b), UNCHANGED <<anchor, peak>> PROVE Window'
  BY <1>3 DEF AcceptBlock, Insert, Window
<1>4. ASSUME ToGenesis PROVE Window'
  BY <1>1, <1>4, SyncConstants DEF ToGenesis, Window
<1>5. ASSUME pc # "idle", PruneAfterPage PROVE Window'
  <2>1. ~restoring /\ restoring' = restoring /\ stored' = stored
    BY <1>5 DEF CallsAfterRestore, PruneAfterPage
  <2>2. ASSUME NEW b \in stored \ materialised'
        PROVE  Height[b] < anchor' \/ Height[b] < peak' - Retain
    <3>1. anchor' = anchor /\ peak' \in Nat /\ peak' >= peak /\ peak' >= Height[tip]
      BY <1>1, <1>5 DEF PruneAfterPage, Larger
    <3>2. CASE b \in materialised
      <4>1. b \in Buried(tip, materialised, Height[tip] - Retain)
        BY <1>5, <2>2, <3>2 DEF PruneAfterPage, StripBuried, Unburied
      <4>2. Height[b] < Height[tip] - Retain
        BY <4>1 DEF Buried
      <4> QED
        BY <1>1, <3>1, <4>2
    <3>3. CASE b \notin materialised
      <4>1. Height[b] < anchor \/ Height[b] < peak - Retain
        BY <2>1, <2>2, <3>3 DEF Window
      <4> QED
        BY <1>1, <3>1, <4>1
    <3> QED
      BY <3>2, <3>3
  <2> QED
    BY <2>1, <2>2 DEF Window
<1>6. ASSUME NEW b \in Blocks, SeedPrefix(b) PROVE Window'
  <2>1. Height[b] = Height[tip] + 1 /\ stored' = stored \union {b} /\ restoring /\ restoring'
    BY <1>6 DEF SeedPrefix, Attaches, Insert
  <2>2. tip' = b
    <3>1. work[Parent[b]] + BlockWork[b] > work[tip]
      <4>1. Parent[b] = tip /\ work[tip] \in Nat /\ BlockWork[b] \in Nat \ {0}
        BY <1>1, <1>6, BlockchainAssumption DEF SeedPrefix, TypeOK
      <4> QED
        BY <4>1
    <3> QED
      BY <1>6, <3>1 DEF SeedPrefix, ChooseTip
  <2>3. \A c \in stored : Height[c] <= Height[tip] /\ Height[c] \in Nat
    BY <1>1, <2>1 DEF Window
  <2> QED
    BY <1>1, <2>1, <2>2, <2>3 DEF Window
<1>7. ASSUME NEW b \in Blocks, SeedAnchor(b), anchor' = Height[b], peak' = Height[b]
      PROVE  Window'
  <2>1. /\ Height[b] = Height[tip] + 1 /\ stored' = stored \union {b}
        /\ restoring /\ ~restoring' /\ b \in materialised'
    BY <1>7 DEF SeedAnchor, Attaches, Insert
  <2>2. \A c \in stored : Height[c] <= Height[tip] /\ Height[c] \in Nat
    BY <1>1, <2>1 DEF Window
  <2>3. ASSUME NEW c \in stored' \ materialised' PROVE Height[c] < anchor'
    BY <1>1, <1>7, <2>1, <2>2, <2>3
  <2> QED
    BY <2>1, <2>3 DEF Window
<1> QED
  BY <1>2, <1>3, <1>4, <1>5, <1>6, <1>7, ChainSteps
  DEF HitPrunedParent, DiscardRestore, CallsAfterRestore

LEMMA WindowInvariance == SyncSpec => []WindowInv
<1>1. SyncInit => WindowInv
  BY InitIInv, SyncInitInv, SyncConstants DEF SyncInit, Init, WindowInv, Window
<1>2. WindowInv /\ [SyncNext]_vars => WindowInv'
  <2> SUFFICES ASSUME WindowInv, [SyncNext]_vars PROVE WindowInv'
    OBVIOUS
  <2>1. IInv /\ TypeOK /\ SyncInv /\ CallsAfterRestore /\ anchor \in Nat /\ peak \in Nat /\ Window
    BY DEF WindowInv, SyncInv, IInv
  <2>2. IInv' /\ SyncInv'
    BY <2>1, SyncStepIsTreeStep, NextIInv, SyncNextInv
  <2> QED
    BY <2>1, <2>2, HistoriesStep, WindowStep DEF WindowInv
<1> QED
  BY <1>1, <1>2, PTL DEF SyncSpec

(* saveSnapshot finds the state it needs: the window of pruneStateBelow contains
   the finality depth, for any window and depth, unless reorgs onto shorter
   branches or a recent anchor have used up the margin. *)
THEOREM SnapshotsReadable == SyncSpec => []SnapshotReadable
<1>1. WindowInv => SnapshotReadable
  <2> DEFINE h == Height[tip] - SnapshotDepth
  <2> SUFFICES ASSUME WindowInv, ~restoring, h > 0, h >= anchor,
                      peak - Height[tip] <= Retain - SnapshotDepth,
                      NEW b \in Canonical, Height[b] = h
               PROVE  b \in materialised
    BY DEF SnapshotReadable
  <2>1. /\ Tree(stored) /\ tip \in stored /\ anchor \in Nat /\ peak \in Nat
        /\ Height[tip] \in Nat /\ Retain \in Nat /\ SnapshotDepth \in Nat
    BY SyncConstants DEF WindowInv, IInv, TypeOK, Linked, Tree
  <2>2. b \in stored
    BY <2>1, LineInTree DEF Canonical
  <2>3. b \notin materialised => Height[b] < anchor \/ Height[b] < peak - Retain
    BY <2>2 DEF WindowInv, Window
  <2> QED
    BY <2>1, <2>3
<1> QED
  BY <1>1, WindowInvariance, PTL

LEMMA ReachInvariance == SyncSpec => []ReachInv
<1>1. SyncInit => CallTyped
  BY SyncConstants, 0 \in 0 .. MaxOverlap DEF SyncInit, CallTyped
<1>2. ReachInv /\ [SyncNext]_vars => CallTyped'
  BY CallTypedStep DEF ReachInv, WindowInv, IInv
<1> QED
  BY <1>1, <1>2, WindowInvariance, PTL DEF SyncSpec, ReachInv

(* The locals of a call, the pages the helpers answer and the histories are what
   they seem to be; of honest helpers, who answer by height, if the blocks of the
   network state their heights. *)
THEOREM SyncTyped ==
  ASSUME Honest => Numbered
  PROVE  SyncSpec => []SyncTypeOK
<1>1. SyncInit => page \in Seq(Blocks)
  BY DEF SyncInit
<1>2. ReachInv /\ page \in Seq(Blocks) /\ [SyncNext]_vars => (page \in Seq(Blocks))'
  BY PageStep DEF ReachInv, WindowInv, SyncInv, CallsAfterRestore, IInv
<1>3. ReachInv /\ page \in Seq(Blocks) => SyncTypeOK
  BY DEF ReachInv, WindowInv, SyncInv, CallsAfterRestore, IInv, CallTyped, SyncTypeOK
<1> QED
  BY <1>1, <1>2, <1>3, ReachInvariance, PTL DEF SyncSpec

(* A page drops the chain only for a reason the retained window cannot help, by
   any of its blocks that is as high as the page was asked for: to helpers that
   answer what they were asked the tolerance written beside STATE_RETAIN is
   guaranteed, whichever forks, widenings and prunes came before, and whatever
   the others answered meanwhile. *)
THEOREM DropsAreBeyondTolerance == SyncSpec => ResetOnlyBeyondTolerance
<1> DEFINE Drop ==
             /\ pc \in {"apply", "bootApply"} /\ stored' # stored /\ stored' = {Genesis}
             /\ Height[Head(page)] >= FromOn(before)
           Beyond ==
             \/ Height[Parent[Head(page)]] < anchor
             \/ pc = "apply" /\ peak - Smaller(Height[before], Height[claim])
                                  > Retain - (MaxOverlap + 1)
             \/ pc = "bootApply" /\ peak - Height[before] > Retain
<1>1. ReachInv /\ [SyncNext]_vars => [Drop => Beyond]_vars
  <2> SUFFICES ASSUME ReachInv, [SyncNext]_vars, Drop
               PROVE  Beyond
    OBVIOUS
  <2>1. /\ TypeOK /\ CallTyped /\ CallsAfterRestore /\ Window
        /\ public \subseteq Blocks /\ ~restoring /\ Genesis \in stored
    BY DEF ReachInv, WindowInv, SyncInv, CallsAfterRestore, IInv, Linked
  <2>2. Head(page) \in Blocks /\ HitPrunedParent(Head(page))
    BY <2>1, ChainSteps
    DEF chainVars, AcceptBlock, Insert, PruneAfterPage, SeedPrefix, SeedAnchor, DiscardRestore
  <2> DEFINE b == Head(page)
             p == Parent[b]
             low == Smaller(Height[before], Height[claim])
  <2>3. p \in stored \ materialised /\ Height[b] = Height[p] + 1
    BY <2>2 DEF HitPrunedParent, PassesHeaderChecks, Attaches
  <2>4. Height[p] < anchor \/ Height[p] < peak - Retain
    BY <2>1, <2>3 DEF Window
  <2>5. /\ Height[p] \in Nat /\ Height[before] \in Nat /\ low \in Nat
        /\ Retain \in Nat /\ peak \in Nat /\ anchor \in Nat
        /\ MaxOverlap \in Nat /\ overlap \in Nat /\ overlap <= MaxOverlap
    BY <2>1, <2>3, SyncConstants DEF ReachInv, WindowInv, TypeOK, CallTyped, Smaller
  <2>6. CASE pc = "apply"
    <3>1. Height[p] + 1 >= Larger(1, low - overlap)
      BY <2>3, <2>6 DEF FromOn
    <3>2. Height[p] + 1 >= low - MaxOverlap
      BY <2>5, <3>1 DEF Larger
    <3> QED
      BY <2>4, <2>5, <2>6, <3>2
  <2>7. CASE pc = "bootApply"
    <3>1. Height[p] + 1 >= Height[before] + 1
      BY <2>3, <2>7 DEF FromOn
    <3> QED
      BY <2>4, <2>5, <2>7, <3>1
  <2> QED
    BY <2>6, <2>7
<1> QED
  BY <1>1, ReachInvariance, PTL DEF SyncSpec, ResetOnlyBeyondTolerance

-----------------------------------------------------------------------------
(* Honest helpers: what a heaviest branch opens with. *)

(* The walk from genesis stays there. *)
LEMMA LineOfGenesis ==
  ASSUME Numbered
  PROVE  Line[Genesis] = {Genesis}
<1>1. /\ Genesis \in Line[Genesis] /\ Line[Genesis] \subseteq Blocks
      /\ \A x \in Line[Genesis] : Height[x] <= 0
  BY AllBlocksAreTree, LineInTree, SyncConstants
<1>2. ASSUME NEW x \in Blocks, Height[x] <= 0 PROVE x = Genesis
  <2>1. CASE x # Genesis
    <3>1. Parent[x] \in Blocks /\ Height[x] = Height[Parent[x]] + 1
      BY <2>1, BlockchainAssumption DEF Numbered
    <3> QED
      BY <1>2, <3>1, SyncConstants
  <2> QED
    BY <2>1
<1> QED
  BY <1>1, <1>2

(* A valid branch weighs more than genesis, by its height at least. *)
LEMMA PathWorkGrows ==
  ASSUME Numbered, NEW b \in Blocks, Valid(b)
  PROVE  PathWork[b] \in Nat /\ PathWork[b] >= BlockWork[Genesis] + Height[b]
<1> DEFINE at(n) == CHOOSE a \in Line[b] : Height[a] = n
           step == [q \in Nat \X Nat |->
                      IF q[1] <= Height[b] THEN q[2] + BlockWork[at(q[1])] ELSE q[2]]
           Solves(h) == h = [n \in 0 .. Height[b] |->
             IF n = 0 THEN BlockWork[Genesis] ELSE h[n-1] + BlockWork[at(n)]]
           sum == CHOOSE h : Solves(h)
<1>1. Height[b] \in Nat /\ BlockWork[Genesis] \in Nat \ {0}
  BY SyncConstants, BlockchainAssumption
<1>2. ASSUME NEW n \in Nat, n <= Height[b] PROVE BlockWork[at(n)] \in Nat \ {0}
  <2>1. n \in 0 .. Height[b]
    BY <1>1, <1>2
  <2>2. \E a \in Line[b] : Height[a] = n
    BY <2>1, AllBlocksAreTree, LineInTree
  <2>3. at(n) \in Line[b]
    BY <2>2
  <2>4. Line[b] \subseteq Blocks
    BY AllBlocksAreTree, LineInTree
  <2> QED
    BY <2>3, <2>4, BlockchainAssumption
<1> HIDE DEF at
<1>3. step \in [Nat \X Nat -> Nat]
  BY <1>1, <1>2
<1>4. PICK f \in [Nat -> Nat] :
        f[0] = BlockWork[Genesis] /\ \A n \in Nat \ {0} : f[n] = step[<<n, f[n-1]>>]
  <2> HIDE DEF step
  <2>1. Recursion(Nat, BlockWork[Genesis], step) # {}
    BY <1>1, <1>3, NatRecursion
  <2> QED
    BY <2>1 DEF Recursion
<1>5. \A n \in 1 .. Height[b] : f[n] = f[n-1] + BlockWork[at(n)]
  <2> SUFFICES ASSUME NEW n \in 1 .. Height[b] PROVE f[n] = f[n-1] + BlockWork[at(n)]
    OBVIOUS
  <2>1. n \in Nat \ {0} /\ n - 1 \in Nat /\ n <= Height[b]
    BY <1>1
  <2>2. <<n, f[n-1]>> \in Nat \X Nat
    BY <1>4, <2>1
  <2> QED
    BY <1>4, <2>1, <2>2
<1>6. Solves([n \in 0 .. Height[b] |-> f[n]])
  <2>1. \A n \in 0 .. Height[b] : n # 0 => n \in 1 .. Height[b] /\ n - 1 \in 0 .. Height[b]
    BY <1>1
  <2> QED
    BY <1>4, <1>5, <2>1
<1>7. Solves(sum)
  BY <1>6
<1>8. PathWork[b] = sum[Height[b]]
  BY DEF PathWork, at
<1>9. sum = [n \in 0 .. Height[b] |->
        IF n = 0 THEN BlockWork[Genesis] ELSE sum[n-1] + BlockWork[at(n)]]
  BY <1>7
<1> HIDE DEF sum
<1> DEFINE T == {n \in Nat : n <= Height[b] => sum[n] \in Nat /\ sum[n] >= BlockWork[Genesis] + n}
<1>10. 0 \in T
  <2>1. sum[0] = BlockWork[Genesis]
    <3>1. 0 \in 0 .. Height[b]
      BY <1>1
    <3> QED
      BY <1>9, <3>1
  <2> QED
    BY <1>1, <2>1
<1>11. ASSUME NEW n \in T PROVE n + 1 \in T
  <2> SUFFICES ASSUME n + 1 <= Height[b]
               PROVE  sum[n+1] \in Nat /\ sum[n+1] >= BlockWork[Genesis] + (n + 1)
    OBVIOUS
  <2>1. sum[n] \in Nat /\ sum[n] >= BlockWork[Genesis] + n
    BY <1>1, <1>11
  <2>2. n + 1 \in 0 .. Height[b] /\ n + 1 # 0 /\ (n + 1) - 1 = n
    BY <1>1
  <2>3. sum[n+1] = sum[n] + BlockWork[at(n+1)]
    BY <1>9, <2>2
  <2>4. BlockWork[at(n+1)] \in Nat \ {0}
    BY <1>2
  <2> QED
    BY <1>1, <2>1, <2>3, <2>4
<1> HIDE DEF T
<1>12. T = Nat
  BY <1>10, <1>11, Induct DEF T
<1> QED
  BY <1>1, <1>8, <1>12 DEF T

LEMMA PathWorkOfGenesis ==
  ASSUME Numbered, Flaw[Genesis] = "none"
  PROVE  Valid(Genesis) /\ PathWork[Genesis] = BlockWork[Genesis]
<1> DEFINE at(n) == CHOOSE a \in Line[Genesis] : Height[a] = n
           Solves(h) == h = [n \in 0 .. Height[Genesis] |->
             IF n = 0 THEN BlockWork[Genesis] ELSE h[n-1] + BlockWork[at(n)]]
           sum == CHOOSE h : Solves(h)
<1>1. Valid(Genesis)
  BY LineOfGenesis DEF Valid
<1>2. Height[Genesis] = 0 /\ Genesis \in Blocks
  BY SyncConstants
<1>3. Solves([n \in 0 .. 0 |-> BlockWork[Genesis]])
  BY <1>2
<1>4. Solves(sum)
  BY <1>3
<1>5. sum[0] = BlockWork[Genesis]
  BY <1>2, <1>4
<1>6. PathWork[Genesis] = sum[Height[Genesis]]
  BY <1>1, <1>2 DEF PathWork
<1> QED
  BY <1>1, <1>2, <1>5, <1>6

(* A block that may be put on genesis. *)
Opens(b) == Flaw[b] = "none" /\ Height[b] = 1 /\ Parent[b] = Genesis

(* If a valid branch higher than genesis is out, what honest helpers answer from
   height 1 opens with its first block. *)
LEMMA HeaviestOpens ==
  ASSUME Numbered, Honest, Flaw[Genesis] = "none", public \subseteq Blocks,
         NEW c \in public \ {Genesis}, Valid(c), NEW p \in Batches(1)
  PROVE  p # <<>> /\ Opens(Head(p))
<1>1. ASSUME NEW t \in Heaviest PROVE Valid(t) /\ Height[t] >= 1
  <2>1. t \in Blocks /\ PathWork[t] >= PathWork[c]
    BY <1>1 DEF Heaviest
  <2>2. Height[c] \in Nat /\ Height[c] >= 1
    <3>1. Height[c] = Height[Parent[c]] + 1 /\ Parent[c] \in Blocks
      BY BlockchainAssumption DEF Numbered
    <3> QED
      BY <3>1, SyncConstants
  <2>3. PathWork[c] \in Nat /\ PathWork[c] >= BlockWork[Genesis] + Height[c]
    BY PathWorkGrows
  <2>4. BlockWork[Genesis] \in Nat \ {0}
    BY BlockchainAssumption
  <2>5. Valid(t)
    <3>1. ~Valid(t) => PathWork[t] = 0
      BY <2>1 DEF PathWork
    <3> QED
      BY <2>1, <2>2, <2>3, <2>4, <3>1
  <2>6. t # Genesis
    BY <2>1, <2>2, <2>3, <2>4, PathWorkOfGenesis
  <2>7. Height[t] = Height[Parent[t]] + 1 /\ Parent[t] \in Blocks
    BY <2>1, <2>6, BlockchainAssumption DEF Numbered
  <2> QED
    BY <2>5, <2>7, SyncConstants
<1>2. ASSUME NEW q \in Answers(1)
      PROVE  q \in Seq(Blocks) /\ Len(q) > 0 /\ Opens(q[1])
  <2>1. PICK t \in Heaviest : q = PageOf(t, 1)
    BY <1>2 DEF Answers
  <2>2. t \in Blocks /\ Valid(t) /\ Height[t] >= 1 /\ Height[t] \in Nat
    BY <1>1, SyncConstants DEF Heaviest
  <2>3. /\ q \in Seq(Blocks) /\ Len(q) = Smaller(Page, Larger(0, Height[t] - 1 + 1))
        /\ \A i \in 1 .. Len(q) : q[i] \in Line[t] /\ Height[q[i]] = 1 + i - 1
    BY <2>1, <2>2, PageByHeight
  <2>4. Len(q) > 0 /\ Len(q) \in Nat
    BY <2>2, <2>3, SyncConstants DEF Smaller, Larger
  <2>5. q[1] \in Line[t] /\ Height[q[1]] = 1 /\ q[1] \in Blocks
    BY <2>3, <2>4
  <2>6. Parent[q[1]] = Genesis
    <3>1. q[1] # Genesis
      BY <2>5, SyncConstants
    <3>2. Parent[q[1]] \in Blocks /\ Height[q[1]] = Height[Parent[q[1]]] + 1
      BY <2>5, <3>1, BlockchainAssumption DEF Numbered
    <3>3. Height[Parent[q[1]]] = 0
      BY <2>5, <3>2, SyncConstants
    <3>4. ASSUME NEW x \in Blocks \ {Genesis} PROVE Height[x] # 0
      <4>1. Height[x] = Height[Parent[x]] + 1 /\ Parent[x] \in Blocks
        BY BlockchainAssumption DEF Numbered
      <4> QED
        BY <4>1, SyncConstants
    <3> QED
      BY <3>2, <3>3, <3>4
  <2> QED
    BY <2>2, <2>3, <2>4, <2>5, <2>6 DEF Valid, Opens
<1>3. p \in Answers(1) \/ \E q \in Answers(1), r \in Answers(1 + Page) : p = q \o r
  BY DEF Batches
<1>4. CASE p \in Answers(1)
  BY <1>2, <1>4
<1>5. ASSUME NEW q \in Answers(1), NEW r \in Answers(1 + Page), p = q \o r
      PROVE  p # <<>> /\ Opens(Head(p))
  <2>1. r \in Seq(Blocks)
    <3>1. 1 + Page \in Nat \ {0}
      BY SyncConstants
    <3> QED
      BY <3>1, AnswersTyped
  <2>2. q \in Seq(Blocks) /\ Len(q) > 0 /\ Opens(q[1])
    BY <1>2
  <2>3. Len(p) = Len(q) + Len(r) /\ p[1] = q[1] /\ p \in Seq(Blocks) /\ Len(p) > 0
    BY <1>5, <2>1, <2>2
  <2> QED
    BY <2>2, <2>3
<1> QED
  BY <1>3, <1>4, <1>5

(* On genesis, the tree holds nothing else. *)
LEMMA GenesisAlone ==
  ASSUME IInv, tip = Genesis
  PROVE  stored = {Genesis}
<1>1. Tree(stored) /\ Genesis \in stored /\ work \in [Blocks -> Nat] /\ stored \subseteq Blocks
  BY DEF IInv, TypeOK, Linked, Tree
<1>2. ASSUME NEW b \in stored \ {Genesis} PROVE FALSE
  <2>1. work[b] <= work[Genesis]
    BY DEF IInv, HeaviestTip
  <2>2. /\ Parent[b] \in stored /\ work[b] = work[Parent[b]] + BlockWork[b]
        /\ BlockWork[b] \in Nat \ {0}
    BY <1>1, BlockchainAssumption DEF IInv, Linked
  <2>3. b \in Line[b] /\ Line[b] \subseteq stored /\ Parent[b] \in Line[b]
    BY <1>1, LineInTree
  <2> DEFINE Q == {x \in stored : x = b \/ work[x] < work[Genesis]}
  <2>4. ASSUME NEW x \in (Line[b] \intersect Q) \ {Genesis} PROVE Parent[x] \in Q
    <3>1. /\ Parent[x] \in stored /\ work[x] = work[Parent[x]] + BlockWork[x]
          /\ BlockWork[x] \in Nat \ {0}
      BY <1>1, BlockchainAssumption DEF IInv, Linked
    <3>2. /\ work[x] <= work[Genesis] /\ work[x] \in Nat /\ work[Parent[x]] \in Nat
          /\ work[Genesis] \in Nat
      BY <1>1, <3>1 DEF IInv, HeaviestTip
    <3> QED
      BY <3>1, <3>2
  <2> HIDE DEF Q
  <2>5. Line[b] \subseteq Q
    <3>1. b \in Q
      BY DEF Q
    <3> QED
      BY <1>1, <2>4, <3>1, LineInduct
  <2>6. Genesis \in Line[b]
    <3>1. Height[b] \in Nat
      BY <1>1, SyncConstants
    <3>2. PICK x \in Line[b] : Height[x] = 0
      BY <1>1, <3>1, LineInTree
    <3>3. x = Genesis
      <4>1. CASE x # Genesis
        <5>1. Height[x] = Height[Parent[x]] + 1 /\ Parent[x] \in stored
          BY <1>1, <2>3, <4>1 DEF Tree
        <5> QED
          BY <1>1, <3>2, <5>1, SyncConstants
      <4> QED
        BY <4>1
    <3> QED
      BY <3>2, <3>3
  <2> QED
    BY <1>1, <1>2, <2>5, <2>6 DEF Q
<1> QED
  BY <1>1, <1>2

(* Who waits for an answer is in a call, and what catchUp chases is a valid
   branch. Until it replays, the chain it began with is in place, and a page asked
   for on genesis will move the tip away: every state is held, and its first block
   can be added. *)
HonestInv ==
  /\ Genesis \in public
  /\ outcome = "running" => pc # "idle"
  /\ claim # Genesis => claim \in public /\ Valid(claim)
  /\ pc = "fetch" => tip = entryTip
  /\ pc = "apply" => before = entryTip
  /\ pc = "bootApply" /\ before = Genesis =>
       /\ stored \subseteq materialised
       /\ claim # Genesis /\ tip = Genesis => page # <<>> /\ Opens(Head(page))

(* The first block of a replay is accepted and becomes the tip. *)
LEMMA OpeningMoves ==
  ASSUME ReachInv, HonestInv, AddNext, pc = "bootApply", before = Genesis,
         claim # Genesis
  PROVE  tip' # Genesis /\ stored' \subseteq materialised'
<1> DEFINE b == Head(page)
<1>1. /\ IInv /\ ~restoring /\ stored \subseteq materialised /\ page # <<>>
      /\ Genesis \in materialised /\ Genesis \in stored /\ stored \subseteq Blocks
      /\ work \in [Blocks -> Nat]
  BY DEF ReachInv, WindowInv, SyncInv, CallsAfterRestore, HonestInv, AddNext, IInv, TypeOK,
         TipExtendable, Linked
<1>2. b \in Blocks /\ (AcceptBlock(b) \/ HitPrunedParent(b) \/ (Refused(b) /\ UNCHANGED chainVars))
  BY DEF AddNext
<1>3. ~HitPrunedParent(b)
  BY <1>1 DEF HitPrunedParent, PassesHeaderChecks, Attaches
<1>4. stored' \subseteq materialised'
  BY <1>1, <1>2, <1>3 DEF AcceptBlock, Insert, chainVars
<1>5. CASE tip # Genesis
  BY <1>1, <1>2, <1>3, <1>4, <1>5
  DEF AcceptBlock, PassesHeaderChecks, Attaches, ChooseTip, chainVars
<1>6. CASE tip = Genesis
  <2>1. Opens(b)
    BY <1>6 DEF HonestInv
  <2>2. /\ work[Genesis] \in Nat /\ BlockWork[b] \in Nat \ {0}
        /\ work[Genesis] + BlockWork[b] > work[Genesis]
    BY <1>1, <1>2, BlockchainAssumption
  <2>3. b # Genesis
    BY <2>1, SyncConstants DEF Opens
  <2>4. b \notin stored
    BY <1>1, <1>6, <2>3, GenesisAlone
  <2>5. PassesHeaderChecks(b)
    BY <1>1, <2>1, <2>4, SyncConstants DEF Opens, PassesHeaderChecks, Attaches
  <2>6. AcceptBlock(b)
    BY <1>2, <1>3, <2>1, <2>5 DEF Refused, Opens
  <2>7. tip' = b
    BY <1>6, <2>1, <2>2, <2>6 DEF AcceptBlock, ChooseTip, Opens
  <2> QED
    BY <1>4, <2>3, <2>7
<1> QED
  BY <1>5, <1>6

LEMMA HonestStep ==
  ASSUME Numbered, Honest, Flaw[Genesis] = "none", ReachInv, HonestInv, [SyncNext]_vars
  PROVE  HonestInv'
<1>1. /\ IInv /\ TypeOK /\ CallTyped /\ CallsAfterRestore /\ public \subseteq Blocks
      /\ tip \in Blocks /\ Genesis \in materialised
  BY DEF ReachInv, WindowInv, SyncInv, CallsAfterRestore, IInv, TypeOK, TipExtendable
<1>2. ASSUME NEW result \in {"unchanged", "changed", "failed", "synced"}, Return(result),
             Genesis \in public'
      PROVE  HonestInv'
  BY <1>2 DEF Return, HonestInv
<1>3. ASSUME NEW b \in Blocks, Publish(b) PROVE HonestInv'
  BY <1>3 DEF Publish, callVars, chainVars, HonestInv
<1>4. ASSUME NEW c \in Blocks, CatchUp(c) PROVE HonestInv'
  <2>1. c \in Heaviest /\ pc = "idle" /\ public' = public /\ tip' = tip /\ entryTip' = tip
    BY <1>4 DEF CatchUp, chainVars
  <2>2. Valid(c) /\ c \in public
    <3>1. PathWork[Genesis] = BlockWork[Genesis] /\ BlockWork[Genesis] \in Nat \ {0}
      BY PathWorkOfGenesis, BlockchainAssumption
    <3>2. PathWork[Genesis] <= PathWork[c] /\ c \in public
      BY <2>1 DEF Heaviest, HonestInv
    <3>3. ~Valid(c) => PathWork[c] = 0
      BY <1>1, <3>2 DEF PathWork
    <3> QED
      BY <3>1, <3>2, <3>3
  <2>3. /\ pc' \in {"idle", "fetch"} /\ claim' \in {claim, c}
        /\ outcome' = "running" => pc' # "idle"
    BY <1>4, <2>1 DEF CatchUp
  <2> QED
    BY <2>1, <2>2, <2>3 DEF HonestInv
<1>5. ASSUME Bootstrap PROVE HonestInv'
  BY <1>5 DEF Bootstrap, HonestInv
<1>6. ASSUME Answer PROVE HonestInv'
  <2>1. UNCHANGED <<chainVars, public>> /\ pc \in {"fetch", "bootFetch"}
    BY <1>6 DEF Answer
  <2>2. CASE Return(ChangedSinceEntry) \/ Bootstrapped
    BY <1>2, <2>1, <2>2 DEF Bootstrapped, ChangedSinceEntry, HonestInv
  <2>3. ASSUME NEW p \in IF pc = "fetch" THEN Answers(From) ELSE Batches(From),
               page' = p, before' = tip,
               pc' = IF pc = "fetch" THEN "apply" ELSE "bootApply",
               UNCHANGED <<claim, overlap, entryTip, outcome>>
        PROVE  HonestInv'
    <3>1. CASE pc = "fetch"
      BY <2>1, <2>3, <3>1 DEF HonestInv
    <3>2. CASE pc = "bootFetch"
      <4>1. ASSUME tip = Genesis PROVE stored \subseteq materialised
        BY <1>1, <4>1, GenesisAlone
      <4>2. ASSUME tip = Genesis, claim # Genesis PROVE p # <<>> /\ Opens(Head(p))
        <5>1. From = 1
          BY <1>1, <3>2, <4>2, FromAbove, SyncConstants
        <5>2. p \in Batches(1)
          BY <2>3, <3>2, <5>1
        <5> QED
          BY <1>1, <4>2, <5>2, HeaviestOpens DEF HonestInv
      <4> QED
        BY <2>1, <2>3, <3>2, <4>1, <4>2 DEF HonestInv, chainVars
    <3> QED
      BY <2>1, <3>1, <3>2
  <2> QED
    BY <1>6, <2>2, <2>3 DEF Answer
<1>7. ASSUME Throw PROVE HonestInv'
  BY <1>2, <1>7 DEF Throw, HonestInv
<1>8. ASSUME AddNext PROVE HonestInv'
  <2>1. /\ UNCHANGED <<public, pc, claim, before, entryTip>>
        /\ pc \in {"apply", "bootApply"}
    BY <1>8 DEF AddNext
  <2>2. CASE pc = "bootApply" /\ before = Genesis
    <3>1. stored' \subseteq materialised'
      BY <1>1, <1>8, <2>2
      DEF HonestInv, AddNext, AcceptBlock, Insert, HitPrunedParent, ToGenesis, chainVars
    <3>2. claim # Genesis => tip' # Genesis
      BY <1>8, <2>2, OpeningMoves
    <3> QED
      BY <2>1, <3>1, <3>2 DEF HonestInv
  <2> QED
    BY <2>1, <2>2 DEF HonestInv
<1>9. ASSUME EndCatchUpPage PROVE HonestInv'
  <2>1. public' = public /\ tip' = tip /\ pc = "apply"
    BY <1>9 DEF EndCatchUpPage, PruneAfterPage
  <2>2. CASE Return(ChangedSinceEntry) \/ Return("failed")
    BY <1>2, <2>1, <2>2 DEF ChangedSinceEntry, HonestInv
  <2>3. CASE pc' = "bootFetch" /\ claim' = claim
    BY <2>1, <2>3 DEF HonestInv
  <2>4. CASE tip = before /\ pc' = "fetch" /\ claim' = claim /\ entryTip' = entryTip
    BY <2>1, <2>4 DEF HonestInv
  <2> QED
    BY <1>9, <2>2, <2>3, <2>4 DEF EndCatchUpPage, callVars
<1>10. ASSUME EndBootstrapPage PROVE HonestInv'
  <2>1. public' = public
    BY <1>10 DEF EndBootstrapPage, PruneAfterPage
  <2>2. CASE Bootstrapped
    BY <1>2, <2>1, <2>2 DEF Bootstrapped, HonestInv
  <2>3. CASE pc' = "bootFetch" /\ claim' = claim
    BY <2>1, <2>3 DEF HonestInv
  <2> QED
    BY <1>10, <2>2, <2>3 DEF EndBootstrapPage, callVars
<1>11. ASSUME Restore PROVE HonestInv'
  <2>1. restoring /\ UNCHANGED <<public, pc, callVars, outcome>>
    BY <1>11 DEF Restore, SeedPrefix, SeedAnchor, DiscardRestore
  <2>2. pc = "idle"
    BY <1>1, <2>1 DEF CallsAfterRestore
  <2> QED
    BY <2>1, <2>2 DEF HonestInv, callVars
<1>12. ASSUME UNCHANGED vars PROVE HonestInv'
  BY <1>12 DEF vars, syncVars, callVars, chainVars, HonestInv
<1> QED
  BY <1>3, <1>4, <1>5, <1>6, <1>7, <1>8, <1>9, <1>10, <1>11, <1>12 DEF SyncNext, Call

(* A catchUp among honest helpers that answers true or false leaves its caller a
   tip to mine on. The first page of a replay finds every state, so it advances;
   only a later one, begun above genesis, could drop the chain again, and how far
   a reorg must reach for that is DropsAreBeyondTolerance. *)
THEOREM NeverSuccessAtGenesis ==
  ASSUME Numbered, Honest, Flaw[Genesis] = "none"
  PROVE  SyncSpec => NoSuccessAtGenesis
<1> DEFINE Told == outcome = "running" /\ claim # Genesis /\ outcome' \in {"changed", "unchanged"}
           Fine == \/ tip # Genesis \/ entryTip = Genesis
                   \/ pc = "bootApply" /\ before # Genesis
<1>1. SyncInit => HonestInv
  BY ChainSyncAssumption DEF SyncInit, HonestInv
<1>2. ReachInv /\ HonestInv /\ [SyncNext]_vars => HonestInv'
  BY HonestStep
<1>3. ReachInv /\ HonestInv /\ [SyncNext]_vars => [Told => Fine]_vars
  <2> SUFFICES ASSUME ReachInv, HonestInv, [SyncNext]_vars, Told, tip = Genesis
               PROVE  entryTip = Genesis \/ (pc = "bootApply" /\ before # Genesis)
    OBVIOUS
  <2>1. /\ IInv /\ TypeOK /\ CallTyped /\ CallsAfterRestore /\ public \subseteq Blocks
        /\ outcome' # outcome /\ claim # Genesis /\ pc # "idle" /\ ~restoring
    BY DEF ReachInv, WindowInv, SyncInv, CallsAfterRestore, HonestInv, IInv
  <2>3. CASE Answer
    <3>1. CASE pc = "fetch"
      BY <3>1 DEF HonestInv
    <3>2. CASE pc = "bootFetch"
      <4>1. <<>> \in Batches(From)
        BY <2>1, <2>3, <3>2 DEF Answer
      <4>2. From = 1
        BY <2>1, <3>2, FromAbove, SyncConstants
      <4> QED
        BY <2>1, <4>1, <4>2, HeaviestOpens DEF HonestInv
    <3> QED
      BY <2>3, <3>1, <3>2 DEF Answer
  <2>4. CASE EndCatchUpPage
    <3>1. ~(Height[tip] < Height[before]) /\ pc = "apply"
      BY <2>1, <2>4 DEF EndCatchUpPage
    <3>2. before = Genesis
      <4>1. before \in Blocks /\ Height[before] <= 0
        BY <2>1, <3>1, SyncConstants DEF CallTyped
      <4>2. before # Genesis => Height[before] = Height[Parent[before]] + 1 /\ Parent[before] \in Blocks
        BY <4>1, BlockchainAssumption DEF Numbered
      <4> QED
        BY <4>1, <4>2, SyncConstants
    <3> QED
      BY <3>1, <3>2 DEF HonestInv
  <2>5. CASE EndBootstrapPage
    <3>1. page = <<>> /\ pc = "bootApply"
      BY <2>5 DEF EndBootstrapPage, PruneAfterPage
    <3> QED
      BY <2>1, <3>1 DEF HonestInv
  <2>6. Answer \/ EndCatchUpPage \/ EndBootstrapPage
    BY <2>1
    DEF SyncNext, Call, Publish, CatchUp, Bootstrap, Throw, Return, AddNext, Restore,
        SeedPrefix, SeedAnchor, DiscardRestore, vars, syncVars
  <2> QED
    BY <2>3, <2>4, <2>5, <2>6
<1>4. SyncSpec => []HonestInv
  BY <1>1, <1>2, ReachInvariance, PTL DEF SyncSpec
<1> QED
  BY <1>3, <1>4, ReachInvariance, PTL DEF SyncSpec, NoSuccessAtGenesis
=============================================================================
