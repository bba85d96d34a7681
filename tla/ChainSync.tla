----------------------------- MODULE ChainSync ------------------------------
(***************************************************************************)
(* src/src/minerd/sync.ts: bootstrap and catchUp, which pull pages of       *)
(* blocks from the helpers and feed them to the chain, one await at a time. *)
(*                                                                         *)
(* The network is the set of blocks published so far. When Honest, helpers  *)
(* claim a heaviest valid branch and serve it from the height asked for.    *)
(* Otherwise a helper may claim any tip and answer with any list of         *)
(* published blocks, whatever was asked: neither the client nor applyBatch  *)
(* compares a page with its request. Any request may fail.                  *)
(*                                                                         *)
(* The look-ahead request of bootstrap is not a step of its own: it is used *)
(* only when it asked for the height the chain reached, and a page of the   *)
(* same request answered later can be any page it could have been earlier.  *)
(***************************************************************************)
EXTENDS Blockchain, Sequences

CONSTANTS
  Page,            \* PAGE: most blocks of one request (a batch of bootstrap is two)
  CatchupOverlap,  \* CATCHUP_OVERLAP: first depth below the tips
  WidenFactor,     \* CATCHUP_WIDEN_FACTOR
  MaxOverlap,      \* CATCHUP_MAX_OVERLAP
  SnapshotDepth,   \* SNAPSHOT_DEPTH: finality depth of a saved anchor
  Honest,          \* whether the helpers follow the protocol
  Lies,            \* the pages of a helper that does not
  Published        \* blocks out before the miner starts

ASSUME ChainSyncAssumption ==
  /\ {Page, CatchupOverlap, WidenFactor, MaxOverlap, SnapshotDepth} \subseteq Nat
  /\ CatchupOverlap > 0 /\ CatchupOverlap <= MaxOverlap
  /\ WidenFactor > 1 /\ Page > MaxOverlap
  /\ MaxOverlap < SnapshotDepth /\ SnapshotDepth < Retain
  /\ Honest \in BOOLEAN /\ Lies \subseteq Seq(Blocks)
  /\ Genesis \in Published /\ Published \subseteq Blocks

VARIABLES
  public,     \* blocks the network has published
  pc,         \* where the running call is suspended
  claim,      \* remoteTip of catchUp
  overlap,    \* its current depth below the tips
  page,       \* blocks of the page still to be added
  short,      \* the page had fewer than Page blocks
  connected,  \* its first block is at `from` and links to a stored block
  before,     \* tip when the page arrived (tipBefore, heightBefore)
  entryTip,   \* tip when catchUp was entered (forgotten once it matters no more)
  outcome,    \* what the last catchUp told its caller
  anchor,     \* history: height of the restored anchor, 0 after a full sync
  peak        \* history: highest tip since the tree was last dropped

callVars == <<claim, overlap, page, short, connected, before, entryTip>>
syncVars == <<public, pc, callVars, outcome, anchor, peak>>
vars == <<chainVars, syncVars>>

Larger(m, n) == IF m >= n THEN m ELSE n
Smaller(m, n) == IF m <= n THEN m ELSE n

-----------------------------------------------------------------------------
(* What the helpers know. *)

Valid(b) == \A a \in Line[b] : Flaw[a] = "none"

PathWork == [b \in Blocks |->
  LET sum[n \in 0 .. Height[b]] ==
        IF n = 0 THEN BlockWork[Genesis]
        ELSE sum[n-1] + BlockWork[CHOOSE a \in Line[b] : Height[a] = n]
  IN IF Valid(b) THEN sum[Height[b]] ELSE 0]

Heaviest == {b \in public : \A c \in public : PathWork[c] <= PathWork[b]}

(* Every block states its own height, so a page that is asked for by height is
   the part of a branch it seems to be. *)
Numbered == \A b \in Blocks \ {Genesis} : Height[b] = Height[Parent[b]] + 1

(* Helpers answer with blocks of one branch, oldest first, from height h up. *)
PageOf(t, h) ==
  [i \in 1 .. Smaller(Page, Larger(0, Height[t] - h + 1)) |->
     CHOOSE b \in Line[t] : Height[b] = h + i - 1]

(* The pages a helper may answer to a request from height h. The client takes
   whatever list comes back: lower or higher than h, with gaps, of any length. *)
Answers(h) ==
  IF Honest
    THEN {PageOf(t, h) : t \in Heaviest}
    ELSE {p \in Lies : \A i \in DOMAIN p : p[i] \in public}

(* getBlocksBatch of bootstrap: a full page of one helper may be followed by
   the next one of another helper, which need not be of the same branch. Only the
   height of the first block of each is compared with the request, and an answer
   that starts elsewhere is asked for again and then taken as it is. *)
Batches(h) ==
  Answers(h) \union
    {p \o q : p \in {a \in Answers(h) : a # <<>> /\ Len(a) >= Page /\ Height[a[1]] = h},
              q \in {a \in Answers(h + Page) : a # <<>> /\ Height[a[1]] = h + Page}}

Publish(b) ==
  /\ b \notin public /\ Parent[b] \in public
  /\ public' = public \union {b}
  /\ UNCHANGED <<chainVars, pc, callVars, outcome, anchor, peak>>

-----------------------------------------------------------------------------
(* Leaving a call: bootstrap's callers learn nothing, catchUp's learn whether
   the chain changed, or that the call threw. *)
Return(result) ==
  /\ pc' = "idle"
  /\ outcome' = result
  /\ claim' = Genesis /\ overlap' = 0 /\ page' = <<>> /\ short' = FALSE
  /\ connected' = FALSE /\ before' = Genesis
  /\ entryTip' = IF result = "unchanged" THEN entryTip ELSE Genesis

(* Mutant: only a higher tip counts as a change. *)
HigherSinceEntry ==
  IF Height[tip] > Height[entryTip] THEN "changed" ELSE "unchanged"

(* changedSinceEntry() compares tip hashes. *)
ChangedSinceEntry == IF tip # entryTip THEN "changed" ELSE "unchanged"

(* bootstrap ends: on its own, or as catchUp's recovery from a height that
   fell (`await this.bootstrap(...); return true`). *)
Bootstrapped == Return(IF claim = Genesis THEN "synced" ELSE "changed")

(* catchUp({height, tipHash}): the tip poller calls it only for a claim that
   differs from the local tip. A claim already held ends it at once. *)
CatchUp(c) ==
  /\ pc = "idle" /\ ~restoring /\ c # tip
  /\ c \in IF Honest THEN Heaviest ELSE public
  /\ entryTip' = tip
  /\ IF c \in stored
       THEN /\ outcome' = "unchanged"
            /\ UNCHANGED <<pc, claim, overlap>>
       ELSE /\ pc' = "fetch" /\ claim' = c /\ overlap' = CatchupOverlap
            /\ outcome' = "running"
  /\ UNCHANGED <<chainVars, public, page, short, connected, before, anchor, peak>>

(* bootstrap() at a cold or warm start. *)
Bootstrap ==
  /\ pc = "idle" /\ ~restoring
  /\ pc' = "bootFetch" /\ entryTip' = tip /\ outcome' = "running"
  /\ UNCHANGED <<chainVars, public, claim, overlap, page, short, connected,
                 before, anchor, peak>>

(* The height a request is for when the tip is t: below both tips in catchUp,
   right above the local one in bootstrap. *)
FromOn(t) == IF pc = "fetch" \/ pc = "apply"
               THEN Larger(1, Smaller(Height[t], Height[claim]) - overlap)
               ELSE Height[t] + 1

(* Mutant: a shorter remote tip is looked for above its own height. *)
FromLocal == IF pc = "fetch" \/ pc = "apply" THEN Larger(1, Height[tip] - overlap)
                                            ELSE Height[tip] + 1

(* `from` of the next request. *)
From == FromOn(tip)

(* A request is answered. An empty page ends the call. *)
Answer ==
  /\ pc \in {"fetch", "bootFetch"}
  /\ \E p \in IF pc = "fetch" THEN Answers(From) ELSE Batches(From) :
       IF p = <<>>
         THEN IF pc = "fetch" THEN Return(ChangedSinceEntry) ELSE Bootstrapped
         ELSE /\ page' = p /\ short' = (Len(p) < Page) /\ before' = tip
              /\ connected' = (Height[p[1]] = From /\ Parent[p[1]] \in stored)
              /\ pc' = IF pc = "fetch" THEN "apply" ELSE "bootApply"
              /\ UNCHANGED <<claim, overlap, entryTip, outcome>>
  /\ UNCHANGED <<chainVars, public, anchor, peak>>

(* Every helper failed, or the verifier pool rejected the page. The verdicts
   are complete before the first block is added, so nothing of it was. *)
Throw ==
  /\ pc \in {"fetch", "bootFetch"}
  /\ Return("failed")
  /\ UNCHANGED <<chainVars, public, anchor, peak>>
-----------------------------------------------------------------------------
(* applyBatch: the blocks of the page are added one by one. *)

(* addBlockWithPow returns an error string and leaves the chain alone. *)
Refused(b) ==
  \/ ~PassesHeaderChecks(b)
  \/ Parent[b] \in materialised /\ Flaw[b] # "none"

AddNext ==
  /\ pc \in {"apply", "bootApply"} /\ page # <<>>
  /\ \E b \in Blocks :
       /\ b = Head(page)
       /\ \/ AcceptBlock(b) /\ UNCHANGED <<anchor, peak>>
          \/ HitPrunedParent(b) /\ anchor' = 0 /\ peak' = 0
          \/ Refused(b) /\ UNCHANGED <<chainVars, anchor, peak>>
  /\ page' = Tail(page)
  /\ UNCHANGED <<public, pc, claim, overlap, short, connected, before,
                 entryTip, outcome>>

(* Mutant: the window is measured down from the claimed tip. *)
PruneBelowClaim ==
  /\ page = <<>>
  /\ materialised' = Unburied(claim, materialised)
  /\ peak' = Larger(peak, Height[tip])
  /\ UNCHANGED <<stored, work, tip, restoring, public, anchor>>

(* The page is used up: states below the retained window go. *)
PruneAfterPage ==
  /\ page = <<>>
  /\ StripBuried
  /\ peak' = Larger(peak, Height[tip])
  /\ UNCHANGED <<stored, work, tip, restoring, public, anchor>>

(* Mutant: a reset is not followed by a replay. *)
EndCatchUpPageAnyway ==
  /\ pc = "apply" /\ PruneAfterPage
  /\ Return(ChangedSinceEntry)

(* catchUp decides, in the order of its tests: the chain fell (a reset, or a
   heavier but shorter branch), the tip moved, the page connected but did not
   outweigh us, the fork is too deep, or a deeper page is worth a try. *)
EndCatchUpPage ==
  /\ pc = "apply" /\ PruneAfterPage
  /\ IF Height[tip] < Height[before]
       THEN /\ pc' = "bootFetch"
            /\ UNCHANGED <<callVars, outcome>>
     ELSE IF tip # before \/ connected
       THEN Return(ChangedSinceEntry)
     ELSE IF From = 1 \/ overlap >= MaxOverlap
       THEN Return("failed")
     ELSE /\ overlap' = Smaller(overlap * WidenFactor, MaxOverlap)
          /\ pc' = "fetch"
          /\ UNCHANGED <<claim, page, short, connected, before, entryTip, outcome>>

(* bootstrap goes on while full pages advance the chain. *)
EndBootstrapPage ==
  /\ pc = "bootApply" /\ PruneAfterPage
  /\ IF Height[tip] = Height[before] \/ short
       THEN Bootstrapped
       ELSE pc' = "bootFetch" /\ UNCHANGED <<callVars, outcome>>

(* restoreSnapshot runs before the first call, in one go; an unconfirmed
   snapshot is dropped again before any page is applied. *)
Restore ==
  /\ \/ \E b \in public : SeedPrefix(b) /\ UNCHANGED <<anchor, peak>>
     \/ \E b \in public : SeedAnchor(b) /\ anchor' = Height[b] /\ peak' = Height[b]
     \/ DiscardRestore /\ UNCHANGED <<anchor, peak>>
  /\ UNCHANGED <<public, pc, callVars, outcome>>

-----------------------------------------------------------------------------
SyncInit ==
  /\ Init
  /\ public = Published
  /\ pc = "idle" /\ outcome = "none" /\ entryTip = Genesis
  /\ claim = Genesis /\ overlap = 0 /\ page = <<>> /\ short = FALSE
  /\ connected = FALSE /\ before = Genesis
  /\ anchor = 0 /\ peak = 0

Call ==
  \/ \E c \in Blocks : CatchUp(c)
  \/ Answer
  \/ AddNext
  \/ EndCatchUpPage
  \/ EndBootstrapPage

SyncNext ==
  \/ Call
  \/ Bootstrap
  \/ Throw
  \/ Restore
  \/ \E b \in Blocks : Publish(b)

SyncSpec == SyncInit /\ [][SyncNext]_vars

(* The tip poller's timer keeps calling while the tips differ, a request made
   again and again for the same depth is answered eventually although it may
   fail any number of times before, and the rest is the event loop running on.
   Nobody has to publish or restart. *)
Fairness ==
  /\ SF_vars(\E c \in Blocks : CatchUp(c))
  /\ \A k \in 1 .. MaxOverlap : SF_vars(Answer /\ pc = "fetch" /\ overlap = k)
  /\ SF_vars(Answer /\ pc = "bootFetch")
  /\ WF_vars(AddNext) /\ WF_vars(EndCatchUpPage) /\ WF_vars(EndBootstrapPage)
  /\ WF_vars(Restore)

FairSyncSpec == SyncSpec /\ Fairness

-----------------------------------------------------------------------------
SyncTypeOK ==
  /\ TypeOK
  /\ public \subseteq Blocks
  /\ pc \in {"idle", "fetch", "apply", "bootFetch", "bootApply"}
  /\ {claim, before, entryTip} \subseteq Blocks
  /\ overlap \in 0 .. MaxOverlap
  /\ page \in Seq(Blocks)
  /\ {short, connected} \subseteq BOOLEAN
  /\ outcome \in {"none", "running", "unchanged", "changed", "failed", "synced"}
  /\ anchor \in Nat /\ peak \in Nat

(* bootstrap and catchUp, with all their awaits, change the chain only in the
   ways the block tree allows: what holds of it whatever is called in whatever
   order holds during a sync too. *)
ImplementsBlockTree == Spec

(* catchUp answers false only if the chain is the one the caller left: the
   miner keeps its grind running on that answer, so a false after a change
   would grind a stale template. *)
FalseMeansUnchanged == outcome = "unchanged" => tip = entryTip

(* Pruning and the catch-up reach fit together ("guaranteed height-deficit
   tolerance is STATE_RETAIN - (CATCHUP_MAX_OVERLAP + 1)"): a block of a catchUp
   page that is as high as the page was asked for drops the chain only for a fork
   below a restored anchor, or when the tip being chased lies further than the
   tolerance under the highest tip pruned at. In a page of bootstrap, asked for
   above the tip, that tip must be further under the highest one than the whole
   window. It is a guarantee for those who answer what they were asked: nothing
   refuses a lower block, and one on a stripped parent drops the chain at once. *)
ResetOnlyBeyondTolerance ==
  [][(/\ pc \in {"apply", "bootApply"} /\ stored' # stored /\ stored' = {Genesis}
      /\ Height[Head(page)] >= FromOn(before))
       => \/ Height[Parent[Head(page)]] < anchor
          \/ pc = "apply" /\ peak - Smaller(Height[before], Height[claim])
                               > Retain - (MaxOverlap + 1)
          \/ pc = "bootApply" /\ peak - Height[before] > Retain]_vars

(* The state saveSnapshot needs, at the finality depth below the tip, is never
   pruned away ("go under it and saveSnapshot silently skips"), unless reorgs
   onto shorter branches used up the margin or the anchor is that recent. *)
SnapshotReadable ==
  LET h == Height[tip] - SnapshotDepth
  IN (~restoring /\ h > 0 /\ h >= anchor /\ peak - Height[tip] <= Retain - SnapshotDepth)
       => \A b \in Canonical : Height[b] = h => b \in materialised

(* A chain dropped to genesis while catchUp runs is replayed from the helper
   before the call returns a result, lest the caller mine from genesis on a
   reported success. One thing undoes the replay: a page of it that had begun
   above genesis and dropped the chain once more. *)
NoSuccessAtGenesis ==
  [][(outcome = "running" /\ claim # Genesis /\ outcome' \in {"changed", "unchanged"})
       => \/ tip # Genesis \/ entryTip = Genesis
          \/ pc = "bootApply" /\ before # Genesis]_vars

(* Once the network stops publishing, honest helpers bring the chain onto a
   heaviest branch, through forks, short pages and failed requests. *)
EventuallySynced == <>[](work[tip] >= PathWork[CHOOSE b \in Heaviest : TRUE])
=============================================================================
