------------------------------ MODULE ColdStart ------------------------------
(***************************************************************************)
(* The life of a session up to mining, and of what outlives it: runMiner     *)
(* until its coordinator starts (src/src/minerd/miner.ts), negotiatedColdStart *)
(* and its wiring (negotiatedClient.ts), the snapshot file (persistence.ts)  *)
(* and the launcher's session loop (start.ts), over the rotating helpers and *)
(* the verifier threads.                                                    *)
(*                                                                         *)
(* A chain is the height its restored prefix ends at, its height, and        *)
(* whether every block of it is the network's and carries its work. A file   *)
(* is the anchor it holds, whether that is the network's, and whether it     *)
(* parses, links and hashes. The look-ahead request of a page is a request    *)
(* made later; a requested page is up to PageSize blocks of each helper.     *)
(***************************************************************************)
EXTENDS HelperPool, VerifierPool

CONSTANTS
  NetTip,      \* the height of the network, while the miner starts
  Depth,       \* SNAPSHOT_DEPTH
  PageSize,    \* PAGE
  BlockRounds  \* blocksRounds

ASSUME ColdStartAssumption ==
  /\ NetTip \in Nat /\ Depth \in Nat \ {0}
  /\ PageSize \in Nat \ {0} /\ BlockRounds \in Nat \ {0}

Genesis == [seed |-> 0, height |-> 0, honest |-> TRUE]

NoFile == [anchor |-> 0, honest |-> FALSE, intact |-> FALSE]
Broken == [anchor |-> 1, honest |-> FALSE, intact |-> FALSE]
Files == [anchor : 1 .. NetTip - Depth, honest : BOOLEAN, intact : {TRUE}]

NoHandle == [seed |-> 0, height |-> 0, honest |-> FALSE]

VARIABLES
  phase,    \* where the session is; "menu" between sessions
  sess,     \* what its handlers close over
  chain,    \* its chain
  handle,   \* the launcher's warm handle, kept only if synced
  file,     \* the snapshot file
  helper    \* its helper pool

coldVars == <<phase, sess, chain, handle, file, helper>>
vars == <<coldVars, verifierVars>>

Starting == {"restore", "confirm", "tip", "fetch", "verify", "gate"}

NewSession(mode, isWarm) ==
  [mode |-> mode, isWarm |-> isWarm, warmStart |-> FALSE, invalidated |-> FALSE,
   aborted |-> FALSE, replay |-> FALSE, source |-> FALSE, rounds |-> 0, page |-> <<>>]

Solo == sess.mode = "solo"

-----------------------------------------------------------------------------
(* The ends of a session, and the launcher. *)

Leaves(nextWarm) ==
  /\ phase' = "menu" /\ sess' = NewSession("solo", FALSE) /\ chain' = Genesis
  /\ helper' = NewHelperPool
  /\ handle' = nextWarm

(* `synced: false`; the other modes pass the handle through. *)
NotSynced == Leaves(IF Solo THEN NoHandle ELSE handle)

(* A throw out of runMiner makes the launcher drop the handle; a negotiated
   session reports its own. *)
Throws == NotSynced

(* The verifier goes when the phase that uses it ends. *)
Disposed == pool' = "closed" /\ routes' = {} /\ jobs' = Fresh /\ call' = None
            /\ reply' = None /\ idSeq' = 1

(* A solo session reuses a synced chain and only catches it up; a session of
   another mode asks one helper for the tip before it restores. *)
StartWarm ==
  /\ phase = "menu" /\ handle # NoHandle
  /\ phase' = "fetch" /\ sess' = NewSession("solo", TRUE) /\ chain' = handle
  /\ UNCHANGED <<handle, file, helper, verifierVars>>

StartCold(mode) ==
  /\ phase = "menu" /\ (mode = "solo" => handle = NoHandle)
  /\ phase' = "restore" /\ sess' = NewSession(mode, FALSE)
  /\ \E up \in SUBSET Helpers :
       helper' = IF mode = "solo" THEN helper ELSE AfterRound(helper, up, FALSE)
  /\ NewVerifier
  /\ UNCHANGED <<chain, handle, file>>

(* The process is killed. The file was renamed into its place or was not. *)
Crash ==
  /\ Leaves(NoHandle) /\ Disposed /\ UNCHANGED file

(* The user leaves for the menu. A solo session terminates its verifier at once;
   the others look at the signal between their steps. *)
Abort ==
  /\ phase \in Starting /\ ~sess.aborted
  /\ sess' = [sess EXCEPT !.aborted = TRUE]
  /\ IF Solo /\ pool = "open" THEN Terminate ELSE UNCHANGED verifierVars
  /\ UNCHANGED <<phase, chain, handle, file, helper>>

-----------------------------------------------------------------------------
(* Restore and confirm. *)

FirstFetch == IF Solo THEN "tip" ELSE "fetch"

(* restoreSnapshot: a file that is not whole is deleted. *)
Restore ==
  /\ phase = "restore"
  /\ IF file = NoFile \/ ~file.intact
       THEN /\ file' = NoFile /\ phase' = FirstFetch
            /\ UNCHANGED <<sess, chain, handle, helper, verifierVars>>
       ELSE IF sess.aborted THEN NotSynced /\ Disposed /\ UNCHANGED file
       ELSE /\ chain' = [seed |-> file.anchor, height |-> file.anchor,
                         honest |-> file.honest]
            /\ sess' = [sess EXCEPT !.warmStart = TRUE]
            /\ phase' = "confirm"
            /\ UNCHANGED <<handle, file, helper, verifierVars>>

(* What the helper that serves has at the height of the anchor: its block, or
   for a helper that lags no block or one of a lower height. *)
Served == {"block", "behind"}

(* Mutant: whatever differs from the anchor proves a forgery. *)
ClassifyHastily(up, answer) ==
  IF up = {} THEN "indeterminate"
  ELSE IF answer = "behind" \/ ~chain.honest THEN "forged" ELSE "ok"

(* confirmRestoredSnapshot: only the block of that height proves anything. *)
Classify(up, answer) ==
  IF up = {} \/ answer = "behind" THEN "indeterminate"
  ELSE IF chain.honest THEN "ok" ELSE "forged"

KeptChain(verdict) == IF verdict = "ok" THEN chain ELSE Genesis

Confirm ==
  /\ phase = "confirm"
  /\ \E up \in SUBSET Helpers, answer \in Served :
       LET verdict == Classify(up, answer) IN
       /\ file' = IF verdict = "forged" THEN NoFile ELSE file
       /\ IF ~Solo /\ sess.aborted
            THEN NotSynced /\ Disposed
            ELSE /\ chain' = KeptChain(verdict)
                 /\ sess' = [sess EXCEPT !.warmStart = (verdict = "ok")]
                 /\ helper' = IF sess.aborted /\ up = {} THEN helper
                              ELSE AfterRound(helper, up, FALSE)
                 /\ phase' = FirstFetch
                 /\ UNCHANGED <<handle, verifierVars>>

-----------------------------------------------------------------------------
(* The bootstrap. *)

(* Every helper is asked; without an answer there is no claimant to chase, and
   a replay keeps the one it has. *)
Tip ==
  /\ phase = "tip"
  /\ \E tips \in [Helpers -> {Down} \union Claims] :
       /\ helper' = AfterTips(helper, tips)
       /\ sess' = [sess EXCEPT !.source = @ \/ BestClaim(tips) # Down]
  /\ phase' = "fetch"
  /\ UNCHANGED <<chain, handle, file, verifierVars>>

(* getBlocksBatch in a solo session, getBlocks in the others. *)
Longest == IF Solo THEN PageSize * HelperCount ELSE PageSize

(* Blocks from the next height up; at most one of them has no work. *)
Pages ==
  UNION {{p \in [1 .. n -> {"good", "bad"}] : Cardinality({i \in 1 .. n : p[i] = "bad"}) <= 1} :
         n \in 0 .. Least(Longest, NetTip - chain.height)}

(* A parallel batch leaves no mark, its fallback a round. *)
Fetch ==
  /\ phase = "fetch" /\ (Solo \/ ~sess.aborted)
  /\ \E up \in SUBSET Helpers \ {{}} :
       helper' \in {AfterRound(helper, up, sess.source)} \union IF Solo THEN {helper} ELSE {}
  /\ \E page \in Pages :
       /\ IF page = <<>>
            THEN phase' = "gate" /\ UNCHANGED verifierVars
            ELSE phase' = "verify" /\ Verify(page)
       /\ sess' = [sess EXCEPT !.rounds = 0, !.page = page]
  /\ UNCHANGED <<chain, handle, file>>

(* Every helper failed, or the request was aborted. *)
FetchFails ==
  /\ phase = "fetch"
  /\ IF sess.rounds + 1 = BlockRounds \/ (sess.aborted /\ ~Solo)
       THEN Throws /\ Disposed
       ELSE /\ helper' = AfterRound(helper, {}, sess.source)
            /\ sess' = [sess EXCEPT !.rounds = @ + 1]
            /\ UNCHANGED <<phase, chain, handle, verifierVars>>
  /\ UNCHANGED file

(* Blocks go in up to the first that is refused. *)
Accepted(verdicts) ==
  IF ~chain.honest THEN 0
  ELSE Max({n \in 0 .. Len(verdicts) : \A i \in 1 .. n : verdicts[i] = "good"})

Extended(page, n) ==
  [chain EXCEPT !.height = @ + n, !.honest = @ /\ \A i \in 1 .. n : page[i] = "good"]

(* A full page that moved the chain has a successor. *)
GoesOn(page, height) ==
  IF Len(page) >= PageSize /\ height # chain.height THEN "fetch" ELSE "gate"

(* applyBatch and the end of the page. *)
Apply(page) ==
  LET next == Extended(page, Accepted(reply)) IN
  /\ chain' = next /\ phase' = GoesOn(page, next.height)
  /\ sess' = [sess EXCEPT !.page = <<>>]
  /\ UNCHANGED file

(* A block of the page takes the chain below its restored prefix: the listener
   deletes the file and resets the chain, which refuses the rest of the page. *)
ApplyInvalidated(page) ==
  /\ chain.seed > 0
  /\ chain' = Genesis /\ file' = NoFile /\ phase' = GoesOn(page, 0)
  /\ sess' = [sess EXCEPT !.page = <<>>, !.invalidated = TRUE]

Applies ==
  /\ phase = "verify" /\ reply # None /\ reply # Rejected
  /\ Apply(sess.page) \/ ApplyInvalidated(sess.page)
  /\ reply' = None
  /\ UNCHANGED <<handle, helper, pool, idSeq, routes, jobs, call>>

VerifyFails ==
  /\ phase = "verify" /\ reply = Rejected
  /\ Throws /\ Disposed /\ UNCHANGED file

-----------------------------------------------------------------------------
(* The gate after the bootstrap, and mining. *)

Gated == ~sess.isWarm /\ ~sess.replay /\ ~sess.aborted
           /\ (sess.warmStart \/ sess.invalidated)

SnapshotOf(c) ==
  IF c.height - Depth >= 1 /\ c.height - Depth >= c.seed
    THEN [anchor |-> c.height - Depth, honest |-> c.honest, intact |-> TRUE]
    ELSE NoFile

(* saveSnapshot: nothing is written of a chain without a finalized anchor. *)
Save(c) == file' = IF SnapshotOf(c) = NoFile THEN file ELSE SnapshotOf(c)

(* The signal is looked at once more, then the chain counts as confirmed. *)
EnterMining ==
  /\ phase = "gate"
  /\ IF sess.aborted THEN NotSynced /\ UNCHANGED file
     ELSE /\ phase' = "mining" /\ Save(chain)
          /\ UNCHANGED <<sess, chain, handle, helper>>
  /\ Disposed

(* The gate is passed or there was none. *)
PassGate == EnterMining /\ ~(Gated /\ sess.invalidated)

(* The chain was invalidated or builds a wrong template: a full replay, on a
   verifier of its own in a solo session. *)
FailGate ==
  /\ phase = "gate" /\ Gated
  /\ file' = NoFile /\ chain' = Genesis
  /\ sess' = [sess EXCEPT !.invalidated = FALSE, !.replay = TRUE]
  /\ phase' = FirstFetch
  /\ IF Solo THEN Disposed ELSE UNCHANGED verifierVars
  /\ UNCHANGED <<handle, helper>>

(* A tip poll of a solo session. *)
Poll ==
  /\ phase = "mining" /\ Solo
  /\ \E tips \in [Helpers -> {Down} \union Claims] : helper' = AfterTips(helper, tips)
  /\ UNCHANGED <<phase, sess, chain, handle, file, verifierVars>>

(* A chase of the tip the pool announced, that ran and returned; a round of it
   that every helper failed. *)
Chase(up, stalled) ==
  IF helper.primary \in up THEN AfterChase(Answered(helper), stalled)
  ELSE AfterChase(Failed(helper), stalled)

PoolTip ==
  /\ phase = "mining" /\ ~Solo
  /\ \/ \E up \in SUBSET Helpers \ {{}}, stalled \in BOOLEAN : helper' = Chase(up, stalled)
     \/ helper' = Failed(helper)
  /\ UNCHANGED <<phase, sess, chain, handle, file, verifierVars>>

(* A catch-up, and the save of the next hashrate tick. *)
Advance ==
  /\ phase = "mining" /\ chain.height < NetTip
  /\ chain' = Extended(<<"good">>, 1)
  /\ file' = file \/ Save(chain')
  /\ UNCHANGED <<phase, sess, handle, helper, verifierVars>>

(* A reorg below the restored prefix: the replay ends where it ends. *)
Invalidate ==
  /\ phase = "mining" /\ chain.seed > 0
  /\ \E h \in 0 .. NetTip : chain' = [Genesis EXCEPT !.height = h]
  /\ file' = NoFile
  /\ UNCHANGED <<phase, sess, handle, helper, verifierVars>>

(* done and the teardown: the parting save. *)
Stop ==
  /\ phase = "mining"
  /\ Save(chain) /\ Leaves(IF Solo THEN chain ELSE handle)
  /\ UNCHANGED verifierVars

-----------------------------------------------------------------------------
Init ==
  /\ phase = "menu" /\ sess = NewSession("solo", FALSE) /\ chain = Genesis
  /\ handle = NoHandle /\ file \in {NoFile, Broken} \union Files /\ helper = NewHelperPool
  /\ pool = "closed" /\ idSeq = 1 /\ routes = {} /\ jobs = Fresh
  /\ call = None /\ reply = None

Bootstrap == Tip \/ Fetch \/ FetchFails \/ Applies \/ VerifyFails

SessionStep == Restore \/ Confirm \/ Bootstrap \/ PassGate \/ FailGate

Verifying == phase = "verify" /\ VerifierStep /\ UNCHANGED coldVars

Mining == Poll \/ PoolTip \/ Advance \/ Invalidate \/ Stop

Next ==
  \/ StartWarm \/ \E mode \in {"solo", "negotiated"} : StartCold(mode)
  \/ SessionStep \/ Verifying \/ Mining \/ Abort \/ Crash

(* A request is answered or times out, and so does a verification; nobody has to
   start, stop or mine. *)
Spec ==
  /\ Init /\ [][Next]_vars
  /\ WF_vars(SessionStep) /\ WF_vars(phase = "verify" /\ Timeout /\ UNCHANGED coldVars)

-----------------------------------------------------------------------------
(* No chain is mined on, saved or handed to the next session that holds a block
   of a forged snapshot or one without its work, whatever was on the disk, what
   helpers served, and when the user left or the process was killed. *)
ChainTrusted ==
  /\ phase \in {"fetch", "verify", "gate", "mining"} => chain.honest
  /\ handle # NoHandle => handle.honest

(* The saved chain of the network outlives outages, lagging helpers, aborts and
   crashes: it is given up only for a chain that was invalidated or built a
   wrong template. *)
OutagesKeepFile ==
  [][ (file.intact /\ file.honest /\ file' = NoFile) =>
        (phase = "gate" /\ sess'.replay) \/ (chain.seed > 0 /\ chain'.seed = 0
           /\ phase \in {"verify", "mining"} /\ phase' # "menu") ]_vars

(* A start ends in mining or in the menu: no helper and no verifier thread, dead
   or silent, holds it up for ever. *)
StartEnds == phase \in Starting ~> phase \in {"menu", "mining"}

(* A primary that fails or trails, in any mixture, loses the role in so many
   rounds; a round it serves in a start, a poll it is level in and a chase that
   got somewhere end the count. *)
BadPrimaryEvicted == HelperCount > 1 => helper.ill < RotateThreshold * StaleRounds
=============================================================================
