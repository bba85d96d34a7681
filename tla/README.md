# Fulgar in TLA+

A formal model of [fulgar](../src/README.md), a proof-of-work miner written in
TypeScript. It mines solo, on a chain of its own that it keeps in step with the
network through HTTP "helpers", or for a pool. The modules here model the parts
whose correctness depends on order, failure and concurrency. TLC checks them on
small instances; TLAPS proves the theorems for every value of the constants.

Run, in this directory:

    tlc -workers 2 -config MCBlockchain.cfg MCBlockchain.tla
    tlapm ChainSyncProofs.tla

## 1. The system

Paths below are relative to `src/src/`.

| Component | State it keeps | Operations | What makes it hard | What makes it correct |
|---|---|---|---|---|
| Block tree (`chain/blockchain.ts`) | all valid blocks by hash, cumulative work, post-state or null, tip | addBlock(WithPow), reset, pruneStateBelow, seedHistoricalBlock | states come and go (prune, restore, reset from inside a listener); PoW check awaits in the middle of addBlock | tree linked, tip heaviest and extendable, states freed |
| Ledger (`chain/state.ts`, `transaction.ts`, `script.ts`) | accounts, locks, state root | applyTx, applyBlockTxs, evalScript | all-or-nothing application, fees, scripts that guard locks | conservation, no trace of a refused block, locks spent as their scripts say |
| Templates (`minerd/template.ts`, part of `negotiatedClient.ts`) | none | buildTemplate, buildNegotiatedTemplate, decodeMempool | a foreign mempool applied on trial | what is ground passes the node's own validation |
| Consensus (`chain/consensus.ts`, `genesis.ts`) | none | difficulty, median time past, work | 256-bit arithmetic, fork heights | branch structure, bounds |
| Chain sync (`minerd/sync.ts`) | none between calls | bootstrap, catchUp, applyBatch | pages await the network; forks deeper than the overlap; resets in mid-page | truthful answer, no reset within tolerance, convergence |
| Helper pool (`minerd/helperPool.ts`, `http.ts`) | primary, streaks, registry | getBestTip, getBlocks, getBlocksBatch, broadcast | failover, streaks | a primary that is bad loses the role |
| Snapshots (`minerd/persistence.ts`) | a file | saveSnapshot, restoreSnapshot, integrity gate | damaged file, restart at any time | a bad file leaves genesis; a good one is confirmed |
| Solo coordinator (`minerd/miner.ts`) | current template, busy flag, queued solve, retry timer | rebuild, onSolved, onExhausted, tipAdvanced, dispose | callbacks and timers while an op awaits | grinds on the tip, never stuck, nothing after dispose |
| Solo submit (`minerd/submitSolo.ts`) | attempt count | broadcast rounds, then addBlock | lost or ambiguous answers | broadcast first; an adopted block is the tip |
| WASM grind pool (`minerd/grindPool.ts`, `powWorker.ts`) | generation, counters, a slot per thread | start, stop, respawn, terminate, reports, exits, respawn timers | messages of threads that crash, in any order | one solve per template, no stale grind, generations complete |
| Native grind pool, CUDA grind pool (`minerd/nativeGrindPool.ts`, `cudaGrindPool.ts`) | the same over child processes | the same | exit may overtake the last output line | the same |
| Pool client (`minerd/poolClient.ts`, `watchdog.ts`) | job, in-flight shares, backlog, epoch | poll, submit, re-register, watchdog | late verdicts, slow pool, wakes | no share lost or sent twice within the caps, no wake lost |
| Negotiated client (`minerd/negotiatedClient.ts`) | registrations, template, connection generation | cold start, register, results, reconnect | results late or out of order, catch-ups that outlive their connection | grinds on the announced tip, a registration always pending |
| Verifier pool (`minerd/verify.ts`) | worker threads, pending calls | verify, terminate | a worker dies with work in hand | every call settles once |
| Smart controller (`minerd/smartController.ts`, `demand.ts`) | duty, holds | tick | dwell and hold times | no oscillation |
| Reporter (`minerd/reporter.ts`), dashboard | earnings, screen | events | reorgs, resets and replays | earnings match the chain |
| Session loop (`minerd/start.ts`) | one session at a time, the warm chain | start, abort, restart | teardown does not wait for ops in flight | the next session owns the chain |
| Configuration, PoW, codecs, native binaries | - | pure or one-shot | - | out of scope, see section 7 |

How they interact. A session restores a snapshot into the block tree, confirms
it with a helper, bootstraps (`ChainSync.bootstrap`) and gives a template on
the tip to the grind pool. From there three sources of events meet in the
coordinator: the pool's callbacks (solved, exhausted), the tip poller (every
few seconds, through the helper pool) and the retry timer of a failed rebuild.
A flag `busy` gives the chain to one of them across its awaits. `tipAdvanced`
runs a catch-up (which prunes states and may reset the tree through the
snapshot-invalidated listener); `onSolved` stops the pool, broadcasts the block
and adopts it locally with `addBlock`. An abort disposes of the coordinator and
hands the chain, warm, to the next session of the process.

Everything in the main process is one JavaScript thread, so an action of the
models is what runs between two awaits, or one message of a worker thread.

## 2. Modules

| Module | Models | Uses |
|---|---|---|
| `Blockchain` | the block tree | - |
| `ChainSync` | bootstrap, catchUp and applyBatch over the tree, with the network and the restore | `Blockchain` |
| `MinerCoordinator` | coordinator, tip poller, solo submit, teardown and warm restart | `Blockchain` |
| `GrindPool` | WASM grind pool with its threads | - |
| `GrindService` | what a caller of a grind pool may rely on | - |
| `ProcessPool` | the ranges and limits the two pools of processes share | - |
| `NativeGrindPool` | grind pool of native processes | `ProcessPool`, `GrindService` (refined) |
| `CudaGrindPool` | grind pool of GPU processes, as solo mining uses it | `ProcessPool`, `GrindService` (refined) |
| `EnginePool` | the engine a session takes | both pools |
| `GrindWatchdog` | the decision of the grind watchdog both pool clients run | - |
| `PoolClient` | classic pool client: share dispatcher, submissions, poll loop, re-registration | `GrindWatchdog` |
| `NegotiatedClient` | live session of the negotiated client | `GrindWatchdog` |
| `PoolMode` | pool mode as it starts: the pool's answer picks one of the two clients | both clients |
| `HelperPool` | the role of the primary helper and its two streaks | - |
| `VerifierPool` | the PoW verifier threads and one verify call on them | - |
| `ColdStart` | a session up to mining, the snapshot file, the session loop, crashes | `HelperPool`, `VerifierPool` |
| `Script` | the script interpreter | - |
| `Ledger` | balances and locks over the block tree, templates, solo earnings | `Script` |
| `BlockchainProofs`, `ChainSyncProofs`, `CoordinatorProofs`, `GrindPoolProofs`, `EnginePoolProofs`, `PoolModeProofs`, `ColdStartProofs`, `LedgerProofs` | theorems | the module named; `CoordinatorProofs` and `ChainSyncProofs` also `BlockchainProofs` |
| `MC*` | the instances TLC checks | the module named |

**Blockchain.** A block is its hash; what its header and body say is constant:
`Parent`, the claimed `Height`, `BlockWork`, and `Flaw`, the first rule it
breaks. `stored` is the map `blocks`, `materialised` the entries whose state is
not null. `AcceptBlock`, `HitPrunedParent` and `ChainSync!Refused` are the three
ends of `addBlockInternal`; `Reset`, `PruneStates`, `SeedPrefix`, `SeedAnchor`,
`DiscardRestore` the other mutators and the way `restoreSnapshot` uses them. The
future-timestamp rule depends on the wall clock; it is folded into `Flaw`, so a
block does not become valid with time. `addValidatedBlock` has no caller.

**ChainSync.** `pc` says where the running call is suspended; the call's locals
are variables. A request is `Answer` or `Throw`; blocks of a page are added one
by one (`AddNext`), then the end-of-page decision (`EndCatchUpPage`,
`EndBootstrapPage`) takes the branches of the code in their order, prune
included. The depth of the request widens as in the code. If `Honest` is false,
a helper may claim any published tip and answer any request with any page of
`Lies` whose blocks are published: empty, higher or lower than asked, with gaps, of
two branches, longer than `Page`. Nothing in the code refuses such a page; only
`getBlocksBatch` compares the height of its first block with the request, and then
asks again without comparing. The look-ahead
request of bootstrap is merged with the request that uses it: it is only used
when it asked for the height the chain did reach.

**MinerCoordinator.** A session is a record: `pc` is `idle` when `busy` is
false, else the op in flight; `current` and `grind` are the template and what
became of the grind; `pending` the queued solve; `retry` the timer; `send`,
`tries`, `parentWork` the submit in flight; `polling` the tip poller's own flag.
The synchronous parts of the handlers (`Rebuilt`, `Drained`, `SyncEnded`,
`SubmitEnded`) are functions from the record to the records they may leave. A
catch-up is seen through what ChainSync promises: any chain operations
(`SyncStep`), then an answer, where `unchanged` implies an unchanged tip
(`FalseMeansUnchanged`, proved). `addBlock`'s await is a step of its own:
`Broadcast` ends where the PoW check begins, `Adopt` goes on with the parent's
work looked up before. `SessionCount` sessions share the chain one after the
other, and a disposed one still ends its op in flight. The first `rebuild` of a
session may throw and ends it; that path is left out.

**GrindPool.** `gen`, `solved`, `exhausted`, `down`, `active` are the pool's
fields; a slot has a crash record, an armed timer (`respawning`, the generation
the thread died in) and a thread with its inbox, its job and its reports under
way. Node delivers what a thread posted before its exit event, so `OnExit`
waits for `msgs` to be empty. `Start` is not called after `Terminate`: the
callers (`runMiner`'s teardown, the pool client's) drop the pool. Hash rate,
throttle and duty carry no control and are left out.

**NativeGrindPool.** The pool's fields as above; a process `<<i, 1>>` of range
`i` is in `children` while the pool listens to it, `up` while it runs, and has
unread `lines`. `OnlyFresh` is what start does to all processes at once: kill,
stop listening, spawn. `OnCrashClose` and `OnFinalClose` are the two outcomes of
`handleChildFailure`; they wait for the lines to be read because the code hears
readline's close and not the process's exit. Guards that can never be false are
left out where the state already says so: a child that is listened to is of the
current generation, because every change of generation kills the others.
`terminate` is `Stop` (its flag is cleared by the next start). `scanned`,
`ended`, `lost` and `outcome` are histories.

**CudaGrindPool.** One variable, `proc`, says what has become of each process,
its unread line and its `final` flag included: a solo process exits behind the
one line that counts. It differs from the native pool where the code does. A
solve leaves the template active, the respawn timer asks only whether there is
one, and `SpawnChild` looks for no previous process, so a process may come back
to a template that is solved. Nobody calls this pool's `respawn` (it would leave
armed timers behind) or asks it for shares, and neither is modelled. That a
killed process takes a moment to be gone is below the model. The names bear the
prefix cuda, because **EnginePool** has both pools and lets one of them run:
`runMiner` chooses the engine once, when a session starts. The pool clients know
the native engine only.

**PoolClient.** A job key is a job and a slot in it. `queue`, `inFlight` and
`submitted` are the dispatcher's; `posts` holds the runs of `runShareSubmit`,
each waiting for its POST or sleeping before the next. `Complete` is what
follows the end of a run, the guard against a late completion and the drain
included. `forcePlainPoll` and `longPoll` are the flag a wake leaves and the
kind of request under way. Delays, deadlines and pacing are time, so a wait may
end at any moment. Workers that boot slowly count as `stuck`. The pool never
returns to a job it has rolled past. `Stats`, the jackpot panel and hooks of
the smart controller are left out: they only report.

**NegotiatedClient.** A block is its height, so the chain holds the pool's tip
when it is at least as high; a template is what it is built on and a tag that
tells headers apart. `reg` has the registrations outstanding (the client's list),
those the pool still owes an answer (`owed`, not the program's), the counter
`inFlight`, which the answers lower however late they are, and the two timers.
`chases` are the catch-ups under way, each with the generation of the
connection it began on: closing a connection aborts its requests, but a page
that has arrived is still applied. A rejection names no template, so
`Unambiguous` decides whether it may be attributed. A catch-up that changes
nothing and falls short counts as a mishap, for the helper pool rotates away
from such a source. Sending shares (dedup of nonces, backpressure, variable
targets) changes nothing of this and is left out.

**PoolMode** has the two clients side by side, at most one of them started: a
pool that takes the registration gets the classic client, one that answers
"negotiated" the other, on whatever chain the cold start left.

**HelperPool, VerifierPool, ColdStart.** A helper pool is a record: the primary
and its streaks; each operator is what a finished round does to it. `ill` is a
history, the rounds on end in which the primary failed or trailed. A verifier's
message carries the id it was sent under, and `routes` maps ids to slots of the
call. ColdStart is a session over both: restore, confirm, bootstrap, the
integrity gate, mining and what the session leaves behind. A chain is the height
of its restored prefix, its height, and whether every block of it is the
network's; the gate's verdict on a warm chain is nondeterministic. Solo and
negotiated sessions differ as in the code: who looks at the abort signal and
when, whether a batch of helpers is asked, whether the verifier is built anew
for a replay. The parallel batch of `getBlocksBatch` leaves no mark on the
streaks, its sequential fallback does. The look-ahead request is merged with the
request that uses it.

**Script, Ledger.** A script is a sequence of instructions and `EvalScript`
folds `Step` over it: branches first, then the limit on operations, then the
stacks. Items are tagged numbers, keys, signatures and digests, which is what
the opcodes can tell apart. In the ledger a block is the sequence of bodies from
genesis, since a hash commits to all that; blocks weigh the same, the general
fork choice being `Blockchain`'s. `ApplyNext` is one turn of the loop of
`ApplyBlockTxs`, which stops at the first failure and returns the half-applied
state, as the code leaves it; `Kept` is the clone that protects the parent. The
state root is the state. A lock is keyed by the transaction that made it, whose
hash is the id in the code, so making it twice overwrites it (`WithLock`) as
`Map.set` does; that this never happens is part of a theorem. `Applicable` has all checks
before the first write, in the three kinds of transaction. `FindSolo` is a
confirmed solve: the coordinator is busy, so the tip is still the template's
parent and the reporter hears of the tip change before `found`. One session at a
time; what a second one may do is finding 2. `Offers` has at most one flaw
outside the transactions at a time.

The comment above `noteCatchUpRound` (`helperPool.ts`, lines 128 to 131) says
that a stale source is evicted "regardless" of who served the stalled round,
since either streak rotates. In negotiated mode a healthy chase clears the
staleness streak even when a fallback served it. `BadPrimaryEvicted` is stated
accordingly: what ends the count is a round the primary itself serves, a poll it
is level in, or a chase that got somewhere.

**GrindService** has one template or none, its ranges left to do and the final
callback. NativeGrindPool and CudaGrindPool implement it with `todo` being the
ranges neither scanned nor down. The WASM pool does not: finding 3.

## 3. Runs

| Run | Instance and bounds | Shows |
|---|---|---|
| `blockchain` | 14 blocks: main branch of 6, an equally heavy fork, a shorter heavier one, a wrong height, one block per refusal; `Retain` = 2. 156 states | tree sound (linked, tip heaviest and extendable), pruned states a prefix, tip moves only to heavier |
| `chain_sync` | 14 blocks (`DeepBlocks`), with a heavy branch so short that the window lies above it; `Page` 3, overlap 1 to 2, snapshot depth 3, `Retain` 4; helpers that answer with 35 pages (`MCLies`): parts of branches from every height, whole branches, gaps, two branches, whatever was asked. 2.5 million states | false means unchanged; a block as high as its page was asked for drops the chain only beyond the promised tolerance; the snapshot's state is never pruned |
| `chain_sync_live` | 13 blocks (`TieBlocks`), with an equally heavy sibling of the tip instead; `Page` 5, honest helpers that may fail any finite number of times. 72 thousand states | ends on a heaviest branch; no success reported at genesis after a replay; syncing implements `Blockchain` |
| `coordinator` | 8 blocks, 3 of them our own; 1 session, 2 broadcast rounds, `Retain` 1. 136 thousand states | no stale grind, no private fork, the queued solve is current, nothing after the abort, states retired, busy ends, mining resumes after a solve |
| `coordinator_stalled` | the same | violation, finding 1 |
| `coordinator_two_sessions` | the same with 2 sessions | violation, finding 2 |
| `grind_pool` | 2 workers, 2 fast fails, 3 crashes, 2 generations, 1 unread report per thread. 193 thousand states | one solve per template, only the active template is ground, every generation completes |
| `grind_pool_exhausted` | the same | violation, finding 3 |
| `engine_pool` | either engine; 2 ranges, 2 fast fails, 3 crashes, 3 generations, 2 unread lines per native process. 25 thousand states | both implement `GrindService`, also after a solve; no range forgotten, counted twice or ground twice over; every template ends |
| `pool_mode` | classic: 3 solutions, 1 slot, in-flight cap 1, backlog 1, 2 jobs, 1 failure; negotiated: 2 network heights, 2 unanswered registrations, 2 mishaps; 2 strikes. 189 thousand states | slots and shares accounted for, no share lost, no wake lost, a stall ends; grinds on the announced tip, a registration always pending, ambiguous rejections drop nothing, eventually grinds |
| `cold_start` | 2 helpers, thresholds 3 and 3, 2 verifier threads, network of 3 blocks, snapshot depth 1, pages of 2, 2 rounds. 424 thousand states | only trusted chains are mined, saved or handed on; outages cost no file; a start ends; a bad primary is evicted |
| `ledger` | 3 accounts, 3 scripts (a hash-less HTLC with a refund from a height on, 2-of-2, a payment from a time on), halving every 3 blocks, 4 blocks besides genesis, 14 bodies, 9 mempools, 2 clock readings. 89 thousand states | conservation and replay, locks spent as scripts say, templates pass validation, earnings are the tip's branch |

The state of a module is typed in its invariant (`TypeOK`, `GrindPoolTypeOK`,
`NativePoolTypeOK`, `CudaPoolTypeOK`, `SyncTypeOK`, `CoordTypeOK`); those that are proved are
theorems (section 4) and none takes a run of its own.
`MCLedger` also assumes `ScanIsComplete`, which TLC evaluates:
`opCheckMultisig` scans the keys once and never looks back, and it still finds
an assignment of keys to signatures exactly when one exists (compared with the
definition over all assignments, up to three keys and signatures). Two more
assumptions of MC modules are hypotheses of theorems: `TheseScriptsMeanIt` of
`MCLedger` (the scripts let through whom they are for, at every height and time
the instance reaches) and `NetworkIsNumbered` of `MCChainSync` (the blocks of the
network state their heights, and genesis is valid).

Why the bounds are enough. The constants keep the inequalities of the real ones
(`PAGE` 200 > `CATCHUP_MAX_OVERLAP` 90, the snapshot depth of 100 between it and
`STATE_RETAIN`; they are `ChainSyncAssumption`). With an overlap that widens
once, both sides of each test of the widening happen; the blocks hold each kind
of fork the code distinguishes: lighter, exactly as heavy, heavier and
shorter, below the overlap, below the anchor, and below the window, to which the
chain of `chain_sync` can fall and come back. Two sessions
are what it takes for one to leave an op behind. Two workers show every
disagreement between a worker and the pool's counters; two generations make
every message, timer and exit of an older one stale, and a crash budget one
above the fast-fail limit tells both limits apart. `MaxGen` and `MaxQueue`
only bound the model.

`chain_sync` needs no page larger than the branches, since it is about safety.
`chain_sync_live` does: with a page that ends before the fetched branch
outweighs ours, catchUp sees "connected, not heavier" and answers false, again
and again. With a real page of 200 blocks and forks of at most the overlap this
takes a local branch that outweighs 200 blocks of the network.

In `pool_mode` one slot under way and one waiting are the smallest dispatcher
that overflows, and the third solution is what overflows it; one failure is
enough for a retry, a lost submission, a new epoch or a stall, and a
second job makes every share, verdict and key of the first one stale. Two
unanswered registrations are the fewest whose answers can be reordered, and a
tip that moves once makes either stale; two mishaps allow a lost connection
during a catch-up, then another fault on the new one. In `cold_start` a page is
smaller than the chain of the network and a batch of two helpers is not, so a
negotiated session needs a second page of blocks and a solo one does not; a
network of three blocks and depth one have anchors within a page and at its end. With
thresholds of three a primary can fail twice, trail twice and fail again without
losing the role, which is the mixture the run is about. In `ledger` four blocks
make two branches with a lock, its claim and a sibling, a reorg back and forth,
the halving at height 3 and the activation of the lock rules between two times.

Deadlock is checked in the block-tree, sync, cold-start and ledger runs. It is
off in the others because a session or a pool that has been torn down does stop.

### Fairness

- ChainSync: the tip poller's timer keeps firing while the claimed tip differs
  from ours, so `CatchUp` is strongly fair (it is disabled while a call runs).
  A request that is repeated is answered eventually although it may fail any
  finite number of times: strong fairness of `Answer` for each overlap depth
  and for bootstrap's requests. The rest is the event loop: weak fairness.
- MinerCoordinator: every request of the code has a timeout, so a catch-up and
  a broadcast round end, and the PoW check returns: weak fairness of `SyncEnd`,
  `Broadcast`, `Adopt`. A rebuild that keeps being retried does not throw for
  ever: strong fairness of a `RetryFires` that succeeds. Nobody has to publish,
  solve, poll or abort.
- GrindPool: Node delivers messages, exit events and timers, and threads handle
  their commands: weak fairness. A range is finite, so a scan ends however many
  shares it reports on the way: strong fairness of `ScanToEnd`. Nobody has to
  crash, hit or call the pool. NativeGrindPool and CudaGrindPool are
  the same with processes; a solo process that hits is gone, so weak fairness
  of its scan is enough in the latter.
  `TemplatesEnd` excepts a spawn that threw (`lost`, `cudaLost`): the code reports
  it and nothing else, so that generation does not complete by itself.

- PoolClient (`PoolFairness`): the poll loop's turns, an answer to a request
  that is repeated, a registration and the watchdog's interval. Failures are
  finitely many (`MaxFaults`). Nobody has to solve, exhaust, stall, roll or stop.
- NegotiatedClient (`NegoFairness`): timers fire, sockets open, catch-ups end
  since every request has a timeout, the pool answers in the end, announces its
  tip and keeps up with the network. Mishaps are finitely many (`MaxMishaps`).
- ColdStart: a request is answered or times out, and `verify` has its own
  timeout: weak fairness of `SessionStep` and of the verifier's `Timeout`. No
  worker has to answer. A session may be aborted or killed but nobody has to.

## 4. Theorems

Every invariant and action property of the passing runs is a theorem, for every
value of the constants; only liveness is left to TLC. A name in parentheses is
the property the theorem states.

The recursive functions of the models (a walk to genesis, a sum, the loop over a
body) are reasoned about by induction over the naturals. The provers take no
induction rule with a predicate as parameter, so it is derived from the
well-foundedness of `<` on `Nat`, for a set in place of the predicate: `LeastNat`,
`Induct`, and `NatRecursion`, by which a recursion defines a function at all.

`BlockchainProofs`: the invariant
`IInv == TypeOK /\ Linked /\ HeaviestTip /\ TipExtendable` is inductive, and
each part is a theorem (`TypeCorrect`, `TreeIsLinked`, `ForkChoiceIsHeaviest`,
`TipAlwaysExtendable`); together they are `TreeIsSound` (`TreeSound`). The parts
need each other: `HeaviestTip` compares a new block's work, computed from its
stored parent, with the tip's, so it needs `TypeOK` and the parent to be stored; a
seeded anchor is forced to be the tip without a comparison and is heaviest only
because it extends the tip, which was. `OnlyOutweighed` (`TipOnlyOutweighed`)
follows from it. `PruneLeavesPrefix` (`PrunedIsPrefix`) is what lets a prune stop at
the first block without a state. Its invariant `PruneInv` adds that during a
restore only genesis has a state; the step of a prune needs to know the walk along
`prevHash` (`LineInTree`: it descends by one height at a time inside a tree, down
to genesis). The only assumption is `BlockchainAssumption`: genesis has height 0 and
every block adds some work.

`ChainSyncProofs`: `SyncRefinesBlockTree` (`ImplementsBlockTree`), every step of a
sync being a step of the tree or a stutter. The step at the end of a page is one
only because no call runs while a snapshot is being restored; that is
`CallsAfterRestore`. The refinement carries all of the above over to a sync at any
point between two awaits (`SyncKeepsTreeSound`, `SyncMovesToHeavier`), for every
page size, overlap, window and any helpers. `FalseIsTruthful`
(`FalseMeansUnchanged`) is what MinerCoordinator relies on when it keeps a grind
running after a catch-up answered false. Three more follow how deep pruning and
the requests meet:
- `SnapshotsReadable` (`SnapshotReadable`), from `WindowInv`: only blocks below the
  restored anchor, or more than the window under the highest tip pruned at, lack a
  state. A prune at a lower tip than an earlier one frees nothing new above that.
- `DropsAreBeyondTolerance` (`ResetOnlyBeyondTolerance`), from `ReachInv`, which
  adds the types of what a call keeps across its awaits. A page is asked for at most
  `MaxOverlap` under the lower of tip and claim, so if a block that meets a pruned
  parent is not below that, `WindowInv` says where the parent is. The condition is
  part of the property: what the code does with a lower block is told in section 5.
  The theorem needs no assumption about the helpers or the blocks they serve.
- `NeverSuccessAtGenesis` (`NoSuccessAtGenesis`), of honest helpers, from
  `HonestInv`: what catchUp chases is a valid branch, and the first page of a replay
  finds every state in place and a first block that fits on genesis, so the tip
  moves. Why the property has an exception is told in section 5.

`NeverSuccessAtGenesis`, and `SyncTyped` for honest helpers, are about helpers that
serve blocks by height, so they take `Numbered` as a hypothesis: every block states
its own height. A block that does not is refused (`Flaw`) and is in the run of
`Blockchain`. Of other helpers it is enough that a page is a list of blocks
(`ChainSyncAssumption`).

`CoordinatorProofs`, for any blocks, helpers and number of broadcast rounds. First
of a process whose later sessions have not begun (`CoordSpec`):
- `SubmitMovesTip` (`AdoptedBecomesTip`) and `MinesOnTip` (`GrindsOnTip`).
  `CoordInv` says what the busy flag is for: while a block is submitted it extends
  the tip and nothing is ground or queued (`Submit`, `Grind`), and while its PoW
  check is awaited the work of the parent in hand is the tip's (`Adopting`).
- `CoordKeepsTreeSound` carries the tree over, so an adopted block is on a stored
  parent that has its state, and `StatesAreRetired` (`StatesRetired`) bounds the
  memory: `TreeInv` says that only a running catch-up may have states below the
  window, since an adopted solve moves the tip by one and `rebuild` prunes.

Then of a process with any number of sessions on one chain (`ProcessSpec`, of
which `CoordSpec` is a case, `SingleSession`). An op left in flight by a torn-down
session ends under the next one, so what `Adopting` says of the tip is lost, and
with it `AdoptedBecomesTip` (the run `coordinator_two_sessions`) and `Linked`.
`ProcessInv` is what remains: sessions take turns (`InTurn`), an ended session has
nothing on and nothing queued (`Quiet`), and every stored block carries the work
of its branch, whoever added it (`Weighed`). That work is a function of the block
alone (`BranchWork`), so the parent's work a submit has in hand is right even
when the parent has been dropped meanwhile (`Carries`). From it follow
`TornDownIsOff` (`EndedStaysOff`), `NothingPrivate` (`NoPrivateFork`),
`OneSlotSuffices` (`QueuedIsCurrent`), `CoordTyped`, `OneMinesAtATime` (two
sessions never grind at once), `HeaviestAlways` (`HeaviestTip`, `TipExtendable`)
and `TipGainsWork` (`TipOnlyOutweighed`).

The assumption `MinerCoordinatorAssumption` says of the cold start's result that
the anchor's line is linked, has summed its work and holds no block of ours;
`BlockchainProofs` proves the first two of every tree.

`GrindPoolProofs`: `FirstSolveWins` (`OneSolvePerTemplate`), `NoStaleGrind`
(`OnlyActiveGround`) and `GrindPoolTyped`, for any number of workers, crash
budgets and generations, from `PoolInv`. Neither promise is inductive: a late
report may break the first and a late command the second, so the invariant says
what may still mention a generation (`NoneAhead`: no job, command or report runs
ahead of the counter, and none names a generation without a template) and what a
thread will be grinding once it has read its commands (`LastCommandActive`).
`SlotsConsistent` is what makes a respawned thread start empty.

`EnginePoolProofs`: `EnginesAreGrindServices` (`EnginesServe`),
`NoRangeMiscounted` (`RangesAccounted`), `NeverTwice` (`NoneGroundTwice`), the same
of the native pool by itself (`NativeIsGrindService`, `NoRangeForgotten`,
`NoRescan`), and the types, for any number of ranges, budgets and generations. The
native invariant `NativeInv` says that every range stands at exactly one place
(`StandsOnce`) and that the two counters are the sizes of two of these places
(`Counted`), so the quorum test `exhausted + down >= expected` is true exactly
when nothing is left to do (`Quorum`). `LastLine` and `EndedConsistent` follow
an EXHAUSTED line from the process to the pool: while it is unread the process
cannot be taken for crashed. In the CUDA half, `CudaInv`, the argument has to hold
on after a solve: a range is at no two places at once whether its template is
solved or not (`AtMostOnce`), so when a late timer fires its range has no
process, the first slot is free, and the second is never used (`OneSlot`). That
it is at one of the places, and that the counters are their sizes, is needed
only while a template is ground (`CudaCounted`). The assumptions are
`ProcessPoolAssumption` (some ranges, finitely many, and positive budgets) and
`NativePoolAssumption` (a pipe that holds a line).

`PoolModeProofs`, of pool mode as it starts. For the classic client, with any
caps, jobs, nonces and failures: `EveryShareAccounted` (`SharesAccounted`) and
`NoShareDropped` (`ShareKept`). `ShareInv` says that the slots taken are exactly the
nonces of the submissions under way for the job and worker at hand (`SlotsHeld`;
those of earlier ones hold none, and give none back when they complete), that
what waits is new and of this job (`Waiting`), and that shares wait only while
every slot is taken. It needs the pool never to return to a job (`JobsForward`):
a submission of an earlier job with the same nonce would otherwise free a slot
that is not its own. For the negotiated client, with any height of the network
and any number of registrations, connections and failures: `MinesOnPoolTip`
(`GrindsOnPoolTip`), `NeverForgotten` (`RegistrationPending`) and
`RejectionsDropNothing` (`SettlesOnlyAnswered`). `NegoInv` says that the
templates that may still be matched are built on the announced tip (`BuiltOn`),
that the counter never falls below the answers owed (`Counted`), and that a
connection with nothing to grind has a timer armed or its own catch-up under way
(`PendingInv`). `Counted` is why a rejection may be taken for the last answer:
at zero no other is owed, whatever the pool forgot before. A catch-up that
outlives its connection may go on applying blocks, since `SessionOver` keeps it
from the registrations of the next one.

`ColdStartProofs`: `NoForgedChainMined` (`ChainTrusted`), `FailingPrimaryEvicted`
(`BadPrimaryEvicted`) and `OutagesNeverDelete` (`OutagesKeepFile`), for any number
of helpers and verifier threads, any thresholds, page size and depth, and a
network of any height, from `ColdInv`. That no forged block is kept needs the
whole of a verify call: every id that is out leads to the slot of the block it was
sent with (`RoutesLead`), whatever of an earlier call still answers, so a slot has
no verdict or that of its own block (`CallOfPage`). The rounds on end of a bad
primary are bounded by its two streaks, one of which resets the other: every round
that trailed follows less than a threshold of failed ones (`Counted`).

`LedgerProofs`, for any rewards, bodies, mempools, clocks, forks and resets:
- `StatesAreReplays` (`StatesSound`): no coin is made or lost, and each state is
  the replay of its branch from genesis. `LedgerInv` keeps every prefix of a block
  in the tree, each with the state its last body made of the one before; the loop
  over a body takes as fees what leaves the balances and locks (`RunOK`), also
  when it stops halfway.
- `TemplatesAlwaysPass` (`TemplatesAccepted`), from `LedgerInv`: applying the kept
  transactions to a clone gives the root the validation computes.
- `SpendsAreAuthorised` (`SpendsAuthorised`): a lock is spent by those its script
  names, once on a branch, in a later block. `SpendInv` says why not twice: the
  nonce of a lock's owner has passed the lock's own, so nobody makes it again. The
  theorem is about the ledger and not the scripts, so it takes as a hypothesis
  that each script lets through whom it is for (`ScriptsMeanIt`); that is a fact
  about `EvalScript` on a program and its witness, which TLC evaluates for the
  scripts of the run.
- `EarningsAreCanonical` (`EarningsMatchChain`): the found blocks that count as
  earnings are exactly those on the branch of the tip. The walk of `reorgDelta`
  collects what one branch has and the other lacks, so writing off the one and
  restoring the other turns "all found blocks of the old branch" into "all found
  blocks of the new one". Whatever the ledger makes of a block plays no part.

Only model-checked:
- liveness, which is out of the prover's reach: `EventuallySynced`, `BusyEnds`,
  `SolveResumes`, `GenerationCompletes`, `TemplatesEnd`, `WakeHonoured`,
  `StallEnds`, `EventuallyGrinds`, `StartEnds`;
- that particular scripts mean what they are for (`TheseScriptsMeanIt`), and that
  `opCheckMultisig` finds an assignment whenever there is one (`ScanIsComplete`);
- the three violations of section 5, which are about an instance by nature.

## 5. Findings

1. *A stopped pool stays stopped* (`coordinator_stalled`). A failed catch-up
   stops the pool; the comment says the next tip poll rebuilds once it
   succeeds. `tipAdvanced` rebuilds only when the catch-up answers true, so one
   that succeeds with false leaves the pool idle, with no retry armed.
2. *A block adopted behind the tip* (`coordinator_two_sessions`). Teardown does
   not wait for a submit in flight; the next session moves the shared chain, and
   the block "that always becomes the local tip" becomes a side branch. If that
   session drops the chain during the PoW check, the block is even stored without
   its parent, which `addBlockInternal` looked up before it. The property refuses
   both; TLC's shortest behaviour is the first.
3. *Exhaustion before the ranges are scanned* (`grind_pool_exhausted`). A worker
   that scanned its range and then exits is counted twice, so the pool reports
   exhaustion while another worker is still scanning.

Met while proving, without a run of its own: catchUp that drops the chain replays
it from genesis (`bootstrap`) lest the caller "mine from the reset point", but the
replay is not asked whether its own last page dropped the chain again. catchUp then
answers true with the tip at genesis, and the caller mines there until the next
poll. It takes a network that falls to a heavier branch more than the window below
the highest tip and, while the replay runs, comes back to a branch whose states the
window has freed; `NoSuccessAtGenesis` names this as its one exception.

A limit of the tolerance written beside `STATE_RETAIN`: it follows from where
catchUp asks, and nothing compares a page with what it was asked for. `catchUp`
looks at the first height only to decide whether the page connects, and
`applyBatch` adds whatever came. A helper that answers with an old block on a
parent whose state was pruned makes `addBlockInternal` drop the chain however close
tips and claim are. The replay that follows, or the next poll, brings it back; `ResetOnlyBeyondTolerance`
without its condition on the height fails in the instance of `chain_sync` for this
reason. The tolerance is one for helpers that answer from the asked height up.

## 6. Plan

The order of the models was: tree, sync, coordinator, grind pools, pool clients,
helpers with verifier and cold start, ledger; then their safety proofs. What is
left:

1. The smart controller: dwell, hold and reprobe over a small grid of duty
   levels.
2. The shares of the negotiated client: dedup of nonces and the buffer cap.
3. Composition of the coordinator with the grind pool: an exhaustion that is
   dropped while busy.

## 7. Not modelled

- Hash functions, signatures, codecs, script text tools: pure data; a verdict
  is a constant of the block, a signature in a script names its key and message.
  The byte limits of scripts, pushes and items belong to the codec.
- The difficulty schedule: 256-bit targets over long tables. Its result is the
  constant `BlockWork` and the "header" flaw.
- The smart controller and demand: they change how hard workers grind, never
  what they grind.
- Shares of the negotiated client and `partition.ts`: see the plan; the latter
  is a dozen lines of arithmetic.
- `staleHelperWarnings` and the statistics of the pool clients: they only
  report.
- Drawing, menus, key handling, logging, update checks, configuration files.
- The Rust and CUDA grinders: hashing loops behind a line protocol.
- `respawn` and continuous grinding of `cudaGrindPool.ts`: nothing in the
  program asks this pool for them.
- An unhandled rejection of bootstrap's look-ahead (`sync.ts`, line 105), which
  ends the process: it is a hazard of the runtime's handling of promises, listed
  in `PROJECT.json`, not a state of the sync.
