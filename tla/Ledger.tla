------------------------------- MODULE Ledger -------------------------------
(***************************************************************************)
(* What the blocks of the tree do to balances and locks: src/src/chain/     *)
(* state.ts and the structural rules of transaction.ts, applied by          *)
(* addBlockInternal of blockchain.ts to a clone of the parent's state, with *)
(* the templates of template.ts and negotiatedClient.ts that must pass it,  *)
(* and the reporter's account of the blocks this miner found.               *)
(*                                                                         *)
(* A header hash commits to everything before it, so a block is the         *)
(* sequence of bodies from genesis to it; its parent is the front of it.    *)
(* Every block weighs the same here (Blockchain.tla has the fork choice     *)
(* over arbitrary work) and a state, once there, stays (it has the pruning, *)
(* too); Reset is what a block on a pruned parent does.                     *)
(***************************************************************************)
EXTENDS Script, FiniteSetsExt

CONSTANTS
  Addresses,       \* account owners
  Miner,           \* the address the network's other blocks pay
  Us,              \* the address this solo miner's blocks pay
  InitialReward,   \* INITIAL_REWARD
  HalvingInterval, \* HALVING_INTERVAL
  MaxMoney,        \* MAX_MONEY
  MtpWindow,       \* MTP_WINDOW
  GenesisTime,     \* GENESIS.header.timestamp
  ActivationTime,  \* forkActivationTime()
  MaxTxs,          \* MAX_BLOCK_BYTES, in transactions of one size
  TxBudget,        \* TX_BYTE_BUDGET of a template, in the same unit
  Scripts,         \* script hashes, one per redeem script
  CodeOf,          \* the redeem script behind each hash
  MaySpend(_, _, _), \* whom a script means to let spend: script, signers, context
  TxLists,         \* the bodies others' blocks may have
  Mempools,        \* what the pool may announce
  Clock,           \* what a miner's clock may show
  MaxBlocks,       \* bound: blocks in the tree besides genesis
  MaxFound,        \* bound: solves of this miner
  MaxHeight        \* bound: length of a branch

ASSUME LedgerAssumption ==
  /\ {Miner, Us} \subseteq Addresses /\ Miner # Us
  /\ {InitialReward, HalvingInterval, MaxMoney, MtpWindow, GenesisTime} \subseteq Nat \ {0}
  /\ {ActivationTime, MaxTxs, TxBudget} \subseteq Nat
  /\ TxBudget <= MaxTxs
  /\ DOMAIN CodeOf = Scripts
  /\ Clock \subseteq Nat /\ {MaxBlocks, MaxFound, MaxHeight} \subseteq Nat

(* What decodeTx makes of bytes: a redeem's lock and witness may be anything. *)
IsTx(tx) ==
  /\ tx.kind \in {"transfer", "lock", "redeem"} /\ {tx.amount, tx.fee} \subseteq Nat
  /\ tx.kind # "redeem" => tx.from \in Addresses /\ tx.nonce \in Nat
  /\ tx.kind # "lock" => tx.to \in Addresses
  /\ tx.kind # "transfer" => tx.script \in Scripts

ASSUME TransactionAssumption ==
  /\ IsFiniteSet(Addresses)
  /\ \A txs \in TxLists \union Mempools :
       txs \in Seq(Range(txs)) /\ \A i \in DOMAIN txs : IsTx(txs[i])

VARIABLES
  states,   \* ChainBlock.state of every stored block
  tip,      \* the heaviest block, the first seen of equals
  solo,     \* soloBlocks: the hashes found() has recorded
  orphaned  \* orphanedSoloHashes

vars == <<states, tip, solo, orphaned>>

-----------------------------------------------------------------------------
(* State: an account nobody stored reads as the empty one, and the root skips
   empty accounts, so absent and empty are the same. *)
EmptyState ==
  [accounts |-> [a \in Addresses |-> [balance |-> 0, nonce |-> 0]],
   locks |-> <<>>]

(* What the accounts and the locks of a state hold together. *)
Supply(st) ==
  MapThenSumSet(LAMBDA a : st.accounts[a].balance, Addresses)
    + MapThenSumSet(LAMBDA l : st.locks[l].amount, DOMAIN st.locks)

(* stateRoot commits to both maps. *)
StateRoot(st) == st

Credit(st, a, amount) == [st EXCEPT !.accounts[a].balance = @ + amount]

(* applyTransfer and applyLock take amount and fee from the sender alike. *)
Payable(st, tx) ==
  /\ st.accounts[tx.from].balance >= tx.amount + tx.fee
  /\ st.accounts[tx.from].nonce = tx.nonce

Debit(st, tx) ==
  [st EXCEPT !.accounts[tx.from] =
     [balance |-> @.balance - tx.amount - tx.fee, nonce |-> @.nonce + 1]]

(* redeemSighash: which lock is spent, by what script, and where its value goes. *)
Sighash(tx) == [lock |-> tx.lock, to |-> tx.to, amount |-> tx.amount,
                fee |-> tx.fee, script |-> tx.script]

(* Mutant: a lock may be spent in the block that makes it. *)
RedeemableAtOnce(st, tx, created, ctx) ==
  /\ tx.lock \in DOMAIN st.locks
  /\ tx.script = st.locks[tx.lock].script
  /\ tx.amount = st.locks[tx.lock].amount
  /\ tx.fee <= st.locks[tx.lock].amount
  /\ EvalScript(CodeOf[tx.script], tx.witness,
                [sighash |-> Sighash(tx), height |-> ctx.height, mtp |-> ctx.mtp])

(* applyRedeem's checks; created are the locks of this very block. *)
Redeemable(st, tx, created, ctx) ==
  /\ tx.lock \in DOMAIN st.locks \ created
  /\ tx.script = st.locks[tx.lock].script
  /\ tx.amount = st.locks[tx.lock].amount
  /\ tx.fee <= st.locks[tx.lock].amount
  /\ EvalScript(CodeOf[tx.script], tx.witness,
                [sighash |-> Sighash(tx), height |-> ctx.height, mtp |-> ctx.mtp])

WithLock(st, tx, height) ==
  LET lock == [amount |-> tx.amount, script |-> tx.script, height |-> height]
  IN [st EXCEPT !.locks = [l \in DOMAIN @ \union {tx} |-> IF l = tx THEN lock ELSE @[l]]]

WithoutLock(st, l) == [st EXCEPT !.locks = Restrict(@, DOMAIN @ \ {l})]

(* applyTx: may the transaction be applied, and what it then makes of the state.
   Every check comes before the first write, so a failed one leaves no trace.
   A lock's id is the hash of its transaction. *)
Applicable(st, tx, created, ctx) ==
  CASE tx.kind = "transfer" -> Payable(st, tx)
    [] tx.kind = "lock" -> /\ ctx.mtp >= ActivationTime
                           /\ Payable(st, tx) /\ tx \notin DOMAIN st.locks
    [] tx.kind = "redeem" -> ctx.mtp >= ActivationTime /\ Redeemable(st, tx, created, ctx)

Applied(st, tx, ctx) ==
  CASE tx.kind = "transfer" -> Credit(Debit(st, tx), tx.to, tx.amount)
    [] tx.kind = "lock" -> WithLock(Debit(st, tx), tx, ctx.height)
    [] tx.kind = "redeem" -> Credit(WithoutLock(st, tx.lock), tx.to, tx.amount - tx.fee)

(* INITIAL_REWARD >> n, one bit after the other. *)
Shifted[n \in 0 .. 63] == IF n = 0 THEN InitialReward ELSE Shifted[n - 1] \div 2

(* blockReward: halved every interval, gone after 64 halvings. *)
BlockReward(height) ==
  LET halvings == height \div HalvingInterval
  IN IF halvings >= 64 THEN 0 ELSE Shifted[halvings]

(* The miner is credited only at the end. *)
Settled(r, height, miner) ==
  IF r.ok THEN [state |-> Credit(r.state, miner, BlockReward(height) + r.fees), ok |-> TRUE]
  ELSE [state |-> r.state, ok |-> FALSE]

(* The loop of applyBlockTxs: nothing after the first failure, which leaves the
   state half applied. *)
ApplyNext(r, tx, ctx) ==
  IF ~r.ok THEN r
  ELSE IF ~Applicable(r.state, tx, r.created, ctx) THEN [r EXCEPT !.ok = FALSE]
  ELSE [state |-> Applied(r.state, tx, ctx), fees |-> r.fees + tx.fee, ok |-> TRUE,
        created |-> r.created \union (IF tx.kind = "lock" THEN {tx} ELSE {})]

ApplyBlockTxs(st, height, miner, txs, mtp) ==
  LET ctx == [height |-> height, mtp |-> mtp]
      unapplied == [state |-> st, fees |-> 0, ok |-> TRUE, created |-> {}]
  IN Settled(FoldLeft(LAMBDA r, tx : ApplyNext(r, tx, ctx), unapplied, txs), height, miner)

(* validateTxStructure, with the signature of a transfer or lock as a flag. *)
WellFormed(tx) ==
  CASE tx.kind = "transfer" -> /\ tx.amount + tx.fee \in 1 .. MaxMoney
                               /\ tx.from # tx.to /\ tx.signed
    [] tx.kind = "lock" -> tx.amount > 0 /\ tx.amount + tx.fee <= MaxMoney /\ tx.signed
    [] tx.kind = "redeem" -> tx.amount <= MaxMoney /\ tx.fee <= tx.amount

-----------------------------------------------------------------------------
(* Blocks: sequences of [miner, txs, time]. *)
Line(b) == {SubSeq(b, 1, i) : i \in 0 .. Len(b)}

Stored == DOMAIN states

(* medianTimePast: of the last MtpWindow headers, genesis included, the upper
   middle one. *)
MedianTimePast(b) ==
  LET times == <<GenesisTime>> \o [i \in DOMAIN b |-> b[i].time]
      window == (IF Len(times) <= MtpWindow THEN 1 ELSE Len(times) - MtpWindow + 1) .. Len(times)
      middle == Cardinality(window) \div 2
  IN CHOOSE t \in {times[i] : i \in window} :
       /\ Cardinality({i \in window : times[i] < t}) <= middle
       /\ Cardinality({i \in window : times[i] <= t}) > middle

(* addBlockInternal on a clone of the parent's state. *)
Tried(parent, body) ==
  ApplyBlockTxs(states[parent], Len(parent) + 1, body.miner, body.txs, MedianTimePast(parent))

Agrees(tried, root) == tried.ok /\ root = StateRoot(tried.state)

(* The verdict, root being header.stateRoot. *)
Accepts(parent, body, root) ==
  /\ Len(body.txs) <= MaxTxs
  /\ body.time > MedianTimePast(parent)
  /\ \A i \in DOMAIN body.txs : WellFormed(body.txs[i])
  /\ Agrees(Tried(parent, body), root)

(* Mutant: applyBlockTxs runs on the parent's own state. *)
KeptShared(parent, body) == [states EXCEPT ![parent] = Tried(parent, body).state]

(* cloneState: whatever the trial did, the parent's state is what it was. *)
Kept(parent, body) == states

JustGenesis == [b \in {<<>>} |-> EmptyState]

(* reorgDelta, as the hashes its walk to the common ancestor collects. *)
Connected(old, new) == Line(new) \ Line(old)

(* Mutant: a block that comes back stays written off. *)
ReorgedForGood(connected, disconnected) == orphaned \union (disconnected \intersect solo)

(* reorg(): what left the canonical chain is written off, what came back is not. *)
Reorged(connected, disconnected) == (orphaned \union (disconnected \intersect solo)) \ connected

(* The block goes in, the tip moves to it if it is heavier and then the
   listener tells the reporter. *)
Insert(parent, body) ==
  LET b == Append(parent, body)
      new == IF Len(b) > Len(tip) THEN b ELSE tip
  IN /\ states' = [c \in Stored \union {b} |->
                    IF c = b THEN Tried(parent, body).state ELSE Kept(parent, body)[c]]
     /\ tip' = new
     /\ orphaned' = Reorged(Connected(tip, new), Connected(new, tip))

-----------------------------------------------------------------------------
(* Templates off the tip, as the body and the state root their header states. *)
Timestamp(parent, now) == Max({now, MedianTimePast(parent) + 1})

(* buildTemplate: a solo block is empty. *)
SoloBody(now) == [miner |-> Us, txs |-> <<>>, time |-> Timestamp(tip, now)]

(* decodeMempool: entries out of shape are skipped, and the budget ends it. *)
DecodeMempool(mempool) ==
  LET txs[i \in 0 .. Len(mempool)] ==
        IF i = 0 THEN <<>>
        ELSE IF WellFormed(mempool[i]) /\ Len(txs[i - 1]) < TxBudget
               THEN Append(txs[i - 1], mempool[i])
        ELSE txs[i - 1]
  IN txs[Len(mempool)]

(* On a fresh clone of the tip's state, for the pool's address. *)
Trial(txs) == ApplyBlockTxs(states[tip], Len(tip) + 1, Miner, txs, MedianTimePast(tip))

(* Mutant: the empty block's coinbase is applied on top of the failed trial. *)
SimulatedOnTrial(txs) ==
  IF Trial(txs).ok THEN [txs |-> txs, root |-> StateRoot(Trial(txs).state)]
  ELSE [txs |-> <<>>, root |-> StateRoot(ApplyBlockTxs(
          Trial(txs).state, Len(tip) + 1, Miner, <<>>, MedianTimePast(tip)).state)]

(* buildNegotiatedTemplate: the mempool if all of it applies, else nothing, on
   a fresh clone. *)
Simulated(txs) ==
  IF Trial(txs).ok THEN [txs |-> txs, root |-> StateRoot(Trial(txs).state)]
  ELSE [txs |-> <<>>, root |-> StateRoot(Trial(<<>>).state)]

Stamped(sim, now) ==
  [body |-> [miner |-> Miner, txs |-> sim.txs, time |-> Timestamp(tip, now)], root |-> sim.root]

NegotiatedTemplate(mempool, now) == Stamped(Simulated(DecodeMempool(mempool)), now)

-----------------------------------------------------------------------------
(* A block somebody offers on a parent we hold; its header may state a root it
   does not have. Our own blocks come back this way after a reset. *)
Receive(parent, body, rooted) ==
  /\ Append(parent, body) \notin Stored
  /\ body.miner = Us => Append(parent, body) \in solo
  /\ LET root == StateRoot(IF rooted THEN Tried(parent, body).state ELSE states[parent])
     IN IF Accepts(parent, body, root) THEN Insert(parent, body)
        ELSE states' = Kept(parent, body) /\ UNCHANGED <<tip, orphaned>>
  /\ UNCHANGED solo

(* A solve that a helper confirmed: the coordinator holds its busy flag, so
   the tip is still the template's parent when submitSoloBlock adopts it, and
   found() follows the reorg listener with nothing in between. A nonce is
   found once. *)
FindSolo(now) ==
  /\ Append(tip, SoloBody(now)) \notin Stored \union solo
  /\ Accepts(tip, SoloBody(now), StateRoot(Tried(tip, SoloBody(now)).state))
  /\ Insert(tip, SoloBody(now))
  /\ solo' = solo \union {Append(tip, SoloBody(now))}

(* The snapshot-invalidated listener: reset() back to genesis without a tip
   change, and soloReorgReset writes everything off. *)
Reset ==
  /\ states' = JustGenesis
  /\ tip' = <<>>
  /\ orphaned' = solo
  /\ UNCHANGED solo

Init ==
  /\ states = JustGenesis
  /\ tip = <<>>
  /\ solo = {} /\ orphaned = {}

(* Blocks others offer on a parent, with at most one thing wrong outside the
   transactions: a time one tick too early, or a root that is not theirs. *)
Offers(parent) ==
  LET times == {Timestamp(parent, now) : now \in Clock}
      Body(when, lists) == [miner : {Miner, Us}, txs : lists, time : when]
  IN (Body(times, TxLists) \X {TRUE})
       \union (Body({MedianTimePast(parent)}, {<<>>}) \X {TRUE})
       \union (Body(times, {<<>>}) \X {FALSE})

Room == Cardinality(Stored) <= MaxBlocks

Next ==
  \/ \E parent \in Stored :
       /\ Room /\ Len(parent) < MaxHeight
       /\ \E offer \in Offers(parent) : Receive(parent, offer[1], offer[2])
  \/ \E now \in Clock : Room /\ Len(tip) < MaxHeight /\ Cardinality(solo) < MaxFound /\ FindSolo(now)
  \/ Reset

Spec == Init /\ [][Next]_vars

-----------------------------------------------------------------------------
LedgerTypeOK ==
  /\ <<>> \in Stored /\ tip \in Stored
  /\ orphaned \subseteq solo

(* No coin is made or lost: in every block's state the balances and the live
   locks hold exactly what the blocks up to it were rewarded with, fees, locks,
   redeems and halvings included. *)
SupplyConserved ==
  \A b \in Stored : Supply(states[b]) = MapThenSumSet(BlockReward, 1 .. Len(b))

(* Every stored state is the replay of its own branch from genesis, whatever
   blocks were tried on top of it, failed halfway or were reorganised away. *)
StateIsReplay ==
  \A b \in Stored :
    LET replay[i \in 0 .. Len(b)] ==
          IF i = 0 THEN EmptyState
          ELSE ApplyBlockTxs(replay[i - 1], i, b[i].miner, b[i].txs,
                             MedianTimePast(SubSeq(b, 1, i - 1))).state
    IN states[b] = replay[Len(b)]

StatesSound == SupplyConserved /\ StateIsReplay

Redeems(b) == {p \in {<<i, j>> : i \in DOMAIN b, j \in 1 .. MaxTxs} :
                p[2] \in DOMAIN b[p[1]].txs /\ b[p[1]].txs[p[2]].kind = "redeem"}

Signers(tx) ==
  {a \in Addresses : \E w \in DOMAIN tx.witness : tx.witness[w] = Sig(a, Sighash(tx))}

(* The scripts say what they are for: one by one, a witness that the
   interpreter takes, at a height and a median time, is of those who may. *)
ScriptsMeanIt(heights, times) ==
  \A txs \in TxLists : \A i \in DOMAIN txs : \A height \in heights, mtp \in times :
    /\ txs[i].kind = "redeem"
    /\ EvalScript(CodeOf[txs[i].script], txs[i].witness,
                  [sighash |-> Sighash(txs[i]), height |-> height, mtp |-> mtp])
    => MaySpend(txs[i].script, Signers(txs[i]), [height |-> height, mtp |-> mtp])

(* A lock leaves the ledger only for those its script names, by their own
   signatures on this very payment and not before the script's lock time, once
   on a branch and in a block after the one that made it. *)
SpendsAuthorised ==
  \A b \in Stored : \A p \in Redeems(b) :
    LET tx == b[p[1]].txs[p[2]]
    IN /\ MaySpend(tx.script, Signers(tx),
                   [height |-> p[1], mtp |-> MedianTimePast(SubSeq(b, 1, p[1] - 1))])
       /\ \E i \in 1 .. p[1] - 1 : tx.lock \in Range(b[i].txs)
       /\ \A q \in Redeems(b) \ {p} : b[q[1]].txs[q[2]].lock # tx.lock

TemplateAccepted(t) == Accepts(tip, t.body, t.root)

(* What the miner grinds is worth grinding: whatever the pool's mempool holds,
   the template made from it would pass this node's own validation, in shape,
   clock and state root. *)
TemplatesAccepted ==
  \A now \in Clock :
    /\ Accepts(tip, SoloBody(now), StateRoot(Tried(tip, SoloBody(now)).state))
    /\ \A mempool \in Mempools :
         TemplateAccepted(NegotiatedTemplate(mempool, now))

(* canonicalSolo, which the earnings are computed from, is what it is named
   for: after any reorg, reset and replay the found blocks it counts are those
   on the branch of the tip, no more and no fewer. *)
EarningsMatchChain == solo \ orphaned = solo \intersect Line(tip)
=============================================================================
