------------------------------ MODULE MCLedger ------------------------------
EXTENDS Ledger

MCCodeOf == [
  htlc |-> << <<"IF">>, <<"PUSH", Key("a")>>, <<"CHECKSIG">>,
              <<"ELSE">>, <<"PUSH", Num(4)>>, <<"CLTV">>, <<"DROP">>,
                          <<"PUSH", Key("m")>>, <<"CHECKSIG">>,
              <<"ENDIF">> >>,
  both |-> << <<"SMALL", 2>>, <<"PUSH", Key("a")>>, <<"PUSH", Key("m")>>, <<"SMALL", 2>>,
              <<"CHECKMULTISIG">> >>,
  late |-> << <<"PUSH", Num(5)>>, <<"CLTV">>, <<"DROP">>, <<"PUSH", Key("m")>>, <<"CHECKSIG">> >>]

(* What the scripts are for: a claim by a that m may take back from height 4 on,
   a payment both must sign, and one m may have from time 5 on. *)
MCMaySpend(script, signers, ctx) ==
  CASE script = "htlc" -> "a" \in signers \/ ("m" \in signers /\ ctx.height >= 4)
    [] script = "both" -> {"a", "m"} \subseteq signers
    [] script = "late" -> "m" \in signers /\ ctx.mtp >= 5

Pay(n, amount, fee) ==
  [kind |-> "transfer", from |-> "m", to |-> "a", amount |-> amount, fee |-> fee,
   nonce |-> n, signed |-> TRUE]
LockUp(n, script) ==
  [kind |-> "lock", from |-> "m", amount |-> 2, fee |-> 0, nonce |-> n,
   script |-> script, signed |-> TRUE]
Unsigned(lock, to, fee) ==
  [kind |-> "redeem", lock |-> lock, to |-> to, amount |-> 2, fee |-> fee,
   script |-> lock.script, witness |-> <<>>]
Redeem(lock, to, fee, by, selector) ==
  LET tx == Unsigned(lock, to, fee)
  IN [tx EXCEPT !.witness = [i \in DOMAIN by |-> Sig(by[i], Sighash(tx))] \o selector]

Claim == Redeem(LockUp(0, "htlc"), "a", 1, <<"a">>, <<Num(1)>>)
Refund == Redeem(LockUp(0, "htlc"), "m", 0, <<"m">>, <<Num(0)>>)
(* The claim's signature on a payment to somebody else. *)
Stolen == [Claim EXCEPT !.to = "u"]
Joint == Redeem(LockUp(0, "both"), "a", 0, <<"a", "m">>, <<>>)
Alone == Redeem(LockUp(0, "both"), "m", 0, <<"m", "m">>, <<>>)
Savings == Redeem(LockUp(0, "late"), "m", 0, <<"m">>, <<>>)
SelfSend == [Pay(0, 1, 0) EXCEPT !.to = "m"]

MCTxLists == {<<>>, <<Pay(0, 1, 1), Pay(0, 2, 0)>>, <<SelfSend>>,
  <<LockUp(0, "htlc"), Pay(1, 1, 1)>>, <<LockUp(0, "htlc"), Claim>>, <<Claim>>, <<Refund>>, <<Stolen>>,
  <<Claim, Claim>>, <<LockUp(0, "both"), Pay(1, 1, 0)>>, <<Joint>>, <<Alone>>,
  <<LockUp(0, "late")>>, <<Savings>>}

MCMempools == {<<>>, <<Pay(0, 1, 1)>>, <<Pay(0, 1, 1), Pay(0, 2, 0)>>,
  <<SelfSend, LockUp(0, "htlc")>>, <<LockUp(0, "htlc"), LockUp(1, "htlc"), Pay(2, 1, 0)>>,
  <<Claim>>, <<Pay(1, 1, 1), Refund>>, <<Joint, Stolen>>, <<Savings>>}

(* opCheckMultisig never looks back, yet finds a way to give each signature a
   key of its own, in order, exactly when there is one. *)
ASSUME ScanIsComplete ==
  \A keys \in BoundedSeq({Key("a"), Key("m"), Num(1)}, 3),
     sigs \in BoundedSeq({Sig("a", 0), Sig("m", 0), Sig("a", 1)}, 3) :
    sigs # <<>> => (Matching(sigs, keys, 0) <=>
      \E at \in [DOMAIN sigs -> DOMAIN keys] :
        /\ \A i, j \in DOMAIN sigs : i < j => at[i] < at[j]
        /\ \A i \in DOMAIN sigs : Verifies(sigs[i], keys[at[i]], 0))

(* The interpreter lets the scripts mean what they are for, at every height and
   time a branch can show, one step before and after each lock time too. *)
ASSUME TheseScriptsMeanIt == ScriptsMeanIt(0 .. MaxHeight + 1, 0 .. 9)
=============================================================================
