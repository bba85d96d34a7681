------------------------------- MODULE Script -------------------------------
(***************************************************************************)
(* The script interpreter of src/src/chain/script.ts, which decides whether *)
(* a Redeem may spend a lock. A script is a sequence of instructions, a     *)
(* push being one instruction with its item; evaluation folds one step over *)
(* it. An error ends the evaluation whatever its text, so there is one      *)
(* failed outcome.                                                         *)
(*                                                                         *)
(* Stack items are what the interpreter can tell apart: numbers, keys,      *)
(* signatures and digests, all tagged. The empty item is the number 0. The  *)
(* byte-level parts (truncated pushes, the push and script size limits)     *)
(* belong to the codec and are left out.                                    *)
(***************************************************************************)
EXTENDS Integers, Sequences, FiniteSets, SequencesExt

CONSTANTS
  MaxOps,        \* MAX_OPS: executed instructions other than pushes
  MaxStack,      \* MAX_STACK_SIZE, both stacks together
  MaxKeys,       \* MAX_MULTISIG_KEYS
  NumLimit,      \* the largest number an operand's four bytes hold
  LockTimeClock  \* LOCKTIME_THRESHOLD: from here on a lock time is a timestamp

ASSUME ScriptAssumption ==
  {MaxOps, MaxStack, MaxKeys, NumLimit, LockTimeClock} \subseteq Nat \ {0}

Num(n) == <<"num", n>>
Key(k) == <<"key", k>>
Sig(k, msg) == <<"sig", k, msg>>
Digest(h, item) == <<h, item>>
NegativeZero == <<"negative zero">>

Bool(b) == Num(IF b THEN 1 ELSE 0)
Truthy(item) == item \notin {Num(0), NegativeZero}

(* decodeNum: a minimal number of at most MAX_NUM_BYTES; anything else fails. *)
IsNumber(item) == item[1] = "num"
IsOperand(item) == IsNumber(item) /\ item[2] \in -NumLimit .. NumLimit
Value(item) == item[2]

(* edVerify, after the length checks on both items. *)
Verifies(sig, key, msg) == key[1] = "key" /\ sig = Sig(key[2], msg)

(* The length OP_SIZE pushes: keys and digests 32, signatures 64, numbers as
   encodeNum writes them (to two bytes). *)
Abs(n) == IF n < 0 THEN -n ELSE n
SizeOf(item) ==
  CASE item[1] = "num" -> IF item[2] = 0 THEN 0 ELSE IF Abs(item[2]) < 128 THEN 1 ELSE 2
    [] item[1] = "negative zero" -> 1
    [] item[1] = "sig" -> 64
    [] item[1] \in {"ripemd160", "hash160"} -> 20
    [] OTHER -> 32

-----------------------------------------------------------------------------
(* Stacks are written top first. Taken[op] is how many items the instruction
   pops, Outcomes what it pushes instead: no outcome is a failure. *)
Rearranged ==
  [DROP |-> 1, DUP |-> 1, IFDUP |-> 1, NIP |-> 2, OVER |-> 2, ROT |-> 3,
   SWAP |-> 2, TUCK |-> 2, TWODUP |-> 2, SIZE |-> 1]

Rearrange(op, a) ==
  CASE op = "DROP" -> <<>>
    [] op = "DUP" -> <<a[1], a[1]>>
    [] op = "IFDUP" -> IF Truthy(a[1]) THEN <<a[1], a[1]>> ELSE a
    [] op = "NIP" -> <<a[1]>>
    [] op = "OVER" -> <<a[2], a[1], a[2]>>
    [] op = "ROT" -> <<a[3], a[1], a[2]>>
    [] op = "SWAP" -> <<a[2], a[1]>>
    [] op = "TUCK" -> <<a[1], a[2], a[1]>>
    [] op = "TWODUP" -> <<a[1], a[2], a[1], a[2]>>
    [] op = "SIZE" -> <<Num(SizeOf(a[1])), a[1]>>

Arithmetic ==
  [ADD1 |-> 1, SUB1 |-> 1, NEGATE |-> 1, ABS |-> 1, NOT |-> 1, NOTEQUAL0 |-> 1,
   ADD |-> 2, SUB |-> 2, BOOLAND |-> 2, BOOLOR |-> 2, NUMEQUAL |-> 2,
   NUMNOTEQUAL |-> 2, LESSTHAN |-> 2, GREATERTHAN |-> 2, LESSTHANOREQUAL |-> 2,
   GREATERTHANOREQUAL |-> 2, MIN |-> 2, MAX |-> 2, WITHIN |-> 3]

(* On operands in the order they were pushed: a the deepest. *)
Unary(op, a) ==
  CASE op = "ADD1" -> Num(a + 1)
    [] op = "SUB1" -> Num(a - 1)
    [] op = "NEGATE" -> Num(-a)
    [] op = "ABS" -> Num(Abs(a))
    [] op = "NOT" -> Bool(a = 0)
    [] op = "NOTEQUAL0" -> Bool(a # 0)

Binary(op, a, b) ==
  CASE op = "ADD" -> Num(a + b)
    [] op = "SUB" -> Num(a - b)
    [] op = "BOOLAND" -> Bool(a # 0 /\ b # 0)
    [] op = "BOOLOR" -> Bool(a # 0 \/ b # 0)
    [] op = "NUMEQUAL" -> Bool(a = b)
    [] op = "NUMNOTEQUAL" -> Bool(a # b)
    [] op = "LESSTHAN" -> Bool(a < b)
    [] op = "GREATERTHAN" -> Bool(a > b)
    [] op = "LESSTHANOREQUAL" -> Bool(a <= b)
    [] op = "GREATERTHANOREQUAL" -> Bool(a >= b)
    [] op = "MIN" -> Num(IF a < b THEN a ELSE b)
    [] op = "MAX" -> Num(IF a > b THEN a ELSE b)

Calculate(op, n) ==
  CASE Len(n) = 1 -> Unary(op, n[1])
    [] Len(n) = 2 -> Binary(op, n[1], n[2])
    [] Len(n) = 3 -> Bool(n[2] <= n[1] /\ n[1] < n[3])

(* The instructions that test two or more items and push or demand a truth. *)
Tests == [VERIFY |-> 1, EQUAL |-> 2, EQUALVERIFY |-> 2, NUMEQUALVERIFY |-> 2,
          CHECKSIG |-> 2, CHECKSIGVERIFY |-> 2]
Demands == {"VERIFY", "EQUALVERIFY", "NUMEQUALVERIFY", "CHECKSIGVERIFY"}

Holds(op, a, ctx) ==
  CASE op = "VERIFY" -> Truthy(a[1])
    [] op \in {"EQUAL", "EQUALVERIFY", "NUMEQUALVERIFY"} -> a[1] = a[2]
    [] op \in {"CHECKSIG", "CHECKSIGVERIFY"} -> Verifies(a[2], a[1], ctx.sighash)

Digests == [RIPEMD160 |-> <<"ripemd160">>, SHA256 |-> <<"sha256">>,
            HASH160 |-> <<"hash160">>, HASH256 |-> <<"sha256", "sha256">>]

(* OP_CHECKLOCKTIMEVERIFY: heights against the including block's height,
   timestamps against its median-time-past. *)
Matured(n, ctx) ==
  n >= 0 /\ n <= (IF n < LockTimeClock THEN ctx.height ELSE ctx.mtp)

(* opCheckMultisig's scan: each signature takes the first key after the one
   before it took; next[i] is the position the i-th signature took, 0 for none. *)
Matching(sigs, keys, msg) ==
  LET next[i \in 0 .. Len(sigs)] ==
        IF i = 0 THEN 0
        ELSE IF i > 1 /\ next[i - 1] = 0 THEN 0
        ELSE LET fit == {j \in DOMAIN keys : j > next[i - 1] /\ Verifies(sigs[i], keys[j], msg)}
             IN IF fit = {} THEN 0 ELSE CHOOSE j \in fit : \A k \in fit : j <= k
  IN next[Len(sigs)] # 0

(* <sigs> <m> <keys> <n> on the stack give way to one truth. *)
Multisig(stack, ctx) ==
  IF stack = <<>> \/ ~IsOperand(Head(stack)) THEN {}
  ELSE LET n == Value(Head(stack)) IN
    IF n \notin 1 .. MaxKeys \/ Len(stack) < n + 2 \/ ~IsOperand(stack[n + 2]) THEN {}
    ELSE LET m == Value(stack[n + 2])
             keys == Reverse(SubSeq(stack, 2, n + 1))
             sigs == Reverse(SubSeq(stack, n + 3, n + m + 2))
         IN IF m \notin 1 .. n \/ Len(stack) < n + m + 2 THEN {}
            ELSE {<<Bool(Matching(sigs, keys, ctx.sighash))>> \o SubSeq(stack, n + m + 3, Len(stack))}

(* OP_PICK and OP_ROLL: the item n below the top of what is left. *)
Dug(op, stack) ==
  LET rest == Tail(stack)
      n == Value(Head(stack))
  IN IF stack = <<>> \/ ~IsOperand(Head(stack)) \/ n \notin 0 .. Len(rest) - 1 THEN {}
     ELSE {<<rest[n + 1]>> \o IF op = "PICK" THEN rest ELSE RemoveAt(rest, n + 1)}

-----------------------------------------------------------------------------
Start(witness) ==
  [stack |-> Reverse(witness), alt |-> <<>>, cond |-> <<>>, ops |-> 0,
   ok |-> Len(witness) <= MaxStack]

(* Only when every enclosing branch is the taken one. *)
Executing(s) == \A i \in DOMAIN s.cond : s.cond[i]

Fail(s) == [s EXCEPT !.ok = FALSE]

(* The stacks that an instruction may leave: none when it fails. *)
Stacks(instruction, s, ctx) ==
  LET op == instruction[1]
      Takes(n) == Len(s.stack) >= n
      args(n) == SubSeq(s.stack, 1, n)
      rest(n) == SubSeq(s.stack, n + 1, Len(s.stack))
  IN CASE op \in DOMAIN Rearranged ->
            LET n == Rearranged[op] IN
            IF Takes(n) THEN {Rearrange(op, args(n)) \o rest(n)} ELSE {}
       [] op \in DOMAIN Arithmetic ->
            LET n == Arithmetic[op] IN
            IF Takes(n) /\ \A i \in 1 .. n : IsOperand(s.stack[i])
              THEN {<<Calculate(op, [i \in 1 .. n |-> Value(s.stack[n + 1 - i])])>> \o rest(n)}
              ELSE {}
       [] op \in DOMAIN Tests ->
            LET n == Tests[op] IN
            IF ~Takes(n) \/ (op = "NUMEQUALVERIFY" /\ ~\A i \in 1 .. n : IsOperand(s.stack[i]))
                \/ (op \in Demands /\ ~Holds(op, args(n), ctx)) THEN {}
            ELSE IF op \in Demands THEN {rest(n)}
            ELSE {<<Bool(Holds(op, args(n), ctx))>> \o rest(n)}
       [] op \in DOMAIN Digests ->
            IF Takes(1) THEN {<<FoldLeft(LAMBDA item, h : Digest(h, item), s.stack[1], Digests[op])>> \o rest(1)}
            ELSE {}
       [] op = "SMALL" -> {<<Num(instruction[2])>> \o s.stack}
       [] op = "DEPTH" -> {<<Num(Len(s.stack))>> \o s.stack}
       [] op \in {"PICK", "ROLL"} -> Dug(op, s.stack)
       [] op = "CHECKMULTISIG" -> Multisig(s.stack, ctx)
       [] op = "CLTV" ->
            IF Takes(1) /\ IsNumber(s.stack[1]) /\ Matured(Value(s.stack[1]), ctx)
              THEN {s.stack} ELSE {}
       [] op = "NOP" -> {s.stack}
       [] OTHER -> {}

Bounded(s) == IF Len(s.stack) + Len(s.alt) > MaxStack THEN Fail(s) ELSE s

Becomes(s, stacks) ==
  IF stacks = {} THEN Fail(s) ELSE Bounded([s EXCEPT !.stack = CHOOSE x \in stacks : TRUE])

Operate(instruction, s, ctx) ==
  CASE instruction[1] = "TOALTSTACK" ->
         IF s.stack = <<>> THEN Fail(s)
         ELSE [s EXCEPT !.alt = <<Head(s.stack)>> \o @, !.stack = Tail(@)]
    [] instruction[1] = "FROMALTSTACK" ->
         IF s.alt = <<>> THEN Fail(s)
         ELSE [s EXCEPT !.stack = <<Head(s.alt)>> \o @, !.alt = Tail(@)]
    [] OTHER -> Becomes(s, Stacks(instruction, s, ctx))

(* One executed instruction that is neither a push nor flow control. *)
Execute(instruction, s, ctx) ==
  IF s.ops + 1 > MaxOps THEN Fail(s)
  ELSE Operate(instruction, [s EXCEPT !.ops = @ + 1], ctx)

(* Flow control runs in branches not taken as well, to keep the nesting. *)
Flow(op, s) ==
  CASE op = "IF" /\ ~Executing(s) -> [s EXCEPT !.cond = Append(@, FALSE)]
    [] op = "IF" /\ Executing(s) ->
         IF s.stack = <<>> THEN Fail(s)
         ELSE [s EXCEPT !.cond = Append(@, Truthy(Head(s.stack))), !.stack = Tail(@)]
    [] op # "IF" /\ s.cond = <<>> -> Fail(s)
    [] op = "ELSE" /\ s.cond # <<>> -> [s EXCEPT !.cond[Len(s.cond)] = ~@]
    [] op = "ENDIF" /\ s.cond # <<>> -> [s EXCEPT !.cond = Front(@)]

(* One instruction: <<name>>, <<"PUSH", item>> or <<"SMALL", n>> (OP_1 .. OP_16). *)
Step(s, instruction, ctx) ==
  LET op == instruction[1]
  IN IF ~s.ok THEN s
     ELSE IF op = "PUSH"
       THEN IF Executing(s) THEN Bounded([s EXCEPT !.stack = <<instruction[2]>> \o @]) ELSE s
     ELSE IF op \in {"IF", "ELSE", "ENDIF"} THEN Flow(op, s)
     ELSE IF Executing(s) THEN Execute(instruction, s, ctx)
     ELSE s

(* evalScript: ends balanced with a truthy item on top. *)
Passes(s) == s.ok /\ s.cond = <<>> /\ s.stack # <<>> /\ Truthy(Head(s.stack))

EvalScript(script, witness, ctx) ==
  Passes(FoldLeft(LAMBDA s, i : Step(s, i, ctx), Start(witness), script))
=============================================================================
