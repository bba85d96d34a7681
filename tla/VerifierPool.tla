----------------------------- MODULE VerifierPool -----------------------------
(***************************************************************************)
(* The worker threads that check proof of work for the sync, src/src/minerd/ *)
(* verify.ts, and one verify call on them. A block is whether its proof of    *)
(* work is good or bad; a message carries the id it was sent under.                 *)
(*                                                                         *)
(* The sync has one call at a time. A page goes to the persistent pool of a  *)
(* cold start, or to one that lives for the call only.                       *)
(***************************************************************************)
EXTENDS Integers, Sequences, FiniteSets

CONSTANTS Cores

ASSUME VerifierAssumption == Cores \in Nat \ {0}

Workers == 1 .. Cores

VARIABLES
  pool,    \* "open", a one-shot "call" pool, or "closed"
  idSeq,   \* idSeq
  routes,  \* routes: the slot of the call for each id out
  jobs,    \* what each worker has: the id and the block, or None
  call,    \* the call: its blocks, its results so far and `next`
  reply    \* what the promise of the call became, until its caller looks

verifierVars == <<pool, idSeq, routes, jobs, call, reply>>

None == <<>>
Unknown == "unknown"
Rejected == <<"rejected">>
Lost == <<"lost">>

Fresh == [w \in Workers |-> None]

NewVerifier == pool' = "open" /\ idSeq' = 1 /\ routes' = {} /\ jobs' = Fresh
               /\ call' = None /\ reply' = None

(* terminate: the call in flight is rejected, the workers go. *)
Terminate ==
  /\ pool' = "closed" /\ routes' = {} /\ jobs' = Fresh /\ call' = None
  /\ reply' = IF routes # {} THEN Rejected ELSE reply
  /\ UNCHANGED idSeq

Least(m, n) == IF m < n THEN m ELSE n

(* verify: one block to each worker to start with. *)
Verify(blocks) ==
  LET primed == Least(Cores, Len(blocks))
      first == IF pool = "open" THEN idSeq ELSE 1
  IN /\ pool' = IF pool = "open" THEN "open" ELSE "call"
     /\ idSeq' = first + primed
     /\ routes' = {<<first + i - 1, i>> : i \in 1 .. primed}
     /\ jobs' = [w \in Workers |->
                   IF w <= primed THEN <<first + w - 1, blocks[w]>> ELSE None]
     /\ call' = [blocks |-> blocks, next |-> primed + 1,
                 results |-> [i \in DOMAIN blocks |-> Unknown]]
     /\ reply' = None

Done == {i \in DOMAIN call.results : call.results[i] # Unknown}

(* A one-shot pool is terminated with its call. *)
Settle(how) ==
  /\ reply' = how /\ call' = None /\ routes' = {}
  /\ pool' = IF pool = "call" THEN "closed" ELSE pool
  /\ UNCHANGED idSeq

(* Mutant: results pile up in the order they come. *)
InArrivalOrder(slot) == Cardinality(Done) + 1

(* "results[i] = ok": the slot the id was given for. *)
SlotOf(slot) == slot

Hands(w, ok, slot) ==
  LET results == [call.results EXCEPT ![SlotOf(slot)] = ok]
      more == call.next <= Len(call.blocks)
  IN IF \A i \in DOMAIN results : results[i] # Unknown
       THEN Settle(results) /\ jobs' = [jobs EXCEPT ![w] = None]
       ELSE /\ call' = [call EXCEPT !.results = results,
                                    !.next = IF more THEN @ + 1 ELSE @]
            /\ routes' = {r \in routes : r[1] # jobs[w][1]}
                           \union IF more THEN {<<idSeq, call.next>>} ELSE {}
            /\ jobs' = [jobs EXCEPT ![w] =
                          IF more THEN <<idSeq, call.blocks[call.next]>> ELSE None]
            /\ idSeq' = IF more THEN idSeq + 1 ELSE idSeq
            /\ UNCHANGED <<pool, reply>>

(* A worker answers; without a route the answer is ignored. *)
Verified(w) ==
  /\ jobs[w] # None /\ jobs[w] # Lost
  /\ IF \E r \in routes : r[1] = jobs[w][1]
       THEN \E r \in routes : r[1] = jobs[w][1] /\ Hands(w, jobs[w][2], r[2])
       ELSE /\ jobs' = [jobs EXCEPT ![w] = None]
            /\ UNCHANGED <<pool, idSeq, routes, call, reply>>

(* A worker hangs, or dies without a word. *)
Hangs(w) ==
  /\ call # None /\ jobs[w] # None /\ jobs[w] # Lost
  /\ jobs' = [jobs EXCEPT ![w] = Lost]
  /\ UNCHANGED <<pool, idSeq, routes, call, reply>>

(* A worker reports an error. *)
WorkerError(w) ==
  /\ call # None
  /\ Settle(Rejected) /\ jobs' = [jobs EXCEPT ![w] = Lost]

(* Mutant: the first verdict clears the timer. *)
TimeoutWhileSilent == call # None /\ Done = {} /\ Settle(Rejected) /\ UNCHANGED jobs

Timeout == call # None /\ Settle(Rejected) /\ UNCHANGED jobs

VerifierStep ==
  \/ \E w \in Workers : Verified(w) \/ Hangs(w) \/ WorkerError(w)
  \/ Timeout
=============================================================================
