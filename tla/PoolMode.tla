------------------------------- MODULE PoolMode -------------------------------
(***************************************************************************)
(* Pool mode as runPoolClient of src/src/minerd/poolClient.ts starts it: a    *)
(* pool that takes the registration is mined for by the classic client, one   *)
(* that answers "negotiated" by the negotiated client, on a chain of its own. *)
(* A client that ends, also because the pool wants the other one ("restart the *)
(* miner to switch over"), leaves the next choice to a new session.           *)
(***************************************************************************)
EXTENDS PoolClient, NegotiatedClient

modeVars == <<poolVars, negoVars>>

Connecting == loop = "off" /\ conn = "off"

Init == Connecting /\ PoolQuiet /\ NegoQuiet

(* register: 200. *)
StartClassic ==
  /\ Connecting /\ loop' = "pausing"
  /\ UNCHANGED <<negoVars, longPoll, forcePlainPoll, lastStaleWakeJob, jobVars,
                 grindVars, dispatcher, epoch, stopped, posts, poolJob, faults>>

(* register: 410, or 400 with the word. The cold start leaves a chain anywhere up
   to the network's tip. *)
HandOff ==
  /\ Connecting /\ conn' = "closed" /\ tip' \in 0 .. MaxTip
  /\ UNCHANGED <<poolVars, socketGen, poolSide, grinding, reg, registeringGen, chases,
                 workerVars, over, mishaps>>

Classic == loop # "off" /\ PoolNext /\ UNCHANGED negoVars
Negotiated == conn # "off" /\ NegoNext /\ UNCHANGED poolVars

Next == StartClassic \/ HandOff \/ Classic \/ Negotiated

Spec == Init /\ [][Next]_modeVars /\ PoolFairness /\ NegoFairness
=============================================================================
