---------------------------- MODULE SingleFlight ----------------------------
(***************************************************************************)
(* What the scheduled batch chain promises (infra/aws/orchestration):      *)
(* an execution runs Silver, then Gold, then the latest projection, in     *)
(* that order, and no two executions are inside the chain together.  An    *)
(* execution may give up at any point.  BatchPipeline implements this when *)
(* the lease outlives the work done under it.                              *)
(***************************************************************************)

CONSTANT Execution

VARIABLE stage

Chain == {"silver", "gold", "projection"}

Stage == {"idle", "over"} \cup Chain

Init == stage = [e \in Execution |-> "idle"]

\* e enters the chain; nobody else may be in it.
Begin(e) ==
  /\ stage[e] = "idle"
  /\ \A f \in Execution : stage[f] \notin Chain
  /\ stage' = [stage EXCEPT ![e] = "silver"]

\* One link of the chain completes and the next one starts.
Advance(e) ==
  \/ stage[e] = "silver"     /\ stage' = [stage EXCEPT ![e] = "gold"]
  \/ stage[e] = "gold"       /\ stage' = [stage EXCEPT ![e] = "projection"]
  \/ stage[e] = "projection" /\ stage' = [stage EXCEPT ![e] = "over"]

\* e is refused, or one of its steps fails.
Abandon(e) ==
  /\ stage[e] # "over"
  /\ stage' = [stage EXCEPT ![e] = "over"]

Next == \E e \in Execution : Begin(e) \/ Advance(e) \/ Abandon(e)

Spec == Init /\ [][Next]_stage
=============================================================================
