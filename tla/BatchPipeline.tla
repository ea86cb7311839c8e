---------------------------- MODULE BatchPipeline ----------------------------
(***************************************************************************)
(* The batch-pipeline state machine of infra/aws/orchestration/main.tf:    *)
(* executions started by EventBridge Scheduler (or by hand) compete for    *)
(* the DynamoDB lease "batch-pipeline", run the Silver and Gold Glue jobs  *)
(* and the projection Lambda in order, and give the lease back.            *)
(*                                                                         *)
(* state[e] holds the name of the Step Functions state execution e is in.  *)
(* runs holds the Glue runs and Lambda invocations in progress: a run may  *)
(* outlive the state that started it, when Step Functions loses track of   *)
(* it and takes the Catch branch.                                          *)
(***************************************************************************)
EXTENDS Integers

CONSTANTS
  Execution,         \* executions of the state machine
  NoLock,            \* the lock table holds no item
  LockTtl,           \* var.lock_ttl_seconds
  Budget,            \* longest stay in each timed state
  UnreliableReplies, \* may an AWS call take effect and still report an error?
  MaxClock           \* bound on the clock

VARIABLES
  clock,   \* $floor($millis() / 1000)
  lock,    \* the item of aws_dynamodb_table.pipeline_lock
  state,   \* current state of every execution
  entered, \* when an execution entered its timed state
  runs     \* work in progress: pairs <<job, execution>>

vars == <<clock, lock, state, entered, runs>>

Job      == {"RunSilver", "RunGold", "RunLatestProjection"}
GlueJob  == {"RunSilver", "RunGold"}
Release  == {"ReleaseLockAfterSuccess", "ReleaseLockAfterFailure"}
Terminal == {"AlreadyRunning", "WorkflowSucceeded", "WorkflowFailed"}
Timed    == {"AcquireLock"} \cup Job
State    == {"NotStarted"} \cup Timed \cup Release \cup Terminal

Lease == [owner : Execution, expires : 0 .. (MaxClock + LockTtl)]

ASSUME ConstantsAssumption ==
  /\ NoLock \notin Lease
  /\ LockTtl \in Nat
  /\ Budget \in [Timed -> Nat]
  /\ UnreliableReplies \in BOOLEAN
  /\ MaxClock \in Nat

\* The lease outlives everything done under it.  The defaults of the
\* repository (lease 3600 s, two Glue jobs of up to 60 min) do not satisfy it.
TtlCoversWork ==
  LockTtl >= Budget["AcquireLock"] + Budget["RunSilver"] + Budget["RunGold"]
             + Budget["RunLatestProjection"]

-----------------------------------------------------------------------------
(* The lease *)

Owns(e) == lock # NoLock /\ lock.owner = e

ConditionAcceptsLiveLease(now) == lock # NoLock => lock.expires <= now

\* ConditionExpression of AcquireLock, evaluated against :now_epoch.
Acquirable(now) == lock # NoLock => lock.expires < now

ExpiryInMilliseconds(e) ==
  lock' = [owner |-> e, expires |-> 1000 * entered[e] + LockTtl]

\* Item of AcquireLock: both times come from $millis() as the state is entered.
PutLock(e) == lock' = [owner |-> e, expires |-> entered[e] + LockTtl]

-----------------------------------------------------------------------------
(* Step Functions transitions *)

Goto(e, s) ==
  /\ state' = [state EXCEPT ![e] = s]
  /\ entered' = [entered EXCEPT ![e] = IF s \in Timed THEN clock ELSE 0]

NextSkipsGold ==
  [s \in Job |-> IF s = "RunLatestProjection" THEN "ReleaseLockAfterSuccess"
                                              ELSE "RunLatestProjection"]

\* "Next" of the task states.
NextState ==
  [s \in Job |-> CASE s = "RunSilver"           -> "RunGold"
                   [] s = "RunGold"             -> "RunLatestProjection"
                   [] s = "RunLatestProjection" -> "ReleaseLockAfterSuccess"]

\* Catch States.ALL of the task states.
Catch(e) == Goto(e, "ReleaseLockAfterFailure")

\* The schedule (or an operator) starts an execution.  Starts after
\* MaxClock - LockTtl - 1 are left out, so that a lease can expire in time.
StartExecution(e) ==
  /\ state[e] = "NotStarted"
  /\ clock + LockTtl < MaxClock
  /\ Goto(e, "AcquireLock")
  /\ UNCHANGED <<clock, lock, runs>>

AcquireLock(e) ==
  /\ state[e] = "AcquireLock"
  /\ Acquirable(entered[e])
  /\ PutLock(e)
  /\ Goto(e, "RunSilver")
  /\ UNCHANGED <<clock, runs>>

\* DynamoDB.ConditionalCheckFailedException -> AlreadyRunning
AcquireRefused(e) ==
  /\ state[e] = "AcquireLock"
  /\ ~Acquirable(entered[e])
  /\ Goto(e, "AlreadyRunning")
  /\ UNCHANGED <<clock, lock, runs>>

\* Any other error -> WorkflowFailed; the item was not written.
AcquireFails(e) ==
  /\ state[e] = "AcquireLock"
  /\ Goto(e, "WorkflowFailed")
  /\ UNCHANGED <<clock, lock, runs>>

\* The item was written but the reply did not arrive.  The state fails, or the
\* client's retry meets its own item and reports a failed condition.
AcquireReplyLost(e) ==
  /\ UnreliableReplies
  /\ state[e] = "AcquireLock"
  /\ Acquirable(entered[e])
  /\ PutLock(e)
  /\ \E s \in {"WorkflowFailed", "AlreadyRunning"} : Goto(e, s)
  /\ UNCHANGED <<clock, runs>>

AdmittedAlways(j) == j \in Job

\* Glue runs at most one run of a job (max_concurrent_runs = 1); Lambda has no
\* such limit.
Admitted(j) == j \in GlueJob => \A r \in runs : r[1] # j

StartWithoutSync(e) ==
  /\ state[e] \in Job
  /\ Admitted(state[e])
  /\ runs' = runs \cup {<<state[e], e>>}
  /\ Goto(e, NextState[state[e]])
  /\ UNCHANGED <<clock, lock>>

\* glue:startJobRun.sync or lambda:invoke is accepted; the state waits.
StartJob(e) ==
  /\ state[e] \in Job
  /\ <<state[e], e>> \notin runs
  /\ Admitted(state[e])
  /\ runs' = runs \cup {<<state[e], e>>}
  /\ UNCHANGED <<clock, lock, state, entered>>

\* ConcurrentRunsExceeded or any other refusal of the call.
StartFails(e) ==
  /\ state[e] \in Job
  /\ <<state[e], e>> \notin runs
  /\ Catch(e)
  /\ UNCHANGED <<clock, lock, runs>>

JobSucceeds(e) ==
  /\ <<state[e], e>> \in runs
  /\ runs' = runs \ {<<state[e], e>>}
  /\ Goto(e, NextState[state[e]])
  /\ UNCHANGED <<clock, lock>>

RetryForever(e) ==
  /\ <<state[e], e>> \in runs
  /\ runs' = runs \ {<<state[e], e>>}
  /\ UNCHANGED <<clock, lock, state, entered>>

\* The run fails, or Glue stops it at its timeout (glue_job_timeout_minutes).
JobFails(e) ==
  /\ <<state[e], e>> \in runs
  /\ runs' = runs \ {<<state[e], e>>}
  /\ Catch(e)
  /\ UNCHANGED <<clock, lock>>

\* The wait fails but the run goes on: the Catch branch releases the lease
\* under a run that is still writing.
LoseTrack(e) ==
  /\ UnreliableReplies
  /\ <<state[e], e>> \in runs
  /\ Catch(e)
  /\ UNCHANGED <<clock, lock, runs>>

\* Where the release states go, whatever deleteItem answers.
AfterRelease ==
  [s \in Release |-> IF s = "ReleaseLockAfterSuccess" THEN "WorkflowSucceeded"
                                                      ELSE "WorkflowFailed"]

ReleaseAnyOwner(e) ==
  /\ state[e] \in Release
  /\ lock' = NoLock
  /\ Goto(e, AfterRelease[state[e]])
  /\ UNCHANGED <<clock, runs>>

\* deleteItem on condition owner_execution_arn = own execution; a failed
\* condition is an error, and errors are caught.
ReleaseLock(e) ==
  /\ state[e] \in Release
  /\ lock' = IF Owns(e) THEN NoLock ELSE lock
  /\ Goto(e, AfterRelease[state[e]])
  /\ UNCHANGED <<clock, runs>>

\* deleteItem fails: the execution ends and its lease stays until it expires.
ReleaseFails(e) ==
  /\ state[e] \in Release
  /\ Goto(e, AfterRelease[state[e]])
  /\ UNCHANGED <<clock, lock, runs>>

-----------------------------------------------------------------------------
(* Time and the services *)

\* A run nobody waits for any more ends.
OrphanEnds(e) ==
  /\ \E j \in Job : <<j, e>> \in runs /\ state[e] # j /\ runs' = runs \ {<<j, e>>}
  /\ UNCHANGED <<clock, lock, state, entered>>

\* The ttl block of the lock table: DynamoDB deletes an expired item, some time
\* after it expired.
ExpireItem ==
  /\ lock # NoLock
  /\ lock.expires < clock
  /\ lock' = NoLock
  /\ UNCHANGED <<clock, state, entered, runs>>

\* Time passes, but no execution stays in a timed state past its budget.
Tick ==
  /\ clock < MaxClock
  /\ \A e \in Execution :
       state[e] \in Timed => clock < entered[e] + Budget[state[e]]
  /\ clock' = clock + 1
  /\ UNCHANGED <<lock, state, entered, runs>>

-----------------------------------------------------------------------------

Init ==
  /\ clock = 0
  /\ lock = NoLock
  /\ state = [e \in Execution |-> "NotStarted"]
  /\ entered = [e \in Execution |-> 0]
  /\ runs = {}

\* What the state machine does for an execution already started.
Step(e) ==
  \/ AcquireLock(e) \/ AcquireRefused(e) \/ AcquireFails(e) \/ AcquireReplyLost(e)
  \/ StartJob(e) \/ StartFails(e) \/ JobSucceeds(e) \/ JobFails(e) \/ LoseTrack(e)
  \/ ReleaseLock(e) \/ ReleaseFails(e)

Next ==
  \/ \E e \in Execution : StartExecution(e) \/ Step(e) \/ OrphanEnds(e)
  \/ ExpireItem
  \/ Tick

Spec == Init /\ [][Next]_vars

\* Step Functions drives every execution on, a Glue run or a Lambda invocation
\* ends (they have timeouts), and time passes.  Nothing obliges DynamoDB to
\* delete an expired item, and nothing obliges the schedule to fire.
Fairness ==
  /\ \A e \in Execution : WF_vars(Step(e)) /\ WF_vars(OrphanEnds(e))
  /\ WF_vars(Tick)

FairSpec == Spec /\ Fairness

-----------------------------------------------------------------------------
(* Properties *)

TypeOK ==
  /\ clock \in 0 .. MaxClock
  /\ lock \in Lease \cup {NoLock}
  /\ state \in [Execution -> State]
  /\ entered \in [Execution -> 0 .. MaxClock]
  /\ runs \subseteq Job \X Execution

\* main.tf:57, "a DynamoDB single-flight lock": no two executions are between
\* acquiring and releasing the lease.
SingleFlight ==
  \A e, f \in Execution : state[e] \in Job /\ state[f] \in Job => e = f

\* An execution that works holds the lease, and it has not expired.
LeaseCoversWork ==
  \A e \in Execution : state[e] \in Job => Owns(e) /\ clock <= lock.expires

\* Longest time between entering state s and the end of the projection.
WorkLeft ==
  [s \in Job |->
     CASE s = "RunSilver" -> Budget["RunSilver"] + Budget["RunGold"]
                             + Budget["RunLatestProjection"]
       [] s = "RunGold"   -> Budget["RunGold"] + Budget["RunLatestProjection"]
       [] OTHER           -> Budget["RunLatestProjection"]]

\* The inductive core of SingleFlight: no execution overstays its budget, and
\* a working execution's lease reaches past the work it still has to do.
LeaseInv ==
  \A e \in Execution :
    /\ state[e] \in Timed => /\ entered[e] <= clock
                            /\ clock <= entered[e] + Budget[state[e]]
    /\ state[e] \in Job => /\ Owns(e)
                          /\ entered[e] + WorkLeft[state[e]] <= lock.expires

\* The Glue runs and Lambda invocations themselves exclude each other: no run
\* rewrites a table another one reads.  State exclusion gives it only because
\* the states wait for the runs they start (.sync) and never lose one.
RunsNeverOverlap == \A r, s \in runs : r = s

\* A lease leaves its owner only when that owner's own release state ends, or
\* once it has expired: an execution that outlived its lease cannot delete its
\* successor's.
LeaseLostOnlyByRightfulMeans ==
  [][\A e \in Execution : Owns(e) /\ ~Owns(e)' =>
       \/ lock.expires < clock
       \/ state[e] \in Release /\ state'[e] \in Terminal]_vars

\* Every started execution reaches a Succeed or Fail state.
EveryExecutionEnds ==
  \A e \in Execution : state[e] = "AcquireLock" ~> state[e] \in Terminal

\* A lease left behind by an execution that has ended (lost reply, failed
\* deleteItem) does not block the schedule for ever.
LeftoverLeaseClears ==
  \A e \in Execution :
    Owns(e) /\ state[e] \in Terminal ~> ~Owns(e) \/ lock.expires < clock

\* The stage of the abstract chain an execution is in.
StageOf(s) ==
  CASE s \in {"NotStarted", "AcquireLock"} -> "idle"
    [] s = "RunSilver"                     -> "silver"
    [] s = "RunGold"                       -> "gold"
    [] s = "RunLatestProjection"           -> "projection"
    [] OTHER                               -> "over"

Abstract == INSTANCE SingleFlight
              WITH stage <- [e \in Execution |-> StageOf(state[e])]

\* The state machine implements the abstract chain: Silver, Gold and projection
\* in order, one execution at a time.
ImplementsSingleFlight == Abstract!Spec
=============================================================================
