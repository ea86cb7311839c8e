----------------------------- MODULE YarnSubmit -----------------------------
(***************************************************************************)
(* Submission of the Spark applications of the on-premises platform:       *)
(* infra/scripts/submit-*.sh and stop-yarn-application.sh, run by Airflow  *)
(* (orchestration/dags) and by hand (Makefile).                            *)
(*                                                                         *)
(* The streaming scripts list the RUNNING and ACCEPTED applications, skip  *)
(* when one has their name, and return once YARN has accepted what they    *)
(* submit; the batch scripts submit without looking and wait for the end.  *)
(* A slot is a DAG run, or a terminal running make.                        *)
(***************************************************************************)
EXTENDS Naturals, Sequences, FiniteSets

CONSTANTS
  Slot,        \* DAG runs and terminals that may be busy at the same time
  Request,     \* the DAGs, make targets and stops considered
  AppId,       \* bound: applications alive or awaited at a time, numbers
  YarnOnPath,  \* does command -v yarn find the client where the scripts run?
  MaxFaults,   \* bound: failed listings and clients that die
  Idle, NoApp  \* a slot with nothing to do; a slot without an application

VARIABLES
  slot,   \* what every slot is doing
  app,    \* the applications of the ResourceManager
  faults, \* failed listings and dead clients so far
  raced,  \* streaming names two slots were submitting at the same time
  faulty  \* names a listing failed for, or whose client died

vars == <<slot, app, faults, raced, faulty>>

\* The tasks of a DAG or of a make target, in order.
Tasks ==
  [raw_market_candles |-> <<"raw">>,       bronze_market_candles |-> <<"bronze">>,
   silver_market_candles |-> <<"silver">>, gold_market_indicators |-> <<"gold">>,
   serving_market_datamart |-> <<"serving">>,
   market_streaming_submit |-> <<"raw", "bronze">>,
   market_batch_pipeline |-> <<"silver", "gold", "serving">>,
   raw_up |-> <<"raw">>, bronze_up |-> <<"bronze">>, run_silver |-> <<"silver">>,
   run_gold |-> <<"gold">>, run_serving |-> <<"serving">>]

Make      == {"raw_up", "bronze_up", "run_silver", "run_gold", "run_serving"}
Dag       == DOMAIN Tasks \ Make
Stop      == [raw_stop |-> "raw", bronze_stop |-> "bronze"]
Streaming == {"raw", "bronze"}
Name      == Streaming \cup {"silver", "gold", "serving"}

ASSUME YarnAssumption ==
  /\ Request \subseteq DOMAIN Tasks \cup DOMAIN Stop
  /\ AppId \subseteq Nat
  /\ YarnOnPath \in BOOLEAN
  /\ MaxFaults \in Nat
  /\ NoApp \notin AppId

Live == {"SUBMITTED", "ACCEPTED", "RUNNING"}

Busy(s) == slot[s] # Idle

\* Slot s is executing the submit script of name n.
Doing(s, n) == Busy(s) /\ slot[s].name = n

\* s has decided to submit n, and YARN has not accepted it yet.
Submitting(s, n) == Doing(s, n) /\ slot[s].phase \in {"submit", "submitted"}

ListedRunning(n) == {i \in AppId : app[i].name = n /\ app[i].state = "RUNNING"}

\* yarn application -list -appStates RUNNING,ACCEPTED, filtered by name.
Listed(n) == {i \in AppId : app[i].name = n /\ app[i].state \in {"RUNNING", "ACCEPTED"}}

\* An application that has ended and that no client waits for leaves no trace.
Forgotten == [name |-> "raw", state |-> "unused", client |-> Idle]

Ended(i, s) == IF app[i].client = Idle THEN Forgotten ELSE [app[i] EXCEPT !.state = s]

\* The client of application i returns or dies.
ClientLeaves(i) ==
  app' = [app EXCEPT ![i] = IF @.state \in Live THEN [@ EXCEPT !.client = Idle] ELSE Forgotten]

-----------------------------------------------------------------------------
(* Slots *)

\* The streaming scripts check first; the batch scripts do not.
Task(r, k) ==
  LET n == Tasks[r][k]
  IN  [request |-> r, task |-> k, name |-> n, app |-> NoApp, ids |-> {},
       phase |-> IF n \in Streaming THEN "check" ELSE "submit"]

Become(s, what) == slot' = [slot EXCEPT ![s] = what]

\* The next task of the DAG, or the end of the run (retries 0).
NextTask(s) ==
  LET r == slot[s].request
  IN  Become(s, IF slot[s].task < Len(Tasks[r]) THEN Task(r, slot[s].task + 1) ELSE Idle)

\* A DAG is triggered (max_active_runs = 1), or make is called.
Start(s, r) ==
  /\ ~Busy(s)
  /\ r \in DOMAIN Tasks
  /\ r \in Dag => \A t \in Slot : Busy(t) => slot[t].request # r
  /\ Become(s, Task(r, 1))
  /\ UNCHANGED <<app, faults, raced, faulty>>

\* s goes on to spark-submit.
GoOn(s) ==
  LET n == slot[s].name IN
  /\ Become(s, [slot[s] EXCEPT !.phase = "submit"])
  /\ raced' = IF \E t \in Slot \ {s} : Submitting(t, n) THEN raced \cup {n} ELSE raced

\* The condition of the script is false: there is no yarn command, or no
\* application of that name in the listing.
CheckPasses(s) ==
  /\ Busy(s) /\ slot[s].phase = "check"
  /\ YarnOnPath => Listed(slot[s].name) = {}
  /\ GoOn(s)
  /\ UNCHANGED <<app, faults, faulty>>

\* Already running or accepted: exit 0.
Skip(s) ==
  /\ Busy(s) /\ slot[s].phase = "check"
  /\ YarnOnPath /\ Listed(slot[s].name) # {}
  /\ NextTask(s)
  /\ UNCHANGED <<app, faults, raced, faulty>>

\* The listing fails; in an if, under 2>/dev/null, that reads as "not running".
ListingFails(s) ==
  /\ Busy(s) /\ slot[s].phase = "check"
  /\ YarnOnPath /\ faults < MaxFaults
  /\ GoOn(s)
  /\ faults' = faults + 1
  /\ faulty' = faulty \cup {slot[s].name}
  /\ UNCHANGED app

\* Identifiers no live application has and nobody refers to any more: YARN would
\* use a fresh one.
Unused == {i \in AppId : app[i] = Forgotten /\ \A t \in Slot : Busy(t) => i \notin slot[t].ids}

SubmitLosingId(s) ==
  /\ Busy(s) /\ slot[s].phase = "submit"
  /\ \E i \in Unused :
       /\ \A j \in Unused : i <= j
       /\ app' = [app EXCEPT ![i] = [name |-> slot[s].name, state |-> "SUBMITTED", client |-> s]]
       /\ Become(s, [slot[s] EXCEPT !.phase = "submitted"])
  /\ UNCHANGED <<faults, raced, faulty>>

\* spark-submit hands the application to YARN.
Submit(s) ==
  /\ Busy(s) /\ slot[s].phase = "submit"
  /\ \E i \in Unused :
       /\ \A j \in Unused : i <= j
       /\ app' = [app EXCEPT ![i] = [name |-> slot[s].name, state |-> "SUBMITTED", client |-> s]]
       /\ Become(s, [slot[s] EXCEPT !.phase = "submitted", !.app = i])
  /\ UNCHANGED <<faults, raced, faulty>>

\* spark-submit fails before YARN has the application: the task fails, and with
\* it the DAG run.
SubmitFails(s) ==
  /\ Busy(s) /\ slot[s].phase = "submit"
  /\ Become(s, Idle)
  /\ UNCHANGED <<app, faults, raced, faulty>>

NeverWait(s) ==
  /\ Busy(s) /\ slot[s].phase = "submitted"
  /\ app[slot[s].app].state \notin {"SUBMITTED", "FAILED"}
  /\ NextTask(s) /\ ClientLeaves(slot[s].app)
  /\ UNCHANGED <<faults, raced, faulty>>

\* The client sees the application accepted: waitAppCompletion = false returns,
\* true goes on waiting.
Accepted(s) ==
  /\ Busy(s) /\ slot[s].phase = "submitted"
  /\ app[slot[s].app].state \notin {"SUBMITTED", "FAILED"}
  /\ IF slot[s].name \in Streaming
       THEN NextTask(s) /\ ClientLeaves(slot[s].app)
       ELSE Become(s, [slot[s] EXCEPT !.phase = "wait"]) /\ UNCHANGED app
  /\ UNCHANGED <<faults, raced, faulty>>

\* The batch application the client waits for has succeeded.
Completed(s) ==
  /\ Busy(s) /\ slot[s].phase = "wait"
  /\ app[slot[s].app].state = "SUCCEEDED"
  /\ NextTask(s) /\ ClientLeaves(slot[s].app)
  /\ UNCHANGED <<faults, raced, faulty>>

TaskFailsOnlyWhileWaiting(s) ==
  /\ Busy(s) /\ slot[s].phase = "wait"
  /\ app[slot[s].app].state = "FAILED"
  /\ Become(s, Idle) /\ ClientLeaves(slot[s].app)
  /\ UNCHANGED <<faults, raced, faulty>>

\* The application has failed or was killed: so does the task.
TaskFails(s) ==
  /\ Busy(s) /\ slot[s].phase \in {"submitted", "wait"}
  /\ app[slot[s].app].state = "FAILED"
  /\ Become(s, Idle) /\ ClientLeaves(slot[s].app)
  /\ UNCHANGED <<faults, raced, faulty>>

\* The client dies (its container stops); the application runs in the cluster.
ClientDies(s) ==
  /\ Busy(s) /\ slot[s].phase \in {"submitted", "wait"}
  /\ faults < MaxFaults
  /\ faults' = faults + 1
  /\ faulty' = faulty \cup {slot[s].name}
  /\ Become(s, Idle) /\ ClientLeaves(slot[s].app)
  /\ UNCHANGED raced

-----------------------------------------------------------------------------
(* stop-yarn-application.sh *)

\* The applications of that name are listed; a listing that fails is an empty one.
StartStop(s, r) ==
  /\ ~Busy(s)
  /\ r \in DOMAIN Stop
  /\ \E ids \in {Listed(Stop[r]), {}} :
       Become(s, [request |-> r, task |-> 1, name |-> Stop[r], app |-> NoApp,
                  ids |-> ids, phase |-> "kill"])
  /\ UNCHANGED <<app, faults, raced, faulty>>

\* yarn application -kill for one of the applications listed.
Kill(s) ==
  /\ Busy(s) /\ slot[s].phase = "kill"
  /\ \E i \in slot[s].ids :
       /\ Become(s, [slot[s] EXCEPT !.ids = @ \ {i}])
       /\ app' = IF app[i].state \in Live THEN [app EXCEPT ![i] = Ended(i, "FAILED")] ELSE app
  /\ UNCHANGED <<faults, raced, faulty>>

\* All are killed, or a kill fails and set -e ends the script.
StopEnds(s) ==
  /\ Busy(s) /\ slot[s].phase = "kill"
  /\ slot[s].ids = {} \/ faults < MaxFaults
  /\ faults' = IF slot[s].ids = {} THEN faults ELSE faults + 1
  /\ Become(s, Idle)
  /\ UNCHANGED <<app, raced, faulty>>

-----------------------------------------------------------------------------
(* YARN *)

\* The scheduler accepts a submitted application.
Accept(i) ==
  /\ app[i].state = "SUBMITTED"
  /\ app' = [app EXCEPT ![i].state = "ACCEPTED"]
  /\ UNCHANGED <<slot, faults, raced, faulty>>

\* An accepted application gets its first container.
Run(i) ==
  /\ app[i].state = "ACCEPTED"
  /\ app' = [app EXCEPT ![i].state = "RUNNING"]
  /\ UNCHANGED <<slot, faults, raced, faulty>>

\* An application ends; a streaming application never does so with success.
End(i) ==
  /\ app[i].state \in Live
  /\ \E s \in {"SUCCEEDED", "FAILED"} :
       /\ s = "SUCCEEDED" => app[i].state = "RUNNING" /\ app[i].name \notin Streaming
       /\ app' = [app EXCEPT ![i] = Ended(i, s)]
  /\ UNCHANGED <<slot, faults, raced, faulty>>

-----------------------------------------------------------------------------

Init ==
  /\ slot = [s \in Slot |-> Idle]
  /\ app = [i \in AppId |-> Forgotten]
  /\ faults = 0
  /\ raced = {}
  /\ faulty = {}

Proceed(s) ==
  \/ CheckPasses(s) \/ Skip(s) \/ Submit(s) \/ SubmitFails(s)
  \/ Accepted(s) \/ Completed(s) \/ TaskFails(s) \/ Kill(s) \/ StopEnds(s)

Next ==
  \/ \E s \in Slot : \E r \in Request : Start(s, r) \/ StartStop(s, r)
  \/ \E s \in Slot : Proceed(s) \/ ListingFails(s) \/ ClientDies(s)
  \/ \E i \in AppId : Accept(i) \/ Run(i) \/ End(i)

Spec == Init /\ [][Next]_vars

\* A script goes on, and YARN accepts or fails what is submitted.  Nothing obliges
\* YARN to start an application (the cluster may be full) nor one to end.
Fairness ==
  /\ \A s \in Slot : WF_vars(Proceed(s))
  /\ \A i \in AppId : WF_vars(Accept(i))

FairSpec == Spec /\ Fairness

-----------------------------------------------------------------------------
(* Properties *)

Doings == [request : DOMAIN Tasks \cup DOMAIN Stop, task : 1 .. 3, name : Name,
           app : AppId \cup {NoApp}, ids : SUBSET AppId,
           phase : {"check", "submit", "submitted", "wait", "kill"}]

App == [name : Name, state : Live \cup {"unused", "SUCCEEDED", "FAILED"},
        client : Slot \cup {Idle}]

ASSUME IdleAssumption == Idle \notin Doings \cup Slot

TypeOK ==
  /\ slot \in [Slot -> Doings \cup {Idle}]
  /\ \A s \in Slot : Busy(s) =>
       /\ slot[s].app \in AppId <=> slot[s].phase \in {"submitted", "wait"}
       /\ slot[s].request \in DOMAIN Tasks <=> slot[s].phase # "kill"
  /\ app \in [AppId -> App]
  /\ faults \in 0 .. MaxFaults
  /\ raced \subseteq Name
  /\ faulty \subseteq Name

\* orchestration/README.md:22, a script does not start an application that is
\* running or accepted already: unless two slots submit a name at the same time, a
\* listing fails or a client dies, no streaming application has two live copies
\* on one checkpoint.
OneCopyUnlessRaced ==
  \A n \in Streaming \ (raced \cup faulty) : \A i, j \in AppId :
    /\ app[i].name = n /\ app[i].state \in Live
    /\ app[j].name = n /\ app[j].state \in Live
    => i = j

\* The steps of market_batch_pipeline never overlap: a live batch application is
\* one a slot waits for, before it goes on to the next task; unless a client of
\* that name died.  (Two slots can still run one batch job at the same time.)
BatchAppsAreAwaited ==
  \A i \in AppId :
    app[i].state \in Live /\ app[i].name \notin Streaming \cup faulty =>
      \E s \in Slot : Busy(s) /\ slot[s].app = i /\ slot[s].phase \in {"submitted", "wait"}

\* Every submission and every stop comes to an end, or to the wait for a batch
\* application: no script hangs on the others.
ScriptsGetThrough ==
  \A s \in Slot : Busy(s) ~> ~Busy(s) \/ slot[s].phase = "wait"
=============================================================================
