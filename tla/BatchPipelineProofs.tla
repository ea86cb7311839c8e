------------------------- MODULE BatchPipelineProofs -------------------------
(***************************************************************************)
(* Type correctness of BatchPipeline, and mutual exclusion of its working  *)
(* executions for every lease that covers the work done under it; then     *)
(* LeasedTables: that the tables under the machine are those of            *)
(* BatchTables.                                                            *)
(***************************************************************************)
EXTENDS LeasedTables, SequenceTheorems, TLAPS

\* Every variable keeps its type, whatever the durations.
THEOREM TypeCorrect == Spec => []TypeOK
<1>1. Init => TypeOK
  BY ConstantsAssumption DEF Init, TypeOK, ConstantsAssumption, State
<1>2. TypeOK /\ [Next]_vars => TypeOK'
  <2> SUFFICES ASSUME TypeOK, [Next]_vars PROVE TypeOK'
    OBVIOUS
  <2> USE ConstantsAssumption DEF ConstantsAssumption, TypeOK
  <2>g. ASSUME NEW e \in Execution, NEW s \in State, Goto(e, s)
        PROVE  state' \in [Execution -> State] /\ entered' \in [Execution -> 0 .. MaxClock]
    BY <2>g DEF Goto
  <2>p. ASSUME NEW e \in Execution, PutLock(e)
        PROVE  lock' \in Lease
    <3>1. entered[e] \in 0 .. MaxClock /\ entered[e] + LockTtl \in 0 .. (MaxClock + LockTtl)
      OBVIOUS
    <3> QED BY <3>1, <2>p DEF PutLock, Lease
  <2>1. CASE UNCHANGED vars
    BY <2>1 DEF vars
  <2>2. CASE ExpireItem
    BY <2>2 DEF ExpireItem
  <2>3. CASE Tick
    BY <2>3 DEF Tick
  <2>4. ASSUME NEW e \in Execution, StartExecution(e) PROVE TypeOK'
    BY <2>4, <2>g DEF StartExecution, State, Timed
  <2>5. ASSUME NEW e \in Execution, OrphanEnds(e) PROVE TypeOK'
    BY <2>5 DEF OrphanEnds
  <2>6. ASSUME NEW e \in Execution, Step(e) PROVE TypeOK'
    <3>1. CASE AcquireLock(e)
      BY <3>1, <2>g, <2>p DEF AcquireLock, State, Timed, Job
    <3>2. CASE AcquireRefused(e)
      BY <3>2, <2>g DEF AcquireRefused, State, Terminal
    <3>3. CASE AcquireFails(e)
      BY <3>3, <2>g DEF AcquireFails, State, Terminal
    <3>4. CASE AcquireReplyLost(e)
      BY <3>4, <2>g, <2>p DEF AcquireReplyLost, State, Terminal
    <3>5. CASE StartJob(e)
      BY <3>5 DEF StartJob
    <3>6. CASE StartFails(e)
      BY <3>6, <2>g DEF StartFails, Catch, State, Release
    <3>7. CASE JobSucceeds(e)
      <4>1. state[e] \in Job
        BY <3>7 DEF JobSucceeds
      <4>2. NextState[state[e]] \in State
        BY <4>1 DEF NextState, State, Job, Timed, Release
      <4> QED BY <3>7, <4>2, <2>g DEF JobSucceeds
    <3>8. CASE JobFails(e)
      BY <3>8, <2>g DEF JobFails, Catch, State, Release
    <3>9. CASE LoseTrack(e)
      BY <3>9, <2>g DEF LoseTrack, Catch, State, Release
    <3>10. CASE ReleaseLock(e)
      BY <3>10, <2>g DEF ReleaseLock, AfterRelease, State, Release, Terminal
    <3>11. CASE ReleaseFails(e)
      BY <3>11, <2>g DEF ReleaseFails, AfterRelease, State, Release, Terminal
    <3> QED BY <2>6, <3>1, <3>2, <3>3, <3>4, <3>5, <3>6, <3>7, <3>8, <3>9, <3>10, <3>11
          DEF Step
  <2> QED BY <2>1, <2>2, <2>3, <2>4, <2>5, <2>6 DEF Next
<1> QED BY <1>1, <1>2, PTL DEF Spec

-----------------------------------------------------------------------------
(* Mutual exclusion *)

\* The budgets are numbers, and so is the work left in every working state.
LEMMA BudgetTypes ==
  /\ \A s \in Timed : Budget[s] \in Nat
  /\ \A s \in Job : WorkLeft[s] \in Nat /\ Budget[s] <= WorkLeft[s]
<1>1. \A s \in Timed : Budget[s] \in Nat
  BY ConstantsAssumption DEF ConstantsAssumption
<1>2. /\ Budget["RunSilver"] \in Nat
      /\ Budget["RunGold"] \in Nat
      /\ Budget["RunLatestProjection"] \in Nat
  BY <1>1 DEF Timed, Job
<1>3. WorkLeft["RunSilver"] = Budget["RunSilver"] + Budget["RunGold"]
                              + Budget["RunLatestProjection"]
  BY DEF WorkLeft, Job
<1>4. WorkLeft["RunGold"] = Budget["RunGold"] + Budget["RunLatestProjection"]
  BY DEF WorkLeft, Job
<1>5. WorkLeft["RunLatestProjection"] = Budget["RunLatestProjection"]
  BY DEF WorkLeft, Job
<1> QED BY <1>1, <1>2, <1>3, <1>4, <1>5 DEF Job

\* While an execution works, the lease is live: AcquireLock's condition fails
\* for everybody, and TTL deletion does not apply.
LEMMA LeaseIsLive ==
  ASSUME TypeOK, LeaseInv, NEW e \in Execution, state[e] \in Job
  PROVE  /\ lock # NoLock /\ lock.owner = e
         /\ lock.expires \in Nat /\ clock <= lock.expires
         /\ \A f \in Execution : state[f] = "AcquireLock" => ~Acquirable(entered[f])
<1>1. lock # NoLock /\ lock.owner = e
  BY DEF LeaseInv, Owns
<1>2. lock \in Lease
  BY <1>1 DEF TypeOK
<1>3. lock.expires \in Nat
  BY <1>2, ConstantsAssumption DEF Lease, ConstantsAssumption
<1>4. clock <= lock.expires
  <2>1. /\ clock <= entered[e] + Budget[state[e]]
        /\ entered[e] + WorkLeft[state[e]] <= lock.expires
    BY DEF LeaseInv, Timed
  <2>2. Budget[state[e]] \in Nat /\ WorkLeft[state[e]] \in Nat
        /\ Budget[state[e]] <= WorkLeft[state[e]]
    BY BudgetTypes DEF Timed
  <2>3. clock \in Nat /\ entered[e] \in Nat
    BY ConstantsAssumption DEF TypeOK, ConstantsAssumption
  <2> QED BY <1>3, <2>1, <2>2, <2>3
<1>5. ASSUME NEW f \in Execution, state[f] = "AcquireLock"
      PROVE  ~Acquirable(entered[f])
  <2>1. entered[f] <= clock
    BY <1>5 DEF LeaseInv, Timed
  <2>2. entered[f] \in Nat /\ clock \in Nat
    BY ConstantsAssumption DEF TypeOK, ConstantsAssumption
  <2> QED BY <1>1, <1>3, <1>4, <2>1, <2>2 DEF Acquirable
<1> QED BY <1>1, <1>3, <1>4, <1>5

\* An execution that leaves its timed state disturbs nobody, as long as the
\* lease does not change under another execution that works.
LEMMA LeavingKeepsLeaseInv ==
  ASSUME TypeOK, LeaseInv, NEW e \in Execution, NEW s \in State \ Timed,
         Goto(e, s), clock' = clock,
         \A g \in Execution \ {e} : state[g] \in Job => lock' = lock
  PROVE  LeaseInv'
<1> SUFFICES ASSUME NEW g \in Execution
             PROVE  /\ state'[g] \in Timed => /\ entered'[g] <= clock'
                                             /\ clock' <= entered'[g] + Budget[state'[g]]
                    /\ state'[g] \in Job => /\ Owns(g)'
                                           /\ entered'[g] + WorkLeft[state'[g]] <= lock'.expires
  BY DEF LeaseInv
<1>1. CASE g = e
  <2>1. state'[g] = s
    BY <1>1 DEF Goto, TypeOK
  <2> QED BY <2>1 DEF Timed
<1>2. CASE g # e
  <2>1. state'[g] = state[g] /\ entered'[g] = entered[g]
    BY <1>2 DEF Goto, TypeOK
  <2>2. state[g] \in Job => lock' = lock
    BY <1>2
  <2> QED BY <2>1, <2>2 DEF LeaseInv, Owns
<1> QED BY <1>1, <1>2

\* Every step of the system preserves the inductive core.
LEMMA LeaseInvStep ==
  ASSUME TtlCoversWork, TypeOK, LeaseInv, [Next]_vars
  PROVE  LeaseInv'
<1>1. CASE UNCHANGED vars
  BY <1>1 DEF vars, LeaseInv, Owns
<1>2. CASE ExpireItem
  <2>1. \A g \in Execution : state[g] \notin Job
    BY <1>2, LeaseIsLive, ConstantsAssumption DEF ExpireItem, TypeOK, ConstantsAssumption
  <2> QED BY <1>2, <2>1 DEF ExpireItem, LeaseInv
<1>3. CASE Tick
  <2> SUFFICES ASSUME NEW g \in Execution, state[g] \in Timed
               PROVE  entered[g] <= clock + 1 /\ clock + 1 <= entered[g] + Budget[state[g]]
    BY <1>3 DEF Tick, LeaseInv, Owns, Timed
  <2>1. clock \in Nat /\ entered[g] \in Nat /\ Budget[state[g]] \in Nat
    BY ConstantsAssumption, BudgetTypes DEF TypeOK, ConstantsAssumption
  <2>2. entered[g] <= clock /\ clock < entered[g] + Budget[state[g]]
    BY <1>3 DEF Tick, LeaseInv
  <2> QED BY <2>1, <2>2
<1>4. ASSUME NEW e \in Execution, StartExecution(e) PROVE LeaseInv'
  <2> SUFFICES ASSUME NEW g \in Execution
               PROVE  /\ state'[g] \in Timed => /\ entered'[g] <= clock
                                               /\ clock <= entered'[g] + Budget[state'[g]]
                      /\ state'[g] \in Job => /\ Owns(g)
                                             /\ entered'[g] + WorkLeft[state'[g]] <= lock.expires
    BY <1>4 DEF StartExecution, LeaseInv, Owns
  <2>1. CASE g = e
    <3>1. state'[g] = "AcquireLock" /\ entered'[g] = clock
      BY <1>4, <2>1 DEF StartExecution, Goto, TypeOK, Timed
    <3>2. clock \in Nat /\ Budget["AcquireLock"] \in Nat
      BY ConstantsAssumption, BudgetTypes DEF TypeOK, ConstantsAssumption, Timed
    <3> QED BY <3>1, <3>2 DEF Job
  <2>2. CASE g # e
    BY <1>4, <2>2 DEF StartExecution, Goto, TypeOK, LeaseInv
  <2> QED BY <2>1, <2>2
<1>5. ASSUME NEW e \in Execution, OrphanEnds(e) PROVE LeaseInv'
  BY <1>5 DEF OrphanEnds, LeaseInv, Owns
<1>6. ASSUME NEW e \in Execution, Step(e) PROVE LeaseInv'
  <2>1. CASE AcquireLock(e)
    <3>1. \A g \in Execution : state[g] \notin Job
      BY <2>1, LeaseIsLive DEF AcquireLock
    <3>2. /\ lock' = [owner |-> e, expires |-> entered[e] + LockTtl]
          /\ clock' = clock
          /\ state' = [state EXCEPT ![e] = "RunSilver"]
          /\ entered' = [entered EXCEPT ![e] = clock]
      BY <2>1 DEF AcquireLock, PutLock, Goto, Timed, Job
    <3>3. lock' # NoLock
      BY <3>2, ConstantsAssumption, TypeOK DEF TypeOK, ConstantsAssumption, Lease
    <3>4. WorkLeft["RunSilver"] = Budget["RunSilver"] + Budget["RunGold"]
                                  + Budget["RunLatestProjection"]
      BY DEF WorkLeft, Job
    <3>5. entered[e] <= clock /\ clock <= entered[e] + Budget["AcquireLock"]
      BY <2>1 DEF AcquireLock, LeaseInv, Timed
    <3>6. /\ clock \in Nat /\ entered[e] \in Nat /\ LockTtl \in Nat
          /\ Budget["AcquireLock"] \in Nat /\ Budget["RunSilver"] \in Nat
          /\ Budget["RunGold"] \in Nat /\ Budget["RunLatestProjection"] \in Nat
      BY ConstantsAssumption, BudgetTypes DEF TypeOK, ConstantsAssumption, Timed, Job
    <3>7. clock + WorkLeft["RunSilver"] <= entered[e] + LockTtl
      BY <3>4, <3>5, <3>6 DEF TtlCoversWork
    <3> SUFFICES ASSUME NEW g \in Execution
                 PROVE  /\ state'[g] \in Timed => /\ entered'[g] <= clock'
                                                 /\ clock' <= entered'[g] + Budget[state'[g]]
                        /\ state'[g] \in Job => /\ Owns(g)'
                                               /\ entered'[g] + WorkLeft[state'[g]] <= lock'.expires
      BY DEF LeaseInv
    <3>8. CASE g = e
      <4>1. state'[g] = "RunSilver" /\ entered'[g] = clock
        BY <3>2, <3>8 DEF TypeOK
      <4>2. lock'.owner = e /\ lock'.expires = entered[e] + LockTtl
        BY <3>2
      <4> QED BY <3>2, <3>3, <3>6, <3>7, <3>8, <4>1, <4>2 DEF Owns
    <3>9. CASE g # e
      <4>1. state'[g] = state[g] /\ entered'[g] = entered[g] /\ state[g] \notin Job
        BY <3>1, <3>2, <3>9 DEF TypeOK
      <4> QED BY <3>2, <4>1 DEF LeaseInv
    <3> QED BY <3>8, <3>9
  <2>2. CASE AcquireRefused(e)
    BY <2>2, LeavingKeepsLeaseInv DEF AcquireRefused, State, Timed, Job, Terminal
  <2>3. CASE AcquireFails(e)
    BY <2>3, LeavingKeepsLeaseInv DEF AcquireFails, State, Timed, Job, Terminal
  <2>4. CASE AcquireReplyLost(e)
    <3>1. \A g \in Execution : state[g] \notin Job
      BY <2>4, LeaseIsLive DEF AcquireReplyLost
    <3> QED BY <2>4, <3>1, LeavingKeepsLeaseInv
          DEF AcquireReplyLost, State, Timed, Job, Terminal
  <2>5. CASE StartJob(e)
    BY <2>5 DEF StartJob, LeaseInv, Owns
  <2>6. CASE StartFails(e)
    BY <2>6, LeavingKeepsLeaseInv DEF StartFails, Catch, State, Timed, Job, Release
  <2>7. CASE JobSucceeds(e)
    <3>1. state[e] \in Job
      BY <2>7 DEF JobSucceeds, TypeOK
    <3>2. CASE state[e] = "RunLatestProjection"
      <4>1. NextState[state[e]] = "ReleaseLockAfterSuccess"
        BY <3>2 DEF NextState, Job
      <4> QED BY <2>7, <4>1, LeavingKeepsLeaseInv
            DEF JobSucceeds, State, Timed, Job, Release
    <3>3. CASE state[e] \in GlueJob
      <4> DEFINE s == NextState[state[e]]
      <4>1. s \in Job /\ WorkLeft[state[e]] = Budget[state[e]] + WorkLeft[s]
        <5>1. Budget["RunSilver"] \in Nat /\ Budget["RunGold"] \in Nat
              /\ Budget["RunLatestProjection"] \in Nat
          BY BudgetTypes DEF Timed, Job
        <5>2. CASE state[e] = "RunSilver"
          BY <5>1, <5>2 DEF NextState, WorkLeft, Job
        <5>3. CASE state[e] = "RunGold"
          BY <5>1, <5>3 DEF NextState, WorkLeft, Job
        <5> QED BY <3>3, <5>2, <5>3 DEF GlueJob
      <4>2. /\ clock' = clock /\ lock' = lock
            /\ state' = [state EXCEPT ![e] = s]
            /\ entered' = [entered EXCEPT ![e] = clock]
        BY <2>7, <4>1 DEF JobSucceeds, Goto, Timed
      <4>3. /\ clock \in Nat /\ entered[e] \in Nat
            /\ Budget[state[e]] \in Nat /\ WorkLeft[s] \in Nat /\ Budget[s] \in Nat
        BY <3>1, <4>1, ConstantsAssumption, BudgetTypes
        DEF TypeOK, ConstantsAssumption, Timed
      <4>4. Owns(e) /\ lock.expires \in Nat
        BY <3>1, LeaseIsLive DEF Owns
      <4>5. /\ clock <= entered[e] + Budget[state[e]]
            /\ entered[e] + WorkLeft[state[e]] <= lock.expires
        BY <3>1 DEF LeaseInv, Timed
      <4>6. clock + WorkLeft[s] <= lock.expires
        BY <4>1, <4>3, <4>4, <4>5
      <4> HIDE DEF s
      <4> SUFFICES ASSUME NEW g \in Execution
                   PROVE  /\ state'[g] \in Timed => /\ entered'[g] <= clock'
                                                   /\ clock' <= entered'[g] + Budget[state'[g]]
                          /\ state'[g] \in Job => /\ Owns(g)'
                                                 /\ entered'[g] + WorkLeft[state'[g]] <= lock'.expires
        BY DEF LeaseInv
      <4>7. CASE g = e
        <5>1. state'[g] = s /\ entered'[g] = clock
          BY <4>2, <4>7 DEF TypeOK
        <5> QED BY <4>2, <4>3, <4>4, <4>6, <4>7, <5>1 DEF Owns
      <4>8. CASE g # e
        <5>1. state'[g] = state[g] /\ entered'[g] = entered[g]
          BY <4>2, <4>8 DEF TypeOK
        <5> QED BY <4>2, <5>1 DEF LeaseInv, Owns
      <4> QED BY <4>7, <4>8
    <3> QED BY <3>1, <3>2, <3>3 DEF Job, GlueJob
  <2>8. CASE JobFails(e)
    BY <2>8, LeavingKeepsLeaseInv DEF JobFails, Catch, State, Timed, Job, Release
  <2>9. CASE LoseTrack(e)
    BY <2>9, LeavingKeepsLeaseInv DEF LoseTrack, Catch, State, Timed, Job, Release
  <2>10. CASE ReleaseLock(e)
    <3>1. \A g \in Execution \ {e} : state[g] \in Job => lock' = lock
      BY <2>10, LeaseIsLive DEF ReleaseLock, Owns
    <3>2. AfterRelease[state[e]] \in State \ Timed
      BY <2>10 DEF ReleaseLock, AfterRelease, State, Release, Terminal, Timed, Job
    <3> QED BY <2>10, <3>1, <3>2, LeavingKeepsLeaseInv DEF ReleaseLock
  <2>11. CASE ReleaseFails(e)
    <3>1. AfterRelease[state[e]] \in State \ Timed
      BY <2>11 DEF ReleaseFails, AfterRelease, State, Release, Terminal, Timed, Job
    <3> QED BY <2>11, <3>1, LeavingKeepsLeaseInv DEF ReleaseFails
  <2> QED BY <1>6, <2>1, <2>2, <2>3, <2>4, <2>5, <2>6, <2>7, <2>8, <2>9, <2>10, <2>11
        DEF Step
<1> QED BY <1>1, <1>2, <1>3, <1>4, <1>5, <1>6 DEF Next

\* No execution works or waits initially.
LEMMA LeaseInvInit == Init => LeaseInv
  BY DEF Init, LeaseInv, Timed, Job

\* If the lease covers the work, the inductive core holds in every state.
THEOREM LeaseInvHolds == TtlCoversWork => (Spec => []LeaseInv)
<1> SUFFICES ASSUME TtlCoversWork PROVE Spec => []LeaseInv
  OBVIOUS
<1>1. TypeOK /\ LeaseInv /\ [Next]_vars => LeaseInv'
  BY LeaseInvStep
<1> QED BY <1>1, LeaseInvInit, TypeCorrect, PTL DEF Spec

\* main.tf:57: if the lease covers the work, no two executions are ever between
\* acquiring and releasing it, for any number of executions, any durations,
\* and whatever replies get lost.
THEOREM SingleFlightHolds == TtlCoversWork => (Spec => []SingleFlight)
<1>1. TypeOK /\ LeaseInv => SingleFlight
  <2> SUFFICES ASSUME TypeOK, LeaseInv, NEW e \in Execution, NEW f \in Execution,
                      state[e] \in Job, state[f] \in Job
               PROVE  e = f
    BY DEF SingleFlight
  <2> QED BY LeaseIsLive
<1> QED BY <1>1, LeaseInvHolds, TypeCorrect, PTL

\* If the lease covers the work, whoever works holds an unexpired lease.
THEOREM LeaseCoversWorkHolds == TtlCoversWork => (Spec => []LeaseCoversWork)
<1>1. TypeOK /\ LeaseInv => LeaseCoversWork
  BY LeaseIsLive DEF LeaseCoversWork, Owns
<1> QED BY <1>1, LeaseInvHolds, TypeCorrect, PTL

-----------------------------------------------------------------------------
(* The runs themselves *)

\* A run in progress is the one its execution is waiting for.
RunsAreAwaited == \A r \in runs : state[r[2]] = r[1]

\* As long as replies are reliable, no run outlives the state that started it.
LEMMA RunsAreAwaitedHolds == ~UnreliableReplies => (Spec => []RunsAreAwaited)
<1> SUFFICES ASSUME ~UnreliableReplies PROVE Spec => []RunsAreAwaited
  OBVIOUS
<1>1. Init => RunsAreAwaited
  BY DEF Init, RunsAreAwaited
<1>2. TypeOK /\ RunsAreAwaited /\ [Next]_vars => RunsAreAwaited'
  <2> SUFFICES ASSUME TypeOK, RunsAreAwaited, [Next]_vars,
                      NEW r \in runs'
               PROVE  state'[r[2]] = r[1]
    BY DEF RunsAreAwaited
  <2> USE DEF RunsAreAwaited, TypeOK
  <2>1. ASSUME NEW e \in Execution, NEW s \in State, Goto(e, s), r \in runs, r[1] # state[e]
        PROVE  state'[r[2]] = r[1]
    BY <2>1 DEF Goto
  <2>2. ASSUME NEW e \in Execution, NEW j \in Job, <<j, e>> \in runs, state[e] # j
        PROVE  FALSE
    <3>1. state[<<j, e>>[2]] = <<j, e>>[1]
      BY <2>2
    <3> QED BY <2>2, <3>1
  <2>3. CASE UNCHANGED vars \/ ExpireItem \/ Tick
    BY <2>3 DEF vars, ExpireItem, Tick
  <2>4. ASSUME NEW e \in Execution, StartExecution(e) \/ OrphanEnds(e)
        PROVE  state'[r[2]] = r[1]
    BY <2>1, <2>2, <2>4 DEF StartExecution, OrphanEnds, State, Timed, Job, Goto
  <2>5. ASSUME NEW e \in Execution, Step(e) PROVE state'[r[2]] = r[1]
    <3>1. CASE AcquireLock(e)
      BY <3>1 DEF AcquireLock, Goto, Job
    <3>2. CASE AcquireRefused(e) \/ AcquireFails(e)
      BY <3>2 DEF AcquireRefused, AcquireFails, Goto, Job
    <3>3. CASE StartJob(e)
      BY <3>3 DEF StartJob
    <3>4. CASE StartFails(e)
      <4>1. r \in runs /\ r # <<state[e], e>>
        BY <3>4 DEF StartFails
      <4>2. r[2] # e
        BY <4>1
      <4> QED BY <3>4, <4>1, <4>2 DEF StartFails, Catch, Goto
    <3>5. CASE JobSucceeds(e) \/ JobFails(e)
      <4>1. r \in runs /\ r # <<state[e], e>>
        BY <3>5 DEF JobSucceeds, JobFails
      <4>2. r[2] # e
        BY <4>1
      <4> QED BY <3>5, <4>1, <4>2 DEF JobSucceeds, JobFails, Catch, Goto
    <3>6. CASE ReleaseLock(e) \/ ReleaseFails(e)
      BY <3>6 DEF ReleaseLock, ReleaseFails, Goto, Job, Release
    <3> QED BY <2>5, <3>1, <3>2, <3>3, <3>4, <3>5, <3>6
          DEF Step, AcquireReplyLost, LoseTrack
  <2> QED BY <2>3, <2>4, <2>5 DEF Next
<1> QED BY <1>1, <1>2, TypeCorrect, PTL DEF Spec

\* If the lease covers the work and replies are reliable, two Glue runs or
\* Lambda invocations of the chain never overlap: no table is rewritten while
\* another run of the chain reads it.
THEOREM RunsNeverOverlapHolds ==
  TtlCoversWork /\ ~UnreliableReplies => (Spec => []RunsNeverOverlap)
<1>1. TypeOK /\ SingleFlight /\ RunsAreAwaited => RunsNeverOverlap
  <2> SUFFICES ASSUME TypeOK, SingleFlight, RunsAreAwaited, NEW r \in runs, NEW s \in runs
               PROVE  r = s
    BY DEF RunsNeverOverlap
  <2>1. r \in Job \X Execution /\ s \in Job \X Execution
    BY DEF TypeOK
  <2>2. state[r[2]] = r[1] /\ state[s[2]] = s[1]
    BY DEF RunsAreAwaited
  <2>3. r[2] = s[2]
    BY <2>1, <2>2 DEF SingleFlight
  <2> QED BY <2>1, <2>2, <2>3
<1> QED BY <1>1, SingleFlightHolds, RunsAreAwaitedHolds, TypeCorrect, PTL

-----------------------------------------------------------------------------
(* Refinement *)

\* Moving an execution moves its stage, and no other.
LEMMA GotoMovesStage ==
  ASSUME TypeOK, NEW e \in Execution, NEW s \in State, Goto(e, s)
  PROVE  [x \in Execution |-> StageOf(state'[x])]
           = [[x \in Execution |-> StageOf(state[x])] EXCEPT ![e] = StageOf(s)]
  BY DEF Goto, TypeOK

\* The abstract chain has the stages of the state machine.
LEMMA Stages ==
  /\ StageOf("NotStarted") = "idle" /\ StageOf("AcquireLock") = "idle"
  /\ StageOf("RunSilver") = "silver" /\ StageOf("RunGold") = "gold"
  /\ StageOf("RunLatestProjection") = "projection"
  /\ \A s \in Release \cup Terminal : StageOf(s) = "over"
  /\ \A s \in State : StageOf(s) \in Abstract!Chain <=> s \in Job
  BY DEF StageOf, Release, Terminal, State, Timed, Job, Abstract!Chain

\* If the lease covers the work, the state machine implements the abstract
\* chain: each step is a step of SingleFlight or leaves the stages alone.
THEOREM Refinement == TtlCoversWork => (Spec => ImplementsSingleFlight)
<1> SUFFICES ASSUME TtlCoversWork PROVE Spec => ImplementsSingleFlight
  OBVIOUS
<1> USE DEF stage
<1>1. Init => Abstract!Init
  BY Stages DEF Init, Abstract!Init
<1>2. TypeOK /\ LeaseInv /\ [Next]_vars => [Abstract!Next]_stage
  <2> SUFFICES ASSUME TypeOK, LeaseInv, [Next]_vars
               PROVE  Abstract!Next \/ stage' = stage
    OBVIOUS
  <2>1. ASSUME NEW e \in Execution, NEW s \in Release \cup Terminal, Goto(e, s)
        PROVE  Abstract!Next \/ stage' = stage
    <3>a. s \in State /\ StageOf(s) = "over"
      BY Stages DEF State
    <3>1. stage' = [stage EXCEPT ![e] = "over"]
      BY <2>1, <3>a, GotoMovesStage
    <3>2. CASE stage[e] = "over"
      BY <3>1, <3>2
    <3>3. CASE stage[e] # "over"
      BY <3>1, <3>3 DEF Abstract!Next, Abstract!Abandon
    <3> QED BY <3>2, <3>3
  <2>2. CASE UNCHANGED vars \/ ExpireItem \/ Tick
    BY <2>2 DEF vars, ExpireItem, Tick
  <2>3. ASSUME NEW e \in Execution, StartExecution(e) \/ OrphanEnds(e)
        PROVE  stage' = stage
    <3>1. CASE StartExecution(e)
      <4>1. stage' = [stage EXCEPT ![e] = "idle"]
        BY <3>1, GotoMovesStage, Stages DEF StartExecution, State, Timed
      <4>2. stage[e] = "idle"
        BY <3>1, Stages DEF StartExecution
      <4> QED BY <4>1, <4>2
    <3>2. CASE OrphanEnds(e)
      BY <3>2 DEF OrphanEnds
    <3> QED BY <2>3, <3>1, <3>2
  <2>4. ASSUME NEW e \in Execution, Step(e) PROVE Abstract!Next \/ stage' = stage
    <3>1. CASE AcquireLock(e)
      <4>1. \A f \in Execution : state[f] \notin Job
        BY <3>1, LeaseIsLive DEF AcquireLock
      <4>2. \A f \in Execution : stage[f] \notin Abstract!Chain
        BY <4>1, Stages DEF TypeOK
      <4>3. stage' = [stage EXCEPT ![e] = "silver"]
        BY <3>1, GotoMovesStage, Stages DEF AcquireLock, State, Timed, Job
      <4>4. stage[e] = "idle"
        BY <3>1, Stages DEF AcquireLock
      <4> QED BY <4>2, <4>3, <4>4 DEF Abstract!Next, Abstract!Begin
    <3>2. CASE AcquireRefused(e)
      BY <3>2, <2>1 DEF AcquireRefused, Terminal
    <3>3. CASE AcquireFails(e)
      BY <3>3, <2>1 DEF AcquireFails, Terminal
    <3>4. CASE AcquireReplyLost(e)
      BY <3>4, <2>1 DEF AcquireReplyLost, Terminal
    <3>5. CASE StartJob(e)
      BY <3>5 DEF StartJob
    <3>6. CASE StartFails(e)
      BY <3>6, <2>1 DEF StartFails, Catch, Release
    <3>7. CASE JobSucceeds(e)
      <4>1. state[e] \in Job /\ Goto(e, NextState[state[e]])
        BY <3>7 DEF JobSucceeds, TypeOK
      <4>2. CASE state[e] = "RunSilver"
        <5>1. NextState[state[e]] = "RunGold"
          BY <4>2 DEF NextState, Job
        <5>2. stage[e] = "silver" /\ stage' = [stage EXCEPT ![e] = "gold"]
          BY <4>1, <4>2, <5>1, GotoMovesStage, Stages DEF State, Timed, Job
        <5> QED BY <5>2 DEF Abstract!Next, Abstract!Advance
      <4>3. CASE state[e] = "RunGold"
        <5>1. NextState[state[e]] = "RunLatestProjection"
          BY <4>3 DEF NextState, Job
        <5>2. stage[e] = "gold" /\ stage' = [stage EXCEPT ![e] = "projection"]
          BY <4>1, <4>3, <5>1, GotoMovesStage, Stages DEF State, Timed, Job
        <5> QED BY <5>2 DEF Abstract!Next, Abstract!Advance
      <4>4. CASE state[e] = "RunLatestProjection"
        <5>1. NextState[state[e]] = "ReleaseLockAfterSuccess"
          BY <4>4 DEF NextState, Job
        <5> QED BY <4>1, <5>1, <2>1 DEF Release
      <4> QED BY <4>1, <4>2, <4>3, <4>4 DEF Job
    <3>8. CASE JobFails(e)
      BY <3>8, <2>1 DEF JobFails, Catch, Release
    <3>9. CASE LoseTrack(e)
      BY <3>9, <2>1 DEF LoseTrack, Catch, Release
    <3>10. CASE ReleaseLock(e)
      BY <3>10, <2>1 DEF ReleaseLock, AfterRelease, Release, Terminal
    <3>11. CASE ReleaseFails(e)
      BY <3>11, <2>1 DEF ReleaseFails, AfterRelease, Release, Terminal
    <3> QED BY <2>4, <3>1, <3>2, <3>3, <3>4, <3>5, <3>6, <3>7, <3>8, <3>9, <3>10, <3>11
          DEF Step
  <2> QED BY <2>2, <2>3, <2>4 DEF Next
<1> QED BY <1>1, <1>2, LeaseInvHolds, TypeCorrect, PTL
     DEF Spec, ImplementsSingleFlight, Abstract!Spec

-----------------------------------------------------------------------------
(* Who may take a lease away *)

\* No execution entered its state in the future.
EnteredInThePast == \A e \in Execution : entered[e] <= clock

\* Entry times are readings of the clock, and the clock never goes back.
LEMMA EnteredInThePastHolds == Spec => []EnteredInThePast
<1>1. Init => EnteredInThePast
  <2> SUFFICES ASSUME Init, NEW e \in Execution PROVE entered[e] <= clock
    BY DEF EnteredInThePast
  <2>1. entered[e] = 0 /\ clock = 0
    BY DEF Init
  <2> QED BY <2>1
<1>2. TypeOK /\ EnteredInThePast /\ [Next]_vars => EnteredInThePast'
  <2> SUFFICES ASSUME TypeOK, EnteredInThePast, [Next]_vars PROVE EnteredInThePast'
    OBVIOUS
  <2>1. clock \in Nat /\ \A e \in Execution : entered[e] \in Nat
    BY ConstantsAssumption DEF TypeOK, ConstantsAssumption
  <2>2. ASSUME NEW e \in Execution, NEW s, Goto(e, s), clock' = clock
        PROVE  EnteredInThePast'
    BY <2>1, <2>2 DEF Goto, EnteredInThePast, TypeOK
  <2>3. CASE UNCHANGED vars
    BY <2>3 DEF vars, EnteredInThePast
  <2>4. CASE ExpireItem
    BY <2>4 DEF ExpireItem, EnteredInThePast
  <2>5. CASE Tick
    BY <2>1, <2>5 DEF Tick, EnteredInThePast
  <2>6. ASSUME NEW e \in Execution, StartExecution(e) PROVE EnteredInThePast'
    BY <2>2, <2>6 DEF StartExecution
  <2>7. ASSUME NEW e \in Execution, OrphanEnds(e) PROVE EnteredInThePast'
    BY <2>7 DEF OrphanEnds, EnteredInThePast
  <2>8. ASSUME NEW e \in Execution, Step(e) PROVE EnteredInThePast'
    <3>1. CASE StartJob(e)
      BY <3>1 DEF StartJob, EnteredInThePast
    <3>2. CASE \E s : Goto(e, s) /\ clock' = clock
      BY <2>2, <3>2
    <3> QED BY <2>8, <3>1, <3>2
          DEF Step, AcquireLock, AcquireRefused, AcquireFails, AcquireReplyLost, StartFails,
              JobSucceeds, JobFails, LoseTrack, ReleaseLock, ReleaseFails, Catch
  <2> QED BY <2>3, <2>4, <2>5, <2>6, <2>7, <2>8 DEF Next
<1> QED BY <1>1, <1>2, TypeCorrect, PTL DEF Spec

\* Whatever the durations (also with the default lease, which does not cover
\* the work): an owner loses the lease only in its own release state or after
\* the lease has expired.
THEOREM LeaseLostHolds == Spec => LeaseLostOnlyByRightfulMeans
<1>1. ASSUME TypeOK, EnteredInThePast, [Next]_vars,
             NEW e \in Execution, Owns(e), ~Owns(e)'
      PROVE  lock.expires < clock \/ (state[e] \in Release /\ state'[e] \in Terminal)
  <2>1. lock # NoLock /\ lock.owner = e /\ lock.expires \in Nat
    BY <1>1, ConstantsAssumption DEF Owns, TypeOK, Lease, ConstantsAssumption
  <2>2. lock' # lock
    BY <1>1 DEF Owns
  <2>3. ASSUME NEW f \in Execution, Acquirable(entered[f]) PROVE lock.expires < clock
    <3>1. entered[f] \in Nat /\ clock \in Nat /\ entered[f] <= clock
      BY <1>1, ConstantsAssumption DEF TypeOK, ConstantsAssumption, EnteredInThePast
    <3> QED BY <2>1, <2>3, <3>1 DEF Acquirable
  <2>4. CASE ExpireItem
    BY <2>4 DEF ExpireItem
  <2>5. ASSUME NEW f \in Execution, AcquireLock(f) \/ AcquireReplyLost(f)
        PROVE  lock.expires < clock
    BY <2>3, <2>5 DEF AcquireLock, AcquireReplyLost
  <2>6. ASSUME NEW f \in Execution, ReleaseLock(f)
        PROVE  state[e] \in Release /\ state'[e] \in Terminal
    <3>1. f = e /\ state[e] \in Release
      BY <2>1, <2>2, <2>6 DEF ReleaseLock, Owns
    <3>2. state'[e] = AfterRelease[state[e]]
      BY <1>1, <2>6, <3>1 DEF ReleaseLock, Goto, TypeOK
    <3> QED BY <3>1, <3>2 DEF AfterRelease, Release, Terminal
  <2>7. ASSUME NEW f \in Execution,
               \/ StartExecution(f) \/ OrphanEnds(f)
               \/ AcquireRefused(f) \/ AcquireFails(f)
               \/ StartJob(f) \/ StartFails(f) \/ JobSucceeds(f) \/ JobFails(f)
               \/ LoseTrack(f) \/ ReleaseFails(f)
        PROVE  FALSE
    BY <2>2, <2>7 DEF StartExecution, OrphanEnds, AcquireRefused, AcquireFails, StartJob,
                      StartFails, JobSucceeds, JobFails, LoseTrack, ReleaseFails
  <2>8. CASE Tick \/ UNCHANGED vars
    BY <2>2, <2>8 DEF Tick, vars
  <2> QED BY <1>1, <2>4, <2>5, <2>6, <2>7, <2>8 DEF Next, Step
<1>2. TypeOK /\ EnteredInThePast /\ [Next]_vars
        => [\A e \in Execution : Owns(e) /\ ~Owns(e)' =>
              \/ lock.expires < clock
              \/ state[e] \in Release /\ state'[e] \in Terminal]_vars
  BY <1>1
<1> QED BY <1>2, TypeCorrect, EnteredInThePastHolds, PTL
      DEF Spec, LeaseLostOnlyByRightfulMeans

-----------------------------------------------------------------------------
(* The tables under the lease *)

\* The stages move as the machine does.
LEMMA MovesStage ==
  ASSUME TypeOK, NEW e \in Execution, NEW s \in State, Goto(e, s)
  PROVE  stage' = [stage EXCEPT ![e] = StageOf(s)]
BY GotoMovesStage DEF stage

\* A machine step that touches no state leaves the stages alone.
LEMMA StageStays == state' = state => stage' = stage
BY DEF stage

\* Every Spark application belongs to a Glue run of the machine and every Glue run has
\* its application; an execution with a run waits for it or has given up.
Applications ==
  \A e \in Execution :
    /\ \A j \in GlueJob : <<j, e>> \in runs <=> run[e] # NoRun /\ run[e].job = StageOf(j)
    /\ run[e] # NoRun => run[e].job \in {"silver", "gold"}
    /\ \A j \in Job : <<j, e>> \in runs => state[e] \in {j} \cup Release \cup Terminal
    /\ \A i, j \in Job : <<i, e>> \in runs /\ <<j, e>> \in runs => i = j

\* The Glue jobs and their stages.
LEMMA GlueStages ==
  /\ GlueJob \subseteq Job /\ Job \subseteq State /\ Job \cap (Release \cup Terminal) = {}
  /\ \A i, j \in GlueJob : StageOf(i) = StageOf(j) => i = j
  /\ \A j \in GlueJob : StageOf(j) \in {"silver", "gold"}
  /\ \A t \in {"silver", "gold"} : \E j \in GlueJob : StageOf(j) = t
  /\ \A s \in Release \cup Terminal : s \in State
BY Stages DEF GlueJob, Job, State, Timed, Release, Terminal

\* Without a Glue run an execution has no application.
LEMMA NoApplication ==
  ASSUME Applications, NEW e \in Execution, \A j \in GlueJob : <<j, e>> \notin runs
  PROVE  run[e] = NoRun
BY GlueStages DEF Applications

\* An execution that waits for a Glue run waits for its application.
LEMMA AwaitsApplication ==
  ASSUME Applications, NEW e \in Execution, state[e] \in GlueJob, <<state[e], e>> \in runs
  PROVE  run[e] # NoRun /\ run[e].job = stage[e] /\ Tables!Awaited(e)
BY DEF Applications, stage, Tables!Awaited

\* What the tables do not see is a refusal or a failure of an execution without an
\* application, or nothing at all.
LEMMA UnseenFollows ==
  ASSUME TypeOK, Applications, NEW e \in Execution, Unseen(e)
  PROVE  Tables!StartFails(e) \/ UNCHANGED Tables!vars
<1> USE DEF Unseen, tableVars, Tables!vars
<1>1. ASSUME NEW s \in Release \cup Terminal, Goto(e, s), StageOf(state[e]) # "over",
             \A j \in Job : <<j, e>> \in runs => state[e] \notin {j} \cup Release \cup Terminal
      PROVE  Tables!StartFails(e)
  <2>1. stage' = [stage EXCEPT ![e] = "over"] /\ stage[e] # "over"
    BY <1>1, MovesStage, GlueStages, Stages DEF stage
  <2>2. run[e] = NoRun
    BY <1>1, NoApplication, GlueStages DEF Applications
  <2> QED BY <2>1, <2>2 DEF Tables!StartFails, Tables!Flight!Abandon
<1>2. ASSUME NEW s \in State, Goto(e, s), StageOf(s) = StageOf(state[e])
      PROVE  UNCHANGED Tables!vars
  <2>1. stage' = [stage EXCEPT ![e] = stage[e]]
    BY <1>2, MovesStage DEF stage
  <2> QED BY <2>1 DEF stage
<1>3. CASE StartExecution(e)
  BY <1>2, <1>3, Stages DEF StartExecution, State, Timed
<1>4. CASE AcquireRefused(e) \/ AcquireFails(e) \/ AcquireReplyLost(e)
  <2>1. state[e] = "AcquireLock" /\ \E s \in Terminal : Goto(e, s)
    BY <1>4 DEF AcquireRefused, AcquireFails, AcquireReplyLost, Terminal
  <2>2. \A j \in Job : state[e] \notin {j} \cup Release \cup Terminal
    BY <2>1 DEF Job, Release, Terminal
  <2> QED BY <1>1, <2>1, <2>2, Stages
<1>5. CASE StartFails(e)
  <2>1. state[e] \in Job /\ <<state[e], e>> \notin runs
        /\ Goto(e, "ReleaseLockAfterFailure")
    BY <1>5 DEF StartFails, Catch
  <2>2. \A j \in Job : <<j, e>> \in runs => state[e] \notin {j} \cup Release \cup Terminal
    BY <2>1, GlueStages
  <2>3. StageOf(state[e]) # "over"
    BY <2>1, Stages DEF Job
  <2> QED BY <1>1, <2>1, <2>2, <2>3 DEF Release
<1>6. CASE ReleaseLock(e) \/ ReleaseFails(e)
  <2>1. state[e] \in Release /\ \E s \in Terminal : Goto(e, s)
    BY <1>6 DEF ReleaseLock, ReleaseFails, AfterRelease, Terminal
  <2> QED BY <1>2, <2>1, Stages, GlueStages
<1> QED BY <1>3, <1>4, <1>5, <1>6

\* Entering the chain is a beginning of BatchTables: under the lease nobody is in it.
LEMMA EnterFollows ==
  ASSUME TypeOK, LeaseInv, NEW e \in Execution, EnterChain(e)
  PROVE  Tables!Begin(e)
<1>1. AcquireLock(e) /\ state[e] = "AcquireLock" /\ Goto(e, "RunSilver")
  BY DEF EnterChain, AcquireLock
<1>2. \A f \in Execution : stage[f] \notin Tables!Flight!Chain
  <2>1. \A f \in Execution : state[f] \notin Job
    BY <1>1, LeaseIsLive DEF AcquireLock
  <2> QED BY <2>1, Stages DEF TypeOK, stage, Abstract!Chain, Tables!Flight!Chain
<1>3. stage[e] = "idle" /\ stage' = [stage EXCEPT ![e] = "silver"]
  BY <1>1, MovesStage, Stages DEF stage, State, Timed, Job
<1> QED BY <1>2, <1>3 DEF EnterChain, Tables!Begin, Tables!Flight!Begin

\* A Glue run that the machine starts is admitted by BatchTables, and it loses track
\* of one that is awaited.
LEMMA GlueFollows ==
  ASSUME TypeOK, Applications, NEW e \in Execution, GlueStarts(e) \/ GlueIsLost(e)
  PROVE  Tables!StartRun(e) \/ Tables!LoseTrack(e)
<1>1. CASE GlueStarts(e)
  <2>1. state[e] \in GlueJob /\ <<state[e], e>> \notin runs /\ Admitted(state[e])
        /\ stage' = stage
    BY <1>1, StageStays DEF GlueStarts, StartJob
  <2>2. run[e] = NoRun
    <3>1. \A j \in GlueJob : <<j, e>> \notin runs
      BY <2>1, GlueStages DEF Applications
    <3> QED BY <3>1, NoApplication
  <2>3. stage[e] \in Tables!Job
    BY <2>1, GlueStages DEF stage, Tables!Job
  <2>4. ASSUME NEW f \in Execution, run[f] # NoRun PROVE run[f].job # stage[e]
    <3>1. <<state[e], f>> \notin runs
      BY <2>1 DEF Admitted
    <3> QED BY <2>1, <2>4, <3>1 DEF Applications, stage
  <2> QED BY <1>1, <2>1, <2>2, <2>3, <2>4 DEF GlueStarts, Tables!StartRun, Tables!Admitted
<1>2. CASE GlueIsLost(e)
  <2>1. state[e] \in GlueJob /\ <<state[e], e>> \in runs /\ Goto(e, "ReleaseLockAfterFailure")
    BY <1>2 DEF GlueIsLost, LoseTrack, Catch
  <2>2. stage' = [stage EXCEPT ![e] = "over"] /\ stage[e] # "over"
    BY <2>1, MovesStage, GlueStages, Stages DEF stage, Release
  <2> QED BY <1>2, <2>1, <2>2, AwaitsApplication
          DEF GlueIsLost, tableVars, Tables!LoseTrack, Tables!Flight!Abandon
<1> QED BY <1>1, <1>2

\* The end of a Glue run is that of its application, awaited or not.
LEMMA EndFollows ==
  ASSUME TypeOK, Applications, NEW e \in Execution,
         GlueSucceeds(e) \/ GlueFails(e) \/ LostGlueEnds(e)
  PROVE  Tables!Finish(e) \/ Tables!Fail(e)
<1> USE DEF ApplicationEnds, Tables!Leave
<1>1. CASE GlueSucceeds(e)
  <2>1. state[e] \in GlueJob /\ <<state[e], e>> \in runs /\ Goto(e, NextState[state[e]])
    BY <1>1 DEF GlueSucceeds, JobSucceeds
  <2>2. Tables!Flight!Advance(e)
    <3>1. CASE state[e] = "RunSilver"
      <4>1. NextState[state[e]] = "RunGold"
        BY <3>1 DEF NextState, Job
      <4>2. stage[e] = "silver" /\ stage' = [stage EXCEPT ![e] = "gold"]
        BY <2>1, <3>1, <4>1, MovesStage, Stages DEF stage, State, Timed, Job
      <4> QED BY <4>2 DEF Tables!Flight!Advance
    <3>2. CASE state[e] = "RunGold"
      <4>1. NextState[state[e]] = "RunLatestProjection"
        BY <3>2 DEF NextState, Job
      <4>2. stage[e] = "gold" /\ stage' = [stage EXCEPT ![e] = "projection"]
        BY <2>1, <3>2, <4>1, MovesStage, Stages DEF stage, State, Timed, Job
      <4> QED BY <4>2 DEF Tables!Flight!Advance
    <3> QED BY <2>1, <3>1, <3>2 DEF GlueJob
  <2>3. run[e] # NoRun /\ Tables!Awaited(e)
    BY <2>1, AwaitsApplication
  <2> QED BY <1>1, <2>2, <2>3 DEF GlueSucceeds, Tables!Finish
<1>2. CASE GlueFails(e)
  <2>1. state[e] \in GlueJob /\ <<state[e], e>> \in runs /\ Goto(e, "ReleaseLockAfterFailure")
    BY <1>2 DEF GlueFails, JobFails, Catch
  <2>2. stage' = [stage EXCEPT ![e] = "over"] /\ stage[e] # "over"
    BY <2>1, MovesStage, GlueStages, Stages DEF stage, Release
  <2>3. run[e] # NoRun /\ Tables!Awaited(e)
    BY <2>1, AwaitsApplication
  <2> QED BY <1>2, <2>2, <2>3 DEF GlueFails, Tables!Fail, Tables!Flight!Abandon
<1>3. CASE LostGlueEnds(e)
  <2>1. PICK j \in Job : <<j, e>> \in runs /\ state[e] # j
    BY <1>3 DEF LostGlueEnds, OrphanEnds
  <2>2. state[e] \in Release \cup Terminal
    BY <2>1 DEF Applications
  <2>3. run[e] # NoRun /\ ~Tables!Awaited(e) /\ stage' = stage
    BY <1>3, <2>2, Stages, StageStays
       DEF LostGlueEnds, OrphanEnds, Applications, stage, Tables!Awaited
  <2> QED BY <1>3, <2>3 DEF LostGlueEnds, Tables!Fail
<1> QED BY <1>1, <1>2, <1>3

\* The projection Lambda moves its execution, and nothing else.
LEMMA ProjectsFollows ==
  ASSUME TypeOK, Applications, NEW e \in Execution, Projects(e)
  PROVE  Tables!ProjectionReturns(e) \/ Tables!StartFails(e) \/ UNCHANGED Tables!vars
<1> USE DEF Projects, tableVars, Tables!vars
<1>1. CASE StartJob(e) \/ OrphanEnds(e)
  BY <1>1, StageStays DEF StartJob, OrphanEnds
<1>2. CASE state[e] = "RunLatestProjection" /\ JobSucceeds(e)
  <2>1. NextState[state[e]] = "ReleaseLockAfterSuccess"
    BY <1>2 DEF NextState, Job
  <2>2. stage[e] = "projection" /\ stage' = [stage EXCEPT ![e] = "over"]
    BY <1>2, <2>1, MovesStage, Stages, GlueStages DEF stage, JobSucceeds, Release
  <2> QED BY <2>2 DEF Tables!ProjectionReturns, Tables!Flight!Advance
<1>3. CASE state[e] = "RunLatestProjection" /\ (JobFails(e) \/ LoseTrack(e))
  <2>1. Goto(e, "ReleaseLockAfterFailure")
    BY <1>3 DEF JobFails, LoseTrack, Catch
  <2>2. stage[e] = "projection" /\ stage' = [stage EXCEPT ![e] = "over"]
    BY <1>3, <2>1, MovesStage, Stages, GlueStages DEF stage, Release
  <2>3. run[e] = NoRun
    <3>1. \A j \in GlueJob : j # state[e] /\ state[e] \notin Release \cup Terminal
      BY <1>3 DEF GlueJob, Release, Terminal
    <3> QED BY <3>1, NoApplication, GlueStages DEF Applications
  <2> QED BY <2>2, <2>3 DEF Tables!StartFails, Tables!Flight!Abandon
<1> QED BY <1>1, <1>2, <1>3

\* Every step of the machine and its Glue jobs is one of BatchTables or leaves the
\* tables, their jobs and the stages alone.
LEMMA EveryStepFollows ==
  TypeOK /\ LeaseInv /\ Applications /\ [LeasedNext]_<<vars, tableVars>>
    => [Tables!Next]_(Tables!vars)
<1> SUFFICES ASSUME TypeOK, LeaseInv, Applications, [LeasedNext]_<<vars, tableVars>>
             PROVE  Tables!Next \/ UNCHANGED Tables!vars
  OBVIOUS
<1>1. ASSUME NEW e \in Execution, LeasedStep(e) PROVE Tables!Next \/ UNCHANGED Tables!vars
  <2>1. Tables!Step(e) \/ UNCHANGED Tables!vars
    <3> USE DEF Tables!Step
    <3>1. CASE Unseen(e)
      BY <3>1, UnseenFollows
    <3>2. CASE EnterChain(e)
      BY <3>2, EnterFollows
    <3>3. CASE GlueStarts(e) \/ GlueIsLost(e)
      BY <3>3, GlueFollows
    <3>4. CASE GlueSucceeds(e) \/ GlueFails(e) \/ LostGlueEnds(e)
      BY <3>4, EndFollows
    <3>5. CASE Projects(e)
      BY <3>5, ProjectsFollows
    <3>6. CASE Computes(e)
      BY <3>6 DEF Computes
    <3> QED BY <1>1, <3>1, <3>2, <3>3, <3>4, <3>5, <3>6 DEF LeasedStep
  <2> QED BY <2>1 DEF Tables!Next
<1>2. CASE \E c \in Candle : UNCHANGED vars /\ Tables!Arrive(c)
  BY <1>2 DEF Tables!Next
<1>3. CASE ((ExpireItem \/ Tick) /\ UNCHANGED tableVars) \/ UNCHANGED <<vars, tableVars>>
  BY <1>3, StageStays DEF ExpireItem, Tick, vars, tableVars, Tables!vars
<1> QED BY <1>1, <1>2, <1>3 DEF LeasedNext

\* The types the applications need, as in BatchTables.
TableTypes ==
  /\ bronze \subseteq Candle
  /\ table \in [Tables!Dataset -> SUBSET Candle]
  /\ run \in [Execution -> Tables!Run \cup {NoRun}]

\* Runs as they are before and after a step: the same jobs, or none.
SameJobs(f) ==
  /\ run'[f] = NoRun <=> run[f] = NoRun
  /\ run[f] # NoRun => run'[f].job = run[f].job

\* On AWS Silver writes one data set, Gold five.
LEMMA TargetsOfJobs ==
  ASSUME NEW job \in {"silver", "gold"}
  PROVE  /\ Tables!Targets(job) \in Seq(Tables!Dataset)
         /\ Len(Tables!Targets(job)) \in 1 .. 5
<1>1. /\ Tables!ServingTables \in Seq(Tables!Dataset) /\ Len(Tables!ServingTables) = 4
      /\ {"silver", "gold"} \subseteq Tables!Dataset
  BY DEF Tables!ServingTables, Tables!Dataset
<1> HIDE DEF Tables!ServingTables
<1>2. CASE job = "silver"
  <2>1. Tables!Targets(job) = <<"silver">>
    BY <1>2 DEF Tables!Targets
  <2> QED BY <1>1, <2>1
<1>3. CASE job = "gold"
  <2>1. Tables!Targets(job) = <<"gold">> \o Tables!ServingTables
    BY <1>3 DEF Tables!Targets
  <2> DEFINE head == <<"gold">>
             tail == Tables!ServingTables
  <2>2. head \in Seq(Tables!Dataset) /\ tail \in Seq(Tables!Dataset)
        /\ Len(head) = 1 /\ Len(tail) = 4
    BY <1>1
  <2> HIDE DEF head, tail
  <2>3. head \o tail \in Seq(Tables!Dataset) /\ Len(head \o tail) = Len(head) + Len(tail)
    BY <2>2, ConcatProperties
  <2>4. Len(head \o tail) = 5
    BY <2>2, <2>3
  <2> QED BY <2>1, <2>3, <2>4 DEF head, tail
<1> QED BY <1>2, <1>3

\* The updates the actions make to an application leave it one, of the same job.
LEMMA ApplicationLoaded ==
  ASSUME NEW r \in Tables!Run, NEW S \in SUBSET Candle, NEW n \in 0 .. 6
  PROVE  /\ [r EXCEPT !.source = S, !.next = n] \in Tables!Run
         /\ [r EXCEPT !.source = S, !.next = n].job = r.job
<1>1. [r EXCEPT !.source = S, !.next = n] \in Tables!Run
  BY DEF Tables!Run
<1>2. [r EXCEPT !.source = S, !.next = n].job = r.job
  BY DEF Tables!Run
<1> QED BY <1>1, <1>2

LEMMA ApplicationUpdated ==
  ASSUME NEW r \in Tables!Run, NEW n \in 0 .. 6
  PROVE  /\ [r EXCEPT !.next = n, !.emptied = FALSE] \in Tables!Run
         /\ [r EXCEPT !.next = n, !.emptied = FALSE].job = r.job
         /\ [r EXCEPT !.emptied = TRUE] \in Tables!Run
         /\ [r EXCEPT !.emptied = TRUE].job = r.job
         /\ [r EXCEPT !.readable = FALSE] \in Tables!Run
         /\ [r EXCEPT !.readable = FALSE].job = r.job
<1>1. [r EXCEPT !.next = n, !.emptied = FALSE] \in Tables!Run
  BY DEF Tables!Run
<1>2. [r EXCEPT !.emptied = TRUE] \in Tables!Run /\ [r EXCEPT !.readable = FALSE] \in Tables!Run
  BY DEF Tables!Run
<1>3. /\ [r EXCEPT !.next = n, !.emptied = FALSE].job = r.job
      /\ [r EXCEPT !.emptied = TRUE].job = r.job
      /\ [r EXCEPT !.readable = FALSE].job = r.job
  BY DEF Tables!Run
<1> QED BY <1>1, <1>2, <1>3

\* What an application does keeps the types and its job.
LEMMA ComputesTypes ==
  ASSUME TableTypes, Applications, NEW e \in Execution, Computes(e)
  PROVE  TableTypes' /\ \A f \in Execution : SameJobs(f)
<1> DEFINE Becomes(f, r) == r \in Tables!Run /\ r.job = run[f].job
<1>r. ASSUME run' \in [Execution -> Tables!Run \cup {NoRun}], bronze' \subseteq Candle,
             table' \in [Tables!Dataset -> SUBSET Candle],
             \A f \in Execution : run'[f] = run[f] \/ (run[f] # NoRun /\ Becomes(f, run'[f]))
      PROVE  TableTypes' /\ \A f \in Execution : SameJobs(f)
  BY <1>r, LeasedAssumption DEF TableTypes, SameJobs
<1>u. ASSUME NEW r \in Tables!Run, run[e] # NoRun, r.job = run[e].job, run' = [run EXCEPT ![e] = r],
             bronze' \subseteq Candle, table' \in [Tables!Dataset -> SUBSET Candle]
      PROVE  TableTypes' /\ \A f \in Execution : SameJobs(f)
  BY <1>r, <1>u DEF TableTypes
<1> HIDE DEF Becomes
<1>1. CASE Tables!Load(e)
  <2>1. run[e] # NoRun /\ run[e] \in Tables!Run /\ UNCHANGED <<bronze, table>>
    BY <1>1 DEF Tables!Load, Tables!Loading, TableTypes
  <2>2. Tables!Input(run[e].job) \in SUBSET Candle /\ 1 \in 0 .. 6
    <3>1. "silver" \in Tables!Dataset /\ "gold" \in Tables!Dataset
      BY DEF Tables!Dataset
    <3> QED BY <3>1 DEF Tables!Input, TableTypes
  <2>3. run' = [run EXCEPT ![e] = [run[e] EXCEPT !.source = Tables!Input(run[e].job), !.next = 1]]
    BY <1>1, <2>1 DEF Tables!Load, Tables!Run, TableTypes
  <2> DEFINE r == [run[e] EXCEPT !.source = Tables!Input(run[e].job), !.next = 1]
  <2>4. r \in Tables!Run /\ r.job = run[e].job
    BY <2>1, <2>2, ApplicationLoaded, Zenon
  <2>5. run' = [run EXCEPT ![e] = r]
    BY <2>3
  <2> HIDE DEF r
  <2> QED BY <1>u, <2>1, <2>4, <2>5 DEF TableTypes
<1>2. ASSUME Tables!Writing(e)
      PROVE  /\ run[e] # NoRun /\ run[e] \in Tables!Run /\ run[e].source \subseteq Candle
             /\ Tables!Target(e) \in Tables!Dataset /\ run[e].next + 1 \in 0 .. 6
  <2>1. run[e] # NoRun /\ run[e] \in Tables!Run /\ run[e].job \in {"silver", "gold"}
    BY <1>2 DEF Tables!Writing, TableTypes, Applications
  <2> DEFINE T == Tables!Targets(run[e].job)
             n == run[e].next
  <2>2. T \in Seq(Tables!Dataset) /\ Len(T) \in 1 .. 5 /\ n \in 1 .. Len(T)
    BY <1>2, <2>1, TargetsOfJobs DEF Tables!Writing
  <2>3. run[e].source \subseteq Candle
    BY <2>1 DEF Tables!Run
  <2>4. Tables!Target(e) = T[n]
    BY DEF Tables!Target
  <2> HIDE DEF T, n
  <2>5. T[n] \in Tables!Dataset /\ n + 1 \in 0 .. 6
    BY <2>2
  <2> QED BY <2>1, <2>3, <2>4, <2>5 DEF n
<1>3. CASE Tables!Overwrite(e)
  <2>1. Tables!Writing(e) /\ bronze' = bronze
        /\ table' = [table EXCEPT ![Tables!Target(e)] = {}]
    BY <1>3 DEF Tables!Overwrite
  <2>2. table' \in [Tables!Dataset -> SUBSET Candle]
    BY <1>2, <2>1 DEF TableTypes
  <2>3. ASSUME NEW f \in Execution
        PROVE  run'[f] = run[f] \/ (run[f] # NoRun /\ Becomes(f, run'[f]))
    <3>1. \/ run'[f] = run[f]
          \/ run[f] # NoRun /\ run'[f] = [run[f] EXCEPT !.emptied = TRUE]
          \/ run[f] # NoRun /\ run'[f] = [run[f] EXCEPT !.readable = FALSE]
      <4>1. CASE f = e
        BY <1>2, <1>3, <2>1, <4>1 DEF Tables!Overwrite
      <4>2. CASE f # e /\ Tables!Reads(f, Tables!Target(e))
        <5>1. run'[f] = [run[f] EXCEPT !.readable = FALSE]
          BY <1>3, <4>2 DEF Tables!Overwrite
        <5>2. run[f] # NoRun
          BY <4>2 DEF Tables!Reads
        <5> QED BY <5>1, <5>2
      <4>3. CASE f # e /\ ~Tables!Reads(f, Tables!Target(e))
        BY <1>3, <4>3 DEF Tables!Overwrite
      <4> QED BY <4>1, <4>2, <4>3
    <3>2. ASSUME run[f] # NoRun
          PROVE  Becomes(f, [run[f] EXCEPT !.emptied = TRUE])
                 /\ Becomes(f, [run[f] EXCEPT !.readable = FALSE])
      <4>1. run[f] \in Tables!Run /\ 0 \in 0 .. 6
        BY <3>2 DEF TableTypes
      <4> QED BY <4>1, ApplicationUpdated, Zenon DEF Becomes
    <3> QED BY <3>1, <3>2
  <2>4. run' \in [Execution -> Tables!Run \cup {NoRun}]
    <3>1. \A f \in Execution : run'[f] \in Tables!Run \cup {NoRun}
      BY <2>3 DEF Becomes, TableTypes
    <3> QED BY <1>3, <3>1 DEF Tables!Overwrite
  <2> QED BY <1>r, <2>1, <2>2, <2>3, <2>4 DEF TableTypes
<1>4. CASE Tables!WriteSome(e)
  <2>1. PICK c \in run[e].source : table' = [table EXCEPT ![Tables!Target(e)] = @ \cup {c}]
    BY <1>4 DEF Tables!WriteSome, Tables!WrittenRows
  <2>2. Tables!Writing(e) /\ run' = run /\ bronze' = bronze
    BY <1>4 DEF Tables!WriteSome
  <2>3. table' \in [Tables!Dataset -> SUBSET Candle]
    BY <1>2, <2>1, <2>2 DEF TableTypes
  <2> QED BY <1>r, <2>2, <2>3 DEF TableTypes
<1>5. CASE Tables!CommitWrite(e)
  <2>1. Tables!Writing(e) /\ bronze' = bronze
        /\ \E rows \in SUBSET run[e].source : table' = [table EXCEPT ![Tables!Target(e)] = @ \cup rows]
    BY <1>5 DEF Tables!CommitWrite, Tables!CommittedRows, Tables!WrittenRows
  <2>2. run' = [run EXCEPT ![e] = [run[e] EXCEPT !.next = @ + 1, !.emptied = FALSE]]
    BY <1>2, <1>5, <2>1 DEF Tables!CommitWrite, Tables!Run, TableTypes
  <2>3. table' \in [Tables!Dataset -> SUBSET Candle]
    BY <1>2, <2>1 DEF TableTypes
  <2> DEFINE n == run[e].next + 1
             r == [run[e] EXCEPT !.next = n, !.emptied = FALSE]
  <2>4. n \in 0 .. 6 /\ run[e] \in Tables!Run /\ run[e] # NoRun
    BY <1>2, <2>1
  <2>5. run' = [run EXCEPT ![e] = r]
    BY <2>2
  <2> HIDE DEF n
  <2>6. r \in Tables!Run /\ r.job = run[e].job
    BY <2>4, ApplicationUpdated, Zenon
  <2> HIDE DEF r
  <2> QED BY <1>u, <2>1, <2>3, <2>4, <2>5, <2>6 DEF TableTypes
<1> QED BY <1>1, <1>3, <1>4, <1>5 DEF Computes

\* Applications come and go with the Glue runs.
LEMMA ApplicationsNext ==
  TypeOK /\ TableTypes /\ Applications /\ [LeasedNext]_<<vars, tableVars>>
    => TableTypes' /\ Applications'
<1> SUFFICES ASSUME TypeOK, TableTypes, Applications, [LeasedNext]_<<vars, tableVars>>
             PROVE  TableTypes' /\ Applications'
  OBVIOUS
<1> DEFINE Agree(f) ==
             /\ \A j \in GlueJob : <<j, f>> \in runs <=> run[f] # NoRun /\ run[f].job = StageOf(j)
             /\ run[f] # NoRun => run[f].job \in {"silver", "gold"}
             /\ \A j \in Job : <<j, f>> \in runs => state[f] \in {j} \cup Release \cup Terminal
             /\ \A i, j \in Job : <<i, f>> \in runs /\ <<j, f>> \in runs => i = j
           Others(e) ==
             \A f \in Execution \ {e} : /\ state'[f] = state[f] /\ run'[f] = run[f]
                                        /\ \A j \in Job : <<j, f>> \in runs' <=> <<j, f>> \in runs
<1>a. \A f \in Execution : Agree(f)
  BY DEF Applications
<1>b. ASSUME NEW e \in Execution, Others(e), Agree(e)' PROVE Applications'
  <2>1. ASSUME NEW f \in Execution \ {e} PROVE Agree(f)'
    BY <1>a, <1>b, <2>1, GlueStages
  <2> QED BY <1>b, <2>1 DEF Applications
<1>c. ASSUME state' = state, runs' = runs, \A f \in Execution : SameJobs(f)
      PROVE  Applications'
  BY <1>c DEF Applications, SameJobs
\* A step of e without a change of its runs.
<1>d. ASSUME NEW e \in Execution, NEW s \in State, Goto(e, s), runs' = runs, run' = run,
             \A j \in Job : <<j, e>> \in runs => s \in {j} \cup Release \cup Terminal
      PROVE  Applications'
  <2>1. state'[e] = s /\ Others(e)
    BY <1>d DEF Goto, TypeOK
  <2>2. Agree(e)'
    BY <1>a, <1>d, <2>1
  <2> HIDE DEF Agree, Others
  <2> QED BY <1>b, <2>1, <2>2
\* Afterwards e has no run.
<1>e. ASSUME NEW e \in Execution, Others(e), run'[e] = NoRun, \A j \in Job : <<j, e>> \notin runs'
      PROVE  Applications'
  <2>1. Agree(e)'
    BY <1>e, GlueStages
  <2> HIDE DEF Agree, Others
  <2> QED BY <1>b, <1>e, <2>1
\* Afterwards e waits for its only run.
<1>f. ASSUME NEW e \in Execution, Others(e), NEW j \in Job, state'[e] = j,
             \A i \in Job : <<i, e>> \in runs' <=> i = j,
             IF j \in GlueJob THEN run'[e] # NoRun /\ run'[e].job = StageOf(j) ELSE run'[e] = NoRun
      PROVE  Applications'
  <2>1. Agree(e)'
    BY <1>f, GlueStages
  <2> HIDE DEF Agree, Others
  <2> QED BY <1>b, <1>f, <2>1
\* Runs of e, and of nobody else, come and go.
<1>g. ASSUME NEW e \in Execution, NEW j \in Job, runs' \in {runs \cup {<<j, e>>}, runs \ {<<j, e>>}},
             run' = run \/ (\E r : run' = [run EXCEPT ![e] = r]),
             state' = state \/ (\E s \in State : Goto(e, s))
      PROVE  Others(e)
  BY <1>g DEF Goto, TypeOK, TableTypes
<1>h. ASSUME NEW e \in Execution, run' = [run EXCEPT ![e] = NoRun], UNCHANGED <<bronze, table>>
      PROVE  TableTypes' /\ run'[e] = NoRun
  BY <1>h DEF TableTypes
<1> HIDE DEF Agree, Others
<1>1. ASSUME NEW e \in Execution, Unseen(e) PROVE TableTypes' /\ Applications'
  <2>1. TableTypes' /\ run' = run
    BY <1>1 DEF Unseen, tableVars, TableTypes
  <2>2. CASE StartExecution(e) \/ AcquireRefused(e) \/ AcquireFails(e) \/ AcquireReplyLost(e)
    <3>1. runs' = runs /\ state[e] \in {"NotStarted", "AcquireLock"}
          /\ \E s \in Terminal \cup {"AcquireLock"} : Goto(e, s)
      BY <2>2 DEF StartExecution, AcquireRefused, AcquireFails, AcquireReplyLost, Terminal
    <3>2. \A j \in Job : <<j, e>> \notin runs
      BY <3>1 DEF Applications, Job, Release, Terminal
    <3> QED BY <1>d, <2>1, <3>1, <3>2 DEF State, Timed
  <2>3. CASE StartFails(e) \/ ReleaseLock(e) \/ ReleaseFails(e)
    <3>1. runs' = runs /\ \E s \in Release \cup Terminal : Goto(e, s)
      BY <2>3 DEF StartFails, ReleaseLock, ReleaseFails, Catch, AfterRelease, Release, Terminal
    <3> QED BY <1>d, <2>1, <3>1, GlueStages
  <2> QED BY <1>1, <2>1, <2>2, <2>3 DEF Unseen
<1>2. ASSUME NEW e \in Execution, EnterChain(e) PROVE TableTypes' /\ Applications'
  <2>1. TableTypes' /\ run' = run /\ runs' = runs /\ Goto(e, "RunSilver")
        /\ state[e] = "AcquireLock"
    BY <1>2 DEF EnterChain, AcquireLock, TableTypes
  <2>2. \A j \in Job : <<j, e>> \notin runs
    BY <2>1 DEF Applications, Job, Release, Terminal
  <2> QED BY <1>d, <2>1, <2>2 DEF State, Timed, Job
<1>3. ASSUME NEW e \in Execution, GlueStarts(e) PROVE TableTypes' /\ Applications'
  <2> DEFINE r == Tables!Started(stage[e], 1)
  <2>1. /\ state[e] \in GlueJob /\ <<state[e], e>> \notin runs /\ state' = state
        /\ runs' = runs \cup {<<state[e], e>>} /\ run' = [run EXCEPT ![e] = r]
        /\ UNCHANGED <<bronze, table>>
    BY <1>3 DEF GlueStarts, StartJob
  <2>2. stage[e] = StageOf(state[e]) /\ stage[e] \in {"silver", "gold"}
    BY <2>1, GlueStages DEF stage
  <2>3. r \in Tables!Run /\ r.job = StageOf(state[e])
    BY <2>2 DEF Tables!Started, Tables!Run, Tables!Flight!Chain
  <2> HIDE DEF r
  <2>4. TableTypes' /\ run'[e] = r /\ r # NoRun
    BY <2>1, <2>3, LeasedAssumption DEF TableTypes
  <2>5. \A i \in Job : <<i, e>> \in runs' <=> i = state[e]
    BY <2>1, GlueStages DEF Applications
  <2>6. Others(e)
    BY <1>g, <2>1, GlueStages
  <2> QED BY <1>f, <2>1, <2>3, <2>4, <2>5, <2>6, GlueStages
\* The run e waits for ends: it is its only one.
<1>i. ASSUME NEW e \in Execution, JobSucceeds(e) \/ JobFails(e),
             \/ run' = run /\ run[e] = NoRun
             \/ run' = [run EXCEPT ![e] = NoRun] /\ run'[e] = NoRun
      PROVE  Applications'
  <2>1. state[e] \in Job /\ <<state[e], e>> \in runs /\ runs' = runs \ {<<state[e], e>>}
    BY <1>i DEF JobSucceeds, JobFails, TypeOK
  <2>2. \E s \in State : Goto(e, s)
    BY <1>i, <2>1 DEF JobSucceeds, JobFails, Catch, NextState, State, Timed, Job, Release
  <2>3. \A j \in Job : <<j, e>> \notin runs'
    BY <2>1 DEF Applications
  <2>4. Others(e)
    BY <1>g, <1>i, <2>1, <2>2
  <2> QED BY <1>e, <1>i, <2>3, <2>4
<1>4. ASSUME NEW e \in Execution, GlueSucceeds(e) \/ GlueFails(e)
      PROVE  TableTypes' /\ Applications'
  <2>1. TableTypes' /\ run' = [run EXCEPT ![e] = NoRun] /\ run'[e] = NoRun
        /\ (JobSucceeds(e) \/ JobFails(e))
    BY <1>4, <1>h DEF GlueSucceeds, GlueFails, ApplicationEnds
  <2> QED BY <1>i, <2>1
<1>j. ASSUME NEW e \in Execution, OrphanEnds(e),
             \/ run' = run /\ run[e] = NoRun
             \/ run' = [run EXCEPT ![e] = NoRun] /\ run'[e] = NoRun
      PROVE  Applications'
  <2>1. PICK j \in Job : <<j, e>> \in runs /\ runs' = runs \ {<<j, e>>} /\ state' = state
    BY <1>j DEF OrphanEnds
  <2>2. \A i \in Job : <<i, e>> \notin runs'
    BY <2>1 DEF Applications
  <2>3. Others(e)
    BY <1>g, <1>j, <2>1
  <2> QED BY <1>e, <1>j, <2>2, <2>3
<1>5. ASSUME NEW e \in Execution, LostGlueEnds(e) PROVE TableTypes' /\ Applications'
  <2>1. TableTypes' /\ run' = [run EXCEPT ![e] = NoRun] /\ run'[e] = NoRun /\ OrphanEnds(e)
    BY <1>5, <1>h DEF LostGlueEnds, ApplicationEnds
  <2> QED BY <1>j, <2>1
<1>k. ASSUME NEW e \in Execution, LoseTrack(e), run' = run PROVE Applications'
  <2>1. Goto(e, "ReleaseLockAfterFailure") /\ runs' = runs
    BY <1>k DEF LoseTrack, Catch
  <2> QED BY <1>d, <1>k, <2>1 DEF State, Release
<1>6. ASSUME NEW e \in Execution, GlueIsLost(e) PROVE TableTypes' /\ Applications'
  BY <1>6, <1>k DEF GlueIsLost, tableVars, TableTypes
<1>7. ASSUME NEW e \in Execution, Projects(e) PROVE TableTypes' /\ Applications'
  <2>1. TableTypes' /\ run' = run
    BY <1>7 DEF Projects, tableVars, TableTypes
  <2>2. CASE run[e] = NoRun /\ OrphanEnds(e)
    BY <1>j, <2>1, <2>2
  <2>3. ASSUME state[e] = "RunLatestProjection"
        PROVE  run[e] = NoRun /\ state[e] \in Job \ GlueJob
    <3>1. \A j \in GlueJob : j # state[e] /\ state[e] \notin Release \cup Terminal
      BY <2>3 DEF GlueJob, Release, Terminal
    <3>2. \A j \in GlueJob : <<j, e>> \notin runs
      BY <3>1, GlueStages DEF Applications
    <3> QED BY <2>3, <3>2, NoApplication DEF Job, GlueJob
  <2>4. CASE state[e] = "RunLatestProjection" /\ StartJob(e)
    <3>1. <<state[e], e>> \notin runs /\ runs' = runs \cup {<<state[e], e>>} /\ state' = state
      BY <2>4 DEF StartJob
    <3>2. \A i \in Job : <<i, e>> \in runs' <=> i = state[e]
      BY <2>3, <2>4, <3>1, GlueStages DEF Applications
    <3>3. Others(e)
      BY <1>g, <2>1, <2>3, <2>4, <3>1
    <3> QED BY <1>f, <2>1, <2>3, <2>4, <3>1, <3>2, <3>3
  <2>5. CASE state[e] = "RunLatestProjection" /\ (JobSucceeds(e) \/ JobFails(e))
    BY <1>i, <2>1, <2>3, <2>5
  <2>6. CASE LoseTrack(e)
    BY <1>k, <2>1, <2>6
  <2> QED BY <1>7, <2>1, <2>2, <2>4, <2>5, <2>6 DEF Projects
<1>8. ASSUME NEW e \in Execution, Computes(e) PROVE TableTypes' /\ Applications'
  BY <1>8, <1>c, ComputesTypes DEF Computes, vars
<1>9. CASE \E c \in Candle : UNCHANGED vars /\ Tables!Arrive(c)
  BY <1>9, <1>c DEF Tables!Arrive, vars, TableTypes, SameJobs
<1>10. CASE ((ExpireItem \/ Tick) /\ UNCHANGED tableVars) \/ UNCHANGED <<vars, tableVars>>
  BY <1>10, <1>c DEF ExpireItem, Tick, vars, tableVars, TableTypes, SameJobs
<1> QED BY <1>1, <1>2, <1>3, <1>4, <1>5, <1>6, <1>7, <1>8, <1>9, <1>10 DEF LeasedNext, LeasedStep

\* The steps of the whole are steps of the machine, or leave it alone.
LEMMA MachineGoesOn == LeasedSpec => Spec
<1>1. LeasedInit => Init
  BY DEF LeasedInit
<1>2. [LeasedNext]_<<vars, tableVars>> => [Next]_vars
  <2> SUFFICES ASSUME [LeasedNext]_<<vars, tableVars>> PROVE Next \/ UNCHANGED vars
    OBVIOUS
  <2>1. ASSUME NEW e \in Execution, LeasedStep(e) PROVE Next \/ UNCHANGED vars
    <3>1. CASE Unseen(e) \/ EnterChain(e)
      BY <3>1 DEF Unseen, EnterChain, Next, Step
    <3>2. CASE GlueStarts(e) \/ GlueSucceeds(e) \/ GlueFails(e) \/ GlueIsLost(e)
      BY <3>2 DEF GlueStarts, GlueSucceeds, GlueFails, GlueIsLost, Next, Step
    <3>3. CASE LostGlueEnds(e) \/ Projects(e)
      BY <3>3 DEF LostGlueEnds, Projects, Next, Step
    <3>4. CASE Computes(e)
      BY <3>4 DEF Computes
    <3> QED BY <2>1, <3>1, <3>2, <3>3, <3>4 DEF LeasedStep
  <2> QED BY <2>1 DEF LeasedNext, Next
<1> QED BY <1>1, <1>2, PTL DEF LeasedSpec, Spec

\* At the start there are no runs and no applications.
LEMMA ApplicationsInit == LeasedInit => TableTypes /\ Applications
  BY DEF LeasedInit, Init, TableTypes, Applications

\* Whatever the durations, and whatever replies get lost, the Spark applications are
\* those of the Glue runs of the machine.
THEOREM ApplicationsAreGlueRuns == LeasedSpec => [](TableTypes /\ Applications)
  BY ApplicationsInit, ApplicationsNext, MachineGoesOn, TypeCorrect, PTL DEF LeasedSpec

\* If the lease covers the work, the tables under the machine are those of BatchTables:
\* nobody begins while another execution is in the chain, a run is refused when Glue
\* has one of that job, and a run that ends moves the execution that waits for it.
THEOREM TablesUnderTheLease == TtlCoversWork => (LeasedSpec => TablesFollowTheLease)
<1> SUFFICES ASSUME TtlCoversWork PROVE LeasedSpec => TablesFollowTheLease
  OBVIOUS
<1>1. LeasedInit => Tables!Init
  BY Stages DEF LeasedInit, Init, Tables!Init, Tables!Flight!Init, stage
<1> QED BY <1>1, EveryStepFollows, ApplicationsAreGlueRuns, MachineGoesOn, TypeCorrect,
           LeaseInvHolds, PTL DEF LeasedSpec, TablesFollowTheLease, Tables!Spec

\* Who is about while another execution has an application has raced with it, because
\* it entered the chain beside that application.
GlueMet ==
  \A e, f \in Execution :
    e # f /\ run[f] # NoRun /\ (run[e] # NoRun \/ stage[e] \in Tables!Flight!Chain) =>
      {e, f} \subseteq raced

\* Only an execution that enters the chain, or starts a Glue run in it, meets others.
LEMMA GlueMetNext ==
  TypeOK /\ LeaseInv /\ TableTypes /\ Applications /\ GlueMet /\ [LeasedNext]_<<vars, tableVars>>
    => GlueMet'
<1> SUFFICES ASSUME TypeOK, LeaseInv, TableTypes, Applications, GlueMet,
                    [LeasedNext]_<<vars, tableVars>>
             PROVE  GlueMet'
  OBVIOUS
<1> USE DEF Tables!Flight!Chain
\* Steps that leave e without an application or out of the chain, or as it is.
<1>a. ASSUME NEW e \in Execution, raced' = raced,
             \A f \in Execution : run'[f] # NoRun => run[f] # NoRun,
             \A f \in Execution : stage'[f] \in Tables!Flight!Chain => stage[f] \in Tables!Flight!Chain
      PROVE  GlueMet'
  BY <1>a DEF GlueMet
<1>b. ASSUME NEW e \in Execution, NEW s, stage' = [stage EXCEPT ![e] = s],
             s = "over" \/ stage[e] \in Tables!Flight!Chain
      PROVE  \A f \in Execution : stage'[f] \in Tables!Flight!Chain => stage[f] \in Tables!Flight!Chain
  BY <1>b DEF stage
<1>1. ASSUME NEW e \in Execution, Tables!Begin(e) PROVE GlueMet'
  <2>1. /\ stage' = [stage EXCEPT ![e] = "silver"] /\ run' = run /\ raced \subseteq raced'
        /\ \A f \in Execution : run[f] # NoRun => {e, f} \subseteq raced'
    BY <1>1 DEF Tables!Begin, Tables!Flight!Begin, Tables!LeftBehind
  <2>2. \A f \in Execution \ {e} : stage'[f] = stage[f]
    BY <2>1 DEF stage
  <2> QED BY <2>1, <2>2 DEF GlueMet
<1>2. ASSUME NEW e \in Execution, Tables!StartRun(e) PROVE GlueMet'
  <2>1. /\ stage' = stage /\ raced' = raced /\ stage[e] \in Tables!Flight!Chain
        /\ \A f \in Execution \ {e} : run'[f] = run[f]
    BY <1>2 DEF Tables!StartRun, Tables!Job, TableTypes
  <2>2. \A f \in Execution : stage[f] \in Tables!Flight!Chain => e = f
    <3>1. \A f \in Execution : stage[f] \in Tables!Flight!Chain => state[f] \in Job
      BY Stages DEF stage, TypeOK, Abstract!Chain
    <3>2. \A f \in Execution : state[f] \in Job => lock.owner = f
      BY LeaseIsLive
    <3> QED BY <2>1, <3>1, <3>2
  <2> QED BY <2>1, <2>2 DEF GlueMet
<1>3. ASSUME NEW e \in Execution, Tables!StartFails(e) \/ Tables!LoseTrack(e) \/ Tables!ProjectionReturns(e)
      PROVE  GlueMet'
  <2>1. /\ run' = run /\ raced' = raced
        /\ stage' = [stage EXCEPT ![e] = "over"]
    BY <1>3 DEF Tables!StartFails, Tables!LoseTrack, Tables!ProjectionReturns,
                Tables!Flight!Abandon, Tables!Flight!Advance
  <2> QED BY <1>a, <1>b, <2>1
<1>4. ASSUME NEW e \in Execution, Tables!Finish(e) \/ Tables!Fail(e) PROVE GlueMet'
  <2>1. /\ raced' = raced /\ run' = [run EXCEPT ![e] = NoRun]
        /\ \/ stage' = stage
           \/ \E s : stage' = [stage EXCEPT ![e] = s]
                     /\ (s = "over" \/ stage[e] \in Tables!Flight!Chain)
    BY <1>4 DEF Tables!Finish, Tables!Fail, Tables!Leave, Tables!Flight!Abandon, Tables!Flight!Advance
  <2>2. \A f \in Execution : run'[f] # NoRun => run[f] # NoRun
    BY <2>1 DEF TableTypes
  <2> QED BY <1>a, <1>b, <2>1, <2>2
<1>5. CASE UNCHANGED Tables!vars
  BY <1>5 DEF Tables!vars, GlueMet
<1>6. ASSUME NEW e \in Execution, LeasedStep(e) PROVE GlueMet'
  <2>1. CASE Unseen(e) \/ Projects(e)
    BY <1>3, <1>5, <2>1, UnseenFollows, ProjectsFollows
  <2>2. CASE EnterChain(e)
    BY <1>1, <2>2, EnterFollows
  <2>3. CASE GlueStarts(e) \/ GlueIsLost(e)
    BY <1>2, <1>3, <2>3, GlueFollows
  <2>4. CASE GlueSucceeds(e) \/ GlueFails(e) \/ LostGlueEnds(e)
    BY <1>4, <2>4, EndFollows
  <2>5. CASE Computes(e)
    <3>1. \A f \in Execution : run'[f] # NoRun => run[f] # NoRun
      BY <2>5, ComputesTypes DEF SameJobs
    <3>2. raced' = raced /\ stage' = stage
      BY <2>5, StageStays DEF Computes, vars, Tables!Load, Tables!Overwrite, Tables!WriteSome,
                              Tables!CommitWrite
    <3> QED BY <1>a, <3>1, <3>2
  <2> QED BY <1>6, <2>1, <2>2, <2>3, <2>4, <2>5 DEF LeasedStep
<1>7. CASE \E c \in Candle : UNCHANGED vars /\ Tables!Arrive(c)
  BY <1>7, StageStays DEF Tables!Arrive, vars, GlueMet
<1>8. CASE ((ExpireItem \/ Tick) /\ UNCHANGED tableVars) \/ UNCHANGED <<vars, tableVars>>
  BY <1>8, StageStays DEF ExpireItem, Tick, vars, tableVars, GlueMet
<1> QED BY <1>6, <1>7, <1>8 DEF LeasedNext

\* Glue admits one run of a job, whoever starts it.
JobsApart == \A r, s \in runs : r[1] \in GlueJob /\ r[1] = s[1] => r = s

LEMMA JobsApartNext == JobsApart /\ [Next]_vars => JobsApart'
<1> SUFFICES ASSUME JobsApart, [Next]_vars PROVE JobsApart'
  OBVIOUS
<1>1. ASSUME NEW e \in Execution, StartJob(e) PROVE JobsApart'
  BY <1>1 DEF StartJob, Admitted, JobsApart
<1>2. CASE runs' \subseteq runs
  BY <1>2 DEF JobsApart
<1>3. ASSUME NEW e \in Execution, StartExecution(e) \/ OrphanEnds(e) PROVE runs' \subseteq runs
  BY <1>3 DEF StartExecution, OrphanEnds
<1>4. ASSUME NEW e \in Execution, Step(e), ~StartJob(e) PROVE runs' \subseteq runs
  BY <1>4 DEF Step, AcquireLock, AcquireRefused, AcquireFails, AcquireReplyLost, StartFails,
              JobSucceeds, JobFails, LoseTrack, ReleaseLock, ReleaseFails
<1>5. CASE ExpireItem \/ Tick \/ UNCHANGED vars
  BY <1>2, <1>5 DEF ExpireItem, Tick, vars
<1> QED BY <1>1, <1>2, <1>3, <1>4, <1>5 DEF Next

\* If the lease covers the work, two Glue runs are in progress together only if one
\* execution has entered the chain beside a run that another one had lost, and they
\* are of different jobs; an execution never has two.
THEOREM GlueRunsExcludeHolds == TtlCoversWork => (LeasedSpec => []GlueRunsExclude)
<1> SUFFICES ASSUME TtlCoversWork PROVE LeasedSpec => []GlueRunsExclude
  OBVIOUS
<1>1. LeasedInit => GlueMet
  BY DEF LeasedInit, GlueMet
<1>2. TypeOK /\ Applications /\ GlueMet /\ JobsApart => GlueRunsExclude
  <2> SUFFICES ASSUME TypeOK, Applications, GlueMet, JobsApart, NEW r \in runs, NEW s \in runs,
                      r[1] \in GlueJob, s[1] \in GlueJob, r # s
               PROVE  r[1] # s[1] /\ r[2] # s[2] /\ {r[2], s[2]} \subseteq raced
    BY DEF GlueRunsExclude
  <2>1. r \in Job \X Execution /\ s \in Job \X Execution
    BY DEF TypeOK
  <2>2. run[r[2]] # NoRun /\ run[s[2]] # NoRun
    BY <2>1 DEF Applications
  <2>3. r[2] # s[2]
    BY <2>1 DEF Applications
  <2>4. r[1] # s[1]
    BY DEF JobsApart
  <2> QED BY <2>1, <2>2, <2>3, <2>4 DEF GlueMet
<1>3. Init => JobsApart
  BY DEF Init, JobsApart
<1> QED BY <1>1, <1>2, <1>3, JobsApartNext, GlueMetNext, ApplicationsAreGlueRuns, MachineGoesOn, TypeCorrect,
           LeaseInvHolds, PTL DEF LeasedSpec, Spec
=============================================================================
