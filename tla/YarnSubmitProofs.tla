--------------------------- MODULE YarnSubmitProofs ---------------------------
(***************************************************************************)
(* YarnSubmit for every number of slots, requests, applications and        *)
(* faults: its type correctness, the wait for the batch applications, and  *)
(* the one copy of each streaming application.                             *)
(***************************************************************************)
EXTENDS YarnSubmit, TLAPS

\* What a busy slot may be doing, as TypeOK has it.
WellFormed(w) ==
  /\ w \in Doings
  /\ w.app \in AppId <=> w.phase \in {"submitted", "wait"}
  /\ w.request \in DOMAIN Tasks <=> w.phase # "kill"

-----------------------------------------------------------------------------
(* The tasks *)

\* No DAG or make target has more than three tasks, each submits an application
\* with a name, and none is also a stop.
LEMMA TasksTyped ==
  ASSUME NEW r \in DOMAIN Tasks
  PROVE  /\ Len(Tasks[r]) \in 1 .. 3
         /\ \A k \in 1 .. Len(Tasks[r]) : Tasks[r][k] \in Name
         /\ r \notin DOMAIN Stop
<1>1. r \notin DOMAIN Stop
  BY DEF Tasks, Stop
<1>2. Tasks[r] \in {<<n>> : n \in Name} \cup {<<"raw", "bronze">>, <<"silver", "gold", "serving">>}
  BY DEF Tasks, Name, Streaming
<1>3. ASSUME NEW n \in Name, Tasks[r] = <<n>>
      PROVE  Len(Tasks[r]) \in 1 .. 3 /\ \A k \in 1 .. Len(Tasks[r]) : Tasks[r][k] \in Name
  BY <1>3
<1>4. ASSUME Tasks[r] = <<"raw", "bronze">>
      PROVE  Len(Tasks[r]) \in 1 .. 3 /\ \A k \in 1 .. Len(Tasks[r]) : Tasks[r][k] \in Name
  BY <1>4 DEF Name, Streaming
<1>5. ASSUME Tasks[r] = <<"silver", "gold", "serving">>
      PROVE  Len(Tasks[r]) \in 1 .. 3 /\ \A k \in 1 .. Len(Tasks[r]) : Tasks[r][k] \in Name
  BY <1>5 DEF Name
<1> QED BY <1>1, <1>2, <1>3, <1>4, <1>5

\* A slot that comes to a task is at its beginning.
LEMMA TaskTyped ==
  ASSUME NEW r \in DOMAIN Tasks, NEW k \in 1 .. Len(Tasks[r])
  PROVE  /\ WellFormed(Task(r, k))
         /\ Task(r, k).phase = IF Task(r, k).name \in Streaming THEN "check" ELSE "submit"
<1>1. Tasks[r][k] \in Name /\ k \in 1 .. 3
  BY TasksTyped
<1> DEFINE p == IF Tasks[r][k] \in Streaming THEN "check" ELSE "submit"
<1>2. Task(r, k) = [request |-> r, task |-> k, name |-> Tasks[r][k], app |-> NoApp,
                    ids |-> {}, phase |-> p]
  BY DEF Task
<1>3. p \in {"check", "submit"}
  OBVIOUS
<1>4. Task(r, k) \in Doings
  BY <1>1, <1>2, <1>3 DEF Doings
<1> QED BY <1>2, <1>3, <1>4, YarnAssumption DEF WellFormed, YarnAssumption

\* A slot that leaves a task is at the beginning of the next one, or idle.
LEMMA NextTaskTyped ==
  ASSUME TypeOK, NEW s \in Slot, Busy(s), slot[s].phase # "kill", NextTask(s)
  PROVE  \E w :
           /\ slot' = [slot EXCEPT ![s] = w]
           /\ \/ w = Idle
              \/ /\ WellFormed(w)
                 /\ w.phase = IF w.name \in Streaming THEN "check" ELSE "submit"
<1> DEFINE r == slot[s].request
           k == slot[s].task
<1>1. r \in DOMAIN Tasks /\ k \in 1 .. 3
  BY DEF TypeOK, Busy, Doings
<1>2. CASE k < Len(Tasks[r])
  <2>1. k + 1 \in 1 .. Len(Tasks[r])
    BY <1>1, <1>2, TasksTyped
  <2>2. slot' = [slot EXCEPT ![s] = Task(r, k + 1)]
    BY <1>2 DEF NextTask, Become
  <2> QED BY <1>1, <2>1, <2>2, TaskTyped
<1>3. CASE ~(k < Len(Tasks[r]))
  BY <1>3 DEF NextTask, Become
<1> QED BY <1>2, <1>3

-----------------------------------------------------------------------------
(* Types *)

\* A slot that takes up something well formed, or nothing, keeps the type of slot.
LEMMA BecomeTyped ==
  ASSUME TypeOK, NEW s \in Slot, NEW w, Become(s, w), w = Idle \/ WellFormed(w)
  PROVE  /\ slot' \in [Slot -> Doings \cup {Idle}]
         /\ \A t \in Slot : Busy(t)' => WellFormed(slot[t])'
<1>1. \A t \in Slot : slot[t] # Idle => WellFormed(slot[t])
  BY DEF TypeOK, Busy, WellFormed
<1>2. slot' = [slot EXCEPT ![s] = w] /\ slot \in [Slot -> Doings \cup {Idle}]
  BY DEF Become, TypeOK
<1>3. w \in Doings \cup {Idle}
  BY DEF WellFormed
<1> QED BY <1>1, <1>2, <1>3 DEF Busy, WellFormed

\* So does a slot that changes its phase.
LEMMA PhaseTyped ==
  ASSUME TypeOK, NEW s \in Slot, Busy(s), slot[s].phase # "kill"
  PROVE  /\ slot[s].phase = "check" => WellFormed([slot[s] EXCEPT !.phase = "submit"])
         /\ \A i \in AppId : WellFormed([slot[s] EXCEPT !.phase = "submitted", !.app = i])
         /\ slot[s].phase = "submitted" => WellFormed([slot[s] EXCEPT !.phase = "wait"])
<1>1. WellFormed(slot[s])
  BY DEF TypeOK, Busy, WellFormed
<1> QED BY <1>1 DEF WellFormed, Doings

\* What ClientLeaves and Ended leave of an application.
LEMMA AppTyped ==
  ASSUME TypeOK, NEW i \in AppId
  PROVE  /\ Forgotten \in App
         /\ \A x \in {"SUCCEEDED", "FAILED"} : [app EXCEPT ![i] = Ended(i, x)] \in [AppId -> App]
         /\ ClientLeaves(i) => app' \in [AppId -> App]
<1>1. app[i] \in App /\ app \in [AppId -> App]
  BY DEF TypeOK
<1>2. Forgotten \in App
  BY DEF Forgotten, App, Name, Streaming, Live
<1>3. \A x \in {"SUCCEEDED", "FAILED"} : Ended(i, x) \in App
  BY <1>1, <1>2 DEF Ended, App
<1>4. [app[i] EXCEPT !.client = Idle] \in App
  BY <1>1 DEF App
<1> QED BY <1>1, <1>2, <1>3, <1>4 DEF ClientLeaves

\* Every variable keeps its type.
THEOREM YarnTypeCorrect == Spec => []TypeOK
<1>1. Init => TypeOK
  BY YarnAssumption DEF Init, TypeOK, YarnAssumption, Busy, Forgotten, App, Name, Streaming, Live
<1>2. TypeOK /\ [Next]_vars => TypeOK'
  <2> SUFFICES ASSUME TypeOK, [Next]_vars PROVE TypeOK'
    OBVIOUS
  <2> DEFINE SlotOK == /\ slot \in [Slot -> Doings \cup {Idle}]
                       /\ \A s \in Slot : Busy(s) => WellFormed(slot[s])
             Rest == /\ faults \in 0 .. MaxFaults
                     /\ raced \subseteq Name
                     /\ faulty \subseteq Name
  <2>a. TypeOK <=> SlotOK /\ app \in [AppId -> App] /\ Rest
    BY DEF TypeOK, WellFormed, Busy
  <2>b. (TypeOK <=> SlotOK /\ app \in [AppId -> App] /\ Rest)'
    BY DEF TypeOK, WellFormed, Busy
  <2>i. ASSUME NEW s \in Slot, Become(s, Idle) PROVE SlotOK'
    BY <2>i, BecomeTyped
  <2>n. ASSUME NEW s \in Slot, Busy(s), slot[s].phase # "kill", NextTask(s) PROVE SlotOK'
    <3>1. PICK w : slot' = [slot EXCEPT ![s] = w] /\ (w = Idle \/ WellFormed(w))
      BY <2>n, NextTaskTyped
    <3>2. Become(s, w)
      BY <3>1 DEF Become
    <3> QED BY <3>1, <3>2, BecomeTyped
  <2>w. \A s \in Slot : Busy(s) => slot[s] \in Doings /\ slot[s].name \in Name
    BY DEF TypeOK, Busy, Doings
  <2>h. ASSUME NEW s \in Slot, Busy(s), slot[s].phase \in {"submitted", "wait"}
        PROVE  slot[s].app \in AppId
    BY <2>h DEF TypeOK
  <2>g. ASSUME NEW s \in Slot, Busy(s), slot[s].phase = "check", GoOn(s)
        PROVE  SlotOK' /\ raced' \subseteq Name
    <3>1. Become(s, [slot[s] EXCEPT !.phase = "submit"])
      BY <2>g DEF GoOn
    <3>2. WellFormed([slot[s] EXCEPT !.phase = "submit"])
      BY <2>g, PhaseTyped
    <3>3. SlotOK'
      BY <3>1, <3>2, BecomeTyped
    <3> QED BY <3>3, <2>a, <2>g, <2>w DEF GoOn
  <2>m. faults \in Nat /\ MaxFaults \in Nat
    BY <2>a, YarnAssumption DEF YarnAssumption
  <2>1. CASE UNCHANGED vars
    BY <2>1 DEF vars, TypeOK, Busy
  <2>2. ASSUME NEW s \in Slot, NEW r \in Request, Start(s, r) PROVE TypeOK'
    <3>1. r \in DOMAIN Tasks /\ 1 \in 1 .. Len(Tasks[r])
      BY <2>2, TasksTyped DEF Start
    <3>2. WellFormed(Task(r, 1)) /\ Become(s, Task(r, 1))
      BY <2>2, <3>1, TaskTyped DEF Start
    <3>3. SlotOK'
      BY <3>2, BecomeTyped
    <3> QED BY <2>2, <2>a, <2>b, <3>3 DEF Start
  <2>3. ASSUME NEW s \in Slot, NEW r \in Request, StartStop(s, r) PROVE TypeOK'
    <3>1. PICK ids \in {Listed(Stop[r]), {}} :
            Become(s, [request |-> r, task |-> 1, name |-> Stop[r], app |-> NoApp,
                       ids |-> ids, phase |-> "kill"])
      BY <2>3 DEF StartStop
    <3>2. r \in DOMAIN Stop /\ r \notin DOMAIN Tasks /\ Stop[r] \in Name
      BY <2>3, TasksTyped DEF StartStop, Stop, Name, Streaming
    <3>3. ids \subseteq AppId
      BY <3>1 DEF Listed
    <3>4. WellFormed([request |-> r, task |-> 1, name |-> Stop[r], app |-> NoApp,
                      ids |-> ids, phase |-> "kill"])
      BY <3>2, <3>3, YarnAssumption DEF WellFormed, Doings, YarnAssumption
    <3>5. SlotOK'
      BY <3>1, <3>4, BecomeTyped
    <3> QED BY <2>3, <2>a, <2>b, <3>5 DEF StartStop
  <2>4. ASSUME NEW s \in Slot, CheckPasses(s) \/ ListingFails(s) PROVE TypeOK'
    <3>1. SlotOK' /\ raced' \subseteq Name
      BY <2>4, <2>g DEF CheckPasses, ListingFails
    <3>2. Busy(s)
      BY <2>4 DEF CheckPasses, ListingFails
    <3> QED BY <2>4, <2>a, <2>b, <2>w, <2>m, <3>1, <3>2 DEF CheckPasses, ListingFails
  <2>5. ASSUME NEW s \in Slot, Skip(s) PROVE TypeOK'
    BY <2>5, <2>a, <2>b, <2>n DEF Skip
  <2>6. ASSUME NEW s \in Slot, Submit(s) PROVE TypeOK'
    <3>1. PICK i \in Unused :
            /\ app' = [app EXCEPT ![i] = [name |-> slot[s].name, state |-> "SUBMITTED", client |-> s]]
            /\ Become(s, [slot[s] EXCEPT !.phase = "submitted", !.app = i])
      BY <2>6 DEF Submit
    <3>2. i \in AppId /\ Busy(s) /\ slot[s].phase # "kill"
      BY <2>6 DEF Unused, Submit
    <3>3. SlotOK'
      BY <3>1, <3>2, PhaseTyped, BecomeTyped
    <3>4. [name |-> slot[s].name, state |-> "SUBMITTED", client |-> s] \in App
      BY <3>2, <2>w DEF App, Live
    <3> QED BY <2>6, <2>a, <2>b, <3>1, <3>2, <3>3, <3>4 DEF Submit
  <2>7. ASSUME NEW s \in Slot, SubmitFails(s) PROVE TypeOK'
    BY <2>7, <2>a, <2>b, <2>i DEF SubmitFails
  <2>8. ASSUME NEW s \in Slot, Accepted(s) PROVE TypeOK'
    <3>1. Busy(s) /\ slot[s].phase = "submitted" /\ slot[s].app \in AppId
      BY <2>8, <2>h DEF Accepted
    <3>2. CASE slot[s].name \in Streaming
      BY <2>8, <2>a, <2>b, <2>n, <3>1, <3>2, AppTyped DEF Accepted
    <3>3. CASE slot[s].name \notin Streaming
      <4>1. SlotOK'
        BY <2>8, <3>1, <3>3, PhaseTyped, BecomeTyped DEF Accepted
      <4> QED BY <2>8, <2>a, <2>b, <3>3, <4>1 DEF Accepted
    <3> QED BY <3>2, <3>3
  <2>9. ASSUME NEW s \in Slot, Completed(s) PROVE TypeOK'
    BY <2>9, <2>a, <2>b, <2>n, <2>h, AppTyped DEF Completed
  <2>10. ASSUME NEW s \in Slot, TaskFails(s) PROVE TypeOK'
    BY <2>10, <2>a, <2>b, <2>i, <2>h, AppTyped DEF TaskFails
  <2>11. ASSUME NEW s \in Slot, ClientDies(s) PROVE TypeOK'
    BY <2>11, <2>a, <2>b, <2>i, <2>h, <2>w, <2>m, AppTyped DEF ClientDies
  <2>12. ASSUME NEW s \in Slot, Kill(s) PROVE TypeOK'
    <3>1. PICK i \in slot[s].ids :
            /\ Become(s, [slot[s] EXCEPT !.ids = @ \ {i}])
            /\ app' = IF app[i].state \in Live THEN [app EXCEPT ![i] = Ended(i, "FAILED")] ELSE app
      BY <2>12 DEF Kill
    <3>2. Busy(s) /\ WellFormed(slot[s]) /\ i \in AppId
      BY <2>12, <2>a DEF Kill, WellFormed, Doings
    <3>3. WellFormed([slot[s] EXCEPT !.ids = @ \ {i}])
      BY <3>2 DEF WellFormed, Doings
    <3>4. SlotOK'
      BY <3>1, <3>3, BecomeTyped
    <3>5. app' \in [AppId -> App]
      BY <2>a, <3>1, <3>2, AppTyped
    <3> QED BY <2>12, <2>a, <2>b, <3>4, <3>5 DEF Kill
  <2>13. ASSUME NEW s \in Slot, StopEnds(s) PROVE TypeOK'
    BY <2>13, <2>a, <2>b, <2>i, <2>m DEF StopEnds
  <2>14. ASSUME NEW i \in AppId, Accept(i) \/ Run(i) \/ End(i) PROVE TypeOK'
    <3>1. SlotOK'
      BY <2>14, <2>a DEF Accept, Run, End, Busy
    <3>2. app' \in [AppId -> App]
      <4>1. app[i] \in App /\ app \in [AppId -> App]
        BY <2>a
      <4>2. CASE Accept(i) \/ Run(i)
        BY <4>1, <4>2 DEF Accept, Run, App, Live
      <4>3. CASE End(i)
        BY <4>3, AppTyped DEF End
      <4> QED BY <2>14, <4>2, <4>3
    <3> QED BY <2>14, <2>a, <2>b, <3>1, <3>2 DEF Accept, Run, End
  <2> QED BY <2>1, <2>2, <2>3, <2>4, <2>5, <2>6, <2>7, <2>8, <2>9, <2>10, <2>11, <2>12,
             <2>13, <2>14 DEF Next, Proceed
<1> QED BY <1>1, <1>2, PTL DEF Spec

-----------------------------------------------------------------------------
(* The application of a slot *)

Holding(s) == Busy(s) /\ slot[s].phase \in {"submitted", "wait"}

\* A slot whose client is running is the client of its application, and of no
\* other slot's.
HoldsItsApp ==
  \A s \in Slot : Holding(s) =>
    /\ app[slot[s].app].client = s
    /\ app[slot[s].app].name = slot[s].name
    /\ app[slot[s].app].state # "unused"

\* The identifiers of YARN are not reused while a client follows the application,
\* and the end of an application leaves its client something to see.
LEMMA HoldsItsAppHolds == Spec => []HoldsItsApp
<1>1. Init => HoldsItsApp
  BY DEF Init, HoldsItsApp, Holding, Busy
<1>2. TypeOK /\ HoldsItsApp /\ [Next]_vars => HoldsItsApp'
  <2> SUFFICES ASSUME TypeOK, HoldsItsApp, [Next]_vars PROVE HoldsItsApp'
    OBVIOUS
  <2>a. \A s \in Slot : Holding(s) => slot[s].app \in AppId
    BY DEF TypeOK, Holding
  <2>b. slot \in [Slot -> Doings \cup {Idle}] /\ app \in [AppId -> App]
    BY DEF TypeOK
  <2>c. Idle \notin Slot
    BY IdleAssumption
  <2>d. ASSUME NEW s \in Slot, NEW w, Become(s, w),
               w = Idle \/ w.phase \notin {"submitted", "wait"},
               app' = app \/ (Holding(s) /\ ClientLeaves(slot[s].app))
        PROVE  HoldsItsApp'
    <3> SUFFICES ASSUME NEW t \in Slot, Holding(t)'
                 PROVE  /\ slot'[t] = slot[t] /\ Holding(t)
                        /\ app'[slot[t].app] = app[slot[t].app]
      BY DEF HoldsItsApp
    <3>1. t # s
      BY <2>b, <2>d DEF Become, Holding, Busy
    <3>2. slot'[t] = slot[t] /\ Holding(t)
      BY <2>b, <2>d, <3>1 DEF Become, Holding, Busy
    <3>3. Holding(s) => slot[t].app # slot[s].app
      BY <3>1, <3>2 DEF HoldsItsApp
    <3> QED BY <2>a, <2>b, <2>d, <3>2, <3>3 DEF ClientLeaves
  <2>e. ASSUME NEW i \in AppId, NEW x \in {"SUCCEEDED", "FAILED"},
               app' = [app EXCEPT ![i] = Ended(i, x)],
               \A t \in Slot : Holding(t)' =>
                 Holding(t) /\ slot'[t].app = slot[t].app /\ slot'[t].name = slot[t].name
        PROVE  HoldsItsApp'
    <3> SUFFICES ASSUME NEW t \in Slot, Holding(t)
                 PROVE  /\ app'[slot[t].app].client = t
                        /\ app'[slot[t].app].name = slot[t].name
                        /\ app'[slot[t].app].state # "unused"
      BY <2>e DEF HoldsItsApp
    <3>1. /\ app[slot[t].app].client = t /\ app[slot[t].app].name = slot[t].name
          /\ app[slot[t].app].state # "unused" /\ slot[t].app \in AppId
      BY <2>a DEF HoldsItsApp
    <3>2. CASE i = slot[t].app
      <4>1. Ended(i, x) = [app[i] EXCEPT !.state = x] /\ app[i] \in App
        BY <2>b, <2>c, <3>1, <3>2 DEF Ended
      <4> QED BY <2>b, <2>e, <3>1, <3>2, <4>1 DEF App
    <3>3. CASE i # slot[t].app
      BY <2>b, <2>e, <3>1, <3>3
    <3> QED BY <3>2, <3>3
  <2>f. ASSUME NEW s \in Slot, Busy(s), slot[s].phase # "kill", NextTask(s),
               app' = app \/ (Holding(s) /\ ClientLeaves(slot[s].app))
        PROVE  HoldsItsApp'
    <3>1. PICK w : /\ slot' = [slot EXCEPT ![s] = w]
                   /\ w = Idle \/ w.phase = IF w.name \in Streaming THEN "check" ELSE "submit"
      BY <2>f, NextTaskTyped
    <3>2. Become(s, w) /\ (w = Idle \/ w.phase \notin {"submitted", "wait"})
      BY <3>1 DEF Become
    <3> QED BY <2>d, <2>f, <3>2
  <2>g. ASSUME NEW s \in Slot, Busy(s), slot[s].phase = "check", GoOn(s), app' = app
        PROVE  HoldsItsApp'
    <3>1. Become(s, [slot[s] EXCEPT !.phase = "submit"])
          /\ [slot[s] EXCEPT !.phase = "submit"].phase = "submit"
      BY <2>b, <2>g DEF GoOn, Busy, Doings
    <3> QED BY <2>d, <2>g, <3>1
  <2>1. CASE UNCHANGED vars
    BY <2>1 DEF vars, HoldsItsApp, Holding, Busy
  <2>2. ASSUME NEW s \in Slot, NEW r \in Request, Start(s, r) PROVE HoldsItsApp'
    <3>1. r \in DOMAIN Tasks /\ 1 \in 1 .. Len(Tasks[r])
      BY <2>2, TasksTyped DEF Start
    <3>2. Task(r, 1).phase \notin {"submitted", "wait"}
      BY <3>1, TaskTyped
    <3> QED BY <2>2, <2>d, <3>2 DEF Start
  <2>3. ASSUME NEW s \in Slot, NEW r \in Request, StartStop(s, r) PROVE HoldsItsApp'
    BY <2>3, <2>d DEF StartStop
  <2>4. ASSUME NEW s \in Slot, CheckPasses(s) \/ ListingFails(s) PROVE HoldsItsApp'
    BY <2>4, <2>g DEF CheckPasses, ListingFails
  <2>5. ASSUME NEW s \in Slot, Skip(s) PROVE HoldsItsApp'
    BY <2>5, <2>f DEF Skip
  <2>6. ASSUME NEW s \in Slot, Submit(s) PROVE HoldsItsApp'
    <3>1. PICK i \in Unused :
            /\ app' = [app EXCEPT ![i] = [name |-> slot[s].name, state |-> "SUBMITTED", client |-> s]]
            /\ Become(s, [slot[s] EXCEPT !.phase = "submitted", !.app = i])
      BY <2>6 DEF Submit
    <3>2. i \in AppId /\ app[i].state = "unused"
      BY DEF Unused, Forgotten
    <3>3. slot[s] \in Doings
      BY <2>6, <2>b DEF Submit, Busy
    <3> SUFFICES ASSUME NEW t \in Slot, Holding(t)'
                 PROVE  /\ app'[slot'[t].app].client = t
                        /\ app'[slot'[t].app].name = slot'[t].name
                        /\ app'[slot'[t].app].state # "unused"
      BY DEF HoldsItsApp
    <3>4. CASE t = s
      <4>1. slot'[t] = [slot[s] EXCEPT !.phase = "submitted", !.app = i]
        BY <2>b, <3>1, <3>4 DEF Become
      <4>2. slot'[t].app = i /\ slot'[t].name = slot[s].name
        BY <3>3, <4>1 DEF Doings
      <4> QED BY <2>b, <3>1, <3>2, <3>4, <4>2
    <3>5. CASE t # s
      <4>1. slot'[t] = slot[t] /\ Holding(t)
        BY <2>b, <3>1, <3>5 DEF Become, Holding, Busy
      <4>2. slot[t].app # i /\ slot[t].app \in AppId
        BY <2>a, <3>2, <4>1 DEF HoldsItsApp
      <4> QED BY <2>b, <3>1, <3>2, <4>1, <4>2 DEF HoldsItsApp
    <3> QED BY <3>4, <3>5
  <2>7. ASSUME NEW s \in Slot, SubmitFails(s) \/ StopEnds(s) PROVE HoldsItsApp'
    BY <2>7, <2>d DEF SubmitFails, StopEnds
  <2>8. ASSUME NEW s \in Slot, Accepted(s) PROVE HoldsItsApp'
    <3>1. Busy(s) /\ slot[s].phase = "submitted" /\ Holding(s)
      BY <2>8 DEF Accepted, Holding
    <3>2. CASE slot[s].name \in Streaming
      BY <2>8, <2>f, <3>1, <3>2 DEF Accepted
    <3>3. CASE slot[s].name \notin Streaming
      <4>1. /\ slot' = [slot EXCEPT ![s] = [slot[s] EXCEPT !.phase = "wait"]]
            /\ app' = app /\ slot[s] \in Doings
        BY <2>8, <2>b, <3>3 DEF Accepted, Become, Busy
      <4>2. \A t \in Slot : Holding(t)' =>
              Holding(t) /\ slot'[t].app = slot[t].app /\ slot'[t].name = slot[t].name
        BY <2>b, <3>1, <4>1 DEF Holding, Busy, Doings
      <4> QED BY <4>1, <4>2 DEF HoldsItsApp
    <3> QED BY <3>2, <3>3
  <2>9. ASSUME NEW s \in Slot, Completed(s) PROVE HoldsItsApp'
    BY <2>9, <2>f DEF Completed, Holding
  <2>10. ASSUME NEW s \in Slot, TaskFails(s) \/ ClientDies(s) PROVE HoldsItsApp'
    BY <2>10, <2>d DEF TaskFails, ClientDies, Holding
  <2>11. ASSUME NEW s \in Slot, Kill(s) PROVE HoldsItsApp'
    <3>1. PICK i \in slot[s].ids :
            /\ slot' = [slot EXCEPT ![s] = [slot[s] EXCEPT !.ids = @ \ {i}]]
            /\ app' = IF app[i].state \in Live THEN [app EXCEPT ![i] = Ended(i, "FAILED")] ELSE app
      BY <2>11 DEF Kill, Become
    <3>2. slot[s] \in Doings /\ i \in AppId /\ slot[s].phase = "kill"
      BY <2>11, <2>b DEF Kill, Busy, Doings
    <3>3. [slot[s] EXCEPT !.ids = @ \ {i}].phase = "kill"
      BY <3>2 DEF Doings
    <3>4. CASE app' = app
      BY <2>d, <3>1, <3>3, <3>4 DEF Become
    <3>5. CASE app' = [app EXCEPT ![i] = Ended(i, "FAILED")]
      <4>1. \A t \in Slot : Holding(t)' =>
              Holding(t) /\ slot'[t].app = slot[t].app /\ slot'[t].name = slot[t].name
        BY <2>b, <3>1, <3>3 DEF Holding, Busy
      <4> QED BY <2>e, <3>2, <3>5, <4>1
    <3> QED BY <3>1, <3>4, <3>5
  <2>12. ASSUME NEW i \in AppId, Accept(i) \/ Run(i) PROVE HoldsItsApp'
    BY <2>12, <2>a, <2>b DEF Accept, Run, HoldsItsApp, Holding, Busy, App
  <2>13. ASSUME NEW i \in AppId, End(i) PROVE HoldsItsApp'
    <3>1. slot' = slot /\ \E x \in {"SUCCEEDED", "FAILED"} : app' = [app EXCEPT ![i] = Ended(i, x)]
      BY <2>13 DEF End
    <3> QED BY <2>e, <3>1 DEF Holding, Busy
  <2> QED BY <2>1, <2>2, <2>3, <2>4, <2>5, <2>6, <2>7, <2>8, <2>9, <2>10, <2>11, <2>12,
             <2>13 DEF Next, Proceed
<1> QED BY <1>1, <1>2, YarnTypeCorrect, PTL DEF Spec

-----------------------------------------------------------------------------
(* Batch applications *)

\* For every number of slots and applications, and with any number of dead clients
\* and failing listings: a live batch application is one its task waits for, unless
\* a client of that name has died.
THEOREM BatchAwaitedHolds == Spec => []BatchAppsAreAwaited
<1> DEFINE Awaits(s, i) == Holding(s) /\ slot[s].app = i
           Loose(i) == app[i].state \in Live /\ app[i].name \notin Streaming \cup faulty
           Awaited == \A i \in AppId : Loose(i) => \E s \in Slot : Awaits(s, i)
<1>0. BatchAppsAreAwaited <=> Awaited
  BY DEF BatchAppsAreAwaited, Holding
<1>0a. (BatchAppsAreAwaited <=> Awaited)'
  BY DEF BatchAppsAreAwaited, Holding
<1>1. Init => BatchAppsAreAwaited
  BY DEF Init, BatchAppsAreAwaited, Forgotten, Live
<1>2. TypeOK /\ HoldsItsApp /\ BatchAppsAreAwaited /\ [Next]_vars => BatchAppsAreAwaited'
  <2> SUFFICES ASSUME TypeOK, HoldsItsApp, Awaited, [Next]_vars PROVE Awaited'
    BY <1>0, <1>0a
  <2>b. slot \in [Slot -> Doings \cup {Idle}] /\ app \in [AppId -> App]
    BY DEF TypeOK
  <2>h. \A s \in Slot : Holding(s) =>
          slot[s].app \in AppId /\ app[slot[s].app].name = slot[s].name
    BY DEF TypeOK, Holding, HoldsItsApp
  <2>l. ASSUME NEW i \in AppId, ClientLeaves(i), app'[i].state \in Live
        PROVE  app[i].state \in Live /\ app'[i].name = app[i].name
    <3>1. app'[i] = IF app[i].state \in Live THEN [app[i] EXCEPT !.client = Idle] ELSE Forgotten
      BY <2>b, <2>l DEF ClientLeaves
    <3>2. Forgotten.state \notin Live
      BY DEF Forgotten, Live
    <3>3. app[i].state \in Live
      BY <2>l, <3>1, <3>2
    <3>4. app[i] \in App /\ app'[i] = [app[i] EXCEPT !.client = Idle]
      BY <2>b, <3>1, <3>3
    <3> QED BY <3>3, <3>4 DEF App
  \* s changes what it does; it held nothing, or nothing anybody has to await.
  <2>c. ASSUME NEW s \in Slot, NEW w, Become(s, w), faulty \subseteq faulty',
               Holding(s) =>
                 /\ ClientLeaves(slot[s].app)
                 /\ \A j \in AppId : j = slot[s].app => ~Loose(j)',
               ~Holding(s) => app' = app
        PROVE  Awaited'
    <3> SUFFICES ASSUME NEW i \in AppId, Loose(i)' PROVE \E t \in Slot : Awaits(t, i)'
      OBVIOUS
    <3>1. Holding(s) => i # slot[s].app
      BY <2>c
    <3>2. app'[i] = app[i]
      BY <2>b, <2>c, <2>h, <3>1 DEF ClientLeaves
    <3>3. Loose(i)
      BY <2>c, <3>2
    <3>4. PICK t \in Slot : Awaits(t, i)
      BY <3>3
    <3>5. t # s
      BY <3>1, <3>4
    <3>6. slot'[t] = slot[t]
      BY <2>b, <2>c, <3>5 DEF Become
    <3> QED BY <3>4, <3>6 DEF Holding, Busy
  <2>e. ASSUME NEW i \in AppId, NEW x \in {"SUCCEEDED", "FAILED"},
               app' = [app EXCEPT ![i] = Ended(i, x)], faulty' = faulty,
               \A t \in Slot : Holding(t) => Holding(t)' /\ slot'[t].app = slot[t].app
        PROVE  Awaited'
    <3>1. Ended(i, x).state \notin Live
      <4>1. app[i] \in App
        BY <2>b
      <4> QED BY <4>1 DEF Ended, Forgotten, Live, App
    <3>2. \A j \in AppId : Loose(j)' => Loose(j)
      BY <2>b, <2>e, <3>1
    <3> QED BY <2>e, <3>2
  <2>1. CASE UNCHANGED vars
    BY <2>1 DEF vars, Holding, Busy
  <2>2. ASSUME NEW s \in Slot, NEW r \in Request, Start(s, r) \/ StartStop(s, r) PROVE Awaited'
    BY <2>2, <2>c DEF Start, StartStop, Holding
  <2>3. ASSUME NEW s \in Slot,
               CheckPasses(s) \/ ListingFails(s) \/ Skip(s) \/ SubmitFails(s) \/ StopEnds(s)
        PROVE  Awaited'
    <3>1. ~Holding(s) /\ app' = app /\ faulty \subseteq faulty'
      BY <2>3 DEF CheckPasses, ListingFails, Skip, SubmitFails, StopEnds, Holding
    <3>2. \E w : Become(s, w)
      BY <2>3 DEF CheckPasses, ListingFails, Skip, SubmitFails, StopEnds, GoOn, NextTask
    <3> QED BY <2>c, <3>1, <3>2
  <2>4. ASSUME NEW s \in Slot, Submit(s) PROVE Awaited'
    <3>1. PICK i \in Unused :
            /\ app' = [app EXCEPT ![i] = [name |-> slot[s].name, state |-> "SUBMITTED", client |-> s]]
            /\ slot' = [slot EXCEPT ![s] = [slot[s] EXCEPT !.phase = "submitted", !.app = i]]
      BY <2>4 DEF Submit, Become
    <3>2. i \in AppId /\ faulty' = faulty /\ slot[s] \in Doings /\ ~Holding(s)
      BY <2>4, <2>b DEF Unused, Submit, Busy, Holding
    <3>3. Awaits(s, i)'
      <4>1. slot'[s] = [slot[s] EXCEPT !.phase = "submitted", !.app = i]
        BY <2>b, <3>1
      <4>2. slot'[s].phase = "submitted" /\ slot'[s].app = i /\ slot'[s] \in Doings
        BY <3>2, <4>1 DEF Doings
      <4> QED BY <4>2, IdleAssumption DEF Holding, Busy
    <3>4. ASSUME NEW j \in AppId, j # i, Loose(j)' PROVE \E t \in Slot : Awaits(t, j)'
      <4>1. app'[j] = app[j]
        BY <2>b, <3>1, <3>4
      <4>2. PICK t \in Slot : Awaits(t, j)
        BY <3>2, <3>4, <4>1
      <4>3. slot'[t] = slot[t]
        BY <2>b, <3>1, <3>2, <4>2
      <4> QED BY <4>2, <4>3 DEF Holding, Busy
    <3> QED BY <3>3, <3>4
  <2>5. ASSUME NEW s \in Slot, Accepted(s) PROVE Awaited'
    <3>1. Busy(s) /\ slot[s].phase = "submitted" /\ Holding(s) /\ faulty' = faulty
      BY <2>5 DEF Accepted, Holding
    <3>2. CASE slot[s].name \in Streaming
      <4>1. ClientLeaves(slot[s].app) /\ \E w : Become(s, w)
        BY <2>5, <3>2 DEF Accepted, NextTask
      <4>2. \A j \in AppId : j = slot[s].app => ~Loose(j)'
        BY <2>h, <2>l, <3>1, <3>2, <4>1
      <4> QED BY <2>c, <3>1, <4>1, <4>2
    <3>3. CASE slot[s].name \notin Streaming
      <4>1. /\ slot' = [slot EXCEPT ![s] = [slot[s] EXCEPT !.phase = "wait"]]
            /\ app' = app /\ slot[s] \in Doings
        BY <2>5, <2>b, <3>3 DEF Accepted, Become, Busy
      <4>2. [slot[s] EXCEPT !.phase = "wait"] # Idle
        BY <4>1, IdleAssumption DEF Doings
      <4>3. \A t \in Slot : Holding(t) => Holding(t)' /\ slot'[t].app = slot[t].app
        BY <2>b, <4>1, <4>2 DEF Holding, Busy, Doings
      <4> QED BY <3>1, <4>1, <4>3
    <3> QED BY <3>2, <3>3
  <2>6. ASSUME NEW s \in Slot, Completed(s) \/ TaskFails(s) PROVE Awaited'
    <3>1. /\ Holding(s) /\ app[slot[s].app].state \notin Live /\ faulty' = faulty
          /\ ClientLeaves(slot[s].app) /\ \E w : Become(s, w)
      BY <2>6 DEF Completed, TaskFails, Holding, Live, NextTask
    <3>2. \A j \in AppId : j = slot[s].app => ~Loose(j)'
      BY <2>h, <2>l, <3>1
    <3> QED BY <2>c, <3>1, <3>2
  <2>7. ASSUME NEW s \in Slot, ClientDies(s) PROVE Awaited'
    <3>1. /\ Holding(s) /\ faulty' = faulty \cup {slot[s].name}
          /\ ClientLeaves(slot[s].app) /\ Become(s, Idle)
      BY <2>7 DEF ClientDies, Holding
    <3>2. \A j \in AppId : j = slot[s].app => ~Loose(j)'
      BY <2>h, <2>l, <3>1
    <3> QED BY <2>c, <3>1, <3>2
  <2>8. ASSUME NEW s \in Slot, Kill(s) PROVE Awaited'
    <3>1. PICK i \in slot[s].ids :
            /\ slot' = [slot EXCEPT ![s] = [slot[s] EXCEPT !.ids = @ \ {i}]]
            /\ app' = IF app[i].state \in Live THEN [app EXCEPT ![i] = Ended(i, "FAILED")] ELSE app
      BY <2>8 DEF Kill, Become
    <3>2. slot[s] \in Doings /\ i \in AppId /\ ~Holding(s) /\ faulty' = faulty
      BY <2>8, <2>b DEF Kill, Busy, Holding, Doings
    <3>3. \A t \in Slot : Holding(t) => Holding(t)' /\ slot'[t].app = slot[t].app
      BY <2>b, <3>1, <3>2 DEF Holding, Busy
    <3>4. CASE app' = app
      BY <3>2, <3>3, <3>4
    <3> QED BY <2>e, <3>1, <3>2, <3>3, <3>4
  <2>9. ASSUME NEW i \in AppId, Accept(i) \/ Run(i) PROVE Awaited'
    <3>1. \A j \in AppId : Loose(j)' => Loose(j)
      BY <2>9, <2>b DEF Accept, Run, App, Live
    <3> QED BY <2>9, <3>1 DEF Accept, Run, Holding, Busy
  <2>10. ASSUME NEW i \in AppId, End(i) PROVE Awaited'
    <3>1. /\ slot' = slot /\ faulty' = faulty
          /\ \E x \in {"SUCCEEDED", "FAILED"} : app' = [app EXCEPT ![i] = Ended(i, x)]
      BY <2>10 DEF End
    <3> QED BY <2>e, <3>1 DEF Holding, Busy
  <2> QED BY <2>1, <2>2, <2>3, <2>4, <2>5, <2>6, <2>7, <2>8, <2>9, <2>10 DEF Next, Proceed
<1> QED BY <1>1, <1>2, YarnTypeCorrect, HoldsItsAppHolds, PTL DEF Spec

-----------------------------------------------------------------------------
(* Streaming applications *)

\* Names for which neither a race nor a fault has defeated the check.
Trusted == Streaming \ (raced \cup faulty)

LiveApp(i, n) == app[i].name = n /\ app[i].state \in Live

\* One slot at most is past the check.
OneSubmitter ==
  \A n \in Trusted : \A s, t \in Slot : Submitting(s, n) /\ Submitting(t, n) => s = t

\* A slot past the check that has not submitted yet has no live application beside it.
SubmitsAlone ==
  \A n \in Trusted : \A s \in Slot : Doing(s, n) /\ slot[s].phase = "submit" =>
    \A i \in AppId : ~LiveApp(i, n)

\* An application the listing does not show yet has its client, and it is in
\* Submitting: the listing and the slots together see every live application.
SubmittedIsHeld ==
  \A n \in Trusted : \A i \in AppId : app[i].name = n /\ app[i].state = "SUBMITTED" =>
    \E s \in Slot : Doing(s, n) /\ slot[s].phase = "submitted" /\ slot[s].app = i

OneLive == \A n \in Trusted : \A i, j \in AppId : LiveApp(i, n) /\ LiveApp(j, n) => i = j

SubmitInv == OneSubmitter /\ SubmitsAlone /\ SubmittedIsHeld /\ OneLive

\* Where the yarn client is found, and for every number of slots and applications:
\* a streaming application has two live copies only after two slots submitted it at
\* the same time, a listing failed or a client died.
THEOREM OneCopyHolds == ASSUME YarnOnPath = TRUE PROVE Spec => []OneCopyUnlessRaced
<1>1. Init => SubmitInv
  BY DEF Init, SubmitInv, OneSubmitter, SubmitsAlone, SubmittedIsHeld, OneLive, Submitting,
         Doing, Busy, LiveApp, Forgotten, Live
<1>2. TypeOK /\ SubmitInv /\ [Next]_vars => SubmitInv'
  <2> SUFFICES ASSUME TypeOK, SubmitInv, [Next]_vars PROVE SubmitInv'
    OBVIOUS
  <2>b. slot \in [Slot -> Doings \cup {Idle}] /\ app \in [AppId -> App]
    BY DEF TypeOK
  <2>d. \A s \in Slot : Busy(s) => slot[s] \in Doings
    BY <2>b DEF Busy
  <2> DEFINE Past(s, n) == Doing(s, n) /\ slot[s].phase = "submit"
             Held(s, n, i) == Doing(s, n) /\ slot[s].phase = "submitted" /\ slot[s].app = i
             New(i, n) == app[i].name = n /\ app[i].state = "SUBMITTED"
  \* Nothing appears: no slot gets past the check, no application comes to life or
  \* back to SUBMITTED, and a slot lets go of submitted applications only.
  <2>e. ASSUME raced \subseteq raced', faulty \subseteq faulty',
               \A n \in Trusted' : \A s \in Slot :
                 /\ Submitting(s, n)' => Submitting(s, n)
                 /\ Past(s, n)' => Past(s, n),
               \A n \in Trusted' : \A i \in AppId :
                 /\ LiveApp(i, n)' => LiveApp(i, n)
                 /\ New(i, n)' => New(i, n)
                 /\ \A s \in Slot : New(i, n)' /\ Held(s, n, i) => Held(s, n, i)'
        PROVE  SubmitInv'
    <3>1. Trusted' \subseteq Trusted
      BY <2>e DEF Trusted
    <3>2. OneSubmitter'
      BY <2>e, <3>1 DEF SubmitInv, OneSubmitter
    <3>3. SubmitsAlone'
      BY <2>e, <3>1 DEF SubmitInv, SubmitsAlone
    <3>4. SubmittedIsHeld'
      BY <2>e, <3>1 DEF SubmitInv, SubmittedIsHeld
    <3>5. OneLive'
      BY <2>e, <3>1 DEF SubmitInv, OneLive
    <3> QED BY <3>2, <3>3, <3>4, <3>5 DEF SubmitInv
  \* ClientLeaves and Ended bring no application to life.
  <2>f. ASSUME NEW i \in AppId,
               \/ ClientLeaves(i)
               \/ \E x \in {"SUCCEEDED", "FAILED"} : app' = [app EXCEPT ![i] = Ended(i, x)],
               NEW j \in AppId, NEW n
        PROVE  /\ LiveApp(j, n)' => LiveApp(j, n)
               /\ New(j, n)' => New(j, n)
    <3>1. CASE j # i
      BY <2>b, <2>f, <3>1 DEF ClientLeaves, LiveApp
    <3>2. CASE j = i /\ ClientLeaves(i)
      <4>1. app'[i] = IF app[i].state \in Live THEN [app[i] EXCEPT !.client = Idle] ELSE Forgotten
        BY <2>b, <3>2 DEF ClientLeaves
      <4>2. Forgotten.state \notin Live \cup {"SUBMITTED"}
        BY DEF Forgotten, Live
      <4>3. CASE app[i].state \in Live
        <5>1. app[i] \in App /\ app'[i] = [app[i] EXCEPT !.client = Idle]
          BY <2>b, <4>1, <4>3
        <5> QED BY <3>2, <5>1 DEF App, LiveApp
      <4> QED BY <3>2, <4>1, <4>2, <4>3 DEF LiveApp
    <3>3. ASSUME j = i, NEW x \in {"SUCCEEDED", "FAILED"}, app' = [app EXCEPT ![i] = Ended(i, x)]
          PROVE  app'[j].state \notin Live \cup {"SUBMITTED"}
      <4>1. app[i] \in App /\ app'[j] = Ended(i, x)
        BY <2>b, <3>3
      <4> QED BY <4>1 DEF Ended, Forgotten, Live, App
    <3> QED BY <2>f, <3>1, <3>2, <3>3 DEF LiveApp
  \* s takes up something that is not past the check of a streaming application, and
  \* leaves no submitted application.
  <2>g. ASSUME NEW s \in Slot, NEW w, Become(s, w),
               \/ w = Idle
               \/ w.phase \notin {"submit", "submitted"}
               \/ w.name \notin Streaming,
               raced \subseteq raced', faulty \subseteq faulty',
               \/ app' = app
               \/ slot[s].app \in AppId /\ ClientLeaves(slot[s].app),
               \/ slot[s].phase # "submitted" \/ ~Busy(s)
               \/ slot[s].name \in faulty'
               \/ slot[s].app \in AppId => app[slot[s].app].state # "SUBMITTED"
        PROVE  SubmitInv'
    <3>1. slot' = [slot EXCEPT ![s] = w]
      BY <2>g DEF Become
    <3>2. Trusted' \subseteq Streaming /\ Trusted' \cap faulty' = {}
      BY DEF Trusted
    <3>3. ASSUME NEW n \in Trusted', NEW t \in Slot
          PROVE  /\ Submitting(t, n)' => Submitting(t, n)
                 /\ Past(t, n)' => Past(t, n)
      BY <2>b, <2>g, <3>1, <3>2, <3>3 DEF Submitting, Doing, Busy
    <3>4. ASSUME NEW n \in Trusted', NEW i \in AppId
          PROVE  /\ LiveApp(i, n)' => LiveApp(i, n)
                 /\ New(i, n)' => New(i, n)
      BY <2>f, <2>g DEF LiveApp
    <3>5. ASSUME NEW n \in Trusted', NEW i \in AppId, NEW t \in Slot, New(i, n), Held(t, n, i)
          PROVE  Held(t, n, i)'
      <4>1. t # s
        BY <2>g, <3>2, <3>5 DEF Doing
      <4>2. slot'[t] = slot[t]
        BY <2>b, <3>1, <4>1
      <4> QED BY <3>5, <4>2 DEF Doing, Busy
    <3> QED BY <2>e, <2>g, <3>3, <3>4, <3>5
  <2>n. ASSUME NEW s \in Slot, Busy(s), slot[s].phase # "kill", NextTask(s),
               UNCHANGED <<raced, faulty>>,
               app' = app \/ (slot[s].app \in AppId /\ ClientLeaves(slot[s].app)),
               \/ slot[s].phase # "submitted"
               \/ slot[s].app \in AppId => app[slot[s].app].state # "SUBMITTED"
        PROVE  SubmitInv'
    <3>1. PICK w : /\ slot' = [slot EXCEPT ![s] = w]
                   /\ w = Idle \/ w.phase = IF w.name \in Streaming THEN "check" ELSE "submit"
      BY <2>n, NextTaskTyped
    <3>2. Become(s, w) /\ (w = Idle \/ w.phase \notin {"submit", "submitted"}
                                   \/ w.name \notin Streaming)
      BY <3>1 DEF Become
    <3> QED BY <2>g, <2>n, <3>2
  <2>1. CASE UNCHANGED vars
    BY <2>1, <2>e DEF vars, Submitting, Doing, Busy, LiveApp
  <2>2. ASSUME NEW s \in Slot, NEW r \in Request, Start(s, r) PROVE SubmitInv'
    <3>1. r \in DOMAIN Tasks /\ 1 \in 1 .. Len(Tasks[r])
      BY <2>2, TasksTyped DEF Start
    <3>2. Task(r, 1).phase = IF Task(r, 1).name \in Streaming THEN "check" ELSE "submit"
      BY <3>1, TaskTyped
    <3> QED BY <2>2, <2>g, <3>2 DEF Start
  <2>3. ASSUME NEW s \in Slot, NEW r \in Request, StartStop(s, r) PROVE SubmitInv'
    BY <2>3, <2>g DEF StartStop
  <2>4. ASSUME NEW s \in Slot, CheckPasses(s) PROVE SubmitInv'
    <3> DEFINE m == slot[s].name
    <3>1. /\ slot' = [slot EXCEPT ![s] = [slot[s] EXCEPT !.phase = "submit"]]
          /\ app' = app /\ faulty' = faulty /\ Busy(s) /\ slot[s].phase = "check"
          /\ Listed(m) = {}
      BY <2>4 DEF CheckPasses, GoOn, Become
    <3>2. raced' = IF \E t \in Slot \ {s} : Submitting(t, m) THEN raced \cup {m} ELSE raced
      BY <2>4 DEF CheckPasses, GoOn
    <3>3. Trusted' \subseteq Trusted
      BY <3>1, <3>2 DEF Trusted
    <3>4. slot'[s] = [slot[s] EXCEPT !.phase = "submit"] /\ slot[s] \in Doings
      BY <2>b, <2>d, <3>1
    <3>5. slot'[s].phase = "submit" /\ slot'[s].name = m
      BY <3>4 DEF Doings
    <3>6. \A t \in Slot \ {s} : slot'[t] = slot[t]
      BY <2>b, <3>1
    <3>7. ASSUME m \in Trusted' PROVE \A t \in Slot : ~Submitting(t, m)
      BY <3>1, <3>2, <3>7 DEF Trusted, Submitting
    <3>8. ASSUME NEW n \in Trusted', NEW t \in Slot, Submitting(t, n)', t # s
          PROVE  Submitting(t, n) /\ (Past(t, n)' => Past(t, n))
      BY <3>6, <3>8 DEF Submitting, Doing, Busy
    <3>9. OneSubmitter'
      <4> SUFFICES ASSUME NEW n \in Trusted', NEW t \in Slot, NEW u \in Slot,
                          Submitting(t, n)', Submitting(u, n)', t # u
                   PROVE  FALSE
        BY DEF OneSubmitter
      <4>1. CASE t # s /\ u # s
        BY <3>3, <3>8, <4>1 DEF SubmitInv, OneSubmitter
      <4>2. CASE t = s
        <5>1. n = m
          BY <3>5, <4>2 DEF Submitting, Doing
        <5> QED BY <3>7, <3>8, <4>2, <5>1
      <4>3. CASE u = s
        <5>1. n = m
          BY <3>5, <4>3 DEF Submitting, Doing
        <5> QED BY <3>7, <3>8, <4>3, <5>1
      <4> QED BY <4>1, <4>2, <4>3
    <3>10. SubmitsAlone'
      <4> SUFFICES ASSUME NEW n \in Trusted', NEW t \in Slot, Past(t, n)', NEW i \in AppId, LiveApp(i, n)
                   PROVE  FALSE
        BY <3>1 DEF SubmitsAlone, LiveApp
      <4>1. CASE t # s
        BY <3>3, <3>6, <4>1 DEF SubmitInv, SubmitsAlone, Doing, Busy
      <4>2. CASE t = s
        <5>1. n = m
          BY <3>5, <4>2 DEF Doing
        <5>2. app[i].state = "SUBMITTED"
          BY <3>1, <5>1 DEF Listed, LiveApp, Live
        <5>3. \E u \in Slot : Submitting(u, m)
          BY <3>3, <5>1, <5>2 DEF SubmitInv, SubmittedIsHeld, LiveApp, Submitting
        <5> QED BY <3>7, <5>1, <5>3
      <4> QED BY <4>1, <4>2
    <3>11. SubmittedIsHeld'
      <4> SUFFICES ASSUME NEW n \in Trusted', NEW i \in AppId, New(i, n)
                   PROVE  \E t \in Slot : Held(t, n, i)'
        BY <3>1 DEF SubmittedIsHeld
      <4>1. PICK t \in Slot : Held(t, n, i)
        BY <3>3 DEF SubmitInv, SubmittedIsHeld
      <4>2. slot'[t] = slot[t]
        BY <3>1, <3>6, <4>1
      <4> QED BY <4>1, <4>2 DEF Doing, Busy
    <3>12. OneLive'
      BY <3>1, <3>3 DEF SubmitInv, OneLive, LiveApp
    <3> QED BY <3>9, <3>10, <3>11, <3>12 DEF SubmitInv
  <2>5. ASSUME NEW s \in Slot, ListingFails(s) PROVE SubmitInv'
    <3>1. /\ slot' = [slot EXCEPT ![s] = [slot[s] EXCEPT !.phase = "submit"]]
          /\ app' = app /\ faulty' = faulty \cup {slot[s].name} /\ raced \subseteq raced'
          /\ Busy(s) /\ slot[s].phase = "check"
      BY <2>5 DEF ListingFails, GoOn, Become
    <3>2. slot[s].name \notin Trusted'
      BY <3>1 DEF Trusted
    <3>3. slot'[s] = [slot[s] EXCEPT !.phase = "submit"] /\ slot[s] \in Doings
      BY <2>b, <2>d, <3>1
    <3>4. slot'[s].name = slot[s].name
      BY <3>3 DEF Doings
    <3>5. \A t \in Slot \ {s} : slot'[t] = slot[t]
      BY <2>b, <3>1
    <3>6. ASSUME NEW n \in Trusted', NEW t \in Slot
          PROVE  /\ Submitting(t, n)' => Submitting(t, n)
                 /\ Past(t, n)' => Past(t, n)
                 /\ \A i \in AppId : Held(t, n, i) => Held(t, n, i)'
      BY <3>1, <3>2, <3>4, <3>5 DEF Submitting, Doing, Busy
    <3> QED BY <2>e, <3>1, <3>6 DEF LiveApp
  <2>6. ASSUME NEW s \in Slot, Skip(s) PROVE SubmitInv'
    BY <2>6, <2>n DEF Skip
  <2>7. ASSUME NEW s \in Slot, Submit(s) PROVE SubmitInv'
    <3> DEFINE m == slot[s].name
    <3>1. PICK k \in Unused :
            /\ app' = [app EXCEPT ![k] = [name |-> m, state |-> "SUBMITTED", client |-> s]]
            /\ slot' = [slot EXCEPT ![s] = [slot[s] EXCEPT !.phase = "submitted", !.app = k]]
      BY <2>7 DEF Submit, Become
    <3>2. k \in AppId /\ app[k].state = "unused" /\ Trusted' = Trusted /\ Past(s, m)
      BY <2>7 DEF Unused, Forgotten, Submit, Trusted, Doing
    <3>3. /\ slot'[s] = [slot[s] EXCEPT !.phase = "submitted", !.app = k]
          /\ slot[s] \in Doings
      BY <2>b, <2>d, <3>1, <3>2 DEF Doing
    <3>4. slot'[s].phase = "submitted" /\ slot'[s].name = m /\ slot'[s].app = k
          /\ slot'[s] \in Doings
      BY <3>2, <3>3 DEF Doings
    <3>5. \A t \in Slot \ {s} : slot'[t] = slot[t]
      BY <2>b, <3>1
    <3>6. app'[k].name = m /\ app'[k].state = "SUBMITTED"
      BY <2>b, <3>1, <3>2
    <3>7. \A i \in AppId \ {k} : app'[i] = app[i]
      BY <2>b, <3>1
    <3>8. \A n : \A t \in Slot : Submitting(t, n)' => Submitting(t, n)
      BY <3>2, <3>4, <3>5 DEF Submitting, Doing, Busy
    <3>9. OneSubmitter'
      BY <3>2, <3>8 DEF SubmitInv, OneSubmitter
    <3>10. SubmitsAlone'
      <4> SUFFICES ASSUME NEW n \in Trusted, NEW t \in Slot, Past(t, n)', NEW i \in AppId, LiveApp(i, n)'
                   PROVE  FALSE
        BY <3>2 DEF SubmitsAlone
      <4>1. t # s
        BY <3>4
      <4>2. Past(t, n)
        BY <3>5, <4>1 DEF Doing, Busy
      <4>3. CASE i # k
        BY <3>7, <4>2, <4>3 DEF SubmitInv, SubmitsAlone, LiveApp
      <4>4. CASE i = k
        <5>1. n = m
          BY <3>6, <4>4 DEF LiveApp
        <5> QED BY <3>2, <4>1, <4>2, <5>1 DEF SubmitInv, OneSubmitter, Submitting
      <4> QED BY <4>3, <4>4
    <3>11. SubmittedIsHeld'
      <4> SUFFICES ASSUME NEW n \in Trusted, NEW i \in AppId, New(i, n)'
                   PROVE  \E t \in Slot : Held(t, n, i)'
        BY <3>2 DEF SubmittedIsHeld
      <4>1. CASE i = k
        BY <3>4, <3>6, <4>1, IdleAssumption DEF Doing, Busy
      <4>2. CASE i # k
        <5>1. New(i, n)
          BY <3>7, <4>2
        <5>2. PICK t \in Slot : Held(t, n, i)
          BY <5>1 DEF SubmitInv, SubmittedIsHeld
        <5>3. slot'[t] = slot[t]
          BY <3>2, <3>5, <5>2
        <5> QED BY <5>2, <5>3 DEF Doing, Busy
      <4> QED BY <4>1, <4>2
    <3>12. OneLive'
      <4> SUFFICES ASSUME NEW n \in Trusted, NEW i \in AppId, NEW j \in AppId,
                          LiveApp(i, n)', LiveApp(j, n)', i # j
                   PROVE  FALSE
        BY <3>2 DEF OneLive
      <4>1. CASE i # k /\ j # k
        BY <3>7, <4>1 DEF SubmitInv, OneLive, LiveApp
      <4>2. ASSUME NEW o \in AppId, o # k, LiveApp(o, n)', LiveApp(k, n)' PROVE FALSE
        <5>1. n = m /\ LiveApp(o, n)
          BY <3>6, <3>7, <4>2 DEF LiveApp
        <5> QED BY <3>2, <5>1 DEF SubmitInv, SubmitsAlone
      <4> QED BY <4>1, <4>2
    <3> QED BY <3>9, <3>10, <3>11, <3>12 DEF SubmitInv
  <2>8. ASSUME NEW s \in Slot, SubmitFails(s) \/ StopEnds(s) PROVE SubmitInv'
    BY <2>8, <2>g DEF SubmitFails, StopEnds
  <2>9. ASSUME NEW s \in Slot, Accepted(s) PROVE SubmitInv'
    <3>1. /\ Busy(s) /\ slot[s].phase = "submitted" /\ slot[s].app \in AppId
          /\ app[slot[s].app].state # "SUBMITTED" /\ UNCHANGED <<raced, faulty>>
      BY <2>9 DEF Accepted, TypeOK
    <3>2. CASE slot[s].name \in Streaming
      BY <2>9, <2>n, <3>1, <3>2 DEF Accepted
    <3>3. CASE slot[s].name \notin Streaming
      <4>1. Become(s, [slot[s] EXCEPT !.phase = "wait"]) /\ app' = app
        BY <2>9, <3>3 DEF Accepted
      <4>2. [slot[s] EXCEPT !.phase = "wait"].phase = "wait"
        BY <2>d, <3>1 DEF Doings
      <4> QED BY <2>g, <3>1, <4>1, <4>2
    <3> QED BY <3>2, <3>3
  <2>10. ASSUME NEW s \in Slot, Completed(s) PROVE SubmitInv'
    BY <2>10, <2>n DEF Completed, TypeOK
  <2>11. ASSUME NEW s \in Slot, TaskFails(s) PROVE SubmitInv'
    BY <2>11, <2>g DEF TaskFails, TypeOK
  <2>12. ASSUME NEW s \in Slot, ClientDies(s) PROVE SubmitInv'
    BY <2>12, <2>g DEF ClientDies, TypeOK
  <2>13. ASSUME NEW s \in Slot, Kill(s) PROVE SubmitInv'
    <3>1. PICK i \in slot[s].ids :
            /\ slot' = [slot EXCEPT ![s] = [slot[s] EXCEPT !.ids = @ \ {i}]]
            /\ app' = IF app[i].state \in Live THEN [app EXCEPT ![i] = Ended(i, "FAILED")] ELSE app
            /\ UNCHANGED <<raced, faulty>> /\ slot[s].phase = "kill" /\ Busy(s)
      BY <2>13 DEF Kill, Become
    <3>2. slot[s] \in Doings /\ i \in AppId
      BY <2>d, <3>1 DEF Doings
    <3>3. [slot[s] EXCEPT !.ids = @ \ {i}].phase = "kill"
      BY <3>1, <3>2 DEF Doings
    <3>4. ASSUME NEW n, NEW t \in Slot
          PROVE  /\ Submitting(t, n)' => Submitting(t, n)
                 /\ Past(t, n)' => Past(t, n)
                 /\ \A j \in AppId : Held(t, n, j) => Held(t, n, j)'
      BY <2>b, <3>1, <3>3 DEF Submitting, Doing, Busy
    <3>5. ASSUME NEW n, NEW j \in AppId
          PROVE  /\ LiveApp(j, n)' => LiveApp(j, n)
                 /\ New(j, n)' => New(j, n)
      <4>1. CASE app' = app
        BY <4>1 DEF LiveApp
      <4>2. CASE app' = [app EXCEPT ![i] = Ended(i, "FAILED")]
        BY <2>f, <3>2, <4>2
      <4> QED BY <3>1, <4>1, <4>2
    <3> QED BY <2>e, <3>1, <3>4, <3>5
  <2>14. ASSUME NEW i \in AppId, Accept(i) \/ Run(i) PROVE SubmitInv'
    <3>1. slot' = slot /\ UNCHANGED <<raced, faulty>>
      BY <2>14 DEF Accept, Run
    <3>2. ASSUME NEW n, NEW j \in AppId
          PROVE  /\ LiveApp(j, n)' => LiveApp(j, n)
                 /\ New(j, n)' => New(j, n)
      BY <2>14, <2>b DEF Accept, Run, App, Live, LiveApp
    <3> QED BY <2>e, <3>1, <3>2 DEF Submitting, Doing, Busy
  <2>15. ASSUME NEW i \in AppId, End(i) PROVE SubmitInv'
    <3>1. /\ slot' = slot /\ UNCHANGED <<raced, faulty>>
          /\ \E x \in {"SUCCEEDED", "FAILED"} : app' = [app EXCEPT ![i] = Ended(i, x)]
      BY <2>15 DEF End
    <3> QED BY <2>e, <2>f, <3>1 DEF Submitting, Doing, Busy
  <2> QED BY <2>1, <2>2, <2>3, <2>4, <2>5, <2>6, <2>7, <2>8, <2>9, <2>10, <2>11, <2>12,
             <2>13, <2>14, <2>15 DEF Next, Proceed
<1>3. SubmitInv => OneCopyUnlessRaced
  BY DEF SubmitInv, OneLive, OneCopyUnlessRaced, Trusted, LiveApp
<1> QED BY <1>1, <1>2, <1>3, YarnTypeCorrect, PTL DEF Spec
=============================================================================
