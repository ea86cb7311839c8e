-------------------------- MODULE BatchTablesProofs --------------------------
(***************************************************************************)
(* BatchTables on both platforms, for every set of executions and candles: *)
(* its types, which runs meet, what a run has written so far, what the     *)
(* chain has published when it ends, and what a rebuild of Gold loses.     *)
(* Then Indicators, for every series and smoothing factor:                 *)
(* induction over rows, the recursive functions the indicators are made    *)
(* of, and what Gold writes as EMAs and RSI.                               *)
(***************************************************************************)
EXTENDS BatchTables, SequenceTheorems, FiniteSetTheorems, WellFoundedInduction, TLAPS

-----------------------------------------------------------------------------
(* Targets *)

Jobs == {"silver", "gold", "projection"}

\* The four serving tables.
LEMMA ServingTablesAre ==
  /\ Len(ServingTables) = 4 /\ DOMAIN ServingTables = 1 .. 4
  /\ ServingTables[1] = "market_indicators"
  /\ ServingTables[2] = "market_indicators_latest"
  /\ ServingTables[3] = "market_multitimeframe_signals"
  /\ ServingTables[4] = "market_daily_summary"
  /\ ServingTables \in Seq(Dataset)
BY DEF ServingTables, Dataset

\* The job that overwrites a data set.
JobOf(d) ==
  CASE d = "silver" -> "silver"
    [] d = "gold"   -> "gold"
    [] OTHER        -> IF platform = "aws" THEN "gold" ELSE "projection"

\* On AWS Gold writes its own table first and the serving tables after it.
LEMMA GoldTargetsAre ==
  ASSUME platform = "aws"
  PROVE  /\ Targets("gold") \in Seq(Dataset) /\ Len(Targets("gold")) = 5
         /\ Targets("gold")[1] = "gold"
         /\ \A i \in 2 .. 5 : Targets("gold")[i] = ServingTables[i - 1]
<1> DEFINE head == <<"gold">>
           tail == ServingTables
<1>1. Targets("gold") = head \o tail
  BY DEF Targets
<1>2. head \in Seq(Dataset) /\ Len(head) = 1 /\ head[1] = "gold"
  BY DEF Dataset
<1>3. tail \in Seq(Dataset) /\ Len(tail) = 4
  BY ServingTablesAre
<1> HIDE DEF head, tail
<1>4. /\ head \o tail \in Seq(Dataset) /\ Len(head \o tail) = Len(head) + Len(tail)
      /\ \A i \in 1 .. Len(head) + Len(tail) :
           (head \o tail)[i] = IF i <= Len(head) THEN head[i] ELSE tail[i - Len(head)]
  BY <1>2, <1>3, ConcatProperties
<1>5. /\ Len(head \o tail) = 5 /\ (head \o tail)[1] = "gold"
      /\ \A i \in 2 .. 5 : (head \o tail)[i] = tail[i - 1]
  BY <1>2, <1>3, <1>4
<1> QED BY <1>1, <1>4, <1>5 DEF tail

\* A job overwrites each of its data sets once, and shares none with another job.
LEMMA TargetsAre ==
  ASSUME platform \in {"aws", "local"}, NEW job \in Job
  PROVE  /\ Len(Targets(job)) \in 1 .. 5 /\ DOMAIN Targets(job) = 1 .. Len(Targets(job))
         /\ \A i \in 1 .. Len(Targets(job)) :
              /\ Targets(job)[i] \in Dataset /\ JobOf(Targets(job)[i]) = job
              /\ \A j \in 1 .. Len(Targets(job)) : Targets(job)[i] = Targets(job)[j] => i = j
         /\ \A d \in Dataset : JobOf(d) = job =>
              \E i \in 1 .. Len(Targets(job)) : d = Targets(job)[i]
<1>0. /\ JobOf("silver") = "silver" /\ JobOf("gold") = "gold"
      /\ \A i \in 1 .. 4 : /\ ServingTables[i] \in Dataset
                           /\ ServingTables[i] # "gold" /\ ServingTables[i] # "silver"
                           /\ JobOf(ServingTables[i]) = IF platform = "aws" THEN "gold" ELSE "projection"
                           /\ \A j \in 1 .. 4 : ServingTables[i] = ServingTables[j] => i = j
      /\ \A d \in Dataset : d = "silver" \/ d = "gold" \/ \E i \in 1 .. 4 : d = ServingTables[i]
      /\ "silver" \in Dataset /\ "gold" \in Dataset
  <2>1. \A i \in 1 .. 4 : i = 1 \/ i = 2 \/ i = 3 \/ i = 4
    OBVIOUS
  <2>2. \A i \in 1 .. 4 : /\ ServingTables[i] # "gold" /\ ServingTables[i] # "silver"
                          /\ \A j \in 1 .. 4 : ServingTables[i] = ServingTables[j] => i = j
    BY <2>1, ServingTablesAre
  <2>3. \A d \in Dataset : d = "silver" \/ d = "gold" \/ \E i \in 1 .. 4 : d = ServingTables[i]
    BY ServingTablesAre DEF Dataset
  <2>4. "silver" \in Dataset /\ "gold" \in Dataset /\ \A i \in 1 .. 4 : ServingTables[i] \in Dataset
    BY ServingTablesAre DEF Dataset
  <2>5. JobOf("silver") = "silver" /\ JobOf("gold") = "gold"
    BY DEF JobOf
  <2>6. \A i \in 1 .. 4 :
          JobOf(ServingTables[i]) = IF platform = "aws" THEN "gold" ELSE "projection"
    BY <2>2 DEF JobOf
  <2> QED BY <2>2, <2>3, <2>4, <2>5, <2>6
<1>1. CASE job = "silver"
  <2>1. /\ Targets(job) = <<"silver">>
    BY <1>1 DEF Targets
  <2> QED BY <1>0, <1>1, <2>1 DEF JobOf
<1>2. CASE job = "gold" /\ platform = "aws"
  <2>1. /\ Targets(job) \in Seq(Dataset) /\ Len(Targets(job)) = 5 /\ Targets(job)[1] = "gold"
        /\ \A i \in 2 .. 5 : Targets(job)[i] = ServingTables[i - 1]
    BY <1>2, GoldTargetsAre
  <2>2. DOMAIN Targets(job) = 1 .. 5
    BY <2>1, LenProperties
  <2>3. \A i \in 1 .. 5 : i = 1 \/ (i \in 2 .. 5 /\ i - 1 \in 1 .. 4)
    OBVIOUS
  <2>4. \A i \in 1 .. 4 : i + 1 \in 2 .. 5 /\ i + 1 \in 1 .. 5 /\ (i + 1) - 1 = i
    OBVIOUS
  <2>5. ASSUME NEW i \in 1 .. 5
        PROVE  /\ Targets(job)[i] \in Dataset /\ JobOf(Targets(job)[i]) = job
               /\ \A j \in 1 .. 5 : Targets(job)[i] = Targets(job)[j] => i = j
    BY <1>0, <1>2, <2>1, <2>3
  <2>6. ASSUME NEW d \in Dataset, JobOf(d) = job
        PROVE  \E i \in 1 .. 5 : d = Targets(job)[i]
    <3>1. d = "gold" \/ \E i \in 1 .. 4 : d = ServingTables[i]
      BY <1>0, <1>2, <2>6
    <3> QED BY <2>1, <2>4, <3>1
  <2> QED BY <2>1, <2>2, <2>5, <2>6
<1>3. CASE job = "gold" /\ platform = "local"
  <2>1. Targets(job) = <<"gold">>
    BY <1>3 DEF Targets
  <2> QED BY <1>0, <1>3, <2>1 DEF JobOf
<1>4. CASE job = "projection"
  <2>1. Targets(job) = ServingTables
    BY <1>4 DEF Targets
  <2>2. platform = "local"
    BY <1>4 DEF Job
  <2> QED BY <1>0, <1>4, <2>1, <2>2, ServingTablesAre
<1>5. job \in Jobs
  BY DEF Job, Jobs, Flight!Chain
<1> QED BY <1>1, <1>2, <1>3, <1>4, <1>5 DEF Jobs

-----------------------------------------------------------------------------
(* Types and control *)

Running(e) == run[e] # NoRun

Types ==
  /\ platform \in {"aws", "local"}
  /\ stage \in [Execution -> Flight!Stage]
  /\ bronze \subseteq Candle
  /\ table \in [Dataset -> SUBSET Candle]
  /\ run \in [Execution -> Run \cup {NoRun}]
  /\ raced \subseteq Execution
  /\ found \in [Execution -> SUBSET Candle]

OneInChain ==
  \A e, f \in Execution : stage[e] \in Flight!Chain /\ stage[f] \in Flight!Chain => e = f

\* A run belongs to the stage its execution is at, or its execution has lost it.
RunRight(e) ==
  Running(e) =>
    /\ run[e].job \in Job
    /\ run[e].next <= Len(Targets(run[e].job)) + 1
    /\ run[e].emptied => Writing(e)
    /\ stage[e] = run[e].job \/ stage[e] = "over"

\* Who is about while another execution has a run has raced with it, because its
\* chain began beside that run.
Met ==
  \A e, f \in Execution :
    e # f /\ Running(f) /\ (Running(e) \/ stage[e] \in Flight!Chain) => e \in raced /\ f \in raced

\* No other run of a job beside one that is undisturbed: Glue admits one, and on
\* premises there is no other at all.
RunsApart ==
  \A e, f \in Execution :
    Undisturbed(e) /\ Running(e) /\ Running(f) /\ run[e].job = run[f].job => e = f

\* A run of Silver, lost or not, keeps others from passing Silver undisturbed.
SilverIsDone ==
  \A e, f \in Execution :
    Undisturbed(e) /\ stage[e] \in {"gold", "projection"} /\ Running(f) => run[f].job # "silver"

Order ==
  /\ OneInChain /\ Met /\ RunsApart /\ SilverIsDone
  /\ \A e \in Execution : RunRight(e)

\* Undisturbed runs may only become fewer.
LEMMA UndisturbedBefore ==
  ASSUME UNCHANGED platform, raced \subseteq raced', NEW e
  PROVE  Undisturbed(e)' => Undisturbed(e)
BY DEF Undisturbed

\* On premises an undisturbed execution in the chain has no run of another beside it.
LEMMA AloneOnPremises ==
  ASSUME Order, platform = "local", NEW e \in Execution, NEW f \in Execution, e # f,
         Undisturbed(e), Running(e) \/ stage[e] \in Flight!Chain
  PROVE  ~Running(f)
BY DEF Order, Met, Undisturbed

\* The updates the actions make to a run leave it a run.
LEMMA RunUpdated ==
  ASSUME NEW r \in Run, NEW s \in SUBSET Candle, NEW n \in 0 .. 6
  PROVE  /\ [r EXCEPT !.source = s, !.next = n] \in Run
         /\ [r EXCEPT !.next = n, !.emptied = FALSE] \in Run
<1>1. [r EXCEPT !.source = s, !.next = n] \in Run
  BY DEF Run
<1>2. [r EXCEPT !.next = n, !.emptied = FALSE] \in Run
  BY DEF Run
<1> QED BY <1>1, <1>2

\* The chain moves on for e, which has no run, or gives up.
Proceeds(e) ==
  /\ UNCHANGED <<platform, bronze, table, run>>
  /\ stage' \in [Execution -> Flight!Stage] /\ found' \in [Execution -> SUBSET Candle]
  /\ raced' \subseteq Execution /\ raced \subseteq raced'
  /\ \A f \in Execution \ {e} : stage'[f] = stage[f] /\ found'[f] = found[f]
  /\ \/ /\ stage[e] = "idle" /\ stage'[e] = "silver" /\ found'[e] = bronze
        /\ \A f \in Execution : stage[f] \notin Flight!Chain
        /\ \A f \in Execution : Running(f) => e \in raced' /\ f \in raced'
     \/ stage'[e] = "over" /\ found'[e] = found[e]

\* An execution that begins, moves on or loses track writes nothing.
LEMMA ProceedsStep ==
  ASSUME Types, Order, NEW e \in Execution,
         Begin(e) \/ StartFails(e) \/ LoseTrack(e) \/ ProjectionReturns(e)
  PROVE  Proceeds(e)
<1> USE DEF Flight!Stage, Flight!Chain
<1>1. CASE Begin(e)
  BY <1>1 DEF Begin, Flight!Begin, LeftBehind, Running, Types, Proceeds
<1>2. CASE StartFails(e)
  BY <1>2 DEF StartFails, Flight!Abandon, Types, Proceeds
<1>3. CASE LoseTrack(e)
  BY <1>3 DEF LoseTrack, Flight!Abandon, Types, Proceeds
<1>4. CASE ProjectionReturns(e)
  <2>1. /\ platform = "aws" /\ stage[e] = "projection"
        /\ stage' = [stage EXCEPT ![e] = "over"]
    BY <1>4 DEF ProjectionReturns, Flight!Advance
  <2> QED BY <1>4, <2>1 DEF ProjectionReturns, Types, Proceeds
<1> QED BY <1>1, <1>2, <1>3, <1>4

\* e starts a run, for the stage it is at.
LEMMA StartStep ==
  ASSUME Types, NEW e \in Execution, StartRun(e)
  PROVE  /\ UNCHANGED <<platform, stage, bronze, table, raced, found>>
         /\ run' \in [Execution -> Run \cup {NoRun}]
         /\ \A f \in Execution \ {e} : run'[f] = run[f]
         /\ run[e] = NoRun /\ run'[e] # NoRun
         /\ stage[e] \in Job /\ run'[e].job = stage[e] /\ run'[e].next = 0
         /\ run'[e].source = {} /\ run'[e].emptied = FALSE
         /\ platform = "aws" => \A f \in Execution : Running(f) => run[f].job # stage[e]
<1>1. stage[e] \in Flight!Chain /\ stage[e] \in Job
  BY DEF StartRun, Job, Flight!Chain
<1>2. Started(stage[e], 1) \in Run
  BY <1>1 DEF Started, Run
<1>3. run' = [run EXCEPT ![e] = Started(stage[e], 1)]
  BY DEF StartRun
<1>4. run'[e] = Started(stage[e], 1) /\ run'[e] # NoRun
  BY <1>2, <1>3, TablesAssumption DEF Types
<1> QED BY <1>1, <1>2, <1>3, <1>4 DEF StartRun, Types, Started, Admitted, Running

\* The run of e starts from the beginning.
Restarts(e) ==
  /\ UNCHANGED <<stage, bronze, table, raced, found>> /\ UNCHANGED platform
  /\ run' \in [Execution -> Run \cup {NoRun}]
  /\ \A f \in Execution \ {e} : run'[f] = run[f]
  /\ run[e] # NoRun /\ run'[e] # NoRun
  /\ run'[e].job = run[e].job /\ run'[e].next = 0
  /\ run'[e].source = {} /\ run'[e].emptied = FALSE

\* A second attempt is a run of the same job.
LEMMA ReattemptStep ==
  ASSUME Types, NEW e \in Execution, Reattempt(e)
  PROVE  Restarts(e)
<1>1. run[e] \in Run
  BY DEF Reattempt, Types
<1>2. Started(run[e].job, 2) \in Run
  BY <1>1 DEF Started, Run
<1>3. run' = [run EXCEPT ![e] = Started(run[e].job, 2)]
  BY DEF Reattempt
<1>4. run'[e] = Started(run[e].job, 2) /\ run'[e] # NoRun
  BY <1>2, <1>3, TablesAssumption DEF Types
<1> QED BY <1>2, <1>3, <1>4 DEF Reattempt, Restarts, Types, Started

\* e lists the files of its input.
LEMMA LoadStep ==
  ASSUME Types, NEW e \in Execution, Load(e)
  PROVE  /\ UNCHANGED <<platform, stage, bronze, table, raced, found>>
         /\ run' \in [Execution -> Run \cup {NoRun}]
         /\ \A f \in Execution \ {e} : run'[f] = run[f]
         /\ run[e] # NoRun /\ run'[e] # NoRun
         /\ run'[e].job = run[e].job /\ run[e].next = 0 /\ run'[e].next = 1
         /\ run'[e].source = Input(run[e].job) /\ run'[e].emptied = run[e].emptied
<1>1. run[e] \in Run
  BY DEF Load, Loading, Types
<1>2. Input(run[e].job) \in SUBSET Candle /\ 1 \in 0 .. 6
  <2>1. "silver" \in Dataset /\ "gold" \in Dataset
    BY DEF Dataset
  <2> QED BY <2>1 DEF Input, Types
<1>3. run' = [run EXCEPT ![e] = [run[e] EXCEPT !.source = Input(run[e].job), !.next = 1]]
  BY <1>1 DEF Load, Run, Types
<1>4. [run[e] EXCEPT !.source = Input(run[e].job), !.next = 1] \in Run
  BY <1>1, <1>2, RunUpdated, Zenon
<1>5. run'[e] = [run[e] EXCEPT !.source = Input(run[e].job), !.next = 1] /\ run'[e] # NoRun
  BY <1>3, <1>4, TablesAssumption DEF Types
<1> QED BY <1>1, <1>3, <1>4, <1>5 DEF Load, Loading, Types, Run

\* e changes the data set it is at, and nobody else's.
Changes(e) ==
  /\ UNCHANGED <<platform, stage, bronze, raced, found>>
  /\ run' \in [Execution -> Run \cup {NoRun}]
  /\ table' \in [Dataset -> SUBSET Candle]
  /\ Writing(e) /\ Target(e) \in Dataset
  /\ \A f \in Execution :
       /\ run'[f] = NoRun <=> run[f] = NoRun
       /\ Running(f) => run'[f].job = run[f].job /\ run'[f].source = run[f].source
       /\ Running(f) /\ f # e => run'[f].next = run[f].next /\ run'[f].emptied = run[f].emptied
  /\ \A d \in Dataset \ {Target(e)} : table'[d] = table[d]
  /\ table'[Target(e)] \subseteq table[Target(e)] \cup run[e].source
  /\ \/ /\ run'[e].next = run[e].next
        /\ run[e].emptied \/ table'[Target(e)] = {}
     \/ /\ run'[e].next = run[e].next + 1 /\ run'[e].emptied = FALSE
        /\ run[e].emptied /\ (Undisturbed(e) => run[e].source \subseteq table'[Target(e)])

\* A write touches the data set the run is at, and nothing else.
LEMMA ChangesStep ==
  ASSUME Types, Order, NEW e \in Execution, Overwrite(e) \/ WriteSome(e) \/ CommitWrite(e)
  PROVE  Changes(e)
<1>1. Writing(e) /\ run[e] \in Run /\ run[e].job \in Job
  BY DEF Overwrite, WriteSome, CommitWrite, Writing, Types, Order, RunRight, Running
<1>2. /\ run[e].next \in 1 .. Len(Targets(run[e].job)) /\ Len(Targets(run[e].job)) \in 1 .. 5
      /\ Target(e) \in Dataset
  BY <1>1, TargetsAre DEF Types, Writing, Target
<1>3. run[e].source \subseteq Candle /\ table[Target(e)] \subseteq Candle
  BY <1>1, <1>2 DEF Run, Types
<1>4. CASE Overwrite(e)
  <2>1. table' = [table EXCEPT ![Target(e)] = {}]
    BY <1>4 DEF Overwrite
  <2>2. ASSUME NEW f \in Execution
        PROVE  /\ run'[f] \in Run \cup {NoRun}
               /\ run'[f] = NoRun <=> run[f] = NoRun
               /\ Running(f) => /\ run'[f].job = run[f].job /\ run'[f].source = run[f].source
                                /\ run'[f].next = run[f].next
               /\ Running(f) /\ f # e => run'[f].emptied = run[f].emptied
    <3>1. CASE f = e
      <4>1. run'[f] = [run[f] EXCEPT !.emptied = TRUE]
        BY <1>4, <3>1 DEF Overwrite
      <4> QED BY <1>1, <3>1, <4>1, TablesAssumption DEF Run
    <3>2. CASE f # e /\ Reads(f, Target(e))
      <4>1. run'[f] = [run[f] EXCEPT !.readable = FALSE]
        BY <1>4, <3>2 DEF Overwrite
      <4>2. run[f] \in Run
        BY <3>2 DEF Reads, Types
      <4> QED BY <4>1, <4>2, TablesAssumption DEF Run
    <3>3. CASE f # e /\ ~Reads(f, Target(e))
      <4>1. run'[f] = run[f]
        BY <1>4, <3>3 DEF Overwrite
      <4> QED BY <4>1 DEF Types
    <3> QED BY <3>1, <3>2, <3>3
  <2>3. run' \in [Execution -> Run \cup {NoRun}]
    BY <1>4, <2>2 DEF Overwrite
  <2>4. Running(e)
    BY <1>1 DEF Writing, Running
  <2> QED BY <1>1, <1>2, <1>4, <2>1, <2>2, <2>3, <2>4 DEF Overwrite, Changes, Types
<1>5. CASE WriteSome(e)
  <2>1. PICK c \in run[e].source : table' = [table EXCEPT ![Target(e)] = @ \cup {c}]
    BY <1>5 DEF WriteSome, WrittenRows
  <2> QED BY <1>1, <1>2, <1>3, <1>5, <2>1 DEF WriteSome, Changes, Types
<1>6. CASE CommitWrite(e)
  <2>1. PICK rows \in CommittedRows(e) : table' = [table EXCEPT ![Target(e)] = @ \cup rows]
    BY <1>6 DEF CommitWrite
  <2>5. rows \subseteq run[e].source /\ (Undisturbed(e) => rows = run[e].source)
    BY DEF CommittedRows, WrittenRows
  <2>2. run' = [run EXCEPT ![e] = [run[e] EXCEPT !.next = @ + 1, !.emptied = FALSE]]
    BY <1>1, <1>6 DEF CommitWrite, Run, Types
  <2>3. [run[e] EXCEPT !.next = @ + 1, !.emptied = FALSE] \in Run
    <3> DEFINE n == run[e].next
    <3>1. n \in 1 .. Len(Targets(run[e].job)) /\ Len(Targets(run[e].job)) \in 1 .. 5
      BY <1>2
    <3> HIDE DEF n
    <3>2. n + 1 \in 0 .. 6
      <4>1. \A m \in 1 .. 5 : \A k \in 1 .. m : k + 1 \in 0 .. 6
        OBVIOUS
      <4> QED BY <3>1, <4>1, Zenon
    <3>3. [run[e] EXCEPT !.next = n + 1, !.emptied = FALSE] \in Run
      BY <1>1, <3>2, RunUpdated, Zenon
    <3> QED BY <3>3 DEF n
  <2>4. run'[e] = [run[e] EXCEPT !.next = @ + 1, !.emptied = FALSE] /\ run'[e] # NoRun
    BY <2>2, <2>3, TablesAssumption DEF Types
  <2> QED BY <1>1, <1>2, <1>3, <1>6, <2>1, <2>2, <2>3, <2>4, <2>5
          DEF CommitWrite, Changes, Types, Writing, Run
<1> QED BY <1>4, <1>5, <1>6

\* A run ends, and with it the stage of the execution that awaits it.
Leaves(e) ==
  /\ UNCHANGED <<platform, bronze, table, raced, found>>
  /\ stage' \in [Execution -> Flight!Stage] /\ run' \in [Execution -> Run \cup {NoRun}]
  /\ \A f \in Execution \ {e} : stage'[f] = stage[f] /\ run'[f] = run[f]
  /\ run[e] # NoRun /\ run'[e] = NoRun
  /\ \/ stage'[e] = stage[e] /\ stage[e] # run[e].job
     \/ stage'[e] = "over"
     \/ /\ run[e].next > Len(Targets(run[e].job)) /\ stage[e] = run[e].job
        /\ \/ stage[e] = "silver" /\ stage'[e] = "gold"
           \/ stage[e] = "gold" /\ stage'[e] = "projection"

\* A run that ends leaves the data sets as they are.
LEMMA LeavesStep ==
  ASSUME Types, NEW e \in Execution, Finish(e) \/ Fail(e)
  PROVE  Leaves(e)
<1> USE DEF Flight!Stage, Flight!Chain
<1>1. /\ UNCHANGED <<platform, bronze, table, raced, found>>
      /\ run' = [run EXCEPT ![e] = NoRun] /\ run[e] # NoRun
  BY DEF Finish, Fail, Leave
<1>2. CASE ~Awaited(e)
  BY <1>1, <1>2 DEF Finish, Fail, Types, Leaves, Awaited
<1>3. CASE Awaited(e) /\ Finish(e)
  <2>1. Flight!Advance(e) /\ run[e].next > Len(Targets(run[e].job)) /\ stage[e] = run[e].job
    BY <1>3 DEF Finish, Awaited
  <2> QED BY <1>1, <2>1 DEF Flight!Advance, Types, Leaves
<1>4. CASE Awaited(e) /\ Fail(e)
  BY <1>1, <1>4 DEF Fail, Flight!Abandon, Types, Leaves
<1> QED BY <1>2, <1>3, <1>4

\* Every step is one of these.
LEMMA StepsOfNext ==
  ASSUME Types, Order, [Next]_vars
  PROVE  \/ \E c \in Candle : Arrive(c)
         \/ \E e \in Execution :
              Proceeds(e) \/ StartRun(e) \/ Restarts(e) \/ Load(e) \/ Changes(e) \/ Leaves(e)
         \/ UNCHANGED vars
BY ProceedsStep, ReattemptStep, ChangesStep, LeavesStep DEF Next, Step

\* Jobs and targets depend on the platform only, which never changes.
LEMMA PlatformStays ==
  ASSUME UNCHANGED platform
  PROVE  /\ Job' = Job
         /\ \A f, job : run'[f].job = job => Targets(run[f].job)' = Targets(job)
<1>1. Job' = Job
  BY DEF Job
<1>2. \A f, job : run'[f].job = job => Targets(run[f].job)' = Targets(job)
  BY DEF Targets
<1> QED BY <1>1, <1>2

\* Types are preserved by every step.
LEMMA TypesNext == Types /\ Order /\ [Next]_vars => Types'
<1> SUFFICES ASSUME Types, Order, [Next]_vars PROVE Types'
  OBVIOUS
<1>1. ASSUME NEW c \in Candle, Arrive(c) PROVE Types'
  BY <1>1 DEF Types, Arrive
<1>2. ASSUME NEW e \in Execution, Proceeds(e) PROVE Types'
  BY <1>2 DEF Types, Proceeds
<1>3. ASSUME NEW e \in Execution, StartRun(e) PROVE Types'
  BY <1>3, StartStep DEF Types
<1>4. ASSUME NEW e \in Execution, Load(e) PROVE Types'
  BY <1>4, LoadStep DEF Types
<1>5. ASSUME NEW e \in Execution, Changes(e) PROVE Types'
  BY <1>5 DEF Types, Changes
<1>6. ASSUME NEW e \in Execution, Leaves(e) PROVE Types'
  BY <1>6 DEF Types, Leaves
<1>7. ASSUME NEW e \in Execution, Restarts(e) PROVE Types'
  BY <1>7 DEF Types, Restarts
<1>8. CASE UNCHANGED vars
  BY <1>8 DEF Types, vars
<1> QED BY <1>1, <1>2, <1>3, <1>4, <1>5, <1>6, <1>7, <1>8, StepsOfNext

\* A run keeps in its right place where its fields and its execution's stage do.
LEMMA RunRightStays ==
  ASSUME UNCHANGED platform, NEW f \in Execution, RunRight(f),
         run'[f] = NoRun <=> run[f] = NoRun,
         Running(f) => /\ run'[f].job = run[f].job /\ run'[f].next = run[f].next
                       /\ run'[f].emptied = run[f].emptied
                       /\ stage'[f] = stage[f] \/ stage'[f] = "over"
  PROVE  RunRight(f)'
<1> SUFFICES ASSUME Running(f)
             PROVE  RunRight(f)'
  BY DEF Running, RunRight
<1>1. Job' = Job /\ Targets(run[f].job)' = Targets(run[f].job)
  BY PlatformStays
<1>2. Writing(f) => Writing(f)'
  BY <1>1 DEF Running, Writing
<1> QED BY <1>1, <1>2 DEF Running, RunRight

\* No run starts, and no execution begins, but among those that have raced.
LEMMA MetNext ==
  ASSUME Types, Order, [Next]_vars
  PROVE  Met'
<1> USE DEF Flight!Chain
<1>0. Met /\ \A e \in Execution : RunRight(e)
  BY DEF Order
<1>1. CASE UNCHANGED <<stage, run, raced>>
  BY <1>0, <1>1 DEF Met, Running
<1>2. ASSUME NEW e \in Execution, Proceeds(e) PROVE Met'
  <2>1. /\ UNCHANGED run /\ raced \subseteq raced'
        /\ \A f \in Execution \ {e} : stage'[f] = stage[f]
        /\ \/ \A f \in Execution : Running(f) => e \in raced' /\ f \in raced'
           \/ stage'[e] = "over"
    BY <1>2 DEF Proceeds
  <2> QED BY <1>0, <2>1 DEF Met, Running
<1>3. ASSUME NEW e \in Execution, StartRun(e) PROVE Met'
  <2>1. /\ UNCHANGED <<stage, raced>> /\ \A f \in Execution \ {e} : run'[f] = run[f]
        /\ stage[e] \in Flight!Chain
    BY <1>3, StartStep DEF Job
  <2>2. \A f \in Execution : stage[f] \in Flight!Chain => e = f
    BY <2>1 DEF Order, OneInChain
  <2> QED BY <1>0, <2>1, <2>2 DEF Met, Running
<1>4. ASSUME NEW e \in Execution, Load(e) \/ Restarts(e) PROVE Met'
  <2>1. /\ UNCHANGED <<stage, raced>> /\ \A f \in Execution \ {e} : run'[f] = run[f]
        /\ run[e] # NoRun
    BY <1>4, LoadStep DEF Restarts
  <2> QED BY <1>0, <2>1 DEF Met, Running
<1>5. ASSUME NEW e \in Execution, Changes(e) PROVE Met'
  BY <1>0, <1>5 DEF Met, Changes, Running
<1>6. ASSUME NEW e \in Execution, Leaves(e) PROVE Met'
  <2>1. /\ UNCHANGED raced
        /\ \A f \in Execution \ {e} : stage'[f] = stage[f] /\ run'[f] = run[f]
        /\ run[e] # NoRun /\ run'[e] = NoRun
    BY <1>6 DEF Leaves
  <2> QED BY <1>0, <2>1 DEF Met, Running
<1>7. \/ UNCHANGED <<stage, run, raced>>
      \/ \E e \in Execution :
           Proceeds(e) \/ StartRun(e) \/ Restarts(e) \/ Load(e) \/ Changes(e) \/ Leaves(e)
  BY StepsOfNext DEF Arrive, vars
<1> QED BY <1>1, <1>2, <1>3, <1>4, <1>5, <1>6, <1>7

\* The order of the runs is preserved by every step.
LEMMA OrderNext == Types /\ Order /\ [Next]_vars => Order'
<1> SUFFICES ASSUME Types, Order, [Next]_vars PROVE Order'
  OBVIOUS
<1> USE DEF Flight!Chain
<1>0. /\ \A e \in Execution : RunRight(e)
      /\ OneInChain /\ RunsApart /\ SilverIsDone
  BY DEF Order
<1>m. Met'
  BY MetNext
<1>1. CASE UNCHANGED <<platform, stage, run, raced>>
  <2>1. \A f \in Execution : RunRight(f)'
    BY <1>0, <1>1, RunRightStays
  <2>2. OneInChain' /\ RunsApart' /\ SilverIsDone'
    BY <1>0, <1>1 DEF OneInChain, RunsApart, SilverIsDone, Running, Undisturbed
  <2> QED BY <1>m, <2>1, <2>2 DEF Order
<1>2. ASSUME NEW e \in Execution, Proceeds(e) PROVE Order'
  <2>1. /\ UNCHANGED <<platform, run>> /\ raced \subseteq raced'
        /\ \A f \in Execution \ {e} : stage'[f] = stage[f]
    BY <1>2 DEF Proceeds
  <2>2. \/ stage[e] = "idle" /\ stage'[e] = "silver" /\ \A f \in Execution : stage[f] \notin Flight!Chain
        \/ stage'[e] = "over"
    BY <1>2 DEF Proceeds
  <2>3. stage[e] = "idle" => ~Running(e)
    BY <1>0 DEF RunRight, Job
  <2>4. \A f \in Execution : RunRight(f)'
    BY <1>0, <2>1, <2>2, <2>3, RunRightStays
  <2>5. OneInChain'
    BY <1>0, <2>1, <2>2 DEF OneInChain
  <2>6. RunsApart' /\ SilverIsDone'
    BY <1>0, <2>1, <2>2 DEF RunsApart, SilverIsDone, Running, Undisturbed
  <2> QED BY <1>m, <2>4, <2>5, <2>6 DEF Order
<1>3. ASSUME NEW e \in Execution, StartRun(e) PROVE Order'
  <2>1. /\ UNCHANGED <<platform, stage, raced>>
        /\ \A f \in Execution \ {e} : run'[f] = run[f]
        /\ run[e] = NoRun /\ run'[e] # NoRun
        /\ stage[e] \in Job /\ run'[e].job = stage[e] /\ run'[e].next = 0
        /\ run'[e].emptied = FALSE
        /\ platform = "aws" => \A f \in Execution : Running(f) => run[f].job # stage[e]
    BY <1>3, StartStep
  <2>2. ASSUME NEW f \in Execution, f # e PROVE RunRight(f)'
    BY <1>0, <2>1, <2>2, RunRightStays
  <2>3. RunRight(e)'
    <3>1. Job' = Job /\ Targets(run[e].job)' = Targets(stage[e])
      BY <2>1, PlatformStays
    <3>2. Len(Targets(stage[e])) \in 1 .. 5
      BY <2>1, TargetsAre DEF Types
    <3> QED BY <2>1, <3>1, <3>2 DEF RunRight
  <2>4. RunsApart'
    <3>1. ASSUME platform = "aws" PROVE RunsApart'
      BY <1>0, <2>1, <3>1 DEF RunsApart, Running, Undisturbed
    <3>2. ASSUME platform = "local" PROVE RunsApart'
      BY <1>m, <2>1, <3>2 DEF RunsApart, Met, Running, Undisturbed
    <3> QED BY <3>1, <3>2 DEF Types
  <2>5. SilverIsDone'
    <3>1. \A f \in Execution : stage[f] \in {"gold", "projection"} => stage[e] # "silver"
      BY <1>0, <2>1 DEF OneInChain
    <3> QED BY <1>0, <2>1, <3>1 DEF SilverIsDone, Running, Undisturbed
  <2> QED BY <1>0, <1>m, <2>1, <2>2, <2>3, <2>4, <2>5 DEF Order, OneInChain
<1>4. ASSUME NEW e \in Execution, Load(e) \/ Restarts(e) PROVE Order'
  <2>1. /\ UNCHANGED <<platform, stage, raced>>
        /\ \A f \in Execution \ {e} : run'[f] = run[f]
        /\ run[e] # NoRun /\ run'[e] # NoRun
        /\ run'[e].job = run[e].job
        /\ \/ run'[e].next = 0 /\ run'[e].emptied = FALSE
           \/ run[e].next = 0 /\ run'[e].next = 1 /\ run'[e].emptied = run[e].emptied
    BY <1>4, LoadStep DEF Restarts
  <2>2. ASSUME NEW f \in Execution, f # e PROVE RunRight(f)'
    BY <1>0, <2>1, <2>2, RunRightStays
  <2>3. RunRight(e)'
    <3>1. Job' = Job /\ Targets(run[e].job)' = Targets(run[e].job)
      BY <2>1, PlatformStays
    <3>2. run[e].job \in Job /\ ~run'[e].emptied
      BY <1>0, <2>1 DEF RunRight, Running, Writing
    <3>3. Len(Targets(run[e].job)) \in 1 .. 5
      BY <3>2, TargetsAre DEF Types
    <3> QED BY <1>0, <2>1, <3>1, <3>2, <3>3 DEF RunRight, Running
  <2>4. OneInChain' /\ RunsApart' /\ SilverIsDone'
    BY <1>0, <2>1 DEF OneInChain, RunsApart, SilverIsDone, Running, Undisturbed
  <2> QED BY <1>m, <2>2, <2>3, <2>4 DEF Order
<1>5. ASSUME NEW e \in Execution, Changes(e) PROVE Order'
  <2>1. /\ UNCHANGED <<platform, stage, raced>> /\ Writing(e)
        /\ \A f \in Execution :
             /\ run'[f] = NoRun <=> run[f] = NoRun
             /\ Running(f) => run'[f].job = run[f].job
             /\ Running(f) /\ f # e => run'[f].next = run[f].next /\ run'[f].emptied = run[f].emptied
        /\ \/ run'[e].next = run[e].next
           \/ run'[e].next = run[e].next + 1 /\ run'[e].emptied = FALSE
    BY <1>5 DEF Changes
  <2>2. ASSUME NEW f \in Execution, f # e PROVE RunRight(f)'
    BY <1>0, <2>1, <2>2, RunRightStays
  <2>3. RunRight(e)'
    <3>1. Running(e) /\ run'[e].job = run[e].job
      BY <2>1 DEF Writing, Running
    <3>2. Job' = Job /\ Targets(run[e].job)' = Targets(run[e].job)
      BY <2>1, <3>1, PlatformStays
    <3>3. run[e].job \in Job /\ run[e].next \in 1 .. Len(Targets(run[e].job))
      BY <1>0, <2>1, <3>1 DEF RunRight, Writing
    <3>4. Len(Targets(run[e].job)) \in 1 .. 5
      BY <3>3, TargetsAre DEF Types
    <3>5. run'[e].next <= Len(Targets(run[e].job)) + 1
      BY <2>1, <3>3, <3>4
    <3>6. run'[e].emptied => Writing(e)'
      BY <2>1, <3>1, <3>2, <3>3 DEF Writing, Running
    <3> QED BY <1>0, <2>1, <3>1, <3>2, <3>3, <3>5, <3>6 DEF RunRight
  <2>4. OneInChain' /\ RunsApart' /\ SilverIsDone'
    BY <1>0, <2>1 DEF OneInChain, RunsApart, SilverIsDone, Running, Undisturbed
  <2> QED BY <1>m, <2>2, <2>3, <2>4 DEF Order
<1>6. ASSUME NEW e \in Execution, Leaves(e) PROVE Order'
  <2>1. /\ UNCHANGED <<platform, raced>>
        /\ \A f \in Execution \ {e} : stage'[f] = stage[f] /\ run'[f] = run[f]
        /\ run[e] # NoRun /\ run'[e] = NoRun
        /\ \/ stage'[e] = stage[e]
           \/ stage'[e] = "over"
           \/ stage[e] = run[e].job /\ stage[e] = "silver" /\ stage'[e] = "gold"
           \/ stage[e] = "gold" /\ stage'[e] = "projection"
    BY <1>6 DEF Leaves
  <2>2. ASSUME NEW f \in Execution, f # e PROVE RunRight(f)'
    BY <1>0, <2>1, <2>2, RunRightStays
  <2>3. RunRight(e)'
    BY <2>1 DEF RunRight, Running
  <2>4. OneInChain' /\ RunsApart'
    BY <1>0, <2>1 DEF OneInChain, RunsApart, Running, Undisturbed
  <2>5. SilverIsDone'
    BY <1>0, <2>1 DEF RunsApart, SilverIsDone, Running, Undisturbed
  <2> QED BY <1>m, <2>2, <2>3, <2>4, <2>5 DEF Order
<1>7. \/ UNCHANGED <<platform, stage, run, raced>>
      \/ \E e \in Execution :
           Proceeds(e) \/ StartRun(e) \/ Restarts(e) \/ Load(e) \/ Changes(e) \/ Leaves(e)
  BY StepsOfNext DEF Arrive, vars
<1> QED BY <1>1, <1>2, <1>3, <1>4, <1>5, <1>6, <1>7

\* Types and order hold at the start.
LEMMA OrderInit == Init => Types /\ Order
<1> SUFFICES ASSUME Init PROVE Types /\ Order
  OBVIOUS
<1>1. Types
  BY DEF Init, Flight!Init, Types, Flight!Stage, Flight!Chain
<1>2. \A e \in Execution : stage[e] = "idle" /\ ~Running(e)
  BY DEF Init, Flight!Init, Running
<1> QED BY <1>1, <1>2 DEF Order, OneInChain, Met, RunsApart, SilverIsDone, RunRight, Flight!Chain

\* Types and order always hold.
LEMMA OrderAlways == Spec => [](Types /\ Order)
BY OrderInit, TypesNext, OrderNext, PTL DEF Spec

\* Every variable keeps its type, and a run that has emptied a data set is still
\* writing it.
THEOREM TablesTypes == Spec => []TypeOK
<1>1. Types /\ Order => TypeOK
  BY DEF Types, Order, RunRight, Running, TypeOK
<1> QED BY <1>1, OrderAlways, PTL

-----------------------------------------------------------------------------
(* What the tables hold *)

Within ==
  /\ \A d \in Dataset : table[d] \subseteq bronze
  /\ \A e \in Execution : found[e] \subseteq bronze /\ (Running(e) => run[e].source \subseteq bronze)

\* What an undisturbed run has rewritten holds what it read; what it is writing,
\* no more than that.
Generation(e) ==
  Undisturbed(e) /\ Running(e) =>
    /\ \A i \in 1 .. Len(Targets(run[e].job)) :
         i < run[e].next => table[Targets(run[e].job)[i]] = run[e].source
    /\ run[e].emptied => table[Target(e)] \subseteq run[e].source

\* What the chain has established for e, undisturbed: past Silver, its candles are
\* there; past Gold on premises, Gold equals Silver; a run it awaits has read the
\* table its predecessor left.
ChainRight(e) ==
  Undisturbed(e) =>
    /\ stage[e] \in {"gold", "projection"} => found[e] \subseteq table["silver"]
    /\ stage[e] = "projection" /\ platform = "local" => table["gold"] = table["silver"]
    /\ Awaited(e) /\ run[e].next > 0 =>
         /\ run[e].job = "silver"     => found[e] \subseteq run[e].source
         /\ run[e].job = "gold"       => run[e].source = table["silver"]
         /\ run[e].job = "projection" => run[e].source = table["gold"]

\* Where nobody has raced, Silver has all of Gold from its rewriting on until the
\* run of Gold is over.
NothingLost(e) ==
  e \notin raced =>
    /\ Running(e) /\ run[e].job = "silver" /\ run[e].next > 0 => table["gold"] \subseteq run[e].source
    /\ stage[e] = "gold" \/ (Running(e) /\ run[e].job = "gold") => table["gold"] \subseteq table["silver"]
    /\ Running(e) /\ run[e].job = "gold" /\ run[e].next > 0 => run[e].source \subseteq table["silver"]

Contents ==
  /\ Within
  /\ \A e \in Execution : Generation(e) /\ ChainRight(e) /\ NothingLost(e)

\* Silver and Gold are written by the jobs named for them.
LEMMA SilverAndGold ==
  /\ "silver" \in Dataset /\ "gold" \in Dataset
  /\ JobOf("silver") = "silver" /\ JobOf("gold") = "gold"
BY DEF Dataset, JobOf

\* A run that has been through its targets has rewritten all of them.
LEMMA AllRewritten ==
  ASSUME Types, Order, NEW e \in Execution, Undisturbed(e), Running(e), Generation(e),
         run[e].next > Len(Targets(run[e].job))
  PROVE  /\ run[e].next > 0
         /\ \A d \in Dataset : JobOf(d) = run[e].job => table[d] = run[e].source
<1>1. run[e].job \in Job /\ run[e].next \in 0 .. 6
  BY DEF Types, Order, RunRight, Running, Run
<1>2. Len(Targets(run[e].job)) \in 1 .. 5
  BY <1>1, TargetsAre DEF Types
<1>3. ASSUME NEW d \in Dataset, JobOf(d) = run[e].job
      PROVE  \E i \in 1 .. Len(Targets(run[e].job)) : d = Targets(run[e].job)[i]
  BY <1>1, <1>3, TargetsAre DEF Types
<1>4. \A i \in 1 .. Len(Targets(run[e].job)) : i < run[e].next
  BY <1>1, <1>2
<1> QED BY <1>1, <1>2, <1>3, <1>4 DEF Generation

\* What a run that rewrites a data set leaves to the others.
LEMMA ChangesApart ==
  ASSUME Types, Order, NEW e \in Execution, Changes(e)
  PROVE  /\ Running(e) /\ run[e].job \in Job /\ JobOf(Target(e)) = run[e].job
         /\ run[e].next \in 1 .. Len(Targets(run[e].job)) /\ Target(e) = Targets(run[e].job)[run[e].next]
         /\ run[e].job # "silver" => table'["silver"] = table["silver"]
         /\ run[e].job # "gold" => table'["gold"] = table["gold"]
         /\ \A d \in Dataset : JobOf(d) # run[e].job => table'[d] = table[d]
<1>1. /\ Running(e) /\ run[e].job \in Job
      /\ run[e].next \in 1 .. Len(Targets(run[e].job)) /\ Target(e) = Targets(run[e].job)[run[e].next]
  BY DEF Changes, Writing, Running, Order, RunRight, Target
<1>2. JobOf(Target(e)) = run[e].job
  BY <1>1, TargetsAre DEF Types
<1>3. \A d \in Dataset : JobOf(d) # run[e].job => table'[d] = table[d]
  BY <1>2 DEF Changes
<1> QED BY <1>1, <1>2, <1>3, SilverAndGold

\* A write keeps every undisturbed run at one generation: no other run writes its
\* data sets.
LEMMA GenerationChanges ==
  ASSUME Types, Order, NEW e \in Execution, Changes(e), NEW f \in Execution, Generation(f)
  PROVE  Generation(f)'
<1> SUFFICES ASSUME Running(f)', Undisturbed(f)' PROVE Generation(f)'
  BY DEF Generation
<1>1. /\ Running(f) /\ run'[f].job = run[f].job /\ run'[f].source = run[f].source
      /\ Undisturbed(f)
  BY DEF Changes, Running, Undisturbed
<1>2. Targets(run[f].job)' = Targets(run[f].job)
  BY <1>1, PlatformStays DEF Changes
<1>3. run[f].job \in Job
  BY <1>1 DEF Order, RunRight
<1>4. \A i \in 1 .. Len(Targets(run[f].job)) :
        Targets(run[f].job)[i] \in Dataset /\ JobOf(Targets(run[f].job)[i]) = run[f].job
  BY <1>3, TargetsAre DEF Types
<1>5. /\ \A i \in 1 .. Len(Targets(run[f].job)) :
           i < run[f].next => table[Targets(run[f].job)[i]] = run[f].source
      /\ run[f].emptied => table[Target(f)] \subseteq run[f].source
  BY <1>1 DEF Generation
<1>6. CASE f # e
  <2>1. /\ run'[f].next = run[f].next /\ run'[f].emptied = run[f].emptied
        /\ run[f].job # run[e].job
    BY <1>1, <1>6, ChangesApart DEF Changes, Order, RunsApart
  <2>2. \A i \in 1 .. Len(Targets(run[f].job)) :
          table'[Targets(run[f].job)[i]] = table[Targets(run[f].job)[i]]
    BY <1>4, <2>1, ChangesApart
  <2>3. run[f].emptied =>
          run[f].next \in 1 .. Len(Targets(run[f].job)) /\ Target(f) = Targets(run[f].job)[run[f].next]
    BY <1>1 DEF Order, RunRight, Writing, Target
  <2>4. Target(f)' = Target(f)
    BY <1>1, <1>2, <2>1 DEF Target
  <2>5. run'[f].emptied => table'[Target(f)] \subseteq run[f].source
    BY <1>5, <2>1, <2>2, <2>3
  <2> QED BY <1>1, <1>2, <1>5, <2>1, <2>2, <2>4, <2>5 DEF Generation
<1>7. CASE f = e
  <2>1. run[e].next \in 1 .. Len(Targets(run[e].job)) /\ Target(e) = Targets(run[e].job)[run[e].next]
    BY ChangesApart
  <2>2. ASSUME NEW i \in 1 .. Len(Targets(run[e].job)), i < run[e].next
        PROVE  table'[Targets(run[e].job)[i]] = run[e].source
    <3>1. Targets(run[e].job)[i] # Target(e)
      BY <1>3, <1>7, <2>1, <2>2, TargetsAre DEF Types
    <3> QED BY <1>4, <1>5, <1>7, <2>2, <3>1 DEF Changes
  <2>3. table'[Target(e)] \subseteq table[Target(e)] \cup run[e].source
    BY DEF Changes
  <2>4. CASE run'[e].next = run[e].next
    <3>1. run[e].emptied \/ table'[Target(e)] = {}
      BY <2>1, <2>4 DEF Changes
    <3>2. table'[Target(e)] \subseteq run[e].source
      BY <1>5, <1>7, <2>3, <3>1
    <3>3. Target(e)' = Target(e)
      BY <1>1, <1>2, <1>7, <2>4 DEF Target
    <3> QED BY <1>1, <1>2, <1>7, <2>2, <2>4, <3>2, <3>3 DEF Generation
  <2>5. CASE run'[e].next # run[e].next
    <3>1. /\ run'[e].next = run[e].next + 1 /\ run'[e].emptied = FALSE /\ run[e].emptied
          /\ run[e].source \subseteq table'[Target(e)]
      BY <1>1, <1>7, <2>5 DEF Changes
    <3>2. table'[Target(e)] = run[e].source
      BY <1>5, <1>7, <2>3, <3>1
    <3>3. \A i \in 1 .. Len(Targets(run[e].job)) : i < run[e].next + 1 => i < run[e].next \/ i = run[e].next
      BY <2>1
    <3> QED BY <1>1, <1>2, <1>7, <2>1, <2>2, <3>1, <3>2, <3>3 DEF Generation
  <2> QED BY <2>4, <2>5
<1> QED BY <1>6, <1>7

\* For an execution whose run and stage stay, where the tables do.
LEMMA ContentsStay ==
  ASSUME UNCHANGED <<platform, table>>, bronze \subseteq bronze', NEW f \in Execution,
         run'[f] = run[f], stage'[f] = stage[f], found'[f] = found[f], raced \subseteq raced',
         Generation(f), ChainRight(f), NothingLost(f)
  PROVE  Generation(f)' /\ ChainRight(f)' /\ NothingLost(f)'
<1>1. Targets(run[f].job)' = Targets(run[f].job) /\ (Undisturbed(f)' => Undisturbed(f))
  BY PlatformStays, UndisturbedBefore
<1>2. Generation(f)'
  BY <1>1 DEF Generation, Running, Target
<1>3. ChainRight(f)'
  BY <1>1 DEF ChainRight, Awaited
<1>4. NothingLost(f)'
  BY DEF NothingLost, Running
<1> QED BY <1>2, <1>3, <1>4

\* A write keeps what the data sets hold right.
LEMMA ContentsChanges ==
  ASSUME Types, Order, Contents, NEW e \in Execution, Changes(e)
  PROVE  Contents'
<1> USE DEF Flight!Chain
<1>1. /\ UNCHANGED <<platform, stage, bronze, raced, found>>
      /\ \A f \in Execution :
           /\ Running(f)' <=> Running(f)
           /\ Running(f) => run'[f].job = run[f].job /\ run'[f].source = run[f].source
           /\ Running(f) /\ f # e => run'[f].next = run[f].next
  BY DEF Changes, Running
<1>2. /\ Running(e) /\ run[e].job \in Job /\ run[e].next > 0
      /\ run[e].job # "silver" => table'["silver"] = table["silver"]
      /\ run[e].job # "gold" => table'["gold"] = table["gold"]
  <2>1. run[e].next \in 1 .. Len(Targets(run[e].job))
    BY ChangesApart
  <2> QED BY <2>1, ChangesApart
<1>3. Within'
  <2>1. run[e].source \subseteq bronze /\ Target(e) \in Dataset
    BY <1>2 DEF Contents, Within, Changes
  <2>2. \A d \in Dataset : table'[d] \subseteq bronze
    BY <2>1 DEF Contents, Within, Changes
  <2> QED BY <1>1, <2>2 DEF Contents, Within
<1>4. ASSUME NEW f \in Execution, Undisturbed(f), stage[f] \in {"gold", "projection"}
      PROVE  table'["silver"] = table["silver"]
  BY <1>2, <1>4 DEF Order, SilverIsDone
<1>5. ASSUME NEW f \in Execution, Undisturbed(f), stage[f] = "projection", platform = "local"
      PROVE  table'["gold"] = table["gold"]
  <2>1. e = f
    BY <1>2, <1>5, AloneOnPremises
  <2>2. run[e].job = "projection"
    BY <1>2, <1>5, <2>1 DEF Order, RunRight
  <2> QED BY <1>2, <2>2
<1>6. ASSUME NEW f \in Execution PROVE ChainRight(f)'
  <2> SUFFICES ASSUME Undisturbed(f) PROVE ChainRight(f)'
    BY <1>1 DEF ChainRight, Undisturbed
  <2>1. /\ stage[f] \in {"gold", "projection"} => found[f] \subseteq table["silver"]
        /\ stage[f] = "projection" /\ platform = "local" => table["gold"] = table["silver"]
        /\ Awaited(f) /\ run[f].next > 0 =>
             /\ run[f].job = "silver"     => found[f] \subseteq run[f].source
             /\ run[f].job = "gold"       => run[f].source = table["silver"]
             /\ run[f].job = "projection" => run[f].source = table["gold"]
    BY DEF Contents, ChainRight
  <2>2. Awaited(f)' => Awaited(f) /\ Running(f)
    BY <1>1 DEF Awaited, Running
  <2>3. Running(f) /\ run'[f].next > 0 => run[f].next > 0
    BY <1>1, <1>2
  <2>4. Awaited(f) /\ run[f].job = "projection" => stage[f] = "projection" /\ platform = "local"
    BY DEF Awaited, Running, Order, RunRight, Job, Types
  <2>5. Awaited(f) /\ run[f].job = "gold" => stage[f] = "gold"
    BY DEF Awaited
  <2>6. /\ stage'[f] \in {"gold", "projection"} => found'[f] \subseteq table'["silver"]
        /\ stage'[f] = "projection" /\ platform' = "local" => table'["gold"] = table'["silver"]
    BY <1>1, <1>4, <1>5, <2>1
  <2>7. ASSUME Awaited(f)', run'[f].next > 0
        PROVE  /\ run'[f].job = "silver"     => found'[f] \subseteq run'[f].source
               /\ run'[f].job = "gold"       => run'[f].source = table'["silver"]
               /\ run'[f].job = "projection" => run'[f].source = table'["gold"]
    BY <1>1, <1>4, <1>5, <2>1, <2>2, <2>3, <2>4, <2>5, <2>7
  <2> QED BY <2>6, <2>7 DEF ChainRight
<1>7. ASSUME NEW f \in Execution PROVE NothingLost(f)'
  <2> SUFFICES ASSUME f \notin raced PROVE NothingLost(f)'
    BY <1>1 DEF NothingLost
  <2>1. /\ Running(f) /\ run[f].job = "silver" /\ run[f].next > 0 => table["gold"] \subseteq run[f].source
        /\ stage[f] = "gold" \/ (Running(f) /\ run[f].job = "gold") => table["gold"] \subseteq table["silver"]
        /\ Running(f) /\ run[f].job = "gold" /\ run[f].next > 0 => run[f].source \subseteq table["silver"]
    BY DEF Contents, NothingLost
  <2>2. CASE f # e
    <3>1. ~Running(f) /\ stage[f] # "gold"
      BY <1>2, <2>2 DEF Order, Met
    <3> QED BY <1>1, <3>1 DEF NothingLost
  <2>3. CASE f = e /\ run[e].job = "silver"
    <3>1. stage[f] # "gold" /\ table'["gold"] = table["gold"]
      BY <1>2, <2>3 DEF Order, RunRight
    <3> QED BY <1>1, <1>2, <2>1, <2>3, <3>1 DEF NothingLost
  <2>4. CASE f = e /\ run[e].job = "gold"
    <3>1. table'["silver"] = table["silver"] /\ run[e].source \subseteq table["silver"]
      BY <1>2, <2>1, <2>4
    <3>2. \/ Target(e) = "gold" /\ table'["gold"] \subseteq table["gold"] \cup run[e].source
          \/ table'["gold"] = table["gold"]
      BY SilverAndGold DEF Changes
    <3>3. table'["gold"] \subseteq table'["silver"]
      BY <1>2, <2>1, <2>4, <3>1, <3>2
    <3> QED BY <1>1, <1>2, <2>4, <3>1, <3>3 DEF NothingLost
  <2>5. CASE f = e /\ run[e].job \notin {"silver", "gold"}
    <3>1. stage[f] # "gold"
      BY <1>2, <2>5 DEF Order, RunRight
    <3> QED BY <1>1, <2>5, <3>1 DEF NothingLost
  <2> QED BY <2>2, <2>3, <2>4, <2>5
<1>8. \A f \in Execution : Generation(f)'
  BY GenerationChanges DEF Contents
<1> QED BY <1>3, <1>6, <1>7, <1>8 DEF Contents

\* The end of a run keeps what the data sets hold right.
LEMMA ContentsLeaves ==
  ASSUME Types, Order, Contents, NEW e \in Execution, Leaves(e)
  PROVE  Contents'
<1>1. /\ UNCHANGED <<platform, bronze, table, raced, found>>
      /\ \A f \in Execution \ {e} : stage'[f] = stage[f] /\ run'[f] = run[f]
      /\ Running(e) /\ ~Running(e)'
      /\ \/ stage'[e] = stage[e] /\ stage[e] # run[e].job
         \/ stage'[e] = "over"
         \/ /\ run[e].next > Len(Targets(run[e].job)) /\ stage[e] = run[e].job
            /\ \/ stage[e] = "silver" /\ stage'[e] = "gold"
               \/ stage[e] = "gold" /\ stage'[e] = "projection"
  BY DEF Leaves, Running
<1>2. ASSUME NEW f \in Execution, f # e
      PROVE  Generation(f)' /\ ChainRight(f)' /\ NothingLost(f)'
  BY <1>1, <1>2, ContentsStay DEF Contents
<1>3. Within'
  BY <1>1 DEF Contents, Within, Running
<1>4. Generation(e)' /\ ~Awaited(e)'
  BY <1>1 DEF Generation, Awaited, Running
<1>5. /\ ChainRight(e) /\ NothingLost(e) /\ Generation(e)
      /\ run[e].job = stage[e] \/ stage[e] = "over"
      /\ Undisturbed(e)' <=> Undisturbed(e)
  BY <1>1 DEF Contents, Order, RunRight, Undisturbed
<1>6. CASE (stage'[e] = stage[e] /\ stage[e] # run[e].job) \/ stage'[e] = "over"
  <2>1. stage'[e] = "over"
    BY <1>5, <1>6
  <2>2. ChainRight(e)'
    BY <1>4, <2>1 DEF ChainRight
  <2>3. NothingLost(e)'
    BY <1>1, <2>1 DEF NothingLost
  <2> QED BY <1>2, <1>3, <1>4, <2>2, <2>3 DEF Contents
<1>7. CASE /\ run[e].next > Len(Targets(run[e].job)) /\ stage[e] = run[e].job
           /\ \/ stage[e] = "silver" /\ stage'[e] = "gold"
              \/ stage[e] = "gold" /\ stage'[e] = "projection"
  <2>1. ASSUME Undisturbed(e)
        PROVE  /\ Awaited(e) /\ run[e].next > 0
               /\ run[e].job = "silver" => table["silver"] = run[e].source
               /\ run[e].job = "gold" => table["gold"] = run[e].source
    BY <1>1, <1>5, <1>7, <2>1, AllRewritten, SilverAndGold DEF Awaited, Running
  <2>2. ChainRight(e)'
    BY <1>1, <1>4, <1>5, <1>7, <2>1 DEF ChainRight
  <2>3. NothingLost(e)'
    BY <1>1, <1>5, <1>7, <2>1 DEF NothingLost, Undisturbed
  <2> QED BY <1>2, <1>3, <1>4, <2>2, <2>3 DEF Contents
<1> QED BY <1>1, <1>6, <1>7

\* What the data sets hold stays right over every step.
LEMMA ContentsNext == Types /\ Order /\ Contents /\ [Next]_vars => Contents'
<1> SUFFICES ASSUME Types, Order, Contents, [Next]_vars PROVE Contents'
  OBVIOUS
<1>0. Within /\ \A f \in Execution : Generation(f) /\ ChainRight(f) /\ NothingLost(f)
  BY DEF Contents
<1>1. ASSUME UNCHANGED <<platform, stage, table, run, raced, found>>, bronze \subseteq bronze'
      PROVE  Contents'
  <2>1. Within'
    BY <1>0, <1>1 DEF Within, Running
  <2> QED BY <1>0, <1>1, <2>1, ContentsStay DEF Contents
<1>2. ASSUME NEW e \in Execution, Proceeds(e) PROVE Contents'
  <2>1. /\ UNCHANGED <<platform, bronze, table, run>> /\ raced \subseteq raced'
        /\ \A f \in Execution \ {e} : stage'[f] = stage[f] /\ found'[f] = found[f]
        /\ \/ stage[e] = "idle" /\ stage'[e] = "silver" /\ found'[e] = bronze
           \/ stage'[e] = "over" /\ found'[e] = found[e]
    BY <1>2 DEF Proceeds
  <2>2. ASSUME NEW f \in Execution, f # e
        PROVE  Generation(f)' /\ ChainRight(f)' /\ NothingLost(f)'
    BY <1>0, <2>1, <2>2, ContentsStay
  <2>3. Within'
    BY <1>0, <2>1 DEF Within, Running
  <2>4. /\ stage[e] = "idle" => ~Running(e)
        /\ Running(e) => run[e].job # "over"
    BY DEF Order, RunRight, Job, Flight!Chain
  <2>5. ~Awaited(e)'
    BY <2>1, <2>4 DEF Awaited, Running
  <2>6. Generation(e)'
    <3>1. Targets(run[e].job)' = Targets(run[e].job) /\ (Undisturbed(e)' => Undisturbed(e))
      BY <2>1, PlatformStays, UndisturbedBefore
    <3> QED BY <1>0, <2>1, <3>1 DEF Generation, Running, Target
  <2>7. ChainRight(e)'
    BY <2>1, <2>5 DEF ChainRight
  <2>8. NothingLost(e)'
    BY <1>0, <2>1 DEF NothingLost, Running
  <2> QED BY <2>2, <2>3, <2>6, <2>7, <2>8 DEF Contents
<1>3. ASSUME NEW e \in Execution, StartRun(e) \/ Restarts(e) PROVE Contents'
  <2>1. /\ UNCHANGED <<platform, stage, bronze, table, raced, found>>
        /\ \A f \in Execution \ {e} : run'[f] = run[f]
        /\ run'[e].next = 0 /\ run'[e].source = {} /\ run'[e].emptied = FALSE
        /\ \/ run'[e].job = stage[e] /\ stage[e] \in Job
           \/ Running(e) /\ run'[e].job = run[e].job
    BY <1>3, StartStep DEF Restarts, Running
  <2>2. ASSUME NEW f \in Execution, f # e
        PROVE  Generation(f)' /\ ChainRight(f)' /\ NothingLost(f)'
    BY <1>0, <2>1, <2>2, ContentsStay
  <2>3. Within'
    BY <1>0, <2>1 DEF Within, Running
  <2>4. run'[e].job \in Job
    BY <2>1 DEF Order, RunRight
  <2>5. Generation(e)'
    <3>1. Targets(run[e].job)' = Targets(run'[e].job)
      BY <2>1, PlatformStays
    <3>2. \A i \in 1 .. Len(Targets(run'[e].job)) : ~(i < 0)
      BY <2>1, <2>4, TargetsAre DEF Types
    <3> QED BY <2>1, <3>1, <3>2 DEF Generation
  <2>6. ChainRight(e)'
    BY <1>0, <2>1 DEF ChainRight, Undisturbed
  <2>7. NothingLost(e)'
    BY <1>0, <2>1 DEF NothingLost, Running
  <2> QED BY <2>2, <2>3, <2>5, <2>6, <2>7 DEF Contents
<1>4. ASSUME NEW e \in Execution, Load(e) PROVE Contents'
  <2>1. /\ UNCHANGED <<platform, stage, bronze, table, raced, found>>
        /\ \A f \in Execution \ {e} : run'[f] = run[f]
        /\ Running(e) /\ Running(e)' /\ run'[e].job = run[e].job /\ run'[e].next = 1
        /\ run'[e].source = Input(run[e].job)
        /\ run[e].next = 0 /\ run'[e].emptied = run[e].emptied
    BY <1>4, LoadStep DEF Running
  <2>2. ASSUME NEW f \in Execution, f # e
        PROVE  Generation(f)' /\ ChainRight(f)' /\ NothingLost(f)'
    BY <1>0, <2>1, <2>2, ContentsStay
  <2>3. Input(run[e].job) \subseteq bronze
    BY <1>0, SilverAndGold DEF Within, Input
  <2>4. Within'
    BY <1>0, <2>1, <2>3 DEF Within, Running
  <2>5. Generation(e)'
    <3>1. Targets(run[e].job)' = Targets(run[e].job) /\ run[e].job \in Job
      BY <2>1, PlatformStays DEF Order, RunRight
    <3>2. \A i \in 1 .. Len(Targets(run[e].job)) : ~(i < 1)
      BY <3>1, TargetsAre DEF Types
    <3>3. ~run[e].emptied
      BY <2>1 DEF Order, RunRight, Writing
    <3> QED BY <2>1, <3>1, <3>2, <3>3 DEF Generation
  <2>6. found[e] \subseteq bronze /\ table["gold"] \subseteq bronze
    BY <1>0, SilverAndGold DEF Within
  <2>7. ChainRight(e)'
    BY <1>0, <2>1, <2>6 DEF ChainRight, Awaited, Input, Undisturbed
  <2>8. NothingLost(e)'
    BY <1>0, <2>1, <2>6 DEF NothingLost, Running, Input
  <2> QED BY <2>2, <2>4, <2>5, <2>7, <2>8 DEF Contents
<1>5. \/ UNCHANGED <<platform, stage, table, run, raced, found>> /\ bronze \subseteq bronze'
      \/ \E e \in Execution :
           Proceeds(e) \/ StartRun(e) \/ Restarts(e) \/ Load(e) \/ Changes(e) \/ Leaves(e)
  BY StepsOfNext DEF Arrive, vars
<1> QED BY <1>1, <1>2, <1>3, <1>4, <1>5, ContentsChanges, ContentsLeaves

\* Nothing has been written at the start.
LEMMA ContentsInit == Init => Contents
<1> SUFFICES ASSUME Init PROVE Contents
  OBVIOUS
<1>1. /\ bronze = {} /\ \A d \in Dataset : table[d] = {}
      /\ \A e \in Execution : stage[e] = "idle" /\ ~Running(e) /\ found[e] = {}
  BY DEF Init, Flight!Init, Running
<1> QED BY <1>1 DEF Contents, Within, Generation, ChainRight, NothingLost, Awaited, Running

\* The inductive invariant always holds.
LEMMA TablesAlways == Spec => [](Types /\ Order /\ Contents)
BY OrderInit, ContentsInit, TypesNext, OrderNext, ContentsNext, PTL DEF Spec

\* The data sets a job has rewritten up to now all hold what it read when it
\* started, whatever happens to its input, wherever its tasks, its attempts and
\* other runs have been stopped: save_dataframe overwrites one data set after
\* another from one DataFrame.  On AWS this is so beside runs that earlier
\* executions have lost; on premises, where YARN admits any, for a run whose
\* execution has not met such a one.
THEOREM RunsWriteOneGeneration == Spec => []WrittenSoFarIsOneGeneration
<1>1. Types /\ Order /\ Contents => WrittenSoFarIsOneGeneration
  BY TargetsAre DEF Order, RunRight, Running, Types, Contents, Generation,
                    WrittenSoFarIsOneGeneration
<1> QED BY <1>1, TablesAlways, PTL

\* When the chain comes to its end, every data set holds the same candles, none
\* missing that Bronze held when the chain began, whatever earlier runs have left
\* half written: on AWS also while lost runs go on, on premises if none was still
\* about when the chain began.
THEOREM ChainPublishes == Spec => ChainPublishesWhatItFound
<1> DEFINE Publishes(e) ==
             /\ Awaited(e) /\ Finish(e) /\ Undisturbed(e)
             /\ run[e].job = IF platform = "aws" THEN "gold" ELSE "projection"
             =>
               \A d \in Dataset : found[e] \subseteq table[d] /\ table[d] = table["silver"]
<1>1. ASSUME Types, Order, Contents, NEW e \in Execution PROVE Publishes(e)
  <2> SUFFICES ASSUME Awaited(e), Finish(e), Undisturbed(e),
                      run[e].job = IF platform = "aws" THEN "gold" ELSE "projection",
                      NEW d \in Dataset
               PROVE  found[e] \subseteq table[d] /\ table[d] = table["silver"]
    OBVIOUS
  <2>1. /\ run[e].next > 0
        /\ \A c \in Dataset : JobOf(c) = run[e].job => table[c] = run[e].source
    BY <1>1, AllRewritten DEF Finish, Contents, Running
  <2>2. stage[e] = run[e].job /\ ChainRight(e)
    BY <1>1 DEF Awaited, Contents
  <2>3. d = "silver" \/ d = "gold" \/ JobOf(d) = run[e].job
    BY DEF JobOf
  <2>4. CASE platform = "aws"
    <3>1. d = "silver" \/ JobOf(d) = "gold"
      BY <2>3, <2>4, SilverAndGold
    <3> QED BY <2>1, <2>2, <2>4, <3>1 DEF ChainRight
  <2>5. CASE platform = "local"
    BY <2>1, <2>2, <2>3, <2>5 DEF ChainRight
  <2> QED BY <1>1, <2>4, <2>5 DEF Types
<1>2. Types /\ Order /\ Contents => [\A e \in Execution : Publishes(e)]_vars
  BY <1>1
<1> HIDE DEF Publishes
<1>3. Spec => [][\A e \in Execution : Publishes(e)]_vars
  BY <1>2, TablesAlways, PTL DEF Spec
<1> QED BY <1>3 DEF ChainPublishesWhatItFound, Publishes

\* Gold is rebuilt from a Silver that has every candle Gold has, also by a second
\* attempt and by a run its execution has lost, unless its execution and another
\* one have raced.
THEOREM RebuildKeepsCandles == Spec => RebuildLosesNothing
<1> DEFINE Keeps(e) ==
             e \notin raced /\ Loading(e) /\ run[e].job = "gold" /\ Load(e) =>
               table["gold"] \subseteq run'[e].source
<1>1. ASSUME Types, Order, Contents, NEW e \in Execution PROVE Keeps(e)
  <2> SUFFICES ASSUME e \notin raced, run[e].job = "gold", Load(e)
               PROVE  table["gold"] \subseteq run'[e].source
    OBVIOUS
  <2>1. run'[e].source = table["silver"] /\ Running(e) /\ run[e].next = 0
    BY <1>1, LoadStep DEF Input, Running
  <2> QED BY <1>1, <2>1 DEF Contents, NothingLost
<1>2. Types /\ Order /\ Contents => [\A e \in Execution : Keeps(e)]_vars
  BY <1>1
<1> HIDE DEF Keeps
<1>3. Spec => [][\A e \in Execution : Keeps(e)]_vars
  BY <1>2, TablesAlways, PTL DEF Spec
<1> QED BY <1>3 DEF RebuildLosesNothing, Keeps

-----------------------------------------------------------------------------
(* The chain *)

\* Whatever the runs do, the executions go through the chain as SingleFlight has it:
\* a run that ends moves the execution that awaits it, and no other.
THEOREM TablesFollowTheChain == Spec => Flight!Spec
<1>1. Init => Flight!Init
  BY DEF Init
<1>2. Types /\ [Next]_vars => [Flight!Next]_stage
  <2> SUFFICES ASSUME Types, [Next]_vars PROVE Flight!Next \/ UNCHANGED stage
    OBVIOUS
  <2>1. ASSUME NEW e \in Execution, Flight!Begin(e) \/ Flight!Advance(e) \/ Flight!Abandon(e)
        PROVE  Flight!Next
    BY <2>1 DEF Flight!Next
  <2>2. CASE (\E c \in Candle : Arrive(c)) \/ UNCHANGED vars
    BY <2>2 DEF Arrive, vars
  <2>3. ASSUME NEW e \in Execution, Step(e)
        PROVE  Flight!Begin(e) \/ Flight!Advance(e) \/ Flight!Abandon(e) \/ UNCHANGED stage
    BY <2>3 DEF Step, Begin, StartRun, StartFails, LoseTrack, ProjectionReturns, Load,
                Overwrite, WriteSome, CommitWrite, Finish, Fail, Reattempt
  <2> QED BY <2>1, <2>2, <2>3 DEF Next
<1> QED BY <1>1, <1>2, OrderAlways, PTL DEF Spec, Flight!Spec

-----------------------------------------------------------------------------
(* Induction and recursion over row indexes *)

\* A set of naturals that is not empty has a least element.
LEMMA HasLeast ==
  ASSUME NEW S \in SUBSET Nat, S # {}
  PROVE  \E n \in S : \A m \in S : n <= m
<1> DEFINE R == OpToRel(<, Nat)
<1>1. PICK n \in S : \A m \in S : <<m, n>> \notin R
  <2> HIDE DEF R
  <2>1. IsWellFoundedOn(R, Nat)
    BY NatLessThanWellFounded DEF R
  <2> QED BY <2>1, WFMin
<1>2. \A m \in S : ~(m < n)
  BY <1>1 DEF OpToRel
<1> QED BY <1>2

\* A set of naturals that holds 0, and with each number the next one, holds all:
\* of those it does not hold there would be a least one.
LEMMA SetInduction ==
  ASSUME NEW T, 0 \in T, \A n \in Nat : n \in T => n + 1 \in T
  PROVE  Nat \subseteq T
<1> DEFINE U == {n \in Nat : n \notin T}
<1> SUFFICES ASSUME U # {} PROVE FALSE
  OBVIOUS
<1>1. PICK n \in U : \A m \in U : n <= m
  <2>1. U \in SUBSET Nat
    OBVIOUS
  <2> HIDE DEF U
  <2> QED BY <2>1, HasLeast
<1>2. n # 0 /\ n - 1 \in Nat /\ (n - 1) + 1 = n /\ ~(n <= n - 1)
  OBVIOUS
<1>3. n - 1 \in U
  BY <1>2
<1> QED BY <1>1, <1>2, <1>3

\* The same for an interval of rows.
LEMMA RowInduction ==
  ASSUME NEW lo \in Nat, NEW hi \in Nat, NEW T, lo \in T,
         \A n \in lo + 1 .. hi : n - 1 \in T => n \in T
  PROVE  lo .. hi \subseteq T
<1> DEFINE U == {k \in Nat : lo + k <= hi => lo + k \in T}
<1>1. 0 \in U
  OBVIOUS
<1>2. ASSUME NEW k \in Nat, k \in U PROVE k + 1 \in U
  <2>1. lo + (k + 1) <= hi => lo + (k + 1) \in lo + 1 .. hi /\ (lo + (k + 1)) - 1 = lo + k
    OBVIOUS
  <2>2. lo + (k + 1) <= hi => lo + k \in T
    BY <1>2
  <2> QED BY <2>1, <2>2
<1>3. Nat \subseteq U
  <2> HIDE DEF U
  <2> QED BY <1>1, <1>2, SetInduction
<1>4. ASSUME NEW n \in lo .. hi PROVE n \in T
  <2>1. n - lo \in Nat /\ lo + (n - lo) = n
    OBVIOUS
  <2>2. n - lo \in U
    BY <1>3, <2>1
  <2> QED BY <2>1, <2>2
<1> QED BY <1>4

\* F[n] takes a value in V to a value in V, for every n in S.
StepsIn(F, S, V) == \A n \in S, v \in V : F[n][v] \in V

\* g starts with v0 and goes from each number to the next one by F.
FollowsFromZero(g, V, v0, F) ==
  g \in [Nat -> V] /\ g[0] = v0 /\ \A n \in Nat : g[n + 1] = F[n][g[n]]

\* The same on an interval of rows, in the form of a recursive function of TLA+.
Follows(g, lo, hi, V, v0, F) ==
  /\ g \in [lo .. hi -> V]
  /\ \A n \in lo .. hi : g[n] = IF n = lo THEN v0 ELSE F[n][g[n - 1]]

\* A value for 0 and a step from each value to the next one make a function: those
\* on 0 .. n exist by induction, and agree with each other.
LEMMA Recursion ==
  ASSUME NEW V, NEW v0 \in V, NEW F, StepsIn(F, Nat, V)
  PROVE  \E g : FollowsFromZero(g, V, v0, F)
<1> DEFINE Begins(h, n) == /\ h \in [0 .. n -> V] /\ h[0] = v0
                           /\ \A k \in Nat : k + 1 <= n => h[k + 1] = F[k][h[k]]
           T == {n \in Nat : \E h : Begins(h, n)}
           Upto(n) == CHOOSE h : Begins(h, n)
           g == [n \in Nat |-> Upto(n)[n]]
<1>1. 0 \in T
  <2>1. Begins([k \in 0 .. 0 |-> v0], 0)
    OBVIOUS
  <2> QED BY <2>1
<1>2. ASSUME NEW n \in Nat, n \in T PROVE n + 1 \in T
  <2>1. PICK h : Begins(h, n)
    BY <1>2
  <2> DEFINE j == [k \in 0 .. n + 1 |-> IF k <= n THEN h[k] ELSE F[n][h[n]]]
  <2>2. h[n] \in V /\ F[n][h[n]] \in V
    BY <2>1 DEF StepsIn
  <2>3. j \in [0 .. n + 1 -> V] /\ j[0] = v0
    BY <2>1, <2>2
  <2>4. ASSUME NEW k \in Nat, k + 1 <= n + 1 PROVE j[k + 1] = F[k][j[k]]
    <3>1. k \in 0 .. n /\ k + 1 \in 0 .. n + 1 /\ j[k] = h[k]
      BY <2>4
    <3>2. CASE k + 1 <= n
      BY <2>1, <3>1, <3>2
    <3>3. CASE k = n
      BY <3>1, <3>3
    <3> QED BY <2>4, <3>2, <3>3
  <2> HIDE DEF j
  <2>5. Begins(j, n + 1)
    BY <2>3, <2>4
  <2> QED BY <2>5
<1>3. \A n \in Nat : Begins(Upto(n), n)
  <2>1. Nat \subseteq T
    <3> HIDE DEF T
    <3> QED BY <1>1, <1>2, SetInduction
  <2> QED BY <2>1
<1> HIDE DEF Upto
<1>4. ASSUME NEW n \in Nat PROVE Upto(n + 1)[n] = Upto(n)[n]
  <2> DEFINE S == {k \in Nat : k <= n => Upto(n + 1)[k] = Upto(n)[k]}
  <2>1. 0 \in S
    BY <1>3
  <2>2. ASSUME NEW k \in Nat, k \in S PROVE k + 1 \in S
    <3>1. k + 1 <= n => /\ Upto(n)[k + 1] = F[k][Upto(n)[k]]
                        /\ Upto(n + 1)[k + 1] = F[k][Upto(n + 1)[k]]
      BY <1>3
    <3> QED BY <2>2, <3>1
  <2>3. Nat \subseteq S
    <3> HIDE DEF S
    <3> QED BY <2>1, <2>2, SetInduction
  <2> QED BY <2>3
<1>5. g \in [Nat -> V] /\ g[0] = v0
  BY <1>3
<1>6. ASSUME NEW n \in Nat PROVE g[n + 1] = F[n][g[n]]
  <2>1. Upto(n + 1)[n + 1] = F[n][Upto(n + 1)[n]]
    BY <1>3
  <2>2. g[n + 1] = Upto(n + 1)[n + 1] /\ g[n] = Upto(n)[n]
    OBVIOUS
  <2> QED BY <1>4, <2>1, <2>2
<1> HIDE DEF g
<1> QED BY <1>5, <1>6 DEF FollowsFromZero

\* A function on an interval of rows is the one on the naturals, moved.
LEMMA RowRecursion ==
  ASSUME NEW lo \in Nat, NEW hi \in Nat, NEW V, NEW v0 \in V, NEW F,
         StepsIn(F, lo + 1 .. hi, V)
  PROVE  \E g : Follows(g, lo, hi, V, v0, F)
<1> DEFINE G == [k \in Nat |-> [v \in V |-> IF lo + k < hi THEN F[lo + k + 1][v] ELSE v]]
<1>1. StepsIn(G, Nat, V)
  <2>1. \A k \in Nat : lo + k < hi => lo + k + 1 \in lo + 1 .. hi
    OBVIOUS
  <2> QED BY <2>1 DEF StepsIn
<1>0. PICK h : FollowsFromZero(h, V, v0, G)
  <2> HIDE DEF G
  <2> QED BY <1>1, Recursion
<1>2. h \in [Nat -> V] /\ h[0] = v0 /\ \A k \in Nat : h[k + 1] = G[k][h[k]]
  BY <1>0 DEF FollowsFromZero
<1> DEFINE g == [n \in lo .. hi |-> h[n - lo]]
<1>3. g \in [lo .. hi -> V]
  BY <1>2
<1>4. ASSUME NEW n \in lo .. hi PROVE g[n] = IF n = lo THEN v0 ELSE F[n][g[n - 1]]
  <2>1. CASE n = lo
    BY <1>2, <2>1
  <2>2. CASE n # lo
    <3>1. n - lo - 1 \in Nat /\ (n - lo - 1) + 1 = n - lo /\ lo + (n - lo - 1) < hi
          /\ lo + (n - lo - 1) + 1 = n /\ n - 1 \in lo .. hi /\ (n - 1) - lo = n - lo - 1
      BY <2>2
    <3>2. h[n - lo] = G[n - lo - 1][h[n - lo - 1]] /\ h[n - lo - 1] \in V
      BY <1>2, <3>1
    <3>3. G[n - lo - 1][h[n - lo - 1]] = F[n][h[n - lo - 1]]
      BY <3>1, <3>2
    <3> QED BY <2>2, <3>1, <3>2, <3>3
  <2> QED BY <2>1, <2>2
<1> HIDE DEF g
<1> QED BY <1>3, <1>4 DEF Follows

-----------------------------------------------------------------------------
(* Powers *)

\* The recursion by which Power is defined has a solution.
LEMMA PowerIs ==
  ASSUME NEW b \in Nat
  PROVE  /\ Power(b, 0) = 1
         /\ \A n \in Nat : Power(b, n) \in Nat /\ Power(b, n + 1) = b * Power(b, n)
<1> DEFINE F == [n \in Nat |-> [v \in Nat |-> b * v]]
           p == CHOOSE g : g = [k \in Nat |-> IF k = 0 THEN 1 ELSE b * g[k - 1]]
<1>1. StepsIn(F, Nat, Nat)
  BY DEF StepsIn
<1>2. PICK h : FollowsFromZero(h, Nat, 1, F)
  <2> HIDE DEF F
  <2> QED BY <1>1, Recursion
<1>3. /\ h \in [Nat -> Nat] /\ h[0] = 1
      /\ \A n \in Nat : h[n + 1] = b * h[n]
  BY <1>2 DEF FollowsFromZero
<1>4. h = [k \in Nat |-> IF k = 0 THEN 1 ELSE b * h[k - 1]]
  <2>1. ASSUME NEW k \in Nat PROVE h[k] = IF k = 0 THEN 1 ELSE b * h[k - 1]
    <3>1. k # 0 => k - 1 \in Nat /\ (k - 1) + 1 = k
      OBVIOUS
    <3> QED BY <1>3, <3>1
  <2> QED BY <1>3, <2>1
<1>5. p = [k \in Nat |-> IF k = 0 THEN 1 ELSE b * p[k - 1]]
  BY <1>4
<1>6. \A k \in Nat : Power(b, k) = p[k]
  BY DEF Power
<1> HIDE DEF p
<1>7. p[0] = 1 /\ \A n \in Nat : p[n + 1] = b * p[n]
  BY <1>5
<1> DEFINE T == {n \in Nat : p[n] \in Nat}
<1>8. 0 \in T /\ \A n \in Nat : n \in T => n + 1 \in T
  BY <1>7
<1>9. Nat \subseteq T
  <2> HIDE DEF T
  <2> QED BY <1>8, SetInduction
<1> QED BY <1>6, <1>7, <1>9

\* A power of a positive number is positive.
LEMMA PowerPositive ==
  ASSUME NEW b \in Nat, b > 0
  PROVE  \A n \in Nat : Power(b, n) \in Nat /\ Power(b, n) > 0
<1> DEFINE T == {n \in Nat : Power(b, n) > 0}
<1>0. \A v \in Nat : v > 0 => b * v > 0
  OBVIOUS
<1>1. 0 \in T /\ \A n \in Nat : n \in T => n + 1 \in T
  BY <1>0, PowerIs
<1>2. Nat \subseteq T
  <2> HIDE DEF T
  <2> QED BY <1>1, SetInduction
<1> QED BY <1>2, PowerIs

\* Exponents add up.
LEMMA PowerSum ==
  ASSUME NEW b \in Nat, NEW m \in Nat
  PROVE  \A n \in Nat : Power(b, m + n) = Power(b, m) * Power(b, n)
<1> DEFINE T == {n \in Nat : Power(b, m + n) = Power(b, m) * Power(b, n)}
<1>1. 0 \in T
  BY PowerIs
<1>2. ASSUME NEW n \in Nat, n \in T PROVE n + 1 \in T
  <2>1. m + n \in Nat /\ m + (n + 1) = (m + n) + 1
    OBVIOUS
  <2>2. /\ Power(b, m + (n + 1)) = b * Power(b, m + n)
        /\ Power(b, n + 1) = b * Power(b, n)
        /\ Power(b, m) \in Nat /\ Power(b, n) \in Nat
    BY <2>1, PowerIs
  <2>3. \A u, v \in Nat : b * (u * v) = u * (b * v)
    OBVIOUS
  <2> QED BY <1>2, <2>2, <2>3
<1>3. Nat \subseteq T
  <2> HIDE DEF T
  <2> QED BY <1>1, <1>2, SetInduction
<1> QED BY <1>3

\* Once beta^n is 0 it stays 0.
LEMMA VanishesForGood ==
  ASSUME NEW q \in Nat, NEW b \in Nat, b <= q, 0 < q, NEW n \in Nat, Vanishes(n, q, b)
  PROVE  Vanishes(n + 1, q, b)
<1> DEFINE u == Power(q, n)
           v == Power(b, n)
<1>1. u \in Nat /\ v \in Nat /\ MaxPower \in Nat /\ u > MaxPower * v
  BY PowerIs, MaxDoubleAssumption DEF Vanishes
<1>2. Power(q, n + 1) = q * u /\ Power(b, n + 1) = b * v
  BY PowerIs
<1> HIDE DEF u, v
<1>3. MaxPower * v \in Nat /\ MaxPower * (b * v) = b * (MaxPower * v)
  BY <1>1
<1>4. \A w \in Nat : u > w => q * u > q * w /\ q * w >= b * w
  BY <1>1
<1>5. q * u > b * (MaxPower * v)
  <2>1. q * u > q * (MaxPower * v) /\ q * (MaxPower * v) >= b * (MaxPower * v)
    BY <1>1, <1>3, <1>4
  <2>2. q * u \in Nat /\ q * (MaxPower * v) \in Nat /\ b * (MaxPower * v) \in Nat
    BY <1>1, <1>3
  <2> QED BY <2>1, <2>2
<1> QED BY <1>2, <1>3, <1>5 DEF Vanishes

-----------------------------------------------------------------------------
(* The running sum and the average of a series of naturals on start .. N *)

Double == {<<>>} \cup {<<v>> : v \in Nat}

Series(x, start, N) ==
  /\ start \in Nat /\ N \in start .. N /\ DOMAIN x = start .. N
  /\ \A n \in start .. N : x[n] \in Nat

\* The last row is well defined.
LEMMA LastRowIs ==
  ASSUME NEW x, NEW start, NEW N \in Nat, Series(x, start, N)
  PROVE  LastRow(x) = N
<1>1. start \in Nat /\ N \in start .. N
  BY DEF Series
<1>2. N \in Rows(x) /\ \A m \in Rows(x) : m <= N
  BY <1>1 DEF Series, Rows
<1>3. ASSUME NEW n \in Rows(x), \A m \in Rows(x) : m <= n PROVE n = N
  <2>1. N <= n /\ n <= N /\ n \in Int
    BY <1>1, <1>2, <1>3 DEF Series, Rows
  <2> QED BY <2>1
<1> QED BY <1>2, <1>3 DEF LastRow

\* The sum through row n, from the one through the row before.
Total(x, q, b, N, n, before) ==
  LET v == before[1] + x[n] * Power(q, n) * Power(b, N - n)
  IN  IF Vanishes(n, q, b) THEN before
      ELSE IF IsFinite(before) /\ v <= MaxDouble * Power(b, N) THEN <<v>> ELSE <<>>

\* A value of Double is infinite or a natural.
LEMMA DoubleIs ==
  /\ <<>> \in Double /\ ~IsFinite(<<>>)
  /\ \A v \in Nat : <<v>> \in Double /\ IsFinite(<<v>>) /\ <<v>>[1] = v
  /\ \A d \in Double : IsFinite(d) => d[1] \in Nat /\ d = <<d[1]>>
BY DEF Double, IsFinite

\* The recursion by which WeightedSum is defined has a solution.
LEMMA WeightedSumIs ==
  ASSUME NEW x, NEW start, NEW N \in Nat, Series(x, start, N), NEW q \in Nat, NEW b \in Nat
  PROVE  /\ WeightedSum(x, start, q, b)[start] = <<0>>
         /\ \A n \in start .. N : WeightedSum(x, start, q, b)[n] \in Double
         /\ \A n \in start + 1 .. N :
              WeightedSum(x, start, q, b)[n]
                = Total(x, q, b, N, n, WeightedSum(x, start, q, b)[n - 1])
<1> DEFINE F == [n \in Nat |-> [d \in Double |-> Total(x, q, b, N, n, d)]]
           M == LastRow(x)
           Solves(g) == g = [n \in start .. M |->
                               IF n = start THEN <<0>> ELSE Total(x, q, b, M, n, g[n - 1])]
           sum == CHOOSE g : Solves(g)
<1>0. start \in Nat /\ N \in start .. N /\ M = N
  BY LastRowIs DEF Series
<1>1. \A n \in start + 1 .. N, d \in Double : Total(x, q, b, N, n, d) \in Double
  <2> SUFFICES ASSUME NEW n \in start + 1 .. N, NEW d \in Double
               PROVE  Total(x, q, b, N, n, d) \in Double
    OBVIOUS
  <2>1. n \in Nat /\ N - n \in Nat /\ x[n] \in Nat
    BY <1>0 DEF Series
  <2>2. Power(q, n) \in Nat /\ Power(b, N - n) \in Nat
    BY <2>1, PowerIs
  <2>3. \A u, v, w, z \in Nat : z + u * v * w \in Nat
    OBVIOUS
  <2> QED BY <2>1, <2>2, <2>3, DoubleIs DEF Total
<1>2. PICK h : Follows(h, start, N, Double, <<0>>, F)
  <2>1. StepsIn(F, start + 1 .. N, Double)
    BY <1>0, <1>1 DEF StepsIn
  <2> HIDE DEF F
  <2> QED BY <1>0, <2>1, RowRecursion, DoubleIs
<1>3. Solves(h)
  <2>1. /\ h = [n \in start .. N |-> h[n]]
        /\ \A n \in start .. N : h[n] \in Double
        /\ \A n \in start .. N : h[n] = IF n = start THEN <<0>> ELSE F[n][h[n - 1]]
    BY <1>2 DEF Follows
  <2>2. ASSUME NEW n \in start .. N
        PROVE  h[n] = IF n = start THEN <<0>> ELSE Total(x, q, b, N, n, h[n - 1])
    <3>1. n # start => n - 1 \in start .. N /\ n \in Nat
      BY <1>0
    <3> QED BY <2>1, <3>1
  <2> HIDE DEF F
  <2> QED BY <1>0, <2>1, <2>2
<1>4. Solves(sum)
  BY <1>3
<1>5. WeightedSum(x, start, q, b) = sum
  BY DEF WeightedSum, Total
<1> HIDE DEF sum, M
<1>6. /\ sum[start] = <<0>>
      /\ \A n \in start + 1 .. N : sum[n] = Total(x, q, b, N, n, sum[n - 1])
  BY <1>0, <1>4
<1> DEFINE T == {n \in start .. N : sum[n] \in Double}
<1>7. start .. N \subseteq T
  <2>1. start \in T
    <3>1. <<0>> \in Double /\ start \in start .. N
      BY <1>0, DoubleIs
    <3> QED BY <1>6, <3>1
  <2>2. \A n \in start + 1 .. N : n - 1 \in T => n \in T
    BY <1>0, <1>1, <1>6
  <2> HIDE DEF T
  <2> QED BY <1>0, <2>1, <2>2, RowInduction
<1> QED BY <1>5, <1>6, <1>7

\* An infinite sum stays infinite.
LEMMA SumStaysInfinite ==
  ASSUME NEW x, NEW start, NEW N \in Nat, Series(x, start, N), NEW q \in Nat, NEW b \in Nat,
         NEW n \in start .. N, IsFinite(WeightedSum(x, start, q, b)[n])
  PROVE  \A m \in start .. n : IsFinite(WeightedSum(x, start, q, b)[m])
<1> DEFINE sum == WeightedSum(x, start, q, b)
<1>0. start \in Nat /\ n \in Nat /\ n <= N
  BY DEF Series
<1>1. \A k \in start + 1 .. N : sum[k] = Total(x, q, b, N, k, sum[k - 1])
  BY WeightedSumIs
<1>2. ASSUME NEW k \in start + 1 .. N, ~IsFinite(sum[k - 1]) PROVE ~IsFinite(sum[k])
  <2> HIDE DEF sum
  <2> QED BY <1>1, <1>2, DoubleIs DEF Total
<1> HIDE DEF sum
<1>3. ASSUME NEW m \in start .. n, ~IsFinite(sum[m]) PROVE FALSE
  <2> DEFINE U == {k \in m .. n : ~IsFinite(sum[k])}
  <2>1. m \in Nat /\ m \in U /\ n \in m .. n
    BY <1>0, <1>3
  <2>2. \A k \in m + 1 .. n : k - 1 \in U => k \in U
    BY <1>0, <1>2
  <2>3. m .. n \subseteq U
    <3> HIDE DEF U
    <3> QED BY <1>0, <2>1, <2>2, RowInduction
  <2> QED BY <2>1, <2>3 DEF sum
<1> QED BY <1>3 DEF sum

-----------------------------------------------------------------------------
(* The average is the one of the recurrence *)

\* The recursion by which Recurrence is defined has a solution.
LEMMA RecurrenceIs ==
  ASSUME NEW x, NEW start, NEW N \in Nat, Series(x, start, N),
         NEW q \in Nat, NEW a \in Nat, a < q
  PROVE  LET e == Recurrence(x, start, a, q) IN
         /\ e[start] = x[start]
         /\ \A n \in start .. N : e[n] \in Nat
         /\ \A n \in start + 1 .. N :
              e[n] = a * x[n] * Power(q, n - start - 1) + (q - a) * e[n - 1]
<1> DEFINE After(n, v) == a * x[n] * Power(q, n - start - 1) + (q - a) * v
           F == [n \in Nat |-> [v \in Nat |-> After(n, v)]]
           M == LastRow(x)
           Solves(g) == g = [n \in start .. M |-> IF n = start THEN x[n] ELSE After(n, g[n - 1])]
           e == CHOOSE g : Solves(g)
<1>0. start \in Nat /\ N \in start .. N /\ start \in start .. N /\ M = N /\ x[start] \in Nat
  BY LastRowIs DEF Series
<1>1. \A n \in start + 1 .. N, v \in Nat : After(n, v) \in Nat
  <2> SUFFICES ASSUME NEW n \in start + 1 .. N, NEW v \in Nat PROVE After(n, v) \in Nat
    OBVIOUS
  <2>1. n - start - 1 \in Nat /\ x[n] \in Nat /\ q - a \in Nat
    BY <1>0 DEF Series
  <2>2. Power(q, n - start - 1) \in Nat
    BY <2>1, PowerIs
  <2>3. \A t, u, w, z \in Nat : a * t * u + w * z \in Nat
    OBVIOUS
  <2> QED BY <2>1, <2>2, <2>3
<1>2. PICK h : Follows(h, start, N, Nat, x[start], F)
  <2>1. StepsIn(F, start + 1 .. N, Nat)
    <3>1. \A n \in start + 1 .. N : n \in Nat
      BY <1>0
    <3> HIDE DEF After
    <3> QED BY <1>1, <3>1 DEF StepsIn
  <2> HIDE DEF F
  <2> QED BY <1>0, <2>1, RowRecursion
<1>3. Solves(h)
  <2>1. /\ h = [n \in start .. N |-> h[n]]
        /\ \A n \in start .. N : h[n] \in Nat
        /\ \A n \in start .. N : h[n] = IF n = start THEN x[start] ELSE F[n][h[n - 1]]
    BY <1>2 DEF Follows
  <2>2. ASSUME NEW n \in start .. N
        PROVE  h[n] = IF n = start THEN x[n] ELSE After(n, h[n - 1])
    <3>1. n # start => n - 1 \in start .. N /\ n \in Nat
      BY <1>0
    <3> HIDE DEF After
    <3> QED BY <2>1, <3>1
  <2> HIDE DEF F, After
  <2> QED BY <1>0, <2>1, <2>2
<1>4. Solves(e)
  BY <1>3
<1>5. Recurrence(x, start, a, q) = e
  BY DEF Recurrence
<1> HIDE DEF e, M
<1>6. /\ e[start] = x[start]
      /\ \A n \in start + 1 .. N : e[n] = After(n, e[n - 1])
  BY <1>0, <1>4
<1> DEFINE T == {n \in start .. N : e[n] \in Nat}
<1>7. start .. N \subseteq T
  <2>1. start \in T
    BY <1>0, <1>6
  <2>2. \A n \in start + 1 .. N : n - 1 \in T => n \in T
    <3> HIDE DEF After
    <3> QED BY <1>0, <1>1, <1>6
  <2> HIDE DEF T
  <2> QED BY <1>0, <2>1, <2>2, RowInduction
<1> QED BY <1>5, <1>6, <1>7

\* One step of the closed form is one step of the recurrence: what both add up,
\* in the units of the last row.
LEMMA SameStep ==
  ASSUME NEW A \in Nat, NEW B \in Nat, NEW C \in Nat, NEW G \in Nat, NEW H \in Nat,
         NEW S \in Nat, NEW X \in Nat, NEW X0 \in Nat, NEW E \in Nat,
         NEW a \in Nat, NEW b \in Nat,
         A * B * X0 + a * C * S = E * A * (b * C * H)
  PROVE  A * (b * B) * X0 + a * (b * C) * (S + X * (A * G) * H)
           = (a * X * G + b * E) * A * (b * C * H)
<1> DEFINE Y == X * (A * G) * H
           D == b * C * H
<1>1. Y \in Nat /\ D \in Nat
  OBVIOUS
<1>2. a * (b * C) * Y = (a * X * G) * A * D
  OBVIOUS
<1> HIDE DEF Y, D
<1>3. A * (b * B) * X0 + a * (b * C) * (S + Y) = b * (A * B * X0 + a * C * S) + a * (b * C) * Y
  BY <1>1
<1>4. (a * X * G + b * E) * A * D = (a * X * G) * A * D + b * (E * A * D)
  BY <1>1
<1>5. A * B * X0 + a * C * S = E * A * D
  BY DEF D
<1> QED BY <1>2, <1>3, <1>4, <1>5 DEF Y, D

\* As long as the sum is finite and beta^n positive, first value and sum make up
\* the average of the recurrence.
LEMMA ClosedFormIsExact ==
  ASSUME NEW x, NEW start, NEW N \in Nat, Series(x, start, N),
         NEW q \in Nat, NEW a \in Nat, a < q,
         NEW n \in start .. N, IsFinite(WeightedSum(x, start, q, q - a)[n]),
         ~Vanishes(n, q, q - a)
  PROVE  Power(q, start + 1) * Power(q - a, n - start + N) * x[start]
             + a * Power(q - a, n) * WeightedSum(x, start, q, q - a)[n][1]
           = Recurrence(x, start, a, q)[n] * Power(q, start + 1) * Power(q - a, N)
<1> DEFINE b == q - a
           sum == WeightedSum(x, start, q, b)
           e == Recurrence(x, start, a, q)
           A == Power(q, start + 1)
           Exact(k) == A * Power(b, k - start + N) * x[start] + a * Power(b, k) * sum[k][1]
                         = e[k] * A * Power(b, N)
           T == {k \in start .. n : Exact(k)}
<1>0. /\ start \in Nat /\ n \in Nat /\ start \in start .. n /\ n \in start .. n
      /\ \A k \in start .. n : k \in start .. N /\ x[k] \in Nat /\ k \in Nat
      /\ b \in Nat /\ b <= q /\ 0 < q
  BY DEF Series
<1>1. /\ sum[start] = <<0>>
      /\ \A k \in start .. N : sum[k] \in Double
      /\ \A k \in start + 1 .. N : sum[k] = Total(x, q, b, N, k, sum[k - 1])
  BY <1>0, WeightedSumIs
<1>2. \A k \in start .. n : IsFinite(sum[k])
  BY <1>0, SumStaysInfinite
<1>3. \A k \in start .. n : ~Vanishes(k, q, b)
  <2> SUFFICES ASSUME NEW k \in start .. n, Vanishes(k, q, b) PROVE FALSE
    OBVIOUS
  <2> DEFINE W == {m \in k .. n : Vanishes(m, q, b)}
  <2> HIDE DEF b
  <2>1. k \in Nat /\ k \in W /\ n \in k .. n
    BY <1>0
  <2>2. ASSUME NEW m \in k + 1 .. n, m - 1 \in W PROVE m \in W
    <3>1. m - 1 \in Nat /\ (m - 1) + 1 = m /\ Vanishes(m - 1, q, b) /\ m \in k .. n
      BY <1>0, <2>1, <2>2
    <3>2. Vanishes((m - 1) + 1, q, b)
      BY <1>0, <3>1, VanishesForGood
    <3> QED BY <3>1, <3>2
  <2>3. k .. n \subseteq W
    <3> HIDE DEF W
    <3> QED BY <1>0, <2>1, <2>2, RowInduction
  <2> QED BY <2>1, <2>3 DEF b
<1>4. /\ e[start] = x[start]
      /\ \A k \in start .. N : e[k] \in Nat
      /\ \A k \in start + 1 .. N : e[k] = a * x[k] * Power(q, k - start - 1) + b * e[k - 1]
  BY RecurrenceIs
<1> HIDE DEF b, sum, e
<1>5. start \in T
  <2>1. start - start + N = N /\ a * Power(b, start) * 0 = 0
    BY <1>0, PowerIs
  <2>2. A \in Nat /\ Power(b, N) \in Nat /\ x[start] \in Nat
    <3>1. start + 1 \in Nat
      BY <1>0
    <3> QED BY <1>0, <3>1, PowerIs
  <2>3. A * Power(b, N) * x[start] + 0 = x[start] * A * Power(b, N)
    BY <2>2
  <2>4. sum[start][1] = 0
    BY <1>1, DoubleIs
  <2> QED BY <1>0, <1>4, <2>1, <2>3, <2>4
<1>6. ASSUME NEW k \in start + 1 .. n, k - 1 \in T PROVE k \in T
  <2> DEFINE B == Power(b, k - 1 - start + N)
             C == Power(b, k - 1)
             G == Power(q, k - start - 1)
             H == Power(b, N - k)
             S == sum[k - 1][1]
             X == x[k]
             X0 == x[start]
             E == e[k - 1]
  <2>0. /\ k \in start .. n /\ k - 1 \in start .. n /\ k \in start + 1 .. N
        /\ k - 1 - start + N \in Nat /\ k - 1 \in Nat /\ k - start - 1 \in Nat /\ N - k \in Nat
        /\ k \in Nat /\ (k - 1) + 1 = k /\ start + 1 \in Nat
        /\ (k - 1 - start + N) + 1 = k - start + N
        /\ (start + 1) + (k - start - 1) = k /\ k + (N - k) = N
    BY <1>0
  <2>1. /\ A \in Nat /\ B \in Nat /\ C \in Nat /\ G \in Nat /\ H \in Nat
    BY <1>0, <2>0, PowerIs
  <2>2. S \in Nat /\ X \in Nat /\ X0 \in Nat /\ E \in Nat
    BY <1>0, <1>1, <1>2, <1>4, <2>0, DoubleIs
  <2>3. Power(b, k - start + N) = b * B /\ Power(b, k) = b * C
    BY <1>0, <2>0, PowerIs
  <2>4. Power(q, k) = A * G
    BY <2>0, PowerSum
  <2>5. Power(b, N) = b * C * H
    BY <1>0, <2>0, <2>3, PowerSum
  <2>6. sum[k] = <<S + X * (A * G) * H>>
    <3>1. sum[k] = Total(x, q, b, N, k, sum[k - 1]) /\ IsFinite(sum[k]) /\ ~Vanishes(k, q, b)
      BY <1>1, <1>2, <1>3, <2>0
    <3>2. sum[k] = <<S + X * Power(q, k) * H>>
      BY <3>1, DoubleIs DEF Total
    <3> QED BY <2>4, <3>2
  <2>7. sum[k][1] = S + X * (A * G) * H
    BY <2>6
  <2>8. e[k] = a * X * G + b * E
    BY <1>4, <2>0
  <2>9. A * B * X0 + a * C * S = E * A * (b * C * H)
    BY <1>6, <2>5
  <2> HIDE DEF A, B, C, G, H, S, X, X0, E
  <2>10. A * (b * B) * X0 + a * (b * C) * (S + X * (A * G) * H)
           = (a * X * G + b * E) * A * (b * C * H)
    BY <1>0, <2>1, <2>2, <2>9, SameStep
  <2>11. Exact(k)
    BY <2>3, <2>5, <2>7, <2>8, <2>10 DEF X0
  <2> QED BY <2>0, <2>11
<1>7. start .. n \subseteq T
  <2> HIDE DEF T
  <2> QED BY <1>0, <1>5, <1>6, RowInduction
<1>8. Exact(n)
  BY <1>0, <1>7
<1> QED BY <1>8 DEF b, sum, e

\* What the rows of an EMA are: finite where the sum is, and then the average of
\* the recurrence in the units of the closed form.
LEMMA EmaIs ==
  ASSUME NEW x, NEW start, NEW N \in Nat, Series(x, start, N),
         NEW q \in Nat, NEW a \in Nat, a < q
  PROVE  LET ema == Ema(x, start, a, q)
             e   == Recurrence(x, start, a, q)
         IN  /\ DOMAIN ema = start .. N
             /\ \A n \in start .. N : IsFinite(ema[n]) => \A m \in start .. n : IsFinite(ema[m])
             /\ \A n \in start .. N : IsFinite(ema[n]) /\ ~Vanishes(n, q, q - a) =>
                  ema[n] = <<e[n] * Power(q, start + 1) * Power(q - a, N)>>
<1> DEFINE sum == WeightedSum(x, start, q, q - a)
           ema == Ema(x, start, a, q)
           Value(n) == Power(q, start + 1) * Power(q - a, n - start + N) * x[start]
                         + a * Power(q - a, n) * sum[n][1]
<1>1. /\ DOMAIN ema = start .. N
      /\ \A n \in start .. N :
           ema[n] = CASE ~IsFinite(sum[n]) -> <<>>
                      [] IsFinite(sum[n]) /\ Vanishes(n, q, q - a) -> <<0>>
                      [] OTHER -> <<Value(n)>>
  BY LastRowIs DEF Ema
<1> HIDE DEF ema, Value
<1>2. ~IsFinite(<<>>) /\ IsFinite(<<0>>) /\ \A n : IsFinite(<<Value(n)>>)
  BY DEF IsFinite
<1>3. \A n \in start .. N : IsFinite(ema[n]) <=> IsFinite(sum[n])
  <2> HIDE DEF sum
  <2> QED BY <1>1, <1>2
<1>4. ASSUME NEW n \in start .. N, IsFinite(ema[n]), NEW m \in start .. n
      PROVE  IsFinite(ema[m])
  <2>1. m \in start .. N
    BY DEF Series
  <2>2. q - a \in Nat /\ IsFinite(sum[n])
    BY <1>3, <1>4
  <2>3. IsFinite(sum[m])
    BY <2>2, SumStaysInfinite
  <2> QED BY <1>3, <2>1, <2>3
<1>5. ASSUME NEW n \in start .. N, IsFinite(ema[n]), ~Vanishes(n, q, q - a)
      PROVE  ema[n] = <<Recurrence(x, start, a, q)[n] * Power(q, start + 1) * Power(q - a, N)>>
  <2>1. IsFinite(sum[n])
    BY <1>3, <1>5
  <2>2. ema[n] = <<Value(n)>>
    <3> HIDE DEF sum
    <3> QED BY <1>1, <1>5, <2>1
  <2>3. Value(n) = Recurrence(x, start, a, q)[n] * Power(q, start + 1) * Power(q - a, N)
    BY <1>5, <2>1, ClosedFormIsExact DEF Value
  <2> QED BY <2>2, <2>3
<1> QED BY <1>1, <1>4, <1>5 DEF ema

\* An average is positive as soon as some value has been.
LEMMA AveragePositive ==
  ASSUME NEW x, NEW start, NEW N \in Nat, Series(x, start, N),
         NEW q \in Nat, NEW a \in Nat, 0 < a, a < q
  PROVE  \A n \in start .. N :
           /\ Recurrence(x, start, a, q)[n] \in Nat
           /\ Recurrence(x, start, a, q)[n] > 0 <=> \E m \in start .. n : x[m] > 0
<1> DEFINE e == Recurrence(x, start, a, q)
           T == {n \in start .. N : e[n] > 0 <=> \E m \in start .. n : x[m] > 0}
<1>0. start \in Nat /\ start \in start .. N /\ \A n \in start .. N : x[n] \in Nat
  BY DEF Series
<1>1. /\ e[start] = x[start]
      /\ \A n \in start .. N : e[n] \in Nat
      /\ \A n \in start + 1 .. N :
           e[n] = a * x[n] * Power(q, n - start - 1) + (q - a) * e[n - 1]
  BY RecurrenceIs
<1> HIDE DEF e
<1>2. start \in T
  <2>1. \A m \in start .. start : m = start
    BY <1>0
  <2>2. start \in start .. start
    BY <1>0
  <2> QED BY <1>0, <1>1, <2>1, <2>2
<1>3. ASSUME NEW n \in start + 1 .. N, n - 1 \in T PROVE n \in T
  <2>1. /\ n \in start .. N /\ n - 1 \in start .. N /\ n - start - 1 \in Nat
        /\ \A m : m \in start .. n <=> m \in start .. n - 1 \/ m = n
    BY <1>0
  <2>2. Power(q, n - start - 1) \in Nat /\ Power(q, n - start - 1) > 0
    <3>1. q > 0
      OBVIOUS
    <3> QED BY <2>1, <3>1, PowerPositive
  <2>3. \A u, v, w \in Nat : v > 0 => (a * u * v + (q - a) * w > 0 <=> u > 0 \/ w > 0)
    <3> SUFFICES ASSUME NEW u \in Nat, NEW v \in Nat, NEW w \in Nat, v > 0
                 PROVE  a * u * v + (q - a) * w > 0 <=> u > 0 \/ w > 0
      OBVIOUS
    <3> DEFINE y == a * u * v
               z == (q - a) * w
    <3>1. u = 0 => y = 0
      OBVIOUS
    <3>2. w = 0 => z = 0
      OBVIOUS
    <3>3. u > 0 => y > 0
      <4>1. u > 0 => a * u > 0 /\ a * u \in Nat
        OBVIOUS
      <4> QED BY <4>1
    <3>4. w > 0 => z > 0
      OBVIOUS
    <3>5. y \in Nat /\ z \in Nat
      OBVIOUS
    <3> HIDE DEF y, z
    <3>6. y + z > 0 <=> u > 0 \/ w > 0
      BY <3>1, <3>2, <3>3, <3>4, <3>5
    <3> QED BY <3>6 DEF y, z
  <2>4. e[n] > 0 <=> x[n] > 0 \/ e[n - 1] > 0
    <3> DEFINE v == Power(q, n - start - 1)
    <3>1. x[n] \in Nat /\ v \in Nat /\ v > 0 /\ e[n - 1] \in Nat
      BY <1>0, <1>1, <2>1, <2>2
    <3>2. e[n] = a * x[n] * v + (q - a) * e[n - 1]
      BY <1>1
    <3> HIDE DEF v
    <3> QED BY <2>3, <3>1, <3>2
  <2> QED BY <1>3, <2>1, <2>4
<1>4. start .. N \subseteq T
  <2> HIDE DEF T
  <2> QED BY <1>0, <1>2, <1>3, RowInduction
<1> QED BY <1>1, <1>4 DEF e

\* Gains and losses of a series are series from row 1 on, and positive where the
\* close rises or falls.
LEMMA MovesAre ==
  ASSUME NEW x, NEW N \in Nat, Series(x, 0, N), 1 \in Rows(x)
  PROVE  /\ Series(Gain(x), 1, N) /\ Series(Loss(x), 1, N)
         /\ \A m \in 1 .. N : /\ Gain(x)[m] > 0 <=> x[m] > x[m - 1]
                              /\ Loss(x)[m] > 0 <=> x[m] < x[m - 1]
<1>1. /\ Rows(x) = 0 .. N /\ 1 \in 1 .. N /\ N \in 1 .. N
      /\ \A n \in 0 .. N : x[n] \in Nat
  BY DEF Series, Rows
<1>2. 0 .. N \ {0} = 1 .. N
  OBVIOUS
<1>3. \A m \in 1 .. N : x[m] \in Nat /\ x[m - 1] \in Nat
  BY <1>1
<1>4. /\ DOMAIN Gain(x) = 1 .. N /\ DOMAIN Loss(x) = 1 .. N
      /\ \A m \in 1 .. N : /\ Gain(x)[m] = IF x[m] > x[m - 1] THEN x[m] - x[m - 1] ELSE 0
                           /\ Loss(x)[m] = IF x[m] < x[m - 1] THEN x[m - 1] - x[m] ELSE 0
  BY <1>1, <1>2 DEF Gain, Loss
<1>5. \A m \in 1 .. N : Gain(x)[m] \in Nat /\ Loss(x)[m] \in Nat
  <2> SUFFICES ASSUME NEW m \in 1 .. N PROVE Gain(x)[m] \in Nat /\ Loss(x)[m] \in Nat
    OBVIOUS
  <2>1. x[m] \in Nat /\ x[m - 1] \in Nat
    BY <1>3
  <2>2. Gain(x)[m] = IF x[m] > x[m - 1] THEN x[m] - x[m - 1] ELSE 0
    BY <1>4
  <2>3. Loss(x)[m] = IF x[m] < x[m - 1] THEN x[m - 1] - x[m] ELSE 0
    BY <1>4
  <2> QED BY <2>1, <2>2, <2>3
<1>6. \A m \in 1 .. N : /\ Gain(x)[m] > 0 <=> x[m] > x[m - 1]
                        /\ Loss(x)[m] > 0 <=> x[m] < x[m - 1]
  BY <1>3, <1>4
<1> QED BY <1>1, <1>4, <1>5, <1>6 DEF Series

\* An RSI of finite averages has a denominator, and lies strictly between 0 and 100
\* when there are gains and losses.
LEMMA RsiIs ==
  ASSUME NEW g \in Nat, NEW l \in Nat
  PROVE  LET rsi == Rsi(<<g>>, <<l>>) IN
         /\ rsi.den \in Nat /\ rsi.den > 0 /\ rsi.num \in Nat
         /\ g > 0 /\ l = 0 => rsi.num = 100 * rsi.den
         /\ g = 0 /\ l = 0 => rsi.num = 50 * rsi.den
         /\ g = 0 /\ l > 0 => rsi.num = 0
         /\ g > 0 /\ l > 0 => 0 < rsi.num /\ rsi.num < 100 * rsi.den
<1>1. CASE g > 0 /\ l = 0
  <2>1. Rsi(<<g>>, <<l>>) = [num |-> 100, den |-> 1]
    BY <1>1 DEF Rsi
  <2> QED BY <1>1, <2>1
<1>2. CASE g = 0 /\ l = 0
  <2>1. Rsi(<<g>>, <<l>>) = [num |-> 50, den |-> 1]
    BY <1>2 DEF Rsi
  <2> QED BY <1>2, <2>1
<1>3. CASE l > 0
  <2>1. Rsi(<<g>>, <<l>>) = [num |-> 100 * (g + l) - 100 * l, den |-> g + l]
    BY <1>3 DEF Rsi
  <2> QED BY <1>3, <2>1
<1> QED BY <1>1, <1>2, <1>3

-----------------------------------------------------------------------------
(* The series of a set of candles *)

\* Of the candles of a finite set there is one with n before it, for each n below
\* their number: the first one, and after the one with n before it the next one.
LEMMA RowHasCandle ==
  ASSUME NEW S \in SUBSET Nat, IsFiniteSet(S)
  PROVE  \A n \in Nat : n < Cardinality(S) =>
           \E c \in S : Cardinality({d \in S : d < c}) = n
<1> DEFINE Below(c) == {d \in S : d < c}
           T == {n \in Nat : n < Cardinality(S) => \E c \in S : Cardinality(Below(c)) = n}
<1>0. \A c \in S : IsFiniteSet(Below(c)) /\ Cardinality(Below(c)) \in Nat
  BY FS_Subset, FS_CardinalityType
<1>1. 0 \in T
  <2> SUFFICES ASSUME 0 < Cardinality(S) PROVE \E c \in S : Cardinality(Below(c)) = 0
    OBVIOUS
  <2>1. S # {}
    BY FS_EmptySet
  <2>2. PICK c \in S : \A d \in S : c <= d
    BY <2>1, HasLeast
  <2>3. \A d \in S : ~(d < c)
    BY <2>2
  <2>4. Below(c) = {}
    BY <2>3
  <2> QED BY <2>4, FS_EmptySet
<1>2. ASSUME NEW n \in Nat, n \in T PROVE n + 1 \in T
  <2> SUFFICES ASSUME n + 1 < Cardinality(S)
               PROVE  \E c \in S : Cardinality(Below(c)) = n + 1
    OBVIOUS
  <2>1. Cardinality(S) \in Nat
    BY FS_CardinalityType
  <2>2. PICK c \in S : Cardinality(Below(c)) = n
    BY <1>2, <2>1
  <2> DEFINE Above == {d \in S : d > c}
  <2>3. Cardinality(Below(c) \cup {c}) = n + 1
    <3>1. c \notin Below(c)
      OBVIOUS
    <3> HIDE DEF Below
    <3> QED BY <1>0, <2>2, <3>1, FS_AddElement
  <2>4. Above # {}
    <3> SUFFICES ASSUME Above = {} PROVE FALSE
      OBVIOUS
    <3>1. \A d \in S : d < c \/ d = c
      OBVIOUS
    <3>2. S = Below(c) \cup {c}
      BY <3>1
    <3>3. Cardinality(S) = n + 1
      BY <2>3, <3>2, Zenon
    <3> QED BY <2>1, <3>3
  <2>5. PICK d \in Above : \A e \in Above : d <= e
    <3>1. Above \in SUBSET Nat
      OBVIOUS
    <3> HIDE DEF Above
    <3> QED BY <2>4, <3>1, HasLeast
  <2>6. Below(d) = Below(c) \cup {c}
    <3>1. \A e \in S : e < d <=> e < c \/ e = c
      <4>1. d \in Nat /\ c \in Nat /\ d > c /\ \A e \in S : e \in Nat /\ (e > c => d <= e)
        BY <2>5
      <4> QED BY <4>1
    <3> QED BY <3>1
  <2> QED BY <2>3, <2>5, <2>6
<1>3. Nat \subseteq T
  <2> HIDE DEF T
  <2> QED BY <1>1, <1>2, SetInduction
<1> QED BY <1>3

\* The closes of finitely many candles are a series from row 0 on.
LEMMA IndexedIs ==
  ASSUME NEW S \in SUBSET Nat, IsFiniteSet(S), S # {},
         NEW close, \A c \in S : close[c] \in Nat
  PROVE  /\ Cardinality(S) - 1 \in Nat
         /\ Series(Indexed(S, close), 0, Cardinality(S) - 1)
<1>1. Cardinality(S) \in Nat /\ Cardinality(S) # 0
  BY FS_CardinalityType, FS_EmptySet
<1>2. ASSUME NEW n \in 0 .. Cardinality(S) - 1
      PROVE  close[CHOOSE c \in S : Cardinality({d \in S : d < c}) = n] \in Nat
  <2>1. \E c \in S : Cardinality({d \in S : d < c}) = n
    BY <1>1, RowHasCandle
  <2>2. (CHOOSE c \in S : Cardinality({d \in S : d < c}) = n) \in S
    BY <2>1
  <2> QED BY <2>2
<1>3. /\ DOMAIN Indexed(S, close) = 0 .. Cardinality(S) - 1
      /\ \A n \in 0 .. Cardinality(S) - 1 : Indexed(S, close)[n] \in Nat
  BY <1>2 DEF Indexed
<1>4. 0 \in Nat /\ Cardinality(S) - 1 \in 0 .. Cardinality(S) - 1 /\ Cardinality(S) - 1 \in Nat
  BY <1>1
<1> QED BY <1>3, <1>4 DEF Series

-----------------------------------------------------------------------------
(* The indicators of a run of Gold *)

\* Bronze has had finitely many arrivals, so that every data set and what every run
\* has listed are finite.
Finite ==
  /\ IsFiniteSet(bronze)
  /\ \A d \in Dataset : IsFiniteSet(table[d])
  /\ \A e \in Execution : Running(e) => IsFiniteSet(run[e].source)

\* Nothing but arrivals adds candles, one at a time.
LEMMA FiniteNext == Types /\ Order /\ Finite /\ [Next]_vars => Finite'
<1> SUFFICES ASSUME Types, Order, Finite, [Next]_vars PROVE Finite'
  OBVIOUS
<1>1. ASSUME NEW c \in Candle, Arrive(c) PROVE Finite'
  <2>1. IsFiniteSet(bronze \cup {c})
    BY FS_AddElement DEF Finite
  <2> QED BY <1>1, <2>1 DEF Arrive, Finite, Running
<1>2. ASSUME NEW e \in Execution, Proceeds(e) PROVE Finite'
  BY <1>2 DEF Proceeds, Finite, Running
<1>3. ASSUME NEW e \in Execution, StartRun(e) \/ Restarts(e) PROVE Finite'
  <2>1. IsFiniteSet({})
    BY FS_EmptySet
  <2> QED BY <1>3, <2>1, StartStep DEF Restarts, Finite, Running
<1>4. ASSUME NEW e \in Execution, Load(e) PROVE Finite'
  <2>1. IsFiniteSet(Input(run[e].job))
    BY SilverAndGold DEF Input, Finite
  <2> QED BY <1>4, <2>1, LoadStep DEF Finite, Running
<1>5. ASSUME NEW e \in Execution, Changes(e) PROVE Finite'
  <2>1. IsFiniteSet(table[Target(e)] \cup run[e].source)
    BY <1>5, FS_Union DEF Changes, Finite, Running, Writing
  <2>2. IsFiniteSet(table'[Target(e)])
    BY <1>5, <2>1, FS_Subset DEF Changes
  <2> QED BY <1>5, <2>2 DEF Changes, Finite, Running
<1>6. ASSUME NEW e \in Execution, Leaves(e) PROVE Finite'
  BY <1>6 DEF Leaves, Finite, Running
<1>7. CASE UNCHANGED vars
  BY <1>7 DEF vars, Finite, Running
<1> QED BY <1>1, <1>2, <1>3, <1>4, <1>5, <1>6, <1>7, StepsOfNext

\* Every data set is finite, always.
LEMMA FiniteAlways == Spec => [](Types /\ Finite)
<1>1. Init => Finite
  BY FS_EmptySet DEF Init, Finite, Running
<1> QED BY <1>1, OrderInit, TypesNext, OrderNext, FiniteNext, PTL DEF Spec

\* The series a run computes indicators on have naturals in rows 0 .. N, unless
\* they are empty.
LEMMA ComputedSeriesAre ==
  ASSUME Types, Finite, NEW x \in ComputedSeries
  PROVE  \/ Rows(x) = {}
         \/ \E N \in Nat : Series(x, 0, N)
<1>1. PICK e \in Execution : /\ Running(e)
                            /\ \E close \in [run[e].source -> Price] :
                                 x = Indexed(run[e].source, close)
  BY DEF ComputedSeries, Writing, Running
<1> DEFINE S == run[e].source
<1>2. PICK close \in [S -> Price] : x = Indexed(S, close)
  BY <1>1
<1>3. IsFiniteSet(S) /\ S \in SUBSET Nat
  BY <1>1, TablesAssumption DEF Finite, Types, Running, Run
<1>4. \A c \in S : close[c] \in Nat
  BY <1>2, TablesAssumption
<1> HIDE DEF S
<1>5. CASE S = {}
  <2>1. Cardinality({}) = 0
    BY FS_EmptySet
  <2>2. 0 .. 0 - 1 = {}
    OBVIOUS
  <2>3. DOMAIN Indexed({}, close) = 0 .. Cardinality({}) - 1
    BY DEF Indexed
  <2>4. Rows(x) = {}
    BY <1>2, <1>5, <2>1, <2>2, <2>3 DEF Rows
  <2> QED BY <2>4
<1>6. CASE S # {}
  BY <1>2, <1>3, <1>4, <1>6, IndexedIs
<1> QED BY <1>5, <1>6

\* The rows of one EMA.
LEMMA OneEmaIsExact ==
  ASSUME NEW y, NEW start, NEW N \in Nat, Series(y, start, N),
         NEW s \in {Fast, Slow, Wilder}
  PROVE  ExactUntilOverflow(y, start, s)
<1>1. s.a \in Nat /\ s.q \in Nat /\ s.a < s.q
  BY TablesAssumption
<1> DEFINE a == s.a
           q == s.q
           ema == Ema(y, start, a, q)
           ref == Recurrence(y, start, a, q)
           finite == {n \in DOMAIN ema : IsFinite(ema[n])}
<1>2. /\ DOMAIN ema = start .. N
      /\ \A n \in start .. N : IsFinite(ema[n]) => \A m \in start .. n : IsFinite(ema[m])
      /\ \A n \in start .. N : IsFinite(ema[n]) /\ ~Vanishes(n, q, q - a) =>
           ema[n] = <<ref[n] * Power(q, start + 1) * Power(q - a, N)>>
  <2> HIDE DEF a, q
  <2> QED BY <1>1, EmaIs DEF a, q
<1>3. LastRow(y) = N
  BY LastRowIs
<1> HIDE DEF ema, ref
<1>4. ASSUME NEW n \in finite
      PROVE  /\ Vanishes(n, q, q - a) \/ SameAverage(y, start, a, q, ema[n], ref[n])
             /\ start .. n \subseteq finite
  <2>1. n \in start .. N /\ IsFinite(ema[n])
    BY <1>2
  <2>2. \A m \in start .. n : m \in start .. N
    BY <2>1 DEF Series
  <2>3. start .. n \subseteq finite
    BY <1>2, <2>1, <2>2
  <2>4. ~Vanishes(n, q, q - a) => SameAverage(y, start, a, q, ema[n], ref[n])
    <3> HIDE DEF a, q
    <3> QED BY <1>2, <1>3, <2>1 DEF SameAverage
  <2> QED BY <2>3, <2>4
<1> QED BY <1>4 DEF ExactUntilOverflow, ema, ref

\* What Gold writes as an EMA is the exponential moving average, of the closes and
\* of the gains and losses, as long as the weights of the closed form fit a double;
\* from the row where they no longer do, no row has an average (indicators.py).
THEOREM EmasAreExact == Spec => []EmaIsExactUntilOverflow
<1>1. ASSUME Types, Finite, NEW x \in ComputedSeries
      PROVE  /\ ExactUntilOverflow(x, 0, Fast) /\ ExactUntilOverflow(x, 0, Slow)
             /\ ExactUntilOverflow(Gain(x), 1, Wilder) /\ ExactUntilOverflow(Loss(x), 1, Wilder)
  <2>1. CASE Rows(x) = {}
    BY <2>1 DEF ExactUntilOverflow, Gain, Loss, Rows
  <2>2. ASSUME NEW N \in Nat, Series(x, 0, N)
        PROVE  /\ ExactUntilOverflow(x, 0, Fast) /\ ExactUntilOverflow(x, 0, Slow)
               /\ ExactUntilOverflow(Gain(x), 1, Wilder)
               /\ ExactUntilOverflow(Loss(x), 1, Wilder)
    <3>1. ExactUntilOverflow(x, 0, Fast) /\ ExactUntilOverflow(x, 0, Slow)
      BY <2>2, OneEmaIsExact
    <3>2. CASE 1 \in Rows(x)
      <4>1. Series(Gain(x), 1, N) /\ Series(Loss(x), 1, N)
        BY <2>2, <3>2, MovesAre
      <4> QED BY <3>1, <4>1, OneEmaIsExact
    <3>3. CASE 1 \notin Rows(x)
      <4>1. 1 \notin Rows(Gain(x)) /\ 1 \notin Rows(Loss(x))
        BY <3>3 DEF Gain, Loss, Rows
      <4> QED BY <3>1, <4>1 DEF ExactUntilOverflow
    <3> QED BY <3>2, <3>3
  <2> QED BY <1>1, <2>1, <2>2, ComputedSeriesAre
<1>2. Types /\ Finite => EmaIsExactUntilOverflow
  BY <1>1 DEF EmaIsExactUntilOverflow
<1> QED BY <1>2, FiniteAlways, PTL

\* The average of the gains, or of the losses, is positive as soon as there was one.
LEMMA AverageOfMoves ==
  ASSUME NEW y, NEW N \in Nat, Series(y, 1, N),
         NEW q \in Nat, NEW a \in Nat, 0 < a, a < q, NEW n \in 1 .. N,
         IsFinite(Ema(y, 1, a, q)[n]), ~Vanishes(n, q, q - a)
  PROVE  LET average == Ema(y, 1, a, q)[n] IN
         /\ average[1] \in Nat /\ average = <<average[1]>>
         /\ average[1] > 0 <=> \E m \in 1 .. n : y[m] > 0
<1> DEFINE e == Recurrence(y, 1, a, q)[n]
           u == Power(q, 1 + 1)
           v == Power(q - a, N)
<1>1. Ema(y, 1, a, q)[n] = <<e * u * v>>
  BY EmaIs
<1>2. e \in Nat /\ (e > 0 <=> \E m \in 1 .. n : y[m] > 0)
  BY AveragePositive
<1>3. u \in Nat /\ u > 0 /\ v \in Nat /\ v > 0
  <2>1. q - a \in Nat /\ q - a > 0 /\ q > 0 /\ 1 + 1 \in Nat
    OBVIOUS
  <2> QED BY <2>1, PowerPositive
<1> HIDE DEF e, u, v
<1>4. e * u * v \in Nat /\ (e * u * v > 0 <=> e > 0)
  <2>1. e * u \in Nat /\ (e * u > 0 <=> e > 0)
    BY <1>2, <1>3
  <2>2. \A w \in Nat : w * v \in Nat /\ (w * v > 0 <=> w > 0)
    BY <1>3
  <2> QED BY <2>1, <2>2
<1> QED BY <1>1, <1>2, <1>4

\* The rsi_14 that Gold writes is 100 where the close has only risen, 50 where it
\* has not moved, 0 where it has only fallen and strictly between 0 and 100 where it
\* has done both, without a division by 0: no gain or loss, however long ago, is
\* forgotten by the averages it is computed from.
THEOREM RsiIsRight == Spec => []RsiIsShareOfGains
<1> DEFINE a == Wilder.a
           q == Wilder.q
           Right(x, n) ==
             LET gain == Ema(Gain(x), 1, a, q)
                 loss == Ema(Loss(x), 1, a, q)
                 rose == \E m \in 1 .. n : x[m] > x[m - 1]
                 fell == \E m \in 1 .. n : x[m] < x[m - 1]
             IN  IsFinite(gain[n]) /\ IsFinite(loss[n]) /\ ~Vanishes(n, q, q - a) =>
                   LET rsi == Rsi(gain[n], loss[n]) IN
                   /\ rsi.den > 0
                   /\ rose /\ ~fell  => rsi.num = 100 * rsi.den
                   /\ ~rose /\ ~fell => rsi.num = 50 * rsi.den
                   /\ ~rose /\ fell  => rsi.num = 0
                   /\ rose /\ fell   => 0 < rsi.num /\ rsi.num < 100 * rsi.den
<1>0. a \in Nat /\ q \in Nat /\ 0 < a /\ a < q
  BY TablesAssumption
<1>1. ASSUME NEW x, NEW N \in Nat, Series(x, 0, N), 1 \in Rows(x)
      PROVE  DOMAIN Ema(Gain(x), 1, a, q) = 1 .. N /\ \A n \in 1 .. N : Right(x, n)
  <2> HIDE DEF a, q
  <2>1. /\ Series(Gain(x), 1, N) /\ Series(Loss(x), 1, N)
        /\ \A m \in 1 .. N : /\ Gain(x)[m] > 0 <=> x[m] > x[m - 1]
                             /\ Loss(x)[m] > 0 <=> x[m] < x[m - 1]
    BY <1>1, MovesAre
  <2>2. DOMAIN Ema(Gain(x), 1, a, q) = 1 .. N
    BY <1>0, <2>1, EmaIs
  <2>3. ASSUME NEW n \in 1 .. N, IsFinite(Ema(Gain(x), 1, a, q)[n]),
               IsFinite(Ema(Loss(x), 1, a, q)[n]), ~Vanishes(n, q, q - a)
        PROVE  Right(x, n)
    <3> DEFINE gain == Ema(Gain(x), 1, a, q)[n]
               loss == Ema(Loss(x), 1, a, q)[n]
               g == gain[1]
               l == loss[1]
    <3>1. g \in Nat /\ gain = <<g>> /\ (g > 0 <=> \E m \in 1 .. n : Gain(x)[m] > 0)
      BY <1>0, <2>1, <2>3, AverageOfMoves
    <3>2. l \in Nat /\ loss = <<l>> /\ (l > 0 <=> \E m \in 1 .. n : Loss(x)[m] > 0)
      BY <1>0, <2>1, <2>3, AverageOfMoves
    <3>3. \A m \in 1 .. n : m \in 1 .. N
      OBVIOUS
    <3>4. /\ g > 0 <=> \E m \in 1 .. n : x[m] > x[m - 1]
          /\ l > 0 <=> \E m \in 1 .. n : x[m] < x[m - 1]
      <4> HIDE DEF g, l
      <4>1. g > 0 <=> \E m \in 1 .. n : x[m] > x[m - 1]
        BY <2>1, <3>1, <3>3
      <4>2. l > 0 <=> \E m \in 1 .. n : x[m] < x[m - 1]
        BY <2>1, <3>2, <3>3
      <4> QED BY <4>1, <4>2
    <3> HIDE DEF g, l
    <3> DEFINE rsi == Rsi(<<g>>, <<l>>)
    <3>5. /\ rsi.den > 0
          /\ g > 0 /\ l = 0 => rsi.num = 100 * rsi.den
          /\ g = 0 /\ l = 0 => rsi.num = 50 * rsi.den
          /\ g = 0 /\ l > 0 => rsi.num = 0
          /\ g > 0 /\ l > 0 => 0 < rsi.num /\ rsi.num < 100 * rsi.den
      BY <3>1, <3>2, RsiIs
    <3> HIDE DEF rsi
    <3>6. (g = 0 <=> ~(g > 0)) /\ (l = 0 <=> ~(l > 0))
      BY <3>1, <3>2
    <3>7. rsi = Rsi(gain, loss)
      BY <3>1, <3>2 DEF rsi
    <3> QED BY <3>4, <3>5, <3>6, <3>7
  <2> QED BY <2>2, <2>3
<1>2. Types /\ Finite => RsiIsShareOfGains
  <2> SUFFICES ASSUME Types, Finite, NEW x \in ComputedSeries, 1 \in Rows(x)
               PROVE  \A n \in DOMAIN Ema(Gain(x), 1, a, q) : Right(x, n)
    BY DEF RsiIsShareOfGains
  <2>1. PICK N \in Nat : Series(x, 0, N)
    BY ComputedSeriesAre
  <2> HIDE DEF Right, a, q
  <2> QED BY <1>1, <2>1
<1> QED BY <1>2, FiniteAlways, PTL
=============================================================================
