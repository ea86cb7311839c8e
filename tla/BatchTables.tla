---------------------------- MODULE BatchTables ----------------------------
(***************************************************************************)
(* The tables the batch chain rebuilds, and the Spark jobs that overwrite  *)
(* them: silver-transformation, gold-indicators and serving-datamart.      *)
(*                                                                         *)
(* On AWS Gold lists the files of Silver once and then overwrites five     *)
(* data sets, computing each from the files it listed; on premises Gold    *)
(* writes one Hive table and serving-datamart reads it back and writes     *)
(* four PostgreSQL tables.  An overwrite empties its target first.  The    *)
(* chain is the one SingleFlight promises; a run may outlive the execution *)
(* that started it (BatchPipeline's LoseTrack; on premises YarnSubmit's    *)
(* ClientDies), and Bronze keeps growing, not always in the order of open  *)
(* times.                                                                  *)
(*                                                                         *)
(* A data set is the set of candles its rows are computed from; on         *)
(* premises only the chain itself is modelled, not its single-job DAGs.    *)
(***************************************************************************)
EXTENDS Indicators, Sequences

CONSTANTS
  Execution,  \* executions of the chain
  Candle,     \* candles of one series, numbered by open time
  Price,      \* closes used to check the indicators
  Fast, Slow, \* smoothing factors, as [a, q]: ema_12, ema_26
  Wilder,     \* smoothing factor of the RSI, as [a, q]
  NoRun       \* an execution has no Spark application

VARIABLES
  platform, \* "aws" or "local"
  stage,    \* stage of every execution, as in SingleFlight
  bronze,   \* candles in Bronze
  table,    \* rows of every data set the batch jobs write
  run,      \* the Spark application an execution has started
  raced,    \* executions one of which began beside a run the other had lost
  found     \* candles in Bronze when an execution began

vars == <<platform, stage, bronze, table, run, raced, found>>

Flight == INSTANCE SingleFlight

ServingTables == <<"market_indicators", "market_indicators_latest",
                   "market_multitimeframe_signals", "market_daily_summary">>

Dataset == {"silver", "gold"} \cup {ServingTables[i] : i \in DOMAIN ServingTables}

\* The third link of the chain is serving-datamart on premises; on AWS it is the
\* projection Lambda, which writes none of these data sets.
Job == IF platform = "local" THEN Flight!Chain ELSE {"silver", "gold"}

\* What a job overwrites, in the order it does.
Targets(job) ==
  CASE job = "silver" -> <<"silver">>
    [] job = "gold"   -> IF platform = "aws" THEN <<"gold">> \o ServingTables ELSE <<"gold">>
    [] OTHER          -> ServingTables

Loading(e) == run[e] # NoRun /\ run[e].next = 0
Writing(e) == run[e] # NoRun /\ run[e].next \in 1 .. Len(Targets(run[e].job))
Target(e)  == Targets(run[e].job)[run[e].next]

Awaited(e) == run[e] # NoRun /\ stage[e] = run[e].job

\* A Spark application: the job, which attempt at it, the data set it is at (0: it
\* has not listed its input yet), what it read, whether it still can, and whether
\* the data set it is at has been emptied.
Run == [job : Flight!Chain, attempt : 1 .. 2, next : 0 .. 6, source : SUBSET Candle,
        readable : BOOLEAN, emptied : BOOLEAN]

ASSUME TablesAssumption ==
  /\ Candle \subseteq Nat
  /\ NoRun \notin Run
  /\ Price \subseteq Nat
  /\ \A s \in {Fast, Slow, Wilder} : s.a \in Nat /\ s.q \in Nat /\ 0 < s.a /\ s.a < s.q

-----------------------------------------------------------------------------
(* The chain *)

\* bronze-ingestion appends a candle; a gap may be filled later.
Arrive(c) ==
  /\ c \notin bronze
  /\ bronze' = bronze \cup {c}
  /\ UNCHANGED <<platform, stage, table, run, raced, found>>

\* Executions whose run is still about when another one begins.
LeftBehind == {f \in Execution : run[f] # NoRun}

\* Nobody looks for the runs that earlier executions left behind.
Begin(e) ==
  /\ Flight!Begin(e)
  /\ found' = [found EXCEPT ![e] = bronze]
  /\ raced' = IF LeftBehind = {} THEN raced ELSE raced \cup {e} \cup LeftBehind
  /\ UNCHANGED <<platform, bronze, table, run>>

\* Glue admits one run of a job (max_concurrent_runs); YARN admits any.
Admitted(job) == platform = "aws" => \A f \in Execution : run[f] # NoRun => run[f].job # job

Started(job, attempt) == [job |-> job, attempt |-> attempt, next |-> 0, source |-> {},
                          readable |-> TRUE, emptied |-> FALSE]

StartRun(e) ==
  /\ stage[e] \in Job
  /\ run[e] = NoRun
  /\ Admitted(stage[e])
  /\ run' = [run EXCEPT ![e] = Started(stage[e], 1)]
  /\ UNCHANGED <<platform, stage, bronze, table, raced, found>>

\* The lease or the run is refused, or the third link of AWS fails.
StartFails(e) ==
  /\ run[e] = NoRun
  /\ Flight!Abandon(e)
  /\ UNCHANGED <<platform, bronze, table, run, raced, found>>

\* The execution gives up waiting and the run goes on: an error of .sync, or on
\* premises a spark-submit that dies while YARN runs its application.
LoseTrack(e) ==
  /\ Awaited(e)
  /\ Flight!Abandon(e)
  /\ UNCHANGED <<platform, bronze, table, run, raced, found>>

\* The projection Lambda of AWS answers.
ProjectionReturns(e) ==
  /\ stage[e] = "projection" /\ platform = "aws"
  /\ Flight!Advance(e)
  /\ UNCHANGED <<platform, bronze, table, run, raced, found>>

-----------------------------------------------------------------------------
(* One Spark application *)

\* What the job reads.
Input(job) ==
  CASE job = "silver" -> bronze
    [] job = "gold"   -> table["silver"]
    [] OTHER          -> table["gold"]

\* spark.read.load(path) lists the files of the input; an input without any
\* cannot be loaded.
Load(e) ==
  /\ Loading(e)
  /\ Input(run[e].job) # {}
  /\ run' = [run EXCEPT ![e].source = Input(run[e].job), ![e].next = 1]
  /\ UNCHANGED <<platform, stage, bronze, table, raced, found>>

\* f has listed files of data set d, and will read them.
Reads(f, d) ==
  run[f] # NoRun /\ run[f].next > 0
  /\ <<run[f].job, d>> \in {<<"gold", "silver">>, <<"projection", "gold">>}

\* mode("overwrite") deletes what the target holds; a run that listed those files
\* will not find them.
Overwrite(e) ==
  /\ Writing(e) /\ ~run[e].emptied
  /\ table' = [table EXCEPT ![Target(e)] = {}]
  /\ run' = [f \in Execution |->
               IF f = e THEN [run[f] EXCEPT !.emptied = TRUE]
               ELSE IF Reads(f, Target(e)) THEN [run[f] EXCEPT !.readable = FALSE]
               ELSE run[f]]
  /\ UNCHANGED <<platform, stage, bronze, raced, found>>

RelistedRows(e) == Input(run[e].job)

\* The rows of a data set being written: computed from the files listed at load.
WrittenRows(e) == run[e].source

\* Glue's admission keeps the writers of a data set apart; on premises only the
\* chain does, so two that raced may write one data set at a time.
Undisturbed(e) == platform = "aws" \/ e \notin raced

\* The rows a commit adds to those the target has.  Of two writers one may clear
\* away what the other has not committed yet.
CommittedRows(e) == IF Undisturbed(e) THEN {WrittenRows(e)} ELSE SUBSET WrittenRows(e)

\* Some tasks of the write have committed their files, or JDBC its batches.
WriteSome(e) ==
  /\ Writing(e) /\ run[e].emptied /\ run[e].readable
  /\ \E c \in WrittenRows(e) \ table[Target(e)] :
       table' = [table EXCEPT ![Target(e)] = @ \cup {c}]
  /\ UNCHANGED <<platform, stage, bronze, run, raced, found>>

CommitWithoutReset(e) ==
  /\ Writing(e) /\ run[e].emptied /\ run[e].readable
  /\ \E rows \in CommittedRows(e) : table' = [table EXCEPT ![Target(e)] = @ \cup rows]
  /\ run' = [run EXCEPT ![e].next = @ + 1]
  /\ UNCHANGED <<platform, stage, bronze, raced, found>>

\* The write is complete; the job goes on to its next data set.
CommitWrite(e) ==
  /\ Writing(e) /\ run[e].emptied /\ run[e].readable
  /\ \E rows \in CommittedRows(e) : table' = [table EXCEPT ![Target(e)] = @ \cup rows]
  /\ run' = [run EXCEPT ![e].next = @ + 1, ![e].emptied = FALSE]
  /\ UNCHANGED <<platform, stage, bronze, raced, found>>

Leave(e) ==
  /\ run' = [run EXCEPT ![e] = NoRun]
  /\ UNCHANGED <<platform, bronze, table, raced, found>>

FinishAfterFirstTarget(e) ==
  /\ run[e] # NoRun /\ run[e].next >= 2
  /\ IF Awaited(e) THEN Flight!Advance(e) ELSE UNCHANGED stage
  /\ Leave(e)

\* spark.stop() after the last data set: the run succeeds.
Finish(e) ==
  /\ run[e] # NoRun /\ run[e].next > Len(Targets(run[e].job))
  /\ IF Awaited(e) THEN Flight!Advance(e) ELSE UNCHANGED stage
  /\ Leave(e)

FailGoesOn(e) ==
  /\ run[e] # NoRun
  /\ IF Awaited(e) THEN Flight!Advance(e) ELSE UNCHANGED stage
  /\ Leave(e)

\* The application fails or is stopped, at any point; a missing input file is one
\* reason.  What it has written stays.
Fail(e) ==
  /\ run[e] # NoRun
  /\ IF Awaited(e) THEN Flight!Abandon(e) ELSE UNCHANGED stage
  /\ Leave(e)

\* YARN starts an application that fails once more, and its client goes on waiting
\* (yarn.resourcemanager.am.max-attempts is left at 2; glue_job_max_retries is 0).
Reattempt(e) ==
  /\ platform = "local"
  /\ run[e] # NoRun /\ run[e].attempt = 1
  /\ run' = [run EXCEPT ![e] = Started(run[e].job, 2)]
  /\ UNCHANGED <<platform, stage, bronze, table, raced, found>>

-----------------------------------------------------------------------------

Init ==
  /\ platform \in {"aws", "local"}
  /\ Flight!Init
  /\ bronze = {}
  /\ table = [d \in Dataset |-> {}]
  /\ run = [e \in Execution |-> NoRun]
  /\ raced = {}
  /\ found = [e \in Execution |-> {}]

Step(e) ==
  \/ Begin(e) \/ StartRun(e) \/ StartFails(e) \/ LoseTrack(e) \/ ProjectionReturns(e)
  \/ Load(e) \/ Overwrite(e) \/ WriteSome(e) \/ CommitWrite(e) \/ Finish(e) \/ Fail(e)
  \/ Reattempt(e)

Next == (\E c \in Candle : Arrive(c)) \/ (\E e \in Execution : Step(e))

Spec == Init /\ [][Next]_vars

-----------------------------------------------------------------------------
(* Properties of the tables *)

TypeOK ==
  /\ platform \in {"aws", "local"}
  /\ stage \in [Execution -> Flight!Stage]
  /\ bronze \subseteq Candle
  /\ table \in [Dataset -> SUBSET Candle]
  /\ run \in [Execution -> Run \cup {NoRun}]
  /\ \A e \in Execution : run[e] # NoRun =>
       /\ run[e].next <= Len(Targets(run[e].job)) + 1
       /\ run[e].emptied => Writing(e)
  /\ raced \subseteq Execution
  /\ found \in [Execution -> SUBSET Candle]

\* jobs/README.md, "full rebuild": the data sets a job has written up to now all
\* hold what it read when it started, whatever happens to its input and whichever
\* other runs are under way.  On premises this asks that nobody has begun beside a
\* run left behind: then two applications can be writing one data set.
WrittenSoFarIsOneGeneration ==
  \A e \in Execution : run[e] # NoRun /\ Undisturbed(e) =>
    \A i \in DOMAIN Targets(run[e].job) :
      i < run[e].next => table[Targets(run[e].job)[i]] = run[e].source

\* The chain repairs whatever earlier runs left behind: when it comes to its end,
\* every data set holds the same candles, and none is missing that Bronze held
\* when the chain began.  On premises this is a chain that no application of an
\* earlier one was still about to disturb.
ChainPublishesWhatItFound ==
  [][\A e \in Execution :
       /\ Awaited(e) /\ Finish(e) /\ Undisturbed(e)
       /\ run[e].job = IF platform = "aws" THEN "gold" ELSE "projection"
       =>
         \A d \in Dataset : found[e] \subseteq table[d] /\ table[d] = table["silver"]]_vars

\* The candles of a data set are never fewer than before the job that rewrote it,
\* unless its execution and another one have raced: a Gold run left behind can load
\* a Silver that the next chain has only half rewritten.
RebuildLosesNothing ==
  [][\A e \in Execution :
       e \notin raced /\ Loading(e) /\ run[e].job = "gold" /\ Load(e) =>
         table["gold"] \subseteq run'[e].source]_vars

-----------------------------------------------------------------------------
(* Properties of the indicators, for every sequence of closes that the data set
   Gold is about to overwrite may have (what a run has listed does not change
   while it writes, so a run that has emptied the target adds no series) *)

ComputedSeries ==
  UNION {{Indexed(run[e].source, close) : close \in [run[e].source -> Price]} :
            e \in {f \in Execution : Writing(f) /\ run[f].job = "gold" /\ ~run[f].emptied}}

\* The averages of y from row start on are exact where they are finite, as long as
\* beta^n is positive; once a row has none no later row has, so that the latest row
\* of such a series is lost.
ExactUntilOverflow(y, start, s) ==
  start \in Rows(y) =>
    LET ema == Ema(y, start, s.a, s.q)
        ref == Recurrence(y, start, s.a, s.q)
        finite == {n \in DOMAIN ema : IsFinite(ema[n])}
    IN  \A n \in finite :
          /\ Vanishes(n, s.q, s.q - s.a) \/ SameAverage(y, start, s.a, s.q, ema[n], ref[n])
          /\ start .. n \subseteq finite

\* indicators.py: the closed form gives the exponential moving average of the
\* closes (from row 0) and of the gains and losses (from row 1) until it
\* overflows, and nothing that looks like an average from then on.  (A series
\* that reaches the row where beta^n is 0 without an overflow, as gains or losses
\* of 0 can, has an average of 0 from there on, whatever it does.)
EmaIsExactUntilOverflow ==
  \A x \in ComputedSeries :
    /\ ExactUntilOverflow(x, 0, Fast) /\ ExactUntilOverflow(x, 0, Slow)
    /\ ExactUntilOverflow(Gain(x), 1, Wilder) /\ ExactUntilOverflow(Loss(x), 1, Wilder)

\* The RSI is 100 for a series that only rises, 50 for one that has not moved,
\* and the share of gains otherwise, with no division by zero, as long as its
\* averages are finite and beta^n is positive.
RsiIsShareOfGains ==
  \A x \in ComputedSeries : 1 \in Rows(x) =>
    LET gain == Ema(Gain(x), 1, Wilder.a, Wilder.q)
        loss == Ema(Loss(x), 1, Wilder.a, Wilder.q)
        rose(n) == \E m \in 1 .. n : x[m] > x[m - 1]
        fell(n) == \E m \in 1 .. n : x[m] < x[m - 1]
    IN  \A n \in DOMAIN gain :
          IsFinite(gain[n]) /\ IsFinite(loss[n])
          /\ ~Vanishes(n, Wilder.q, Wilder.q - Wilder.a) =>
          LET rsi == Rsi(gain[n], loss[n]) IN
          /\ rsi.den > 0
          /\ rose(n) /\ ~fell(n)  => rsi.num = 100 * rsi.den
          /\ ~rose(n) /\ ~fell(n) => rsi.num = 50 * rsi.den
          /\ ~rose(n) /\ fell(n)  => rsi.num = 0
          /\ rose(n) /\ fell(n)   => 0 < rsi.num /\ rsi.num < 100 * rsi.den
=============================================================================
